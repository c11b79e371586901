------------------------------ MODULE IpacmNat ------------------------------
(***************************************************************************)
(* The NAT entries of ipacm: NatApp, which mirrors the NAT table of the    *)
(* IPA hardware in a cache, and IPACM_ConntrackListener, which feeds it    *)
(* from the kernel's connection tracking and from the interfaces.          *)
(*                                                                         *)
(* Every handler runs on the one thread of the event queue (IpacmEvents).  *)
(* A connection is a record of its two ends; `alg' tells that one of its   *)
(* ports is in the list of ALG ports.  The ports themselves, curCnt and    *)
(* nonnat_iface_ipv4_addr (only written) and the threads that refresh the  *)
(* kernel's timeouts are left out.                                         *)
(* The driver may refuse to delete a rule or the table.  A table that it   *)
(* could not delete is unmapped, and counted, all the same: a process that *)
(* touches a rule of it dies, and one that gets memory for the next table  *)
(* writes past ip4_tbl[]; no step is left to take.  When the memory is     *)
(* refused the handle is lost, and the hardware keeps the old rules.       *)
(***************************************************************************)
EXTENDS Integers, FiniteSets, FiniteSetsExt, Functions

CONSTANTS
  Clients,      \* addresses of the tethered clients, all in a private subnet
  Peers,        \* addresses beyond the WAN
  StaNet,       \* the peers in the subnet of the STA clients
  Pubs,         \* addresses of the WAN interface
  NoIp,         \* 0.0.0.0
  Conns,        \* the connections that conntrack may report
  NoConn,       \* what a zeroed entry holds
  MaxEntries,   \* max_entries
  MaxTemp,      \* MAX_TEMP_ENTRIES
  MaxPwrSave,   \* IPA_MAX_NUM_WIFI_CLIENTS
  MaxSta,       \* MAX_STA_CLNT_IFACES
  MaxNat        \* MAX_NAT_IFACES

ASSUME NatAssumption ==
  /\ StaNet \subseteq Peers /\ NoIp \notin Clients \cup Peers \cup Pubs /\ NoIp # NoConn
  /\ NoConn \notin Clients \cup Peers \cup Pubs
  /\ Conns \subseteq [priv : Clients \cup Pubs, tgt : Peers, alg : BOOLEAN] /\ NoConn \notin Conns
  /\ {MaxEntries, MaxTemp, MaxPwrSave, MaxSta, MaxNat} \subseteq Nat \ {0}

Slots   == 1..MaxEntries
Handles == 1..MaxEntries
TempSlots    == 1..MaxTemp
PwrSaveSlots == 1..MaxPwrSave
StaSlots     == 1..MaxSta
NatSlots     == 1..MaxNat

VARIABLES
  cache,             \* NatApp::cache
  temp,              \* connections of clients that are not known yet
  PwrSaveIfs,
  pub_ip_addr, pub_ip_addr_pre,
  table,             \* nat_table_hdl # 0
  rules,             \* external: the rules in the table of the driver, by handle
  torn,              \* the last table could not be deleted, but is unmapped; its rules stay
  nat_iface_ipv4_addr,
  sta_clnt_ipv4_addr, StaClntCnt,
  WanUp, isStaMode, wan_ipaddr,
  renumbered,        \* history: the table was made for another address, with entries enabled
  spared,            \* history: clients asleep or not on the list whose rules the driver refused
                     \* to delete, or were installed all the same
  refused,           \* history: handles whose entry is zeroed though the driver refused to delete
  ended              \* history: connections whose end was the last that was handled

app      == <<cache, temp, PwrSaveIfs, pub_ip_addr, pub_ip_addr_pre, table, rules, torn>>
listener == <<nat_iface_ipv4_addr, sta_clnt_ipv4_addr, StaClntCnt, WanUp, isStaMode, wan_ipaddr>>
history  == <<renumbered, spared, refused, ended>>
vars     == <<app, listener, history>>

Zero    == [conn |-> NoConn, enabled |-> FALSE, rule_hdl |-> 0]
Used(s) == cache[s].conn # NoConn
Private(ip) == {s \in Slots : Used(s) /\ cache[s].conn.priv = ip}
Asleep   == Range(PwrSaveIfs)
Listed   == Range(nat_iface_ipv4_addr)
\* The clients for which nothing should be offloaded: those asleep and those that are not known.
Unwanted == (Asleep \cap Clients) \cup (Clients \ Listed)

\* PwrSaveIfs, pub_ip_addr_pre, isStaMode and wan_ipaddr are not initialised: what the memory
\* held is no client's address, but may be one that the WAN interface gets.
Garbage == NoConn

Init ==
  /\ cache = [s \in Slots |-> Zero] /\ temp = [s \in TempSlots |-> NoConn]
  /\ PwrSaveIfs \in [PwrSaveSlots -> {NoIp, Garbage}]
  /\ pub_ip_addr = NoIp /\ pub_ip_addr_pre \in Pubs \cup {NoIp}
  /\ table = FALSE /\ rules = [h \in Handles |-> NoConn]
  /\ torn = FALSE /\ nat_iface_ipv4_addr = [s \in NatSlots |-> NoIp]
  /\ sta_clnt_ipv4_addr = [s \in StaSlots |-> NoIp] /\ StaClntCnt = 0
  /\ WanUp = FALSE /\ isStaMode \in BOOLEAN /\ wan_ipaddr = NoIp
  /\ renumbered = FALSE /\ spared = {} /\ refused = {} /\ ended = {}

-----------------------------------------------------------------------------
(* The driver's table: a rule is added under any handle that is free, or   *)
(* not at all.  To delete fails without a table and for an unused handle,  *)
(* and may fail otherwise; the rule is then kept.                          *)

Free(rs) == {h \in Handles : rs[h] = NoConn}

HasRule(s) == table /\ cache[s].rule_hdl \in Handles /\ rules[cache[s].rule_hdl] # NoConn

\* ipa_nat_del_ipv4_rule() for the entries of S: those it succeeds for.  Of two with one handle
\* only one can.  There is no outcome if it touches memory that is unmapped.
Deletions(S) ==
  {gone \in SUBSET S :
     /\ torn => \A s \in S : ~HasRule(s)
     /\ \A s \in gone : HasRule(s)
     /\ \A s, t \in gone : cache[s].rule_hdl = cache[t].rule_hdl => s = t}

Enabled(S) == {s \in S : cache[s].enabled}

Without(gone) ==
  [h \in Handles |-> IF \E s \in gone : cache[s].rule_hdl = h THEN NoConn ELSE rules[h]]

\* The entries S are added to the rules rs: an entry the driver refuses is zeroed.
Install(S, rs, hasTable) ==
  /\ torn /\ hasTable => S = {}
  /\ \E good \in SUBSET S :
       \E hdl \in [good -> Free(rs)] :
         /\ IsInjective(hdl) /\ (hasTable \/ good = {})
         /\ cache' = [s \in Slots |->
                        IF s \notin S THEN cache[s]
                        ELSE IF s \in good THEN [cache[s] EXCEPT !.enabled = TRUE, !.rule_hdl = hdl[s]]
                        ELSE Zero]
         /\ rules' = [h \in Handles |->
                        IF h \in Range(hdl) THEN cache[CHOOSE s \in good : hdl[s] = h].conn ELSE rs[h]]

-----------------------------------------------------------------------------
(* NatApp                                                                  *)

\* Mutant of AddTable: only the entries that are not enabled are installed.
AddTableDisabled(pub, made) ==
  \/ /\ ~made /\ table' = FALSE
     /\ UNCHANGED <<cache, rules, pub_ip_addr, renumbered, spared>>
  \/ /\ made /\ ~table /\ ~torn
     /\ table' = TRUE /\ pub_ip_addr' = pub
     /\ Install(IF pub = pub_ip_addr_pre THEN {s \in Slots : Used(s) /\ ~cache[s].enabled} ELSE {},
                [h \in Handles |-> NoConn], TRUE)
     /\ renumbered' = (pub # pub_ip_addr_pre /\ \E s \in Slots : cache[s].enabled)
     /\ spared' = Unwanted \cap {rules'[h].priv : h \in {g \in Handles : rules'[g] # NoConn}}

\* The handle is cleared before anything else, and the driver has one table: there is no outcome
\* when it makes another (see above).  For the address of the last table the cache is installed
\* again, for another one it is kept as it is: Reset() compares `enabled' where it should clear it.
AddTable(pub, made) ==
  \/ /\ ~made /\ table' = FALSE
     /\ UNCHANGED <<cache, rules, pub_ip_addr, renumbered, spared>>
  \/ /\ made /\ ~table /\ ~torn
     /\ table' = TRUE /\ pub_ip_addr' = pub
     /\ Install(IF pub = pub_ip_addr_pre THEN {s \in Slots : Used(s)} ELSE {},
                [h \in Handles |-> NoConn], TRUE)
     /\ renumbered' = (pub # pub_ip_addr_pre /\ \E s \in Slots : cache[s].enabled)
     /\ spared' = Unwanted \cap {rules'[h].priv : h \in {g \in Handles : rules'[g] # NoConn}}

\* DeleteTable() and Reset().  When the driver fails, table and address stay, and its next
\* attempt fails too: it has closed the device already.
DeleteTable(pub, ok) ==
  IF table /\ ~torn /\ pub = pub_ip_addr
  THEN \/ /\ ok /\ table' = FALSE /\ rules' = [h \in Handles |-> NoConn] /\ refused' = {} /\ spared' = {}
          /\ pub_ip_addr_pre' = pub_ip_addr /\ pub_ip_addr' = NoIp /\ UNCHANGED torn
       \/ /\ ~ok /\ torn' = TRUE
          /\ UNCHANGED <<table, rules, refused, spared, pub_ip_addr, pub_ip_addr_pre>>
  ELSE UNCHANGED <<table, rules, torn, refused, spared, pub_ip_addr, pub_ip_addr_pre>>

ChkForDup(k) == \E s \in Slots : cache[s].conn = k

\* A connection of a client asleep is cached only.
AddEntry(k) ==
  LET free == {s \in Slots : ~Used(s)} IN
  IF ~table \/ k.alg \/ ChkForDup(k) \/ free = {} THEN UNCHANGED <<cache, rules>>
  ELSE IF k.priv \in Asleep \/ k.tgt \in Asleep
  THEN /\ cache' = [cache EXCEPT ![Min(free)] = [Zero EXCEPT !.conn = k]]
       /\ UNCHANGED rules
  ELSE /\ ~torn
       /\ \/ UNCHANGED <<cache, rules>>
          \/ \E h \in Free(rules) :
               /\ cache' = [cache EXCEPT ![Min(free)] = [conn |-> k, enabled |-> TRUE, rule_hdl |-> h]]
               /\ rules' = [rules EXCEPT ![h] = k]

\* The loop starts from a variable without a value: the entry goes to any free slot, or to none
\* (past the end of the cache, which is memory that is not modelled).
CacheEntry(k) ==
  /\ UNCHANGED rules
  /\ \/ UNCHANGED cache
     \/ \E s \in Slots : ~Used(s) /\ ~ChkForDup(k) /\ cache' = [cache EXCEPT ![s] = [Zero EXCEPT !.conn = k]]

\* A deletion that fails is only logged: the entry is zeroed and its rule stays.
DeleteEntry(k) ==
  LET S == {s \in Slots : cache[s].conn = k} IN
  \E gone \in Deletions(Enabled(S)) :
    /\ rules' = Without(gone)
    /\ cache' = [s \in Slots |-> IF s \in S THEN Zero ELSE cache[s]]
    /\ refused' = {h \in refused : rules'[h] # NoConn}
                    \cup {h \in Handles : rules[h] = k /\ \E s \in Enabled(S) \ gone : cache[s].rule_hdl = h}

\* The entries of `on' whose rule is deleted become off[s], the others stay.
Disable(on, off) ==
  \E gone \in Deletions(on) :
    /\ rules' = Without(gone)
    /\ cache' = [s \in Slots |-> IF s \in gone THEN off[s] ELSE cache[s]]
    /\ refused' = {h \in refused : rules'[h] # NoConn}

\* Whether the driver refused to delete a rule of the entries S.
RuleLeft(S) == \E s \in S : cache[s].enabled /\ rules'[cache[s].rule_hdl] # NoConn
Spare(ip) == spared' = IF RuleLeft(Private(ip)) THEN spared \cup {ip} ELSE spared \ {ip}

FirstOf(arr, x) == Min({s \in DOMAIN arr : arr[s] = x})
Replace(arr, x, y) == IF x \in Range(arr) THEN [arr EXCEPT ![FirstOf(arr, x)] = y] ELSE arr

\* Mutant of UpdatePwrSaveIf: the client is put on the list and its rules are kept.
UpdatePwrSaveIfOnly(ip) ==
  /\ PwrSaveIfs' = Replace(PwrSaveIfs, NoIp, ip)
  /\ UNCHANGED <<cache, rules, refused, spared>>

\* A client on the list already is left alone.  An entry whose rule cannot be deleted stays enabled.
UpdatePwrSaveIf(ip) ==
  IF ip \in Asleep THEN UNCHANGED <<PwrSaveIfs, cache, rules, refused, spared>>
  ELSE /\ PwrSaveIfs' = Replace(PwrSaveIfs, NoIp, ip)
       /\ Disable(Enabled(Private(ip)), [s \in Slots |-> [cache[s] EXCEPT !.enabled = FALSE, !.rule_hdl = 0]])
       /\ Spare(ip)

\* The client leaves the list and its entries are installed again, on the list of clients or not.
ResetPwrSaveIf(ip) ==
  /\ PwrSaveIfs' = Replace(PwrSaveIfs, ip, NoIp)
  /\ Install({s \in Private(ip) : ~cache[s].enabled}, rules, table)
  /\ spared' = IF ip \in Listed' THEN spared \ {ip} ELSE IF table THEN spared \cup {ip} ELSE spared

AddTempEntry(k)    == temp' = Replace(temp, NoConn, k)
DeleteTempEntry(k) == temp' = Replace(temp, k, NoConn)

\* No temporary entry has a public address (it is set only for the connections of the WAN address
\* itself): while a table is up they are dropped, else AddEntry() is tried, refuses, and they stay.
FlushTempEntries(ip, isAdd) ==
  temp' = [s \in TempSlots |->
             IF /\ temp[s] # NoConn /\ ip \in {temp[s].priv, temp[s].tgt}
                /\ ~(isAdd /\ pub_ip_addr = NoIp)
             THEN NoConn ELSE temp[s]]

\* The entries of the client stay in the cache, disabled (their handles are kept); one whose rule
\* cannot be deleted stays enabled.
DelEntriesOnClntDiscon(ip) ==
  /\ PwrSaveIfs' = Replace(PwrSaveIfs, ip, NoIp)
  /\ Disable(Enabled(Private(ip)), [s \in Slots |-> [cache[s] EXCEPT !.enabled = FALSE]])
  /\ Spare(ip)

\* An entry whose rule cannot be deleted is kept.
DelEntriesOnSTAClntDiscon(ip) ==
  LET S == {s \in Slots : Used(s) /\ cache[s].conn.tgt = ip} IN
  \E gone \in Deletions(Enabled(S)) :
    /\ rules' = Without(gone)
    /\ cache' = [s \in Slots |-> IF s \in (S \ Enabled(S)) \cup gone THEN Zero ELSE cache[s]]
    /\ refused' = {h \in refused : rules'[h] # NoConn}

-----------------------------------------------------------------------------
(* IPACM_ConntrackListener                                                 *)

\* HandleNeighIpAddrAddEvt(): a client on an interface of the NAT list takes the first slot that is
\* free, unless it is in one before.  On another interface, or when the slots are taken, only the
\* temporary entries are dropped (not even they once the other list is full, which is no step here).
HandleNeighIpAddrAddEvt(ip, isNatIface) ==
  LET slots == {s \in NatSlots : nat_iface_ipv4_addr[s] \in {ip, NoIp}} IN
  /\ \/ /\ isNatIface /\ slots # {} /\ nat_iface_ipv4_addr[Min(slots)] = NoIp
        /\ nat_iface_ipv4_addr' = [nat_iface_ipv4_addr EXCEPT ![Min(slots)] = ip]
        /\ ResetPwrSaveIf(ip)
        /\ FlushTempEntries(ip, TRUE)
     \/ /\ ~isNatIface \/ slots = {}
        /\ FlushTempEntries(ip, FALSE)
        /\ UNCHANGED <<nat_iface_ipv4_addr, PwrSaveIfs, cache, rules, spared>>
  /\ UNCHANGED <<pub_ip_addr, pub_ip_addr_pre, table, torn, sta_clnt_ipv4_addr, StaClntCnt,
                 WanUp, isStaMode, wan_ipaddr, renumbered, refused, ended>>

\* Every slot with the address is cleared.
HandleNeighIpAddrDelEvt(ip) ==
  /\ nat_iface_ipv4_addr' = [s \in NatSlots |-> IF nat_iface_ipv4_addr[s] = ip THEN NoIp
                                                                             ELSE nat_iface_ipv4_addr[s]]
  /\ FlushTempEntries(ip, FALSE)
  /\ DelEntriesOnClntDiscon(ip)
  /\ UNCHANGED <<pub_ip_addr, pub_ip_addr_pre, table, torn, sta_clnt_ipv4_addr, StaClntCnt,
                 WanUp, isStaMode, wan_ipaddr, renumbered, ended>>

\* handle_wlan_client_pwrsave() and IPA_WLAN_CLIENT_RECOVER_EVENT.
PowerSave(ip) ==
  /\ UpdatePwrSaveIf(ip)
  /\ UNCHANGED <<temp, pub_ip_addr, pub_ip_addr_pre, table, torn, listener, renumbered, ended>>

Recover(ip) ==
  /\ UNCHANGED <<temp, pub_ip_addr, pub_ip_addr_pre, table, torn, listener, renumbered, refused, ended>>
  /\ ResetPwrSaveIf(ip)

\* IPA_HANDLE_WAN_UP; the driver may fail to make the table.
TriggerWANUp(pub, sta, made) ==
  /\ ~WanUp
  /\ WanUp' = TRUE /\ isStaMode' = sta /\ wan_ipaddr' = pub
  /\ AddTable(pub, made)
  /\ UNCHANGED <<temp, PwrSaveIfs, pub_ip_addr_pre, torn, nat_iface_ipv4_addr, sta_clnt_ipv4_addr,
                 StaClntCnt, refused, ended>>

\* IPA_HANDLE_WAN_DOWN, with the address that the interface told when it came up; the driver may
\* fail to delete the table.
TriggerWANDown(ok) ==
  /\ WanUp
  /\ WanUp' = FALSE
  /\ DeleteTable(wan_ipaddr, ok)
  /\ UNCHANGED <<cache, temp, PwrSaveIfs, nat_iface_ipv4_addr, sta_clnt_ipv4_addr, StaClntCnt,
                 isStaMode, wan_ipaddr, renumbered, ended>>

HandleSTAClientAddEvt(ip) ==
  LET slots == {s \in StaSlots : sta_clnt_ipv4_addr[s] \in {ip, NoIp}} IN
  /\ StaClntCnt < MaxSta /\ slots # {} /\ sta_clnt_ipv4_addr[Min(slots)] = NoIp
  /\ sta_clnt_ipv4_addr' = [sta_clnt_ipv4_addr EXCEPT ![Min(slots)] = ip]
  /\ StaClntCnt' = StaClntCnt + 1
  /\ UNCHANGED <<app, nat_iface_ipv4_addr, WanUp, isStaMode, wan_ipaddr, history>>

\* The first slot with the address is cleared.
HandleSTAClientDelEvt(ip) ==
  /\ ip \in Range(sta_clnt_ipv4_addr)
  /\ sta_clnt_ipv4_addr' = Replace(sta_clnt_ipv4_addr, ip, NoIp)
  /\ StaClntCnt' = StaClntCnt - 1
  /\ DelEntriesOnSTAClntDiscon(ip)
  /\ UNCHANGED <<temp, PwrSaveIfs, pub_ip_addr, pub_ip_addr_pre, table, torn, nat_iface_ipv4_addr,
                 WanUp, isStaMode, wan_ipaddr, renumbered, spared, ended>>

\* The decisions of ProcessTCPorUDPMsg(): a client that is not known makes a temporary entry; a
\* connection of the WAN address itself is for the current address and not in STA mode; in STA
\* mode a peer in the subnet of the first STA client must be one of the first StaClntCnt of them.
Temporary(k) == k.priv \in Clients /\ k.priv \notin Listed
StaPeer(k) ==
  \/ ~isStaMode \/ StaClntCnt = 0
  \/ ~(sta_clnt_ipv4_addr[1] \in StaNet /\ k.tgt \in StaNet)
  \/ \E s \in 1..StaClntCnt : sta_clnt_ipv4_addr[s] = k.tgt
Processed(k) ==
  /\ k.priv \in Pubs => k.priv = wan_ipaddr /\ ~isStaMode
  /\ StaPeer(k)

\* TCP established, UDP new.
Established(k) ==
  /\ Processed(k)
  /\ \/ /\ ~WanUp /\ CacheEntry(k) /\ UNCHANGED temp
     \/ /\ WanUp /\ Temporary(k) /\ AddTempEntry(k) /\ UNCHANGED <<cache, rules>>
     \/ /\ WanUp /\ ~Temporary(k) /\ AddEntry(k) /\ UNCHANGED temp
  /\ ended' = ended \ {k}
  /\ UNCHANGED <<PwrSaveIfs, pub_ip_addr, pub_ip_addr_pre, table, torn, listener, renumbered, spared, refused>>

\* TCP FIN_WAIT, or destroyed.  For a client that has left only a temporary entry is looked for.
Destroyed(k) ==
  /\ Processed(k)
  /\ IF Temporary(k)
     THEN DeleteTempEntry(k) /\ UNCHANGED <<cache, rules, refused, ended>>
     ELSE DeleteEntry(k) /\ ended' = ended \cup {k} /\ UNCHANGED temp
  /\ UNCHANGED <<PwrSaveIfs, pub_ip_addr, pub_ip_addr_pre, table, torn, listener, renumbered, spared>>

Next ==
  \/ \E ip \in Clients, isNat \in BOOLEAN : HandleNeighIpAddrAddEvt(ip, isNat)
  \/ \E ip \in Clients : HandleNeighIpAddrDelEvt(ip)
  \/ \E ip \in Clients : PowerSave(ip)
  \/ \E ip \in Clients : Recover(ip)
  \/ \E pub \in Pubs, sta, made \in BOOLEAN : TriggerWANUp(pub, sta, made)
  \/ \E ok \in BOOLEAN : TriggerWANDown(ok)
  \/ \E ip \in StaNet : HandleSTAClientAddEvt(ip)
  \/ \E ip \in StaNet : HandleSTAClientDelEvt(ip)
  \/ \E k \in Conns : Established(k)
  \/ \E k \in Conns : Destroyed(k)

Spec == Init /\ [][Next]_vars

-----------------------------------------------------------------------------
TypeOK ==
  /\ cache \in [Slots -> [conn : Conns \cup {NoConn}, enabled : BOOLEAN, rule_hdl : 0..MaxEntries]]
  /\ temp \in [TempSlots -> Conns \cup {NoConn}]
  /\ PwrSaveIfs \in [PwrSaveSlots -> Clients \cup {NoIp, Garbage}]
  /\ {pub_ip_addr, pub_ip_addr_pre, wan_ipaddr} \subseteq Pubs \cup {NoIp}
  /\ {table, torn, WanUp, isStaMode, renumbered} \subseteq BOOLEAN
  /\ rules \in [Handles -> Conns \cup {NoConn}]
  /\ nat_iface_ipv4_addr \in [NatSlots -> Clients \cup {NoIp}]
  /\ spared \subseteq Clients /\ refused \subseteq Handles /\ ended \subseteq Conns
  /\ sta_clnt_ipv4_addr \in [StaSlots -> StaNet \cup {NoIp}] /\ StaClntCnt \in 0..MaxSta

\* No rule of the hardware is forgotten, but those whose deletion DeleteEntry() saw fail: an enabled
\* entry of the cache has its handle and its connection, also after handles have gone stale or another
\* deletion failed, so that it can be deleted later.
NoRuleForgotten ==
  \A h \in Handles \ refused : rules[h] # NoConn =>
    \E s \in Slots : cache[s].enabled /\ cache[s].rule_hdl = h /\ cache[s].conn = rules[h]

\* The handle of an enabled entry is that of its own rule while a table is up, as long as no table
\* was made for another address: a deletion then never takes the rule of another connection.
HandlesAreOwn ==
  table /\ ~renumbered =>
    \A s \in Slots : cache[s].enabled => rules[cache[s].rule_hdl] = cache[s].conn

\* A connection has at most one entry, whichever of AddEntry() and CacheEntry() made it.
NoDuplicates ==
  \A s, t \in Slots : Used(s) /\ cache[s].conn = cache[t].conn => s = t

\* The hardware translates nothing for a client in power save, nor for one that has left or is not
\* known, except for what the driver refused to delete, what AddTable() and ResetPwrSaveIf()
\* installed all the same, and what a stale handle keeps.
UnwantedNotOffloaded ==
  ~renumbered => \A h \in Handles \ refused : rules[h] # NoConn => rules[h].priv \notin Unwanted \ spared

\* Once the end of a connection of a known client has been handled, the hardware does not
\* translate it, unless the driver refused to delete its rule then, and no WAN up or client
\* coming back brings its rule back.
EndedStaysAway ==
  \A h \in Handles \ refused : rules[h] \notin ended

\* A table exists only while the WAN is up, and it is the table of the WAN's address, as long as
\* the driver deletes it when it is told to.
TableOfWan ==
  table /\ ~torn => WanUp /\ pub_ip_addr = wan_ipaddr

\* The cache and the table of the hardware: no rule without its entry, no entry with a
\* handle of another rule, and no connection twice.
CacheMatchesTable == TypeOK /\ NoRuleForgotten /\ HandlesAreOwn /\ NoDuplicates

\* What is offloaded should be: not for a client asleep or unknown, nor after the end of the
\* connection, nor on a table of another upstream.
OffloadedOnlyWanted == UnwantedNotOffloaded /\ EndedStaysAway /\ TableOfWan
=============================================================================
