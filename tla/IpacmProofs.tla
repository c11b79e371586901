----------------------------- MODULE IpacmProofs -----------------------------
(***************************************************************************)
(* ipacm itself, for any number of entries, clients and connections, of    *)
(* interfaces, reports and objects:                                        *)
(*   the cache of NatApp and the NAT table of the hardware                 *)
(*   (CacheMatchesTable, OffloadedOnlyWanted);                             *)
(*   the event queue, the walk over the listeners and the objects that     *)
(*   serve the interfaces (ListenersAgree, CountsAgree).                   *)
(***************************************************************************)
EXTENDS IpacmNat, IpacmEvents, FiniteSetTheorems, SequenceTheorems, TLAPS

\* An entry is enabled with a connection and a handle of the driver.
EntryInv ==
  \A s \in Slots : cache[s].enabled => Used(s) /\ cache[s].rule_hdl \in Handles

\* The rules go with their table, when the driver could delete it.
NoTableNoRules == ~table /\ ~torn => \A h \in Handles : rules[h] = NoConn

\* A connection whose end was handled is in no entry that could be installed again.
EndedNotCached == \A s \in Slots : cache[s].conn \notin ended

\* A client is once in the list of those asleep, so that taking its first place out is enough.
SleepersOnce ==
  \A i, j \in PwrSaveSlots :
    PwrSaveIfs[i] \in Clients /\ PwrSaveIfs[i] = PwrSaveIfs[j] => i = j

\* StaClntCnt counts the slots that are taken.
StaInv == StaClntCnt = Cardinality({s \in StaSlots : sta_clnt_ipv4_addr[s] # NoIp})

\* The cache against the table: what every operation of NatApp keeps.
CoreInv == EntryInv /\ NoRuleForgotten /\ HandlesAreOwn /\ NoDuplicates /\ NoTableNoRules

IndInv ==
  /\ TypeOK /\ CoreInv
  /\ EndedNotCached /\ SleepersOnce /\ UnwantedNotOffloaded
  /\ TableOfWan /\ StaInv

-----------------------------------------------------------------------------
(* The smallest element of a set of numbers.                               *)

LEMMA MinExists ==
  ASSUME NEW S \in SUBSET Nat, S # {}
  PROVE  \E x \in S : \A y \in S : x <= y
  <1>1. \E x \in S : \A y \in S : ~ (<<y, x>> \in OpToRel(<, Nat))
    BY WFMin, NatLessThanWellFounded
  <1>2. PICK x \in S : \A y \in S : ~ (<<y, x>> \in OpToRel(<, Nat))
    BY <1>1
  <1>3. ASSUME NEW y \in S PROVE x <= y
    <2>1. ~ (<<y, x>> \in {ss \in Nat \X Nat : ss[1] < ss[2]}) BY <1>2 DEF OpToRel
    <2>2. QED BY <2>1
  <1>4. QED BY <1>3

LEMMA MinFacts ==
  ASSUME NEW S \in SUBSET Nat, S # {}
  PROVE  Min(S) \in S /\ \A y \in S : Min(S) <= y
  BY MinExists DEF Min
-----------------------------------------------------------------------------
(* ipa_nat_del_ipv4_rule() for some entries.                               *)

Entries == [conn : Conns \cup {NoConn}, enabled : BOOLEAN, rule_hdl : 0..MaxEntries]
Tables  == [Handles -> Conns \cup {NoConn}]

LEMMA TypeFacts ==
  ASSUME TypeOK
  PROVE  /\ cache \in [Slots -> Entries] /\ rules \in Tables
         /\ table \in BOOLEAN /\ WanUp \in BOOLEAN /\ isStaMode \in BOOLEAN
         /\ renumbered \in BOOLEAN
         /\ pub_ip_addr \in Pubs \cup {NoIp} /\ pub_ip_addr_pre \in Pubs \cup {NoIp}
         /\ wan_ipaddr \in Pubs \cup {NoIp} /\ refused \subseteq Handles
  BY DEF TypeOK, Entries, Tables

\* What ipa_nat_del_ipv4_rule() leaves: only the rules of the entries it succeeds for are gone.
LEMMA DeletedFacts ==
  ASSUME TypeOK, CoreInv, NEW S \in SUBSET Slots, \A s \in S : cache[s].enabled,
         NEW gone \in Deletions(S)
  PROVE  /\ gone \subseteq S
         /\ Without(gone) \in Tables
         /\ \A h \in Handles : Without(gone)[h] \in {rules[h], NoConn}
         /\ \A s \in gone : Without(gone)[cache[s].rule_hdl] = NoConn
         /\ \A h \in Handles : rules[h] # NoConn /\ Without(gone)[h] = NoConn
                                 => \E s \in gone : cache[s].rule_hdl = h
  <1>1. cache \in [Slots -> Entries] /\ rules \in Tables BY TypeFacts
  <1>2. gone \subseteq S BY DEF Deletions
  <1>3. \A s \in gone : cache[s].rule_hdl \in Handles BY <1>2 DEF CoreInv, EntryInv
  <1>4. Without(gone) \in Tables BY <1>1 DEF Without, Tables
  <1>5. /\ \A h \in Handles : Without(gone)[h] \in {rules[h], NoConn}
        /\ \A s \in gone : Without(gone)[cache[s].rule_hdl] = NoConn
        /\ \A h \in Handles : rules[h] # NoConn /\ Without(gone)[h] = NoConn
                                => \E s \in gone : cache[s].rule_hdl = h
    BY <1>3 DEF Without
  <1>6. QED BY <1>2, <1>4, <1>5

\* Deleting the rules of some enabled entries keeps the cache and the table together, when the
\* entries whose rule is gone are disabled or zeroed, and of the others only those whose rule
\* is told by `refused'.
LEMMA DeletionKeeps ==
  ASSUME TypeOK, CoreInv, NEW S \in SUBSET Slots, \A s \in S : cache[s].enabled,
         NEW gone \in Deletions(S), rules' = Without(gone), cache' \in [Slots -> Entries],
         \A s \in Slots : \/ cache'[s] = cache[s]
                          \/ /\ ~cache'[s].enabled /\ cache'[s].conn \in {cache[s].conn, NoConn}
                             /\ \/ ~cache[s].enabled \/ s \in gone
                                \/ /\ rules[cache[s].rule_hdl] = cache[s].conn
                                   /\ cache[s].rule_hdl \in refused'
                                \/ rules[cache[s].rule_hdl] # cache[s].conn,
         \A s \in gone : ~cache'[s].enabled,
         \A h \in refused : rules'[h] # NoConn => h \in refused',
         UNCHANGED <<table, torn, renumbered>>
  PROVE  CoreInv' /\ rules' \in Tables
  <1>1. cache \in [Slots -> Entries] /\ rules \in Tables BY TypeFacts
  <1>2. /\ rules' \in Tables /\ gone \subseteq Slots
        /\ \A h \in Handles : rules'[h] \in {rules[h], NoConn}
        /\ \A s \in gone : rules'[cache[s].rule_hdl] = NoConn
        /\ \A h \in Handles : rules[h] # NoConn /\ rules'[h] = NoConn
                                => \E s \in gone : cache[s].rule_hdl = h
    BY DeletedFacts
  <1>3. EntryInv' BY DEF CoreInv, EntryInv, Used
  <1>4. NoRuleForgotten'
    <2> SUFFICES ASSUME NEW h \in Handles, h \notin refused', rules'[h] # NoConn
                 PROVE  \E s \in Slots : cache'[s].enabled /\ cache'[s].rule_hdl = h /\ cache'[s].conn = rules'[h]
      BY DEF NoRuleForgotten
    <2>1. rules[h] = rules'[h] /\ h \notin refused BY <1>2
    <2>2. PICK s \in Slots : cache[s].enabled /\ cache[s].rule_hdl = h /\ cache[s].conn = rules[h]
      BY <2>1 DEF CoreInv, NoRuleForgotten
    <2>3. s \notin gone BY <1>2, <2>2
    <2>4. cache'[s] = cache[s] BY <2>2, <2>3
    <2>5. QED BY <2>1, <2>2, <2>4
  <1>5. HandlesAreOwn'
    <2> SUFFICES ASSUME table, ~renumbered, NEW s \in Slots, cache'[s].enabled
                 PROVE  rules'[cache'[s].rule_hdl] = cache'[s].conn
      BY DEF HandlesAreOwn
    <2>1. cache'[s] = cache[s] /\ cache[s].enabled /\ s \notin gone BY <1>2
    <2>2. /\ rules[cache[s].rule_hdl] = cache[s].conn /\ cache[s].rule_hdl \in Handles
          /\ cache[s].conn # NoConn
      BY <2>1 DEF CoreInv, HandlesAreOwn, EntryInv, Used
    <2>3. ASSUME NEW t \in gone, cache[t].rule_hdl = cache[s].rule_hdl PROVE FALSE
      <3>0. t \in Slots /\ cache[t].enabled BY DeletedFacts
      <3>1. cache[t].conn = cache[s].conn BY <2>2, <2>3, <3>0 DEF CoreInv, HandlesAreOwn
      <3>2. t = s BY <3>0, <3>1, <2>2 DEF CoreInv, NoDuplicates, Used
      <3>3. QED BY <3>2, <2>1
    <2>4. QED BY <1>2, <2>1, <2>2, <2>3
  <1>6. NoDuplicates'
    <2> SUFFICES ASSUME NEW s \in Slots, NEW t \in Slots, cache'[s].conn # NoConn,
                        cache'[s].conn = cache'[t].conn
                 PROVE  s = t
      BY DEF NoDuplicates, Used
    <2>1. cache[s].conn = cache'[s].conn /\ cache[t].conn = cache'[t].conn OBVIOUS
    <2>2. QED BY <2>1 DEF CoreInv, NoDuplicates, Used
  <1>7. NoTableNoRules' BY <1>2 DEF CoreInv, NoTableNoRules
  <1>8. QED BY <1>2, <1>3, <1>4, <1>5, <1>6, <1>7 DEF CoreInv
-----------------------------------------------------------------------------
(* ipa_nat_add_ipv4_rule() for some entries.                               *)

\* What is left when the entries of S are to be added: the rules rs are those of enabled
\* entries outside S, and the handles of those entries are their own.
LeftIsOwn(S, rs, hasTable) ==
  /\ \A h \in Handles \ refused' : rs[h] # NoConn =>
       \E s \in Slots \ S : cache[s].enabled /\ cache[s].rule_hdl = h /\ cache[s].conn = rs[h]
  /\ table' /\ ~renumbered' =>
       \A s \in Slots \ S : cache[s].enabled => rs[cache[s].rule_hdl] = cache[s].conn
  /\ ~table' => ~hasTable
  /\ ~table' /\ ~torn' => \A h \in Handles : rs[h] = NoConn

\* What is there once they were added.
Installed(S, rs) ==
  /\ CoreInv' /\ rules' \in Tables /\ cache' \in [Slots -> Entries]
  /\ \A s \in Slots : cache'[s].conn \in {cache[s].conn, NoConn}
  /\ \A h \in Handles : rules'[h] # NoConn =>
       rules'[h] = rs[h] \/ \E s \in S : rules'[h] = cache[s].conn

\* Adding the entries of S keeps the table and the cache in agreement.
LEMMA InstallKeeps ==
  ASSUME TypeOK, CoreInv, NEW S \in SUBSET Slots, NEW rs \in Tables, NEW hasTable \in BOOLEAN,
         \A s \in S : Used(s), LeftIsOwn(S, rs, hasTable), Install(S, rs, hasTable)
  PROVE  Installed(S, rs)
  <1> USE DEF LeftIsOwn
  <1>0. cache \in [Slots -> Entries] /\ rules \in Tables BY TypeFacts
  <1>1. PICK good \in SUBSET S :
          \E hdl \in [good -> Free(rs)] :
            /\ IsInjective(hdl) /\ (hasTable \/ good = {})
            /\ cache' = [s \in Slots |->
                 IF s \notin S THEN cache[s]
                 ELSE IF s \in good THEN [cache[s] EXCEPT !.enabled = TRUE, !.rule_hdl = hdl[s]]
                 ELSE Zero]
            /\ rules' = [h \in Handles |->
                 IF h \in Range(hdl) THEN cache[CHOOSE s \in good : hdl[s] = h].conn ELSE rs[h]]
    BY Zenon DEF Install
  <1>2. PICK hdl \in [good -> Free(rs)] :
            /\ IsInjective(hdl) /\ (hasTable \/ good = {})
            /\ cache' = [s \in Slots |->
                 IF s \notin S THEN cache[s]
                 ELSE IF s \in good THEN [cache[s] EXCEPT !.enabled = TRUE, !.rule_hdl = hdl[s]]
                 ELSE Zero]
            /\ rules' = [h \in Handles |->
                 IF h \in Range(hdl) THEN cache[CHOOSE s \in good : hdl[s] = h].conn ELSE rs[h]]
    BY <1>1, Zenon
  <1>3. \A s \in good : hdl[s] \in Handles /\ rs[hdl[s]] = NoConn BY <1>2 DEF Free
  <1>4. \A s \in good : rules'[hdl[s]] = cache[s].conn
    <2> SUFFICES ASSUME NEW s \in good PROVE rules'[hdl[s]] = cache[s].conn
      OBVIOUS
    <2>1. hdl[s] \in Range(hdl) BY DEF Range
    <2>2. \A t \in good : hdl[t] = hdl[s] => t = s BY <1>2 DEF IsInjective
    <2>3. (CHOOSE t \in good : hdl[t] = hdl[s]) = s BY <2>2
    <2>4. QED BY <1>2, <1>3, <2>1, <2>3
  <1>5. \A h \in Handles : \/ \E s \in good : hdl[s] = h
                           \/ rules'[h] = rs[h]
    <2>1. \A h \in Handles : h \notin Range(hdl) => rules'[h] = rs[h] BY <1>2, Zenon
    <2>2. Range(hdl) = {hdl[s] : s \in good} BY DEF Range
    <2>3. QED BY ONLY <2>1, <2>2
  <1>6. /\ \A s \in good : /\ cache'[s].enabled /\ cache'[s].rule_hdl = hdl[s]
                           /\ cache'[s].conn = cache[s].conn /\ cache'[s] \in Entries
        /\ \A s \in S \ good : ~cache'[s].enabled /\ cache'[s].conn = NoConn /\ cache'[s] \in Entries
        /\ \A s \in Slots \ S : cache'[s] = cache[s]
    <2>1. cache' = [s \in Slots |->
                 IF s \notin S THEN cache[s]
                 ELSE IF s \in good THEN [cache[s] EXCEPT !.enabled = TRUE, !.rule_hdl = hdl[s]]
                 ELSE Zero]
      BY <1>2, Zenon
    <2>2. good \subseteq S /\ S \subseteq Slots BY <1>1
    <2>3. \A s \in good : hdl[s] \in 0..MaxEntries BY <1>3, NatAssumption DEF Handles
    <2>4. Zero \in Entries /\ ~Zero.enabled /\ Zero.conn = NoConn
      BY NatAssumption DEF Zero, Entries
    <2>5. QED BY ONLY <1>0, <2>1, <2>2, <2>3, <2>4 DEF Entries
  <1>7. cache' \in [Slots -> Entries]
    <2>1. \A s \in Slots : cache'[s] \in Entries BY <1>0, <1>6
    <2>2. cache' = [s \in Slots |-> cache'[s]] BY <1>2
    <2>3. QED BY <2>1, <2>2
  <1>8. rules' \in Tables
    <2>0. \A s \in good : s \in Slots BY <1>1
    <2>1. \A h \in Handles : rules'[h] \in Conns \cup {NoConn}
      BY <1>0, <1>4, <1>5, <2>0 DEF Tables, Entries
    <2> DEFINE RuleOf(h) ==
                 IF h \in Range(hdl) THEN cache[CHOOSE s \in good : hdl[s] = h].conn ELSE rs[h]
    <2>2. rules' = [h \in Handles |-> RuleOf(h)] BY <1>2, Zenon
    <2> HIDE DEF RuleOf
    <2>4. rules' = [h \in Handles |-> rules'[h]] BY ONLY <2>2
    <2>3. QED BY ONLY <2>1, <2>4 DEF Tables
  <1>9. EntryInv' BY <1>3, <1>6 DEF CoreInv, EntryInv, Used
  <1>10. NoRuleForgotten'
    <2> SUFFICES ASSUME NEW h \in Handles, h \notin refused', rules'[h] # NoConn
                 PROVE  \E s \in Slots : cache'[s].enabled /\ cache'[s].rule_hdl = h /\ cache'[s].conn = rules'[h]
      BY DEF NoRuleForgotten
    <2>1. CASE \E s \in good : hdl[s] = h BY <2>1, <1>4, <1>6
    <2>2. CASE rules'[h] = rs[h] BY <2>2, <1>6
    <2>3. QED BY <2>1, <2>2, <1>5
  <1>11. HandlesAreOwn'
    <2> SUFFICES ASSUME table', ~renumbered', NEW s \in Slots, cache'[s].enabled
                 PROVE  rules'[cache'[s].rule_hdl] = cache'[s].conn
      BY DEF HandlesAreOwn
    <2>1. CASE s \in good BY <2>1, <1>4, <1>6
    <2>2. CASE s \in Slots \ S
      <3>1. /\ cache'[s] = cache[s] /\ rs[cache[s].rule_hdl] = cache[s].conn
            /\ cache[s].conn # NoConn /\ cache[s].rule_hdl \in Handles
        BY <2>2, <1>6 DEF CoreInv, EntryInv, Used
      <3>2. ~ \E t \in good : hdl[t] = cache[s].rule_hdl BY <3>1, <1>3
      <3>3. QED BY <3>1, <3>2, <1>5
    <2>3. QED BY <2>1, <2>2, <1>6
  <1>12. \A s \in Slots : cache'[s].conn \in {cache[s].conn, NoConn} BY <1>6
  <1>13. NoDuplicates'
    <2> SUFFICES ASSUME NEW s \in Slots, NEW t \in Slots, cache'[s].conn # NoConn,
                        cache'[s].conn = cache'[t].conn
                 PROVE  s = t
      BY DEF NoDuplicates, Used
    <2>1. cache[s].conn = cache'[s].conn /\ cache[t].conn = cache'[t].conn BY <1>12
    <2>2. QED BY <2>1 DEF CoreInv, NoDuplicates, Used
  <1>14. NoTableNoRules'
    <2> SUFFICES ASSUME ~table', ~torn', NEW h \in Handles PROVE rules'[h] = NoConn
      BY DEF NoTableNoRules
    <2>1. good = {} /\ rs[h] = NoConn BY <1>2
    <2>2. QED BY <2>1, <1>5
  <1>15. \A h \in Handles : rules'[h] # NoConn =>
              rules'[h] = rs[h] \/ \E s \in S : rules'[h] = cache[s].conn
    BY <1>4, <1>5
  <1>16. QED BY <1>7, <1>8, <1>9, <1>10, <1>11, <1>12, <1>13, <1>14, <1>15 DEF CoreInv, Installed

\* Without a table nothing is added.
LEMMA NotInstalled ==
  ASSUME NEW S, NEW rs \in Tables, NEW hasTable, ~hasTable, Install(S, rs, hasTable)
  PROVE  \A h \in Handles : rules'[h] = rs[h]
  <1>1. PICK good \in SUBSET S :
          \E hdl \in [good -> Free(rs)] :
            /\ good = {}
            /\ rules' = [h \in Handles |->
                 IF h \in Range(hdl) THEN cache[CHOOSE s \in good : hdl[s] = h].conn ELSE rs[h]]
    BY Zenon DEF Install
  <1>2. PICK hdl \in [good -> Free(rs)] :
            /\ good = {}
            /\ rules' = [h \in Handles |->
                 IF h \in Range(hdl) THEN cache[CHOOSE s \in good : hdl[s] = h].conn ELSE rs[h]]
    BY <1>1, Zenon
  <1>3. Range(hdl) = {} BY <1>2 DEF Range
  <1>4. QED BY <1>2, <1>3

\* AddTable(), when the driver makes the table.
LEMMA AddTableKeeps ==
  ASSUME TypeOK, CoreInv, NEW pub, AddTable(pub, TRUE), UNCHANGED <<torn, refused>>
  PROVE  /\ CoreInv' /\ rules' \in Tables /\ cache' \in [Slots -> Entries]
         /\ \A s \in Slots : cache'[s].conn \in {cache[s].conn, NoConn}
         /\ renumbered' \in BOOLEAN
         /\ table' = TRUE /\ pub_ip_addr' = pub
         /\ spared' \subseteq Unwanted
         /\ \A h \in Handles : rules'[h] # NoConn => rules'[h].priv \notin Unwanted \ spared'
  <1> DEFINE S == IF pub = pub_ip_addr_pre THEN {s \in Slots : Used(s)} ELSE {}
             rs == [h \in Handles |-> NoConn]
  <1>0. /\ cache \in [Slots -> Entries] /\ rules \in Tables /\ renumbered \in BOOLEAN
    BY TypeFacts
  <1>1. /\ table' = TRUE /\ pub_ip_addr' = pub
        /\ Install(S, rs, TRUE)
        /\ renumbered' = (pub # pub_ip_addr_pre /\ \E s \in Slots : cache[s].enabled)
        /\ spared' = Unwanted \cap {rules'[h].priv : h \in {g \in Handles : rules'[g] # NoConn}}
    BY DEF AddTable
  <1>2. S \in SUBSET Slots /\ rs \in Tables /\ \A s \in S : Used(s) BY DEF Tables
  <1>3. \A h \in Handles : rs[h] = NoConn OBVIOUS
  <1>4. ~renumbered' => \A s \in Slots \ S : ~cache[s].enabled
    BY <1>1 DEF CoreInv, EntryInv
  <1> HIDE DEF S, rs
  <1>5. /\ CoreInv' /\ rules' \in Tables /\ cache' \in [Slots -> Entries]
        /\ \A s \in Slots : cache'[s].conn \in {cache[s].conn, NoConn}
    <2>1. LeftIsOwn(S, rs, TRUE) BY <1>1, <1>3, <1>4 DEF LeftIsOwn
    <2>2. Installed(S, rs) BY <1>1, <1>2, <2>1, InstallKeeps
    <2>3. QED BY <2>2 DEF Installed
  <1>6. renumbered' \in BOOLEAN BY <1>0, <1>1
  <1>7. QED BY <1>1, <1>5, <1>6

\* ResetPwrSaveIf()
LEMMA ResetKeeps ==
  ASSUME TypeOK, CoreInv, NEW ip, ResetPwrSaveIf(ip), UNCHANGED <<table, torn, renumbered, refused>>
  PROVE  /\ CoreInv' /\ rules' \in Tables /\ cache' \in [Slots -> Entries]
         /\ \A s \in Slots : cache'[s].conn \in {cache[s].conn, NoConn}
         /\ \A h \in Handles : rules'[h] # NoConn => rules'[h] = rules[h] \/ rules'[h].priv = ip
         /\ ~table => \A h \in Handles : rules'[h] = rules[h]
  <1> DEFINE S == {s \in Private(ip) : ~cache[s].enabled}
  <1>0. rules \in Tables /\ table \in BOOLEAN BY TypeFacts
  <1>1. /\ S \in SUBSET Slots
        /\ \A s \in S : Used(s) /\ cache[s].conn.priv = ip /\ ~cache[s].enabled
        /\ Install(S, rules, table)
    BY DEF Private, ResetPwrSaveIf
  <1> HIDE DEF S
  <1>2. \A h \in Handles \ refused' : rules[h] # NoConn =>
           \E s \in Slots \ S : cache[s].enabled /\ cache[s].rule_hdl = h /\ cache[s].conn = rules[h]
    BY <1>1 DEF CoreInv, NoRuleForgotten
  <1>3. table' /\ ~renumbered' =>
           \A s \in Slots \ S : cache[s].enabled => rules[cache[s].rule_hdl] = cache[s].conn
    BY DEF CoreInv, HandlesAreOwn
  <1>4. (~table' => ~table) /\ (~table' /\ ~torn' => \A h \in Handles : rules[h] = NoConn)
    BY DEF CoreInv, NoTableNoRules
  <1>5. /\ CoreInv' /\ rules' \in Tables /\ cache' \in [Slots -> Entries]
        /\ \A s \in Slots : cache'[s].conn \in {cache[s].conn, NoConn}
        /\ \A h \in Handles : rules'[h] # NoConn =>
              rules'[h] = rules[h] \/ \E s \in S : rules'[h] = cache[s].conn
    <2>1. \A s \in S : Used(s) BY <1>1
    <2>2. Install(S, rules, table) /\ S \in SUBSET Slots BY <1>1
    <2>3. LeftIsOwn(S, rules, table) BY <1>2, <1>3, <1>4, Zenon DEF LeftIsOwn
    <2>4. Installed(S, rules)
      BY ONLY TypeOK, CoreInv, <1>0, <2>1, <2>2, <2>3, InstallKeeps, Zenon
    <2>5. QED BY <2>4 DEF Installed
  <1>6. \A s \in S : cache[s].conn.priv = ip BY <1>1
  <1>7. \A h \in Handles : rules'[h] # NoConn => rules'[h] = rules[h] \/ rules'[h].priv = ip
    BY ONLY <1>5, <1>6
  <1>8. ~table => \A h \in Handles : rules'[h] = rules[h] BY <1>0, <1>1, NotInstalled
  <1>9. QED BY <1>5, <1>7, <1>8
-----------------------------------------------------------------------------
(* The other operations of NatApp.                                         *)

\* What an operation that deletes leaves: the cache and the table still agree, rules only
\* go, entries only lose their connection.
Shrinks ==
  /\ CoreInv' /\ rules' \in Tables /\ cache' \in [Slots -> Entries]
  /\ \A s \in Slots : cache'[s].conn \in {cache[s].conn, NoConn}
  /\ \A h \in Handles : rules'[h] \in {rules[h], NoConn}
  /\ refused' \subseteq Handles /\ \A h \in refused : rules'[h] # NoConn => h \in refused'

LEMMA ZeroHandle == 0 \in 0..MaxEntries BY NatAssumption

LEMMA ZeroFacts == Zero \in Entries /\ ~Zero.enabled /\ Zero.conn = NoConn
  BY NatAssumption DEF Zero, Entries

\* DeleteEntry(): no entry of the connection is left.
LEMMA DeleteEntryKeeps ==
  ASSUME TypeOK, CoreInv, NEW k \in Conns, DeleteEntry(k), UNCHANGED <<table, torn, renumbered>>
  PROVE  Shrinks /\ \A s \in Slots : cache'[s].conn # k
  <1> DEFINE S == {s \in Slots : cache[s].conn = k}
             Own(gone) == {h \in Handles : rules[h] = k /\ \E s \in Enabled(S) \ gone : cache[s].rule_hdl = h}
  <1>0. cache \in [Slots -> Entries] /\ refused \subseteq Handles BY TypeFacts
  <1>1. PICK gone \in Deletions(Enabled(S)) :
          /\ rules' = Without(gone)
          /\ cache' = [s \in Slots |-> IF s \in S THEN Zero ELSE cache[s]]
          /\ refused' = {h \in refused : rules'[h] # NoConn} \cup Own(gone)
    BY DEF DeleteEntry
  <1>2. Enabled(S) \in SUBSET Slots /\ \A s \in Enabled(S) : cache[s].enabled BY DEF Enabled
  <1>3. /\ gone \subseteq Enabled(S)
        /\ \A h \in Handles : rules'[h] \in {rules[h], NoConn}
    <2> HIDE DEF S
    <2>1. QED BY <1>1, <1>2, DeletedFacts
  <1>4. \A s \in S : /\ s \in Slots /\ cache[s].conn = k
                     /\ cache[s].enabled /\ s \notin gone => s \in Enabled(S) \ gone
    BY DEF Enabled
  <1>5. \A s \in Slots : cache[s].conn = k => s \in S OBVIOUS
  <1>6. \A s \in S : cache[s].enabled => cache[s].rule_hdl \in Handles
    BY <1>4 DEF CoreInv, EntryInv
  <1>7. \A s \in S : \/ ~cache[s].enabled \/ s \in gone
                     \/ cache[s].rule_hdl \in Own(gone)
                     \/ rules[cache[s].rule_hdl] # cache[s].conn
    BY <1>4, <1>6
  <1>8. Own(gone) \subseteq Handles OBVIOUS
  <1> HIDE DEF S, Own
  <1>9. cache' \in [Slots -> Entries] BY <1>0, <1>1, ZeroFacts
  <1>10. \A s \in Slots : \/ cache'[s] = cache[s]
                          \/ /\ ~cache'[s].enabled /\ cache'[s].conn \in {cache[s].conn, NoConn}
                             /\ \/ ~cache[s].enabled \/ s \in gone
                                \/ /\ rules[cache[s].rule_hdl] = cache[s].conn
                                   /\ cache[s].rule_hdl \in refused'
                                \/ rules[cache[s].rule_hdl] # cache[s].conn
    <2> SUFFICES ASSUME NEW s \in Slots, s \in S
                 PROVE  /\ ~cache'[s].enabled /\ cache'[s].conn \in {cache[s].conn, NoConn}
                        /\ \/ ~cache[s].enabled \/ s \in gone
                           \/ /\ rules[cache[s].rule_hdl] = cache[s].conn
                              /\ cache[s].rule_hdl \in refused'
                           \/ rules[cache[s].rule_hdl] # cache[s].conn
      BY <1>1
    <2>1. cache'[s] = Zero BY <1>1
    <2>2. Own(gone) \subseteq refused' BY <1>1
    <2>3. QED BY <2>1, <2>2, <1>7, ZeroFacts
  <1>11. \A s \in gone : ~cache'[s].enabled BY <1>1, <1>2, <1>3, <1>4, ZeroFacts DEF Enabled
  <1>12. \A h \in refused : rules'[h] # NoConn => h \in refused' BY <1>1
  <1>13. CoreInv' /\ rules' \in Tables
    BY ONLY TypeOK, CoreInv, <1>1, <1>2, <1>9, <1>10, <1>11, <1>12, DeletionKeeps,
            UNCHANGED <<table, torn, renumbered>>
  <1>14. \A s \in Slots : cache'[s].conn # k BY <1>1, <1>5, ZeroFacts, NatAssumption
  <1>15. refused' \subseteq Handles BY <1>0, <1>1, <1>8
  <1>16. QED BY <1>3, <1>9, <1>10, <1>12, <1>13, <1>14, <1>15 DEF Shrinks

\* Disable(), for entries that are enabled.
LEMMA DisableKeeps ==
  ASSUME TypeOK, CoreInv, NEW on \in SUBSET Slots, \A s \in on : cache[s].enabled,
         NEW off, \A s \in on : /\ off[s] \in Entries
                                /\ ~off[s].enabled /\ off[s].conn = cache[s].conn,
         Disable(on, off), UNCHANGED <<table, torn, renumbered>>
  PROVE  Shrinks
  <1>0. cache \in [Slots -> Entries] /\ refused \subseteq Handles BY TypeFacts
  <1>1. PICK gone \in Deletions(on) :
          /\ rules' = Without(gone)
          /\ cache' = [s \in Slots |-> IF s \in gone THEN off[s] ELSE cache[s]]
          /\ refused' = {h \in refused : rules'[h] # NoConn}
    BY DEF Disable
  <1>2. gone \subseteq on /\ \A h \in Handles : rules'[h] \in {rules[h], NoConn}
    BY <1>1, DeletedFacts
  <1>3. cache' \in [Slots -> Entries] BY <1>0, <1>1, <1>2
  <1>4. \A s \in Slots : \/ cache'[s] = cache[s]
                         \/ ~cache'[s].enabled /\ cache'[s].conn = cache[s].conn /\ s \in gone
    BY <1>1, <1>2
  <1>5. \A s \in gone : ~cache'[s].enabled BY <1>1, <1>2
  <1>6. \A h \in refused : rules'[h] # NoConn => h \in refused' BY <1>1
  <1>7. CoreInv' /\ rules' \in Tables BY <1>1, <1>3, <1>4, <1>5, <1>6, DeletionKeeps
  <1>8. refused' \subseteq Handles BY <1>0, <1>1
  <1>9. QED BY <1>2, <1>3, <1>4, <1>6, <1>7, <1>8 DEF Shrinks

\* What is left of the client's rules when its entries are disabled is told by `spared', or by
\* `refused' before.
LEMMA SpareFacts ==
  ASSUME TypeOK, CoreInv, NEW ip \in Clients, Shrinks, Spare(ip)
  PROVE  /\ spared \ {ip} \subseteq spared' /\ spared' \subseteq Clients
         /\ \A h \in Handles \ refused' : rules'[h] # NoConn /\ rules'[h].priv = ip => ip \in spared'
  <1>1. spared' = IF RuleLeft(Private(ip)) THEN spared \cup {ip} ELSE spared \ {ip} BY DEF Spare
  <1>2. spared \subseteq Clients BY DEF TypeOK
  <1>3. ASSUME NEW h \in Handles, h \notin refused', rules'[h] # NoConn, rules'[h].priv = ip
        PROVE  RuleLeft(Private(ip))
    <2>1. rules[h] = rules'[h] /\ h \notin refused BY <1>3 DEF Shrinks
    <2>2. PICK s \in Slots : cache[s].enabled /\ cache[s].rule_hdl = h /\ cache[s].conn = rules[h]
      BY <1>3, <2>1 DEF CoreInv, NoRuleForgotten
    <2>3. Used(s) BY <2>1, <2>2, <1>3 DEF Used
    <2>4. s \in Private(ip) BY <1>3, <2>1, <2>2, <2>3 DEF Private
    <2>5. QED BY <1>3, <2>2, <2>4 DEF RuleLeft
  <1>4. QED BY <1>1, <1>2, <1>3

\* UpdatePwrSaveIf() and DelEntriesOnClntDiscon(): of the rules of the client only those are left
\* that `spared' tells.
LEMMA ClientOffKeeps ==
  ASSUME TypeOK, CoreInv, NEW ip \in Clients, Spare(ip), UNCHANGED <<table, torn, renumbered>>,
         \/ Disable(Enabled(Private(ip)), [s \in Slots |-> [cache[s] EXCEPT !.enabled = FALSE, !.rule_hdl = 0]])
         \/ Disable(Enabled(Private(ip)), [s \in Slots |-> [cache[s] EXCEPT !.enabled = FALSE]])
  PROVE  /\ Shrinks
         /\ spared \ {ip} \subseteq spared' /\ spared' \subseteq Clients
         /\ \A h \in Handles \ refused' : rules'[h] # NoConn /\ rules'[h].priv = ip => ip \in spared'
  <1> DEFINE on == Enabled(Private(ip))
             asleep == [s \in Slots |-> [cache[s] EXCEPT !.enabled = FALSE, !.rule_hdl = 0]]
             left   == [s \in Slots |-> [cache[s] EXCEPT !.enabled = FALSE]]
  <1>0. cache \in [Slots -> Entries] BY TypeFacts
  <1>1. on \in SUBSET Slots /\ (\A s \in on : cache[s].enabled) BY DEF Enabled, Private
  <1>3. \A s \in on : /\ asleep[s] \in Entries /\ ~asleep[s].enabled /\ asleep[s].conn = cache[s].conn
                      /\ left[s] \in Entries /\ ~left[s].enabled /\ left[s].conn = cache[s].conn
    BY <1>0, <1>1, ZeroHandle DEF Entries
  <1>4. Disable(on, asleep) \/ Disable(on, left) OBVIOUS
  <1> HIDE DEF on, asleep, left
  <1>5. Shrinks
    <2>1. CASE Disable(on, asleep) BY <1>1, <1>3, <2>1, DisableKeeps
    <2>2. CASE Disable(on, left) BY <1>1, <1>3, <2>2, DisableKeeps
    <2>3. QED BY <1>4, <2>1, <2>2
  <1>6. QED BY <1>5, SpareFacts

\* DelEntriesOnSTAClntDiscon()
LEMMA StaDisconKeeps ==
  ASSUME TypeOK, CoreInv, NEW ip, DelEntriesOnSTAClntDiscon(ip), UNCHANGED <<table, torn, renumbered>>
  PROVE  Shrinks
  <1> DEFINE S == {s \in Slots : Used(s) /\ cache[s].conn.tgt = ip}
  <1>0. cache \in [Slots -> Entries] /\ refused \subseteq Handles BY TypeFacts
  <1>1. PICK gone \in Deletions(Enabled(S)) :
          /\ rules' = Without(gone)
          /\ cache' = [s \in Slots |-> IF s \in (S \ Enabled(S)) \cup gone THEN Zero ELSE cache[s]]
          /\ refused' = {h \in refused : rules'[h] # NoConn}
    BY DEF DelEntriesOnSTAClntDiscon
  <1>2. Enabled(S) \in SUBSET Slots /\ \A s \in Enabled(S) : cache[s].enabled BY DEF Enabled
  <1>3. \A s \in S \ Enabled(S) : s \in Slots /\ ~cache[s].enabled BY DEF Enabled
  <1> HIDE DEF S
  <1>4. gone \subseteq Enabled(S) /\ \A h \in Handles : rules'[h] \in {rules[h], NoConn}
    BY <1>1, <1>2, DeletedFacts
  <1>5. cache' \in [Slots -> Entries] BY <1>0, <1>1, ZeroFacts
  <1>6. \A s \in Slots : \/ cache'[s] = cache[s]
                         \/ /\ ~cache'[s].enabled /\ cache'[s].conn = NoConn
                            /\ ~cache[s].enabled \/ s \in gone
    BY <1>1, <1>3, ZeroFacts
  <1>7. \A s \in gone : ~cache'[s].enabled BY <1>1, <1>2, <1>4, ZeroFacts
  <1>8. \A h \in refused : rules'[h] # NoConn => h \in refused' BY <1>1
  <1>9. CoreInv' /\ rules' \in Tables BY <1>1, <1>2, <1>5, <1>6, <1>7, <1>8, DeletionKeeps
  <1>10. refused' \subseteq Handles BY <1>0, <1>1
  <1>11. QED BY <1>4, <1>5, <1>6, <1>8, <1>9, <1>10 DEF Shrinks

\* A new entry in a free slot: cached only, or with a rule under a free handle.
LEMMA PutKeeps ==
  ASSUME TypeOK, CoreInv, NEW s \in Slots, ~Used(s), NEW k \in Conns, ~ChkForDup(k),
         UNCHANGED <<table, torn, renumbered, refused>>,
         \/ cache' = [cache EXCEPT ![s] = [Zero EXCEPT !.conn = k]] /\ rules' = rules
         \/ \E h \in Free(rules) :
              /\ table
              /\ cache' = [cache EXCEPT ![s] = [conn |-> k, enabled |-> TRUE, rule_hdl |-> h]]
              /\ rules' = [rules EXCEPT ![h] = k]
  PROVE  /\ CoreInv' /\ rules' \in Tables /\ cache' \in [Slots -> Entries]
         /\ \A t \in Slots : cache'[t].conn \in {cache[t].conn, k}
  <1>0. cache \in [Slots -> Entries] /\ rules \in Tables BY TypeFacts
  <1>1. /\ cache'[s].conn = k /\ \A t \in Slots : t # s => cache'[t] = cache[t]
        /\ cache' \in [Slots -> Entries]
    <2>1. \A h \in Free(rules) : h \in 0..MaxEntries BY NatAssumption DEF Free, Handles
    <2>2. 0 \in 0..MaxEntries BY NatAssumption
    <2>3. \E e \in Entries : e.conn = k /\ cache' = [cache EXCEPT ![s] = e]
      <3>1. [Zero EXCEPT !.conn = k] \in Entries /\ [Zero EXCEPT !.conn = k].conn = k
        BY <2>2 DEF Entries, Zero
      <3>2. \A h \in Free(rules) : [conn |-> k, enabled |-> TRUE, rule_hdl |-> h] \in Entries
        BY <2>1 DEF Entries
      <3>3. QED BY <3>1, <3>2
    <2>4. QED BY <1>0, <2>3
  <1>2. k # NoConn /\ \A t \in Slots : cache[t].conn # k BY NatAssumption DEF ChkForDup
  <1>3. \A t \in Slots : cache[t].enabled => t # s /\ cache'[t] = cache[t]
    BY <1>1 DEF CoreInv, EntryInv
  <1>4. NoDuplicates' BY <1>1, <1>2 DEF CoreInv, NoDuplicates, Used
  <1>5. CASE cache' = [cache EXCEPT ![s] = [Zero EXCEPT !.conn = k]] /\ rules' = rules
    <2>1. ~cache'[s].enabled BY <1>0, <1>5 DEF Zero
    <2>2. EntryInv' BY <1>1, <2>1 DEF CoreInv, EntryInv, Used
    <2>3. NoRuleForgotten' BY <1>3, <1>5 DEF CoreInv, NoRuleForgotten
    <2>4. HandlesAreOwn' BY <1>1, <1>5, <2>1 DEF CoreInv, HandlesAreOwn
    <2>5. NoTableNoRules' BY <1>5 DEF CoreInv, NoTableNoRules
    <2>6. QED BY <1>0, <1>1, <1>4, <1>5, <2>2, <2>3, <2>4, <2>5 DEF CoreInv
  <1>6. ASSUME NEW h \in Free(rules), table,
               cache' = [cache EXCEPT ![s] = [conn |-> k, enabled |-> TRUE, rule_hdl |-> h]],
               rules' = [rules EXCEPT ![h] = k]
        PROVE  CoreInv' /\ rules' \in Tables
    <2>1. h \in Handles /\ rules[h] = NoConn BY DEF Free
    <2>2. cache'[s].enabled /\ cache'[s].rule_hdl = h BY <1>0, <1>6
    <2>3. rules' \in Tables /\ rules'[h] = k /\ \A g \in Handles : g # h => rules'[g] = rules[g]
      BY <1>0, <1>6, <2>1 DEF Tables
    <2>4. EntryInv' BY <1>1, <1>2, <2>1, <2>2 DEF CoreInv, EntryInv, Used
    <2>5. NoRuleForgotten'
      <3> SUFFICES ASSUME NEW g \in Handles, g \notin refused, rules'[g] # NoConn
                   PROVE  \E t \in Slots : cache'[t].enabled /\ cache'[t].rule_hdl = g /\ cache'[t].conn = rules'[g]
        BY DEF NoRuleForgotten
      <3>1. CASE g = h BY <3>1, <1>1, <2>2, <2>3
      <3>2. CASE g # h BY <3>2, <1>3, <2>3 DEF CoreInv, NoRuleForgotten
      <3>3. QED BY <3>1, <3>2
    <2>6. HandlesAreOwn'
      <3> SUFFICES ASSUME ~renumbered, NEW t \in Slots, cache'[t].enabled
                   PROVE  rules'[cache'[t].rule_hdl] = cache'[t].conn
        BY DEF HandlesAreOwn
      <3>1. CASE t = s BY <3>1, <1>1, <2>2, <2>3
      <3>2. CASE t # s
        <4>1. /\ cache'[t] = cache[t] /\ cache[t].enabled /\ cache[t].rule_hdl \in Handles
              /\ cache[t].conn # NoConn /\ rules[cache[t].rule_hdl] = cache[t].conn
          BY <3>2, <1>1, <1>6 DEF CoreInv, EntryInv, HandlesAreOwn, Used
        <4>2. cache[t].rule_hdl # h BY <4>1, <2>1
        <4>3. QED BY <4>1, <4>2, <2>3
      <3>3. QED BY <3>1, <3>2
    <2>7. NoTableNoRules' BY <1>6 DEF NoTableNoRules
    <2>8. QED BY <1>4, <2>3, <2>4, <2>5, <2>6, <2>7 DEF CoreInv
  <1>7. \A t \in Slots : cache'[t].conn \in {cache[t].conn, k} BY <1>1
  <1>8. QED BY <1>1, <1>5, <1>6, <1>7

\* AddEntry() and CacheEntry(): a rule is added only for a client that is awake.
LEMMA AddEntryKeeps ==
  ASSUME TypeOK, CoreInv, NEW k \in Conns, AddEntry(k) \/ CacheEntry(k), UNCHANGED <<table, torn, renumbered, refused>>
  PROVE  /\ CoreInv' /\ rules' \in Tables /\ cache' \in [Slots -> Entries]
         /\ \A t \in Slots : cache'[t].conn \in {cache[t].conn, k}
         /\ \A h \in Handles : rules'[h] = rules[h] \/ (rules'[h] = k /\ k.priv \notin Asleep)
  <1>0. cache \in [Slots -> Entries] /\ rules \in Tables BY TypeFacts
  <1>1. CASE UNCHANGED <<cache, rules>>
    BY <1>0, <1>1
    DEF CoreInv, EntryInv, NoRuleForgotten, HandlesAreOwn, NoDuplicates, NoTableNoRules, Used
  <1>2. CASE AddEntry(k) /\ ~UNCHANGED <<cache, rules>>
    <2> DEFINE free == {s \in Slots : ~Used(s)}
    <2>1. table /\ ~ChkForDup(k) /\ free # {} BY <1>2 DEF AddEntry
    <2>2. free \in SUBSET Nat BY NatAssumption DEF Slots
    <2>3. Min(free) \in free BY <2>1, <2>2, MinFacts
    <2>4. Min(free) \in Slots /\ ~Used(Min(free)) BY <2>3
    <2>5. \/ /\ cache' = [cache EXCEPT ![Min(free)] = [Zero EXCEPT !.conn = k]]
             /\ UNCHANGED rules
          \/ /\ k.priv \notin Asleep
             /\ \E h \in Free(rules) :
                  /\ cache' = [cache EXCEPT ![Min(free)] = [conn |-> k, enabled |-> TRUE, rule_hdl |-> h]]
                  /\ rules' = [rules EXCEPT ![h] = k]
      BY <1>2, <2>1 DEF AddEntry
    <2> HIDE DEF free
    <2>6. /\ CoreInv' /\ rules' \in Tables /\ cache' \in [Slots -> Entries]
          /\ \A t \in Slots : cache'[t].conn \in {cache[t].conn, k}
      BY <2>1, <2>4, <2>5, PutKeeps
    <2>7. \A h \in Handles : rules'[h] = rules[h] \/ (rules'[h] = k /\ k.priv \notin Asleep)
      BY <1>0, <2>5 DEF Tables, Free
    <2>8. QED BY <2>6, <2>7
  <1>3. CASE CacheEntry(k) /\ ~UNCHANGED <<cache, rules>>
    <2>1. UNCHANGED rules BY <1>3 DEF CacheEntry
    <2>2. PICK s \in Slots : ~Used(s) /\ ~ChkForDup(k) /\ cache' = [cache EXCEPT ![s] = [Zero EXCEPT !.conn = k]]
      BY <1>3 DEF CacheEntry
    <2>3. /\ CoreInv' /\ rules' \in Tables /\ cache' \in [Slots -> Entries]
          /\ \A t \in Slots : cache'[t].conn \in {cache[t].conn, k}
      BY <2>1, <2>2, PutKeeps
    <2>4. QED BY <2>1, <2>3
  <1>4. QED BY <1>1, <1>2, <1>3

\* The first place of x in an array becomes y.
Replaced(new, arr, n, T, x, y) ==
  /\ new \in [1..n -> T]
  /\ \/ x \notin Range(arr) /\ new = arr
     \/ \E i \in 1..n : arr[i] = x /\ new = [arr EXCEPT ![i] = y]

LEMMA ReplaceFacts ==
  ASSUME NEW n \in Nat, NEW T, NEW arr \in [1..n -> T], NEW x, NEW y \in T
  PROVE  Replaced(Replace(arr, x, y), arr, n, T, x, y)
  <1> USE DEF Replaced
  <1>1. CASE x \notin Range(arr) BY <1>1 DEF Replace
  <1>2. CASE x \in Range(arr)
    <2> DEFINE S == {i \in DOMAIN arr : arr[i] = x}
    <2>1. S \in SUBSET Nat /\ S # {} BY <1>2 DEF Range
    <2>2. Min(S) \in S BY <2>1, MinFacts
    <2>3. Min(S) \in 1..n /\ arr[Min(S)] = x BY <2>2
    <2>4. Replace(arr, x, y) = [arr EXCEPT ![Min(S)] = y] BY <1>2 DEF Replace, FirstOf
    <2> HIDE DEF S
    <2>5. QED BY <2>3, <2>4
  <1>3. QED BY <1>1, <1>2

\* The list of the clients asleep, when one joins it and when one leaves it.
LEMMA SleepFacts ==
  ASSUME TypeOK, SleepersOnce, NEW ip \in Clients,
         \/ ip \notin Asleep /\ PwrSaveIfs' = Replace(PwrSaveIfs, NoIp, ip)
         \/ PwrSaveIfs' = Replace(PwrSaveIfs, ip, NoIp)
  PROVE  /\ PwrSaveIfs' \in [PwrSaveSlots -> Clients \cup {NoIp, Garbage}]
         /\ SleepersOnce'
         /\ Asleep' \cap Clients \subseteq Asleep \cup {ip}
         /\ PwrSaveIfs' = Replace(PwrSaveIfs, ip, NoIp) => ip \notin Asleep'
  <1> DEFINE T == Clients \cup {NoIp, Garbage}
  <1>0. MaxPwrSave \in Nat /\ PwrSaveIfs \in [1..MaxPwrSave -> T] /\ NoIp \in T /\ ip \in T
    BY NatAssumption DEF TypeOK, PwrSaveSlots
  <1>1. ip # NoIp /\ NoIp \notin Clients BY NatAssumption
  <1> HIDE DEF T
  <1>2. CASE ip \notin Asleep /\ PwrSaveIfs' = Replace(PwrSaveIfs, NoIp, ip)
    <2>1. /\ PwrSaveIfs' \in [1..MaxPwrSave -> T]
          /\ \/ PwrSaveIfs' = PwrSaveIfs
             \/ \E i \in 1..MaxPwrSave : PwrSaveIfs' = [PwrSaveIfs EXCEPT ![i] = ip]
      <3>1. Replaced(PwrSaveIfs', PwrSaveIfs, MaxPwrSave, T, NoIp, ip) BY <1>0, <1>2, ReplaceFacts
      <3>2. QED BY <3>1 DEF Replaced
    <2>2. \A i \in 1..MaxPwrSave : PwrSaveIfs[i] # ip BY <1>0, <1>2 DEF Asleep, Range
    <2>3. SleepersOnce' BY <1>0, <2>1, <2>2 DEF SleepersOnce, PwrSaveSlots
    <2>4. Asleep' \subseteq Asleep \cup {ip} BY <1>0, <2>1 DEF Asleep, Range
    <2>5. PwrSaveIfs' = Replace(PwrSaveIfs, ip, NoIp) => ip \notin Asleep'
      <3>1. Replace(PwrSaveIfs, ip, NoIp) = PwrSaveIfs BY <1>2 DEF Asleep, Replace
      <3>2. QED BY <1>2, <3>1 DEF Asleep
    <2>6. QED BY <2>1, <2>3, <2>4, <2>5 DEF T, PwrSaveSlots
  <1>3. CASE PwrSaveIfs' = Replace(PwrSaveIfs, ip, NoIp)
    <2>1. /\ PwrSaveIfs' \in [1..MaxPwrSave -> T]
          /\ \/ ip \notin Range(PwrSaveIfs) /\ PwrSaveIfs' = PwrSaveIfs
             \/ \E i \in 1..MaxPwrSave : PwrSaveIfs[i] = ip /\ PwrSaveIfs' = [PwrSaveIfs EXCEPT ![i] = NoIp]
      <3>1. Replaced(PwrSaveIfs', PwrSaveIfs, MaxPwrSave, T, ip, NoIp) BY <1>0, <1>3, ReplaceFacts
      <3>2. QED BY <3>1 DEF Replaced
    <2>2. SleepersOnce' BY <1>0, <1>1, <2>1 DEF SleepersOnce, PwrSaveSlots
    <2>3. Asleep' \subseteq Asleep \cup {NoIp} BY <1>0, <2>1 DEF Asleep, Range
    <2>4. ip \notin Asleep'
      <3>1. CASE ip \notin Range(PwrSaveIfs) /\ PwrSaveIfs' = PwrSaveIfs BY <3>1 DEF Asleep
      <3>2. ASSUME NEW i \in 1..MaxPwrSave, PwrSaveIfs[i] = ip, PwrSaveIfs' = [PwrSaveIfs EXCEPT ![i] = NoIp]
            PROVE  ip \notin Asleep'
        <4>1. \A j \in 1..MaxPwrSave : PwrSaveIfs[j] = ip => j = i
          BY <3>2 DEF SleepersOnce, PwrSaveSlots
        <4>2. \A j \in 1..MaxPwrSave : PwrSaveIfs'[j] # ip BY <1>0, <1>1, <3>2, <4>1
        <4>3. QED BY <2>1, <4>2 DEF Asleep, Range
      <3>3. QED BY <2>1, <3>1, <3>2
    <2>5. QED BY <1>1, <2>1, <2>2, <2>3, <2>4 DEF T, PwrSaveSlots
  <1>4. QED BY <1>2, <1>3
-----------------------------------------------------------------------------
(* The steps.                                                              *)

LEMMA InitIndInv == Init => IndInv
  <1> SUFFICES ASSUME Init PROVE IndInv
    OBVIOUS
  <1> USE NatAssumption DEF Init
  <1>1. TypeOK
    <2>cache. cache \in [Slots -> Entries] BY ZeroFacts
    <2>driver. /\ temp \in [TempSlots -> Conns \cup {NoConn}] /\ rules \in [Handles -> Conns \cup {NoConn}]
               /\ PwrSaveIfs \in [PwrSaveSlots -> Clients \cup {NoIp, Garbage}]
      OBVIOUS
    <2>station. sta_clnt_ipv4_addr \in [StaSlots -> StaNet \cup {NoIp}] /\ StaClntCnt \in 0..MaxSta
      OBVIOUS
    <2>addresses. {pub_ip_addr, pub_ip_addr_pre, wan_ipaddr} \subseteq Pubs \cup {NoIp} OBVIOUS
    <2>flags. {table, torn, WanUp, isStaMode, renumbered} \subseteq BOOLEAN OBVIOUS
    <2>list. nat_iface_ipv4_addr \in [NatSlots -> Clients \cup {NoIp}] OBVIOUS
    <2>q. QED BY <2>cache, <2>driver, <2>station, <2>addresses, <2>flags, <2>list DEF TypeOK, Entries
  <1>2. \A s \in Slots : cache[s] = Zero OBVIOUS
  <1>3. \A h \in Handles : rules[h] = NoConn OBVIOUS
  <1>4. CoreInv
    BY <1>2, <1>3, ZeroFacts
    DEF CoreInv, EntryInv, NoRuleForgotten, HandlesAreOwn, NoDuplicates, NoTableNoRules, Used
  <1>5. EndedNotCached /\ TableOfWan BY DEF EndedNotCached, TableOfWan
  <1>6. SleepersOnce BY DEF SleepersOnce, Garbage
  <1>7. UnwantedNotOffloaded BY <1>3 DEF UnwantedNotOffloaded
  <1>8. StaInv
    <2>1. {s \in StaSlots : sta_clnt_ipv4_addr[s] # NoIp} = {} OBVIOUS
    <2>2. QED BY <2>1, FS_EmptySet DEF StaInv
  <1>9. QED BY <1>1, <1>4, <1>5, <1>6, <1>7, <1>8 DEF IndInv

\* What the steps that leave the upstream and the STA clients alone change.
LEMMA TypeStep ==
  ASSUME TypeOK, cache' \in [Slots -> Entries], rules' \in Tables,
         temp' \in [TempSlots -> Conns \cup {NoConn}],
         PwrSaveIfs' \in [PwrSaveSlots -> Clients \cup {NoIp, Garbage}],
         nat_iface_ipv4_addr' \in [NatSlots -> Clients \cup {NoIp}],
         spared' \subseteq Clients, refused' \subseteq Handles, ended' \subseteq Conns,
         UNCHANGED <<pub_ip_addr, pub_ip_addr_pre, table, torn, sta_clnt_ipv4_addr, StaClntCnt,
                     WanUp, isStaMode, wan_ipaddr, renumbered>>
  PROVE  TypeOK'
  BY DEF TypeOK, Entries, Tables

LEMMA FlushFacts ==
  ASSUME TypeOK, NEW ip, NEW isAdd, FlushTempEntries(ip, isAdd)
  PROVE  temp' \in [TempSlots -> Conns \cup {NoConn}]
  BY DEF TypeOK, FlushTempEntries

\* No operation but Established() brings a connection into the cache.
LEMMA EndedStep ==
  ASSUME TypeOK, EndedNotCached, UNCHANGED ended,
         \A s \in Slots : cache'[s].conn \in {cache[s].conn, NoConn}
  PROVE  EndedNotCached'
  <1>1. NoConn \notin ended BY NatAssumption DEF TypeOK
  <1>2. QED BY <1>1 DEF EndedNotCached

\* A rule that stays stays right, when its client does not become unwanted.
LEMMA UnwantedStep ==
  ASSUME UnwantedNotOffloaded, UNCHANGED renumbered,
         \A h \in Handles \ refused' : rules'[h] # NoConn =>
            \/ rules'[h].priv \notin Unwanted' \ spared'
            \/ /\ h \notin refused /\ rules'[h] = rules[h]
               /\ rules'[h].priv \in Unwanted' \ spared' => rules'[h].priv \in Unwanted \ spared
  PROVE  UnwantedNotOffloaded'
  BY DEF UnwantedNotOffloaded

\* The same for a step after which only one client can be wanted or not wanted anew.
LEMMA OneClientStep ==
  ASSUME UnwantedNotOffloaded, UNCHANGED renumbered, NEW ip,
         Unwanted' \subseteq Unwanted \cup {ip}, spared \ {ip} \subseteq spared',
         ~renumbered => \A h \in Handles \ refused' : rules'[h] # NoConn =>
            \/ rules'[h].priv # ip /\ h \notin refused /\ rules'[h] = rules[h]
            \/ rules'[h].priv = ip /\ ip \notin Unwanted' \ spared'
  PROVE  UnwantedNotOffloaded'
  <1> SUFFICES ASSUME ~renumbered PROVE UnwantedNotOffloaded' BY DEF UnwantedNotOffloaded
  <1> QED BY UnwantedStep

\* The list of those asleep and that of the known clients.
LEMMA UnwantedFacts ==
  ASSUME NEW ip \in Clients, Asleep' \cap Clients \subseteq Asleep \cup {ip},
         Listed \ {ip} \subseteq Listed'
  PROVE  Unwanted' \subseteq Unwanted \cup {ip}
  BY DEF Unwanted

\* The steps that leave the upstream and the STA clients alone.
Upstream == <<pub_ip_addr, table, torn, WanUp, wan_ipaddr, sta_clnt_ipv4_addr, StaClntCnt>>

LEMMA UpstreamStep ==
  ASSUME TableOfWan, StaInv, UNCHANGED Upstream
  PROVE  TableOfWan' /\ StaInv'
  BY DEF TableOfWan, StaInv, Upstream

\* A client is put on the list of the known ones.
LEMMA ListAddFacts ==
  ASSUME TypeOK, NEW ip \in Clients, NEW isNat, HandleNeighIpAddrAddEvt(ip, isNat)
  PROVE  /\ nat_iface_ipv4_addr' \in [NatSlots -> Clients \cup {NoIp}]
         /\ Listed \ {NoIp} \subseteq Listed'
         /\ \/ ResetPwrSaveIf(ip) /\ ip \in Listed'
            \/ UNCHANGED <<nat_iface_ipv4_addr, PwrSaveIfs, cache, rules, spared>>
  <1> DEFINE slots == {s \in NatSlots : nat_iface_ipv4_addr[s] \in {ip, NoIp}}
             T == Clients \cup {NoIp}
  <1>0. nat_iface_ipv4_addr \in [NatSlots -> T] /\ ip \in T BY DEF TypeOK
  <1>1. slots \in SUBSET Nat /\ slots \subseteq NatSlots BY NatAssumption DEF NatSlots
  <1> HIDE DEF T
  <1>2. CASE UNCHANGED <<nat_iface_ipv4_addr, PwrSaveIfs, cache, rules, spared>>
    <2>1. Listed' = Listed BY <1>2 DEF Listed, Range
    <2>2. QED BY <1>0, <1>2, <2>1 DEF T
  <1>3. CASE /\ slots # {} /\ nat_iface_ipv4_addr[Min(slots)] = NoIp
             /\ nat_iface_ipv4_addr' = [nat_iface_ipv4_addr EXCEPT ![Min(slots)] = ip]
             /\ ResetPwrSaveIf(ip)
    <2> DEFINE m == Min(slots)
    <2>1. m \in slots BY <1>1, <1>3, MinFacts
    <2>2. m \in NatSlots /\ nat_iface_ipv4_addr[m] = NoIp BY <1>1, <1>3, <2>1
    <2>3. nat_iface_ipv4_addr' = [nat_iface_ipv4_addr EXCEPT ![m] = ip] BY <1>3
    <2> HIDE DEF m, slots
    <2>4. nat_iface_ipv4_addr' \in [NatSlots -> T] BY <1>0, <2>2, <2>3
    <2>5. ip \in Listed'
      <3>1. nat_iface_ipv4_addr'[m] = ip BY <1>0, <2>2, <2>3
      <3>2. QED BY <2>2, <2>4, <3>1 DEF Listed, Range
    <2>6. ASSUME NEW c \in Listed, c # NoIp PROVE c \in Listed'
      <3>1. PICK s \in NatSlots : nat_iface_ipv4_addr[s] = c BY <1>0, <2>6 DEF Listed, Range
      <3>2. s # m BY <2>2, <2>6, <3>1
      <3>3. nat_iface_ipv4_addr'[s] = c BY <1>0, <2>3, <3>1, <3>2
      <3>4. QED BY <2>4, <3>3 DEF Listed, Range
    <2>7. QED BY <1>3, <2>4, <2>5, <2>6 DEF T
  <1>4. QED BY <1>2, <1>3 DEF HandleNeighIpAddrAddEvt

\* ResetPwrSaveIf(): the client is not among those asleep afterwards, and is spared unless it is known.
LEMMA WakeFacts ==
  ASSUME IndInv, NEW ip \in Clients, ResetPwrSaveIf(ip), UNCHANGED <<table, torn, renumbered, refused>>,
         Listed \ {NoIp} \subseteq Listed'
  PROVE  /\ CoreInv' /\ rules' \in Tables /\ cache' \in [Slots -> Entries]
         /\ \A s \in Slots : cache'[s].conn \in {cache[s].conn, NoConn}
         /\ SleepersOnce' /\ UnwantedNotOffloaded' /\ spared' \subseteq Clients
         /\ PwrSaveIfs' \in [PwrSaveSlots -> Clients \cup {NoIp, Garbage}]
  <1>0. TypeOK /\ CoreInv /\ SleepersOnce /\ UnwantedNotOffloaded BY DEF IndInv
  <1>1. /\ CoreInv' /\ rules' \in Tables /\ cache' \in [Slots -> Entries]
        /\ \A s \in Slots : cache'[s].conn \in {cache[s].conn, NoConn}
        /\ \A h \in Handles : rules'[h] # NoConn => rules'[h] = rules[h] \/ rules'[h].priv = ip
        /\ ~table => \A h \in Handles : rules'[h] = rules[h]
    BY <1>0, ResetKeeps
  <1>2. /\ PwrSaveIfs' = Replace(PwrSaveIfs, ip, NoIp)
        /\ spared' = IF ip \in Listed' THEN spared \ {ip} ELSE IF table THEN spared \cup {ip} ELSE spared
    BY DEF ResetPwrSaveIf
  <1>3. /\ PwrSaveIfs' \in [PwrSaveSlots -> Clients \cup {NoIp, Garbage}]
        /\ SleepersOnce'
        /\ Asleep' \cap Clients \subseteq Asleep \cup {ip}
        /\ ip \notin Asleep'
    BY <1>0, <1>2, SleepFacts
  <1>4. spared' \subseteq Clients /\ spared \ {ip} \subseteq spared' BY <1>0, <1>2 DEF TypeOK
  <1>5. Unwanted' \subseteq Unwanted \cup {ip}
    <2>1. NoIp \notin Clients BY NatAssumption
    <2>2. Asleep' \cap Clients \subseteq Asleep \cup {ip} BY <1>3
    <2>3. QED BY <2>1, <2>2 DEF Unwanted
  <1>6. ASSUME ~renumbered, NEW h \in Handles, h \notin refused', rules'[h] # NoConn
        PROVE  \/ rules'[h].priv # ip /\ h \notin refused /\ rules'[h] = rules[h]
               \/ rules'[h].priv = ip /\ ip \notin Unwanted' \ spared'
    <2>1. CASE rules'[h].priv # ip BY <1>1, <1>6, <2>1
    <2>2. CASE rules'[h].priv = ip
      <3>1. CASE ip \in Listed' BY <1>3, <2>2, <3>1 DEF Unwanted
      <3>2. CASE ip \notin Listed' /\ table BY <1>2, <2>2, <3>2
      <3>3. CASE ip \notin Listed' /\ ~table
        <4>1. rules'[h] = rules[h] /\ h \notin refused BY <1>1, <1>6, <3>3
        <4>2. rules[h].priv \notin Unwanted \ spared
          BY <1>0, <1>6, <4>1 DEF UnwantedNotOffloaded
        <4>3. ip \in Unwanted
          <5>1. ip # NoIp BY NatAssumption
          <5>2. QED BY <3>3, <5>1 DEF Unwanted
        <4>4. QED BY <1>2, <2>2, <3>3, <4>1, <4>2, <4>3
      <3>4. QED BY <3>1, <3>2, <3>3
    <2>3. QED BY <2>1, <2>2
  <1>7. UnwantedNotOffloaded' BY <1>0, <1>4, <1>5, <1>6, OneClientStep
  <1>8. QED BY <1>1, <1>3, <1>4, <1>7

LEMMA NeighAddStep ==
  ASSUME IndInv, NEW ip \in Clients, NEW isNat \in BOOLEAN, HandleNeighIpAddrAddEvt(ip, isNat)
  PROVE  IndInv'
  <1>0. /\ TypeOK /\ CoreInv /\ EndedNotCached /\ SleepersOnce /\ UnwantedNotOffloaded
        /\ TableOfWan /\ StaInv
    BY DEF IndInv
  <1>1. UNCHANGED <<pub_ip_addr, pub_ip_addr_pre, table, torn, sta_clnt_ipv4_addr, StaClntCnt,
                    WanUp, isStaMode, wan_ipaddr, renumbered, refused, ended>>
    BY DEF HandleNeighIpAddrAddEvt
  <1>2. TableOfWan' /\ StaInv' BY <1>0, <1>1, UpstreamStep DEF Upstream
  <1>3. temp' \in [TempSlots -> Conns \cup {NoConn}]
    BY <1>0, FlushFacts DEF HandleNeighIpAddrAddEvt
  <1>list. /\ nat_iface_ipv4_addr' \in [NatSlots -> Clients \cup {NoIp}]
           /\ Listed \ {NoIp} \subseteq Listed'
           /\ \/ ResetPwrSaveIf(ip) /\ ip \in Listed'
              \/ UNCHANGED <<nat_iface_ipv4_addr, PwrSaveIfs, cache, rules, spared>>
    BY <1>0, ListAddFacts
  <1>4. ended' \subseteq Conns /\ refused' \subseteq Handles BY <1>0, <1>1 DEF TypeOK
  <1>5. CASE ResetPwrSaveIf(ip)
    <2>1. /\ CoreInv' /\ rules' \in Tables /\ cache' \in [Slots -> Entries]
          /\ \A s \in Slots : cache'[s].conn \in {cache[s].conn, NoConn}
          /\ SleepersOnce' /\ UnwantedNotOffloaded' /\ spared' \subseteq Clients
          /\ PwrSaveIfs' \in [PwrSaveSlots -> Clients \cup {NoIp, Garbage}]
      BY <1>1, <1>list, <1>5, WakeFacts
    <2>2. EndedNotCached' BY <1>0, <1>1, <2>1, EndedStep
    <2>3. TypeOK' BY <1>0, <1>1, <1>3, <1>4, <1>list, <2>1, TypeStep
    <2>4. QED BY <1>2, <2>1, <2>2, <2>3 DEF IndInv
  <1>6. CASE UNCHANGED <<nat_iface_ipv4_addr, PwrSaveIfs, cache, rules, spared>>
    <2>1. cache' \in [Slots -> Entries] /\ rules' \in Tables BY <1>0, <1>6, TypeFacts
    <2>2. CoreInv'
      BY <1>0, <1>1, <1>6
      DEF CoreInv, EntryInv, NoRuleForgotten, HandlesAreOwn, NoDuplicates, NoTableNoRules, Used
    <2>3. EndedNotCached' /\ SleepersOnce' BY <1>0, <1>1, <1>6 DEF EndedNotCached, SleepersOnce
    <2>4. Unwanted' = Unwanted BY <1>6 DEF Unwanted, Asleep, Listed, Range
    <2>5. UnwantedNotOffloaded' BY <1>0, <1>1, <1>6, <2>4 DEF UnwantedNotOffloaded
    <2>6. spared' \subseteq Clients /\ PwrSaveIfs' \in [PwrSaveSlots -> Clients \cup {NoIp, Garbage}]
      BY <1>0, <1>6 DEF TypeOK
    <2>7. TypeOK' BY <1>0, <1>1, <1>3, <1>4, <1>list, <2>1, <2>6, TypeStep
    <2>8. QED BY <1>2, <2>2, <2>3, <2>5, <2>7 DEF IndInv
  <1>7. QED BY <1>list, <1>5, <1>6

\* What a client that leaves or falls asleep leaves behind.
LEMMA ClientOffFacts ==
  ASSUME IndInv, NEW ip \in Clients, Spare(ip), UNCHANGED <<table, torn, renumbered>>,
         Asleep' \cap Clients \subseteq Asleep \cup {ip}, Listed \ {NoIp, ip} \subseteq Listed',
         \/ Disable(Enabled(Private(ip)), [s \in Slots |-> [cache[s] EXCEPT !.enabled = FALSE, !.rule_hdl = 0]])
         \/ Disable(Enabled(Private(ip)), [s \in Slots |-> [cache[s] EXCEPT !.enabled = FALSE]])
  PROVE  Shrinks /\ UnwantedNotOffloaded' /\ spared' \subseteq Clients
  <1>0. TypeOK /\ CoreInv /\ UnwantedNotOffloaded BY DEF IndInv
  <1>1. /\ Shrinks
        /\ spared \ {ip} \subseteq spared' /\ spared' \subseteq Clients
        /\ \A h \in Handles \ refused' : rules'[h] # NoConn /\ rules'[h].priv = ip => ip \in spared'
    BY <1>0, ClientOffKeeps
  <1>2. Unwanted' \subseteq Unwanted \cup {ip}
    <2>1. NoIp \notin Clients BY NatAssumption
    <2>2. QED BY <2>1 DEF Unwanted
  <1>3. \A h \in Handles \ refused' : rules'[h] # NoConn =>
            \/ rules'[h].priv # ip /\ h \notin refused /\ rules'[h] = rules[h]
            \/ rules'[h].priv = ip /\ ip \notin Unwanted' \ spared'
    BY <1>1 DEF Shrinks
  <1>4. UnwantedNotOffloaded' BY <1>0, <1>1, <1>2, <1>3, OneClientStep
  <1>5. QED BY <1>1, <1>4

LEMMA NeighDelStep ==
  ASSUME IndInv, NEW ip \in Clients, HandleNeighIpAddrDelEvt(ip)
  PROVE  IndInv'
  <1>0. /\ TypeOK /\ CoreInv /\ EndedNotCached /\ SleepersOnce /\ UnwantedNotOffloaded
        /\ TableOfWan /\ StaInv
    BY DEF IndInv
  <1>1. UNCHANGED <<pub_ip_addr, pub_ip_addr_pre, table, torn, sta_clnt_ipv4_addr, StaClntCnt,
                    WanUp, isStaMode, wan_ipaddr, renumbered, ended>>
    BY DEF HandleNeighIpAddrDelEvt
  <1>2. TableOfWan' /\ StaInv' BY <1>0, <1>1, UpstreamStep DEF Upstream
  <1>3. temp' \in [TempSlots -> Conns \cup {NoConn}]
    BY <1>0, FlushFacts DEF HandleNeighIpAddrDelEvt
  <1>4. /\ nat_iface_ipv4_addr' \in [NatSlots -> Clients \cup {NoIp}]
        /\ Listed \ {NoIp, ip} \subseteq Listed'
    <2>1. nat_iface_ipv4_addr \in [NatSlots -> Clients \cup {NoIp}] BY <1>0 DEF TypeOK
    <2>2. nat_iface_ipv4_addr' = [s \in NatSlots |-> IF nat_iface_ipv4_addr[s] = ip THEN NoIp
                                                     ELSE nat_iface_ipv4_addr[s]]
      BY DEF HandleNeighIpAddrDelEvt
    <2>3. QED BY <2>1, <2>2 DEF Listed, Range
  <1>5. /\ PwrSaveIfs' = Replace(PwrSaveIfs, ip, NoIp) /\ Spare(ip)
        /\ Disable(Enabled(Private(ip)), [s \in Slots |-> [cache[s] EXCEPT !.enabled = FALSE]])
    BY DEF HandleNeighIpAddrDelEvt, DelEntriesOnClntDiscon
  <1>6. /\ PwrSaveIfs' \in [PwrSaveSlots -> Clients \cup {NoIp, Garbage}]
        /\ SleepersOnce' /\ Asleep' \cap Clients \subseteq Asleep \cup {ip}
    BY <1>0, <1>5, SleepFacts
  <1>7. Shrinks /\ UnwantedNotOffloaded' /\ spared' \subseteq Clients
    BY <1>1, <1>4, <1>5, <1>6, ClientOffFacts
  <1>8. /\ CoreInv' /\ rules' \in Tables /\ cache' \in [Slots -> Entries]
        /\ \A s \in Slots : cache'[s].conn \in {cache[s].conn, NoConn}
        /\ refused' \subseteq Handles
    BY <1>7 DEF Shrinks
  <1>9. EndedNotCached' BY <1>0, <1>1, <1>8, EndedStep
  <1>10. ended' \subseteq Conns BY <1>0, <1>1 DEF TypeOK
  <1>11. TypeOK' BY <1>0, <1>1, <1>3, <1>4, <1>6, <1>7, <1>8, <1>10, TypeStep
  <1>12. QED BY <1>2, <1>6, <1>7, <1>8, <1>9, <1>11 DEF IndInv

LEMMA RecoverStep ==
  ASSUME IndInv, NEW ip \in Clients, Recover(ip)
  PROVE  IndInv'
  <1>0. /\ TypeOK /\ CoreInv /\ EndedNotCached /\ SleepersOnce /\ UnwantedNotOffloaded
        /\ TableOfWan /\ StaInv
    BY DEF IndInv
  <1>1. UNCHANGED <<pub_ip_addr, pub_ip_addr_pre, table, torn, sta_clnt_ipv4_addr, StaClntCnt,
                    WanUp, isStaMode, wan_ipaddr, renumbered, refused, ended, temp, nat_iface_ipv4_addr>>
    BY DEF Recover, listener
  <1>2. TableOfWan' /\ StaInv' BY <1>0, <1>1, UpstreamStep DEF Upstream
  <1>3. /\ temp' \in [TempSlots -> Conns \cup {NoConn}] /\ ended' \subseteq Conns
        /\ nat_iface_ipv4_addr' \in [NatSlots -> Clients \cup {NoIp}] /\ refused' \subseteq Handles
    BY <1>0, <1>1 DEF TypeOK
  <1>4. Listed' = Listed BY <1>1 DEF Listed, Range
  <1>5. /\ CoreInv' /\ rules' \in Tables /\ cache' \in [Slots -> Entries]
        /\ \A s \in Slots : cache'[s].conn \in {cache[s].conn, NoConn}
        /\ SleepersOnce' /\ UnwantedNotOffloaded' /\ spared' \subseteq Clients
        /\ PwrSaveIfs' \in [PwrSaveSlots -> Clients \cup {NoIp, Garbage}]
    <2>1. ResetPwrSaveIf(ip) BY DEF Recover
    <2>2. QED BY <1>1, <1>4, <2>1, WakeFacts
  <1>6. EndedNotCached' BY <1>0, <1>1, <1>5, EndedStep
  <1>7. TypeOK' BY <1>0, <1>1, <1>3, <1>5, TypeStep
  <1>8. QED BY <1>2, <1>5, <1>6, <1>7 DEF IndInv

\* A client that falls asleep loses its rules, but those that the driver refused to delete.
LEMMA PowerSaveStep ==
  ASSUME IndInv, NEW ip \in Clients, PowerSave(ip)
  PROVE  IndInv'
  <1>0. /\ TypeOK /\ CoreInv /\ EndedNotCached /\ SleepersOnce /\ UnwantedNotOffloaded
        /\ TableOfWan /\ StaInv
    BY DEF IndInv
  <1>1. UNCHANGED <<pub_ip_addr, pub_ip_addr_pre, table, torn, sta_clnt_ipv4_addr, StaClntCnt,
                    WanUp, isStaMode, wan_ipaddr, renumbered, ended, temp, nat_iface_ipv4_addr>>
    BY DEF PowerSave, listener
  <1>2. TableOfWan' /\ StaInv' BY <1>0, <1>1, UpstreamStep DEF Upstream
  <1>3. /\ temp' \in [TempSlots -> Conns \cup {NoConn}] /\ ended' \subseteq Conns
        /\ nat_iface_ipv4_addr' \in [NatSlots -> Clients \cup {NoIp}]
    BY <1>0, <1>1 DEF TypeOK
  <1>list. Listed' = Listed BY <1>1 DEF Listed, Range
  <1>4. CASE ip \in Asleep
    <2>1. UNCHANGED <<PwrSaveIfs, cache, rules, refused, spared>>
      BY <1>4 DEF PowerSave, UpdatePwrSaveIf
    <2>2. TypeOK' BY <1>0, <1>1, <2>1 DEF TypeOK
    <2>3. CoreInv'
      BY <1>0, <1>1, <2>1
      DEF CoreInv, EntryInv, NoRuleForgotten, HandlesAreOwn, NoDuplicates, NoTableNoRules, Used
    <2>4. EndedNotCached' /\ SleepersOnce' BY <1>0, <1>1, <2>1 DEF EndedNotCached, SleepersOnce
    <2>5. Unwanted' = Unwanted BY <1>1, <2>1 DEF Unwanted, Asleep, Listed, Range
    <2>6. UnwantedNotOffloaded' BY <1>0, <1>1, <2>1, <2>5 DEF UnwantedNotOffloaded
    <2>7. QED BY <1>2, <2>2, <2>3, <2>4, <2>6 DEF IndInv
  <1>5. CASE ip \notin Asleep
    <2>1. /\ PwrSaveIfs' = Replace(PwrSaveIfs, NoIp, ip) /\ Spare(ip)
          /\ Disable(Enabled(Private(ip)), [s \in Slots |-> [cache[s] EXCEPT !.enabled = FALSE, !.rule_hdl = 0]])
      BY <1>5 DEF PowerSave, UpdatePwrSaveIf
    <2>2. /\ PwrSaveIfs' \in [PwrSaveSlots -> Clients \cup {NoIp, Garbage}]
          /\ SleepersOnce' /\ Asleep' \cap Clients \subseteq Asleep \cup {ip}
      BY <1>0, <1>5, <2>1, SleepFacts
    <2>3. Shrinks /\ UnwantedNotOffloaded' /\ spared' \subseteq Clients
      BY <1>1, <1>list, <2>1, <2>2, ClientOffFacts
    <2>4. /\ CoreInv' /\ rules' \in Tables /\ cache' \in [Slots -> Entries]
          /\ \A s \in Slots : cache'[s].conn \in {cache[s].conn, NoConn}
          /\ refused' \subseteq Handles
      BY <2>3 DEF Shrinks
    <2>5. EndedNotCached' BY <1>0, <1>1, <2>4, EndedStep
    <2>6. TypeOK' BY <1>0, <1>1, <1>3, <2>2, <2>3, <2>4, TypeStep
    <2>7. QED BY <1>2, <2>2, <2>3, <2>4, <2>5, <2>6 DEF IndInv
  <1>6. QED BY <1>4, <1>5

\* IPA_HANDLE_WAN_UP: no table was there, but one that could not be deleted, and what AddTable()
\* installs for a client that should have nothing is told by `spared'.
LEMMA WanUpStep ==
  ASSUME IndInv, NEW pub \in Pubs, NEW sta \in BOOLEAN, NEW made \in BOOLEAN,
         TriggerWANUp(pub, sta, made)
  PROVE  IndInv'
  <1>0. /\ TypeOK /\ CoreInv /\ EndedNotCached /\ SleepersOnce /\ UnwantedNotOffloaded
        /\ TableOfWan /\ StaInv
    BY DEF IndInv
  <1>1. /\ WanUp' = TRUE /\ isStaMode' = sta /\ wan_ipaddr' = pub /\ AddTable(pub, made) /\ ~WanUp
        /\ UNCHANGED <<temp, PwrSaveIfs, pub_ip_addr_pre, torn, nat_iface_ipv4_addr, sta_clnt_ipv4_addr,
                       StaClntCnt, refused, ended>>
    BY DEF TriggerWANUp
  <1>2. Unwanted' = Unwanted BY <1>1 DEF Unwanted, Asleep, Listed, Range
  <1>3. /\ CoreInv' /\ rules' \in Tables /\ cache' \in [Slots -> Entries]
        /\ \A s \in Slots : cache'[s].conn \in {cache[s].conn, NoConn}
        /\ renumbered' \in BOOLEAN /\ table' \in BOOLEAN
        /\ table' => pub_ip_addr' = pub
        /\ pub_ip_addr' \in {pub, pub_ip_addr}
        /\ spared' \subseteq Clients /\ UnwantedNotOffloaded'
    <2>1. CASE ~made
      <3>1. table' = FALSE /\ UNCHANGED <<cache, rules, pub_ip_addr, renumbered, spared, torn, refused>>
        BY <1>1, <2>1 DEF AddTable
      <3>2. ~torn => ~table BY <1>0, <1>1 DEF TableOfWan
      <3>3. CoreInv'
        BY <1>0, <3>1, <3>2
        DEF CoreInv, EntryInv, NoRuleForgotten, HandlesAreOwn, NoDuplicates, NoTableNoRules, Used
      <3>4. UnwantedNotOffloaded' BY <1>0, <1>2, <3>1 DEF UnwantedNotOffloaded
      <3>5. cache \in [Slots -> Entries] /\ rules \in Tables /\ renumbered \in BOOLEAN
        BY <1>0, TypeFacts
      <3>6. spared' \subseteq Clients BY <1>0, <3>1 DEF TypeOK
      <3>7. QED BY <3>1, <3>3, <3>4, <3>5, <3>6
    <2>2. CASE made
      <3>1. /\ CoreInv' /\ rules' \in Tables /\ cache' \in [Slots -> Entries]
            /\ \A s \in Slots : cache'[s].conn \in {cache[s].conn, NoConn}
            /\ renumbered' \in BOOLEAN
            /\ table' = TRUE /\ pub_ip_addr' = pub
            /\ spared' \subseteq Unwanted
            /\ \A h \in Handles : rules'[h] # NoConn => rules'[h].priv \notin Unwanted \ spared'
        BY <1>0, <1>1, <2>2, AddTableKeeps
      <3>2. spared' \subseteq Clients BY <3>1 DEF Unwanted
      <3>3. UnwantedNotOffloaded' BY <1>2, <3>1 DEF UnwantedNotOffloaded
      <3>4. QED BY <3>1, <3>2, <3>3
    <2>3. QED BY <2>1, <2>2
  <1>4. TypeOK' BY <1>0, <1>1, <1>3 DEF TypeOK, Entries, Tables
  <1>5. TableOfWan' BY <1>1, <1>3 DEF TableOfWan
  <1>6. StaInv' BY <1>0, <1>1 DEF StaInv
  <1>7. SleepersOnce' BY <1>0, <1>1 DEF SleepersOnce
  <1>8. EndedNotCached' BY <1>0, <1>1, <1>3, EndedStep
  <1>9. QED BY <1>3, <1>4, <1>5, <1>6, <1>7, <1>8 DEF IndInv

\* IPA_HANDLE_WAN_DOWN: the table that is up is the one of the address, and goes, or is torn.
LEMMA WanDownStep ==
  ASSUME IndInv, NEW ok \in BOOLEAN, TriggerWANDown(ok)
  PROVE  IndInv'
  <1>0. /\ TypeOK /\ CoreInv /\ EndedNotCached /\ SleepersOnce /\ UnwantedNotOffloaded
        /\ TableOfWan /\ StaInv
    BY DEF IndInv
  <1>1. /\ WanUp' = FALSE /\ DeleteTable(wan_ipaddr, ok)
        /\ UNCHANGED <<cache, temp, PwrSaveIfs, nat_iface_ipv4_addr, sta_clnt_ipv4_addr, StaClntCnt,
                       isStaMode, wan_ipaddr, renumbered, ended>>
    BY DEF TriggerWANDown
  <1>2. Unwanted' = Unwanted BY <1>1 DEF Unwanted, Asleep, Listed, Range
  <1>3. rules \in Tables /\ table \in BOOLEAN BY <1>0, TypeFacts
  <1>4. CASE /\ table' = FALSE /\ rules' = [h \in Handles |-> NoConn] /\ refused' = {} /\ spared' = {}
             /\ pub_ip_addr_pre' = pub_ip_addr /\ pub_ip_addr' = NoIp /\ UNCHANGED torn
    <2>1. rules' \in Tables /\ \A h \in Handles : rules'[h] = NoConn BY <1>4 DEF Tables
    <2>2. TypeOK' BY <1>0, <1>1, <1>4, <2>1 DEF TypeOK, Tables
    <2>3. EntryInv' /\ NoDuplicates' BY <1>0, <1>1 DEF CoreInv, EntryInv, NoDuplicates, Used
    <2>4. NoRuleForgotten' /\ HandlesAreOwn' /\ NoTableNoRules'
      BY <1>4, <2>1 DEF NoRuleForgotten, HandlesAreOwn, NoTableNoRules
    <2>5. UnwantedNotOffloaded' BY <2>1 DEF UnwantedNotOffloaded
    <2>6. TableOfWan' BY <1>4 DEF TableOfWan
    <2>7. EndedNotCached' /\ SleepersOnce' /\ StaInv'
      BY <1>0, <1>1 DEF EndedNotCached, SleepersOnce, StaInv
    <2>8. QED BY <2>2, <2>3, <2>4, <2>5, <2>6, <2>7 DEF IndInv, CoreInv
  <1>5. CASE /\ UNCHANGED <<table, rules, refused, spared, pub_ip_addr, pub_ip_addr_pre>>
             /\ torn' \in BOOLEAN /\ (table \/ torn => torn')
    <2>1. TypeOK' BY <1>0, <1>1, <1>5 DEF TypeOK
    <2>2. CoreInv'
      BY <1>0, <1>1, <1>5
      DEF CoreInv, EntryInv, NoRuleForgotten, HandlesAreOwn, NoDuplicates, NoTableNoRules, Used
    <2>3. UnwantedNotOffloaded' BY <1>0, <1>1, <1>2, <1>5 DEF UnwantedNotOffloaded
    <2>4. TableOfWan' BY <1>5 DEF TableOfWan
    <2>5. EndedNotCached' /\ SleepersOnce' /\ StaInv'
      BY <1>0, <1>1 DEF EndedNotCached, SleepersOnce, StaInv
    <2>6. QED BY <2>5, <2>1, <2>2, <2>4, <2>3 DEF IndInv
  <1>6. torn \in BOOLEAN BY <1>0 DEF TypeOK
  <1>7. table /\ ~torn => wan_ipaddr = pub_ip_addr BY <1>0 DEF TableOfWan
  <1>8. QED BY <1>1, <1>3, <1>4, <1>5, <1>6, <1>7 DEF DeleteTable

\* The slots of the STA clients.
StaTaken == {s \in StaSlots : sta_clnt_ipv4_addr[s] # NoIp}

LEMMA StaFinite == IsFiniteSet(StaTaken) /\ IsFiniteSet(StaTaken')
  <1>0. MaxSta \in Nat BY NatAssumption
  <1>1. IsFiniteSet(StaSlots) BY <1>0, FS_Interval DEF StaSlots
  <1>2. StaTaken \subseteq StaSlots /\ StaTaken' \subseteq StaSlots BY DEF StaTaken
  <1>3. QED BY <1>1, <1>2, FS_Subset

LEMMA StaAddStep ==
  ASSUME IndInv, NEW ip \in StaNet, HandleSTAClientAddEvt(ip)
  PROVE  IndInv'
  <1>0. /\ TypeOK /\ CoreInv /\ EndedNotCached /\ SleepersOnce /\ UnwantedNotOffloaded
        /\ TableOfWan /\ StaInv
    BY DEF IndInv
  <1>1. UNCHANGED <<cache, temp, PwrSaveIfs, pub_ip_addr, pub_ip_addr_pre, table, rules, torn,
                    nat_iface_ipv4_addr, WanUp, isStaMode, wan_ipaddr, renumbered, spared, refused, ended>>
    BY DEF HandleSTAClientAddEvt, app, history
  <1> DEFINE slots == {s \in StaSlots : sta_clnt_ipv4_addr[s] \in {ip, NoIp}}
  <1>2. /\ StaClntCnt < MaxSta /\ slots # {} /\ sta_clnt_ipv4_addr[Min(slots)] = NoIp
        /\ sta_clnt_ipv4_addr' = [sta_clnt_ipv4_addr EXCEPT ![Min(slots)] = ip]
        /\ StaClntCnt' = StaClntCnt + 1
    BY DEF HandleSTAClientAddEvt
  <1>3. slots \in SUBSET Nat /\ slots \subseteq StaSlots BY NatAssumption DEF StaSlots
  <1>4. Min(slots) \in StaSlots BY <1>2, <1>3, MinFacts
  <1> DEFINE m == Min(slots)
  <1> HIDE DEF slots, m
  <1>5. m \in StaSlots /\ sta_clnt_ipv4_addr[m] = NoIp
        /\ sta_clnt_ipv4_addr' = [sta_clnt_ipv4_addr EXCEPT ![m] = ip]
    BY <1>2, <1>4 DEF m
  <1>6. sta_clnt_ipv4_addr \in [StaSlots -> StaNet \cup {NoIp}] /\ StaClntCnt \in 0..MaxSta
    BY <1>0 DEF TypeOK
  <1>7. ip # NoIp BY NatAssumption
  <1>8. StaTaken' = StaTaken \cup {m} /\ m \notin StaTaken BY <1>5, <1>6, <1>7 DEF StaTaken
  <1>9. Cardinality(StaTaken') = Cardinality(StaTaken) + 1 BY <1>8, StaFinite, FS_AddElement
  <1>10. StaInv' BY <1>0, <1>2, <1>9 DEF StaInv, StaTaken
  <1>11. /\ sta_clnt_ipv4_addr' \in [StaSlots -> StaNet \cup {NoIp}]
         /\ StaClntCnt' \in 0..MaxSta
    BY <1>2, <1>5, <1>6, NatAssumption
  <1>12. TypeOK' BY <1>0, <1>1, <1>11 DEF TypeOK
  <1>13. CoreInv'
    BY <1>0, <1>1
    DEF CoreInv, EntryInv, NoRuleForgotten, HandlesAreOwn, NoDuplicates, NoTableNoRules, Used
  <1>14. EndedNotCached' /\ SleepersOnce' /\ UnwantedNotOffloaded' /\ TableOfWan'
    BY <1>0, <1>1
    DEF EndedNotCached, SleepersOnce, UnwantedNotOffloaded, Unwanted, Asleep, Listed, Range, TableOfWan
  <1>15. QED BY <1>10, <1>12, <1>13, <1>14 DEF IndInv

\* The STA client that leaves was counted.
LEMMA StaDelStep ==
  ASSUME IndInv, NEW ip \in StaNet, HandleSTAClientDelEvt(ip)
  PROVE  IndInv'
  <1>0. /\ TypeOK /\ CoreInv /\ EndedNotCached /\ SleepersOnce /\ UnwantedNotOffloaded
        /\ TableOfWan /\ StaInv
    BY DEF IndInv
  <1>1. UNCHANGED <<temp, PwrSaveIfs, pub_ip_addr, pub_ip_addr_pre, table, torn, nat_iface_ipv4_addr,
                    WanUp, isStaMode, wan_ipaddr, renumbered, spared, ended>>
    BY DEF HandleSTAClientDelEvt
  <1>2. /\ ip \in Range(sta_clnt_ipv4_addr)
        /\ sta_clnt_ipv4_addr' = Replace(sta_clnt_ipv4_addr, ip, NoIp)
        /\ StaClntCnt' = StaClntCnt - 1
        /\ DelEntriesOnSTAClntDiscon(ip)
    BY DEF HandleSTAClientDelEvt
  <1>3. /\ sta_clnt_ipv4_addr \in [StaSlots -> StaNet \cup {NoIp}] /\ StaClntCnt \in 0..MaxSta
        /\ MaxSta \in Nat
    BY <1>0, NatAssumption DEF TypeOK
  <1>4. Replaced(sta_clnt_ipv4_addr', sta_clnt_ipv4_addr, MaxSta, StaNet \cup {NoIp}, ip, NoIp)
    <2> DEFINE T == StaNet \cup {NoIp}
    <2>1. NoIp \in T /\ sta_clnt_ipv4_addr \in [1..MaxSta -> T] BY <1>3 DEF StaSlots
    <2> HIDE DEF T
    <2>2. Replaced(sta_clnt_ipv4_addr', sta_clnt_ipv4_addr, MaxSta, T, ip, NoIp)
      BY <1>2, <1>3, <2>1, ReplaceFacts
    <2>3. QED BY <2>2 DEF T
  <1>5. PICK i \in 1..MaxSta : /\ sta_clnt_ipv4_addr[i] = ip
                               /\ sta_clnt_ipv4_addr' = [sta_clnt_ipv4_addr EXCEPT ![i] = NoIp]
    BY <1>2, <1>4 DEF Replaced
  <1>6. ip # NoIp BY NatAssumption
  <1>7. StaTaken' = StaTaken \ {i} /\ i \in StaTaken BY <1>3, <1>5, <1>6 DEF StaTaken, StaSlots
  <1>8. /\ Cardinality(StaTaken') = Cardinality(StaTaken) - 1 /\ Cardinality(StaTaken') \in Nat
    BY <1>7, StaFinite, FS_RemoveElement, FS_CardinalityType
  <1>9. StaInv' BY <1>0, <1>2, <1>8 DEF StaInv, StaTaken
  <1>10. StaClntCnt' \in 0..MaxSta BY <1>2, <1>3, <1>8, <1>9 DEF StaInv, StaTaken
  <1>11. Shrinks BY <1>0, <1>1, <1>2, StaDisconKeeps
  <1>12. /\ CoreInv' /\ rules' \in Tables /\ cache' \in [Slots -> Entries]
         /\ \A s \in Slots : cache'[s].conn \in {cache[s].conn, NoConn}
         /\ refused' \subseteq Handles
        /\ \A h \in Handles \ refused' : rules'[h] # NoConn => rules'[h] = rules[h] /\ h \notin refused
    BY <1>11 DEF Shrinks
  <1>13. sta_clnt_ipv4_addr' \in [StaSlots -> StaNet \cup {NoIp}] BY <1>4 DEF StaSlots, Replaced
  <1>14. TypeOK' BY <1>0, <1>1, <1>10, <1>12, <1>13 DEF TypeOK, Entries, Tables
  <1>15. EndedNotCached' BY <1>0, <1>1, <1>12, EndedStep
  <1>16. SleepersOnce' /\ TableOfWan' BY <1>0, <1>1 DEF SleepersOnce, TableOfWan
  <1>17. Unwanted' = Unwanted BY <1>1 DEF Unwanted, Asleep, Listed, Range
  <1>18. UnwantedNotOffloaded' BY <1>0, <1>1, <1>12, <1>17, UnwantedStep
  <1>19. QED BY <1>9, <1>12, <1>14, <1>15, <1>16, <1>18 DEF IndInv

LEMMA TempFacts ==
  ASSUME TypeOK, NEW k \in Conns, AddTempEntry(k) \/ DeleteTempEntry(k) \/ UNCHANGED temp
  PROVE  temp' \in [TempSlots -> Conns \cup {NoConn}]
  <1> DEFINE T == Conns \cup {NoConn}
  <1>1. MaxTemp \in Nat /\ temp \in [1..MaxTemp -> T] /\ k \in T /\ NoConn \in T
    BY NatAssumption DEF TypeOK, TempSlots
  <1>2. SUFFICES temp' \in [1..MaxTemp -> T] BY DEF TempSlots
  <1> HIDE DEF T
  <1>3. Replaced(Replace(temp, NoConn, k), temp, MaxTemp, T, NoConn, k) BY <1>1, ReplaceFacts
  <1>4. Replaced(Replace(temp, k, NoConn), temp, MaxTemp, T, k, NoConn) BY <1>1, ReplaceFacts
  <1>5. QED BY <1>1, <1>3, <1>4 DEF AddTempEntry, DeleteTempEntry, Replaced

\* A connection that is established is not an ended one any more.
LEMMA EstablishedStep ==
  ASSUME IndInv, NEW k \in Conns, Established(k)
  PROVE  IndInv'
  <1>0. /\ TypeOK /\ CoreInv /\ EndedNotCached /\ SleepersOnce /\ UnwantedNotOffloaded
        /\ TableOfWan /\ StaInv
    BY DEF IndInv
  <1>1. /\ UNCHANGED <<PwrSaveIfs, pub_ip_addr, pub_ip_addr_pre, table, torn, sta_clnt_ipv4_addr, StaClntCnt,
                       WanUp, isStaMode, wan_ipaddr, nat_iface_ipv4_addr, renumbered, spared, refused>>
        /\ ended' = ended \ {k}
    BY DEF Established, listener
  <1>2. TableOfWan' /\ StaInv' BY <1>0, <1>1, UpstreamStep DEF Upstream
  <1>3. temp' \in [TempSlots -> Conns \cup {NoConn}] BY <1>0, TempFacts DEF Established
  <1>4. /\ CoreInv' /\ rules' \in Tables /\ cache' \in [Slots -> Entries]
        /\ \A t \in Slots : cache'[t].conn \in {cache[t].conn, k}
        /\ \A h \in Handles : rules'[h] = rules[h] \/ rules'[h].priv \notin Unwanted
    <2>1. CASE UNCHANGED <<cache, rules>>
      <3>1. cache \in [Slots -> Entries] /\ rules \in Tables BY <1>0, TypeFacts
      <3>2. CoreInv'
        BY <1>0, <1>1, <2>1
        DEF CoreInv, EntryInv, NoRuleForgotten, HandlesAreOwn, NoDuplicates, NoTableNoRules, Used
      <3>3. QED BY <2>1, <3>1, <3>2
    <2>2. CASE (AddEntry(k) /\ ~Temporary(k)) \/ CacheEntry(k)
      <3>1. /\ CoreInv' /\ rules' \in Tables /\ cache' \in [Slots -> Entries]
            /\ \A t \in Slots : cache'[t].conn \in {cache[t].conn, k}
            /\ \A h \in Handles : rules'[h] = rules[h] \/ (rules'[h] = k /\ k.priv \notin Asleep)
        BY <1>0, <1>1, <2>2, AddEntryKeeps
      <3>2. CASE CacheEntry(k) BY <3>1, <3>2 DEF CacheEntry
      <3>3. CASE ~Temporary(k) BY <3>1, <3>3 DEF Temporary, Unwanted
      <3>4. QED BY <2>2, <3>2, <3>3
    <2>3. QED BY <2>1, <2>2 DEF Established
  <1>5. EndedNotCached' BY <1>0, <1>1, <1>4 DEF EndedNotCached
  <1>6. SleepersOnce' BY <1>0, <1>1 DEF SleepersOnce
  <1>7. Unwanted' = Unwanted BY <1>1 DEF Unwanted, Asleep, Listed, Range
  <1>8. UnwantedNotOffloaded' BY <1>0, <1>1, <1>4, <1>7, UnwantedStep
  <1>9. /\ PwrSaveIfs' \in [PwrSaveSlots -> Clients \cup {NoIp, Garbage}]
        /\ nat_iface_ipv4_addr' \in [NatSlots -> Clients \cup {NoIp}]
        /\ spared' \subseteq Clients /\ refused' \subseteq Handles /\ ended' \subseteq Conns
    BY <1>0, <1>1 DEF TypeOK
  <1>10. TypeOK' BY <1>0, <1>1, <1>3, <1>4, <1>9, TypeStep
  <1>11. QED BY <1>2, <1>4, <1>5, <1>6, <1>8, <1>10 DEF IndInv

LEMMA DestroyedStep ==
  ASSUME IndInv, NEW k \in Conns, Destroyed(k)
  PROVE  IndInv'
  <1>0. /\ TypeOK /\ CoreInv /\ EndedNotCached /\ SleepersOnce /\ UnwantedNotOffloaded
        /\ TableOfWan /\ StaInv
    BY DEF IndInv
  <1>1. UNCHANGED <<PwrSaveIfs, pub_ip_addr, pub_ip_addr_pre, table, torn, sta_clnt_ipv4_addr, StaClntCnt,
                    WanUp, isStaMode, wan_ipaddr, nat_iface_ipv4_addr, renumbered, spared>>
    BY DEF Destroyed, listener
  <1>2. TableOfWan' /\ StaInv' BY <1>0, <1>1, UpstreamStep DEF Upstream
  <1>3. temp' \in [TempSlots -> Conns \cup {NoConn}]
    <2>1. DeleteTempEntry(k) \/ UNCHANGED temp BY DEF Destroyed
    <2>2. QED BY <1>0, <2>1, TempFacts
  <1>4. /\ Shrinks /\ EndedNotCached' /\ ended' \subseteq Conns
    <2>1. CASE UNCHANGED <<cache, rules, refused, ended>>
      <3>1. cache \in [Slots -> Entries] /\ rules \in Tables BY <1>0, TypeFacts
      <3>2. CoreInv'
        BY <1>0, <1>1, <2>1
        DEF CoreInv, EntryInv, NoRuleForgotten, HandlesAreOwn, NoDuplicates, NoTableNoRules, Used
      <3>3. Shrinks BY <2>1, <3>1, <3>2, <1>0, TypeFacts DEF Shrinks
      <3>4. EndedNotCached' /\ ended' \subseteq Conns BY <1>0, <2>1 DEF EndedNotCached, TypeOK
      <3>5. QED BY <3>3, <3>4
    <2>2. CASE DeleteEntry(k) /\ ended' = ended \cup {k}
      <3>1. Shrinks /\ \A s \in Slots : cache'[s].conn # k BY <1>0, <1>1, <2>2, DeleteEntryKeeps
      <3>2. NoConn \notin ended /\ ended \subseteq Conns BY <1>0, NatAssumption DEF TypeOK
      <3>3. \A s \in Slots : cache'[s].conn \in {cache[s].conn, NoConn} BY <3>1 DEF Shrinks
      <3>4. EndedNotCached' BY <1>0, <2>2, <3>1, <3>2, <3>3 DEF EndedNotCached
      <3>5. QED BY <2>2, <3>1, <3>2, <3>4
    <2>3. QED BY <2>1, <2>2 DEF Destroyed
  <1>5. /\ CoreInv' /\ rules' \in Tables /\ cache' \in [Slots -> Entries]
        /\ refused' \subseteq Handles
        /\ \A h \in Handles \ refused' : rules'[h] # NoConn => rules'[h] = rules[h] /\ h \notin refused
    BY <1>4 DEF Shrinks
  <1>6. SleepersOnce' BY <1>0, <1>1 DEF SleepersOnce
  <1>7. Unwanted' = Unwanted BY <1>1 DEF Unwanted, Asleep, Listed, Range
  <1>8. UnwantedNotOffloaded' BY <1>0, <1>1, <1>5, <1>7, UnwantedStep
  <1>9. /\ PwrSaveIfs' \in [PwrSaveSlots -> Clients \cup {NoIp, Garbage}]
        /\ nat_iface_ipv4_addr' \in [NatSlots -> Clients \cup {NoIp}] /\ spared' \subseteq Clients
    BY <1>0, <1>1 DEF TypeOK
  <1>10. TypeOK' BY <1>0, <1>1, <1>3, <1>4, <1>5, <1>9, TypeStep
  <1>11. QED BY <1>2, <1>4, <1>5, <1>6, <1>8, <1>10 DEF IndInv

LEMMA StutterStep ==
  ASSUME IndInv, UNCHANGED vars
  PROVE  IndInv'
  <1>0. /\ TypeOK /\ CoreInv /\ EndedNotCached /\ SleepersOnce /\ UnwantedNotOffloaded
        /\ TableOfWan /\ StaInv
    BY DEF IndInv
  <1>1. UNCHANGED <<cache, temp, PwrSaveIfs, pub_ip_addr, pub_ip_addr_pre, table, rules, torn,
                    nat_iface_ipv4_addr, sta_clnt_ipv4_addr, StaClntCnt, WanUp, isStaMode, wan_ipaddr,
                    renumbered, spared, refused, ended>>
    BY DEF vars, app, listener, history
  <1>2. TypeOK' BY <1>0, <1>1 DEF TypeOK
  <1>3. CoreInv'
    BY <1>0, <1>1
    DEF CoreInv, EntryInv, NoRuleForgotten, HandlesAreOwn, NoDuplicates, NoTableNoRules, Used
  <1>4. EndedNotCached' /\ SleepersOnce' /\ UnwantedNotOffloaded' /\ TableOfWan' /\ StaInv'
    BY <1>0, <1>1
    DEF EndedNotCached, SleepersOnce, UnwantedNotOffloaded, Unwanted, Asleep, Listed, Range,
        TableOfWan, StaInv
  <1>5. QED BY <1>2, <1>3, <1>4 DEF IndInv

\* The inductive invariant is kept by every step, one lemma per action.
THEOREM Inductive == Spec => []IndInv
  <1>1. IndInv /\ [Next]_vars => IndInv'
    <2> SUFFICES ASSUME IndInv, [Next]_vars PROVE IndInv'
      OBVIOUS
    <2>1. CASE \E ip \in Clients, isNat \in BOOLEAN : HandleNeighIpAddrAddEvt(ip, isNat)
      BY <2>1, NeighAddStep
    <2>2. CASE \E ip \in Clients : HandleNeighIpAddrDelEvt(ip) BY <2>2, NeighDelStep
    <2>3. CASE \E ip \in Clients : PowerSave(ip) BY <2>3, PowerSaveStep
    <2>4. CASE \E ip \in Clients : Recover(ip) BY <2>4, RecoverStep
    <2>5. CASE \E pub \in Pubs, sta, made \in BOOLEAN : TriggerWANUp(pub, sta, made)
      BY <2>5, WanUpStep
    <2>6. CASE \E ok \in BOOLEAN : TriggerWANDown(ok) BY <2>6, WanDownStep
    <2>7. CASE \E ip \in StaNet : HandleSTAClientAddEvt(ip) BY <2>7, StaAddStep
    <2>8. CASE \E ip \in StaNet : HandleSTAClientDelEvt(ip) BY <2>8, StaDelStep
    <2>9. CASE \E k \in Conns : Established(k) BY <2>9, EstablishedStep
    <2>10. CASE \E k \in Conns : Destroyed(k) BY <2>10, DestroyedStep
    <2>11. CASE UNCHANGED vars BY <2>11, StutterStep
    <2>12. QED
      BY <2>1, <2>2, <2>3, <2>4, <2>5, <2>6, <2>7, <2>8, <2>9, <2>10, <2>11 DEF Next
  <1>2. QED BY <1>1, InitIndInv, PTL DEF Spec

\* No rule of the hardware is forgotten by the cache of NatApp, but those whose deletion
\* DeleteEntry() saw fail, no handle is of another rule, and no connection is in the cache twice,
\* whichever deletions the driver refuses.
THEOREM CacheMatchesTableHolds == Spec => []CacheMatchesTable
  <1>1. IndInv => CacheMatchesTable BY DEF IndInv, CoreInv, CacheMatchesTable
  <1>2. QED BY <1>1, Inductive, PTL

\* What is offloaded should be, up to the rules that the driver refused to delete: an ended
\* connection has no entry, so that neither AddTable() nor ResetPwrSaveIf() can bring it back, and
\* a client asleep or unknown has only the rules that `spared' tells.
THEOREM OffloadedOnlyWantedHolds == Spec => []OffloadedOnlyWanted
  <1>1. IndInv => OffloadedOnlyWanted
    <2> SUFFICES ASSUME IndInv PROVE EndedStaysAway
      BY DEF IndInv, OffloadedOnlyWanted
    <2>1. ASSUME NEW h \in Handles \ refused, rules[h] \in ended PROVE FALSE
      <3>1. rules[h] # NoConn BY <2>1, NatAssumption DEF IndInv, TypeOK
      <3>2. QED BY <2>1, <3>1 DEF IndInv, CoreInv, NoRuleForgotten, EndedNotCached
    <2>2. QED BY <2>1 DEF EndedStaysAway
  <1>2. QED BY <1>1, Inductive, PTL

-----------------------------------------------------------------------------
(* IpacmEvents: what its invariant says.                                   *)

\* What deletes the inactive object of interface i, and what says that i is down.
DeleteSelf(i) == E("LAN_DELETE_SELF", i)
DownOf(i)     == E(DownEvent(i), i)
UpOf(e, i)    == e.iface = i /\ e.event \in UpEvents(i)

Registered(o, e) == \E n \in 1..Len(regs) : regs[n] = [obj |-> o, event |-> e]

\* The event that an object of type t registers for last.
LastEvent(t) == ListenerEvents(t)[Len(ListenerEvents(t))]

\* Every live object is registered for the events of its type, the last of which comes last,
\* and nobody else but the manager for anything.
RegsMatch ==
  /\ \A m, n \in 1..Len(regs) : regs[m] = regs[n] => m = n
  /\ \A n \in 1..Len(regs) :
       IF regs[n].obj = Manager THEN regs[n].event \in Members(ManagerEvents)
       ELSE /\ regs[n].obj \in DOMAIN objects
            /\ regs[n].event \in Members(ListenerEvents(objects[regs[n].obj].type))
  /\ \A o \in DOMAIN objects : \A e \in Members(ListenerEvents(objects[o].type)) : Registered(o, e)
  /\ \A m, n \in 1..Len(regs) :
       m < n /\ regs[m].obj = regs[n].obj /\ regs[m].obj # Manager =>
         regs[m].event # LastEvent(objects[regs[m].obj].type)

\* The walk has come to place k: of the listeners of the event it has called those before.
Reached(k) ==
  /\ regs[k] = tmp /\ tmp.event = evt.event
  /\ \A n \in 1..Len(regs) : regs[n].event = evt.event => (regs[n].obj \in served <=> n < k)

\* A walk that was lost in freed memory stands where it was lost.
WalkOK ==
  /\ Lost => thread = "walking" /\ tmp # End /\ LostOnlyBy
  /\ thread = "walking" /\ ~ Lost =>
       IF tmp = End THEN \A n \in 1..Len(regs) : regs[n].event = evt.event => regs[n].obj \in served
       ELSE \E k \in 1..Len(regs) : Reached(k)

\* The manager's list holds each object with its interface.
InstancesMatch ==
  /\ \A o \in DOMAIN objects :
       \E k \in 1..Len(instances) : instances[k] = [iface |-> objects[o].iface, obj |-> o]
  /\ \A k \in 1..Len(instances) :
       /\ instances[k].obj \in DOMAIN objects
       /\ instances[k].iface = objects[instances[k].obj].iface

InQueue(e) == \E n \in 1..Len(queue) : queue[n] = e

\* There is at most one event to delete the object of an interface, when that is inactive,
\* and while the event is dispatched the object has still to be called.
DeleteSelfOK ==
  \A i \in Ifaces :
    /\ \A m, n \in 1..Len(queue) : queue[m] = DeleteSelf(i) /\ queue[n] = DeleteSelf(i) => m = n
    /\ InQueue(DeleteSelf(i)) =>
         evt # DeleteSelf(i) /\ \E o \in DOMAIN objects : objects[o].iface = i /\ ~ objects[o].active
    /\ \A o \in DOMAIN objects : objects[o].iface = i =>
         /\ evt = DeleteSelf(i) => ~ objects[o].active /\ o \notin served
         /\ ~ objects[o].active => evt = DeleteSelf(i) \/ InQueue(DeleteSelf(i))

\* An interface that was last said to be down has the event that ends its object on the way,
\* with nothing behind it that makes a new one, or its active object is about to be called.
DownPending(i) ==
  \E n \in 1..Len(queue) :
    queue[n] = DownOf(i) /\ \A m \in 1..Len(queue) : m > n => ~ UpOf(queue[m], i)

DownHandled(i) ==
  /\ \A m \in 1..Len(queue) : ~ UpOf(queue[m], i)
  /\ ~ UpOf(evt, i)
  /\ \A o \in DOMAIN objects : objects[o].iface = i /\ objects[o].active => evt = DownOf(i) /\ o \notin served

DownOK == \A i \in Ifaces : link[i] = "down" => DownPending(i) \/ DownHandled(i)

EventsInv ==
  /\ EventsTypeOK /\ RegsMatch /\ WalkOK /\ InstancesMatch /\ OneObjectEach
  /\ DeleteSelfOK /\ DownOK /\ ApsCounted /\ NatIfacesMatch
-----------------------------------------------------------------------------
(* Constants of the model.                                                 *)

LEMMA ManagerListens ==
  Members(ManagerEvents) = {"CFG_CHANGE", "LINK_UP", "WLAN_AP_LINK_UP", "USB_LINK_UP"}
  BY DEF Members, ManagerEvents

LEMMA ObjectsListen ==
  /\ Members(ListenerEvents("lan")) = {"ADDR_ADD", "CFG_CHANGE", "LINK_DOWN", "LAN_DELETE_SELF"}
  /\ Members(ListenerEvents("wlan")) = {"ADDR_ADD", "WLAN_LINK_DOWN", "LAN_DELETE_SELF", "TETHERING_STATS"}
  /\ Members(ListenerEvents("q6")) = {"ADDR_ADD", "CFG_CHANGE", "LINK_DOWN"}
  /\ Members(ListenerEvents("ecm")) = {"ADDR_ADD", "CFG_CHANGE", "LINK_DOWN"}
  <1>1. /\ ListenerEvents("lan") = <<"ADDR_ADD", "CFG_CHANGE", "LINK_DOWN", "LAN_DELETE_SELF">>
        /\ ListenerEvents("wlan") = <<"ADDR_ADD", "WLAN_LINK_DOWN", "LAN_DELETE_SELF", "TETHERING_STATS">>
        /\ ListenerEvents("q6") = <<"ADDR_ADD", "CFG_CHANGE", "LINK_DOWN">>
        /\ ListenerEvents("ecm") = <<"ADDR_ADD", "CFG_CHANGE", "LINK_DOWN">>
    BY DEF ListenerEvents
  <1>2. \A a, b, c : Members(<<a, b, c>>) = {a, b, c} BY DEF Members
  <1>3. \A a, b, c, d : Members(<<a, b, c, d>>) = {a, b, c, d} BY DEF Members
  <1>4. Members(ListenerEvents("lan")) = {"ADDR_ADD", "CFG_CHANGE", "LINK_DOWN", "LAN_DELETE_SELF"}
    BY <1>1, <1>3
  <1>5. Members(ListenerEvents("wlan")) = {"ADDR_ADD", "WLAN_LINK_DOWN", "LAN_DELETE_SELF", "TETHERING_STATS"}
    BY <1>1, <1>3
  <1>6. /\ Members(ListenerEvents("q6")) = {"ADDR_ADD", "CFG_CHANGE", "LINK_DOWN"}
        /\ Members(ListenerEvents("ecm")) = {"ADDR_ADD", "CFG_CHANGE", "LINK_DOWN"}
    BY <1>1, <1>2
  <1>7. QED BY <1>4, <1>5, <1>6

\* The events of the manager that make objects are its own: nobody else is registered for them.
LEMMA UpIsTheManagers ==
  ASSUME NEW t \in {"lan", "wlan", "q6", "ecm"}
  PROVE  /\ Members(ListenerEvents(t)) \cap {"LINK_UP", "WLAN_AP_LINK_UP", "USB_LINK_UP", "none"} = {}
         /\ ListenerEvents(t) \in Seq(Members(ListenerEvents(t)))
         /\ Members(ListenerEvents(t)) \subseteq UNION {Members(ListenerEvents(u)) : u \in {"lan", "wlan", "q6"}}
         /\ \A m, n \in 1..Len(ListenerEvents(t)) : ListenerEvents(t)[m] = ListenerEvents(t)[n] => m = n
  <1>1. Members(ListenerEvents(t)) \cap {"LINK_UP", "WLAN_AP_LINK_UP", "USB_LINK_UP", "none"} = {}
    BY ObjectsListen
  <1>2. ListenerEvents(t) \in Seq(Members(ListenerEvents(t)))
    <2>1. \A a, b, c : <<a, b, c>> \in Seq(Members(<<a, b, c>>)) BY DEF Members
    <2>2. \A a, b, c, d : <<a, b, c, d>> \in Seq(Members(<<a, b, c, d>>)) BY DEF Members
    <2>3. (\E a, b, c : ListenerEvents(t) = <<a, b, c>>) \/ (\E a, b, c, d : ListenerEvents(t) = <<a, b, c, d>>)
      BY DEF ListenerEvents
    <2>4. QED BY <2>1, <2>2, <2>3
  <1>3. Members(ListenerEvents("ecm")) = Members(ListenerEvents("q6")) BY ObjectsListen
  <1>4. Members(ListenerEvents(t)) \subseteq UNION {Members(ListenerEvents(u)) : u \in {"lan", "wlan", "q6"}}
    BY <1>3
  <1>5. \A m, n \in 1..Len(ListenerEvents(t)) : ListenerEvents(t)[m] = ListenerEvents(t)[n] => m = n
    BY DEF ListenerEvents
  <1>6. QED BY <1>1, <1>2, <1>4, <1>5

\* What each message is about.
LEMMA MessageFacts ==
  ASSUME NEW e \in Messages
  PROVE  /\ e = E(e.event, e.iface) /\ e # NoEvt
         /\ e.event # "CFG_CHANGE" => e.iface \in Ifaces
         /\ e.event \in {"WLAN_AP_LINK_UP", "WLAN_LINK_DOWN"} => e.iface \in Wlans
         /\ e.event \in {"CFG_CHANGE", "LINK_UP", "LINK_DOWN", "USB_LINK_UP", "ADDR_ADD",
                         "LAN_DELETE_SELF", "WLAN_AP_LINK_UP", "WLAN_LINK_DOWN"}
         /\ e.iface \in Ifaces \cup {Hole}
  <1>1. Wlans \subseteq Ifaces BY DEF Ifaces
  <1>2. QED BY <1>1 DEF Messages, E, NoEvt, Hole

LEMMA MessagesMade ==
  /\ E("CFG_CHANGE", Hole) \in Messages
  /\ \A i \in Ifaces : \A e \in {"LINK_UP", "LINK_DOWN", "USB_LINK_UP", "ADDR_ADD", "LAN_DELETE_SELF"} :
       E(e, i) \in Messages
  /\ \A i \in Wlans : E("WLAN_AP_LINK_UP", i) \in Messages /\ E("WLAN_LINK_DOWN", i) \in Messages
  BY DEF Messages

\* The kinds of the interfaces.
LEMMA KindFacts ==
  ASSUME NEW i \in Ifaces
  PROVE  /\ i # Hole
         /\ TypesOf(i) \subseteq {"lan", "wlan", "q6", "ecm"}
         /\ "wlan" \in TypesOf(i) <=> i \in Wlans
         /\ i \in Wlans => TypesOf(i) = {"wlan"} /\ CatsOf(i) = {"UNKNOWN", "WLAN"}
         /\ i \notin Wlans => CatsOf(i) \subseteq {"LAN", "WAN"}
         /\ "LAN" \in CatsOf(i) => "lan" \in TypesOf(i)
         /\ "WAN" \in CatsOf(i) => {"q6", "ecm"} \subseteq TypesOf(i)
         /\ Shipped[i] \in CatsOf(i)
  BY EventsAssumption DEF Ifaces, TypesOf, CatsOf, Shipped, Hole

-----------------------------------------------------------------------------
(* Lists of nodes.                                                         *)

LEMMA FirstNodeFacts ==
  ASSUME NEW list, NEW places \in SUBSET Nat
  PROVE  IF places = {} THEN FirstNode(list, places) = End
         ELSE \E k \in places : FirstNode(list, places) = list[k] /\ \A j \in places : k <= j
  <1>1. CASE places = {} BY <1>1 DEF FirstNode
  <1>2. CASE places # {}
    <2> DEFINE k == CHOOSE x \in places : \A y \in places : x <= y
    <2>1. \E x \in places : \A y \in places : x <= y BY <1>2, MinExists
    <2>2. k \in places /\ \A j \in places : k <= j BY <2>1
    <2>3. FirstNode(list, places) = list[k] BY <1>2 DEF FirstNode
    <2>4. QED BY <1>2, <2>2, <2>3
  <1>3. QED BY <1>1, <1>2

\* The places of list that Others keeps.
Kept(list, o) == {n \in 1..Len(list) : list[n].obj # o}

\* f leads from the places of s to those of list that are kept, in their order and onto all.
Embeds(f, s, list, o) ==
  /\ f \in [1..Len(s) -> Kept(list, o)]
  /\ \A n \in 1..Len(s) : s[n] = list[f[n]]
  /\ \A m, n \in 1..Len(s) : m < n <=> f[m] < f[n]
  /\ \A k \in Kept(list, o) : \E n \in 1..Len(s) : f[n] = k

LEMMA OthersFacts ==
  ASSUME NEW T, NEW list \in Seq(T), NEW o
  PROVE  Others(list, o) \in Seq(T) /\ \E f : Embeds(f, Others(list, o), list, o)
  <1> DEFINE K == Kept(list, o)
             N == Cardinality(K)
             Upto(h) == {g \in K : g <= h}
             r == [h \in K |-> Cardinality(Upto(h))]
  <1>1. K \subseteq 1..Len(list) /\ K \subseteq Nat BY DEF Kept
  <1>2. IsFiniteSet(K) /\ N \in Nat
    <2>1. IsFiniteSet(1..Len(list)) BY FS_Interval
    <2>2. IsFiniteSet(K) BY <1>1, <2>1, FS_Subset
    <2>3. QED BY <2>2, FS_CardinalityType
  <1>3. ASSUME NEW h \in K PROVE IsFiniteSet(Upto(h)) /\ Cardinality(Upto(h)) \in 1..N
    <2>1. Upto(h) \in SUBSET K /\ h \in Upto(h) BY <1>1
    <2>2. IsFiniteSet(Upto(h)) /\ Cardinality(Upto(h)) <= N BY <2>1, <1>2, FS_Subset
    <2>3. Cardinality(Upto(h)) \in Nat /\ Cardinality(Upto(h)) # 0
      BY <2>1, <2>2, FS_EmptySet, FS_CardinalityType
    <2>4. QED BY <2>2, <2>3, <1>2
  <1>4. ASSUME NEW g \in K, NEW h \in K, g < h PROVE Cardinality(Upto(g)) # Cardinality(Upto(h))
    <2>1. Upto(g) \in SUBSET Upto(h) /\ h \in Upto(h) /\ h \notin Upto(g) BY <1>1, <1>4
    <2>2. QED BY <2>1, <1>3, FS_Subset
  <1>5. r \in Injection(K, 1..N)
    <2>1. r \in [K -> 1..N] BY <1>3
    <2>2. ASSUME NEW g \in K, NEW h \in K, g # h PROVE r[g] # r[h]
      <3>1. g < h \/ h < g BY <2>2, <1>1
      <3>2. QED BY <3>1, <1>4
    <2>3. QED BY <2>1, <2>2 DEF Injection, IsInjective
  <1>6. IsFiniteSet(1..N) /\ Cardinality(1..N) = N BY <1>2, FS_Interval
  <1>7. r \in Surjection(K, 1..N) BY <1>5, <1>6, FS_Injection
  <1>8. \A n \in 1..N : \E h \in K : Cardinality(Upto(h)) = n BY <1>7 DEF Surjection
  <1>9. \A k \in K : Cardinality(Upto(k)) \in 1..N BY <1>3
  <1>10. ASSUME NEW g \in K, NEW h \in K, g < h PROVE Cardinality(Upto(g)) <= Cardinality(Upto(h))
    <2>1. Upto(g) \in SUBSET Upto(h) BY <1>1, <1>10
    <2>2. QED BY <2>1, <1>3, FS_Subset
  <1> DEFINE rank(k) == Cardinality(Upto(k))
             f == [n \in 1..N |-> CHOOSE h \in K : rank(h) = n]
             s == Others(list, o)
  <1>11. s = [n \in 1..N |-> list[f[n]]]
    <2>1. s = [n \in 1..N |-> list[CHOOSE h \in K : rank(h) = n]]
      BY DEF Others, Kept
    <2>2. QED BY <2>1
  <1>12. \A n \in 1..N : \E h \in K : rank(h) = n BY <1>8
  <1>13. \A k \in K : rank(k) \in 1..N BY <1>9
  <1>14. \A g, h \in K : g < h => rank(g) <= rank(h) /\ rank(g) # rank(h) BY <1>4, <1>10
  <1> HIDE DEF K, N, Upto, rank, s
  <1>15. \A n \in 1..N : f[n] \in K /\ rank(f[n]) = n
    <2>1. TAKE n \in 1..N
    <2>2. f[n] = CHOOSE h \in K : rank(h) = n OBVIOUS
    <2>3. QED BY <2>2, <1>12, Zenon
  <1>16. f \in [1..N -> K]
    <2>1. \A n \in 1..N : (CHOOSE h \in K : rank(h) = n) \in K BY <1>12, Zenon
    <2>2. QED BY <2>1, Zenon
  <1> HIDE DEF f
  <1>17. s \in Seq(T) /\ Len(s) = N
    <2>1. ASSUME NEW n \in 1..N PROVE list[f[n]] \in T
      <3>1. f[n] \in 1..Len(list) BY <1>1, <1>15, Zenon
      <3>2. QED BY <3>1, ElementOfSeq
    <2>2. s \in [1..N -> T] BY <1>11, <2>1, Zenon
    <2>3. QED BY <2>2, <1>2
  <1>18. \A m, n \in 1..N : m < n <=> f[m] < f[n]
    <2>1. TAKE m, n \in 1..N
    <2>2. f[m] \in K /\ f[n] \in K /\ rank(f[m]) = m /\ rank(f[n]) = n BY <1>15
    <2>3. f[m] \in Nat /\ f[n] \in Nat BY <2>2, <1>1, Zenon
    <2>4. f[m] < f[n] => m <= n /\ m # n BY <2>2, <1>14, Zenon
    <2>5. f[n] < f[m] => n <= m /\ n # m BY <2>2, <1>14, Zenon
    <2>6. m \in Nat /\ n \in Nat BY <1>2
    <2>7. f[m] = f[n] => m = n BY <2>2, Zenon
    <2>8. QED BY ONLY <2>3, <2>4, <2>5, <2>6, <2>7
  <1>19. ASSUME NEW k \in K PROVE \E n \in 1..N : f[n] = k
    <2>1. rank(k) \in 1..N BY <1>13
    <2>2. f[rank(k)] \in K /\ rank(f[rank(k)]) = rank(k) BY <2>1, <1>15
    <2>3. f[rank(k)] \in Nat /\ k \in Nat BY <2>2, <1>1, Zenon
    <2>4. ~ (f[rank(k)] < k) /\ ~ (k < f[rank(k)]) BY <2>2, <1>14, Zenon
    <2>5. QED BY <2>1, <2>3, <2>4
  <1>20. \A n \in 1..N : s[n] = list[f[n]] BY <1>11
  <1>21. Embeds(f, s, list, o)
    <2>1. f \in [1..Len(s) -> Kept(list, o)] BY <1>16, <1>17 DEF K
    <2>2. \A k \in Kept(list, o) : \E n \in 1..Len(s) : f[n] = k BY <1>17, <1>19 DEF K
    <2>3. QED BY <2>1, <2>2, <1>17, <1>18, <1>20 DEF Embeds
  <1>22. QED BY <1>17, <1>21 DEF s

-----------------------------------------------------------------------------
(* The walk over the registrations.                                        *)

LEMMA EventsTypeFacts ==
  ASSUME EventsTypeOK
  PROVE  /\ thread \in {"ready", "waiting", "walking"} /\ signalled \in BOOLEAN
         /\ queue \in Seq(Messages) /\ netlink \in Seq(LinkMessages)
         /\ evt \in Messages \cup {NoEvt} /\ (evt = NoEvt <=> thread # "walking")
         /\ tmp \in Registration \cup {End} /\ (thread # "walking" => tmp = End)
         /\ regs \in Seq(Registration)
         /\ IsFiniteSet(DOMAIN objects) /\ DOMAIN objects \subseteq Nat \ {Manager}
         /\ \A o \in DOMAIN objects : ObjectOK(objects[o])
         /\ instances \in Seq([iface : Ifaces, obj : Nat])
         /\ DOMAIN xml = Ifaces /\ DOMAIN if_cat = Ifaces
         /\ \A i \in Ifaces : xml[i] \in CatsOf(i) /\ if_cat[i] \in CatsOf(i)
         /\ nat_ifaces \in Seq(Ifaces \cup {Hole})
         /\ num_wlan_ap_iface \in Nat
         /\ stray \in {"none", "lan", "wlan", "q6", "ecm"}
         /\ link \in [Ifaces -> {"up", "down"}]
         /\ served \subseteq Nat
         /\ reports \in 0..MaxReports
  BY DEF EventsTypeOK

LEMMA RegistrationFacts ==
  ASSUME NEW r \in Registration
  PROVE  /\ r = [obj |-> r.obj, event |-> r.event] /\ r.obj \in Nat
         /\ r.event # "none" /\ r # End
  <1>1. r.obj \in Nat /\ r = [obj |-> r.obj, event |-> r.event] BY DEF Registration
  <1>2. r.event \in Members(ManagerEvents) \cup UNION {Members(ListenerEvents(t)) : t \in {"lan", "wlan", "q6"}}
    BY DEF Registration
  <1>3. r.event # "none" BY <1>2, ManagerListens, ObjectsListen
  <1>4. QED BY <1>1, <1>3 DEF End

LEMMA PlaceFacts ==
  ASSUME EventsTypeOK, RegsMatch, WalkOK, Calling
  PROVE  /\ Place \in 1..Len(regs) /\ Reached(Place)
         /\ Len(regs) \in Nat
         /\ \A n \in 1..Len(regs) : regs[n] \in Registration
         /\ evt \in Messages /\ evt.event # "none"
  <1>1. PICK k \in 1..Len(regs) : Reached(k) BY DEF WalkOK, Calling, Lost
  <1>2. regs[k] = tmp BY <1>1 DEF Reached
  <1>3. \A n \in 1..Len(regs) : regs[n] = tmp => n = k BY <1>2 DEF RegsMatch
  <1>4. Place = k BY <1>2, <1>3 DEF Place
  <1>5. regs \in Seq(Registration) /\ evt \in Messages BY EventsTypeFacts DEF Calling
  <1>6. evt.event # "none" BY <1>5, MessageFacts
  <1>7. QED BY <1>1, <1>4, <1>5, <1>6, ElementOfSeq, LenProperties

\* Who is called, and that it is called once.
LEMMA CalledFacts ==
  ASSUME EventsTypeOK, RegsMatch, WalkOK, Calling
  PROVE  /\ tmp \in Registration /\ tmp.event = evt.event /\ tmp.obj \notin served
         /\ tmp.obj = Manager => evt.event \in Members(ManagerEvents)
         /\ tmp.obj # Manager => /\ tmp.obj \in DOMAIN objects
                                 /\ evt.event \in Members(ListenerEvents(Self.type))
  <1>1. Place \in 1..Len(regs) /\ Reached(Place) BY PlaceFacts
  <1>2. regs[Place] = tmp /\ tmp.event = evt.event BY <1>1 DEF Reached
  <1>3. regs[Place].obj \in served <=> Place < Place BY <1>1, <1>2 DEF Reached
  <1>4. tmp.obj \notin served BY <1>1, <1>2, <1>3
  <1>5. tmp \in Registration BY EventsTypeFacts DEF Calling
  <1>6. QED BY <1>1, <1>2, <1>4, <1>5 DEF RegsMatch, Self

\* The walk goes on in a list that has grown by nodes for other events.
LEMMA WalkOn ==
  ASSUME EventsTypeOK, RegsMatch, WalkOK, Calling,
         NEW list \in Seq(Registration), Len(list) >= Len(regs),
         \A n \in 1..Len(regs) : list[n] = regs[n],
         \A n \in 1..Len(list) : n > Len(regs) => list[n].event # evt.event,
         regs' = list, thread' = thread, evt' = evt, served' = served \cup {tmp.obj}, stray' = stray,
         tmp' = FirstNode(list, {n \in PlacesFor(list, evt.event) : n > Place /\ Place # Len(regs)})
  PROVE  WalkOK' /\ tmp' \in Registration \cup {End}
  <1> DEFINE P == Place
             S == {n \in PlacesFor(list, evt.event) : n > P /\ P # Len(regs)}
             e == evt.event
  <1>1. /\ P \in 1..Len(regs) /\ Reached(P) /\ Len(regs) \in Nat
        /\ \A n \in 1..Len(regs) : regs[n] \in Registration
        /\ e # "none"
    BY PlaceFacts
  <1>2. regs[P] = tmp /\ tmp.event = e /\ \A n \in 1..Len(regs) : regs[n].event = e => (regs[n].obj \in served <=> n < P)
    BY <1>1 DEF Reached
  <1>3. Len(list) \in Nat OBVIOUS
  <1>4. \A n \in 1..Len(list) : list[n].event = e => n \in 1..Len(regs) /\ list[n] = regs[n]
    BY <1>1, <1>3
  <1>5. \A n \in 1..Len(regs) : n \in 1..Len(list) BY <1>1, <1>3
  <1>6. \A n \in S : n \in 1..Len(regs) /\ regs[n].event = e /\ n > P /\ list[n] = regs[n]
    BY <1>4 DEF PlacesFor
  <1>7. \A n \in 1..Len(regs) : regs[n].event = e /\ n > P => n \in S
    BY <1>1, <1>5 DEF PlacesFor
  <1>8. S \in SUBSET Nat BY <1>1, <1>6
  <1>9. tmp' = FirstNode(list, S) OBVIOUS
  <1>10. \A n \in 1..Len(regs) : regs[n].event = e /\ n > P => regs[n].obj \notin served'
    <2>1. TAKE n \in 1..Len(regs)
    <2>2. HAVE regs[n].event = e /\ n > P
    <2>3. regs[n].obj \notin served BY <1>1, <1>2, <2>2
    <2>4. regs[n] # regs[P] BY <1>1, <2>2 DEF RegsMatch
    <2>5. regs[n].obj # tmp.obj BY <1>1, <1>2, <2>2, <2>4, RegistrationFacts
    <2>6. QED BY <2>3, <2>5
  <1>11. \A n \in 1..Len(regs) : regs[n].event = e /\ n <= P => regs[n].obj \in served'
    BY <1>1, <1>2
  <1> HIDE DEF S, P
  <1>12. CASE S = {}
    <2>1. tmp' = End BY <1>8, <1>9, <1>12, FirstNodeFacts
    <2>2. \A n \in 1..Len(regs) : regs[n].event = e => n <= P BY <1>1, <1>7, <1>12
    <2>3. \A n \in 1..Len(list) : list[n].event = e => list[n].obj \in served'
      BY <1>4, <1>11, <2>2
    <2>4. WalkOK' BY <2>1, <2>3 DEF WalkOK, Calling, Lost
    <2>5. QED BY <2>1, <2>4
  <1>13. CASE S # {}
    <2>1. PICK k \in S : FirstNode(list, S) = list[k] /\ \A j \in S : k <= j
      BY <1>8, <1>13, FirstNodeFacts
    <2>2. /\ k \in 1..Len(regs) /\ regs[k].event = e /\ k > P /\ list[k] = regs[k]
          /\ tmp' = regs[k] /\ regs[k] \in Registration
      BY <1>1, <1>6, <1>9, <2>1
    <2>3. \A n \in 1..Len(list) : list[n].event = e => (list[n].obj \in served' <=> n < k)
      <3>1. TAKE n \in 1..Len(list)
      <3>2. HAVE list[n].event = e
      <3>3. n \in 1..Len(regs) /\ list[n] = regs[n] /\ regs[n].event = e BY <1>4, <3>2
      <3>4. CASE n <= P
        <4>1. regs[n].obj \in served' BY <1>11, <3>3, <3>4
        <4>2. n < k BY <1>1, <2>2, <3>3, <3>4
        <4>3. QED BY <3>3, <4>1, <4>2
      <3>5. CASE n > P
        <4>1. regs[n].obj \notin served' BY <1>10, <3>3, <3>5
        <4>2. k <= n BY <1>7, <2>1, <3>3, <3>5
        <4>3. QED BY <2>2, <3>3, <4>1, <4>2
      <3>6. QED BY <1>1, <3>3, <3>4, <3>5
    <2>4. k \in 1..Len(regs') /\ regs'[k] = tmp' BY <1>5, <2>2
    <2>5. Reached(k)' BY <2>2, <2>3, <2>4 DEF Reached
    <2>6. tmp' # End BY <2>2, RegistrationFacts
    <2>7. WalkOK' BY <2>4, <2>5, <2>6 DEF WalkOK, Calling, Lost
    <2>8. QED BY <2>2, <2>7
  <1>14. QED BY <1>12, <1>13

\* The events in which an object of type t deletes itself.
DeletesItself(e, t) ==
  \/ e = "LAN_DELETE_SELF" /\ t \in {"lan", "wlan"}
  \/ e = "LINK_DOWN" /\ t \in {"q6", "ecm"}
  \/ e = "CFG_CHANGE" /\ t = "ecm"

\* A walk is lost in freed memory only behind an access point's IPA_LAN_DELETE_SELF or a USB
\* upstream's IPA_CFG_CHANGE_EVENT: the others delete themselves in the event they have
\* registered for last.
LEMMA LostWhere ==
  ASSUME EventsTypeOK, RegsMatch, WalkOK, Calling, tmp.obj # Manager,
         DeletesItself(evt.event, Self.type), NextIsFreed(tmp.obj), stray' = Self.type, evt' = evt
  PROVE  Lost' /\ LostOnlyBy'
  <1> DEFINE P == Place
             t == Self.type
  <1>1. P \in 1..Len(regs) /\ regs[P] = tmp /\ tmp.event = evt.event /\ Len(regs) \in Nat
    BY PlaceFacts DEF Reached
  <1>2. P < Len(regs) /\ regs[P + 1].obj = tmp.obj BY DEF NextIsFreed
  <1>3. P + 1 \in 1..Len(regs) /\ P < P + 1 BY <1>1, <1>2
  <1> HIDE DEF P
  <1>4. regs[P].obj = regs[P + 1].obj /\ regs[P].obj # Manager BY <1>1, <1>2
  <1>5. regs[P].event # LastEvent(objects[regs[P].obj].type) BY <1>1, <1>3, <1>4 DEF RegsMatch
  <1>6. evt.event # LastEvent(t) BY <1>1, <1>5 DEF Self
  <1>7. /\ LastEvent("lan") = "LAN_DELETE_SELF"
        /\ LastEvent("q6") = "LINK_DOWN" /\ LastEvent("ecm") = "LINK_DOWN"
    BY DEF LastEvent, ListenerEvents
  <1> HIDE DEF t
  <1>8. \/ t = "wlan" /\ evt.event = "LAN_DELETE_SELF"
        \/ t = "ecm" /\ evt.event = "CFG_CHANGE"
    <2>1. DeletesItself(evt.event, t) BY DEF t
    <2>2. QED BY <1>6, <1>7, <2>1 DEF DeletesItself
  <1>9. QED BY <1>8 DEF Lost, LostOnlyBy, t

\* The walk goes on past the nodes of the object that was called and has deleted itself, or
\* is lost in them.
LEMMA WalkPastOn ==
  ASSUME EventsTypeOK, RegsMatch, WalkOK, Calling, tmp.obj # Manager,
         DeletesItself(evt.event, Self.type),
         WalkPast(tmp.obj), thread' = thread, evt' = evt
  PROVE  /\ WalkOK' /\ tmp' \in Registration \cup {End}
         /\ stray' \in {"none", "lan", "wlan", "q6", "ecm"}
  <1> DEFINE P == Place
             o == tmp.obj
             S == {n \in PlacesFor(regs, evt.event) : n > P /\ regs[n].obj # o}
             e == evt.event
  <1>1. /\ P \in 1..Len(regs) /\ Reached(P) /\ Len(regs) \in Nat
        /\ \A n \in 1..Len(regs) : regs[n] \in Registration
        /\ e # "none" /\ regs \in Seq(Registration)
    BY PlaceFacts, EventsTypeFacts
  <1>2. regs[P] = tmp /\ tmp.event = e /\ \A n \in 1..Len(regs) : regs[n].event = e => (regs[n].obj \in served <=> n < P)
    BY <1>1 DEF Reached
  <1>3. CASE NextIsFreed(o) /\ stray' = objects[o].type /\ tmp' = tmp
    <2>1. stray' = Self.type /\ Self.type \in {"lan", "wlan", "q6", "ecm"}
      BY <1>3 DEF Self, DeletesItself
    <2>2. Lost' /\ LostOnlyBy' BY <1>3, <2>1, LostWhere
    <2>3. thread' = "walking" /\ tmp' # End BY <1>3 DEF Calling
    <2>4. WalkOK' BY <2>2, <2>3 DEF WalkOK
    <2>5. QED BY <1>3, <2>1, <2>4, EventsTypeFacts
  <1> SUFFICES ASSUME tmp' = FirstNode(regs, S), stray' = stray
               PROVE  /\ WalkOK' /\ tmp' \in Registration \cup {End}
                      /\ stray' \in {"none", "lan", "wlan", "q6", "ecm"}
    BY <1>3 DEF WalkPast
  <1>4. stray' = "none" /\ ~ Lost' /\ thread' = "walking" BY DEF Calling, Lost
  <1>5. tmp' = FirstNode(regs, S) /\ regs' = Others(regs, o) /\ served' = served \cup {o}
    BY DEF WalkPast
  <1>6. Others(regs, o) \in Seq(Registration) /\ \E f : Embeds(f, Others(regs, o), regs, o)
    BY <1>1, OthersFacts
  <1>7. PICK f : Embeds(f, regs', regs, o) BY <1>5, <1>6
  <1>8. Len(regs') \in Nat BY <1>5, <1>6
  <1>9. \A n \in 1..Len(regs') : /\ f[n] \in 1..Len(regs) /\ regs[f[n]].obj # o
                                 /\ regs'[n] = regs[f[n]]
    BY <1>7 DEF Embeds, Kept
  <1>10. \A m, n \in 1..Len(regs') : m < n <=> f[m] < f[n] BY <1>7 DEF Embeds
  <1>11. \A k \in 1..Len(regs) : regs[k].obj # o => \E n \in 1..Len(regs') : f[n] = k
    BY <1>7 DEF Embeds, Kept
  <1>12. \A n \in S : n \in 1..Len(regs) /\ regs[n].event = e /\ n > P /\ regs[n].obj # o
    BY DEF PlacesFor
  <1>13. \A n \in 1..Len(regs) : regs[n].event = e /\ n > P /\ regs[n].obj # o => n \in S
    BY DEF PlacesFor
  <1>14. S \in SUBSET Nat BY <1>1, <1>12
  <1> HIDE DEF S, P, o, e
  <1>15. \A n \in 1..Len(regs') : regs'[n].event = e =>
           IF f[n] < P THEN regs'[n].obj \in served' ELSE f[n] \in S /\ regs'[n].obj \notin served'
    <2>1. TAKE n \in 1..Len(regs')
    <2>2. HAVE regs'[n].event = e
    <2>3. f[n] \in 1..Len(regs) /\ regs[f[n]].obj # o /\ regs'[n] = regs[f[n]] BY <1>9
    <2>4. regs[f[n]].event = e BY <2>2, <2>3
    <2>5. regs[f[n]].obj \in served <=> f[n] < P BY <1>2, <2>3, <2>4
    <2>6. f[n] # P BY <1>2, <2>3 DEF o
    <2>7. f[n] \in Int /\ P \in Int BY <1>1, <2>3
    <2>8. CASE f[n] < P BY <1>5, <2>3, <2>5, <2>8
    <2>9. CASE f[n] > P
      <3>1. f[n] \in S BY <1>13, <2>3, <2>4, <2>9
      <3>2. regs'[n].obj \notin served' BY <1>5, <2>3, <2>5, <2>7, <2>9
      <3>3. QED BY <2>7, <2>9, <3>1, <3>2
    <2>10. QED BY <2>6, <2>7, <2>8, <2>9
  <1>16. CASE S = {}
    <2>1. tmp' = End BY <1>5, <1>14, <1>16, FirstNodeFacts
    <2>2. \A n \in 1..Len(regs') : regs'[n].event = e => regs'[n].obj \in served' BY <1>15, <1>16
    <2>3. WalkOK' BY <1>4, <2>1, <2>2 DEF WalkOK, e
    <2>4. QED BY <1>4, <2>1, <2>3
  <1>17. CASE S # {}
    <2>1. PICK j \in S : FirstNode(regs, S) = regs[j] /\ \A l \in S : j <= l
      BY <1>14, <1>17, FirstNodeFacts
    <2>2. /\ j \in 1..Len(regs) /\ regs[j].event = e /\ j > P /\ regs[j].obj # o
          /\ tmp' = regs[j] /\ regs[j] \in Registration
      BY <1>1, <1>5, <1>12, <2>1
    <2>3. PICK k \in 1..Len(regs') : f[k] = j BY <1>11, <2>2
    <2>4. regs'[k] = tmp' /\ tmp'.event = e BY <1>9, <2>2, <2>3
    <2>5. \A n \in 1..Len(regs') : regs'[n].event = e => (regs'[n].obj \in served' <=> n < k)
      <3>1. TAKE n \in 1..Len(regs')
      <3>2. HAVE regs'[n].event = e
      <3>3. f[n] \in Int /\ P \in Int /\ j \in Int /\ j > P BY <1>1, <1>9, <2>2
      <3>4. n < k <=> f[n] < j BY <1>10, <2>3
      <3>5. CASE f[n] < P BY <1>15, <3>2, <3>3, <3>4, <3>5
      <3>6. CASE ~ (f[n] < P)
        <4>1. f[n] \in S /\ regs'[n].obj \notin served' BY <1>15, <3>2, <3>6
        <4>2. j <= f[n] BY <2>1, <4>1
        <4>3. QED BY <3>3, <3>4, <4>1, <4>2
      <3>7. QED BY <3>5, <3>6
    <2>6. Reached(k)' BY <2>4, <2>5 DEF Reached, e
    <2>7. tmp' # End BY <2>2, RegistrationFacts
    <2>8. WalkOK' BY <1>4, <2>3, <2>6, <2>7 DEF WalkOK
    <2>9. QED BY <1>4, <2>2, <2>8
  <1>18. QED BY <1>16, <1>17

\* A callback that registers nobody and deletes nobody.
LEMMA WalkStays ==
  ASSUME EventsTypeOK, RegsMatch, WalkOK, Calling,
         Walk(<<>>), thread' = thread, evt' = evt
  PROVE  /\ WalkOK' /\ tmp' \in Registration \cup {End}
         /\ regs' = regs /\ served' = served \cup {tmp.obj} /\ stray' = stray
  <1>1. regs \in Seq(Registration) BY EventsTypeFacts
  <1>2. regs \o <<>> = regs BY <1>1, ConcatEmptySeq
  <1>3. /\ regs' = regs /\ served' = served \cup {tmp.obj} /\ stray' = stray
        /\ tmp' = FirstNode(regs, {n \in PlacesFor(regs, evt.event) : n > Place /\ Place # Len(regs)})
    BY <1>2 DEF Walk
  <1>4. Len(regs) \in Nat /\ Len(regs) >= Len(regs) BY <1>1
  <1>5. \A n \in 1..Len(regs) : n > Len(regs) => regs[n].event # evt.event BY <1>4
  <1>6. WalkOK' /\ tmp' \in Registration \cup {End} BY <1>1, <1>3, <1>4, <1>5, WalkOn
  <1>7. QED BY <1>3, <1>6

\* The list when object o of type t has been registered.
Grown(list, o, t) ==
  /\ list \in Seq(Registration) /\ Len(list) >= Len(regs) /\ Len(regs) \in Nat
  /\ \A n \in 1..Len(regs) : n \in 1..Len(list) /\ list[n] = regs[n]
  /\ \A n \in 1..Len(list) : n > Len(regs) =>
       list[n].obj = o /\ list[n].event \in Members(ListenerEvents(t))
  /\ \A m, n \in 1..Len(list) : m > Len(regs) /\ n > Len(regs) /\ list[m] = list[n] => m = n
  /\ \A e \in Members(ListenerEvents(t)) : \E n \in 1..Len(list) : list[n] = [obj |-> o, event |-> e]
  /\ \A m, n \in 1..Len(list) : m > Len(regs) /\ m < n => list[m].event # LastEvent(t)

LEMMA NodesAdded ==
  ASSUME EventsTypeOK, NEW o \in Nat, NEW t \in {"lan", "wlan", "q6", "ecm"}
  PROVE  Grown(regs \o Nodes(o, ListenerEvents(t)), o, t)
  <1> DEFINE list == regs \o Nodes(o, ListenerEvents(t))
             es == ListenerEvents(t)
             ns == Nodes(o, es)
             L == Len(regs)
  <1>1. /\ es \in Seq(Members(es)) /\ Len(es) \in Nat
        /\ Members(es) \subseteq UNION {Members(ListenerEvents(u)) : u \in {"lan", "wlan", "q6"}}
        /\ \A m, n \in 1..Len(es) : es[m] = es[n] => m = n
    BY UpIsTheManagers
  <1>2. \A n \in 1..Len(es) : es[n] \in Members(es) BY DEF Members
  <1>3. ns = [n \in 1..Len(es) |-> [obj |-> o, event |-> es[n]]] BY DEF Nodes
  <1> HIDE DEF es, list
  <1>4. \A n \in 1..Len(es) : [obj |-> o, event |-> es[n]] \in Registration
    BY <1>1, <1>2 DEF Registration
  <1>5. ns \in Seq(Registration) /\ Len(ns) = Len(es)
    <2>1. ns \in [1..Len(es) -> Registration] BY <1>3, <1>4, Zenon
    <2>2. QED BY <1>1, <2>1
  <1>6. \A n \in 1..Len(es) : ns[n] = [obj |-> o, event |-> es[n]] BY <1>3
  <1>7. regs \in Seq(Registration) /\ L \in Nat BY EventsTypeFacts
  <1> HIDE DEF ns
  <1>8. /\ list \in Seq(Registration) /\ Len(list) = L + Len(es)
        /\ \A i \in 1..(L + Len(es)) : list[i] = IF i <= L THEN regs[i] ELSE ns[i - L]
    <2>1. list = regs \o ns BY DEF list, ns, es
    <2>2. /\ regs \o ns \in Seq(Registration) /\ Len(regs \o ns) = Len(regs) + Len(ns)
          /\ \A i \in 1..(Len(regs) + Len(ns)) : (regs \o ns)[i] = IF i <= Len(regs) THEN regs[i] ELSE ns[i - Len(regs)]
      BY <1>5, <1>7, ConcatProperties
    <2>3. QED BY <1>5, <2>1, <2>2
  <1>9. ASSUME NEW n \in 1..Len(list), n > L
        PROVE  n - L \in 1..Len(es) /\ list[n] = [obj |-> o, event |-> es[n - L]]
    <2>1. n \in Int /\ n <= L + Len(es) /\ ~ (n <= L) BY <1>1, <1>7, <1>8, <1>9
    <2>2. n - L \in 1..Len(es) BY <1>1, <1>7, <1>9, <2>1
    <2>3. list[n] = ns[n - L] BY <1>1, <1>7, <1>8, <2>1
    <2>4. QED BY <1>6, <2>2, <2>3
  <1>10. ASSUME NEW n \in 1..Len(list), n > L
         PROVE  list[n].obj = o /\ list[n].event = es[n - L] /\ list[n].event \in Members(es)
    <2>1. n - L \in 1..Len(es) /\ list[n] = [obj |-> o, event |-> es[n - L]] BY <1>9, <1>10
    <2>2. QED BY <1>2, <2>1
  <1>11. \A m, n \in 1..Len(list) : m > L /\ n > L /\ list[m] = list[n] => m = n
    <2>1. TAKE m, n \in 1..Len(list)
    <2>2. HAVE m > L /\ n > L /\ list[m] = list[n]
    <2>3. es[m - L] = es[n - L] BY <1>10, <2>2
    <2>4. m - L \in 1..Len(es) /\ n - L \in 1..Len(es) BY <1>9, <2>2
    <2>5. m - L = n - L BY <1>1, <2>3, <2>4
    <2>6. m \in Int /\ n \in Int BY <1>1, <1>7, <1>8
    <2>7. QED BY <1>7, <2>5, <2>6
  <1>12. \A e \in Members(es) : \E n \in 1..Len(list) : list[n] = [obj |-> o, event |-> e]
    <2>1. TAKE e \in Members(es)
    <2>2. PICK k \in 1..Len(es) : es[k] = e BY DEF Members
    <2>3. k + L \in 1..Len(list) /\ k + L > L /\ (k + L) - L = k BY <1>1, <1>7, <1>8
    <2>4. list[k + L] = [obj |-> o, event |-> e] BY <1>9, <2>2, <2>3
    <2>5. QED BY <2>3, <2>4
  <1>13. Len(list) >= L /\ \A n \in 1..L : n \in 1..Len(list) /\ list[n] = regs[n]
    BY <1>1, <1>7, <1>8
  <1>14. \A m, n \in 1..Len(list) : m > L /\ m < n => list[m].event # LastEvent(t)
    <2>1. TAKE m, n \in 1..Len(list)
    <2>2. HAVE m > L /\ m < n
    <2>3. list[m].event = es[m - L] /\ m - L \in 1..Len(es) BY <1>9, <1>10, <2>2
    <2>4. m \in Int /\ n \in Int /\ n <= L + Len(es) BY <1>1, <1>7, <1>8
    <2>5. Len(es) \in 1..Len(es) /\ m - L # Len(es) BY <1>1, <1>7, <2>2, <2>3, <2>4
    <2>6. es[m - L] # es[Len(es)] BY <1>1, <2>3, <2>5
    <2>7. LastEvent(t) = es[Len(es)] BY DEF LastEvent, es
    <2>8. QED BY <2>3, <2>6, <2>7
  <1>15. Grown(list, o, t) BY <1>7, <1>8, <1>10, <1>11, <1>12, <1>13, <1>14 DEF es, Grown
  <1>16. QED BY <1>15 DEF list

\* Nobody is registered twice, and none but the live.
LEMMA RegsSame ==
  ASSUME RegsMatch, regs' = regs, DOMAIN objects' = DOMAIN objects,
         \A o \in DOMAIN objects : objects'[o].type = objects[o].type
  PROVE  RegsMatch'
  <1>1. \A m, n \in 1..Len(regs') : regs'[m] = regs'[n] => m = n BY DEF RegsMatch
  <1>2. \A n \in 1..Len(regs') :
          IF regs'[n].obj = Manager THEN regs'[n].event \in Members(ManagerEvents)
          ELSE /\ regs'[n].obj \in DOMAIN objects'
               /\ regs'[n].event \in Members(ListenerEvents(objects'[regs'[n].obj].type))
    BY DEF RegsMatch
  <1>3. \A o \in DOMAIN objects' : \A e \in Members(ListenerEvents(objects'[o].type)) : Registered(o, e)'
    BY DEF RegsMatch, Registered
  <1>4. ASSUME NEW m \in 1..Len(regs'), NEW n \in 1..Len(regs'),
               m < n, regs'[m].obj = regs'[n].obj, regs'[m].obj # Manager
        PROVE  regs'[m].event # LastEvent(objects'[regs'[m].obj].type)
    <2>1. regs[m].obj \in DOMAIN objects BY <1>4 DEF RegsMatch
    <2>2. regs[m].event # LastEvent(objects[regs[m].obj].type) BY <1>4 DEF RegsMatch
    <2>3. objects'[regs[m].obj].type = objects[regs[m].obj].type BY <2>1
    <2>4. QED BY <2>2, <2>3
  <1>5. QED BY <1>1, <1>2, <1>3, <1>4 DEF RegsMatch, LastEvent

LEMMA RegsCreated ==
  ASSUME EventsTypeOK, RegsMatch, NEW o \in Nat, o \notin DOMAIN objects, o # Manager,
         DOMAIN objects' = DOMAIN objects \cup {o},
         objects'[o].type \in {"lan", "wlan", "q6", "ecm"},
         \A p \in DOMAIN objects : objects'[p].type = objects[p].type,
         regs' = regs \o Nodes(o, ListenerEvents(objects'[o].type))
  PROVE  RegsMatch'
  <1> DEFINE t == objects'[o].type
             L == Len(regs)
  <1>1. /\ regs' \in Seq(Registration) /\ Len(regs') >= L /\ L \in Nat
        /\ \A n \in 1..L : n \in 1..Len(regs') /\ regs'[n] = regs[n]
        /\ \A n \in 1..Len(regs') : n > L => regs'[n].obj = o /\ regs'[n].event \in Members(ListenerEvents(t))
        /\ \A m, n \in 1..Len(regs') : m > L /\ n > L /\ regs'[m] = regs'[n] => m = n
        /\ \A e \in Members(ListenerEvents(t)) : \E n \in 1..Len(regs') : regs'[n] = [obj |-> o, event |-> e]
        /\ \A m, n \in 1..Len(regs') : m > L /\ m < n => regs'[m].event # LastEvent(t)
    <2>1. t \in {"lan", "wlan", "q6", "ecm"} /\ regs' = regs \o Nodes(o, ListenerEvents(t)) OBVIOUS
    <2> HIDE DEF t
    <2>2. Grown(regs', o, t) BY <2>1, NodesAdded
    <2>3. QED BY <2>2 DEF Grown
  <1> HIDE DEF t
  <1>2. \A n \in 1..L : regs[n].obj # o BY DEF RegsMatch
  <1>3. Len(regs') \in Nat BY <1>1
  <1>4. \A n \in 1..Len(regs') : n \in 1..L \/ n > L BY <1>1, <1>3
  <1>5. ASSUME NEW m \in 1..Len(regs'), NEW n \in 1..Len(regs'), regs'[m] = regs'[n] PROVE m = n
    <2>1. CASE m \in 1..L /\ n \in 1..L
      <3>1. regs[m] = regs[n] BY <1>1, <1>5, <2>1
      <3>2. QED BY <2>1, <3>1 DEF RegsMatch
    <2>2. CASE m > L /\ n > L BY <1>1, <1>5, <2>2
    <2>3. CASE m \in 1..L /\ n > L
      <3>1. regs'[m].obj # o BY <1>1, <1>2, <2>3
      <3>2. regs'[n].obj = o BY <1>1, <2>3
      <3>3. QED BY <1>5, <3>1, <3>2
    <2>4. CASE m > L /\ n \in 1..L
      <3>1. regs'[n].obj # o BY <1>1, <1>2, <2>4
      <3>2. regs'[m].obj = o BY <1>1, <2>4
      <3>3. QED BY <1>5, <3>1, <3>2
    <2>5. QED BY <1>4, <2>1, <2>2, <2>3, <2>4
  <1>6. ASSUME NEW n \in 1..Len(regs')
        PROVE IF regs'[n].obj = Manager THEN regs'[n].event \in Members(ManagerEvents)
              ELSE /\ regs'[n].obj \in DOMAIN objects'
                   /\ regs'[n].event \in Members(ListenerEvents(objects'[regs'[n].obj].type))
    <2>1. CASE n \in 1..L
      <3>1. regs'[n] = regs[n] BY <1>1, <2>1
      <3>2. IF regs[n].obj = Manager THEN regs[n].event \in Members(ManagerEvents)
            ELSE /\ regs[n].obj \in DOMAIN objects
                 /\ regs[n].event \in Members(ListenerEvents(objects[regs[n].obj].type))
        BY <2>1 DEF RegsMatch
      <3>3. QED BY <3>1, <3>2
    <2>2. CASE n > L BY <1>1, <2>2 DEF t
    <2>3. QED BY <1>4, <2>1, <2>2
  <1>7. ASSUME NEW p \in DOMAIN objects', NEW e \in Members(ListenerEvents(objects'[p].type))
        PROVE Registered(p, e)'
    <2>1. CASE p = o BY <1>1, <1>7, <2>1 DEF t, Registered
    <2>2. CASE p # o
      <3>1. p \in DOMAIN objects /\ e \in Members(ListenerEvents(objects[p].type)) BY <2>2
      <3>2. PICK n \in 1..L : regs[n] = [obj |-> p, event |-> e] BY <3>1 DEF RegsMatch, Registered
      <3>3. n \in 1..Len(regs') /\ regs'[n] = [obj |-> p, event |-> e] BY <1>1, <3>2
      <3>4. QED BY <3>3 DEF Registered
    <2>3. QED BY <2>1, <2>2
  <1>8. ASSUME NEW m \in 1..Len(regs'), NEW n \in 1..Len(regs'),
               m < n, regs'[m].obj = regs'[n].obj, regs'[m].obj # Manager
        PROVE  regs'[m].event # LastEvent(objects'[regs'[m].obj].type)
    <2>1. CASE m \in 1..L /\ n \in 1..L
      <3>1. regs'[m] = regs[m] /\ regs'[n] = regs[n] BY <1>1, <2>1
      <3>2. regs[m].obj \in DOMAIN objects BY <1>8, <2>1, <3>1 DEF RegsMatch
      <3>3. regs[m].event # LastEvent(objects[regs[m].obj].type) BY <1>8, <2>1, <3>1 DEF RegsMatch
      <3>4. objects'[regs[m].obj].type = objects[regs[m].obj].type BY <3>2
      <3>5. QED BY <3>1, <3>3, <3>4
    <2>2. CASE m > L
      <3>1. regs'[m].obj = o /\ regs'[m].event # LastEvent(t) BY <1>1, <1>8, <2>2
      <3>2. QED BY <3>1 DEF t
    <2>3. CASE m \in 1..L /\ n > L
      <3>1. regs'[m].obj # o /\ regs'[n].obj = o BY <1>1, <1>2, <2>3
      <3>2. QED BY <1>8, <3>1
    <2>4. QED BY <1>4, <2>1, <2>2, <2>3
  <1>9. QED BY <1>5, <1>6, <1>7, <1>8 DEF RegsMatch, LastEvent

LEMMA RegsDeleted ==
  ASSUME EventsTypeOK, RegsMatch, NEW o \in DOMAIN objects,
         objects' = WithoutObject(o), regs' = Others(regs, o)
  PROVE  RegsMatch' /\ regs' \in Seq(Registration)
  <1>1. o # Manager BY EventsTypeFacts
  <1>2. DOMAIN objects' = DOMAIN objects \ {o} /\ \A p \in DOMAIN objects' : objects'[p] = objects[p]
    BY DEF WithoutObject
  <1>3. regs' \in Seq(Registration) /\ \E f : Embeds(f, regs', regs, o)
    BY EventsTypeFacts, OthersFacts
  <1>4. PICK f : Embeds(f, regs', regs, o) BY <1>3
  <1>5. Len(regs') \in Nat BY <1>3
  <1>6. \A n \in 1..Len(regs') : /\ f[n] \in 1..Len(regs) /\ regs[f[n]].obj # o
                                 /\ regs'[n] = regs[f[n]]
    BY <1>4 DEF Embeds, Kept
  <1>7. \A m, n \in 1..Len(regs') : m < n <=> f[m] < f[n] BY <1>4 DEF Embeds
  <1>8. \A k \in 1..Len(regs) : regs[k].obj # o => \E n \in 1..Len(regs') : f[n] = k
    BY <1>4 DEF Embeds, Kept
  <1>9. ASSUME NEW m \in 1..Len(regs'), NEW n \in 1..Len(regs'), regs'[m] = regs'[n] PROVE m = n
    <2>1. f[m] = f[n] BY <1>6, <1>9 DEF RegsMatch
    <2>2. f[m] \in Int BY <1>6
    <2>3. ~ (m < n) /\ ~ (n < m) BY <1>7, <2>1, <2>2
    <2>4. QED BY <1>5, <2>3
  <1>10. ASSUME NEW n \in 1..Len(regs')
        PROVE IF regs'[n].obj = Manager THEN regs'[n].event \in Members(ManagerEvents)
              ELSE /\ regs'[n].obj \in DOMAIN objects'
                   /\ regs'[n].event \in Members(ListenerEvents(objects'[regs'[n].obj].type))
    <2>1. f[n] \in 1..Len(regs) /\ regs[f[n]].obj # o /\ regs'[n] = regs[f[n]] BY <1>6
    <2>2. IF regs[f[n]].obj = Manager THEN regs[f[n]].event \in Members(ManagerEvents)
          ELSE /\ regs[f[n]].obj \in DOMAIN objects
               /\ regs[f[n]].event \in Members(ListenerEvents(objects[regs[f[n]].obj].type))
      BY <2>1 DEF RegsMatch
    <2>3. CASE regs'[n].obj = Manager BY <2>1, <2>2, <2>3
    <2>4. CASE regs'[n].obj # Manager
      <3>1. regs'[n].obj \in DOMAIN objects' /\ objects'[regs'[n].obj] = objects[regs'[n].obj]
        BY <1>2, <2>1, <2>2, <2>4
      <3>2. QED BY <2>1, <2>2, <2>4, <3>1
    <2>5. QED BY <2>3, <2>4
  <1>11. ASSUME NEW p \in DOMAIN objects', NEW e \in Members(ListenerEvents(objects'[p].type))
        PROVE Registered(p, e)'
    <2>1. p \in DOMAIN objects /\ p # o /\ e \in Members(ListenerEvents(objects[p].type)) BY <1>2
    <2>2. PICK k \in 1..Len(regs) : regs[k] = [obj |-> p, event |-> e]
      BY <2>1 DEF RegsMatch, Registered
    <2>3. PICK n \in 1..Len(regs') : f[n] = k BY <1>8, <2>1, <2>2
    <2>4. regs'[n] = [obj |-> p, event |-> e] BY <1>6, <2>2, <2>3
    <2>5. QED BY <2>4 DEF Registered
  <1>12. ASSUME NEW m \in 1..Len(regs'), NEW n \in 1..Len(regs'),
               m < n, regs'[m].obj = regs'[n].obj, regs'[m].obj # Manager
        PROVE  regs'[m].event # LastEvent(objects'[regs'[m].obj].type)
    <2>1. /\ f[m] \in 1..Len(regs) /\ regs'[m] = regs[f[m]] /\ regs[f[m]].obj # o
          /\ f[n] \in 1..Len(regs) /\ regs'[n] = regs[f[n]] /\ f[m] < f[n]
      BY <1>6, <1>7, <1>12
    <2>2. regs[f[m]].obj = regs[f[n]].obj /\ regs[f[m]].obj # Manager BY <1>12, <2>1
    <2>3. regs[f[m]].obj \in DOMAIN objects BY <2>1, <2>2 DEF RegsMatch
    <2>4. regs[f[m]].event # LastEvent(objects[regs[f[m]].obj].type) BY <2>1, <2>2 DEF RegsMatch
    <2>5. objects'[regs[f[m]].obj] = objects[regs[f[m]].obj] BY <1>2, <2>1, <2>3
    <2>6. QED BY <2>1, <2>4, <2>5
  <1>13. QED BY <1>3, <1>9, <1>10, <1>11, <1>12 DEF RegsMatch, LastEvent

-----------------------------------------------------------------------------
(* The queue.                                                              *)

LEMMA PostFacts ==
  ASSUME EventsTypeOK, NEW e \in Messages, PostEvt(e)
  PROVE  /\ queue' \in Seq(Messages) /\ Len(queue) \in Nat /\ Len(queue') = Len(queue) + 1
         /\ \A n \in 1..Len(queue) : n \in 1..Len(queue') /\ queue'[n] = queue[n]
         /\ queue'[Len(queue) + 1] = e
         /\ signalled' \in BOOLEAN /\ link' \in [Ifaces -> {"up", "down"}]
         /\ \A i \in Ifaces : link'[i] = IF UpOf(e, i) THEN "up" ELSE IF e = DownOf(i) THEN "down" ELSE link[i]
  <1>1. queue \in Seq(Messages) /\ signalled \in BOOLEAN /\ link \in [Ifaces -> {"up", "down"}] BY EventsTypeFacts
  <1>2. queue' = Append(queue, e) BY DEF PostEvt, enqueue
  <1>3. /\ queue' \in Seq(Messages) /\ Len(queue) \in Nat /\ Len(queue') = Len(queue) + 1
        /\ \A n \in 1..Len(queue) : n \in 1..Len(queue') /\ queue'[n] = queue[n]
        /\ queue'[Len(queue) + 1] = e
    BY <1>1, <1>2
  <1>4. signalled' \in BOOLEAN BY <1>1 DEF PostEvt
  <1>5. link' = Said(e) BY DEF PostEvt
  <1>6. e = [event |-> e.event, iface |-> e.iface] BY MessageFacts DEF E
  <1>7. ASSUME NEW i \in Ifaces
        PROVE  link'[i] = IF UpOf(e, i) THEN "up" ELSE IF e = DownOf(i) THEN "down" ELSE link[i]
    <2>1. e = DownOf(i) <=> e.iface = i /\ e.event = DownEvent(i) BY <1>6 DEF DownOf, E
    <2>2. UpOf(e, i) <=> e.iface = i /\ e.event \in UpEvents(i) BY DEF UpOf
    <2>3. link'[i] = IF e.iface # i THEN link[i]
                     ELSE IF e.event \in UpEvents(i) THEN "up"
                     ELSE IF e.event = DownEvent(i) THEN "down" ELSE link[i]
      BY <1>5 DEF Said
    <2>4. QED BY <2>1, <2>2, <2>3
  <1>8. link' \in [Ifaces -> {"up", "down"}] BY <1>1, <1>5 DEF Said
  <1>9. QED BY <1>3, <1>4, <1>7, <1>8

\* One of some messages was posted, or none.
Posts(S) == (\E e \in S : PostEvt(e)) \/ UNCHANGED box

LEMMA PostsTypes ==
  ASSUME EventsTypeOK, Posts(Messages)
  PROVE  queue' \in Seq(Messages) /\ signalled' \in BOOLEAN /\ link' \in [Ifaces -> {"up", "down"}]
  BY PostFacts, EventsTypeFacts DEF Posts, box

\* No step but the end of a dispatch leaves an active object to an interface that is down:
\* an object that was not yet called is not called without going down.
LEMMA DownStep ==
  ASSUME EventsTypeOK, DownOK, evt' = evt, Posts(Messages),
         \A o \in DOMAIN objects' : objects'[o].active =>
           \/ UpOf(evt, objects'[o].iface)
           \/ /\ o \in DOMAIN objects /\ objects[o].active /\ objects[o].iface = objects'[o].iface
              /\ evt = DownOf(objects[o].iface) /\ o \notin served => o \notin served'
  PROVE  DownOK'
  <1> SUFFICES ASSUME NEW i \in Ifaces, link'[i] = "down" PROVE DownPending(i)' \/ DownHandled(i)'
    BY DEF DownOK
  <1>1. DownHandled(i) =>
          /\ ~ UpOf(evt', i)
          /\ \A o \in DOMAIN objects' : objects'[o].iface = i /\ objects'[o].active => evt' = DownOf(i) /\ o \notin served'
    BY DEF DownHandled
  <1>2. CASE UNCHANGED box
    <2>1. queue' = queue /\ link[i] = "down" BY <1>2 DEF box
    <2>2. CASE DownPending(i) BY <2>1, <2>2 DEF DownPending
    <2>3. CASE DownHandled(i) BY <1>1, <2>1, <2>3 DEF DownHandled
    <2>4. QED BY <2>1, <2>2, <2>3 DEF DownOK
  <1>3. CASE \E e \in Messages : PostEvt(e)
    <2>1. PICK e \in Messages : PostEvt(e) BY <1>3
    <2>2. /\ Len(queue) \in Nat /\ Len(queue') = Len(queue) + 1
          /\ \A n \in 1..Len(queue) : n \in 1..Len(queue') /\ queue'[n] = queue[n]
          /\ queue'[Len(queue) + 1] = e
          /\ link'[i] = IF UpOf(e, i) THEN "up" ELSE IF e = DownOf(i) THEN "down" ELSE link[i]
      BY <2>1, PostFacts
    <2>3. ~ UpOf(e, i) BY <2>2
    <2>4. \A m \in 1..Len(queue') : m \in 1..Len(queue) \/ m = Len(queue) + 1 BY <2>2
    <2>5. CASE e = DownOf(i)
      <3>1. Len(queue) + 1 \in 1..Len(queue') /\ queue'[Len(queue) + 1] = DownOf(i) BY <2>2, <2>5
      <3>2. \A m \in 1..Len(queue') : m > Len(queue) + 1 => ~ UpOf(queue'[m], i) BY <2>2
      <3>3. DownPending(i)' BY <3>1, <3>2 DEF DownPending, DownOf, UpOf
      <3>4. QED BY <3>3
    <2>6. CASE e # DownOf(i)
      <3>1. link[i] = "down" BY <2>2, <2>3, <2>6
      <3>2. CASE DownPending(i)
        <4>1. PICK n \in 1..Len(queue) :
                queue[n] = DownOf(i) /\ \A m \in 1..Len(queue) : m > n => ~ UpOf(queue[m], i)
          BY <3>2 DEF DownPending
        <4>2. \A m \in 1..Len(queue') : m > n => ~ UpOf(queue'[m], i) BY <2>2, <2>3, <2>4, <4>1
        <4>3. n \in 1..Len(queue') /\ queue'[n] = DownOf(i) BY <2>2, <4>1
        <4>4. DownPending(i)' BY <4>2, <4>3 DEF DownPending
        <4>5. QED BY <4>4
      <3>3. CASE DownHandled(i)
        <4>1. \A m \in 1..Len(queue') : ~ UpOf(queue'[m], i)
          BY <2>2, <2>3, <2>4, <3>3 DEF DownHandled
        <4>2. DownHandled(i)' BY <1>1, <3>3, <4>1 DEF DownHandled
        <4>3. QED BY <4>2
      <3>4. QED BY <3>1, <3>2, <3>3 DEF DownOK
    <2>7. QED BY <2>5, <2>6
  <1>4. QED BY <1>2, <1>3 DEF Posts

\* What is posted is not an event to delete an object.
NotDeletes(S) == {e \in S : e.event # "LAN_DELETE_SELF"}

\* No object goes inactive: objects are made active, and one is deleted that was active or
\* whose event is the one dispatched.
LEMMA DeleteSelfStep ==
  ASSUME EventsTypeOK, DeleteSelfOK, evt' = evt, Posts(NotDeletes(Messages)),
         \A o \in DOMAIN objects :
           IF o \in DOMAIN objects'
             THEN /\ objects'[o].iface = objects[o].iface /\ objects'[o].active = objects[o].active
                  /\ evt = DeleteSelf(objects[o].iface) /\ o \notin served => o \notin served'
             ELSE objects[o].active \/ evt = DeleteSelf(objects[o].iface),
         \A o \in DOMAIN objects' : o \notin DOMAIN objects =>
           objects'[o].active /\ evt # DeleteSelf(objects'[o].iface)
  PROVE  DeleteSelfOK'
  <1> SUFFICES ASSUME NEW i \in Ifaces
               PROVE  /\ \A m, n \in 1..Len(queue') : queue'[m] = DeleteSelf(i) /\ queue'[n] = DeleteSelf(i) => m = n
                      /\ InQueue(DeleteSelf(i))' =>
                           evt' # DeleteSelf(i) /\ \E o \in DOMAIN objects' : objects'[o].iface = i /\ ~ objects'[o].active
                      /\ \A o \in DOMAIN objects' : objects'[o].iface = i =>
                           /\ evt' = DeleteSelf(i) => ~ objects'[o].active /\ o \notin served'
                           /\ ~ objects'[o].active => evt' = DeleteSelf(i) \/ InQueue(DeleteSelf(i))'
    BY DEF DeleteSelfOK, DeleteSelf
  <1> DEFINE d == DeleteSelf(i)
  <1>1. /\ \A m, n \in 1..Len(queue) : queue[m] = d /\ queue[n] = d => m = n
        /\ InQueue(d) => evt # d /\ \E o \in DOMAIN objects : objects[o].iface = i /\ ~ objects[o].active
        /\ \A o \in DOMAIN objects : objects[o].iface = i =>
             /\ evt = d => ~ objects[o].active /\ o \notin served
             /\ ~ objects[o].active => evt = d \/ InQueue(d)
    BY DEF DeleteSelfOK
  <1>2. /\ \A n \in 1..Len(queue') : queue'[n] = d => n \in 1..Len(queue) /\ queue[n] = d
        /\ \A n \in 1..Len(queue) : queue[n] = d => n \in 1..Len(queue') /\ queue'[n] = d
    <2>1. CASE UNCHANGED box BY <2>1 DEF box
    <2>2. CASE \E e \in NotDeletes(Messages) : PostEvt(e)
      <3>1. PICK e \in Messages : e.event # "LAN_DELETE_SELF" /\ PostEvt(e) BY <2>2 DEF NotDeletes
      <3>2. e # d BY <3>1 DEF DeleteSelf, E
      <3>3. /\ Len(queue) \in Nat /\ Len(queue') = Len(queue) + 1
            /\ \A n \in 1..Len(queue) : n \in 1..Len(queue') /\ queue'[n] = queue[n]
            /\ queue'[Len(queue) + 1] = e
        BY <3>1, PostFacts
      <3>4. \A m \in 1..Len(queue') : m \in 1..Len(queue) \/ m = Len(queue) + 1 BY <3>3
      <3>5. QED BY <3>2, <3>3, <3>4
    <2>3. QED BY <2>1, <2>2 DEF Posts
  <1>3. InQueue(d)' <=> InQueue(d) BY <1>2 DEF InQueue
  <1> HIDE DEF d
  <1>4. \A m, n \in 1..Len(queue') : queue'[m] = d /\ queue'[n] = d => m = n BY <1>1, <1>2
  <1>5. ASSUME InQueue(d)'
        PROVE  evt' # d /\ \E o \in DOMAIN objects' : objects'[o].iface = i /\ ~ objects'[o].active
    <2>1. PICK o \in DOMAIN objects : objects[o].iface = i /\ ~ objects[o].active /\ evt # d
      BY <1>1, <1>3, <1>5
    <2>2. evt # DeleteSelf(objects[o].iface) BY <2>1 DEF d
    <2>3. o \in DOMAIN objects' BY <2>1, <2>2
    <2>4. objects'[o].iface = i /\ ~ objects'[o].active BY <2>1, <2>3
    <2>5. QED BY <2>1, <2>3, <2>4
  <1>6. ASSUME NEW o \in DOMAIN objects', objects'[o].iface = i
        PROVE  /\ evt' = d => ~ objects'[o].active /\ o \notin served'
               /\ ~ objects'[o].active => evt' = d \/ InQueue(d)'
    <2>1. CASE o \in DOMAIN objects
      <3>1. objects[o].iface = i /\ objects'[o].active = objects[o].active BY <1>6, <2>1
      <3>2. evt = d /\ o \notin served => o \notin served' BY <1>6, <2>1, <3>1 DEF d
      <3>3. QED BY <1>1, <1>3, <2>1, <3>1, <3>2
    <2>2. CASE o \notin DOMAIN objects
      <3>1. objects'[o].active /\ evt # d BY <1>6, <2>2 DEF d
      <3>2. QED BY <3>1
    <2>3. QED BY <2>1, <2>2
  <1>7. QED BY <1>4, <1>5, <1>6 DEF d

\* An object goes inactive and posts the event that is to delete it.
LEMMA DeactivateDeleteSelf ==
  ASSUME EventsTypeOK, DeleteSelfOK, OneObjectEach, evt' = evt, tmp.obj \in DOMAIN objects, Self.active,
         PostEvt(DeleteSelf(Self.iface)),
         DOMAIN objects' = DOMAIN objects, ~ objects'[tmp.obj].active,
         \A o \in DOMAIN objects : objects'[o].iface = objects[o].iface,
         \A o \in DOMAIN objects : o # tmp.obj => objects'[o] = objects[o],
         served' = served \cup {tmp.obj}
  PROVE  DeleteSelfOK'
  <1>0. PICK j : j = Self.iface OBVIOUS
  <1>1. j \in Ifaces /\ objects[tmp.obj].iface = j BY <1>0, EventsTypeFacts DEF Self, ObjectOK
  <1>2. DeleteSelf(j) \in Messages BY <1>1, MessagesMade DEF DeleteSelf
  <1>3. /\ Len(queue) \in Nat /\ Len(queue') = Len(queue) + 1
        /\ \A n \in 1..Len(queue) : n \in 1..Len(queue') /\ queue'[n] = queue[n]
        /\ queue'[Len(queue) + 1] = DeleteSelf(j)
    BY <1>0, <1>2, PostFacts
  <1>4. \A m \in 1..Len(queue') : m \in 1..Len(queue) \/ m = Len(queue) + 1 BY <1>3
  <1>5. evt # DeleteSelf(j) /\ ~ InQueue(DeleteSelf(j))
    <2>1. evt # DeleteSelf(j) BY <1>1 DEF DeleteSelfOK, Self
    <2>2. \A o \in DOMAIN objects : objects[o].iface = j => o = tmp.obj BY <1>1 DEF OneObjectEach
    <2>3. QED BY <1>1, <2>1, <2>2 DEF DeleteSelfOK, Self
  <1> SUFFICES ASSUME NEW i \in Ifaces
               PROVE  /\ \A m, n \in 1..Len(queue') : queue'[m] = DeleteSelf(i) /\ queue'[n] = DeleteSelf(i) => m = n
                      /\ InQueue(DeleteSelf(i))' =>
                           evt' # DeleteSelf(i) /\ \E o \in DOMAIN objects' : objects'[o].iface = i /\ ~ objects'[o].active
                      /\ \A o \in DOMAIN objects' : objects'[o].iface = i =>
                           /\ evt' = DeleteSelf(i) => ~ objects'[o].active /\ o \notin served'
                           /\ ~ objects'[o].active => evt' = DeleteSelf(i) \/ InQueue(DeleteSelf(i))'
    BY DEF DeleteSelfOK, DeleteSelf
  <1>6. \A o \in DOMAIN objects : objects[o].iface = j => o = tmp.obj BY <1>1 DEF OneObjectEach
  <1>7. /\ \A m, n \in 1..Len(queue) : queue[m] = DeleteSelf(i) /\ queue[n] = DeleteSelf(i) => m = n
        /\ InQueue(DeleteSelf(i)) => evt # DeleteSelf(i) /\ \E o \in DOMAIN objects : objects[o].iface = i /\ ~ objects[o].active
        /\ \A o \in DOMAIN objects : objects[o].iface = i =>
             /\ evt = DeleteSelf(i) => ~ objects[o].active /\ o \notin served
             /\ ~ objects[o].active => evt = DeleteSelf(i) \/ InQueue(DeleteSelf(i))
    BY DEF DeleteSelfOK
  <1>8. CASE i = j
    <2>1. \A n \in 1..Len(queue) : queue'[n] # DeleteSelf(j) BY <1>3, <1>5 DEF InQueue
    <2>2. \A m \in 1..Len(queue') : queue'[m] = DeleteSelf(j) => m = Len(queue) + 1 BY <1>4, <2>1
    <2>3. InQueue(DeleteSelf(j))'
      <3>1. Len(queue) + 1 \in 1..Len(queue') BY <1>3
      <3>2. QED BY <1>3, <3>1 DEF InQueue
    <2>4. \A o \in DOMAIN objects' : objects'[o].iface = j => ~ objects'[o].active
      BY <1>6
    <2>5. tmp.obj \in DOMAIN objects' /\ objects'[tmp.obj].iface = j BY <1>1
    <2>6. QED BY <1>5, <1>8, <2>2, <2>3, <2>4, <2>5
  <1>9. CASE i # j
    <2>1. DeleteSelf(j) # DeleteSelf(i) BY <1>9 DEF DeleteSelf, E
    <2>2. /\ \A n \in 1..Len(queue') : queue'[n] = DeleteSelf(i) => n \in 1..Len(queue) /\ queue[n] = DeleteSelf(i)
          /\ \A n \in 1..Len(queue) : queue[n] = DeleteSelf(i) => n \in 1..Len(queue') /\ queue'[n] = DeleteSelf(i)
      BY <1>3, <1>4, <2>1
    <2>3. InQueue(DeleteSelf(i))' <=> InQueue(DeleteSelf(i)) BY <2>2 DEF InQueue, DeleteSelf
    <2>4. \A o \in DOMAIN objects : objects[o].iface = i => o # tmp.obj BY <1>1, <1>9
    <2>5. \A o \in DOMAIN objects : objects[o].iface = i =>
            /\ objects'[o] = objects[o]
            /\ o \in served' <=> o \in served
      BY <2>4
    <2>6. \A m, n \in 1..Len(queue') : queue'[m] = DeleteSelf(i) /\ queue'[n] = DeleteSelf(i) => m = n
      BY <1>7, <2>2
    <2>7. QED BY <1>7, <2>3, <2>5, <2>6
  <1>10. QED BY <1>8, <1>9

-----------------------------------------------------------------------------
(* The objects and what is kept beside them.                               *)

\* Memory that is free can be found.
LEMMA NewObjectFacts ==
  ASSUME EventsTypeOK
  PROVE  NewObject \in Nat /\ NewObject # Manager /\ NewObject \notin DOMAIN objects
  <1> DEFINE D == DOMAIN objects
             c == Cardinality(D)
  <1>1. IsFiniteSet(D) BY EventsTypeFacts
  <1>2. c \in Nat BY <1>1, FS_CardinalityType
  <1>3. \E o \in 1..(c + 1) : o \notin D
    <2> SUFFICES ASSUME 1..(c + 1) \subseteq D PROVE FALSE OBVIOUS
    <2>1. Cardinality(1..(c + 1)) = c + 1 BY <1>2, FS_Interval
    <2>2. Cardinality(1..(c + 1)) <= c BY <1>1, FS_Subset
    <2> HIDE DEF c
    <2>3. QED BY <1>2, <2>1, <2>2
  <1>4. NewObject \in 1..(c + 1) /\ NewObject \notin D BY <1>3 DEF NewObject
  <1>5. QED BY <1>2, <1>4 DEF Manager

LEMMA SearchFacts ==
  ASSUME InstancesMatch, NEW i
  PROVE  SearchInstance(i) <=> \E o \in DOMAIN objects : objects[o].iface = i
  <1>1. ASSUME SearchInstance(i) PROVE \E o \in DOMAIN objects : objects[o].iface = i
    <2>1. PICK k \in 1..Len(instances) : instances[k].iface = i BY <1>1 DEF SearchInstance
    <2>2. instances[k].obj \in DOMAIN objects /\ objects[instances[k].obj].iface = i
      BY <2>1 DEF InstancesMatch
    <2>3. QED BY <2>2
  <1>2. ASSUME NEW o \in DOMAIN objects, objects[o].iface = i PROVE SearchInstance(i)
    <2>1. PICK k \in 1..Len(instances) : instances[k] = [iface |-> objects[o].iface, obj |-> o]
      BY DEF InstancesMatch
    <2>2. instances[k].iface = i BY <1>2, <2>1
    <2>3. QED BY <2>2 DEF SearchInstance
  <1>3. QED BY <1>1, <1>2

\* An object has changed that keeps its interface.
LEMMA InstancesKept ==
  ASSUME InstancesMatch, OneObjectEach, instances' = instances, DOMAIN objects' = DOMAIN objects,
         \A o \in DOMAIN objects : objects'[o].iface = objects[o].iface
  PROVE  InstancesMatch' /\ OneObjectEach'
  <1>1. OneObjectEach' BY DEF OneObjectEach
  <1>2. InstancesMatch' BY DEF InstancesMatch
  <1>3. QED BY <1>1, <1>2

LEMMA InstancesCreated ==
  ASSUME EventsTypeOK, InstancesMatch, OneObjectEach, NEW i \in Ifaces, NEW o \in Nat,
         o \notin DOMAIN objects, ~ SearchInstance(i),
         DOMAIN objects' = DOMAIN objects \cup {o}, objects'[o].iface = i,
         \A p \in DOMAIN objects : objects'[p] = objects[p],
         instances' = Append(instances, [iface |-> i, obj |-> o])
  PROVE  /\ InstancesMatch' /\ OneObjectEach'
         /\ instances' \in Seq([iface : Ifaces, obj : Nat])
  <1>1. \A p \in DOMAIN objects : objects[p].iface # i BY SearchFacts
  <1>2. OneObjectEach' BY <1>1 DEF OneObjectEach
  <1>3. instances \in Seq([iface : Ifaces, obj : Nat]) BY EventsTypeFacts
  <1>4. /\ instances' \in Seq([iface : Ifaces, obj : Nat])
        /\ Len(instances) \in Nat /\ Len(instances') = Len(instances) + 1
        /\ \A k \in 1..Len(instances) : instances'[k] = instances[k]
        /\ instances'[Len(instances) + 1] = [iface |-> i, obj |-> o]
    BY <1>3
  <1>5. ASSUME NEW p \in DOMAIN objects'
        PROVE  \E k \in 1..Len(instances') : instances'[k] = [iface |-> objects'[p].iface, obj |-> p]
    <2>1. CASE p = o
      <3>1. Len(instances) + 1 \in 1..Len(instances') BY <1>4
      <3>2. QED BY <1>4, <2>1, <3>1
    <2>2. CASE p # o
      <3>1. PICK k \in 1..Len(instances) : instances[k] = [iface |-> objects[p].iface, obj |-> p]
        BY <2>2 DEF InstancesMatch
      <3>2. k \in 1..Len(instances') BY <1>4
      <3>3. QED BY <1>4, <2>2, <3>1, <3>2
    <2>3. QED BY <2>1, <2>2
  <1>6. ASSUME NEW k \in 1..Len(instances')
        PROVE  instances'[k].obj \in DOMAIN objects' /\ instances'[k].iface = objects'[instances'[k].obj].iface
    <2>1. CASE k \in 1..Len(instances) BY <1>4, <2>1 DEF InstancesMatch
    <2>2. CASE k = Len(instances) + 1 BY <1>4, <2>2
    <2>3. QED BY <1>4, <2>1, <2>2
  <1>7. InstancesMatch' BY <1>5, <1>6 DEF InstancesMatch
  <1>8. QED BY <1>2, <1>4, <1>7

LEMMA InstancesDeleted ==
  ASSUME EventsTypeOK, InstancesMatch, OneObjectEach, NEW o \in DOMAIN objects,
         objects' = WithoutObject(o), instances' = Others(instances, o)
  PROVE  /\ InstancesMatch' /\ OneObjectEach'
         /\ instances' \in Seq([iface : Ifaces, obj : Nat])
  <1>1. DOMAIN objects' = DOMAIN objects \ {o} /\ \A p \in DOMAIN objects' : objects'[p] = objects[p]
    BY DEF WithoutObject
  <1>2. OneObjectEach' BY <1>1 DEF OneObjectEach
  <1>3. /\ instances' \in Seq([iface : Ifaces, obj : Nat])
        /\ \E f : Embeds(f, instances', instances, o)
    BY EventsTypeFacts, OthersFacts
  <1>4. PICK f : Embeds(f, instances', instances, o) BY <1>3
  <1>5. \A n \in 1..Len(instances') : /\ f[n] \in 1..Len(instances) /\ instances[f[n]].obj # o
                                      /\ instances'[n] = instances[f[n]]
    BY <1>4 DEF Embeds, Kept
  <1>6. \A k \in 1..Len(instances) : instances[k].obj # o => \E n \in 1..Len(instances') : f[n] = k
    BY <1>4 DEF Embeds, Kept
  <1>7. ASSUME NEW p \in DOMAIN objects'
        PROVE  \E k \in 1..Len(instances') : instances'[k] = [iface |-> objects'[p].iface, obj |-> p]
    <2>1. PICK k \in 1..Len(instances) : instances[k] = [iface |-> objects[p].iface, obj |-> p]
      BY <1>1 DEF InstancesMatch
    <2>2. PICK n \in 1..Len(instances') : f[n] = k BY <1>1, <1>6, <2>1
    <2>3. instances'[n] = [iface |-> objects'[p].iface, obj |-> p] BY <1>1, <1>5, <2>1, <2>2
    <2>4. QED BY <2>3
  <1>8. ASSUME NEW n \in 1..Len(instances')
        PROVE  instances'[n].obj \in DOMAIN objects' /\ instances'[n].iface = objects'[instances'[n].obj].iface
    <2>1. f[n] \in 1..Len(instances) /\ instances[f[n]].obj # o /\ instances'[n] = instances[f[n]] BY <1>5
    <2>2. /\ instances[f[n]].obj \in DOMAIN objects
          /\ instances[f[n]].iface = objects[instances[f[n]].obj].iface
      BY <2>1 DEF InstancesMatch
    <2>3. QED BY <1>1, <2>1, <2>2
  <1>9. InstancesMatch' BY <1>7, <1>8 DEF InstancesMatch
  <1>10. QED BY <1>2, <1>3, <1>9

\* The IPACM_Wlan objects.
Aps == {o \in DOMAIN objects : objects[o].type = "wlan"}

LEMMA ApsFinite ==
  ASSUME EventsTypeOK
  PROVE  IsFiniteSet(Aps) /\ Cardinality(Aps) \in Nat
  <1>1. IsFiniteSet(DOMAIN objects) BY EventsTypeFacts
  <1>2. Aps \subseteq DOMAIN objects BY DEF Aps
  <1>3. IsFiniteSet(Aps) BY <1>1, <1>2, FS_Subset
  <1>4. QED BY <1>3, FS_CardinalityType

LEMMA ApsSame ==
  ASSUME ApsCounted, num_wlan_ap_iface' = num_wlan_ap_iface, Aps' = Aps
  PROVE  ApsCounted'
  BY DEF ApsCounted, Aps

LEMMA ApsMore ==
  ASSUME EventsTypeOK, ApsCounted, NEW o, o \notin Aps, Aps' = Aps \cup {o},
         num_wlan_ap_iface' = num_wlan_ap_iface + 1
  PROVE  ApsCounted'
  <1>1. Cardinality(Aps') = Cardinality(Aps) + 1 BY ApsFinite, FS_AddElement
  <1>2. QED BY <1>1 DEF ApsCounted, Aps

LEMMA ApsFewer ==
  ASSUME EventsTypeOK, ApsCounted, NEW o \in Aps, Aps' = Aps \ {o},
         num_wlan_ap_iface' = num_wlan_ap_iface - 1
  PROVE  ApsCounted' /\ num_wlan_ap_iface' \in Nat
  <1>1. Cardinality(Aps') = Cardinality(Aps) - 1 BY ApsFinite, FS_RemoveElement
  <1>2. IsFiniteSet(Aps') BY ApsFinite, FS_RemoveElement
  <1>3. Cardinality(Aps') \in Nat BY <1>2, FS_CardinalityType
  <1>4. QED BY <1>1, <1>3 DEF ApsCounted, Aps

\* The interfaces with an active object, for which NAT is done.
Served == {objects[o].iface : o \in {p \in DOMAIN objects : objects[p].active}}

LEMMA NatFacts == NatIfacesMatch <=>
  (Hole \notin Members(nat_ifaces) => Members(nat_ifaces) = Served /\ IsInjective(nat_ifaces))
  BY DEF NatIfacesMatch, Served

LEMMA NatSame ==
  ASSUME NatIfacesMatch, nat_ifaces' = nat_ifaces, Served' = Served
  PROVE  NatIfacesMatch'
  <1>1. Members(nat_ifaces') = Members(nat_ifaces) /\ Members(nat_ifaces)' = Members(nat_ifaces')
    BY DEF Members
  <1>2. QED BY <1>1 DEF NatIfacesMatch, Served

\* The first entry of an interface is taken out.
LEMMA DelNatFacts ==
  ASSUME NEW list \in Seq(Ifaces \cup {Hole}), NEW i \in Ifaces
  PROVE  /\ DelNatIfaces(list, i) \in Seq(Ifaces \cup {Hole})
         /\ Hole \in Members(list) => Hole \in Members(DelNatIfaces(list, i))
         /\ IsInjective(list) => /\ IsInjective(DelNatIfaces(list, i))
                                 /\ Members(DelNatIfaces(list, i)) = Members(list) \ {i}
  <1> DEFINE here == {k \in 1..Len(list) : list[k] = i}
             T == Ifaces \cup {Hole}
             d == DelNatIfaces(list, i)
  <1>1. i # Hole BY KindFacts
  <1>2. Len(list) \in Nat OBVIOUS
  <1>3. CASE here = {}
    <2>1. d = list BY <1>3 DEF DelNatIfaces
    <2>2. i \notin Members(list) BY <1>3 DEF Members
    <2>3. QED BY <2>1, <2>2
  <1>4. CASE here # {}
    <2> DEFINE c == CHOOSE k \in here : \A j \in here : k <= j
    <2>1. here \in SUBSET Nat BY <1>2
    <2>2. \E k \in here : \A j \in here : k <= j BY <1>4, <2>1, MinExists
    <2>3. c \in here BY <2>2
    <2>4. d = RemoveAt(list, c) BY <1>4 DEF DelNatIfaces
    <2> HIDE DEF c, d
    <2>5. c \in 1..Len(list) /\ list[c] = i BY <2>3
    <2> DEFINE a == SubSeq(list, 1, c - 1)
               b == SubSeq(list, c + 1, Len(list))
    <2>6. d = a \o b BY <2>4 DEF RemoveAt
    <2>7. \A n \in 1..Len(list) : list[n] \in T OBVIOUS
    <2>8. a \in Seq(T) /\ Len(a) = c - 1 /\ \A n \in 1..(c - 1) : a[n] = list[n]
      <3>1. \A n \in 1..(c - 1) : list[n] \in T BY <2>5, <2>7
      <3>2. /\ a \in Seq(T) /\ Len(a) = IF 1 <= c - 1 THEN c - 1 - 1 + 1 ELSE 0
            /\ \A n \in 1..(c - 1 - 1 + 1) : a[n] = list[1 + n - 1]
        BY <2>5, <3>1, SubSeqProperties
      <3>3. QED BY <2>5, <3>2
    <2>9. b \in Seq(T) /\ Len(b) = Len(list) - c /\ \A n \in 1..(Len(list) - c) : b[n] = list[c + n]
      <3> DEFINE k == c + 1
                 L == Len(list)
      <3>1. k \in 1..(L + 1) /\ L \in Nat BY <1>2, <2>5
      <3>2. b = SubSeq(list, k, L) OBVIOUS
      <3>3. Len(list) = L /\ c = k - 1 BY <2>5
      <3> HIDE DEF k, L, b
      <3>4. \A n \in k..L : list[n] \in T BY <2>7, <3>1, <3>3
      <3>5. /\ b \in Seq(T) /\ Len(b) = IF k <= L THEN L - k + 1 ELSE 0
            /\ \A n \in 1..(L - k + 1) : b[n] = list[k + n - 1]
        BY <3>1, <3>2, <3>3, <3>4, SubSeqProperties
      <3>6. Len(b) = L - k + 1 BY <3>1, <3>5
      <3>7. \A n \in 1..(L - c) : b[n] = list[c + n]
        <4>1. TAKE n \in 1..(L - c)
        <4>2. n \in 1..(L - k + 1) /\ k + n - 1 = c + n BY <2>5, <3>1, <3>3
        <4>3. QED BY <3>5, <4>2
      <3>8. QED BY <2>5, <3>1, <3>3, <3>5, <3>6, <3>7
    <2> HIDE DEF a, b
    <2>10. /\ d \in Seq(T) /\ Len(d) = Len(a) + Len(b)
           /\ \A n \in 1..(Len(a) + Len(b)) : d[n] = IF n <= Len(a) THEN a[n] ELSE b[n - Len(a)]
      BY <2>6, <2>8, <2>9, ConcatProperties
    <2>11. d \in Seq(T) /\ Len(d) = Len(list) - 1 BY <1>2, <2>5, <2>8, <2>9, <2>10
    <2>12. \A n \in 1..Len(d) : d[n] = IF n < c THEN list[n] ELSE list[n + 1]
      <3>1. TAKE n \in 1..Len(d)
      <3>2. n \in 1..(Len(list) - 1) BY <2>11
      <3>3. CASE n < c
        <4>1. n \in 1..(c - 1) /\ n <= Len(a) BY <1>2, <2>5, <2>8, <3>2, <3>3
        <4>2. d[n] = a[n] BY <2>10, <2>11, <4>1
        <4>3. QED BY <2>8, <3>3, <4>1, <4>2
      <3>4. CASE ~ (n < c)
        <4>1. n - Len(a) \in 1..(Len(list) - c) /\ ~ (n <= Len(a)) BY <1>2, <2>5, <2>8, <3>2, <3>4
        <4>2. d[n] = b[n - Len(a)] BY <2>10, <2>11, <4>1
        <4>3. c + (n - Len(a)) = n + 1 BY <2>5, <2>8, <3>2
        <4>4. QED BY <2>9, <3>4, <4>1, <4>2, <4>3
      <3>5. QED BY <3>3, <3>4
    <2>13. \A m \in 1..Len(list) : m # c => \E n \in 1..Len(d) : d[n] = list[m]
      <3>1. TAKE m \in 1..Len(list)
      <3>2. HAVE m # c
      <3>3. CASE m < c
        <4>1. m \in 1..Len(d) BY <1>2, <2>5, <2>11, <3>3
        <4>2. QED BY <2>12, <3>3, <4>1
      <3>4. CASE m > c
        <4>1. m - 1 \in 1..Len(d) /\ ~ (m - 1 < c) /\ (m - 1) + 1 = m BY <1>2, <2>5, <2>11, <3>4
        <4>2. d[m - 1] = list[m] BY <2>12, <4>1
        <4>3. QED BY <4>1, <4>2
      <3>5. QED BY <2>5, <3>2, <3>3, <3>4
    <2>14. Hole \in Members(list) => Hole \in Members(d)
      <3>1. HAVE Hole \in Members(list)
      <3>2. PICK m \in 1..Len(list) : list[m] = Hole BY <3>1 DEF Members
      <3>3. m # c BY <1>1, <2>5, <3>2
      <3>4. QED BY <2>13, <3>2, <3>3 DEF Members
    <2>15. ASSUME IsInjective(list) PROVE IsInjective(d) /\ Members(d) = Members(list) \ {i}
      <3>1. DOMAIN list = 1..Len(list) /\ DOMAIN d = 1..Len(d) BY <2>11
      <3>2. \A m, n \in 1..Len(list) : list[m] = list[n] => m = n BY <2>15, <3>1 DEF IsInjective
      <3>3. ASSUME NEW m \in 1..Len(d), NEW n \in 1..Len(d), d[m] = d[n] PROVE m = n
        <4>1. m \in 1..(Len(list) - 1) /\ n \in 1..(Len(list) - 1) BY <2>11
        <4>2. m \in 1..Len(list) /\ n \in 1..Len(list) /\ m + 1 \in 1..Len(list) /\ n + 1 \in 1..Len(list)
          BY <1>2, <4>1
        <4>3. CASE m < c /\ n < c BY <2>12, <3>2, <3>3, <4>2, <4>3
        <4>4. CASE ~ (m < c) /\ ~ (n < c)
          <5>1. list[m + 1] = list[n + 1] BY <2>12, <3>3, <4>4
          <5>2. m + 1 = n + 1 BY <3>2, <4>2, <5>1
          <5>3. QED BY <4>2, <5>2
        <4>5. CASE m < c /\ ~ (n < c)
          <5>1. list[m] = list[n + 1] BY <2>12, <3>3, <4>5
          <5>2. m = n + 1 BY <3>2, <4>2, <5>1
          <5>3. QED BY <2>5, <4>2, <4>5, <5>2
        <4>6. CASE ~ (m < c) /\ n < c
          <5>1. list[m + 1] = list[n] BY <2>12, <3>3, <4>6
          <5>2. m + 1 = n BY <3>2, <4>2, <5>1
          <5>3. QED BY <2>5, <4>2, <4>6, <5>2
        <4>7. QED BY <4>3, <4>4, <4>5, <4>6
      <3>4. IsInjective(d) BY <3>1, <3>3 DEF IsInjective
      <3>5. Members(list) \ {i} \subseteq Members(d)
        <4> SUFFICES ASSUME NEW x \in Members(list) \ {i} PROVE x \in Members(d) OBVIOUS
        <4>2. PICK m \in 1..Len(list) : list[m] = x BY DEF Members
        <4>3. m # c BY <2>5, <4>2
        <4>4. QED BY <2>13, <4>2, <4>3 DEF Members
      <3>6. Members(d) \subseteq Members(list) \ {i}
        <4> SUFFICES ASSUME NEW x \in Members(d) PROVE x \in Members(list) \ {i} OBVIOUS
        <4>2. PICK n \in 1..Len(d) : d[n] = x BY DEF Members
        <4>3. n \in 1..(Len(list) - 1) BY <2>11
        <4>4. n \in 1..Len(list) /\ n + 1 \in 1..Len(list) BY <1>2, <4>3
        <4>5. CASE n < c
          <5>1. x = list[n] /\ n # c BY <2>5, <2>12, <4>2, <4>4, <4>5
          <5>2. x # i BY <2>5, <3>2, <4>4, <5>1
          <5>3. QED BY <4>4, <5>1, <5>2 DEF Members
        <4>6. CASE ~ (n < c)
          <5>1. x = list[n + 1] /\ n + 1 # c BY <2>5, <2>12, <4>2, <4>4, <4>6
          <5>2. x # i BY <2>5, <3>2, <4>4, <5>1
          <5>3. QED BY <4>4, <5>1, <5>2 DEF Members
        <4>7. QED BY <4>5, <4>6
      <3>7. QED BY <3>4, <3>5, <3>6
    <2>16. QED BY <2>11, <2>14, <2>15 DEF d
  <1>5. QED BY <1>3, <1>4

LEMMA NatDeleted ==
  ASSUME EventsTypeOK, NatIfacesMatch, NEW i \in Ifaces,
         nat_ifaces' = DelNatIfaces(nat_ifaces, i), Served' = Served \ {i}
  PROVE  NatIfacesMatch' /\ nat_ifaces' \in Seq(Ifaces \cup {Hole})
  <1>1. nat_ifaces \in Seq(Ifaces \cup {Hole}) BY EventsTypeFacts
  <1>2. /\ nat_ifaces' \in Seq(Ifaces \cup {Hole})
        /\ Hole \in Members(nat_ifaces) => Hole \in Members(nat_ifaces')
        /\ IsInjective(nat_ifaces) => /\ IsInjective(nat_ifaces')
                                      /\ Members(nat_ifaces') = Members(nat_ifaces) \ {i}
    BY <1>1, DelNatFacts
  <1>3. Hole \notin Members(nat_ifaces') => Members(nat_ifaces') = Served' /\ IsInjective(nat_ifaces')
    BY <1>2, NatFacts
  <1>4. NatIfacesMatch' BY <1>3 DEF NatIfacesMatch, Served, Members
  <1>5. QED BY <1>2, <1>4

LEMMA NatCreated ==
  ASSUME EventsTypeOK, NatIfacesMatch, NEW i \in Ifaces, i \notin Served,
         nat_ifaces' = AddNatIfaces(nat_ifaces, i), Served' = Served \cup {i}
  PROVE  NatIfacesMatch' /\ nat_ifaces' \in Seq(Ifaces \cup {Hole})
  <1>1. nat_ifaces \in Seq(Ifaces \cup {Hole}) BY EventsTypeFacts
  <1>2. PICK x \in {i, Hole} : nat_ifaces' = Append(nat_ifaces, x) BY DEF AddNatIfaces
  <1>3. /\ nat_ifaces' \in Seq(Ifaces \cup {Hole}) /\ Len(nat_ifaces) \in Nat
        /\ Len(nat_ifaces') = Len(nat_ifaces) + 1
        /\ \A n \in 1..Len(nat_ifaces) : n \in 1..Len(nat_ifaces') /\ nat_ifaces'[n] = nat_ifaces[n]
        /\ nat_ifaces'[Len(nat_ifaces) + 1] = x
    BY <1>1, <1>2
  <1>4. \A n \in 1..Len(nat_ifaces') : n \in 1..Len(nat_ifaces) \/ n = Len(nat_ifaces) + 1 BY <1>3
  <1>5. Members(nat_ifaces') = Members(nat_ifaces) \cup {x}
    <2>1. Len(nat_ifaces) + 1 \in 1..Len(nat_ifaces') BY <1>3
    <2>2. QED BY <1>3, <1>4, <2>1 DEF Members
  <1>6. Hole \notin Members(nat_ifaces') => Members(nat_ifaces') = Served' /\ IsInjective(nat_ifaces')
    <2>1. HAVE Hole \notin Members(nat_ifaces')
    <2>2. x = i /\ Hole \notin Members(nat_ifaces) BY <1>5, <2>1
    <2>3. Members(nat_ifaces) = Served /\ IsInjective(nat_ifaces) BY <2>2, NatFacts
    <2>4. Members(nat_ifaces') = Served' BY <1>5, <2>2, <2>3
    <2>5. \A m, n \in 1..Len(nat_ifaces) : nat_ifaces[m] = nat_ifaces[n] => m = n
      <3>1. DOMAIN nat_ifaces = 1..Len(nat_ifaces) BY <1>1
      <3>2. QED BY <2>3, <3>1 DEF IsInjective
    <2>6. \A n \in 1..Len(nat_ifaces) : nat_ifaces[n] # i BY <2>3 DEF Members
    <2>7. ASSUME NEW m \in 1..Len(nat_ifaces'), NEW n \in 1..Len(nat_ifaces'), nat_ifaces'[m] = nat_ifaces'[n]
          PROVE  m = n
      <3>1. CASE m \in 1..Len(nat_ifaces) /\ n \in 1..Len(nat_ifaces) BY <1>3, <2>5, <2>7, <3>1
      <3>2. CASE m = Len(nat_ifaces) + 1 /\ n = Len(nat_ifaces) + 1 BY <3>2
      <3>3. CASE m \in 1..Len(nat_ifaces) /\ n = Len(nat_ifaces) + 1 BY <1>3, <2>2, <2>6, <2>7, <3>3
      <3>4. CASE m = Len(nat_ifaces) + 1 /\ n \in 1..Len(nat_ifaces) BY <1>3, <2>2, <2>6, <2>7, <3>4
      <3>5. QED BY <1>4, <3>1, <3>2, <3>3, <3>4
    <2>8. DOMAIN nat_ifaces' = 1..Len(nat_ifaces') BY <1>3
    <2>9. IsInjective(nat_ifaces') BY <2>7, <2>8 DEF IsInjective
    <2>10. QED BY <2>4, <2>9
  <1>7. NatIfacesMatch' BY <1>6 DEF NatIfacesMatch, Served, Members
  <1>8. QED BY <1>3, <1>7

\* The list when the configuration has been read again: nothing but holes.
LEMMA NatRead ==
  ASSUME EventsTypeOK, NatIfacesMatch, nat_ifaces' = [n \in 1..Len(nat_ifaces) |-> Hole], Served' = Served
  PROVE  NatIfacesMatch' /\ nat_ifaces' \in Seq(Ifaces \cup {Hole})
  <1>1. nat_ifaces \in Seq(Ifaces \cup {Hole}) /\ Len(nat_ifaces) \in Nat BY EventsTypeFacts
  <1>2. nat_ifaces' \in Seq(Ifaces \cup {Hole}) /\ Len(nat_ifaces') = Len(nat_ifaces) BY <1>1
  <1>3. CASE Len(nat_ifaces) = 0
    <2>1. nat_ifaces' = nat_ifaces BY <1>1, <1>2, <1>3
    <2>2. QED BY <1>2, <2>1, NatSame
  <1>4. CASE Len(nat_ifaces) # 0
    <2>1. 1 \in 1..Len(nat_ifaces') /\ nat_ifaces'[1] = Hole BY <1>1, <1>2, <1>4
    <2>2. Hole \in Members(nat_ifaces') BY <2>1 DEF Members
    <2>3. QED BY <1>2, <2>2 DEF NatIfacesMatch, Members
  <1>5. QED BY <1>3, <1>4

-----------------------------------------------------------------------------
(* The parts of the invariant, and steps of several actions.               *)

LEMMA InvParts ==
  ASSUME EventsInv
  PROVE  /\ EventsTypeOK /\ RegsMatch /\ WalkOK /\ InstancesMatch /\ OneObjectEach
         /\ DeleteSelfOK /\ DownOK /\ ApsCounted /\ NatIfacesMatch
  BY DEF EventsInv

\* Who is called, with its interface and type.
LEMMA SelfFacts ==
  ASSUME EventsInv, Calling, tmp.obj # Manager
  PROVE  /\ tmp.obj \in DOMAIN objects /\ objects[tmp.obj] = Self /\ ObjectOK(Self)
         /\ Self.iface \in Ifaces /\ Self.type \in TypesOf(Self.iface)
         /\ evt.event \in Members(ListenerEvents(Self.type))
         /\ evt \in Messages
  <1>1. EventsTypeOK /\ RegsMatch /\ WalkOK BY InvParts
  <1>2. tmp.obj \in DOMAIN objects /\ evt.event \in Members(ListenerEvents(Self.type))
    BY <1>1, CalledFacts
  <1>3. ObjectOK(Self) BY <1>1, <1>2, EventsTypeFacts DEF Self
  <1>4. evt \in Messages BY <1>1, PlaceFacts
  <1>5. QED BY <1>2, <1>3, <1>4 DEF Self, ObjectOK

\* Only the manager makes objects.
LEMMA ManagerCalled ==
  ASSUME EventsInv, Calling, evt.event \in {"LINK_UP", "WLAN_AP_LINK_UP", "USB_LINK_UP"}
  PROVE  tmp.obj = Manager
  <1> SUFFICES ASSUME tmp.obj # Manager PROVE FALSE OBVIOUS
  <1>1. /\ Self.iface \in Ifaces /\ Self.type \in TypesOf(Self.iface)
        /\ evt.event \in Members(ListenerEvents(Self.type))
    BY SelfFacts
  <1>2. Self.type \in {"lan", "wlan", "q6", "ecm"} BY <1>1, KindFacts
  <1>3. Members(ListenerEvents(Self.type)) \cap {"LINK_UP", "WLAN_AP_LINK_UP", "USB_LINK_UP", "none"} = {}
    BY <1>2, UpIsTheManagers
  <1>4. QED BY <1>1, <1>3

\* What the posts of another thread leave alone.
LEMMA OutsideStep ==
  ASSUME EventsInv, Posts(NotDeletes(Messages)), UNCHANGED processing, UNCHANGED life,
         netlink' \in Seq(LinkMessages), DOMAIN xml' = Ifaces, \A i \in Ifaces : xml'[i] \in CatsOf(i),
         reports' \in 0..MaxReports
  PROVE  EventsInv'
  <1>1. EventsTypeOK /\ OneObjectEach /\ DeleteSelfOK /\ DownOK BY InvParts
  <1>2. /\ thread' = thread /\ evt' = evt /\ tmp' = tmp /\ served' = served
        /\ regs' = regs /\ objects' = objects /\ instances' = instances /\ if_cat' = if_cat
        /\ nat_ifaces' = nat_ifaces /\ num_wlan_ap_iface' = num_wlan_ap_iface /\ stray' = stray
    BY DEF processing, life
  <1>3. Posts(Messages) BY DEF Posts, NotDeletes
  <1>4. queue' \in Seq(Messages) /\ signalled' \in BOOLEAN /\ link' \in [Ifaces -> {"up", "down"}]
    BY <1>1, <1>3, PostsTypes
  <1>5. EventsTypeOK' BY <1>1, <1>2, <1>4 DEF EventsTypeOK
  <1>6. DownOK' BY <1>1, <1>2, <1>3, DownStep
  <1>7. DeleteSelfOK' BY <1>1, <1>2, DeleteSelfStep
  <1>8. RegsMatch' BY <1>2, InvParts, RegsSame
  <1>9. WalkOK' BY <1>2, InvParts DEF WalkOK, Reached, Lost, LostOnlyBy
  <1>10. InstancesMatch' /\ OneObjectEach' BY <1>2, InvParts, InstancesKept
  <1>11. ApsCounted' BY <1>2, InvParts, ApsSame DEF Aps
  <1>12. NatIfacesMatch' BY <1>2, InvParts, NatSame DEF Served
  <1>13. QED BY <1>5, <1>6, <1>7, <1>8, <1>9, <1>10, <1>11, <1>12 DEF EventsInv

\* A callback is made that leaves the objects alone: it is not the one that the object
\* called has to heed.
LEMMA QuietStep ==
  ASSUME EventsInv, Calling, Walk(<<>>), thread' = thread, evt' = evt, UNCHANGED posting,
         UNCHANGED box, UNCHANGED <<objects, instances, num_wlan_ap_iface>>,
         DOMAIN if_cat' = Ifaces, \A i \in Ifaces : if_cat'[i] \in CatsOf(i),
         NatIfacesMatch', nat_ifaces' \in Seq(Ifaces \cup {Hole}),
         tmp.obj # Manager => /\ evt # DeleteSelf(Self.iface)
                              /\ ~ (Self.active /\ evt = DownOf(Self.iface))
  PROVE  EventsInv'
  <1>1. EventsTypeOK /\ RegsMatch /\ WalkOK /\ OneObjectEach /\ DeleteSelfOK /\ DownOK BY InvParts
  <1>2. /\ WalkOK' /\ tmp' \in Registration \cup {End}
        /\ regs' = regs /\ served' = served \cup {tmp.obj} /\ stray' = stray
    BY <1>1, WalkStays
  <1>3. /\ objects' = objects /\ instances' = instances /\ num_wlan_ap_iface' = num_wlan_ap_iface
        /\ queue' = queue /\ signalled' = signalled /\ link' = link
        /\ netlink' = netlink /\ reports' = reports /\ xml' = xml
    BY DEF box, posting
  <1>4. Posts(Messages) /\ Posts(NotDeletes(Messages)) BY DEF Posts
  <1>5. tmp \in Registration /\ tmp.obj \in Nat BY <1>1, CalledFacts, RegistrationFacts
  <1>6. EventsTypeOK'
    <2>1. served' \subseteq Nat BY <1>2, <1>5, EventsTypeFacts, <1>1
    <2>2. thread' = "walking" /\ evt' # NoEvt BY <1>1, EventsTypeFacts DEF Calling
    <2>3. evt' \in Messages BY <1>1, PlaceFacts
    <2>4. QED BY <1>1, <1>2, <1>3, <2>1, <2>2, <2>3 DEF EventsTypeOK
  <1>7. \A o \in DOMAIN objects : o # tmp.obj => (o \in served' <=> o \in served) BY <1>2
  <1>8. tmp.obj \in DOMAIN objects => tmp.obj # Manager BY <1>1, EventsTypeFacts
  <1>9. DownOK'
    <2>1. ASSUME NEW o \in DOMAIN objects', objects'[o].active
          PROVE  /\ o \in DOMAIN objects /\ objects[o].active /\ objects[o].iface = objects'[o].iface
                 /\ evt = DownOf(objects[o].iface) /\ o \notin served => o \notin served'
      <3>1. o \in DOMAIN objects /\ objects[o].active /\ objects[o].iface = objects'[o].iface
        BY <1>3, <2>1
      <3>2. o = tmp.obj => evt # DownOf(objects[o].iface) BY <1>8, <3>1 DEF Self
      <3>3. QED BY <1>7, <3>1, <3>2
    <2>2. QED BY <1>1, <1>4, <2>1, DownStep
  <1>10. DeleteSelfOK'
    <2>1. ASSUME NEW o \in DOMAIN objects
          PROVE  /\ o \in DOMAIN objects' /\ objects'[o].iface = objects[o].iface
                 /\ objects'[o].active = objects[o].active
                 /\ evt = DeleteSelf(objects[o].iface) /\ o \notin served => o \notin served'
      <3>1. o = tmp.obj => evt # DeleteSelf(objects[o].iface) BY <1>8 DEF Self
      <3>2. QED BY <1>3, <1>7, <3>1
    <2>2. QED BY <1>1, <1>3, <1>4, <2>1, DeleteSelfStep
  <1>11. RegsMatch' BY <1>1, <1>2, <1>3, RegsSame
  <1>12. InstancesMatch' /\ OneObjectEach' BY <1>3, InvParts, InstancesKept
  <1>13. ApsCounted' BY <1>3, InvParts, ApsSame DEF Aps
  <1>14. QED BY <1>2, <1>6, <1>9, <1>10, <1>11, <1>12, <1>13 DEF EventsInv

\* An object goes inactive in its callback.
LEMMA DeactivateStep ==
  ASSUME EventsInv, Calling, tmp.obj # Manager, Self.active, Self.type \in {"lan", "wlan"},
         NEW switch \in BOOLEAN, Deactivate(switch),
         thread' = thread, evt' = evt, UNCHANGED posting, UNCHANGED <<instances, num_wlan_ap_iface>>,
         DOMAIN if_cat' = Ifaces, \A i \in Ifaces : if_cat'[i] \in CatsOf(i)
  PROVE  EventsInv'
  <1>1. EventsTypeOK /\ RegsMatch /\ WalkOK /\ OneObjectEach /\ DeleteSelfOK /\ DownOK BY InvParts
  <1>2. PICK t : t = tmp.obj OBVIOUS
  <1>3. PICK i : i = Self.iface OBVIOUS
  <1>4. t \in DOMAIN objects /\ objects[t] = Self /\ ObjectOK(objects[t]) /\ i \in Ifaces /\ objects[t].iface = i
    BY <1>2, <1>3, SelfFacts
  <1>5. /\ objects' = [objects EXCEPT ![t].active = FALSE, ![t].is_mode_switch = switch]
        /\ nat_ifaces' = DelNatIfaces(nat_ifaces, i)
        /\ PostEvt(DeleteSelf(i)) /\ Walk(<<>>)
    BY <1>2, <1>3 DEF Deactivate, DeleteSelf
  <1>6. /\ WalkOK' /\ tmp' \in Registration \cup {End}
        /\ regs' = regs /\ served' = served \cup {t} /\ stray' = stray
    BY <1>1, <1>2, <1>5, WalkStays
  <1>7. /\ DOMAIN objects' = DOMAIN objects
        /\ \A o \in DOMAIN objects : o # t => objects'[o] = objects[o]
        /\ objects'[t] = [objects[t] EXCEPT !.active = FALSE, !.is_mode_switch = switch]
    BY <1>4, <1>5
  <1>8. /\ DOMAIN objects'[t] = DOMAIN objects[t]
        /\ objects'[t].iface = objects[t].iface /\ objects'[t].type = objects[t].type
        /\ objects'[t].cate = objects[t].cate
        /\ objects'[t].active = FALSE /\ objects'[t].is_mode_switch = switch
    BY <1>4, <1>7 DEF ObjectOK
  <1>9. \A o \in DOMAIN objects : objects'[o].iface = objects[o].iface /\ objects'[o].type = objects[o].type
    BY <1>7, <1>8
  <1>10. ObjectOK(objects'[t]) BY <1>2, <1>4, <1>8 DEF ObjectOK
  <1>11. DeleteSelf(i) \in Messages BY <1>4, MessagesMade DEF DeleteSelf
  <1>12. Posts(Messages) BY <1>5, <1>11 DEF Posts
  <1>13. NatIfacesMatch' /\ nat_ifaces' \in Seq(Ifaces \cup {Hole})
    <2>1. \A o \in DOMAIN objects : objects[o].iface = i => o = t BY <1>1, <1>4 DEF OneObjectEach
    <2>2. Served' = Served \ {i}
      <3>1. \A o \in DOMAIN objects' : objects'[o].active => o # t /\ o \in DOMAIN objects /\ objects[o].active
        BY <1>7, <1>8
      <3>2. \A o \in DOMAIN objects : objects[o].active /\ objects[o].iface # i => o # t /\ o \in DOMAIN objects' /\ objects'[o].active
        BY <1>4, <1>7
      <3>3. QED BY <1>9, <2>1, <3>1, <3>2 DEF Served
    <2>3. QED BY <1>1, <1>4, <1>5, <2>2, InvParts, NatDeleted
  <1>14. EventsTypeOK'
    <2>1. queue' \in Seq(Messages) /\ signalled' \in BOOLEAN /\ link' \in [Ifaces -> {"up", "down"}]
      BY <1>1, <1>12, PostsTypes
    <2>2. served' \subseteq Nat BY <1>1, <1>4, <1>6, EventsTypeFacts
    <2>3. thread' = "walking" /\ evt' # NoEvt BY <1>1, EventsTypeFacts DEF Calling
    <2>4. evt' \in Messages BY <1>1, PlaceFacts
    <2>5. /\ IsFiniteSet(DOMAIN objects') /\ DOMAIN objects' \subseteq Nat \ {Manager}
          /\ \A o \in DOMAIN objects' : ObjectOK(objects'[o])
      BY <1>1, <1>7, <1>10, EventsTypeFacts
    <2>6. /\ regs' = regs /\ instances' = instances /\ num_wlan_ap_iface' = num_wlan_ap_iface
          /\ netlink' = netlink /\ reports' = reports /\ xml' = xml
      BY <1>6 DEF posting
    <2>7. QED BY <1>1, <1>6, <1>13, <2>1, <2>2, <2>3, <2>4, <2>5, <2>6 DEF EventsTypeOK, ObjectOK
  <1>15. DownOK'
    <2>1. ASSUME NEW o \in DOMAIN objects', objects'[o].active
          PROVE  /\ o \in DOMAIN objects /\ objects[o].active /\ objects[o].iface = objects'[o].iface
                 /\ evt = DownOf(objects[o].iface) /\ o \notin served => o \notin served'
      <3>1. o # t BY <1>8, <2>1
      <3>2. QED BY <1>6, <1>7, <2>1, <3>1
    <2>2. QED BY <1>1, <1>12, <2>1, DownStep
  <1>16. DeleteSelfOK'
    <2>1. ~ objects'[t].active /\ \A o \in DOMAIN objects : objects'[o].iface = objects[o].iface
      BY <1>8, <1>9
    <2>2. QED BY <1>1, <1>2, <1>3, <1>4, <1>5, <1>6, <1>7, <2>1, DeactivateDeleteSelf
  <1>17. RegsMatch' BY <1>1, <1>6, <1>7, <1>9, RegsSame
  <1>18. InstancesMatch' /\ OneObjectEach' BY <1>7, <1>9, InvParts, InstancesKept
  <1>19. ApsCounted'
    <2>1. Aps' = Aps BY <1>7, <1>9 DEF Aps
    <2>2. QED BY <2>1, InvParts, ApsSame
  <1>20. QED BY <1>6, <1>13, <1>14, <1>15, <1>16, <1>17, <1>18, <1>19 DEF EventsInv

\* An object is deleted in its callback, when it is active or the event is the one to delete it.
LEMMA DeleteStep ==
  ASSUME EventsInv, Calling, tmp.obj # Manager, Deregistr(tmp.obj),
         Self.active \/ evt = DeleteSelf(Self.iface), DeletesItself(evt.event, Self.type),
         Posts(NotDeletes(Messages)),
         thread' = thread, evt' = evt, UNCHANGED posting, UNCHANGED if_cat,
         NatIfacesMatch', nat_ifaces' \in Seq(Ifaces \cup {Hole}),
         ApsCounted', num_wlan_ap_iface' \in Nat
  PROVE  EventsInv'
  <1>1. EventsTypeOK /\ RegsMatch /\ WalkOK /\ OneObjectEach /\ DeleteSelfOK /\ DownOK BY InvParts
  <1>2. PICK t : t = tmp.obj OBVIOUS
  <1>3. t \in DOMAIN objects /\ objects[t] = Self BY <1>2, SelfFacts
  <1>4. objects' = WithoutObject(t) /\ instances' = Others(instances, t) /\ WalkPast(t)
    BY <1>2 DEF Deregistr
  <1>5. DOMAIN objects' = DOMAIN objects \ {t} /\ \A o \in DOMAIN objects' : objects'[o] = objects[o]
    BY <1>4 DEF WithoutObject
  <1>6. /\ WalkOK' /\ tmp' \in Registration \cup {End}
        /\ stray' \in {"none", "lan", "wlan", "q6", "ecm"}
    BY <1>1, <1>2, <1>4, WalkPastOn
  <1>7. regs' = Others(regs, t) /\ served' = served \cup {t} BY <1>2, <1>4 DEF WalkPast
  <1>8. RegsMatch' /\ regs' \in Seq(Registration) BY <1>1, <1>3, <1>4, <1>7, RegsDeleted
  <1>9. InstancesMatch' /\ OneObjectEach' /\ instances' \in Seq([iface : Ifaces, obj : Nat])
    BY <1>3, <1>4, InvParts, InstancesDeleted
  <1>10. Posts(Messages) BY DEF Posts, NotDeletes
  <1>11. EventsTypeOK'
    <2>1. queue' \in Seq(Messages) /\ signalled' \in BOOLEAN /\ link' \in [Ifaces -> {"up", "down"}]
      BY <1>1, <1>10, PostsTypes
    <2>2. served' \subseteq Nat BY <1>1, <1>3, <1>7, EventsTypeFacts
    <2>3. thread' = "walking" /\ evt' # NoEvt BY <1>1, EventsTypeFacts DEF Calling
    <2>4. evt' \in Messages BY <1>1, PlaceFacts
    <2>5. /\ IsFiniteSet(DOMAIN objects') /\ DOMAIN objects' \subseteq Nat \ {Manager}
          /\ \A o \in DOMAIN objects' : ObjectOK(objects'[o])
      <3>1. IsFiniteSet(DOMAIN objects') BY <1>1, <1>5, EventsTypeFacts, FS_Subset
      <3>2. QED BY <1>1, <1>5, <3>1, EventsTypeFacts
    <2>6. if_cat' = if_cat /\ netlink' = netlink /\ reports' = reports /\ xml' = xml BY DEF posting
    <2>7. QED BY <1>1, <1>6, <1>8, <1>9, <2>1, <2>2, <2>3, <2>4, <2>5, <2>6 DEF EventsTypeOK, ObjectOK
  <1>12. DownOK'
    <2>1. ASSUME NEW o \in DOMAIN objects', objects'[o].active
          PROVE  /\ o \in DOMAIN objects /\ objects[o].active /\ objects[o].iface = objects'[o].iface
                 /\ evt = DownOf(objects[o].iface) /\ o \notin served => o \notin served'
      BY <1>5, <1>7, <2>1
    <2>2. QED BY <1>1, <1>10, <2>1, DownStep
  <1>13. DeleteSelfOK'
    <2>1. ASSUME NEW o \in DOMAIN objects
          PROVE  IF o \in DOMAIN objects'
                   THEN /\ objects'[o].iface = objects[o].iface /\ objects'[o].active = objects[o].active
                        /\ evt = DeleteSelf(objects[o].iface) /\ o \notin served => o \notin served'
                   ELSE objects[o].active \/ evt = DeleteSelf(objects[o].iface)
      <3>1. CASE o = t BY <1>3, <1>5, <3>1
      <3>2. CASE o # t BY <1>5, <1>7, <3>2
      <3>3. QED BY <3>1, <3>2
    <2>2. \A o \in DOMAIN objects' : o \in DOMAIN objects BY <1>5
    <2>3. QED BY <1>1, <2>1, <2>2, DeleteSelfStep
  <1>14. QED BY <1>6, <1>8, <1>9, <1>11, <1>12, <1>13 DEF EventsInv

\* The manager makes an object, or finds that there is one or that nobody is to serve the interface.
LEMMA CreateStep ==
  ASSUME EventsInv, Calling, evt.event \in {"LINK_UP", "WLAN_AP_LINK_UP", "USB_LINK_UP"},
         NEW i \in Ifaces, NEW cat \in CatsOf(i) \cup {"UNKNOWN"}, NEW wanType \in {"q6", "ecm"},
         cat # "UNKNOWN" => UpOf(evt, i), Create(i, cat, wanType),
         thread' = thread, evt' = evt, UNCHANGED posting,
         DOMAIN if_cat' = Ifaces, \A j \in Ifaces : if_cat'[j] \in CatsOf(j)
  PROVE  EventsInv'
  <1>1. EventsTypeOK /\ RegsMatch /\ WalkOK /\ OneObjectEach /\ DeleteSelfOK /\ DownOK BY InvParts
  <1>2. tmp.obj = Manager BY ManagerCalled
  <1>3. CASE SearchInstance(i) \/ cat = "UNKNOWN"
    <2>1. Walk(<<>>) /\ UNCHANGED <<box, objects, instances, nat_ifaces, num_wlan_ap_iface>>
      BY <1>3 DEF Create
    <2>2. nat_ifaces' = nat_ifaces /\ objects' = objects /\ UNCHANGED box
          /\ UNCHANGED <<objects, instances, num_wlan_ap_iface>>
      BY <2>1
    <2>3. NatIfacesMatch' BY <2>2, InvParts, NatSame DEF Served
    <2>4. nat_ifaces' \in Seq(Ifaces \cup {Hole}) BY <1>1, <2>2, EventsTypeFacts
    <2>5. QED BY <1>2, <2>1, <2>2, <2>3, <2>4, QuietStep
  <1>4. CASE ~ (SearchInstance(i) \/ cat = "UNKNOWN")
    <2>1. PICK o : o = NewObject OBVIOUS
    <2>2. PICK t : t = CASE cat = "LAN" -> "lan" [] cat = "WLAN" -> "wlan" [] cat = "WAN" -> wanType
      OBVIOUS
    <2>3. o \in Nat /\ o # Manager /\ o \notin DOMAIN objects BY <1>1, <2>1, NewObjectFacts
    <2>4. cat \in CatsOf(i) /\ UpOf(evt, i) BY <1>4, KindFacts
    <2>5. /\ cat \in {"LAN", "WLAN", "WAN"}
          /\ t \in TypesOf(i) /\ t \in {"lan", "wlan", "q6", "ecm"}
      BY <1>4, <2>2, <2>4, KindFacts DEF CatsOf, TypesOf
    <2>6. /\ objects' = [n \in DOMAIN objects \cup {o} |-> IF n = o THEN Iface(i, t, cat) ELSE objects[n]]
          /\ instances' = Append(instances, [iface |-> i, obj |-> o])
          /\ nat_ifaces' = AddNatIfaces(nat_ifaces, i)
          /\ num_wlan_ap_iface' = num_wlan_ap_iface + (IF t = "wlan" THEN 1 ELSE 0)
          /\ Walk(Nodes(o, ListenerEvents(t)))
          /\ AddrQuery(i)
      BY <1>4, <2>1, <2>2 DEF Create
    <2>7. /\ DOMAIN objects' = DOMAIN objects \cup {o}
          /\ objects'[o] = Iface(i, t, cat)
          /\ \A p \in DOMAIN objects : objects'[p] = objects[p]
      BY <2>3, <2>6
    <2>8. /\ objects'[o].iface = i /\ objects'[o].type = t /\ objects'[o].cate = cat
          /\ objects'[o].active = TRUE /\ objects'[o].is_mode_switch = FALSE
          /\ DOMAIN objects'[o] = {"iface", "type", "cate", "active", "is_mode_switch"}
      BY <2>7 DEF Iface
    <2>9. ObjectOK(objects'[o]) BY <2>4, <2>5, <2>8 DEF ObjectOK
    <2>10. /\ regs' = regs \o Nodes(o, ListenerEvents(t)) /\ served' = served \cup {tmp.obj} /\ stray' = stray
           /\ tmp' = FirstNode(regs \o Nodes(o, ListenerEvents(t)),
                             {n \in PlacesFor(regs \o Nodes(o, ListenerEvents(t)), evt.event) : n > Place /\ Place # Len(regs)})
      BY <2>6 DEF Walk
    <2>11. Grown(regs', o, t) BY <1>1, <2>3, <2>5, <2>10, NodesAdded
    <2>12. /\ regs' \in Seq(Registration) /\ Len(regs') >= Len(regs)
           /\ \A n \in 1..Len(regs) : regs'[n] = regs[n]
           /\ \A n \in 1..Len(regs') : n > Len(regs) => regs'[n].event # evt.event
      <3>1. Members(ListenerEvents(t)) \cap {"LINK_UP", "WLAN_AP_LINK_UP", "USB_LINK_UP", "none"} = {}
        BY <2>5, UpIsTheManagers
      <3>2. QED BY <2>11, <3>1 DEF Grown
    <2>13. WalkOK' /\ tmp' \in Registration \cup {End}
      <3> DEFINE list == regs \o Nodes(o, ListenerEvents(t))
      <3>1. regs' = list BY <2>10
      <3>2. tmp' = FirstNode(list, {n \in PlacesFor(list, evt.event) : n > Place /\ Place # Len(regs)}) BY <2>10
      <3> HIDE DEF list
      <3>3. QED BY <1>1, <2>10, <2>12, <3>1, <3>2, WalkOn
    <2>14. RegsMatch' BY <1>1, <2>3, <2>5, <2>7, <2>8, <2>10, RegsCreated
    <2>15. InstancesMatch' /\ OneObjectEach' /\ instances' \in Seq([iface : Ifaces, obj : Nat])
      BY <1>1, <1>4, <2>3, <2>6, <2>7, <2>8, InvParts, InstancesCreated
    <2>16. E("ADDR_ADD", i) \in Messages /\ E("ADDR_ADD", i).event = "ADDR_ADD" BY MessagesMade DEF E
    <2>17. Posts(Messages) /\ Posts(NotDeletes(Messages))
      BY <2>6, <2>16 DEF AddrQuery, Posts, NotDeletes
    <2>18. \A p \in DOMAIN objects : objects[p].iface # i BY <1>4, InvParts, SearchFacts
    <2>19. NatIfacesMatch' /\ nat_ifaces' \in Seq(Ifaces \cup {Hole})
      <3>1. i \notin Served BY <2>18 DEF Served
      <3>2. Served' = Served \cup {i}
        <4>1. \A p \in DOMAIN objects : p \in DOMAIN objects' BY <2>7
        <4>2. o \in DOMAIN objects' BY <2>7
        <4>3. \A p \in DOMAIN objects' : p = o \/ p \in DOMAIN objects BY <2>7
        <4>4. QED BY <2>7, <2>8, <4>1, <4>2, <4>3 DEF Served
      <3>3. QED BY <1>1, <2>6, <3>1, <3>2, InvParts, NatCreated
    <2>20. ApsCounted' /\ num_wlan_ap_iface' \in Nat
      <3>1. num_wlan_ap_iface \in Nat BY <1>1, EventsTypeFacts
      <3>2. CASE t = "wlan"
        <4>1. Aps' = Aps \cup {o} BY <2>7, <2>8, <3>2 DEF Aps
        <4>2. o \notin Aps BY <2>3 DEF Aps
        <4>3. num_wlan_ap_iface' = num_wlan_ap_iface + 1 BY <2>6, <3>2
        <4>4. ApsCounted' BY <1>1, <4>1, <4>2, <4>3, InvParts, ApsMore
        <4>5. QED BY <3>1, <4>3, <4>4
      <3>3. CASE t # "wlan"
        <4>1. Aps' = Aps BY <2>3, <2>7, <2>8, <3>3 DEF Aps
        <4>2. num_wlan_ap_iface' = num_wlan_ap_iface BY <2>6, <3>1, <3>3
        <4>3. QED BY <3>1, <4>1, <4>2, InvParts, ApsSame
      <3>4. QED BY <3>2, <3>3
    <2>21. EventsTypeOK'
      <3>1. queue' \in Seq(Messages) /\ signalled' \in BOOLEAN /\ link' \in [Ifaces -> {"up", "down"}]
        BY <1>1, <2>17, PostsTypes
      <3>2. served' \subseteq Nat BY <1>1, <1>2, <2>10, EventsTypeFacts DEF Manager
      <3>3. thread' = "walking" /\ evt' # NoEvt BY <1>1, EventsTypeFacts DEF Calling
      <3>4. evt' \in Messages BY <1>1, PlaceFacts
      <3>5. /\ IsFiniteSet(DOMAIN objects') /\ DOMAIN objects' \subseteq Nat \ {Manager}
            /\ \A p \in DOMAIN objects' : ObjectOK(objects'[p])
        <4>1. IsFiniteSet(DOMAIN objects')
          <5>1. IsFiniteSet(DOMAIN objects) BY <1>1, EventsTypeFacts
          <5>2. IsFiniteSet(DOMAIN objects \cup {o}) BY <5>1, FS_AddElement
          <5>3. QED BY <2>7, <5>2
        <4>2. QED BY <1>1, <2>3, <2>7, <2>9, <4>1, EventsTypeFacts
      <3>6. netlink' = netlink /\ reports' = reports /\ xml' = xml BY DEF posting
      <3>7. QED BY <1>1, <2>10, <2>12, <2>13, <2>15, <2>19, <2>20, <3>1, <3>2, <3>3, <3>4, <3>5, <3>6
            DEF EventsTypeOK, ObjectOK
    <2>22. evt.event \notin {"LINK_DOWN", "WLAN_LINK_DOWN", "LAN_DELETE_SELF"} OBVIOUS
    <2>23. \A j : evt # DeleteSelf(j) /\ evt # DownOf(j)
      BY <2>22 DEF DeleteSelf, DownOf, DownEvent, E
    <2>24. DownOK'
      <3>1. ASSUME NEW p \in DOMAIN objects', objects'[p].active
            PROVE  \/ UpOf(evt, objects'[p].iface)
                   \/ /\ p \in DOMAIN objects /\ objects[p].active /\ objects[p].iface = objects'[p].iface
                      /\ evt = DownOf(objects[p].iface) /\ p \notin served => p \notin served'
        <4>1. CASE p = o BY <2>4, <2>8, <4>1
        <4>2. CASE p # o BY <2>7, <2>23, <3>1, <4>2
        <4>3. QED BY <4>1, <4>2
      <3>2. QED BY <1>1, <2>17, <3>1, DownStep
    <2>25. DeleteSelfOK'
      <3>1. ASSUME NEW p \in DOMAIN objects
            PROVE  /\ p \in DOMAIN objects' /\ objects'[p].iface = objects[p].iface
                   /\ objects'[p].active = objects[p].active
                   /\ evt = DeleteSelf(objects[p].iface) /\ p \notin served => p \notin served'
        BY <2>7, <2>23
      <3>2. \A p \in DOMAIN objects' : p \notin DOMAIN objects =>
              objects'[p].active /\ evt # DeleteSelf(objects'[p].iface)
        BY <2>7, <2>8, <2>23
      <3>3. QED BY <1>1, <2>17, <3>1, <3>2, DeleteSelfStep
    <2>26. QED BY <2>13, <2>14, <2>15, <2>19, <2>20, <2>21, <2>24, <2>25 DEF EventsInv
  <1>5. QED BY <1>3, <1>4

-----------------------------------------------------------------------------
(* Each action preserves the invariant.                                    *)

LEMMA InvInit == EventsInit => EventsInv
  <1> SUFFICES ASSUME EventsInit PROVE EventsInv OBVIOUS
  <1>1. /\ queue = <<>> /\ netlink = <<>> /\ thread = "ready" /\ signalled = FALSE
        /\ evt = NoEvt /\ tmp = End /\ served = {}
        /\ regs = Nodes(Manager, ManagerEvents)
        /\ objects = <<>> /\ instances = <<>>
        /\ xml = Shipped /\ if_cat = Shipped
        /\ nat_ifaces = <<>> /\ num_wlan_ap_iface = 0 /\ stray = "none"
        /\ link = [i \in Ifaces |-> "down"] /\ reports = 0
    BY DEF EventsInit
  <1>2. DOMAIN objects = {} BY <1>1
  <1>3. /\ Len(regs) = 4 /\ regs \in Seq(Registration)
        /\ regs = [n \in 1..4 |-> [obj |-> Manager, event |-> ManagerEvents[n]]]
        /\ \A m, n \in 1..4 : regs[m] = regs[n] => m = n
    <2>1. Len(ManagerEvents) = 4 BY DEF ManagerEvents
    <2>2. \A n \in 1..4 : ManagerEvents[n] \in Members(ManagerEvents) BY <2>1 DEF Members
    <2>3. regs = [n \in 1..4 |-> [obj |-> Manager, event |-> ManagerEvents[n]]] BY <1>1, <2>1 DEF Nodes
    <2>4. \A n \in 1..4 : [obj |-> Manager, event |-> ManagerEvents[n]] \in Registration
      BY <2>2 DEF Registration, Manager
    <2>5. regs \in [1..4 -> Registration] BY <2>3, <2>4
    <2>6. regs \in Seq(Registration) /\ Len(regs) = 4
      <3>1. \A n \in 1..4 : regs[n] \in Registration BY <2>5
      <3>2. regs = <<regs[1], regs[2], regs[3], regs[4]>> BY <2>3
      <3>3. <<regs[1], regs[2], regs[3], regs[4]>> \in Seq(Registration) BY <3>1
      <3>4. Len(<<regs[1], regs[2], regs[3], regs[4]>>) = 4 OBVIOUS
      <3>5. QED BY <3>2, <3>3, <3>4
    <2>7. \A m, n \in 1..4 : ManagerEvents[m] = ManagerEvents[n] => m = n BY DEF ManagerEvents
    <2>8. \A n \in 1..4 : regs[n].event = ManagerEvents[n] BY <2>3
    <2>9. \A m, n \in 1..4 : regs[m] = regs[n] => m = n BY <2>7, <2>8
    <2>10. QED BY <2>3, <2>6, <2>9
  <1>4. \A n \in 1..4 : regs[n].obj = Manager /\ regs[n].event \in Members(ManagerEvents)
    BY <1>3 DEF Members, ManagerEvents
  <1>5. EventsTypeOK
    <2>1. DOMAIN xml = Ifaces /\ DOMAIN if_cat = Ifaces BY <1>1 DEF Shipped
    <2>2. \A i \in Ifaces : xml[i] \in CatsOf(i) /\ if_cat[i] \in CatsOf(i) BY <1>1, KindFacts
    <2>3. IsFiniteSet(DOMAIN objects) BY <1>2, FS_EmptySet
    <2>4. reports \in 0..MaxReports BY <1>1, EventsAssumption
    <2>5. /\ thread \in {"ready", "waiting", "walking"} /\ signalled \in BOOLEAN
          /\ evt \in Messages \cup {NoEvt} /\ (evt = NoEvt <=> thread # "walking")
          /\ tmp \in Registration \cup {End} /\ (thread # "walking" => tmp = End)
      BY <1>1
    <2>6. queue \in Seq(Messages) /\ netlink \in Seq(LinkMessages) BY <1>1, EmptySeq
    <2>7. instances \in Seq([iface : Ifaces, obj : Nat]) /\ nat_ifaces \in Seq(Ifaces \cup {Hole})
      BY <1>1, EmptySeq
    <2>8. DOMAIN objects \subseteq Nat \ {Manager} /\ \A o \in DOMAIN objects : ObjectOK(objects[o])
      BY <1>2
    <2>9. /\ num_wlan_ap_iface \in Nat /\ served \subseteq Nat /\ link \in [Ifaces -> {"up", "down"}]
          /\ stray \in {"none", "lan", "wlan", "q6", "ecm"}
      BY <1>1
    <2>10. QED BY <1>3, <2>1, <2>2, <2>3, <2>4, <2>5, <2>6, <2>7, <2>8, <2>9 DEF EventsTypeOK, ObjectOK
  <1>6. RegsMatch BY <1>2, <1>3, <1>4 DEF RegsMatch
  <1>7. WalkOK BY <1>1 DEF WalkOK, Lost
  <1>8. InstancesMatch /\ OneObjectEach BY <1>1, <1>2 DEF InstancesMatch, OneObjectEach
  <1>9. DeleteSelfOK BY <1>1, <1>2 DEF DeleteSelfOK, InQueue, NoEvt, DeleteSelf, E
  <1>10. DownOK
    <2> SUFFICES ASSUME NEW i \in Ifaces PROVE DownHandled(i) BY DEF DownOK
    <2>1. ~ UpOf(evt, i) BY <1>1 DEF UpOf, NoEvt, UpEvents
    <2>2. QED BY <1>1, <1>2, <2>1 DEF DownHandled
  <1>11. ApsCounted
    <2>1. {o \in DOMAIN objects : objects[o].type = "wlan"} = {} BY <1>2
    <2>2. QED BY <1>1, <2>1, FS_EmptySet DEF ApsCounted
  <1>12. NatIfacesMatch
    <2>1. Members(nat_ifaces) = {} BY <1>1 DEF Members
    <2>2. Served = {} BY <1>2 DEF Served
    <2>3. IsInjective(nat_ifaces) BY <1>1 DEF IsInjective
    <2>4. QED BY <2>1, <2>2, <2>3, NatFacts
  <1>13. QED BY <1>5, <1>6, <1>7, <1>8, <1>9, <1>10, <1>11, <1>12 DEF EventsInv

\* The dispatch of the next event begins.
LEMMA DequeueInv == EventsInv /\ Dequeue => EventsInv'
  <1> SUFFICES ASSUME EventsInv, Dequeue PROVE EventsInv' OBVIOUS
  <1>1. EventsTypeOK /\ RegsMatch /\ WalkOK /\ OneObjectEach /\ DeleteSelfOK /\ DownOK BY InvParts
  <1>2. /\ thread = "ready" /\ queue # <<>> /\ thread' = "walking"
        /\ evt' = Head(queue) /\ queue' = Tail(queue) /\ served' = {}
        /\ tmp' = FirstNode(regs, PlacesFor(regs, evt'.event))
        /\ signalled' = signalled /\ link' = link
        /\ netlink' = netlink /\ reports' = reports /\ xml' = xml
        /\ regs' = regs /\ objects' = objects /\ instances' = instances /\ if_cat' = if_cat
        /\ nat_ifaces' = nat_ifaces /\ num_wlan_ap_iface' = num_wlan_ap_iface
        /\ stray' = stray /\ ~ Lost'
    BY <1>1 DEF Dequeue, posting, life, WalkOK, Lost
  <1>3. /\ queue \in Seq(Messages) /\ Len(queue) \in Nat /\ Len(queue) > 0
        /\ queue' \in Seq(Messages) /\ Len(queue') = Len(queue) - 1
        /\ \A n \in 1..Len(queue') : n + 1 \in 1..Len(queue) /\ queue'[n] = queue[n + 1]
        /\ evt' = queue[1] /\ 1 \in 1..Len(queue) /\ evt' \in Messages
    <2>1. queue \in Seq(Messages) BY <1>1, EventsTypeFacts
    <2>2. Len(queue) \in Nat /\ Len(queue) > 0 BY <1>2, <2>1
    <2>3. /\ queue' \in Seq(Messages) /\ Len(queue') = Len(queue) - 1
          /\ \A n \in 1..Len(queue') : queue'[n] = queue[n + 1]
      BY <1>2, <2>1, <2>2, HeadTailProperties
    <2>4. evt' = queue[1] BY <1>2, <2>1, <2>2, HeadTailProperties
    <2>5. QED BY <2>1, <2>2, <2>3, <2>4
  <1>4. \A n \in 1..Len(queue) : n # 1 => n - 1 \in 1..Len(queue') /\ queue'[n - 1] = queue[n]
    <2>1. TAKE n \in 1..Len(queue)
    <2>2. HAVE n # 1
    <2>3. n - 1 \in 1..Len(queue') /\ (n - 1) + 1 = n BY <1>3, <2>2
    <2>4. QED BY <1>3, <2>3
  <1>5. evt = NoEvt BY <1>1, <1>2, EventsTypeFacts
  <1>6. WalkOK' /\ tmp' \in Registration \cup {End}
    <2> DEFINE S == PlacesFor(regs, evt'.event)
    <2>1. \A n \in 1..Len(regs) : n \in S <=> regs[n].event = evt'.event BY DEF PlacesFor
    <2>2. regs \in Seq(Registration) /\ Len(regs) \in Nat BY <1>1, EventsTypeFacts
    <2>3. S \in SUBSET Nat /\ S \subseteq 1..Len(regs) BY <2>2 DEF PlacesFor
    <2>4. tmp' = FirstNode(regs, S) BY <1>2
    <2> HIDE DEF S
    <2>5. CASE S = {}
      <3>1. tmp' = End BY <2>3, <2>4, <2>5, FirstNodeFacts
      <3>2. WalkOK' BY <1>2, <2>1, <2>5, <3>1 DEF WalkOK
      <3>3. QED BY <3>1, <3>2
    <2>6. CASE S # {}
      <3>1. PICK k \in S : tmp' = regs[k] /\ \A j \in S : k <= j BY <2>3, <2>4, <2>6, FirstNodeFacts
      <3>2. k \in 1..Len(regs) /\ regs[k].event = evt'.event /\ regs[k] \in Registration
        BY <2>1, <2>2, <2>3, <3>1
      <3>3. \A n \in 1..Len(regs') : regs'[n].event = evt'.event => (regs'[n].obj \in served' <=> n < k)
        <4>1. TAKE n \in 1..Len(regs')
        <4>2. HAVE regs'[n].event = evt'.event
        <4>3. n \in 1..Len(regs) /\ n \in S BY <1>2, <2>1, <4>2
        <4>4. ~ (n < k) BY <2>2, <3>1, <3>2, <4>3
        <4>5. QED BY <1>2, <4>4
      <3>4. k \in 1..Len(regs') /\ regs'[k] = tmp' /\ tmp'.event = evt'.event BY <1>2, <3>1, <3>2
      <3>5. Reached(k)' BY <3>3, <3>4 DEF Reached
      <3>6. tmp' # End BY <3>1, <3>2, RegistrationFacts
      <3>7. WalkOK' BY <1>2, <3>4, <3>5, <3>6 DEF WalkOK
      <3>8. QED BY <3>1, <3>2, <3>7
    <2>7. QED BY <2>5, <2>6
  <1>7. EventsTypeOK'
    <2>1. evt' # NoEvt BY <1>3, MessageFacts
    <2>2. QED BY <1>1, <1>2, <1>3, <1>6, <2>1 DEF EventsTypeOK
  <1>8. DeleteSelfOK'
    <2> SUFFICES ASSUME NEW i \in Ifaces
                 PROVE  /\ \A m, n \in 1..Len(queue') : queue'[m] = DeleteSelf(i) /\ queue'[n] = DeleteSelf(i) => m = n
                        /\ InQueue(DeleteSelf(i))' =>
                             evt' # DeleteSelf(i) /\ \E o \in DOMAIN objects' : objects'[o].iface = i /\ ~ objects'[o].active
                        /\ \A o \in DOMAIN objects' : objects'[o].iface = i =>
                             /\ evt' = DeleteSelf(i) => ~ objects'[o].active /\ o \notin served'
                             /\ ~ objects'[o].active => evt' = DeleteSelf(i) \/ InQueue(DeleteSelf(i))'
      BY DEF DeleteSelfOK, DeleteSelf
    <2> DEFINE d == DeleteSelf(i)
    <2>1. /\ \A m, n \in 1..Len(queue) : queue[m] = d /\ queue[n] = d => m = n
          /\ InQueue(d) => evt # d /\ \E o \in DOMAIN objects : objects[o].iface = i /\ ~ objects[o].active
          /\ \A o \in DOMAIN objects : objects[o].iface = i =>
               /\ evt = d => ~ objects[o].active /\ o \notin served
               /\ ~ objects[o].active => evt = d \/ InQueue(d)
      BY <1>1 DEF DeleteSelfOK
    <2>2. evt # d BY <1>5 DEF NoEvt, DeleteSelf, E
    <2> HIDE DEF d
    <2>3. \A n \in 1..Len(queue') : queue'[n] = d => n + 1 \in 1..Len(queue) /\ queue[n + 1] = d BY <1>3
    <2>4. ASSUME NEW m \in 1..Len(queue'), NEW n \in 1..Len(queue'), queue'[m] = d, queue'[n] = d PROVE m = n
      <3>1. m + 1 = n + 1 BY <2>1, <2>3, <2>4
      <3>2. m \in Int /\ n \in Int BY <1>3
      <3>3. QED BY <3>1, <3>2
    <2>5. InQueue(d)' => InQueue(d) /\ evt' # d
      <3>1. HAVE InQueue(d)'
      <3>2. PICK n \in 1..Len(queue') : queue'[n] = d BY <3>1 DEF InQueue, d, DeleteSelf
      <3>3. n + 1 \in 1..Len(queue) /\ queue[n + 1] = d BY <2>3, <3>2
      <3>4. n + 1 # 1 BY <1>3, <3>2
      <3>5. queue[1] # d BY <1>3, <2>1, <3>3, <3>4
      <3>6. QED BY <1>3, <3>3, <3>5 DEF InQueue
    <2>6. InQueue(d) => InQueue(d)' \/ evt' = d
      <3>1. HAVE InQueue(d)
      <3>2. PICK n \in 1..Len(queue) : queue[n] = d BY <3>1 DEF InQueue
      <3>3. CASE n = 1 BY <1>3, <3>2, <3>3
      <3>4. CASE n # 1
        <4>1. n - 1 \in 1..Len(queue') /\ queue'[n - 1] = d BY <1>4, <3>2, <3>4
        <4>2. QED BY <4>1 DEF InQueue, d, DeleteSelf
      <3>5. QED BY <3>3, <3>4
    <2>7. evt' = d => InQueue(d) BY <1>3 DEF InQueue
    <2>8. ASSUME evt' = d, NEW o \in DOMAIN objects', objects'[o].iface = i PROVE ~ objects'[o].active /\ o \notin served'
      <3>1. PICK p \in DOMAIN objects : objects[p].iface = i /\ ~ objects[p].active BY <2>1, <2>7, <2>8
      <3>2. o = p BY <1>1, <1>2, <2>8, <3>1 DEF OneObjectEach
      <3>3. QED BY <1>2, <3>1, <3>2
    <2>9. ASSUME NEW o \in DOMAIN objects', objects'[o].iface = i, ~ objects'[o].active PROVE evt' = d \/ InQueue(d)'
      <3>1. InQueue(d) BY <1>2, <2>1, <2>2, <2>9
      <3>2. QED BY <2>6, <3>1
    <2>10. InQueue(d)' => evt' # d /\ \E o \in DOMAIN objects' : objects'[o].iface = i /\ ~ objects'[o].active
      BY <1>2, <2>1, <2>5
    <2>11. QED BY <2>4, <2>8, <2>9, <2>10 DEF d
  <1>9. DownOK'
    <2> SUFFICES ASSUME NEW i \in Ifaces, link'[i] = "down" PROVE DownPending(i)' \/ DownHandled(i)'
      BY DEF DownOK
    <2>1. DownPending(i) \/ DownHandled(i) BY <1>1, <1>2 DEF DownOK
    <2>2. CASE DownPending(i)
      <3>1. PICK n \in 1..Len(queue) :
              queue[n] = DownOf(i) /\ \A m \in 1..Len(queue) : m > n => ~ UpOf(queue[m], i)
        BY <2>2 DEF DownPending
      <3>2. CASE n = 1
        <4>1. \A m \in 1..Len(queue') : ~ UpOf(queue'[m], i)
          <5>1. TAKE m \in 1..Len(queue')
          <5>2. m + 1 \in 1..Len(queue) /\ queue'[m] = queue[m + 1] /\ m + 1 > 1 BY <1>3
          <5>3. QED BY <3>1, <3>2, <5>2
        <4>2. evt' = DownOf(i) BY <1>3, <3>1, <3>2
        <4>3. ~ UpOf(evt', i) BY <4>2 DEF UpOf, DownOf, DownEvent, UpEvents, E
        <4>4. DownHandled(i)' BY <1>2, <4>1, <4>2, <4>3 DEF DownHandled, DownOf, UpOf
        <4>5. QED BY <4>4
      <3>3. CASE n # 1
        <4>1. n - 1 \in 1..Len(queue') /\ queue'[n - 1] = DownOf(i) BY <1>4, <3>1, <3>3
        <4>2. \A m \in 1..Len(queue') : m > n - 1 => ~ UpOf(queue'[m], i)
          <5>1. TAKE m \in 1..Len(queue')
          <5>2. HAVE m > n - 1
          <5>3. m + 1 \in 1..Len(queue) /\ queue'[m] = queue[m + 1] /\ m + 1 > n BY <1>3, <5>2
          <5>4. QED BY <3>1, <5>3
        <4>3. DownPending(i)' BY <4>1, <4>2 DEF DownPending, DownOf, UpOf
        <4>4. QED BY <4>3
      <3>4. QED BY <3>2, <3>3
    <2>3. CASE DownHandled(i)
      <3>1. /\ \A m \in 1..Len(queue) : ~ UpOf(queue[m], i)
            /\ \A o \in DOMAIN objects : objects[o].iface = i /\ objects[o].active => evt = DownOf(i)
        BY <2>3 DEF DownHandled
      <3>2. \A m \in 1..Len(queue') : ~ UpOf(queue'[m], i) BY <1>3, <3>1
      <3>3. ~ UpOf(evt', i) BY <1>3, <3>1
      <3>4. evt # DownOf(i) BY <1>5 DEF NoEvt, DownOf, DownEvent, E
      <3>5. \A o \in DOMAIN objects' : ~ (objects'[o].iface = i /\ objects'[o].active) BY <1>2, <3>1, <3>4
      <3>6. DownHandled(i)' BY <3>2, <3>3, <3>5 DEF DownHandled, UpOf
      <3>7. QED BY <3>6
    <2>4. QED BY <2>1, <2>2, <2>3
  <1>10. RegsMatch' BY <1>1, <1>2, RegsSame
  <1>11. InstancesMatch' /\ OneObjectEach' BY <1>2, InvParts, InstancesKept
  <1>12. ApsCounted' BY <1>2, InvParts, ApsSame DEF Aps
  <1>13. NatIfacesMatch' BY <1>2, InvParts, NatSame DEF Served
  <1>14. QED BY <1>6, <1>7, <1>8, <1>9, <1>10, <1>11, <1>12, <1>13 DEF EventsInv

\* The thread goes to sleep or wakes.
LEMMA SleepInv == EventsInv /\ (Wait \/ Wake) => EventsInv'
  <1> SUFFICES ASSUME EventsInv, Wait \/ Wake PROVE EventsInv' OBVIOUS
  <1>1. EventsTypeOK /\ RegsMatch /\ WalkOK /\ OneObjectEach /\ DeleteSelfOK /\ DownOK BY InvParts
  <1>2. /\ queue' = queue /\ link' = link /\ evt' = evt /\ tmp' = tmp /\ served' = served
        /\ netlink' = netlink /\ reports' = reports /\ xml' = xml
        /\ regs' = regs /\ objects' = objects /\ instances' = instances /\ if_cat' = if_cat
        /\ nat_ifaces' = nat_ifaces /\ num_wlan_ap_iface' = num_wlan_ap_iface
        /\ thread \in {"ready", "waiting"} /\ thread' \in {"ready", "waiting"} /\ signalled' \in BOOLEAN
        /\ stray' = stray /\ ~ Lost /\ ~ Lost'
    BY <1>1 DEF Wait, Wake, posting, life, WalkOK, Lost
  <1>3. EventsTypeOK' BY <1>1, <1>2 DEF EventsTypeOK
  <1>4. WalkOK' BY <1>2 DEF WalkOK
  <1>5. DeleteSelfOK' BY <1>1, <1>2 DEF DeleteSelfOK, InQueue
  <1>6. DownOK' BY <1>1, <1>2 DEF DownOK, DownPending, DownHandled
  <1>7. RegsMatch' BY <1>1, <1>2, RegsSame
  <1>8. InstancesMatch' /\ OneObjectEach' BY <1>2, InvParts, InstancesKept
  <1>9. ApsCounted' BY <1>2, InvParts, ApsSame DEF Aps
  <1>10. NatIfacesMatch' BY <1>2, InvParts, NatSame DEF Served
  <1>11. QED BY <1>3, <1>4, <1>5, <1>6, <1>7, <1>8, <1>9, <1>10 DEF EventsInv

\* The dispatch ends: whoever was to go down or to be deleted has been called.
LEMMA ProcessEndInv == EventsInv /\ ProcessEnd => EventsInv'
  <1> SUFFICES ASSUME EventsInv, ProcessEnd PROVE EventsInv' OBVIOUS
  <1>1. EventsTypeOK /\ RegsMatch /\ WalkOK /\ OneObjectEach /\ DeleteSelfOK /\ DownOK BY InvParts
  <1>2. /\ thread = "walking" /\ tmp = End /\ thread' = "ready" /\ evt' = NoEvt /\ served' = {}
        /\ queue' = queue /\ link' = link /\ signalled' = signalled /\ tmp' = tmp
        /\ netlink' = netlink /\ reports' = reports /\ xml' = xml
        /\ regs' = regs /\ objects' = objects /\ instances' = instances /\ if_cat' = if_cat
        /\ nat_ifaces' = nat_ifaces /\ num_wlan_ap_iface' = num_wlan_ap_iface
        /\ stray' = stray /\ ~ Lost /\ ~ Lost'
    BY <1>1 DEF ProcessEnd, box, posting, life, WalkOK, Lost
  <1>3. EventsTypeOK' BY <1>1, <1>2 DEF EventsTypeOK
  <1>4. WalkOK' BY <1>2 DEF WalkOK
  <1>5. ASSUME NEW o \in DOMAIN objects, evt.event \in Members(ListenerEvents(objects[o].type))
        PROVE  o \in served
    <2>1. PICK n \in 1..Len(regs) : regs[n] = [obj |-> o, event |-> evt.event]
      BY <1>1, <1>5 DEF RegsMatch, Registered
    <2>2. regs[n].obj \in served BY <1>1, <1>2, <2>1 DEF WalkOK
    <2>3. QED BY <2>1, <2>2
  <1>6. ASSUME NEW o \in DOMAIN objects
        PROVE  objects[o].iface \in Ifaces /\ objects[o].type \in TypesOf(objects[o].iface)
    BY <1>1, EventsTypeFacts DEF ObjectOK
  <1>7. \A o \in DOMAIN objects : objects[o].active => ~ (evt = DownOf(objects[o].iface) /\ o \notin served)
    <2>1. TAKE o \in DOMAIN objects
    <2>2. HAVE objects[o].active
    <2>3. DownEvent(objects[o].iface) \in Members(ListenerEvents(objects[o].type))
      <3>1. objects[o].iface \in Ifaces /\ objects[o].type \in TypesOf(objects[o].iface) BY <1>6
      <3>2. CASE objects[o].iface \in Wlans
        <4>1. objects[o].type = "wlan" BY <3>1, <3>2, KindFacts
        <4>2. QED BY <3>2, <4>1, ObjectsListen DEF DownEvent
      <3>3. CASE objects[o].iface \notin Wlans
        <4>1. objects[o].type \in {"lan", "q6", "ecm"} BY <3>1, <3>3, KindFacts
        <4>2. QED BY <3>3, <4>1, ObjectsListen DEF DownEvent
      <3>4. QED BY <3>2, <3>3
    <2>4. QED BY <1>5, <2>3 DEF DownOf, E
  <1>8. \A o \in DOMAIN objects : ~ objects[o].active => ~ (evt = DeleteSelf(objects[o].iface) /\ o \notin served)
    <2>1. TAKE o \in DOMAIN objects
    <2>2. HAVE ~ objects[o].active
    <2>3. objects[o].type \in {"lan", "wlan"}
      <3>1. ObjectOK(objects[o]) BY <1>1, EventsTypeFacts
      <3>2. objects[o].type \in {"lan", "wlan", "q6", "ecm"} BY <1>6, KindFacts
      <3>3. QED BY <2>2, <3>1, <3>2 DEF ObjectOK
    <2>4. "LAN_DELETE_SELF" \in Members(ListenerEvents(objects[o].type)) BY <2>3, ObjectsListen
    <2>5. QED BY <1>5, <2>4 DEF DeleteSelf, E
  <1>9. DeleteSelfOK'
    <2> SUFFICES ASSUME NEW i \in Ifaces
                 PROVE  /\ \A m, n \in 1..Len(queue') : queue'[m] = DeleteSelf(i) /\ queue'[n] = DeleteSelf(i) => m = n
                        /\ InQueue(DeleteSelf(i))' =>
                             evt' # DeleteSelf(i) /\ \E o \in DOMAIN objects' : objects'[o].iface = i /\ ~ objects'[o].active
                        /\ \A o \in DOMAIN objects' : objects'[o].iface = i =>
                             /\ evt' = DeleteSelf(i) => ~ objects'[o].active /\ o \notin served'
                             /\ ~ objects'[o].active => evt' = DeleteSelf(i) \/ InQueue(DeleteSelf(i))'
      BY DEF DeleteSelfOK, DeleteSelf
    <2> DEFINE d == DeleteSelf(i)
    <2>1. /\ \A m, n \in 1..Len(queue) : queue[m] = d /\ queue[n] = d => m = n
          /\ InQueue(d) => evt # d /\ \E o \in DOMAIN objects : objects[o].iface = i /\ ~ objects[o].active
          /\ \A o \in DOMAIN objects : objects[o].iface = i =>
               /\ evt = d => ~ objects[o].active /\ o \notin served
               /\ ~ objects[o].active => evt = d \/ InQueue(d)
      BY <1>1 DEF DeleteSelfOK
    <2>2. InQueue(d)' <=> InQueue(d) BY <1>2 DEF InQueue
    <2>3. evt' # d BY <1>2 DEF NoEvt, DeleteSelf, E
    <2>4. \A o \in DOMAIN objects : objects[o].iface = i /\ ~ objects[o].active => evt # d
      BY <1>8, <2>1
    <2> HIDE DEF d
    <2>5. QED BY <1>2, <2>1, <2>2, <2>3, <2>4 DEF d
  <1>10. DownOK'
    <2> SUFFICES ASSUME NEW i \in Ifaces, link'[i] = "down" PROVE DownPending(i)' \/ DownHandled(i)'
      BY DEF DownOK
    <2>1. DownPending(i) \/ DownHandled(i) BY <1>1, <1>2 DEF DownOK
    <2>2. CASE DownPending(i) BY <1>2, <2>2 DEF DownPending
    <2>3. CASE DownHandled(i)
      <3>1. /\ \A m \in 1..Len(queue') : ~ UpOf(queue'[m], i)
            /\ \A o \in DOMAIN objects' : ~ (objects'[o].iface = i /\ objects'[o].active)
        BY <1>2, <1>7, <2>3 DEF DownHandled
      <3>2. ~ UpOf(evt', i) BY <1>2 DEF UpOf, NoEvt, UpEvents
      <3>3. DownHandled(i)' BY <3>1, <3>2 DEF DownHandled, UpOf
      <3>4. QED BY <3>3
    <2>4. QED BY <2>1, <2>2, <2>3
  <1>11. RegsMatch' BY <1>1, <1>2, RegsSame
  <1>12. InstancesMatch' /\ OneObjectEach' BY <1>2, InvParts, InstancesKept
  <1>13. ApsCounted' BY <1>2, InvParts, ApsSame DEF Aps
  <1>14. NatIfacesMatch' BY <1>2, InvParts, NatSame DEF Served
  <1>15. QED BY <1>3, <1>4, <1>9, <1>10, <1>11, <1>12, <1>13, <1>14 DEF EventsInv

\* The threads that report: what they post is no event to delete an object.
LEMMA LinkMessageFacts ==
  /\ LinkMessages \subseteq Messages
  /\ \A e \in LinkMessages : e.event # "LAN_DELETE_SELF"
  /\ \A i \in Ifaces : \A e \in {"LINK_UP", "LINK_DOWN", "USB_LINK_UP"} : E(e, i) \in LinkMessages
  <1>1. LinkMessages \subseteq Messages BY DEF LinkMessages, Messages
  <1>2. \A e \in LinkMessages : e.event # "LAN_DELETE_SELF" BY DEF LinkMessages, E
  <1>3. \A i \in Ifaces : \A e \in {"LINK_UP", "LINK_DOWN", "USB_LINK_UP"} : E(e, i) \in LinkMessages
    BY DEF LinkMessages
  <1>4. QED BY <1>1, <1>2, <1>3

LEMMA ReportFacts ==
  ASSUME EventsTypeOK, Report
  PROVE  reports' \in 0..MaxReports
  BY EventsTypeFacts, EventsAssumption DEF Report

LEMMA NetlinkPostInv == EventsInv /\ NetlinkPost => EventsInv'
  <1> SUFFICES ASSUME EventsInv, NetlinkPost PROVE EventsInv' OBVIOUS
  <1>1. EventsTypeOK BY InvParts
  <1>2. /\ netlink # <<>> /\ PostEvt(Head(netlink)) /\ netlink' = Tail(netlink)
        /\ reports' = reports /\ xml' = xml /\ UNCHANGED processing /\ UNCHANGED life
    BY DEF NetlinkPost
  <1>3. netlink \in Seq(LinkMessages) BY <1>1, EventsTypeFacts
  <1>4. Head(netlink) \in LinkMessages /\ Tail(netlink) \in Seq(LinkMessages) BY <1>2, <1>3
  <1>5. Posts(NotDeletes(Messages)) BY <1>2, <1>4, LinkMessageFacts DEF Posts, NotDeletes
  <1>6. reports' \in 0..MaxReports /\ DOMAIN xml' = Ifaces /\ \A i \in Ifaces : xml'[i] \in CatsOf(i)
    BY <1>1, <1>2, EventsTypeFacts
  <1>7. QED BY <1>2, <1>4, <1>5, <1>6, OutsideStep

LEMMA ReadsInv ==
  ASSUME NEW i \in Ifaces, EventsInv, DelLink(i) \/ \E flag \in Flags, carrier \in Carriers : NewLink(i, flag, carrier)
  PROVE  EventsInv'
  <1>1. EventsTypeOK BY InvParts
  <1>2. /\ UNCHANGED box /\ xml' = xml /\ UNCHANGED processing /\ UNCHANGED life /\ Report
        /\ \/ netlink' = <<E("LINK_DOWN", i)>>
           \/ \E flag \in Flags, carrier \in Carriers :
                netlink' = FlagEvents(i, flag) \o CarrierEvents(i, carrier)
    BY DEF DelLink, NewLink
  <1>3. \A e \in {"LINK_UP", "LINK_DOWN", "USB_LINK_UP"} : E(e, i) \in LinkMessages BY LinkMessageFacts
  <1>4. netlink' \in Seq(LinkMessages)
    <2>1. CASE netlink' = <<E("LINK_DOWN", i)>> BY <1>3, <2>1
    <2>2. ASSUME NEW flag \in Flags, NEW carrier \in Carriers,
                 netlink' = FlagEvents(i, flag) \o CarrierEvents(i, carrier)
          PROVE  netlink' \in Seq(LinkMessages)
      <3>1. CarrierEvents(i, carrier) \in Seq(LinkMessages)
        <4>1. <<E("USB_LINK_UP", i)>> \in Seq(LinkMessages) /\ <<E("LINK_DOWN", i)>> \in Seq(LinkMessages) BY <1>3
        <4>2. <<>> \in Seq(LinkMessages) BY EmptySeq
        <4>3. QED BY <4>1, <4>2 DEF CarrierEvents, Carriers
      <3>2. FlagEvents(i, flag) \in Seq(LinkMessages)
        <4>1. <<E("LINK_UP", i)>> \in Seq(LinkMessages) /\ <<E("LINK_DOWN", i)>> \in Seq(LinkMessages) BY <1>3
        <4>2. <<>> \in Seq(LinkMessages) BY EmptySeq
        <4>3. QED BY <4>1, <4>2 DEF FlagEvents, Flags
      <3>3. QED BY <2>2, <3>1, <3>2, ConcatProperties
    <2>3. QED BY <1>2, <2>1, <2>2
  <1>5. Posts(NotDeletes(Messages)) BY <1>2 DEF Posts
  <1>6. reports' \in 0..MaxReports BY <1>1, <1>2, ReportFacts
  <1>7. DOMAIN xml' = Ifaces /\ \A j \in Ifaces : xml'[j] \in CatsOf(j) BY <1>1, <1>2, EventsTypeFacts
  <1>8. QED BY <1>2, <1>4, <1>5, <1>6, <1>7, OutsideStep

LEMMA DriverInv ==
  ASSUME EventsInv, ConfigFile \/ (\E i \in Wlans : DriverWlan(i)) \/ (\E i \in Usb : DriverUsb(i))
  PROVE  EventsInv'
  <1>1. EventsTypeOK BY InvParts
  <1>2. netlink' = netlink /\ UNCHANGED processing /\ UNCHANGED life /\ Report
    BY DEF ConfigFile, DriverWlan, DriverUsb
  <1>3. Posts(NotDeletes(Messages))
    <2>1. E("CFG_CHANGE", Hole) \in NotDeletes(Messages) BY MessagesMade DEF NotDeletes, E
    <2>2. \A i \in Wlans : /\ E("WLAN_AP_LINK_UP", i) \in NotDeletes(Messages)
                           /\ E("WLAN_LINK_DOWN", i) \in NotDeletes(Messages)
      BY MessagesMade DEF NotDeletes, E
    <2>3. \A i \in Usb : /\ E("USB_LINK_UP", i) \in NotDeletes(Messages)
                         /\ E("LINK_DOWN", i) \in NotDeletes(Messages)
      BY MessagesMade DEF NotDeletes, E, Ifaces
    <2>4. CASE ConfigFile BY <2>1, <2>4 DEF ConfigFile, Posts
    <2>5. CASE \E i \in Wlans : DriverWlan(i) BY <2>2, <2>5 DEF DriverWlan, Posts
    <2>6. CASE \E i \in Usb : DriverUsb(i) BY <2>3, <2>6 DEF DriverUsb, Posts
    <2>7. QED BY <2>4, <2>5, <2>6
  <1>4. DOMAIN xml' = Ifaces /\ \A j \in Ifaces : xml'[j] \in CatsOf(j)
    <2>1. CASE xml' = xml BY <1>1, <2>1, EventsTypeFacts
    <2>2. CASE ConfigFile
      <3>1. PICK cat \in {"LAN", "WAN"} : xml' = [i \in Ifaces |-> IF i \in Usb THEN cat ELSE Shipped[i]]
        BY <2>2 DEF ConfigFile
      <3>2. \A j \in Ifaces : Shipped[j] \in CatsOf(j) BY KindFacts
      <3>3. QED BY <3>1, <3>2 DEF CatsOf
    <2>3. QED BY <2>1, <2>2 DEF DriverWlan, DriverUsb
  <1>5. reports' \in 0..MaxReports BY <1>1, <1>2, ReportFacts
  <1>6. netlink' \in Seq(LinkMessages) BY <1>1, <1>2, EventsTypeFacts
  <1>7. QED BY <1>2, <1>3, <1>4, <1>5, <1>6, OutsideStep

\* The callbacks of the manager.
LEMMA ManagerCfgChangeInv == EventsInv /\ ManagerCfgChange => EventsInv'
  <1> SUFFICES ASSUME EventsInv, ManagerCfgChange PROVE EventsInv' OBVIOUS
  <1>1. EventsTypeOK BY InvParts
  <1>2. /\ Calling /\ tmp.obj = Manager /\ if_cat' = xml
        /\ nat_ifaces' = [n \in 1..Len(nat_ifaces) |-> Hole] /\ Walk(<<>>)
        /\ UNCHANGED box /\ UNCHANGED posting /\ thread' = thread /\ evt' = evt
        /\ UNCHANGED <<objects, instances, num_wlan_ap_iface>>
    BY DEF ManagerCfgChange, Callback, Calling
  <1>3. objects' = objects BY <1>2
  <1>4. NatIfacesMatch' /\ nat_ifaces' \in Seq(Ifaces \cup {Hole})
    <2>1. Served' = Served BY <1>3 DEF Served
    <2>2. QED BY <1>1, <1>2, <2>1, InvParts, NatRead
  <1>5. DOMAIN if_cat' = Ifaces /\ \A i \in Ifaces : if_cat'[i] \in CatsOf(i) BY <1>1, <1>2, EventsTypeFacts
  <1>6. QED BY <1>2, <1>4, <1>5, QuietStep

LEMMA ManagerUpInv == EventsInv /\ (ManagerLinkUp \/ ManagerUsbLinkUp \/ ManagerApLinkUp) => EventsInv'
  <1> SUFFICES ASSUME EventsInv, ManagerLinkUp \/ ManagerUsbLinkUp \/ ManagerApLinkUp PROVE EventsInv' OBVIOUS
  <1>1. EventsTypeOK BY InvParts
  <1>2. /\ Calling /\ evt.event \in {"LINK_UP", "WLAN_AP_LINK_UP", "USB_LINK_UP"}
        /\ thread' = thread /\ evt' = evt /\ UNCHANGED posting
    BY DEF ManagerLinkUp, ManagerUsbLinkUp, ManagerApLinkUp, Callback, Calling
  <1>3. PICK i : i = evt.iface OBVIOUS
  <1>4. evt \in Messages /\ DOMAIN if_cat = Ifaces /\ \A j \in Ifaces : if_cat[j] \in CatsOf(j)
    BY <1>1, <1>2, EventsTypeFacts DEF Calling
  <1>5. i \in Ifaces /\ (evt.event = "WLAN_AP_LINK_UP" => i \in Wlans) BY <1>2, <1>3, <1>4, MessageFacts
  <1>6. CASE ManagerLinkUp
    <2> DEFINE cat == IF if_cat[i] = "WAN" THEN "WAN" ELSE "UNKNOWN"
    <2>1. evt.event = "LINK_UP" /\ Create(i, cat, "q6") /\ if_cat' = if_cat
      BY <1>3, <1>6 DEF ManagerLinkUp, Callback
    <2>2. cat \in CatsOf(i) \cup {"UNKNOWN"} BY <1>4, <1>5
    <2>3. cat # "UNKNOWN" => UpOf(evt, i)
      <3>1. HAVE cat # "UNKNOWN"
      <3>2. i \notin Wlans BY <1>4, <1>5, <3>1, KindFacts
      <3>3. QED BY <1>3, <2>1, <3>2 DEF UpOf, UpEvents
    <2> HIDE DEF cat
    <2>4. QED BY <1>2, <1>4, <1>5, <2>1, <2>2, <2>3, CreateStep
  <1>7. CASE ManagerUsbLinkUp
    <2>1. PICK cat : cat = if_cat[i] OBVIOUS
    <2>2. evt.event = "USB_LINK_UP" /\ Create(i, cat, "ecm") /\ if_cat' = if_cat
      BY <1>3, <1>7, <2>1 DEF ManagerUsbLinkUp, Callback
    <2>3. cat \in CatsOf(i) \cup {"UNKNOWN"} BY <1>4, <1>5, <2>1
    <2>4. UpOf(evt, i) BY <1>3, <2>2 DEF UpOf, UpEvents
    <2>5. QED BY <1>2, <1>4, <1>5, <2>2, <2>3, <2>4, CreateStep
  <1>8. CASE ManagerApLinkUp
    <2>1. evt.event = "WLAN_AP_LINK_UP" /\ i \in Wlans BY <1>5, <1>8 DEF ManagerApLinkUp, Callback
    <2>2. UpOf(evt, i) BY <1>3, <2>1 DEF UpOf, UpEvents
    <2>3. CatsOf(i) = {"UNKNOWN", "WLAN"} BY <1>5, <2>1, KindFacts
    <2>4. CASE if_cat[i] = "UNKNOWN"
      <3>1. if_cat' = [if_cat EXCEPT ![i] = "WLAN"] /\ Create(i, "WLAN", "q6")
        BY <1>3, <1>8, <2>4 DEF ManagerApLinkUp
      <3>2. DOMAIN if_cat' = Ifaces /\ \A j \in Ifaces : if_cat'[j] \in CatsOf(j) BY <1>4, <2>3, <3>1
      <3>3. QED BY <1>2, <1>5, <2>2, <2>3, <3>1, <3>2, CreateStep
    <2>5. CASE if_cat[i] # "UNKNOWN"
      <3>1. if_cat' = if_cat /\ Create(i, "UNKNOWN", "q6") BY <1>3, <1>8, <2>5 DEF ManagerApLinkUp
      <3>2. QED BY <1>2, <1>4, <1>5, <3>1, CreateStep
    <2>6. QED BY <2>4, <2>5
  <1>9. QED BY <1>6, <1>7, <1>8

\* The callbacks of the objects.
LEMMA DownInv == EventsInv /\ (LanDown \/ LanCfgChange \/ WlanDown) => EventsInv'
  <1> SUFFICES ASSUME EventsInv, LanDown \/ LanCfgChange \/ WlanDown PROVE EventsInv' OBVIOUS
  <1>1. EventsTypeOK /\ RegsMatch /\ WalkOK BY InvParts
  <1>2. /\ Calling /\ Self.active
        /\ thread' = thread /\ evt' = evt /\ UNCHANGED posting /\ UNCHANGED <<instances, num_wlan_ap_iface>>
    BY DEF LanDown, LanCfgChange, WlanDown, Callback, Calling
  <1>3. tmp.obj # Manager
    <2>1. CASE LanCfgChange BY <2>1 DEF LanCfgChange
    <2>2. CASE LanDown \/ WlanDown
      <3>1. evt.event \in {"LINK_DOWN", "WLAN_LINK_DOWN"} BY <2>2 DEF LanDown, WlanDown, Callback
      <3>2. evt.event \notin Members(ManagerEvents) BY <3>1, ManagerListens
      <3>3. QED BY <1>1, <1>2, <3>2, CalledFacts
    <2>3. QED BY <2>1, <2>2
  <1>4. PICK i : i = Self.iface OBVIOUS
  <1>5. /\ i \in Ifaces /\ Self.type \in TypesOf(i) /\ evt.event \in Members(ListenerEvents(Self.type))
    BY <1>2, <1>3, <1>4, SelfFacts
  <1>6. DOMAIN if_cat = Ifaces /\ \A j \in Ifaces : if_cat[j] \in CatsOf(j) BY <1>1, EventsTypeFacts
  <1>7. CASE LanDown \/ LanCfgChange
    <2>1. Self.type \in {"lan", "wlan"} /\ if_cat' = if_cat /\ (Deactivate(FALSE) \/ Deactivate(TRUE))
      BY <1>7 DEF LanDown, LanCfgChange
    <2>2. QED BY <1>2, <1>3, <1>6, <2>1, DeactivateStep
  <1>8. CASE WlanDown
    <2>1. evt.event = "WLAN_LINK_DOWN" /\ Deactivate(FALSE) /\ if_cat' = [if_cat EXCEPT ![i] = "UNKNOWN"]
      BY <1>4, <1>8 DEF WlanDown, Callback
    <2>2. Self.type = "wlan"
      <3>1. Self.type \in {"lan", "wlan", "q6", "ecm"} BY <1>5, KindFacts
      <3>2. QED BY <1>5, <2>1, <3>1, ObjectsListen
    <2>3. CatsOf(i) = {"UNKNOWN", "WLAN"} BY <1>5, <2>2, KindFacts
    <2>4. DOMAIN if_cat' = Ifaces /\ \A j \in Ifaces : if_cat'[j] \in CatsOf(j) BY <1>6, <2>1, <2>3
    <2>5. QED BY <1>2, <1>3, <2>1, <2>2, <2>4, DeactivateStep
  <1>9. QED BY <1>7, <1>8

LEMMA DeleteSelfInv == EventsInv /\ (LanDeleteSelf \/ WlanDeleteSelf) => EventsInv'
  <1> SUFFICES ASSUME EventsInv, LanDeleteSelf \/ WlanDeleteSelf PROVE EventsInv' OBVIOUS
  <1>1. EventsTypeOK /\ RegsMatch /\ WalkOK /\ OneObjectEach /\ DeleteSelfOK BY InvParts
  <1>2. /\ Calling /\ evt.event = "LAN_DELETE_SELF" /\ Self.iface = evt.iface /\ Deregistr(tmp.obj)
        /\ thread' = thread /\ evt' = evt /\ UNCHANGED posting /\ UNCHANGED if_cat /\ nat_ifaces' = nat_ifaces
    BY DEF LanDeleteSelf, WlanDeleteSelf, Callback, Calling
  <1>3. tmp.obj # Manager
    <2>1. evt.event \notin Members(ManagerEvents) BY <1>2, ManagerListens
    <2>2. QED BY <1>1, <1>2, <2>1, CalledFacts
  <1>4. PICK i : i = Self.iface OBVIOUS
  <1>5. PICK t : t = tmp.obj OBVIOUS
  <1>6. /\ i \in Ifaces /\ t \in DOMAIN objects /\ objects[t] = Self /\ evt \in Messages
    BY <1>2, <1>3, <1>4, <1>5, SelfFacts
  <1>7. evt = DeleteSelf(i) BY <1>2, <1>4, <1>6, MessageFacts DEF DeleteSelf
  <1>8. ~ objects[t].active BY <1>1, <1>4, <1>6, <1>7 DEF DeleteSelfOK
  <1>9. DOMAIN objects' = DOMAIN objects \ {t} /\ \A o \in DOMAIN objects' : objects'[o] = objects[o]
    BY <1>2, <1>5 DEF Deregistr, WithoutObject
  <1>10. Posts(NotDeletes(Messages))
    <2>1. E("USB_LINK_UP", i) \in NotDeletes(Messages) BY <1>6, MessagesMade DEF NotDeletes, E
    <2>2. QED BY <1>4, <2>1 DEF LanDeleteSelf, WlanDeleteSelf, Posts
  <1>11. NatIfacesMatch' /\ nat_ifaces' \in Seq(Ifaces \cup {Hole})
    <2>1. \A o \in DOMAIN objects : objects[o].active => o \in DOMAIN objects' /\ objects'[o] = objects[o]
      BY <1>8, <1>9
    <2>2. \A o \in DOMAIN objects' : o \in DOMAIN objects /\ objects'[o] = objects[o] BY <1>9
    <2>3. Served' = Served BY <2>1, <2>2 DEF Served
    <2>4. NatIfacesMatch' BY <1>2, <2>3, InvParts, NatSame
    <2>5. QED BY <1>1, <1>2, <2>4, EventsTypeFacts
  <1>12. ApsCounted' /\ num_wlan_ap_iface' \in Nat
    <2>1. CASE LanDeleteSelf
      <3>1. Self.type = "lan" /\ num_wlan_ap_iface' = num_wlan_ap_iface BY <2>1 DEF LanDeleteSelf
      <3>2. Aps' = Aps BY <1>6, <1>9, <3>1 DEF Aps
      <3>3. QED BY <1>1, <3>1, <3>2, InvParts, ApsSame, EventsTypeFacts
    <2>2. CASE WlanDeleteSelf
      <3>1. Self.type = "wlan" /\ num_wlan_ap_iface' = num_wlan_ap_iface - 1 BY <2>2 DEF WlanDeleteSelf
      <3>2. t \in Aps /\ Aps' = Aps \ {t} BY <1>6, <1>9, <3>1 DEF Aps
      <3>3. QED BY <1>1, <3>1, <3>2, InvParts, ApsFewer
    <2>3. QED BY <2>1, <2>2
  <1>13. DeletesItself(evt.event, Self.type)
    BY <1>2 DEF DeletesItself, LanDeleteSelf, WlanDeleteSelf
  <1>14. QED BY <1>2, <1>3, <1>4, <1>7, <1>10, <1>11, <1>12, <1>13, DeleteStep

LEMMA WanInv == EventsInv /\ (WanDown \/ WanCfgChange) => EventsInv'
  <1> SUFFICES ASSUME EventsInv, WanDown \/ WanCfgChange PROVE EventsInv' OBVIOUS
  <1>1. EventsTypeOK /\ RegsMatch /\ WalkOK /\ OneObjectEach BY InvParts
  <1>2. /\ Calling /\ Self.type \in {"q6", "ecm"} /\ Deregistr(tmp.obj)
        /\ nat_ifaces' = DelNatIfaces(nat_ifaces, Self.iface) /\ num_wlan_ap_iface' = num_wlan_ap_iface
        /\ thread' = thread /\ evt' = evt /\ UNCHANGED posting /\ UNCHANGED if_cat
    BY DEF WanDown, WanCfgChange, Callback, Calling
  <1>3. tmp.obj # Manager
    <2>1. CASE WanCfgChange BY <2>1 DEF WanCfgChange
    <2>2. CASE WanDown
      <3>1. evt.event = "LINK_DOWN" BY <2>2 DEF WanDown, Callback
      <3>2. evt.event \notin Members(ManagerEvents) BY <3>1, ManagerListens
      <3>3. QED BY <1>1, <1>2, <3>2, CalledFacts
    <2>3. QED BY <2>1, <2>2
  <1>4. PICK i : i = Self.iface OBVIOUS
  <1>5. PICK t : t = tmp.obj OBVIOUS
  <1>6. /\ i \in Ifaces /\ t \in DOMAIN objects /\ objects[t] = Self /\ Self.active
    BY <1>2, <1>3, <1>4, <1>5, SelfFacts DEF ObjectOK
  <1>7. DOMAIN objects' = DOMAIN objects \ {t} /\ \A o \in DOMAIN objects' : objects'[o] = objects[o]
    BY <1>2, <1>5 DEF Deregistr, WithoutObject
  <1>8. Posts(NotDeletes(Messages))
    <2>1. E("USB_LINK_UP", i) \in NotDeletes(Messages) BY <1>6, MessagesMade DEF NotDeletes, E
    <2>2. QED BY <1>4, <2>1 DEF WanDown, WanCfgChange, Posts
  <1>9. NatIfacesMatch' /\ nat_ifaces' \in Seq(Ifaces \cup {Hole})
    <2>1. \A o \in DOMAIN objects : objects[o].iface = i => o = t BY <1>1, <1>4, <1>6 DEF OneObjectEach
    <2>2. Served' = Served \ {i}
      <3>1. \A o \in DOMAIN objects' : o # t /\ o \in DOMAIN objects /\ objects'[o] = objects[o] BY <1>7
      <3>2. \A o \in DOMAIN objects : objects[o].iface # i => o # t /\ o \in DOMAIN objects' BY <1>4, <1>6, <1>7
      <3>3. QED BY <2>1, <3>1, <3>2 DEF Served
    <2>3. nat_ifaces' = DelNatIfaces(nat_ifaces, i) BY <1>2, <1>4
    <2>4. QED BY <1>1, <1>6, <2>2, <2>3, InvParts, NatDeleted
  <1>10. ApsCounted' /\ num_wlan_ap_iface' \in Nat
    <2>1. Aps' = Aps BY <1>2, <1>6, <1>7 DEF Aps
    <2>2. QED BY <1>1, <1>2, <2>1, InvParts, ApsSame, EventsTypeFacts
  <1>11. DeletesItself(evt.event, Self.type) BY DEF DeletesItself, WanDown, WanCfgChange, Callback
  <1>12. QED BY <1>2, <1>3, <1>6, <1>8, <1>9, <1>10, <1>11, DeleteStep

LEMMA IgnoredInv == EventsInv /\ Ignored => EventsInv'
  <1> SUFFICES ASSUME EventsInv, Ignored PROVE EventsInv' OBVIOUS
  <1>1. EventsTypeOK BY InvParts
  <1>2. /\ Calling /\ tmp.obj # Manager /\ Walk(<<>>) /\ UNCHANGED box /\ UNCHANGED posting
        /\ thread' = thread /\ evt' = evt /\ UNCHANGED <<objects, instances, num_wlan_ap_iface>>
        /\ objects' = objects /\ if_cat' = if_cat /\ nat_ifaces' = nat_ifaces
    BY DEF Ignored, Calling
  <1>3. PICK i : i = Self.iface OBVIOUS
  <1>4. i \in Ifaces /\ Self.type \in TypesOf(i) /\ evt.event \in Members(ListenerEvents(Self.type))
    BY <1>2, <1>3, SelfFacts
  <1>5. evt # DeleteSelf(i)
    <2>1. ASSUME evt = DeleteSelf(i) PROVE FALSE
      <3>1. evt.event = "LAN_DELETE_SELF" /\ evt.iface = i BY <2>1 DEF DeleteSelf, E
      <3>2. QED BY <1>3, <3>1 DEF Ignored
    <2>2. QED BY <2>1
  <1>6. ~ (Self.active /\ evt = DownOf(i))
    <2>1. ASSUME Self.active, evt = DownOf(i) PROVE FALSE
      <3>1. evt.event = DownEvent(i) /\ evt.iface = i BY <2>1 DEF DownOf, E
      <3>2. CASE i \in Wlans
        <4>1. evt.event = "WLAN_LINK_DOWN" BY <3>1, <3>2 DEF DownEvent
        <4>2. QED BY <1>3, <2>1, <3>1, <4>1 DEF Ignored
      <3>3. CASE i \notin Wlans
        <4>1. evt.event = "LINK_DOWN" BY <3>1, <3>3 DEF DownEvent
        <4>2. Self.type = "lan" \/ Self.type \in {"q6", "ecm"} BY <1>4, <3>3, KindFacts
        <4>3. QED BY <1>3, <2>1, <3>1, <4>1, <4>2 DEF Ignored
      <3>4. QED BY <3>2, <3>3
    <2>2. QED BY <2>1
  <1>7. NatIfacesMatch' /\ nat_ifaces' \in Seq(Ifaces \cup {Hole})
    <2>1. NatIfacesMatch' BY <1>2, InvParts, NatSame DEF Served
    <2>2. QED BY <1>1, <1>2, <2>1, EventsTypeFacts
  <1>8. DOMAIN if_cat' = Ifaces /\ \A j \in Ifaces : if_cat'[j] \in CatsOf(j) BY <1>1, <1>2, EventsTypeFacts
  <1>9. QED BY <1>2, <1>3, <1>5, <1>6, <1>7, <1>8, QuietStep

\* Nothing happens.
LEMMA StutterInv == EventsInv /\ UNCHANGED eventsVars => EventsInv'
  <1> SUFFICES ASSUME EventsInv, UNCHANGED eventsVars PROVE EventsInv' OBVIOUS
  <1>1. EventsTypeOK BY InvParts
  <1>2. /\ UNCHANGED box /\ UNCHANGED posting /\ UNCHANGED processing /\ UNCHANGED life
        /\ netlink' = netlink /\ xml' = xml /\ reports' = reports
    BY DEF eventsVars, posting
  <1>3. Posts(NotDeletes(Messages)) BY <1>2 DEF Posts
  <1>4. /\ netlink' \in Seq(LinkMessages) /\ DOMAIN xml' = Ifaces /\ (\A i \in Ifaces : xml'[i] \in CatsOf(i))
        /\ reports' \in 0..MaxReports
    BY <1>1, <1>2, EventsTypeFacts
  <1>5. QED BY <1>2, <1>3, <1>4, OutsideStep

-----------------------------------------------------------------------------
(* The theorems.                                                           *)

LEMMA EventsStep == EventsInv /\ [EventsNext]_eventsVars => EventsInv'
  <1> SUFFICES ASSUME EventsInv, [EventsNext]_eventsVars PROVE EventsInv' OBVIOUS
  <1>1. CASE Callbacks
    BY <1>1, ManagerCfgChangeInv, ManagerUpInv, DownInv, DeleteSelfInv, WanInv, IgnoredInv DEF Callbacks
  <1>2. CASE Process BY <1>1, <1>2, DequeueInv, SleepInv, ProcessEndInv DEF Process
  <1>3. CASE NetlinkPost BY <1>3, NetlinkPostInv
  <1>4. CASE ConfigFile \/ (\E i \in Wlans : DriverWlan(i)) \/ (\E i \in Usb : DriverUsb(i)) BY <1>4, DriverInv
  <1>5. ASSUME NEW i \in Ifaces, DelLink(i) \/ \E flag \in Flags, carrier \in Carriers : NewLink(i, flag, carrier)
        PROVE  EventsInv'
    BY <1>5, ReadsInv
  <1>6. CASE UNCHANGED eventsVars BY <1>6, StutterInv
  <1>7. QED BY <1>2, <1>3, <1>4, <1>5, <1>6 DEF EventsNext

\* The invariant that both properties of the life of the listeners follow from: every live
\* object is registered for its events and nobody else is; the walk of ProcessEvt() has
\* called exactly the listeners before the place it has come to, unless it was lost in the
\* freed registrations of an access point that deleted itself or of an upstream on USB that
\* a new configuration deleted; and an object that is inactive, or whose interface is down,
\* has its event on the way.
THEOREM EventsInductive == EventsSpec => []EventsInv
  <1>1. EventsInit => EventsInv BY InvInit
  <1>2. EventsInv /\ [EventsNext]_eventsVars => EventsInv' BY EventsStep
  <1>3. QED BY <1>1, <1>2, PTL DEF EventsSpec

LEMMA DeleteSelfCounted ==
  ASSUME EventsInv
  PROVE  DeleteSelfOnce
  <1> SUFFICES ASSUME NEW o \in DOMAIN objects
               PROVE  Cardinality({n \in 1..Len(queue) : queue[n] = DeleteSelf(objects[o].iface)})
                        + (IF evt = DeleteSelf(objects[o].iface) THEN 1 ELSE 0)
                      = IF objects[o].active THEN 0 ELSE 1
    BY DEF DeleteSelfOnce, DeleteSelf
  <1> DEFINE i == objects[o].iface
             d == DeleteSelf(i)
             S == {n \in 1..Len(queue) : queue[n] = d}
  <1>1. EventsTypeOK /\ OneObjectEach /\ DeleteSelfOK BY InvParts
  <1>2. i \in Ifaces BY <1>1, EventsTypeFacts DEF ObjectOK
  <1>3. /\ \A m, n \in 1..Len(queue) : queue[m] = d /\ queue[n] = d => m = n
        /\ InQueue(d) => evt # d /\ \E p \in DOMAIN objects : objects[p].iface = i /\ ~ objects[p].active
        /\ evt = d => ~ objects[o].active
        /\ ~ objects[o].active => evt = d \/ InQueue(d)
    BY <1>1, <1>2 DEF DeleteSelfOK
  <1>4. InQueue(d) => ~ objects[o].active BY <1>1, <1>3 DEF OneObjectEach
  <1> HIDE DEF d
  <1>5. CASE InQueue(d)
    <2>1. PICK n \in 1..Len(queue) : queue[n] = d BY <1>5 DEF InQueue
    <2>2. S = {n} BY <1>3, <2>1
    <2>3. Cardinality(S) = 1 BY <2>2, FS_Singleton
    <2>4. QED BY <1>3, <1>4, <1>5, <2>3 DEF d
  <1>6. CASE ~ InQueue(d)
    <2>1. S = {} BY <1>6 DEF InQueue
    <2>2. Cardinality(S) = 0 BY <2>1, FS_EmptySet
    <2>3. QED BY <1>3, <1>6, <2>2 DEF d
  <1>7. QED BY <1>5, <1>6

LEMMA AgreeFollows ==
  ASSUME EventsInv
  PROVE  ListenersAgree /\ CountsAgree
  <1>1. EventsTypeOK /\ RegsMatch /\ WalkOK /\ InstancesMatch /\ OneObjectEach
        /\ DeleteSelfOK /\ DownOK /\ ApsCounted /\ NatIfacesMatch
    BY InvParts
  <1>2. RegisteredAlive
    <2>1. \A n \in 1..Len(regs) : regs[n].obj \in DOMAIN objects \cup {Manager} BY <1>1 DEF RegsMatch
    <2>2. tmp # End /\ stray = "none" => tmp \in Members(regs)
      <3>1. tmp # End => thread = "walking" BY <1>1, EventsTypeFacts
      <3>2. QED BY <1>1, <3>1 DEF WalkOK, Reached, Members, Lost
    <2>3. QED BY <1>1, <2>1, <2>2 DEF RegisteredAlive, InstancesMatch
  <1>3. EveryListenerCalled /\ LostOnlyBy BY <1>1 DEF EveryListenerCalled, LostOnlyBy, WalkOK, Lost
  <1>4. DeleteSelfOnce BY DeleteSelfCounted
  <1>5. NothingServesDown
    <2> SUFFICES ASSUME Idle, NEW o \in DOMAIN objects, objects[o].active PROVE link[objects[o].iface] = "up"
      BY DEF NothingServesDown
    <2>1. thread = "waiting" /\ queue = <<>> BY DEF Idle
    <2>2. evt = NoEvt BY <1>1, <2>1, EventsTypeFacts
    <2>3. objects[o].iface \in Ifaces /\ link[objects[o].iface] \in {"up", "down"}
      BY <1>1, EventsTypeFacts DEF ObjectOK
    <2>4. ~ DownPending(objects[o].iface) BY <2>1 DEF DownPending
    <2>5. ~ DownHandled(objects[o].iface) BY <2>2 DEF DownHandled, NoEvt, DownOf, DownEvent, E
    <2>6. QED BY <1>1, <2>3, <2>4, <2>5 DEF DownOK
  <1>6. QED BY <1>1, <1>2, <1>3, <1>4, <1>5 DEF ListenersAgree, CountsAgree

\* ProcessEvt(), which goes on with a copy of the next node while callbacks free the nodes of
\* objects that delete themselves, is led into freed memory only by an access point's
\* IPA_LAN_DELETE_SELF and a USB upstream's IPA_CFG_CHANGE_EVENT; where it is not lost there,
\* it calls every listener of the event that is still registered and none that is gone.  An
\* interface has one object at most, which exactly one IPA_LAN_DELETE_SELF deletes; and when
\* all is handled no active object serves an interface that was last said to be down.
THEOREM ListenersAgreeHolds == EventsSpec => []ListenersAgree
  <1>1. EventsInv => ListenersAgree BY AgreeFollows
  <1>2. QED BY <1>1, EventsInductive, PTL

\* num_wlan_ap_iface counts the access points, and pNatIfaces holds exactly the interfaces
\* with an active object as long as the configuration was not read again.
THEOREM CountsAgreeHolds == EventsSpec => []CountsAgree
  <1>1. EventsInv => CountsAgree BY AgreeFollows
  <1>2. QED BY <1>1, EventsInductive, PTL
=============================================================================
