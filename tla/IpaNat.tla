------------------------------- MODULE IpaNat -------------------------------
(***************************************************************************)
(* The IPv4 NAT table that ipanat (ipa_nat_drvi.c) keeps in memory shared  *)
(* with the IPA hardware.                                                  *)
(*                                                                         *)
(* A rule lies in the rule table, in the list of the hash of its target    *)
(* (for downlink packets), and an entry of the index table that points to  *)
(* it lies in the list of the hash of its source (for uplink packets).     *)
(* Each table is a base table, where the lists begin, and an expansion     *)
(* table for collisions.  Entry i of an expansion table has the index      *)
(* table_entries + i, as in the code; entry 0 of each is unused.           *)
(*                                                                         *)
(* The driver runs in one thread, but the hardware looks rules up at any   *)
(* time: there is one step for each write it could see.  A lookup is       *)
(* atomic.  A DMA command, a system call or the malloc() in ReorderCmds()  *)
(* may fail, at most MaxFails times.                                       *)
(***************************************************************************)
EXTENDS Integers, Sequences

CONSTANTS
  Rules,                \* the client's rules
  DstHash, SrcHash,     \* dst_hash() and src_hash() of each
  table_entries,        \* size of the base tables, a power of two
  expn_table_entries,   \* size of the expansion tables
  NoRule,               \* what an entry that is zero holds
  MaxFails              \* bound on failing calls

Base    == 1..(table_entries - 1)
Expn    == (table_entries + 1)..(table_entries + expn_table_entries - 1)
Entries == 0..(table_entries + expn_table_entries - 1)
Slots   == 1..(table_entries + expn_table_entries)

ASSUME NatAssumption ==
  /\ table_entries \in Nat /\ table_entries > 1
  /\ expn_table_entries \in Nat /\ expn_table_entries > 1
  /\ DstHash \in [Rules -> Base] /\ SrcHash \in [Rules -> Base]
  /\ NoRule \notin Rules /\ MaxFails \in Nat

VARIABLES
  table,         \* "none", "half": valid but without a handle, "ready", "unmapped"
  tbl,           \* the rule table
  indx,          \* the index table
  prev_index,    \* index_expn_table_meta
  rule_id_array, \* the entry behind each rule handle, or 0
  at,            \* where the driver is
  cur,           \* its local variables
  cmds,          \* the DMA commands it has still to post
  rule_hdl,      \* the client's handle of each rule, or 0
  fails          \* calls that have failed

hw     == <<tbl, indx>>
cache  == <<table, prev_index, rule_id_array>>
vars   == <<hw, cache, at, cur, cmds, rule_hdl, fails>>

ZeroRule  == [enable |-> FALSE, dead |-> FALSE, rule |-> NoRule, next |-> 0, prev |-> 0, indx |-> 0]
ZeroIndex == [entry |-> 0, next |-> 0]

\* No call is being executed.
NoCall == [rule |-> NoRule, entry |-> 0, prev |-> 0, ientry |-> 0, iprev |-> 0, inext |-> 0,
           pos |-> "none", ipos |-> "none"]

Init ==
  /\ table = "none"
  /\ tbl = [e \in Entries |-> ZeroRule] /\ indx = [e \in Entries |-> ZeroIndex]
  /\ prev_index = [e \in Expn |-> 0]
  /\ rule_id_array = [h \in Slots |-> 0]
  /\ at = "idle" /\ cur = NoCall /\ cmds = <<>>
  /\ rule_hdl = [r \in Rules |-> 0]
  /\ fails = 0

Fails == fails < MaxFails /\ fails' = fails + 1

-----------------------------------------------------------------------------
(* ipa_nati_add_ipv4_tbl() and ipa_nati_del_ipv4_table()                   *)

\* The memory is mapped and cleared and the hardware told of it.
AddTable ==
  /\ at = "idle" /\ table \in {"none", "half"}
  /\ table' = "ready"
  /\ tbl' = [e \in Entries |-> ZeroRule] /\ indx' = [e \in Entries |-> ZeroIndex]
  /\ UNCHANGED <<prev_index, rule_id_array, at, cur, cmds, rule_hdl, fails>>

\* Allocation fails, or the cache is valid already when open() or the init command does.
AddTableFails ==
  /\ at = "idle" /\ table \in {"none", "half"}
  /\ Fails
  /\ table' \in {table, "half"}
  /\ UNCHANGED <<hw, prev_index, rule_id_array, at, cur, cmds, rule_hdl>>

\* The client forgets its handles with the table.
DelTable ==
  /\ at = "idle" /\ table = "ready"
  /\ table' = "none"
  /\ tbl' = [e \in Entries |-> ZeroRule] /\ indx' = [e \in Entries |-> ZeroIndex]
  /\ prev_index' = [e \in Expn |-> 0] /\ rule_id_array' = [h \in Slots |-> 0]
  /\ rule_hdl' = [r \in Rules |-> 0]
  /\ UNCHANGED <<at, cur, cmds, fails>>

\* close() or the ioctl fails, when the memory is unmapped already.  What the
\* client calls after this faults and is not modelled.
DelTableFails ==
  /\ at = "idle" /\ table = "ready"
  /\ Fails
  /\ table' = "unmapped"
  /\ UNCHANGED <<hw, prev_index, rule_id_array, at, cur, cmds, rule_hdl>>

-----------------------------------------------------------------------------
(* ipa_nati_add_ipv4_rule()                                                *)

\* The entries of a list: what is reached from its head by next fields.
List(t, head) ==
  LET reached[n \in 0..expn_table_entries] ==
        IF n = 0 THEN {head}
        ELSE reached[n - 1] \cup ({t[e].next : e \in reached[n - 1]} \ {0})
  IN  reached[expn_table_entries]

\* The last entry of a list, IPA_NAT_INVALID_NAT_ENTRY when it is not found because an
\* entry is its own next (in a longer cycle the code would never return).
Last(t, head) ==
  IF \E e \in List(t, head) : t[e].next = 0
    THEN CHOOSE e \in List(t, head) : t[e].next = 0
    ELSE 0

\* The first free entry of an expansion table, or IPA_NAT_INVALID_NAT_ENTRY.
FreeEntry(used) ==
  LET free == Expn \ used IN
  IF free = {} THEN 0 ELSE CHOOSE e \in free : \A f \in free : e <= f

Enabled == {e \in Entries : tbl[e].enable}
Indexed == {e \in Entries : indx[e].entry # 0}

\* ipa_nati_generate_tbl_rule() and ipa_nati_generate_index_rule(): the new entries
\* of r and those they are to follow, 0 for the head of a list.
GenerateRule(r) ==
  LET d == DstHash[r]
      s == SrcHash[r]
  IN  [NoCall EXCEPT
         !.rule   = r,
         !.entry  = IF d \notin Enabled THEN d ELSE IF Last(tbl, d) = 0 THEN 0 ELSE FreeEntry(Enabled),
         !.prev   = IF d \notin Enabled THEN 0 ELSE Last(tbl, d),
         !.ientry = IF s \notin Indexed THEN s ELSE IF Last(indx, s) = 0 THEN 0 ELSE FreeEntry(Indexed),
         !.iprev  = IF s \notin Indexed THEN 0 ELSE Last(indx, s)]

\* The rule is written into its entry, disabled.  When an entry cannot be found,
\* the call returns -EINVAL with nothing changed.
AddRule(r) ==
  LET g == GenerateRule(r) IN
  /\ at = "idle" /\ table = "ready" /\ rule_hdl[r] = 0
  /\ g.entry # 0 /\ g.ientry # 0 /\ g.iprev # g.ientry
  /\ prev_index' = IF g.ientry \in Expn THEN [prev_index EXCEPT ![g.ientry] = g.iprev] ELSE prev_index
  /\ tbl' = [tbl EXCEPT ![g.entry] =
               [ZeroRule EXCEPT !.rule = r, !.prev = g.prev, !.indx = g.ientry]]
  /\ cur' = g
  /\ at' = IF g.prev # 0 THEN "link" ELSE "index"
  /\ UNCHANGED <<indx, table, rule_id_array, cmds, rule_hdl, fails>>

\* ipa_nati_write_next_index() on the rule before it; a failure is only logged.
AddLink ==
  /\ at = "link"
  /\ \/ tbl' = [tbl EXCEPT ![cur.prev].next = cur.entry] /\ UNCHANGED fails
     \/ Fails /\ UNCHANGED tbl
  /\ at' = "index"
  /\ UNCHANGED <<indx, cache, cur, cmds, rule_hdl>>

AddIndex ==
  /\ at = "index"
  /\ indx' = [indx EXCEPT ![cur.ientry] = [entry |-> cur.entry, next |-> 0]]
  /\ at' = IF cur.iprev # 0 THEN "indexLink" ELSE "enable"
  /\ UNCHANGED <<tbl, cache, cur, cmds, rule_hdl, fails>>

AddIndexLink ==
  /\ at = "indexLink"
  /\ \/ indx' = [indx EXCEPT ![cur.iprev].next = cur.ientry] /\ UNCHANGED fails
     \/ Fails /\ UNCHANGED indx
  /\ at' = "enable"
  /\ UNCHANGED <<tbl, cache, cur, cmds, rule_hdl>>

\* ipa_nati_make_rule_hdl(): the entry with its table type in the low bit.
RuleId(e) == IF e >= table_entries THEN (e - table_entries) * 2 + 1 ELSE e * 2

\* The first free handle, or 0.
FreeHandle ==
  LET free == {h \in Slots : rule_id_array[h] = 0} IN
  IF free = {} THEN 0 ELSE CHOOSE h \in free : \A g \in free : h <= g

\* ipa_nati_post_ipv4_dma_cmd() enables the rule and the client gets its handle, or
\* -EIO with the disabled rule left in the tables.
AddEnable ==
  /\ at = "enable"
  /\ \/ /\ tbl' = [tbl EXCEPT ![cur.entry].enable = TRUE]
        /\ rule_id_array' = IF FreeHandle = 0 THEN rule_id_array
                            ELSE [rule_id_array EXCEPT ![FreeHandle] = RuleId(cur.entry)]
        /\ rule_hdl' = [rule_hdl EXCEPT ![cur.rule] = FreeHandle]
        /\ UNCHANGED fails
     \/ Fails /\ UNCHANGED <<tbl, rule_id_array, rule_hdl>>
  /\ at' = "idle" /\ cur' = NoCall
  /\ UNCHANGED <<indx, table, prev_index, cmds>>

-----------------------------------------------------------------------------
(* ipa_nati_del_ipv4_rule()                                                *)

\* ipa_nati_parse_ipv4_rule_hdl(): the entry behind a handle, 0 when it is invalid.
ParseHdl(h) ==
  IF h >= table_entries + expn_table_entries \/ rule_id_array[h] = 0 THEN 0
  ELSE IF rule_id_array[h] % 2 = 1 THEN table_entries + rule_id_array[h] \div 2
                                   ELSE rule_id_array[h] \div 2

\* ipa_nati_find_rule_pos() and ipa_nati_find_index_rule_pos()
Position(t, e) ==
  IF e \in Expn THEN IF t[e].next = 0 THEN "LAST" ELSE "MIDDLE"
                ELSE IF t[e].next = 0 THEN "ONLY_ONE" ELSE "HEAD"

\* A DMA command: a field of an entry and its new value.
Cmd(field, e, data) == [field |-> field, entry |-> e, data |-> data]

\* Mutant of RuleCmds: the head of a list is left as it is.
RuleCmdsNoHead(e) ==
  CASE Position(tbl, e) = "ONLY_ONE" -> <<Cmd("disable", e, 0)>>
    [] Position(tbl, e) = "HEAD"     -> <<>>
    [] OTHER                         -> <<Cmd("next", tbl[e].prev, tbl[e].next)>>

\* The command that takes rule e out of its list: its flag, its protocol, or the next
\* field of the rule before it.
RuleCmds(e) ==
  CASE Position(tbl, e) = "ONLY_ONE" -> <<Cmd("disable", e, 0)>>
    [] Position(tbl, e) = "HEAD"     -> <<Cmd("proto", e, 0)>>
    [] OTHER                         -> <<Cmd("next", tbl[e].prev, tbl[e].next)>>

\* The commands that take index entry i out of its list: the head is overwritten with
\* the entry after it.
IndexCmds(i) ==
  CASE Position(indx, i) = "ONLY_ONE" -> <<Cmd("ientry", i, 0)>>
    [] Position(indx, i) = "HEAD"     -> <<Cmd("ientry", i, indx[indx[i].next].entry),
                                          Cmd("inext", i, indx[indx[i].next].next)>>
    [] OTHER                          -> <<Cmd("inext", prev_index[i], indx[i].next)>>

\* The commands, those of the index first: ReorderCmds(), unless its malloc() fails.
\* An invalid handle or a rule that is not enabled is refused.
DelRule(r) ==
  LET e == ParseHdl(rule_hdl[r])
      i == tbl[e].indx
  IN
  /\ at = "idle" /\ table = "ready" /\ rule_hdl[r] # 0
  /\ e # 0
  /\ tbl[e].enable
  /\ \/ cmds' = IndexCmds(i) \o RuleCmds(e) /\ UNCHANGED fails
     \/ cmds' = RuleCmds(e) \o IndexCmds(i) /\ Fails
  /\ cur' = [NoCall EXCEPT !.rule = r, !.entry = e, !.ientry = i, !.inext = indx[i].next,
                           !.pos = Position(tbl, e), !.ipos = Position(indx, i)]
  /\ at' = "dma"
  /\ UNCHANGED <<hw, cache, rule_hdl>>

\* The hardware executes the next command of the ioctl.
Dma ==
  LET c == Head(cmds) IN
  /\ at = "dma" /\ cmds # <<>>
  /\ cmds' = Tail(cmds)
  /\ tbl' = CASE c.field = "disable" -> [tbl EXCEPT ![c.entry].enable = FALSE]
              [] c.field = "proto"   -> [tbl EXCEPT ![c.entry].dead = TRUE]
              [] c.field = "next"    -> [tbl EXCEPT ![c.entry].next = c.data]
              [] OTHER               -> tbl
  /\ indx' = CASE c.field = "ientry" -> [indx EXCEPT ![c.entry].entry = c.data]
               [] c.field = "inext"  -> [indx EXCEPT ![c.entry].next = c.data]
               [] OTHER              -> indx
  /\ UNCHANGED <<cache, at, cur, rule_hdl, fails>>

\* The ioctl fails with commands left; the client keeps its handle.
DmaFails ==
  /\ at = "dma" /\ cmds # <<>>
  /\ Fails
  /\ cmds' = <<>> /\ at' = "idle" /\ cur' = NoCall
  /\ UNCHANGED <<hw, cache, rule_hdl>>

\* The rule table after the ioctl: the next rule gets its new prev, the deleted one is
\* cleared unless others hang on it, and the rule whose index entry has moved is told.
CleanRules ==
  LET moved == IF cur.pos = "MIDDLE" THEN [tbl EXCEPT ![tbl[cur.entry].next].prev = tbl[cur.entry].prev] ELSE tbl
      gone  == IF cur.pos # "HEAD" THEN [moved EXCEPT ![cur.entry] = ZeroRule] ELSE moved
  IN  IF cur.ipos = "HEAD" THEN [gone EXCEPT ![indx[cur.ientry].entry].indx = cur.ientry] ELSE gone

\* ipa_nati_del_dead_ipv4_head_nodes()
DelDeadHeads(t) ==
  [e \in Entries |-> IF e \in Base /\ t[e].dead /\ t[e].next = 0 THEN ZeroRule ELSE t[e]]

\* The index entry that is free now: the one after a head, which was copied into it.
FreedIndex == IF cur.ipos = "HEAD" THEN cur.inext ELSE cur.ientry

\* Mutant of CleanMeta: what follows the entry that was copied into a head keeps its
\* prev.
CleanMetaNoHead ==
  CASE cur.ipos = "MIDDLE" -> [prev_index EXCEPT ![indx[FreedIndex].next] = prev_index[cur.ientry],
                                                 ![cur.ientry] = 0]
    [] OTHER -> prev_index

\* index_expn_table_meta after the ioctl: what followed the freed entry gets its new
\* prev.
CleanMeta ==
  LET nxt == indx[FreedIndex].next IN
  CASE cur.ipos = "HEAD" /\ nxt # 0 -> [prev_index EXCEPT ![nxt] = cur.ientry]
    [] cur.ipos = "MIDDLE" -> [prev_index EXCEPT ![nxt] = prev_index[cur.ientry], ![cur.ientry] = 0]
    [] OTHER -> prev_index

DelClean ==
  /\ at = "dma" /\ cmds = <<>>
  /\ tbl' = DelDeadHeads(CleanRules)
  /\ indx' = [indx EXCEPT ![FreedIndex] = ZeroIndex]
  /\ prev_index' = CleanMeta
  /\ rule_id_array' = [rule_id_array EXCEPT ![rule_hdl[cur.rule]] = 0]
  /\ rule_hdl' = [rule_hdl EXCEPT ![cur.rule] = 0]
  /\ at' = "idle" /\ cur' = NoCall
  /\ UNCHANGED <<table, cmds, fails>>
-----------------------------------------------------------------------------
Next ==
  \/ AddTable \/ AddTableFails \/ DelTable \/ DelTableFails
  \/ \E r \in Rules : AddRule(r)
  \/ AddLink \/ AddIndex \/ AddIndexLink \/ AddEnable
  \/ \E r \in Rules : DelRule(r)
  \/ Dma \/ DmaFails \/ DelClean

Spec == Init /\ [][Next]_vars
-----------------------------------------------------------------------------
(* Properties.                                                             *)

TypeOK ==
  /\ table \in {"none", "half", "ready", "unmapped"}
  /\ tbl \in [Entries -> [enable : BOOLEAN, dead : BOOLEAN, rule : Rules \cup {NoRule},
                          next : Expn \cup {0}, prev : Entries, indx : Entries]]
  /\ indx \in [Entries -> [entry : Entries, next : Expn \cup {0}]]
  /\ prev_index \in [Expn -> Entries]
  /\ rule_id_array \in [Slots -> {RuleId(e) : e \in Entries}]
  /\ at \in {"idle", "link", "index", "indexLink", "enable", "dma"}
  /\ rule_hdl \in [Rules -> Slots \cup {0}]
  /\ fails \in 0..MaxFails

\* What the hardware finds (external): a downlink packet of rule r is looked up in
\* the list of its target's hash, an uplink packet through the index.
Matches(e, r) == tbl[e].enable /\ ~tbl[e].dead /\ tbl[e].rule = r
FoundDown(r)  == \E e \in List(tbl, DstHash[r]) : Matches(e, r)
FoundUp(r)    == \E i \in List(indx, SrcHash[r]) : indx[i].entry # 0 /\ Matches(indx[i].entry, r)

\* Calls that fail leave the tables as they are: what follows is about a history
\* without them.
Sound == fails = 0

\* Every rule that has a handle translates packets both ways, at every moment of any
\* other rule's insertion or deletion.
LiveRulesFound ==
  Sound => \A r \in Rules : rule_hdl[r] # 0 /\ cur.rule # r => FoundDown(r) /\ FoundUp(r)

\* A rule that was deleted, or is not yet enabled, translates nothing.
DeletedNotFound ==
  Sound => \A r \in Rules : rule_hdl[r] = 0 => ~FoundDown(r) /\ ~FoundUp(r)

\* The links back, which deletions rely on, are the inverse of the links the hardware
\* follows, and rules and index entries point to each other.
LinksAgree ==
  Sound /\ at = "idle" =>
    /\ \A e \in Entries : tbl[e].next # 0 => tbl[tbl[e].next].prev = e
    /\ \A i \in Entries : indx[i].next # 0 => prev_index[indx[i].next] = i
    /\ \A i \in Entries : indx[i].entry # 0 => tbl[indx[i].entry].indx = i

\* No entry leaks: when the last rule is deleted the tables are as new.
EmptyAgain ==
  Sound /\ at = "idle" /\ (\A r \in Rules : rule_hdl[r] = 0) =>
    \A e \in Entries : tbl[e] = ZeroRule /\ indx[e] = ZeroIndex

\* ipa_nati_parse_ipv4_rule_hdl() refuses the largest handle ipa_nati_make_rule_hdl()
\* can make, but it is never made: a handle leads to its rule, also after a failure.
HandleFindsRule ==
  \A r \in Rules : rule_hdl[r] # 0 /\ fails <= 1 =>
    ParseHdl(rule_hdl[r]) # 0 /\ tbl[ParseHdl(rule_hdl[r])].rule = r

\* What the hardware finds, after every single command: the rules that live, and not
\* those that were deleted.
LookupsRight == LiveRulesFound /\ DeletedNotFound

\* The driver's own view of the tables: the lists and their back links agree, entries are
\* given back, and a handle leads to its rule.
TablesAgree == TypeOK /\ LinksAgree /\ EmptyAgain /\ HandleFindsRule
=============================================================================
