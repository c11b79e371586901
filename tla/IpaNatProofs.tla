---------------------------- MODULE IpaNatProofs ----------------------------
(***************************************************************************)
(* Proofs about IpaNat, for any rules, any hashes of them, any size of the *)
(* tables and any number of failing calls.                                 *)
(***************************************************************************)
EXTENDS IpaNat, NaturalsInduction, WellFoundedInduction, FiniteSetTheorems, SequenceTheorems, TLAPS

-----------------------------------------------------------------------------
(* The lists.  A list is the least set that has its head and, with an      *)
(* entry, the next one; every argument about lists goes through this.      *)

\* A set of natural numbers has a least element.
LEMMA LeastExists ==
  ASSUME NEW S \in SUBSET Nat, S # {}
  PROVE  \E x \in S : \A y \in S : x <= y
  <1>1. PICK x \in S : \A y \in S : ~ (<<y, x>> \in OpToRel(<, Nat))
    BY WFMin, NatLessThanWellFounded
  <1>2. ASSUME NEW y \in S PROVE x <= y
    <2>1. ~ (<<y, x>> \in {ss \in Nat \X Nat : ss[1] < ss[2]}) BY <1>1 DEF OpToRel
    <2>2. QED BY <2>1
  <1>3. QED BY <1>2

\* The next fields of a table are entries of the expansion table.
NextsTyped(t) == \A e \in Entries : t[e].next \in Expn \cup {0}

\* One step along the next fields.
Onward(t, S) == S \cup ({t[e].next : e \in S} \ {0})

\* A set that follows the next fields.
Closed(t, S) == \A e \in S : t[e].next # 0 => t[e].next \in S

\* The steps from the head, as the definition of List() counts them.
IsReached(t, head, f) ==
  f = [n \in 0..expn_table_entries |-> IF n = 0 THEN {head} ELSE f[n - 1] \cup ({t[e].next : e \in f[n - 1]} \ {0})]

\* The function that List() is defined by exists.
LEMMA ReachedExists ==
  ASSUME NEW t, NEW head
  PROVE  \E f : IsReached(t, head, f)
  <1> DEFINE X == expn_table_entries
             Upto(m, g) == DOMAIN g = 0..m /\ g[0] = {head} /\ \A n \in 1..m : g[n] = Onward(t, g[n - 1])
             Bad == {m \in 0..X : ~ \E g : Upto(m, g)}
  <1>1. Bad = {}
    <2> SUFFICES ASSUME Bad # {} PROVE FALSE OBVIOUS
    <2>1. Bad \in SUBSET Nat OBVIOUS
    <2>2. PICK m \in Bad : \A y \in Bad : m <= y BY <2>1, LeastExists
    <2>3. CASE m = 0
      <3> DEFINE g == [n \in 0..0 |-> {head}]
      <3>1. Upto(0, g) OBVIOUS
      <3>2. QED BY <3>1, <2>2, <2>3
    <2>4. CASE m # 0
      <3>0. m \in 0..X /\ m \in Nat BY <2>2
      <3>1. m - 1 \in 0..X /\ m - 1 \notin Bad
        <4>1. m - 1 \in 0..X /\ ~(m <= m - 1) BY NatAssumption, <3>0, <2>4
        <4> HIDE DEF Bad
        <4>2. QED BY <4>1, <2>2
      <3>2. PICK g : Upto(m - 1, g) BY <3>1
      <3> DEFINE h == [n \in 0..m |-> IF n = m THEN Onward(t, g[m - 1]) ELSE g[n]]
      <3>3. Upto(m, h)
        <4>1. DOMAIN h = 0..m /\ h[0] = {head} BY <3>2, <2>4, <3>1
        <4>2. ASSUME NEW n \in 1..m PROVE h[n] = Onward(t, h[n - 1])
          <5>1. CASE n = m BY <5>1, <3>1
          <5>2. CASE n # m BY <5>2, <3>1, <3>2
          <5>3. QED BY <5>1, <5>2
        <4>3. QED BY <4>1, <4>2
      <3>4. QED BY <3>3, <2>2
    <2>5. QED BY <2>3, <2>4
  <1>2. X \in 0..X BY NatAssumption
  <1>3. PICK g : Upto(X, g) BY <1>1, <1>2
  <1> DEFINE h == [n \in 0..X |-> g[n]]
  <1>4. \A n \in 1..X : h[n] = Onward(t, h[n - 1]) BY NatAssumption, <1>3
  <1>5. h[0] = {head} BY NatAssumption, <1>3
  <1>6. h = [n \in 0..X |-> IF n = 0 THEN {head} ELSE h[n - 1] \cup ({t[e].next : e \in h[n - 1]} \ {0})]
    <2> DEFINE k == [n \in 0..X |-> IF n = 0 THEN {head} ELSE h[n - 1] \cup ({t[e].next : e \in h[n - 1]} \ {0})]
    <2>1. ASSUME NEW n \in 0..X PROVE h[n] = k[n]
      <3>1. CASE n = 0 BY <3>1, <1>5
      <3>2. CASE n # 0
        <4>1. n \in 1..X BY <3>2
        <4>2. h[n] = Onward(t, h[n - 1]) BY <4>1, <1>4
        <4>3. k[n] = h[n - 1] \cup ({t[e].next : e \in h[n - 1]} \ {0}) BY <3>2, Zenon
        <4>4. QED BY <4>2, <4>3, Zenon DEF Onward
      <3>3. QED BY <3>1, <3>2
    <2>2. QED BY <2>1, Zenon
  <1>7. IsReached(t, head, h) BY <1>6, Zenon DEF IsReached
  <1>8. QED BY <1>7, Zenon

LEMMA ListReached ==
  ASSUME NEW t, NEW head
  PROVE  \E f : IsReached(t, head, f) /\ List(t, head) = f[expn_table_entries]
  <1> DEFINE f == CHOOSE f : IsReached(t, head, f)
  <1>1. IsReached(t, head, f) BY ReachedExists, Zenon
  <1>2. List(t, head) = f[expn_table_entries] BY Zenon DEF List, IsReached
  <1>3. QED BY <1>1, <1>2, Zenon

\* Reaching entry after entry, a list grows until nothing new is reached.
LEMMA ReachedGrows ==
  ASSUME NEW t, NEW head, NEW f, IsReached(t, head, f)
  PROVE  /\ f[0] = {head}
         /\ \A n \in 1..expn_table_entries : f[n] = Onward(t, f[n - 1])
  <1> DEFINE X == expn_table_entries
             k == [n \in 0..X |-> IF n = 0 THEN {head} ELSE f[n - 1] \cup ({t[e].next : e \in f[n - 1]} \ {0})]
  <1>1. f = k BY Zenon DEF IsReached
  <1>2. 0 \in 0..X BY NatAssumption
  <1>3. k[0] = {head} BY <1>2, Zenon
  <1>4. ASSUME NEW n \in 1..X PROVE k[n] = Onward(t, f[n - 1])
    <2>1. n \in 0..X /\ n # 0 BY NatAssumption
    <2>2. QED BY <2>1, Zenon DEF Onward
  <1>5. QED BY <1>1, <1>3, <1>4, Zenon

\* Of a list that begins in the base table.
ListFacts(t, h) ==
  /\ h \in List(t, h)
  /\ List(t, h) \subseteq {h} \cup Expn
  /\ Closed(t, List(t, h))
  /\ \A S : h \in S /\ Closed(t, S) => List(t, h) \subseteq S

LEMMA ListLeast ==
  ASSUME NEW t, NEW h \in Base, NextsTyped(t)
  PROVE  ListFacts(t, h)
  <1> DEFINE X == expn_table_entries
             All == {h} \cup Expn
  <1>x. X \in Nat /\ X > 1 /\ table_entries \in Nat /\ table_entries > 1 BY NatAssumption
  <1>1. PICK f : IsReached(t, h, f) /\ List(t, h) = f[X] BY ListReached
  <1>2. /\ f[0] = {h}
        /\ \A n \in 1..X : f[n] = Onward(t, f[n - 1])
    BY <1>1, ReachedGrows
  <1>3. ASSUME NEW S, h \in S, Closed(t, S) PROVE \A n \in 0..X : f[n] \subseteq S
    <2> DEFINE Bad == {n \in 0..X : ~(f[n] \subseteq S)}
    <2> SUFFICES ASSUME Bad # {} PROVE FALSE OBVIOUS
    <2>1. Bad \in SUBSET Nat OBVIOUS
    <2>2. PICK m \in Bad : \A y \in Bad : m <= y BY <2>1, LeastExists
    <2>3. m # 0 BY <2>2, <1>2, <1>3
    <2>4. m - 1 \in 0..X /\ m \in 1..X /\ ~(m <= m - 1) BY <2>2, <2>3, <1>x
    <2>5. f[m - 1] \subseteq S BY <2>2, <2>4
    <2>6. f[m] = Onward(t, f[m - 1]) BY <2>4, <1>2
    <2>7. f[m] \subseteq S BY <2>5, <2>6, <1>3 DEF Onward, Closed
    <2>8. QED BY <2>7, <2>2
  <1>4. h \in All /\ Closed(t, All) BY <1>x DEF Closed, NextsTyped, Entries, Base, Expn
  <1>5. \A n \in 0..X : f[n] \subseteq All BY <1>3, <1>4
  <1>6. \A n \in 0..X : h \in f[n]
    <2> DEFINE Bad == {n \in 0..X : h \notin f[n]}
    <2> SUFFICES ASSUME Bad # {} PROVE FALSE OBVIOUS
    <2>1. Bad \in SUBSET Nat OBVIOUS
    <2>2. PICK m \in Bad : \A y \in Bad : m <= y BY <2>1, LeastExists
    <2>3. m # 0 BY <2>2, <1>2
    <2>4. m - 1 \in 0..X /\ m \in 1..X /\ ~(m <= m - 1) BY <2>2, <2>3, <1>x
    <2>5. h \in f[m - 1] BY <2>2, <2>4
    <2>6. f[m] = Onward(t, f[m - 1]) BY <2>4, <1>2
    <2>7. QED BY <2>5, <2>6, <2>2 DEF Onward
  <1>7. IsFiniteSet(All) /\ Cardinality(All) = X
    <2>1. IsFiniteSet(Expn) /\ Cardinality(Expn) = X - 1
      <3>1. table_entries + 1 \in Int /\ table_entries + X - 1 \in Int BY <1>x
      <3>2. IsFiniteSet(Expn) BY <3>1, FS_Interval DEF Expn
      <3>3. Cardinality(Expn) = (table_entries + X - 1) - (table_entries + 1) + 1
        BY <3>1, FS_Interval, <1>x DEF Expn
      <3>4. QED BY <3>2, <3>3, <1>x
    <2>2. h \notin Expn BY <1>x DEF Base, Expn
    <2>3. IsFiniteSet(Expn \cup {h}) /\ Cardinality(Expn \cup {h}) = X - 1 + 1 BY <2>1, <2>2, FS_AddElement
    <2>4. All = Expn \cup {h} OBVIOUS
    <2>5. QED BY <2>3, <2>4, <1>x
  <1>8. \A n \in 0..X : IsFiniteSet(f[n]) /\ Cardinality(f[n]) \in Nat /\ Cardinality(f[n]) <= X
    <2> TAKE n \in 0..X
    <2>1. f[n] \in SUBSET All BY <1>5
    <2>2. QED BY <2>1, <1>7, FS_Subset, FS_CardinalityType
  <1>9. ASSUME NEW n \in 1..X, f[n] # f[n - 1] PROVE Cardinality(f[n - 1]) + 1 <= Cardinality(f[n])
    <2>1. f[n] = Onward(t, f[n - 1]) BY <1>2
    <2>2. f[n - 1] \subseteq f[n] BY <2>1 DEF Onward
    <2>3. n \in 0..X /\ n - 1 \in 0..X BY <1>x
    <2>4. f[n - 1] \in SUBSET f[n] BY <2>2
    <2>5. Cardinality(f[n - 1]) <= Cardinality(f[n]) BY <2>3, <2>4, <1>8, FS_Subset
    <2>6. Cardinality(f[n - 1]) # Cardinality(f[n]) BY <2>3, <2>4, <1>8, <1>9, FS_Subset
    <2>7. QED BY <2>5, <2>6, <1>8, <2>3
  <1>10. \A n \in 1..X : f[n] = f[n - 1] => Closed(t, f[n])
    BY <1>2 DEF Onward, Closed
  <1>11. Closed(t, f[X])
    <2> DEFINE Bad == {n \in 0..X : ~(Closed(t, f[n]) \/ n + 1 <= Cardinality(f[n]))}
    <2>1. Bad = {}
      <3> SUFFICES ASSUME Bad # {} PROVE FALSE OBVIOUS
      <3>1. Bad \in SUBSET Nat OBVIOUS
      <3>2. PICK m \in Bad : \A y \in Bad : m <= y BY <3>1, LeastExists
      <3>3. m # 0
        <4>1. Cardinality({h}) = 1 BY FS_Singleton
        <4>2. QED BY <4>1, <3>2, <1>2
      <3>4. m - 1 \in 0..X /\ m \in 1..X /\ ~(m <= m - 1) BY <3>2, <3>3, <1>x
      <3>5. Closed(t, f[m - 1]) \/ m - 1 + 1 <= Cardinality(f[m - 1]) BY <3>2, <3>4
      <3>6. f[m] = Onward(t, f[m - 1]) BY <3>4, <1>2
      <3>7. CASE Closed(t, f[m - 1])
        <4>1. f[m] = f[m - 1] BY <3>6, <3>7 DEF Onward, Closed
        <4>2. QED BY <4>1, <3>7, <3>2
      <3>8. CASE f[m] = f[m - 1] BY <3>8, <3>4, <1>10, <3>2
      <3>9. CASE f[m] # f[m - 1] /\ m <= Cardinality(f[m - 1])
        <4>1. Cardinality(f[m - 1]) + 1 <= Cardinality(f[m]) BY <3>9, <3>4, <1>9
        <4>2. m + 1 <= Cardinality(f[m]) BY <4>1, <3>9, <1>8, <3>4
        <4>3. QED BY <4>2, <3>2
      <3>10. m - 1 + 1 = m BY <3>4
      <3>11. QED BY <3>5, <3>7, <3>8, <3>9, <3>10
    <2>2. X \in 0..X BY <1>x
    <2>3. Closed(t, f[X]) \/ X + 1 <= Cardinality(f[X]) BY <2>1, <2>2
    <2>4. QED BY <2>3, <1>8, <2>2, <1>x
  <1>12. X \in 0..X BY <1>x
  <1>13. List(t, h) \subseteq All BY <1>1, <1>5, <1>12
  <1>14. h \in List(t, h) BY <1>1, <1>6, <1>12
  <1>15. Closed(t, List(t, h)) BY <1>1, <1>11
  <1>16. \A S : h \in S /\ Closed(t, S) => List(t, h) \subseteq S BY <1>1, <1>3, <1>12
  <1>17. QED BY <1>13, <1>14, <1>15, <1>16 DEF ListFacts

LEMMA Places ==
  /\ Base \subseteq Entries /\ Expn \subseteq Entries /\ Base \cap Expn = {}
  /\ 0 \in Entries /\ 0 \notin Base /\ 0 \notin Expn
  /\ Entries \in SUBSET Nat
  BY NatAssumption DEF Base, Expn, Entries

\* A list is made of entries, and only its head lies in the base table.
LEMMA ListPlaces ==
  ASSUME NEW t, NEW h \in Base, NextsTyped(t), NEW e \in List(t, h)
  PROVE  e \in Entries /\ e # 0 /\ (e \in Base => e = h) /\ (e \notin Expn => e = h)
  BY ListLeast, Places DEF ListFacts

\* A table that keeps the links of another one has all of its lists.
LEMMA ListGrows ==
  ASSUME NEW t, NEW u, NEW h \in Base, NextsTyped(t), NextsTyped(u),
         \A e \in Entries : t[e].next # 0 => u[e].next = t[e].next
  PROVE  List(t, h) \subseteq List(u, h)
  <1>1. ListFacts(t, h) /\ ListFacts(u, h) BY ListLeast
  <1>2. List(u, h) \subseteq Entries BY <1>1, Places DEF ListFacts
  <1>3. Closed(t, List(u, h)) BY <1>1, <1>2 DEF ListFacts, Closed
  <1>4. QED BY <1>1, <1>3 DEF ListFacts

\* An entry of a list is its head or comes after another one.
LEMMA ListPred ==
  ASSUME NEW t, NEW h \in Base, NextsTyped(t), NEW e \in List(t, h), e # h
  PROVE  \E p \in List(t, h) : p \in Entries /\ p # e /\ t[p].next = e
  <1> SUFFICES ASSUME \A p \in List(t, h) : p \in Entries => p = e \/ t[p].next # e PROVE FALSE OBVIOUS
  <1> DEFINE S == List(t, h) \ {e}
  <1>1. ListFacts(t, h) BY ListLeast
  <1>2. List(t, h) \subseteq Entries BY <1>1, Places DEF ListFacts
  <1>3. Closed(t, S) BY <1>1, <1>2 DEF ListFacts, Closed
  <1>4. h \in S BY <1>1 DEF ListFacts
  <1>5. List(t, h) \subseteq S BY <1>1, <1>3, <1>4 DEF ListFacts
  <1>6. QED BY <1>5

\* Entry e is taken out from behind p: the others stay in their lists.
LEMMA ListUnlinked ==
  ASSUME NEW t, NEW u, NEW h \in Base, NextsTyped(t), NextsTyped(u),
         NEW p \in Entries, NEW e \in Expn, p # e, t[p].next = e, t[e].next # e,
         \A x \in Entries : t[x].next = e => x = p,
         u[p].next = t[e].next,
         \A x \in Entries : x # p /\ x # e => u[x].next = t[x].next
  PROVE  List(t, h) \ {e} \subseteq List(u, h)
  <1> DEFINE S == (List(u, h) \ {e}) \cup (IF p \in List(u, h) THEN {e} ELSE {})
  <1>1. ListFacts(t, h) /\ ListFacts(u, h) BY ListLeast
  <1>2. List(u, h) \subseteq Entries BY <1>1, Places DEF ListFacts
  <1>3. ASSUME NEW x \in S, t[x].next # 0 PROVE t[x].next \in S
    <2>1. CASE x = p BY <2>1, <1>3
    <2>2. CASE x = e
      <3>1. p \in List(u, h) BY <2>2
      <3>2. u[p].next \in List(u, h) BY <3>1, <1>1, <1>3, <2>2 DEF ListFacts, Closed
      <3>3. QED BY <3>2, <2>2
    <2>3. CASE x # p /\ x # e
      <3>1. x \in List(u, h) /\ x \in Entries BY <2>3, <1>2
      <3>2. u[x].next = t[x].next BY <3>1, <2>3
      <3>3. t[x].next \in List(u, h) BY <3>1, <3>2, <1>1, <1>3 DEF ListFacts, Closed
      <3>4. t[x].next # e BY <3>1, <2>3
      <3>5. QED BY <3>3, <3>4
    <2>4. QED BY <2>1, <2>2, <2>3
  <1>4. Closed(t, S) BY <1>3 DEF Closed
  <1>5. h # e BY Places
  <1>6. h \in S BY <1>1, <1>5 DEF ListFacts
  <1> HIDE DEF S
  <1>7. List(t, h) \subseteq S BY <1>1, <1>4, <1>6 DEF ListFacts
  <1>8. QED BY <1>7 DEF S

-----------------------------------------------------------------------------
(* Types.                                                                  *)

RuleRec  == [enable : BOOLEAN, dead : BOOLEAN, rule : Rules \cup {NoRule},
             next : Expn \cup {0}, prev : Entries, indx : Entries]
IndexRec == [entry : Entries, next : Expn \cup {0}]
Tables   == [Entries -> RuleRec]
Indexes  == [Entries -> IndexRec]

Positions == {"none", "ONLY_ONE", "HEAD", "LAST", "MIDDLE"}
Calls == [rule : Rules \cup {NoRule}, entry : Entries, prev : Entries, ientry : Entries, iprev : Entries,
          inext : Expn \cup {0}, pos : Positions, ipos : Positions]

Commands == [field : {"next", "inext"}, entry : Entries, data : Expn \cup {0}]
              \cup [field : {"disable", "proto"}, entry : Entries, data : {0}]
              \cup [field : {"ientry"}, entry : Entries, data : Entries]

\* Beyond TypeOK: what the driver's local variables hold, and that without a table there
\* are no handles.
TypeInv ==
  /\ TypeOK
  /\ cur \in Calls /\ (cur.ipos = "MIDDLE" => cur.ientry \in Expn)
  /\ cmds \in Seq(Commands)
  /\ at = "idle" => cur = NoCall
  /\ at # "dma" => cmds = <<>>
  /\ at # "idle" => table = "ready" /\ cur.rule \in Rules
  /\ at = "link" => cur.entry \in Expn
  /\ at \in {"link", "index"} /\ cur.iprev # 0 => cur.ientry \in Expn
  /\ at = "indexLink" => cur.ientry \in Expn
  /\ table \in {"none", "half"} => rule_hdl = [r \in Rules |-> 0] /\ rule_id_array = [h \in Slots |-> 0]

LEMMA ZeroTypes ==
  /\ ZeroRule \in RuleRec /\ ZeroIndex \in IndexRec
  /\ [e \in Entries |-> ZeroRule] \in Tables /\ [e \in Entries |-> ZeroIndex] \in Indexes
  /\ NoCall \in Calls
  BY Places DEF ZeroRule, ZeroIndex, RuleRec, IndexRec, Tables, Indexes, NoCall, Calls, Positions

LEMMA TableNexts ==
  ASSUME NEW t \in Tables PROVE NextsTyped(t)
  BY DEF Tables, RuleRec, NextsTyped

LEMMA IndexNexts ==
  ASSUME NEW x \in Indexes PROVE NextsTyped(x)
  BY DEF Indexes, IndexRec, NextsTyped

\* Writing a field of an entry.
LEMMA RuleWrites ==
  ASSUME NEW t \in Tables, NEW e \in Entries
  PROVE  /\ \A b \in BOOLEAN : [t EXCEPT ![e].enable = b] \in Tables
         /\ \A b \in BOOLEAN : [t EXCEPT ![e].dead = b] \in Tables
         /\ \A n \in Expn \cup {0} : [t EXCEPT ![e].next = n] \in Tables
         /\ \A n \in Entries : [t EXCEPT ![e].prev = n] \in Tables
         /\ \A n \in Entries : [t EXCEPT ![e].indx = n] \in Tables
         /\ \A r \in RuleRec : [t EXCEPT ![e] = r] \in Tables
  <1>1. t[e] \in RuleRec BY DEF Tables
  <1>2. \A b \in BOOLEAN : [t[e] EXCEPT !.enable = b] \in RuleRec BY <1>1 DEF RuleRec
  <1>3. \A b \in BOOLEAN : [t[e] EXCEPT !.dead = b] \in RuleRec BY <1>1 DEF RuleRec
  <1>4. \A n \in Expn \cup {0} : [t[e] EXCEPT !.next = n] \in RuleRec BY <1>1 DEF RuleRec
  <1>5. \A n \in Entries : [t[e] EXCEPT !.prev = n] \in RuleRec BY <1>1 DEF RuleRec
  <1>6. \A n \in Entries : [t[e] EXCEPT !.indx = n] \in RuleRec BY <1>1 DEF RuleRec
  <1>7. \A r \in RuleRec : [t EXCEPT ![e] = r] \in Tables BY DEF Tables
  <1>8. QED BY <1>2, <1>3, <1>4, <1>5, <1>6, <1>7

LEMMA IndexWrites ==
  ASSUME NEW x \in Indexes, NEW i \in Entries
  PROVE  /\ \A e \in Entries : [x EXCEPT ![i].entry = e] \in Indexes
         /\ \A n \in Expn \cup {0} : [x EXCEPT ![i].next = n] \in Indexes
         /\ \A r \in IndexRec : [x EXCEPT ![i] = r] \in Indexes
  <1>1. x[i] \in IndexRec BY DEF Indexes
  <1>2. \A e \in Entries : [x[i] EXCEPT !.entry = e] \in IndexRec BY <1>1 DEF IndexRec
  <1>3. \A n \in Expn \cup {0} : [x[i] EXCEPT !.next = n] \in IndexRec BY <1>1 DEF IndexRec
  <1>4. \A r \in IndexRec : [x EXCEPT ![i] = r] \in Indexes BY DEF Indexes
  <1>5. QED BY <1>2, <1>3, <1>4

\* The handle of an entry leads back to it.
LEMMA RuleIdFacts ==
  ASSUME NEW e \in Entries
  PROVE  /\ RuleId(e) \in Nat /\ (RuleId(e) = 0 <=> e = 0)
         /\ RuleId(e) % 2 = 1 => table_entries + RuleId(e) \div 2 = e
         /\ RuleId(e) % 2 # 1 => RuleId(e) \div 2 = e
  <1>1. table_entries \in Nat /\ table_entries > 1 /\ e \in Nat BY NatAssumption DEF Entries
  <1>2. CASE e >= table_entries
    <2>1. RuleId(e) = (e - table_entries) * 2 + 1 BY <1>2 DEF RuleId
    <2>2. PICK k \in Nat : k = e - table_entries BY <1>1, <1>2
    <2>3. (k * 2 + 1) % 2 = 1 /\ (k * 2 + 1) \div 2 = k BY <2>2
    <2>4. QED BY <2>1, <2>2, <2>3, <1>1
  <1>3. CASE ~(e >= table_entries)
    <2>1. RuleId(e) = e * 2 BY <1>3 DEF RuleId
    <2>2. (e * 2) % 2 = 0 /\ (e * 2) \div 2 = e BY <1>1
    <2>3. QED BY <2>1, <2>2, <1>1
  <1>4. QED BY <1>2, <1>3

LEMMA TypeParts ==
  ASSUME TypeOK
  PROVE  /\ tbl \in Tables /\ indx \in Indexes /\ prev_index \in [Expn -> Entries]
         /\ rule_id_array \in [Slots -> {RuleId(e) : e \in Entries}] /\ rule_hdl \in [Rules -> Slots \cup {0}]
         /\ fails \in 0..MaxFails
  BY DEF TypeOK, Tables, Indexes, RuleRec, IndexRec

LEMMA LastFacts ==
  ASSUME NEW t, NEW h \in Base, NextsTyped(t)
  PROVE  /\ Last(t, h) \in Entries
         /\ Last(t, h) # 0 => Last(t, h) \in List(t, h) /\ t[Last(t, h)].next = 0
  <1>1. CASE \E e \in List(t, h) : t[e].next = 0
    <2>1. Last(t, h) \in List(t, h) /\ t[Last(t, h)].next = 0 BY <1>1, Zenon DEF Last
    <2>2. QED BY <2>1, ListPlaces
  <1>2. CASE ~ \E e \in List(t, h) : t[e].next = 0
    <2>1. Last(t, h) = 0 BY <1>2, Zenon DEF Last
    <2>2. QED BY <2>1, Places
  <1>3. QED BY <1>1, <1>2

LEMMA FreeFacts ==
  ASSUME NEW used
  PROVE  FreeEntry(used) = 0 \/ FreeEntry(used) \in Expn \ used
  <1> DEFINE free == Expn \ used
  <1>1. CASE free = {} BY <1>1, Zenon DEF FreeEntry
  <1>2. CASE free # {}
    <2>1. free \in SUBSET Nat BY Places
    <2>2. \E x \in free : \A y \in free : x <= y BY <2>1, <1>2, LeastExists
    <2>3. FreeEntry(used) \in free BY <2>2, <1>2, Zenon DEF FreeEntry
    <2>4. QED BY <2>3
  <1>3. QED BY <1>1, <1>2

\* What a rule that is added gets.
Generated(g, r) ==
  /\ g \in Calls /\ g.rule = r /\ g.pos = "none" /\ g.ipos = "none" /\ g.inext = 0
  /\ g.entry = IF DstHash[r] \notin Enabled THEN DstHash[r] ELSE IF Last(tbl, DstHash[r]) = 0 THEN 0 ELSE FreeEntry(Enabled)
  /\ g.prev = IF DstHash[r] \notin Enabled THEN 0 ELSE Last(tbl, DstHash[r])
  /\ g.ientry = IF SrcHash[r] \notin Indexed THEN SrcHash[r] ELSE IF Last(indx, SrcHash[r]) = 0 THEN 0 ELSE FreeEntry(Indexed)
  /\ g.iprev = IF SrcHash[r] \notin Indexed THEN 0 ELSE Last(indx, SrcHash[r])

LEMMA GenerateFacts ==
  ASSUME TypeOK, NEW r \in Rules
  PROVE  Generated(GenerateRule(r), r)
  <1> DEFINE d == DstHash[r]
             s == SrcHash[r]
             a == IF d \notin Enabled THEN d ELSE IF Last(tbl, d) = 0 THEN 0 ELSE FreeEntry(Enabled)
             b == IF d \notin Enabled THEN 0 ELSE Last(tbl, d)
             i == IF s \notin Indexed THEN s ELSE IF Last(indx, s) = 0 THEN 0 ELSE FreeEntry(Indexed)
             j == IF s \notin Indexed THEN 0 ELSE Last(indx, s)
  <1>1. d \in Base /\ s \in Base BY NatAssumption
  <1>2. NextsTyped(tbl) /\ NextsTyped(indx) BY TypeParts, TableNexts, IndexNexts
  <1>3. Last(tbl, d) \in Entries /\ Last(indx, s) \in Entries BY <1>1, <1>2, LastFacts
  <1>4. FreeEntry(Enabled) \in Entries /\ FreeEntry(Indexed) \in Entries BY FreeFacts, Places
  <1>5. a \in Entries /\ b \in Entries /\ i \in Entries /\ j \in Entries BY <1>1, <1>3, <1>4, Places
  <1>6. GenerateRule(r) = [NoCall EXCEPT !.rule = r, !.entry = a, !.prev = b, !.ientry = i, !.iprev = j]
    BY Zenon DEF GenerateRule
  <1> HIDE DEF a, b, i, j
  <1>7. GenerateRule(r) = [rule |-> r, entry |-> a, prev |-> b, ientry |-> i, iprev |-> j, inext |-> 0,
                           pos |-> "none", ipos |-> "none"]
    BY <1>6 DEF NoCall
  <1>8. QED BY <1>5, <1>7, Places DEF a, b, i, j, Generated, Calls, Positions

\* The types of the tables, and the rest of the types.
TablesTyped == tbl \in Tables /\ indx \in Indexes /\ prev_index \in [Expn -> Entries]
HandlesTyped ==
  /\ rule_id_array \in [Slots -> {RuleId(e) : e \in Entries}] /\ rule_hdl \in [Rules -> Slots \cup {0}]
  /\ table \in {"none", "half"} => rule_hdl = [r \in Rules |-> 0] /\ rule_id_array = [h \in Slots |-> 0]
CallTyped ==
  /\ cur \in Calls /\ (cur.ipos = "MIDDLE" => cur.ientry \in Expn)
  /\ cmds \in Seq(Commands)
  /\ at = "idle" => cur = NoCall
  /\ at # "dma" => cmds = <<>>
  /\ at # "idle" => table = "ready" /\ cur.rule \in Rules
  /\ at = "link" => cur.entry \in Expn
  /\ at \in {"link", "index"} /\ cur.iprev # 0 => cur.ientry \in Expn
  /\ at = "indexLink" => cur.ientry \in Expn
  /\ table \in {"none", "half", "ready", "unmapped"}
  /\ at \in {"idle", "link", "index", "indexLink", "enable", "dma"}
  /\ fails \in 0..MaxFails

LEMMA TypeInvParts == TypeInv <=> TablesTyped /\ HandlesTyped /\ CallTyped
  BY DEF TypeInv, TypeOK, TablesTyped, HandlesTyped, CallTyped, Tables, Indexes, RuleRec, IndexRec

LEMMA TypeInvPartsNext == TypeInv' <=> TablesTyped' /\ HandlesTyped' /\ CallTyped'
  BY DEF TypeInv, TypeOK, TablesTyped, HandlesTyped, CallTyped, Tables, Indexes, RuleRec, IndexRec

LEMMA FailsNext ==
  ASSUME fails \in 0..MaxFails, UNCHANGED fails \/ Fails PROVE fails' \in 0..MaxFails
  BY NatAssumption DEF Fails

LEMMA NoHandlesTyped ==
  /\ [h \in Slots |-> 0] \in [Slots -> {RuleId(e) : e \in Entries}]
  /\ [r \in Rules |-> 0] \in [Rules -> Slots \cup {0}]
  <1>1. RuleId(0) = 0 BY RuleIdFacts, Places
  <1>2. 0 \in {RuleId(e) : e \in Entries} BY <1>1, Places
  <1>3. QED BY <1>2

\* The table as a whole is added or deleted.
LEMMA TypesOfTables ==
  ASSUME TypeInv, AddTable \/ AddTableFails \/ DelTable \/ DelTableFails
  PROVE  TypeInv'
  <1>0. TablesTyped /\ HandlesTyped /\ CallTyped BY TypeInvParts
  <1>1. TablesTyped'
    <2>1. [e \in Expn |-> 0] \in [Expn -> Entries] BY Places
    <2>2. UNCHANGED hw \/ (tbl' = [e \in Entries |-> ZeroRule] /\ indx' = [e \in Entries |-> ZeroIndex])
      BY DEF AddTable, AddTableFails, DelTable, DelTableFails, hw
    <2>3. UNCHANGED prev_index \/ prev_index' = [e \in Expn |-> 0]
      BY DEF AddTable, AddTableFails, DelTable, DelTableFails
    <2>4. QED BY <1>0, <2>1, <2>2, <2>3, ZeroTypes DEF TablesTyped, hw
  <1>2. HandlesTyped' BY <1>0, NoHandlesTyped DEF HandlesTyped, AddTable, AddTableFails, DelTable, DelTableFails
  <1>3. CallTyped'
    <2>1. UNCHANGED <<at, cur, cmds>> /\ (UNCHANGED fails \/ Fails) /\ table' \in {"none", "half", "ready", "unmapped"} /\ at = "idle"
      BY <1>0 DEF AddTable, AddTableFails, DelTable, DelTableFails, CallTyped
    <2>2. fails' \in 0..MaxFails BY <2>1, <1>0, FailsNext DEF CallTyped
    <2>3. QED BY <1>0, <2>1, <2>2 DEF CallTyped
  <1>4. QED BY <1>1, <1>2, <1>3, TypeInvPartsNext

NewRule(g) == [ZeroRule EXCEPT !.rule = g.rule, !.prev = g.prev, !.indx = g.ientry]

LEMMA NewRuleFacts ==
  ASSUME NEW g \in Calls
  PROVE  /\ NewRule(g) \in RuleRec
         /\ NewRule(g) = [enable |-> FALSE, dead |-> FALSE, rule |-> g.rule, next |-> 0, prev |-> g.prev, indx |-> g.ientry]
  <1>1. g.rule \in Rules \cup {NoRule} /\ g.prev \in Entries /\ g.ientry \in Entries BY DEF Calls
  <1>2. NewRule(g) = [enable |-> FALSE, dead |-> FALSE, rule |-> g.rule, next |-> 0, prev |-> g.prev, indx |-> g.ientry]
    <2> DEFINE a == g.rule
               b == g.prev
               i == g.ientry
    <2>1. NewRule(g) = [ZeroRule EXCEPT !.rule = a, !.prev = b, !.indx = i] BY Zenon DEF NewRule
    <2> HIDE DEF a, b, i
    <2>2. NewRule(g) = [enable |-> FALSE, dead |-> FALSE, rule |-> a, next |-> 0, prev |-> b, indx |-> i]
      BY <2>1 DEF ZeroRule
    <2>3. QED BY <2>2 DEF a, b, i
  <1>3. QED BY <1>1, <1>2 DEF RuleRec

LEMMA TypesOfAddRule ==
  ASSUME TypeInv, NEW r \in Rules, AddRule(r)
  PROVE  TypeInv'
  <1>0. TablesTyped /\ HandlesTyped /\ CallTyped BY TypeInvParts
  <1> DEFINE g == GenerateRule(r)
  <1>1. Generated(g, r) BY GenerateFacts DEF TypeInv
  <1>2. g \in Calls /\ g.rule = r /\ g.ipos = "none" BY <1>1 DEF Generated
  <1>3. /\ at = "idle" /\ table = "ready" /\ g.entry # 0 /\ g.ientry # 0
        /\ prev_index' = IF g.ientry \in Expn THEN [prev_index EXCEPT ![g.ientry] = g.iprev] ELSE prev_index
        /\ tbl' = [tbl EXCEPT ![g.entry] = [ZeroRule EXCEPT !.rule = r, !.prev = g.prev, !.indx = g.ientry]]
        /\ cur' = g
        /\ at' = IF g.prev # 0 THEN "link" ELSE "index"
        /\ UNCHANGED <<indx, table, rule_id_array, cmds, rule_hdl, fails>>
    BY Zenon DEF AddRule
  <1> HIDE DEF g
  <1>4. g.entry \in Entries /\ g.iprev \in Entries BY <1>2 DEF Calls
  <1>5. tbl' = [tbl EXCEPT ![g.entry] = NewRule(g)] BY <1>2, <1>3 DEF NewRule
  <1>6. tbl' \in Tables BY <1>5, <1>4, <1>0, <1>2, NewRuleFacts, RuleWrites DEF TablesTyped
  <1>7. TablesTyped' BY <1>0, <1>3, <1>4, <1>6 DEF TablesTyped
  <1>8. HandlesTyped' BY <1>0, <1>3 DEF HandlesTyped
  <1>9. g.prev # 0 => g.entry \in Expn
    <2>1. g.prev # 0 => g.entry = FreeEntry(Enabled) BY <1>1 DEF Generated
    <2>2. QED BY <2>1, <1>3, FreeFacts
  <1>10. g.iprev # 0 => g.ientry \in Expn
    <2>1. g.iprev # 0 => g.ientry = FreeEntry(Indexed) BY <1>1 DEF Generated
    <2>2. QED BY <2>1, <1>3, FreeFacts
  <1>11. CallTyped' BY <1>0, <1>2, <1>3, <1>9, <1>10 DEF CallTyped
  <1>12. QED BY <1>7, <1>8, <1>11, TypeInvPartsNext

LEMMA CurTypes ==
  ASSUME CallTyped
  PROVE  /\ cur.entry \in Entries /\ cur.prev \in Entries /\ cur.ientry \in Entries /\ cur.iprev \in Entries
         /\ cur.inext \in Expn \cup {0} /\ cur.rule \in Rules \cup {NoRule}
  BY DEF CallTyped, Calls

LEMMA TypesOfAddSteps ==
  ASSUME TypeInv, AddLink \/ AddIndex \/ AddIndexLink
  PROVE  TypeInv'
  <1>0. TablesTyped /\ HandlesTyped /\ CallTyped BY TypeInvParts
  <1>a. /\ cur.entry \in Entries /\ cur.prev \in Entries /\ cur.ientry \in Entries /\ cur.iprev \in Entries
    BY <1>0, CurTypes
  <1>1. UNCHANGED <<table, prev_index, rule_id_array, cur, cmds, rule_hdl>> /\ (UNCHANGED fails \/ Fails)
    BY DEF AddLink, AddIndex, AddIndexLink, cache
  <1>2. fails' \in 0..MaxFails BY <1>0, <1>1, FailsNext DEF CallTyped
  <1>3. CASE AddLink
    <2>1. at = "link" /\ at' = "index" /\ indx' = indx BY <1>3 DEF AddLink
    <2>2. cur.entry \in Expn BY <1>0, <2>1 DEF CallTyped
    <2>3. tbl' = [tbl EXCEPT ![cur.prev].next = cur.entry] \/ tbl' = tbl BY <1>3 DEF AddLink
    <2>4. tbl' \in Tables BY <1>0, <1>a, <2>2, <2>3, RuleWrites DEF TablesTyped
    <2>5. TablesTyped' BY <1>0, <1>1, <2>1, <2>4 DEF TablesTyped
    <2>6. CallTyped' BY <1>0, <1>1, <1>2, <2>1 DEF CallTyped
    <2>7. HandlesTyped' BY <1>0, <1>1 DEF HandlesTyped
    <2>8. QED BY <2>5, <2>6, <2>7, TypeInvPartsNext
  <1>4. CASE AddIndex
    <2>1. at = "index" /\ tbl' = tbl /\ at' = IF cur.iprev # 0 THEN "indexLink" ELSE "enable" BY <1>4 DEF AddIndex
    <2>2. indx' = [indx EXCEPT ![cur.ientry] = [entry |-> cur.entry, next |-> 0]] BY <1>4 DEF AddIndex
    <2>3. [entry |-> cur.entry, next |-> 0] \in IndexRec BY <1>a DEF IndexRec
    <2>4. indx' \in Indexes BY <1>0, <1>a, <2>2, <2>3, IndexWrites DEF TablesTyped
    <2>5. TablesTyped' BY <1>0, <1>1, <2>1, <2>4 DEF TablesTyped
    <2>6. CallTyped' BY <1>0, <1>1, <1>2, <2>1 DEF CallTyped
    <2>7. HandlesTyped' BY <1>0, <1>1 DEF HandlesTyped
    <2>8. QED BY <2>5, <2>6, <2>7, TypeInvPartsNext
  <1>5. CASE AddIndexLink
    <2>1. at = "indexLink" /\ tbl' = tbl /\ at' = "enable" BY <1>5 DEF AddIndexLink
    <2>2. indx' = [indx EXCEPT ![cur.iprev].next = cur.ientry] \/ indx' = indx BY <1>5 DEF AddIndexLink
    <2>3. cur.ientry \in Expn BY <1>0, <2>1 DEF CallTyped
    <2>4. indx' \in Indexes BY <1>0, <1>a, <2>2, <2>3, IndexWrites DEF TablesTyped
    <2>5. TablesTyped' BY <1>0, <1>1, <2>1, <2>4 DEF TablesTyped
    <2>6. CallTyped' BY <1>0, <1>1, <1>2, <2>1 DEF CallTyped
    <2>7. HandlesTyped' BY <1>0, <1>1 DEF HandlesTyped
    <2>8. QED BY <2>5, <2>6, <2>7, TypeInvPartsNext
  <1>6. QED BY <1>3, <1>4, <1>5

LEMMA FreeHandleFacts ==
  FreeHandle = 0 \/ (FreeHandle \in Slots /\ rule_id_array[FreeHandle] = 0
                       /\ \A h \in Slots : rule_id_array[h] = 0 => FreeHandle <= h)
  <1> DEFINE free == {h \in Slots : rule_id_array[h] = 0}
  <1>1. CASE free = {} BY <1>1, Zenon DEF FreeHandle
  <1>2. CASE free # {}
    <2>1. free \in SUBSET Nat BY NatAssumption DEF Slots
    <2>2. \E x \in free : \A y \in free : x <= y BY <2>1, <1>2, LeastExists
    <2>3. FreeHandle = CHOOSE h \in free : \A g \in free : h <= g BY <1>2, Zenon DEF FreeHandle
    <2>4. FreeHandle \in free /\ \A y \in free : FreeHandle <= y BY <2>2, <2>3, Zenon
    <2>5. QED BY <2>4
  <1>3. QED BY <1>1, <1>2

LEMMA TypesOfAddEnable ==
  ASSUME TypeInv, AddEnable
  PROVE  TypeInv'
  <1>0. TablesTyped /\ HandlesTyped /\ CallTyped BY TypeInvParts
  <1>1. cur.entry \in Entries BY <1>0, CurTypes
  <1>2. /\ at = "enable" /\ at' = "idle" /\ cur' = NoCall /\ UNCHANGED <<indx, table, prev_index, cmds>>
        /\ UNCHANGED fails \/ Fails
    BY DEF AddEnable
  <1>3. fails' \in 0..MaxFails BY <1>0, <1>2, FailsNext DEF CallTyped
  <1>4. tbl' = [tbl EXCEPT ![cur.entry].enable = TRUE] \/ tbl' = tbl BY DEF AddEnable
  <1>5. tbl' \in Tables BY <1>0, <1>1, <1>4, RuleWrites DEF TablesTyped
  <1>6. TablesTyped' BY <1>0, <1>2, <1>5 DEF TablesTyped
  <1>7. NoCall.ipos = "none" /\ NoCall.iprev = 0 /\ NoCall \in Calls BY ZeroTypes DEF NoCall
  <1>8. CallTyped' BY <1>0, <1>2, <1>3, <1>7 DEF CallTyped
  <1>9. table = "ready" BY <1>0, <1>2 DEF CallTyped
  <1>10. HandlesTyped'
    <2>1. \/ /\ rule_id_array' = IF FreeHandle = 0 THEN rule_id_array ELSE [rule_id_array EXCEPT ![FreeHandle] = RuleId(cur.entry)]
             /\ rule_hdl' = [rule_hdl EXCEPT ![cur.rule] = FreeHandle]
          \/ UNCHANGED <<rule_id_array, rule_hdl>>
      BY DEF AddEnable
    <2>2. RuleId(cur.entry) \in {RuleId(e) : e \in Entries} BY <1>1
    <2>3. FreeHandle \in Slots \cup {0} BY FreeHandleFacts
    <2>4. QED BY <1>0, <1>2, <1>9, <2>1, <2>2, <2>3 DEF HandlesTyped
  <1>11. QED BY <1>6, <1>8, <1>10, TypeInvPartsNext

\* What a handle leads to is an entry.
LEMMA ParseFacts ==
  ASSUME HandlesTyped, NEW h \in Slots
  PROVE  /\ ParseHdl(h) \in Entries
         /\ ParseHdl(h) # 0 => h < table_entries + expn_table_entries /\ rule_id_array[h] = RuleId(ParseHdl(h))
         /\ \A e \in Entries : e # 0 /\ h < table_entries + expn_table_entries /\ rule_id_array[h] = RuleId(e) => ParseHdl(h) = e
  <1>1. PICK e \in Entries : rule_id_array[h] = RuleId(e) BY DEF HandlesTyped
  <1>2. table_entries \in Nat /\ expn_table_entries \in Nat /\ h \in Nat BY NatAssumption DEF Slots
  <1>3. CASE h >= table_entries + expn_table_entries \/ rule_id_array[h] = 0
    <2>1. ParseHdl(h) = 0 BY <1>3 DEF ParseHdl
    <2>2. \A f \in Entries : f # 0 => RuleId(f) # 0 BY RuleIdFacts
    <2>3. QED BY <2>1, <2>2, <1>2, <1>3, Places
  <1>4. CASE h < table_entries + expn_table_entries /\ rule_id_array[h] # 0
    <2>1. ParseHdl(h) = e BY <1>1, <1>2, <1>4, RuleIdFacts DEF ParseHdl
    <2>2. \A f \in Entries : RuleId(f) = RuleId(e) => f = e BY RuleIdFacts
    <2>3. QED BY <2>1, <2>2, <1>1, <1>4
  <1>5. QED BY <1>2, <1>3, <1>4

\* The one command that takes a rule out of its list.
RuleCmd(t, e) ==
  CASE Position(t, e) = "ONLY_ONE" -> Cmd("disable", e, 0)
    [] Position(t, e) = "HEAD"     -> Cmd("proto", e, 0)
    [] OTHER                       -> Cmd("next", t[e].prev, t[e].next)

\* The first command on the index, and the second one, that only the head of a list takes.
IndexCmd(x, p, i) ==
  CASE Position(x, i) = "ONLY_ONE" -> Cmd("ientry", i, 0)
    [] Position(x, i) = "HEAD"     -> Cmd("ientry", i, x[x[i].next].entry)
    [] OTHER                       -> Cmd("inext", p[i], x[i].next)
HeadCmd(x, i) == Cmd("inext", i, x[x[i].next].next)

LEMMA PositionFacts ==
  ASSUME NEW t, NEW e \in Entries
  PROVE  /\ Position(t, e) \in Positions
         /\ Position(t, e) = "ONLY_ONE" <=> e \notin Expn /\ t[e].next = 0
         /\ Position(t, e) = "HEAD" <=> e \notin Expn /\ t[e].next # 0
         /\ Position(t, e) = "LAST" <=> e \in Expn /\ t[e].next = 0
         /\ Position(t, e) = "MIDDLE" <=> e \in Expn /\ t[e].next # 0
  BY DEF Position, Positions

LEMMA CommandSteps ==
  ASSUME NEW e \in Entries, NEW i \in Entries
  PROVE  /\ RuleCmds(e) = <<RuleCmd(tbl, e)>>
         /\ Position(indx, i) = "HEAD" => IndexCmds(i) = <<IndexCmd(indx, prev_index, i), HeadCmd(indx, i)>>
         /\ Position(indx, i) # "HEAD" => IndexCmds(i) = <<IndexCmd(indx, prev_index, i)>>
  <1>1. RuleCmds(e) = <<RuleCmd(tbl, e)>>
    <2>1. CASE Position(tbl, e) = "ONLY_ONE" BY <2>1 DEF RuleCmds, RuleCmd
    <2>2. CASE Position(tbl, e) = "HEAD" BY <2>2 DEF RuleCmds, RuleCmd
    <2>3. CASE Position(tbl, e) # "ONLY_ONE" /\ Position(tbl, e) # "HEAD" BY <2>3 DEF RuleCmds, RuleCmd
    <2>4. QED BY <2>1, <2>2, <2>3
  <1>2. CASE Position(indx, i) = "ONLY_ONE" BY <1>1, <1>2 DEF IndexCmds, IndexCmd
  <1>3. CASE Position(indx, i) = "HEAD" BY <1>1, <1>3 DEF IndexCmds, IndexCmd, HeadCmd
  <1>4. CASE Position(indx, i) # "ONLY_ONE" /\ Position(indx, i) # "HEAD" BY <1>1, <1>4 DEF IndexCmds, IndexCmd
  <1>5. QED BY <1>2, <1>3, <1>4

LEMMA CommandTypes ==
  ASSUME NEW t \in Tables, NEW x \in Indexes, NEW p \in [Expn -> Entries], NEW e \in Entries, NEW i \in Entries
  PROVE  /\ RuleCmd(t, e) \in Commands /\ IndexCmd(x, p, i) \in Commands
         /\ Position(x, i) = "HEAD" => HeadCmd(x, i) \in Commands
  <1>1. t[e].prev \in Entries /\ t[e].next \in Expn \cup {0} BY DEF Tables, RuleRec
  <1>2. x[i].next \in Expn \cup {0} /\ x[i].entry \in Entries BY DEF Indexes, IndexRec
  <1>3. x[i].next \in Entries BY <1>2, Places
  <1>4. x[x[i].next].entry \in Entries /\ x[x[i].next].next \in Expn \cup {0} BY <1>3 DEF Indexes, IndexRec
  <1>5. RuleCmd(t, e) \in Commands
    <2>1. CASE Position(t, e) = "ONLY_ONE" BY <2>1 DEF RuleCmd, Cmd, Commands
    <2>2. CASE Position(t, e) = "HEAD" BY <2>2 DEF RuleCmd, Cmd, Commands
    <2>3. CASE Position(t, e) # "ONLY_ONE" /\ Position(t, e) # "HEAD" BY <2>3, <1>1 DEF RuleCmd, Cmd, Commands
    <2>4. QED BY <2>1, <2>2, <2>3
  <1>6. IndexCmd(x, p, i) \in Commands
    <2>1. CASE Position(x, i) = "ONLY_ONE" BY <2>1, Places DEF IndexCmd, Cmd, Commands
    <2>2. CASE Position(x, i) = "HEAD" BY <2>2, <1>4 DEF IndexCmd, Cmd, Commands
    <2>3. CASE Position(x, i) # "ONLY_ONE" /\ Position(x, i) # "HEAD"
      <3>1. i \in Expn BY <2>3, PositionFacts
      <3>2. p[i] \in Entries BY <3>1
      <3>3. QED BY <2>3, <3>2, <1>2 DEF IndexCmd, Cmd, Commands
    <2>4. QED BY <2>1, <2>2, <2>3
  <1>7. HeadCmd(x, i) \in Commands BY <1>4 DEF HeadCmd, Cmd, Commands
  <1>8. QED BY <1>5, <1>6, <1>7

\* The call that deletes a rule.
Call(r, e, i) ==
  [NoCall EXCEPT !.rule = r, !.entry = e, !.ientry = i, !.inext = indx[i].next,
                 !.pos = Position(tbl, e), !.ipos = Position(indx, i)]

LEMMA CallFacts ==
  ASSUME TablesTyped, NEW r \in Rules, NEW e \in Entries, NEW i \in Entries
  PROVE  /\ Call(r, e, i) \in Calls
         /\ Call(r, e, i).rule = r /\ Call(r, e, i).entry = e /\ Call(r, e, i).ientry = i /\ Call(r, e, i).iprev = 0
         /\ Call(r, e, i).inext = indx[i].next
         /\ Call(r, e, i).pos = Position(tbl, e) /\ Call(r, e, i).ipos = Position(indx, i)
  <1> DEFINE n == indx[i].next
             a == Position(tbl, e)
             b == Position(indx, i)
  <1>1. n \in Expn \cup {0} /\ a \in Positions /\ b \in Positions
    BY PositionFacts DEF TablesTyped, Indexes, IndexRec
  <1>2. Call(r, e, i) = [NoCall EXCEPT !.rule = r, !.entry = e, !.ientry = i, !.inext = n, !.pos = a, !.ipos = b]
    BY Zenon DEF Call
  <1> HIDE DEF n, a, b
  <1>3. Call(r, e, i) = [rule |-> r, entry |-> e, prev |-> 0, ientry |-> i, iprev |-> 0, inext |-> n, pos |-> a, ipos |-> b]
    BY <1>2 DEF NoCall
  <1>4. QED BY <1>1, <1>3, Places DEF n, a, b, Calls

\* A deletion begins.
DelBegins(r, e, i) ==
  /\ e = ParseHdl(rule_hdl[r]) /\ i = tbl[e].indx
  /\ e \in Entries /\ e # 0 /\ i \in Entries /\ rule_hdl[r] \in Slots
  /\ at = "idle" /\ table = "ready" /\ tbl[e].enable
  /\ at' = "dma" /\ cur' = Call(r, e, i) /\ UNCHANGED <<hw, cache, rule_hdl>>
  /\ \/ UNCHANGED fails /\ cmds' = IndexCmds(i) \o RuleCmds(e)
     \/ Fails /\ cmds' = RuleCmds(e) \o IndexCmds(i)

LEMMA DelRuleFacts ==
  ASSUME TypeInv, NEW r \in Rules, DelRule(r)
  PROVE  \E e, i \in Entries : DelBegins(r, e, i)
  <1>0. TablesTyped /\ HandlesTyped /\ CallTyped BY TypeInvParts
  <1> DEFINE e == ParseHdl(rule_hdl[r])
             i == tbl[e].indx
  <1>1. rule_hdl[r] # 0 BY DEF DelRule
  <1>2. rule_hdl[r] \in Slots BY <1>0, <1>1 DEF HandlesTyped
  <1>3. e \in Entries BY <1>0, <1>2, ParseFacts
  <1>4. i \in Entries BY <1>0, <1>3 DEF TablesTyped, Tables, RuleRec
  <1>5. /\ at = "idle" /\ table = "ready" /\ e # 0 /\ tbl[e].enable
        /\ at' = "dma" /\ cur' = Call(r, e, i) /\ UNCHANGED <<hw, cache, rule_hdl>>
        /\ \/ UNCHANGED fails /\ cmds' = IndexCmds(i) \o RuleCmds(e)
           \/ Fails /\ cmds' = RuleCmds(e) \o IndexCmds(i)
    BY Zenon DEF DelRule, Call
  <1> HIDE DEF e, i
  <1>6. DelBegins(r, e, i) BY <1>2, <1>3, <1>4, <1>5 DEF DelBegins, e, i
  <1>7. QED BY <1>3, <1>4, <1>6

LEMMA TypesOfDelRule ==
  ASSUME TypeInv, NEW r \in Rules, DelRule(r)
  PROVE  TypeInv'
  <1>0. TablesTyped /\ HandlesTyped /\ CallTyped BY TypeInvParts
  <1>1. PICK e, i \in Entries : DelBegins(r, e, i) BY DelRuleFacts
  <1>2. IndexCmds(i) \in Seq(Commands) /\ RuleCmds(e) \in Seq(Commands)
    <2>1. RuleCmd(tbl, e) \in Commands /\ IndexCmd(indx, prev_index, i) \in Commands
          /\ (Position(indx, i) = "HEAD" => HeadCmd(indx, i) \in Commands)
      BY <1>0, CommandTypes DEF TablesTyped
    <2>2. RuleCmds(e) \in Seq(Commands)
      <3>1. RuleCmds(e) = <<RuleCmd(tbl, e)>> BY CommandSteps
      <3>2. QED BY <2>1, <3>1
    <2>3. CASE Position(indx, i) = "HEAD"
      <3>1. IndexCmds(i) = <<IndexCmd(indx, prev_index, i), HeadCmd(indx, i)>> BY <2>3, CommandSteps
      <3>2. QED BY <2>1, <2>2, <2>3, <3>1
    <2>4. CASE Position(indx, i) # "HEAD"
      <3>1. IndexCmds(i) = <<IndexCmd(indx, prev_index, i)>> BY <2>4, CommandSteps
      <3>2. QED BY <2>1, <2>2, <3>1
    <2>5. QED BY <2>3, <2>4
  <1>3. cmds' \in Seq(Commands)
    <2>1. cmds' = IndexCmds(i) \o RuleCmds(e) \/ cmds' = RuleCmds(e) \o IndexCmds(i) BY <1>1 DEF DelBegins
    <2>2. QED BY <1>2, <2>1, ConcatProperties
  <1>4. UNCHANGED fails \/ Fails BY <1>1 DEF DelBegins
  <1>5. fails' \in 0..MaxFails BY <1>0, <1>4, FailsNext DEF CallTyped
  <1>6. TablesTyped' /\ HandlesTyped' BY <1>0, <1>1 DEF TablesTyped, HandlesTyped, DelBegins, hw, cache
  <1>7. cur' \in Calls /\ cur'.rule = r /\ cur'.ientry = i /\ cur'.iprev = 0 /\ cur'.ipos = Position(indx, i)
    BY <1>0, <1>1, CallFacts DEF DelBegins
  <1>8. cur'.ipos = "MIDDLE" => cur'.ientry \in Expn BY <1>7, PositionFacts
  <1>9. CallTyped' BY <1>0, <1>1, <1>3, <1>5, <1>7, <1>8 DEF CallTyped, DelBegins, cache
  <1>10. QED BY <1>6, <1>9, TypeInvPartsNext

\* What a command does to the tables.
Wrote(t, k) ==
  CASE k.field = "disable" -> [t EXCEPT ![k.entry].enable = FALSE]
    [] k.field = "proto"   -> [t EXCEPT ![k.entry].dead = TRUE]
    [] k.field = "next"    -> [t EXCEPT ![k.entry].next = k.data]
    [] OTHER               -> t
WroteIndex(x, k) ==
  CASE k.field = "ientry" -> [x EXCEPT ![k.entry].entry = k.data]
    [] k.field = "inext"  -> [x EXCEPT ![k.entry].next = k.data]
    [] OTHER              -> x

LEMMA DmaFacts ==
  ASSUME Dma
  PROVE  /\ at = "dma" /\ cmds # <<>> /\ cmds' = Tail(cmds)
         /\ tbl' = Wrote(tbl, Head(cmds)) /\ indx' = WroteIndex(indx, Head(cmds))
         /\ UNCHANGED <<cache, at, cur, rule_hdl, fails>>
  BY Zenon DEF Dma, Wrote, WroteIndex

LEMMA CommandCases ==
  ASSUME NEW k \in Commands
  PROVE  /\ k.entry \in Entries
         /\ \/ k.field \in {"next", "inext"} /\ k.data \in Expn \cup {0}
            \/ k.field \in {"disable", "proto"}
            \/ k.field = "ientry" /\ k.data \in Entries
  <1>1. CASE k \in [field : {"next", "inext"}, entry : Entries, data : Expn \cup {0}] BY <1>1
  <1>2. CASE k \in [field : {"disable", "proto"}, entry : Entries, data : {0}] BY <1>2
  <1>3. CASE k \in [field : {"ientry"}, entry : Entries, data : Entries] BY <1>3
  <1>4. QED BY <1>1, <1>2, <1>3 DEF Commands

LEMMA WroteTypes ==
  ASSUME NEW t \in Tables, NEW x \in Indexes, NEW k \in Commands
  PROVE  Wrote(t, k) \in Tables /\ WroteIndex(x, k) \in Indexes
  <1>1. k.entry \in Entries BY CommandCases
  <1>2. CASE k.field = "disable" BY <1>1, <1>2, RuleWrites DEF Wrote, WroteIndex
  <1>3. CASE k.field = "proto" BY <1>1, <1>3, RuleWrites DEF Wrote, WroteIndex
  <1>4. CASE k.field = "next"
    <2>1. k.data \in Expn \cup {0} BY <1>4, CommandCases
    <2>2. [t EXCEPT ![k.entry].next = k.data] \in Tables BY <1>1, <2>1, RuleWrites
    <2>3. QED BY <1>4, <2>2 DEF Wrote, WroteIndex
  <1>5. CASE k.field = "ientry"
    <2>1. k.data \in Entries BY <1>5, CommandCases
    <2>2. [x EXCEPT ![k.entry].entry = k.data] \in Indexes BY <1>1, <2>1, IndexWrites
    <2>3. QED BY <1>5, <2>2 DEF Wrote, WroteIndex
  <1>6. CASE k.field = "inext"
    <2>1. k.data \in Expn \cup {0} BY <1>6, CommandCases
    <2>2. [x EXCEPT ![k.entry].next = k.data] \in Indexes BY <1>1, <2>1, IndexWrites
    <2>3. QED BY <1>6, <2>2 DEF Wrote, WroteIndex
  <1>7. QED BY <1>2, <1>3, <1>4, <1>5, <1>6, CommandCases

LEMMA TypesOfDma ==
  ASSUME TypeInv, Dma \/ DmaFails
  PROVE  TypeInv'
  <1>0. TablesTyped /\ HandlesTyped /\ CallTyped BY TypeInvParts
  <1>1. CASE Dma
    <2>1. /\ at = "dma" /\ cmds # <<>> /\ cmds' = Tail(cmds)
          /\ tbl' = Wrote(tbl, Head(cmds)) /\ indx' = WroteIndex(indx, Head(cmds))
          /\ UNCHANGED <<cache, at, cur, rule_hdl, fails>>
      BY <1>1, DmaFacts
    <2>2. cmds \in Seq(Commands) BY <1>0 DEF CallTyped
    <2>3. Head(cmds) \in Commands /\ cmds' \in Seq(Commands) BY <2>1, <2>2, HeadTailProperties
    <2>4. tbl' \in Tables /\ indx' \in Indexes BY <1>0, <2>1, <2>3, WroteTypes DEF TablesTyped
    <2>5. TablesTyped' /\ HandlesTyped' BY <1>0, <2>1, <2>4 DEF TablesTyped, HandlesTyped, cache
    <2>6. CallTyped' BY <1>0, <2>1, <2>3 DEF CallTyped, cache
    <2>7. QED BY <2>5, <2>6, TypeInvPartsNext
  <1>2. CASE DmaFails
    <2>1. TablesTyped' /\ HandlesTyped' BY <1>0, <1>2 DEF TablesTyped, HandlesTyped, DmaFails, hw, cache
    <2>2. fails' \in 0..MaxFails BY <1>0, <1>2, FailsNext DEF CallTyped, DmaFails
    <2>3. NoCall.ipos = "none" /\ NoCall.iprev = 0 /\ NoCall \in Calls BY ZeroTypes DEF NoCall
    <2>4. CallTyped' BY <1>0, <1>2, <2>2, <2>3 DEF CallTyped, DmaFails, cache
    <2>5. QED BY <2>1, <2>4, TypeInvPartsNext
  <1>3. QED BY <1>1, <1>2

LEMMA CleanTypes ==
  ASSUME TypeInv
  PROVE  /\ CleanRules \in Tables
         /\ \A t \in Tables : DelDeadHeads(t) \in Tables
         /\ FreedIndex \in Entries /\ CleanMeta \in [Expn -> Entries]
  <1>0. TablesTyped /\ HandlesTyped /\ CallTyped BY TypeInvParts
  <1>a. /\ cur.entry \in Entries /\ cur.ientry \in Entries /\ cur.inext \in Expn \cup {0}
    BY <1>0, CurTypes
  <1>t. tbl \in Tables /\ indx \in Indexes /\ prev_index \in [Expn -> Entries] BY <1>0 DEF TablesTyped
  <1>1. CleanRules \in Tables
    <2> DEFINE n == tbl[cur.entry].next
               p == tbl[cur.entry].prev
               j == indx[cur.ientry].entry
               moved == IF cur.pos = "MIDDLE" THEN [tbl EXCEPT ![n].prev = p] ELSE tbl
               gone == IF cur.pos # "HEAD" THEN [moved EXCEPT ![cur.entry] = ZeroRule] ELSE moved
    <2>1. n \in Entries /\ p \in Entries BY <1>t, <1>a, Places DEF Tables, RuleRec
    <2>2. j \in Entries BY <1>t, <1>a DEF Indexes, IndexRec
    <2>3. moved \in Tables BY <1>t, <2>1, RuleWrites
    <2>4. gone \in Tables BY <2>3, <1>a, RuleWrites, ZeroTypes
    <2>5. CleanRules = IF cur.ipos = "HEAD" THEN [gone EXCEPT ![j].indx = cur.ientry] ELSE gone
      BY Zenon DEF CleanRules
    <2> HIDE DEF gone, moved, j
    <2>6. QED BY <2>2, <2>4, <2>5, <1>a, RuleWrites
  <1>2. ASSUME NEW t \in Tables PROVE DelDeadHeads(t) \in Tables
    BY ZeroTypes DEF DelDeadHeads, Tables
  <1>3. FreedIndex \in Entries BY <1>a, Places DEF FreedIndex
  <1>4. CleanMeta \in [Expn -> Entries]
    <2> DEFINE nxt == indx[FreedIndex].next
    <2>1. nxt \in Expn \cup {0} BY <1>3, <1>t DEF Indexes, IndexRec
    <2>2. CASE cur.ipos = "HEAD" /\ nxt # 0
      <3>1. CleanMeta = [prev_index EXCEPT ![nxt] = cur.ientry] BY <2>2, Zenon DEF CleanMeta
      <3>2. QED BY <3>1, <1>t, <1>a
    <2>3. CASE cur.ipos = "MIDDLE"
      <3>1. CleanMeta = [prev_index EXCEPT ![nxt] = prev_index[cur.ientry], ![cur.ientry] = 0] BY <2>3 DEF CleanMeta
      <3>2. prev_index[cur.ientry] \in Entries BY <2>3, <1>0, <1>t DEF CallTyped
      <3>3. QED BY <3>1, <3>2, <1>t, Places
    <2>4. CASE ~(cur.ipos = "HEAD" /\ nxt # 0) /\ cur.ipos # "MIDDLE"
      <3>1. CleanMeta = prev_index BY <2>4 DEF CleanMeta
      <3>2. QED BY <3>1, <1>t
    <2>5. QED BY <2>2, <2>3, <2>4
  <1>5. QED BY <1>1, <1>2, <1>3, <1>4

LEMMA TypesOfDelClean ==
  ASSUME TypeInv, DelClean
  PROVE  TypeInv'
  <1>0. TablesTyped /\ HandlesTyped /\ CallTyped BY TypeInvParts
  <1>1. tbl' = DelDeadHeads(CleanRules) /\ indx' = [indx EXCEPT ![FreedIndex] = ZeroIndex] /\ prev_index' = CleanMeta
    BY DEF DelClean
  <1>2. tbl' \in Tables /\ prev_index' \in [Expn -> Entries] BY <1>1, CleanTypes
  <1>3. indx' \in Indexes BY <1>0, <1>1, CleanTypes, IndexWrites, ZeroTypes DEF TablesTyped
  <1>4. TablesTyped' BY <1>2, <1>3 DEF TablesTyped
  <1>5. at = "dma" /\ cmds = <<>> /\ at' = "idle" /\ cur' = NoCall /\ UNCHANGED <<table, cmds, fails>>
        /\ rule_id_array' = [rule_id_array EXCEPT ![rule_hdl[cur.rule]] = 0]
        /\ rule_hdl' = [rule_hdl EXCEPT ![cur.rule] = 0]
    BY DEF DelClean
  <1>6. NoCall.ipos = "none" /\ NoCall.iprev = 0 /\ NoCall \in Calls BY ZeroTypes DEF NoCall
  <1>7. CallTyped' BY <1>0, <1>5, <1>6 DEF CallTyped
  <1>8. HandlesTyped'
    <2>1. 0 \in {RuleId(e) : e \in Entries} BY RuleIdFacts, Places
    <2>2. table = "ready" BY <1>0, <1>5 DEF CallTyped
    <2>3. QED BY <1>0, <1>5, <2>1, <2>2 DEF HandlesTyped
  <1>9. QED BY <1>4, <1>7, <1>8, TypeInvPartsNext

LEMMA TypesInit == Init => TypeInv
  <1> SUFFICES ASSUME Init PROVE TypeInv OBVIOUS
  <1>1. TablesTyped
    <2>1. [e \in Expn |-> 0] \in [Expn -> Entries] BY Places
    <2>2. QED BY <2>1, ZeroTypes DEF Init, TablesTyped
  <1>2. HandlesTyped BY NoHandlesTyped DEF Init, HandlesTyped
  <1>3. NoCall.ipos = "none" /\ NoCall.iprev = 0 /\ NoCall \in Calls BY ZeroTypes DEF NoCall
  <1>4. CallTyped BY <1>3, NatAssumption DEF Init, CallTyped
  <1>5. QED BY <1>1, <1>2, <1>4, TypeInvParts

LEMMA TypesStutter ==
  ASSUME TypeInv, UNCHANGED vars PROVE TypeInv'
  <1>0. TablesTyped /\ HandlesTyped /\ CallTyped BY TypeInvParts
  <1>1. TablesTyped' BY <1>0 DEF TablesTyped, vars, hw, cache
  <1>2. HandlesTyped' BY <1>0 DEF HandlesTyped, vars, hw, cache
  <1>3. CallTyped' BY <1>0 DEF CallTyped, vars, hw, cache
  <1>4. QED BY <1>1, <1>2, <1>3, TypeInvPartsNext

LEMMA TypesKept ==
  ASSUME TypeInv, [Next]_vars PROVE TypeInv'
  <1>1. CASE UNCHANGED vars BY <1>1, TypesStutter
  <1>2. CASE AddTable \/ AddTableFails \/ DelTable \/ DelTableFails BY <1>2, TypesOfTables
  <1>3. CASE \E r \in Rules : AddRule(r) BY <1>3, TypesOfAddRule
  <1>4. CASE AddLink \/ AddIndex \/ AddIndexLink BY <1>4, TypesOfAddSteps
  <1>5. CASE AddEnable BY <1>5, TypesOfAddEnable
  <1>6. CASE \E r \in Rules : DelRule(r) BY <1>6, TypesOfDelRule
  <1>7. CASE Dma \/ DmaFails BY <1>7, TypesOfDma
  <1>8. CASE DelClean BY <1>8, TypesOfDelClean
  <1>9. QED BY <1>1, <1>2, <1>3, <1>4, <1>5, <1>6, <1>7, <1>8 DEF Next

-----------------------------------------------------------------------------
(* Handles, up to the first failure.                                       *)

Adding == at \in {"link", "index", "indexLink", "enable"}

\* The entry behind the handle of a rule.
EntryOf(r) == ParseHdl(rule_hdl[r])

\* A handle leads to the rule, which is enabled unless it is being deleted.
Owned ==
  \A r \in Rules : rule_hdl[r] # 0 =>
    /\ EntryOf(r) # 0 /\ tbl[EntryOf(r)].rule = r
    /\ (at = "dma" /\ cur.rule = r) \/ (tbl[EntryOf(r)].enable /\ ~tbl[EntryOf(r)].dead)

\* A handle that is given out is some rule's.
SlotsOwned == \A h \in Slots : rule_id_array[h] # 0 => \E r \in Rules : rule_hdl[r] = h

\* A rule that is added has its entry to itself.
AddOwned ==
  Adding => /\ rule_hdl[cur.rule] = 0 /\ cur.entry # 0
            /\ tbl[cur.entry].rule = cur.rule /\ ~tbl[cur.entry].enable /\ ~tbl[cur.entry].dead

RuleFields == {"disable", "proto"}

\* Of the commands of a deletion the one that ends the rule is the last, as long as no
\* call has failed.
DelOwned ==
  at = "dma" =>
    /\ rule_hdl[cur.rule] # 0 /\ cur.entry = EntryOf(cur.rule)
    /\ \A n \in 1..Len(cmds) : cmds[n].field \in RuleFields => cmds[n].entry = cur.entry
    /\ fails = 0 =>
         /\ \A n \in 1..Len(cmds) : n # Len(cmds) => cmds[n].field \notin RuleFields
         /\ cmds # <<>> => tbl[cur.entry].enable /\ ~tbl[cur.entry].dead

HandleInv == fails <= 1 => Owned /\ SlotsOwned /\ AddOwned /\ DelOwned

LEMMA EntryTypes ==
  ASSUME HandlesTyped, NEW r \in Rules, rule_hdl[r] # 0
  PROVE  /\ rule_hdl[r] \in Slots /\ EntryOf(r) \in Entries
         /\ EntryOf(r) # 0 => rule_id_array[rule_hdl[r]] = RuleId(EntryOf(r)) /\ rule_id_array[rule_hdl[r]] # 0
                              /\ rule_hdl[r] < table_entries + expn_table_entries
  <1>1. rule_hdl[r] \in Slots BY DEF HandlesTyped
  <1>2. QED BY <1>1, ParseFacts, RuleIdFacts DEF EntryOf

\* A rule that is added finds a handle, and not the one that ParseHdl() refuses: the other
\* handles lead to other entries.
LEMMA HandleFree ==
  ASSUME TypeInv, HandleInv, fails <= 1, Adding
  PROVE  FreeHandle \in Slots /\ FreeHandle < table_entries + expn_table_entries /\ rule_id_array[FreeHandle] = 0
  <1>0. TablesTyped /\ HandlesTyped /\ CallTyped BY TypeInvParts
  <1>s. table_entries \in Nat /\ table_entries > 1 /\ expn_table_entries \in Nat /\ expn_table_entries > 1
    BY NatAssumption
  <1>o. Owned /\ SlotsOwned /\ AddOwned BY DEF HandleInv
  <1> DEFINE N == table_entries + expn_table_entries
             S == 1..(N - 1)
             T == (Entries \ {0}) \ {cur.entry}
  <1>c. cur.entry \in Entries /\ cur.entry # 0 BY <1>0, <1>o, CurTypes DEF AddOwned
  <1>1. \E h \in S : rule_id_array[h] = 0
    <2> SUFFICES ASSUME \A h \in S : rule_id_array[h] # 0 PROVE FALSE OBVIOUS
    <2>1. S \subseteq Slots BY <1>s DEF Slots
    <2>2. ASSUME NEW h \in S PROVE \E r \in Rules : rule_hdl[r] = h /\ EntryOf(r) = ParseHdl(h) /\ ParseHdl(h) \in T
                                                      /\ tbl[ParseHdl(h)].rule = r
      <3>1. PICK r \in Rules : rule_hdl[r] = h BY <2>1, <1>o DEF SlotsOwned
      <3>2. rule_hdl[r] # 0 BY <3>1
      <3>3. EntryOf(r) \in Entries BY <1>0, <3>2, EntryTypes
      <3>4. at # "dma" BY DEF Adding
      <3>5. EntryOf(r) # 0 /\ tbl[EntryOf(r)].enable /\ tbl[EntryOf(r)].rule = r BY <1>o, <3>2, <3>4 DEF Owned
      <3>6. EntryOf(r) # cur.entry BY <3>5, <1>o DEF AddOwned
      <3>7. QED BY <3>1, <3>3, <3>5, <3>6 DEF EntryOf
    <2> DEFINE f == [h \in S |-> ParseHdl(h)]
    <2>3. f \in [S -> T] BY <2>2
    <2>4. IsFiniteSet(S) /\ Cardinality(S) = N - 1
      <3>1. 1 \in Int /\ N - 1 \in Int /\ ~(1 > N - 1) BY <1>s
      <3>2. QED BY <3>1, FS_Interval
    <2>5. IsFiniteSet(T) /\ Cardinality(T) = N - 2
      <3>1. 0 \in Int /\ N - 1 \in Int /\ ~(0 > N - 1) BY <1>s
      <3> DEFINE b == N - 1
      <3> HIDE DEF b
      <3>c. IsFiniteSet(0..b) /\ Cardinality(0..b) = b - 0 + 1 BY <3>1, FS_Interval DEF b
      <3>2. IsFiniteSet(Entries) /\ Cardinality(Entries) = N - 1 - 0 + 1
        <4>1. b = table_entries + expn_table_entries - 1 BY <1>s DEF b
        <4>2. QED BY <3>c, <4>1 DEF Entries, b
      <3>3. IsFiniteSet(Entries \ {0}) /\ Cardinality(Entries \ {0}) = N - 1
        BY <3>2, FS_RemoveElement, Places, <1>s
      <3>a. cur.entry \in Entries \ {0} BY <1>c
      <3> DEFINE U == Entries \ {0}
                 c == cur.entry
      <3> HIDE DEF U, c
      <3>b. IsFiniteSet(U \ {c}) /\ Cardinality(U \ {c}) = IF c \in U THEN Cardinality(U) - 1 ELSE Cardinality(U)
        BY <3>3, FS_RemoveElement DEF U
      <3>4. IsFiniteSet(T) /\ Cardinality(T) = N - 1 - 1 BY <3>3, <3>a, <3>b DEF U, c
      <3>5. QED BY <3>4, <1>s
    <2> HIDE DEF T, f
    <2>6. Cardinality(T) < Cardinality(S) BY <2>4, <2>5, <1>s
    <2>7. PICK h, g \in S : h # g /\ f[h] = f[g] BY <2>3, <2>4, <2>5, <2>6, FS_PigeonHole
    <2>8. ParseHdl(h) = ParseHdl(g) BY <2>7 DEF f
    <2>9. PICK r \in Rules : rule_hdl[r] = h /\ tbl[ParseHdl(h)].rule = r BY <2>2
    <2>10. PICK q \in Rules : rule_hdl[q] = g /\ tbl[ParseHdl(g)].rule = q BY <2>2
    <2>11. QED BY <2>7, <2>8, <2>9, <2>10
  <1>2. PICK h \in S : rule_id_array[h] = 0 BY <1>1
  <1>3. h \in Slots /\ h \in Nat /\ h < N BY <1>s DEF Slots
  <1>4. FreeHandle # 0
    <2>1. h \in {k \in Slots : rule_id_array[k] = 0} BY <1>2, <1>3
    <2> DEFINE free == {k \in Slots : rule_id_array[k] = 0}
    <2>2. free \in SUBSET Nat BY NatAssumption DEF Slots
    <2>3. \E x \in free : \A y \in free : x <= y BY <2>1, <2>2, LeastExists
    <2>4. FreeHandle \in free BY <2>1, <2>3, Zenon DEF FreeHandle
    <2>5. QED BY <2>4, <1>s DEF Slots
  <1>5. FreeHandle \in Slots /\ rule_id_array[FreeHandle] = 0 /\ FreeHandle <= h
    BY <1>2, <1>3, <1>4, FreeHandleFacts
  <1>6. FreeHandle \in Nat BY <1>5, <1>s DEF Slots
  <1>7. QED BY <1>3, <1>5, <1>6, <1>s

\* A table that differs in none of the fields that handles are about.
SameRule(a, b) == a.rule = b.rule /\ (a.enable <=> b.enable) /\ (a.dead <=> b.dead)

LEMMA HandlesOfTables ==
  ASSUME TypeInv, HandleInv, AddTable \/ AddTableFails \/ DelTable \/ DelTableFails
  PROVE  HandleInv'
  <1> SUFFICES ASSUME fails' <= 1 PROVE (Owned /\ SlotsOwned /\ AddOwned /\ DelOwned)' BY DEF HandleInv
  <1>0. TablesTyped /\ HandlesTyped /\ CallTyped BY TypeInvParts
  <1>1. at = "idle" /\ at' = "idle" BY DEF AddTable, AddTableFails, DelTable, DelTableFails
  <1>2. AddOwned' /\ DelOwned' BY <1>1 DEF AddOwned, DelOwned, Adding
  <1>3. CASE AddTable \/ DelTable
    <2>1. rule_hdl' = [r \in Rules |-> 0] /\ rule_id_array' = [h \in Slots |-> 0]
      BY <1>0, <1>3 DEF AddTable, DelTable, HandlesTyped
    <2>2. QED BY <1>2, <2>1 DEF Owned, SlotsOwned
  <1>4. CASE AddTableFails \/ DelTableFails
    <2>1. UNCHANGED <<hw, rule_id_array, cur, rule_hdl>> /\ fails <= 1
      BY <1>0, <1>4, NatAssumption DEF AddTableFails, DelTableFails, Fails, CallTyped
    <2>2. Owned /\ SlotsOwned BY <2>1 DEF HandleInv
    <2>3. QED BY <1>1, <1>2, <2>1, <2>2 DEF Owned, SlotsOwned, EntryOf, ParseHdl, hw
  <1>5. QED BY <1>3, <1>4

\* What all steps have in common that leave the handles alone.
LEMMA OwnedKept ==
  ASSUME TypeInv, Owned, SlotsOwned, UNCHANGED <<rule_hdl, rule_id_array>>,
         \A r \in Rules : rule_hdl[r] # 0 =>
           /\ tbl'[EntryOf(r)].rule = tbl[EntryOf(r)].rule
           /\ (at' = "dma" /\ cur'.rule = r) \/ (~(at = "dma" /\ cur.rule = r) /\ SameRule(tbl'[EntryOf(r)], tbl[EntryOf(r)]))
                \/ (tbl'[EntryOf(r)].enable /\ ~tbl'[EntryOf(r)].dead)
  PROVE  Owned' /\ SlotsOwned'
  <1>1. \A r \in Rules : EntryOf(r)' = EntryOf(r) BY DEF EntryOf, ParseHdl
  <1>2. SlotsOwned' BY DEF SlotsOwned
  <1>3. ASSUME NEW r \in Rules, rule_hdl'[r] # 0
        PROVE  /\ EntryOf(r)' # 0 /\ tbl'[EntryOf(r)'].rule = r
               /\ (at' = "dma" /\ cur'.rule = r) \/ (tbl'[EntryOf(r)'].enable /\ ~tbl'[EntryOf(r)'].dead)
    BY <1>1, <1>3 DEF Owned, SameRule
  <1>4. Owned' BY <1>3 DEF Owned
  <1>5. QED BY <1>2, <1>4

LEMMA HandlesOfAddRule ==
  ASSUME TypeInv, HandleInv, NEW r \in Rules, AddRule(r)
  PROVE  HandleInv'
  <1>0. TablesTyped /\ HandlesTyped /\ CallTyped BY TypeInvParts
  <1> SUFFICES ASSUME fails' <= 1 PROVE (Owned /\ SlotsOwned /\ AddOwned /\ DelOwned)' BY DEF HandleInv
  <1> DEFINE g == GenerateRule(r)
  <1>1. Generated(g, r) BY GenerateFacts DEF TypeInv
  <1>2. /\ at = "idle" /\ rule_hdl[r] = 0 /\ g.entry # 0
        /\ tbl' = [tbl EXCEPT ![g.entry] = [ZeroRule EXCEPT !.rule = r, !.prev = g.prev, !.indx = g.ientry]]
        /\ cur' = g /\ at' = IF g.prev # 0 THEN "link" ELSE "index"
        /\ UNCHANGED <<rule_id_array, rule_hdl, fails>>
    BY Zenon DEF AddRule
  <1> HIDE DEF g
  <1>3. g \in Calls /\ g.rule = r /\ g.entry \in Entries BY <1>1 DEF Generated, Calls
  <1>4. tbl' = [tbl EXCEPT ![g.entry] = NewRule(g)] BY <1>2, <1>3 DEF NewRule
  <1>5. ~tbl[g.entry].enable
    <2>1. g.entry \notin Enabled BY <1>1, <1>2, FreeFacts DEF Generated
    <2>2. QED BY <2>1, <1>3 DEF Enabled
  <1>6. tbl'[g.entry].rule = r /\ ~tbl'[g.entry].enable /\ ~tbl'[g.entry].dead
    BY <1>0, <1>3, <1>4, NewRuleFacts DEF TablesTyped, Tables
  <1>7. Owned /\ SlotsOwned BY <1>2 DEF HandleInv
  <1>8. \A q \in Rules : rule_hdl[q] # 0 => tbl'[EntryOf(q)] = tbl[EntryOf(q)]
    <2> TAKE q \in Rules
    <2> HAVE rule_hdl[q] # 0
    <2>1. EntryOf(q) \in Entries BY <1>0, EntryTypes
    <2>2. EntryOf(q) # g.entry BY <1>2, <1>5, <1>7 DEF Owned
    <2>3. QED BY <2>1, <2>2, <1>4, <1>0 DEF TablesTyped, Tables
  <1>9. Owned' /\ SlotsOwned' BY <1>2, <1>7, <1>8, OwnedKept DEF SameRule
  <1>10. AddOwned' BY <1>2, <1>3, <1>6 DEF AddOwned
  <1>11. DelOwned' BY <1>2 DEF DelOwned
  <1>12. QED BY <1>9, <1>10, <1>11

LEMMA HandlesOfAddSteps ==
  ASSUME TypeInv, HandleInv, AddLink \/ AddIndex \/ AddIndexLink
  PROVE  HandleInv'
  <1>0. TablesTyped /\ HandlesTyped /\ CallTyped BY TypeInvParts
  <1> SUFFICES ASSUME fails' <= 1 PROVE (Owned /\ SlotsOwned /\ AddOwned /\ DelOwned)' BY DEF HandleInv
  <1>1. /\ at \in {"link", "index", "indexLink"} /\ at' \in {"index", "indexLink", "enable"}
        /\ UNCHANGED <<rule_id_array, rule_hdl, cur>> /\ (UNCHANGED fails \/ Fails)
    BY DEF AddLink, AddIndex, AddIndexLink, cache
  <1>2. fails <= 1 BY <1>0, <1>1, NatAssumption DEF Fails, CallTyped
  <1>3. Owned /\ SlotsOwned /\ AddOwned BY <1>2 DEF HandleInv
  <1>4. tbl' = [tbl EXCEPT ![cur.prev].next = cur.entry] \/ tbl' = tbl BY DEF AddLink, AddIndex, AddIndexLink
  <1>5. \A e \in Entries : SameRule(tbl'[e], tbl[e])
    <2>1. \A e \in Entries : tbl[e] \in RuleRec BY <1>0 DEF TablesTyped, Tables
    <2>2. QED BY <1>0, <1>4, <2>1 DEF TablesTyped, Tables, SameRule, RuleRec
  <1>6. \A r \in Rules : rule_hdl[r] # 0 => SameRule(tbl'[EntryOf(r)], tbl[EntryOf(r)])
    BY <1>0, <1>5, EntryTypes
  <1>7. Owned' /\ SlotsOwned' BY <1>1, <1>3, <1>6, OwnedKept DEF SameRule
  <1>8. cur.entry \in Entries BY <1>0, CurTypes
  <1>9. AddOwned' BY <1>1, <1>3, <1>5, <1>8 DEF AddOwned, Adding, SameRule
  <1>10. DelOwned' BY <1>1 DEF DelOwned
  <1>11. QED BY <1>7, <1>9, <1>10

LEMMA HandlesOfAddEnable ==
  ASSUME TypeInv, HandleInv, AddEnable
  PROVE  HandleInv'
  <1>0. TablesTyped /\ HandlesTyped /\ CallTyped BY TypeInvParts
  <1>p. TablesTyped' /\ HandlesTyped' /\ CallTyped' BY TypesOfAddEnable, TypeInvPartsNext
  <1> SUFFICES ASSUME fails' <= 1 PROVE (Owned /\ SlotsOwned /\ AddOwned /\ DelOwned)' BY DEF HandleInv
  <1>1. at = "enable" /\ at' = "idle" BY DEF AddEnable
  <1>2. AddOwned' /\ DelOwned' BY <1>1 DEF AddOwned, DelOwned, Adding
  <1>3. CASE Fails /\ UNCHANGED <<tbl, rule_id_array, rule_hdl>>
    <2>1. fails <= 1 BY <1>0, <1>3, NatAssumption DEF Fails, CallTyped
    <2>2. Owned /\ SlotsOwned BY <2>1 DEF HandleInv
    <2>3. QED BY <1>1, <1>2, <1>3, <2>2, OwnedKept DEF SameRule
  <1>4. CASE /\ tbl' = [tbl EXCEPT ![cur.entry].enable = TRUE]
             /\ rule_id_array' = IF FreeHandle = 0 THEN rule_id_array
                                 ELSE [rule_id_array EXCEPT ![FreeHandle] = RuleId(cur.entry)]
             /\ rule_hdl' = [rule_hdl EXCEPT ![cur.rule] = FreeHandle]
             /\ UNCHANGED fails
    <2>a. Adding /\ fails <= 1 BY <1>1, <1>4 DEF Adding
    <2>b. Owned /\ SlotsOwned /\ AddOwned BY <2>a DEF HandleInv
    <2>1. FreeHandle \in Slots /\ FreeHandle < table_entries + expn_table_entries /\ rule_id_array[FreeHandle] = 0
      BY <2>a, HandleFree
    <2>2. cur.rule \in Rules /\ cur.entry \in Entries /\ cur.entry # 0
      BY <1>0, <1>1, <2>a, <2>b, CurTypes DEF CallTyped, AddOwned
    <2>3. PICK h \in Slots, r \in Rules, e \in Entries : h = FreeHandle /\ r = cur.rule /\ e = cur.entry BY <2>1, <2>2
    <2>4. h \in Nat /\ h # 0 /\ ~(h >= table_entries + expn_table_entries) BY <2>1, <2>3, NatAssumption DEF Slots
    <2>5. /\ rule_id_array' = [rule_id_array EXCEPT ![h] = RuleId(e)] /\ rule_hdl' = [rule_hdl EXCEPT ![r] = h]
          /\ tbl' = [tbl EXCEPT ![e].enable = TRUE]
      BY <1>4, <2>3, <2>4
    <2>6. rule_id_array \in [Slots -> {RuleId(f) : f \in Entries}] /\ rule_hdl \in [Rules -> Slots \cup {0}]
      BY <1>0 DEF HandlesTyped
    <2>7. /\ rule_id_array'[h] = RuleId(e) /\ rule_hdl'[r] = h
          /\ \A k \in Slots : k # h => rule_id_array'[k] = rule_id_array[k]
          /\ \A q \in Rules : q # r => rule_hdl'[q] = rule_hdl[q]
      BY <2>5, <2>6
    <2>8. ParseHdl(h)' = e
      <3>1. RuleId(e) # 0 BY <2>2, <2>3, RuleIdFacts
      <3>2. QED BY <3>1, <2>4, <2>7, RuleIdFacts DEF ParseHdl
    <2>9. ASSUME NEW q \in Rules, q # r, rule_hdl[q] # 0
          PROVE  /\ rule_hdl'[q] = rule_hdl[q] /\ rule_hdl[q] # h /\ EntryOf(q)' = EntryOf(q) /\ EntryOf(q) \in Entries
                 /\ EntryOf(q) # 0 /\ EntryOf(q) # e
      <3>1. EntryOf(q) # 0 /\ tbl[EntryOf(q)].rule = q BY <2>9, <2>b DEF Owned
      <3>2. rule_hdl[q] \in Slots /\ EntryOf(q) \in Entries /\ rule_id_array[rule_hdl[q]] # 0
        BY <1>0, <2>9, <3>1, EntryTypes
      <3>3. rule_hdl[q] # h BY <3>2, <2>1, <2>3
      <3>4. rule_hdl'[q] = rule_hdl[q] /\ rule_id_array'[rule_hdl[q]] = rule_id_array[rule_hdl[q]]
        BY <2>7, <2>9, <3>2, <3>3
      <3>5. EntryOf(q)' = EntryOf(q) BY <3>4 DEF EntryOf, ParseHdl
      <3>6. EntryOf(q) # e BY <2>3, <2>9, <3>1, <2>a, <2>b DEF AddOwned
      <3>7. QED BY <3>1, <3>2, <3>3, <3>4, <3>5, <3>6
    <2>10. tbl \in Tables BY <1>0 DEF TablesTyped
    <2>11. tbl[e] \in RuleRec BY <2>10 DEF Tables
    <2>12. tbl'[e].enable /\ tbl'[e].rule = tbl[e].rule /\ tbl'[e].dead = tbl[e].dead
      BY <2>5, <2>10, <2>11 DEF Tables, RuleRec
    <2>13. \A f \in Entries : f # e => tbl'[f] = tbl[f] BY <2>5, <2>10 DEF Tables
    <2>14. ASSUME NEW q \in Rules, rule_hdl'[q] # 0
           PROVE  /\ EntryOf(q)' # 0 /\ tbl'[EntryOf(q)'].rule = q
                  /\ tbl'[EntryOf(q)'].enable /\ ~tbl'[EntryOf(q)'].dead
      <3>1. CASE q = r
        <4>1. EntryOf(q)' = e BY <3>1, <2>7, <2>8 DEF EntryOf
        <4>2. tbl[e].rule = r /\ ~tbl[e].dead BY <2>a, <2>b, <2>3 DEF AddOwned
        <4>3. QED BY <4>1, <4>2, <2>2, <2>3, <2>12, <3>1
      <3>2. CASE q # r
        <4>1. rule_hdl[q] # 0 BY <3>2, <2>7, <2>14
        <4>2. EntryOf(q)' = EntryOf(q) /\ EntryOf(q) \in Entries /\ EntryOf(q) # 0 /\ EntryOf(q) # e BY <3>2, <4>1, <2>9
        <4>3. tbl[EntryOf(q)].rule = q /\ tbl[EntryOf(q)].enable /\ ~tbl[EntryOf(q)].dead
          BY <4>1, <2>b, <1>1 DEF Owned
        <4>4. tbl'[EntryOf(q)] = tbl[EntryOf(q)] BY <4>2, <2>13
        <4>5. QED BY <4>2, <4>3, <4>4
      <3>3. QED BY <3>1, <3>2
    <2>15. Owned' BY <2>14 DEF Owned
    <2>16. ASSUME NEW k \in Slots, rule_id_array'[k] # 0 PROVE \E q \in Rules : rule_hdl'[q] = k
      <3>1. CASE k = h BY <3>1, <2>7
      <3>2. CASE k # h
        <4>1. rule_id_array[k] # 0 BY <3>2, <2>7, <2>16
        <4>2. PICK q \in Rules : rule_hdl[q] = k BY <4>1, <2>b DEF SlotsOwned
        <4>3. rule_hdl[r] = 0 BY <2>a, <2>b, <2>3 DEF AddOwned
        <4>4. k # 0 BY NatAssumption DEF Slots
        <4>5. QED BY <4>2, <4>3, <4>4, <2>7
      <3>3. QED BY <3>1, <3>2
    <2>17. SlotsOwned' BY <2>16 DEF SlotsOwned
    <2>18. QED BY <1>2, <2>15, <2>17
  <1>5. QED BY <1>3, <1>4 DEF AddEnable

\* The sequences of commands of a deletion.
LEMMA ConcatOneOne ==
  ASSUME NEW a, NEW k
  PROVE  <<a>> \o <<k>> = <<a, k>>
  <1> DEFINE s == <<a>> \o <<k>>
             t == <<a, k>>
  <1>1. <<a>> \in Seq({a,k}) /\ <<k>> \in Seq({a,k}) /\ t \in Seq({a,k}) OBVIOUS
  <1>2. s \in Seq({a,k}) /\ Len(s) = 2 /\ s[1] = a /\ s[2] = k BY <1>1, ConcatProperties
  <1>3. Len(t) = 2 /\ t[1] = a /\ t[2] = k OBVIOUS
  <1> HIDE DEF s, t
  <1>4. \A i \in 1..Len(s) : s[i] = t[i] BY <1>2, <1>3
  <1>5. s = t BY <1>1, <1>2, <1>3, <1>4, SeqEqual
  <1>6. QED BY <1>5 DEF s, t

LEMMA ConcatTwoOne ==
  ASSUME NEW a, NEW b, NEW k
  PROVE  <<a, b>> \o <<k>> = <<a, b, k>>
  <1> DEFINE s == <<a, b>> \o <<k>>
             t == <<a, b, k>>
  <1>1. <<a, b>> \in Seq({a,b,k}) /\ <<k>> \in Seq({a,b,k}) /\ t \in Seq({a,b,k}) OBVIOUS
  <1>2. s \in Seq({a,b,k}) /\ Len(s) = 3 /\ s[1] = a /\ s[2] = b /\ s[3] = k BY <1>1, ConcatProperties
  <1>3. Len(t) = 3 /\ t[1] = a /\ t[2] = b /\ t[3] = k OBVIOUS
  <1> HIDE DEF s, t
  <1>4. \A i \in 1..Len(s) : s[i] = t[i] BY <1>2, <1>3
  <1>5. s = t BY <1>1, <1>2, <1>3, <1>4, SeqEqual
  <1>6. QED BY <1>5 DEF s, t

LEMMA ConcatOneTwo ==
  ASSUME NEW k, NEW a, NEW b
  PROVE  <<k>> \o <<a, b>> = <<k, a, b>>
  <1> DEFINE s == <<k>> \o <<a, b>>
             t == <<k, a, b>>
  <1>1. <<k>> \in Seq({k,a,b}) /\ <<a, b>> \in Seq({k,a,b}) /\ t \in Seq({k,a,b}) OBVIOUS
  <1>2. s \in Seq({k,a,b}) /\ Len(s) = 3 /\ s[1] = k /\ s[2] = a /\ s[3] = b BY <1>1, ConcatProperties
  <1>3. Len(t) = 3 /\ t[1] = k /\ t[2] = a /\ t[3] = b OBVIOUS
  <1> HIDE DEF s, t
  <1>4. \A i \in 1..Len(s) : s[i] = t[i] BY <1>2, <1>3
  <1>5. s = t BY <1>1, <1>2, <1>3, <1>4, SeqEqual
  <1>6. QED BY <1>5 DEF s, t

LEMMA CommandsOf ==
  ASSUME NEW t, NEW x, NEW p, NEW e, NEW i
  PROVE  /\ RuleCmd(t, e).field \in RuleFields => RuleCmd(t, e).entry = e
         /\ IndexCmd(x, p, i).field \notin RuleFields /\ HeadCmd(x, i).field \notin RuleFields
  <1>1. CASE Position(t, e) = "ONLY_ONE" BY <1>1 DEF RuleCmd, IndexCmd, HeadCmd, Cmd, RuleFields
  <1>2. CASE Position(t, e) = "HEAD" BY <1>2 DEF RuleCmd, IndexCmd, HeadCmd, Cmd, RuleFields
  <1>3. CASE Position(t, e) # "ONLY_ONE" /\ Position(t, e) # "HEAD"
    BY <1>3 DEF RuleCmd, IndexCmd, HeadCmd, Cmd, RuleFields
  <1>4. QED BY <1>1, <1>2, <1>3

LEMMA HandlesOfDelRule ==
  ASSUME TypeInv, HandleInv, NEW r \in Rules, DelRule(r)
  PROVE  HandleInv'
  <1>0. TablesTyped /\ HandlesTyped /\ CallTyped BY TypeInvParts
  <1> SUFFICES ASSUME fails' <= 1 PROVE (Owned /\ SlotsOwned /\ AddOwned /\ DelOwned)' BY DEF HandleInv
  <1>1. PICK e, i \in Entries : DelBegins(r, e, i) BY DelRuleFacts
  <1>2. /\ UNCHANGED <<tbl, indx, prev_index, rule_hdl, rule_id_array>> /\ at = "idle" /\ at' = "dma" /\ rule_hdl[r] # 0
        /\ e = EntryOf(r) /\ (UNCHANGED fails \/ Fails)
    BY <1>1, NatAssumption DEF DelBegins, hw, cache, Slots, EntryOf
  <1>3. fails <= 1 BY <1>0, <1>2, NatAssumption DEF Fails, CallTyped
  <1>4. Owned /\ SlotsOwned BY <1>3 DEF HandleInv
  <1>5. Owned' /\ SlotsOwned' BY <1>2, <1>4, OwnedKept DEF SameRule
  <1>6. AddOwned' BY <1>2 DEF AddOwned, Adding
  <1>7. cur'.rule = r /\ cur'.entry = e BY <1>0, <1>1, CallFacts DEF DelBegins
  <1>8. EntryOf(r)' = EntryOf(r) BY <1>2 DEF EntryOf, ParseHdl
  <1>9. tbl[e].enable /\ ~tbl[e].dead BY <1>2, <1>4 DEF Owned
  <1> DEFINE a == IndexCmd(indx, prev_index, i)
             b == HeadCmd(indx, i)
             k == RuleCmd(tbl, e)
  <1>10. RuleCmds(e) = <<k>> /\ (IndexCmds(i) = <<a, b>> \/ IndexCmds(i) = <<a>>) BY CommandSteps, Zenon
  <1>11. /\ a.field \notin RuleFields /\ b.field \notin RuleFields /\ (k.field \in RuleFields => k.entry = e)
    BY CommandsOf
  <1> HIDE DEF a, b, k
  <1>12. \/ UNCHANGED fails /\ (cmds' = <<a, b, k>> \/ cmds' = <<a, k>>)
         \/ Fails /\ (cmds' = <<k, a, b>> \/ cmds' = <<k, a>>)
    <2>1. /\ <<a, b>> \o <<k>> = <<a, b, k>> /\ <<a>> \o <<k>> = <<a, k>>
          /\ <<k>> \o <<a, b>> = <<k, a, b>> /\ <<k>> \o <<a>> = <<k, a>>
      BY ConcatOneOne, ConcatTwoOne, ConcatOneTwo
    <2>2. \/ UNCHANGED fails /\ cmds' = IndexCmds(i) \o RuleCmds(e)
          \/ Fails /\ cmds' = RuleCmds(e) \o IndexCmds(i)
      BY <1>1 DEF DelBegins
    <2>3. QED BY <1>10, <2>1, <2>2, Zenon
  <1>13. \A n \in 1..Len(cmds') : cmds'[n].field \in RuleFields => cmds'[n].entry = e
    BY <1>11, <1>12
  <1>14. ASSUME fails' = 0, NEW n \in 1..Len(cmds'), n # Len(cmds') PROVE cmds'[n].field \notin RuleFields
    <2>1. ~Fails BY <1>0, <1>14 DEF Fails, CallTyped
    <2>2. CASE cmds' = <<a, b, k>> BY <2>2, <1>11, <1>14
    <2>3. CASE cmds' = <<a, k>> BY <2>3, <1>11, <1>14
    <2>4. QED BY <2>1, <2>2, <2>3, <1>12
  <1>15. DelOwned' BY <1>2, <1>7, <1>8, <1>9, <1>13, <1>14 DEF DelOwned
  <1>16. QED BY <1>5, <1>6, <1>15

LEMMA HandlesOfDma ==
  ASSUME TypeInv, HandleInv, Dma
  PROVE  HandleInv'
  <1>0. TablesTyped /\ HandlesTyped /\ CallTyped BY TypeInvParts
  <1> SUFFICES ASSUME fails' <= 1 PROVE (Owned /\ SlotsOwned /\ AddOwned /\ DelOwned)' BY DEF HandleInv
  <1>1. /\ at = "dma" /\ cmds # <<>> /\ cmds' = Tail(cmds) /\ tbl' = Wrote(tbl, Head(cmds))
        /\ UNCHANGED <<rule_id_array, at, cur, rule_hdl, fails>>
    BY DmaFacts DEF cache
  <1>2. Owned /\ SlotsOwned /\ DelOwned BY <1>1 DEF HandleInv
  <1>3. cmds \in Seq(Commands) BY <1>0 DEF CallTyped
  <1>4. Head(cmds) \in Commands /\ Head(cmds) = cmds[1] /\ 1 \in 1..Len(cmds) BY <1>1, <1>3, HeadTailProperties
  <1>5. PICK k \in Commands : k = Head(cmds) BY <1>4
  <1>6. k.entry \in Entries /\ (k.field \in RuleFields => k.entry = cur.entry)
    BY <1>1, <1>2, <1>4, <1>5, CommandCases DEF DelOwned
  <1>7. tbl \in Tables /\ tbl' = Wrote(tbl, k) BY <1>0, <1>1, <1>5 DEF TablesTyped
  <1>8. \A e \in Entries : /\ tbl'[e].rule = tbl[e].rule
                           /\ SameRule(tbl'[e], tbl[e]) \/ (e = k.entry /\ k.field \in RuleFields)
    <2>1. \A e \in Entries : tbl[e] \in RuleRec BY <1>7 DEF Tables
    <2>2. CASE k.field = "disable" BY <1>6, <1>7, <2>1, <2>2 DEF Wrote, Tables, RuleRec, SameRule, RuleFields
    <2>3. CASE k.field = "proto" BY <1>6, <1>7, <2>1, <2>3 DEF Wrote, Tables, RuleRec, SameRule, RuleFields
    <2>4. CASE k.field = "next" BY <1>6, <1>7, <2>1, <2>4 DEF Wrote, Tables, RuleRec, SameRule
    <2>5. CASE k.field \notin {"disable", "proto", "next"} BY <1>7, <2>1, <2>5 DEF Wrote, SameRule
    <2>6. QED BY <2>2, <2>3, <2>4, <2>5
  <1>9. ASSUME NEW r \in Rules, rule_hdl[r] # 0
        PROVE  /\ tbl'[EntryOf(r)].rule = tbl[EntryOf(r)].rule
               /\ (at' = "dma" /\ cur'.rule = r) \/ SameRule(tbl'[EntryOf(r)], tbl[EntryOf(r)])
    <2>1. EntryOf(r) \in Entries BY <1>0, <1>9, EntryTypes
    <2>2. tbl[EntryOf(r)].rule = r BY <1>9, <1>2 DEF Owned
    <2>3. ASSUME cur.rule # r PROVE EntryOf(r) # cur.entry
      <3>1. rule_hdl[cur.rule] # 0 /\ cur.entry = EntryOf(cur.rule) /\ cur.rule \in Rules
        BY <1>0, <1>1, <1>2 DEF DelOwned, CallTyped
      <3>2. tbl[cur.entry].rule = cur.rule BY <3>1, <1>2 DEF Owned
      <3>3. QED BY <3>2, <2>2, <2>3
    <2>4. QED BY <1>1, <1>6, <1>8, <2>1, <2>3
  <1>10. Owned' /\ SlotsOwned' BY <1>1, <1>2, <1>9, OwnedKept
  <1>11. AddOwned' BY <1>1 DEF AddOwned, Adding
  <1>12. DelOwned'
    <2>1. cmds' \in Seq(Commands) /\ Len(cmds') = Len(cmds) - 1 /\ \A n \in 1..Len(cmds') : cmds'[n] = cmds[n + 1]
      BY <1>1, <1>3, HeadTailProperties
    <2>2. \A n \in 1..Len(cmds') : n + 1 \in 1..Len(cmds) /\ (n # Len(cmds') => n + 1 # Len(cmds))
      BY <1>3, <2>1
    <2>3. PICK r \in Rules : r = cur.rule BY <1>0, <1>1 DEF CallTyped
    <2>4. EntryOf(r)' = EntryOf(r) BY <1>1 DEF EntryOf, ParseHdl
    <2>5. rule_hdl'[cur'.rule] # 0 /\ cur'.entry = EntryOf(cur.rule)' BY <1>1, <1>2, <2>3, <2>4 DEF DelOwned
    <2>6. \A n \in 1..Len(cmds') : cmds'[n].field \in RuleFields => cmds'[n].entry = cur'.entry
      BY <1>1, <1>2, <2>1, <2>2 DEF DelOwned
    <2>7. fails' = 0 => \A n \in 1..Len(cmds') : n # Len(cmds') => cmds'[n].field \notin RuleFields
      BY <1>1, <1>2, <2>1, <2>2 DEF DelOwned
    <2>8. ASSUME fails' = 0, cmds' # <<>> PROVE tbl'[cur'.entry].enable /\ ~tbl'[cur'.entry].dead
      <3>1. 1 # Len(cmds) BY <1>3, <2>1, <2>8
      <3>2. k.field \notin RuleFields BY <1>1, <1>2, <1>4, <1>5, <2>8, <3>1 DEF DelOwned
      <3>3. cur.entry \in Entries BY <1>0, CurTypes
      <3>4. SameRule(tbl'[cur.entry], tbl[cur.entry]) BY <1>8, <3>2, <3>3
      <3>5. tbl[cur.entry].enable /\ ~tbl[cur.entry].dead BY <1>1, <1>2, <2>8 DEF DelOwned
      <3>6. QED BY <1>1, <3>4, <3>5 DEF SameRule
    <2>9. QED BY <2>5, <2>6, <2>7, <2>8 DEF DelOwned
  <1>13. QED BY <1>10, <1>11, <1>12

LEMMA HandlesOfDmaFails ==
  ASSUME TypeInv, HandleInv, DmaFails
  PROVE  HandleInv'
  <1>0. TablesTyped /\ HandlesTyped /\ CallTyped BY TypeInvParts
  <1> SUFFICES ASSUME fails' <= 1 PROVE (Owned /\ SlotsOwned /\ AddOwned /\ DelOwned)' BY DEF HandleInv
  <1>1. /\ at = "dma" /\ cmds # <<>> /\ at' = "idle" /\ Fails
        /\ UNCHANGED <<tbl, rule_id_array, rule_hdl>>
    BY DEF DmaFails, hw, cache
  <1>2. fails = 0 BY <1>0, <1>1, NatAssumption DEF Fails, CallTyped
  <1>3. Owned /\ SlotsOwned /\ DelOwned BY <1>2 DEF HandleInv
  <1>4. \A r \in Rules : rule_hdl[r] # 0 => tbl[EntryOf(r)].enable /\ ~tbl[EntryOf(r)].dead
    BY <1>1, <1>2, <1>3 DEF Owned, DelOwned
  <1>5. Owned' /\ SlotsOwned' BY <1>1, <1>3, <1>4, OwnedKept DEF SameRule
  <1>6. AddOwned' /\ DelOwned' BY <1>1 DEF AddOwned, Adding, DelOwned
  <1>7. QED BY <1>5, <1>6

\* The rule table that DelClean() leaves, entry by entry.
LEMMA CleanFields ==
  ASSUME TypeInv
  PROVE  \A e \in Entries : e # cur.entry =>
           /\ SameRule(CleanRules[e], tbl[e]) /\ CleanRules[e].next = tbl[e].next
           /\ CleanRules[e].prev = IF cur.pos = "MIDDLE" /\ e = tbl[cur.entry].next THEN tbl[cur.entry].prev ELSE tbl[e].prev
           /\ CleanRules[e].indx = IF cur.ipos = "HEAD" /\ e = indx[cur.ientry].entry THEN cur.ientry ELSE tbl[e].indx
  <1>0. TablesTyped /\ HandlesTyped /\ CallTyped BY TypeInvParts
  <1>t. tbl \in Tables BY <1>0 DEF TablesTyped
  <1>a. cur.entry \in Entries BY <1>0, CurTypes
  <1> DEFINE n == tbl[cur.entry].next
             p == tbl[cur.entry].prev
             j == indx[cur.ientry].entry
             moved == IF cur.pos = "MIDDLE" THEN [tbl EXCEPT ![n].prev = p] ELSE tbl
             gone == IF cur.pos # "HEAD" THEN [moved EXCEPT ![cur.entry] = ZeroRule] ELSE moved
             clean == IF cur.ipos = "HEAD" THEN [gone EXCEPT ![j].indx = cur.ientry] ELSE gone
  <1>1. CleanRules = clean BY Zenon DEF CleanRules
  <1>2. n \in Entries /\ p \in Entries BY <1>t, <1>a, Places DEF Tables, RuleRec
  <1>3. moved \in Tables BY <1>t, <1>2, RuleWrites
  <1>4. gone \in Tables BY <1>3, <1>a, RuleWrites, ZeroTypes
  <1> SUFFICES ASSUME NEW e \in Entries, e # cur.entry
               PROVE  /\ SameRule(clean[e], tbl[e]) /\ clean[e].next = tbl[e].next
                      /\ clean[e].prev = IF cur.pos = "MIDDLE" /\ e = n THEN p ELSE tbl[e].prev
                      /\ clean[e].indx = IF cur.ipos = "HEAD" /\ e = j THEN cur.ientry ELSE tbl[e].indx
    BY <1>1
  <1>5. tbl[e] \in RuleRec BY <1>t DEF Tables
  <1>6. /\ moved[e].rule = tbl[e].rule /\ moved[e].enable = tbl[e].enable /\ moved[e].dead = tbl[e].dead
        /\ moved[e].next = tbl[e].next /\ moved[e].indx = tbl[e].indx
        /\ moved[e].prev = IF cur.pos = "MIDDLE" /\ e = n THEN p ELSE tbl[e].prev
    <2> HIDE DEF n, p
    <2>1. CASE cur.pos = "MIDDLE" /\ e = n
      <3>1. moved[e] = [tbl[e] EXCEPT !.prev = p] BY <2>1, <1>t DEF Tables
      <3>2. QED BY <2>1, <3>1, <1>5 DEF RuleRec
    <2>2. CASE ~(cur.pos = "MIDDLE" /\ e = n)
      <3>1. moved[e] = tbl[e] BY <2>2, <1>t DEF Tables
      <3>2. QED BY <2>2, <3>1
    <2>3. QED BY <2>1, <2>2
  <1> HIDE DEF moved, n, p, j
  <1>7. gone[e] = moved[e] BY <1>3 DEF Tables
  <1>8. gone[e] \in RuleRec BY <1>4 DEF Tables
  <1>9. CASE cur.ipos = "HEAD" /\ e = j
    <2> HIDE DEF gone
    <2>1. clean[e] = [gone[e] EXCEPT !.indx = cur.ientry] BY <1>9, <1>4 DEF Tables
    <2>2. QED BY <1>6, <1>7, <1>8, <1>9, <2>1 DEF RuleRec, SameRule
  <1>10. CASE ~(cur.ipos = "HEAD" /\ e = j)
    <2> HIDE DEF gone
    <2>1. clean[e] = gone[e] BY <1>10, <1>4 DEF Tables
    <2>2. QED BY <1>6, <1>7, <1>10, <2>1 DEF SameRule
  <1>11. QED BY <1>9, <1>10

LEMMA HandlesOfDelClean ==
  ASSUME TypeInv, HandleInv, DelClean
  PROVE  HandleInv'
  <1>0. TablesTyped /\ HandlesTyped /\ CallTyped BY TypeInvParts
  <1> SUFFICES ASSUME fails' <= 1 PROVE (Owned /\ SlotsOwned /\ AddOwned /\ DelOwned)' BY DEF HandleInv
  <1>1. /\ at = "dma" /\ at' = "idle" /\ fails' = fails /\ tbl' = DelDeadHeads(CleanRules)
        /\ rule_id_array' = [rule_id_array EXCEPT ![rule_hdl[cur.rule]] = 0]
        /\ rule_hdl' = [rule_hdl EXCEPT ![cur.rule] = 0]
    BY DEF DelClean
  <1>2. Owned /\ SlotsOwned /\ DelOwned BY <1>1 DEF HandleInv
  <1>3. AddOwned' /\ DelOwned' BY <1>1 DEF AddOwned, Adding, DelOwned
  <1>4. cur.rule \in Rules /\ rule_hdl[cur.rule] # 0 /\ cur.entry = EntryOf(cur.rule)
    BY <1>0, <1>1, <1>2 DEF DelOwned, CallTyped
  <1>5. PICK r \in Rules, e \in Entries : r = cur.rule /\ e = cur.entry BY <1>0, <1>4, CurTypes
  <1>6. e = EntryOf(r) /\ rule_hdl[r] # 0 /\ rule_hdl[r] \in Slots /\ tbl[e].rule = r
    BY <1>0, <1>2, <1>4, <1>5, EntryTypes DEF Owned
  <1>7. /\ rule_hdl'[r] = 0 /\ rule_id_array'[rule_hdl[r]] = 0
        /\ \A q \in Rules : q # r => rule_hdl'[q] = rule_hdl[q]
        /\ \A h \in Slots : h # rule_hdl[r] => rule_id_array'[h] = rule_id_array[h]
    BY <1>0, <1>1, <1>5, <1>6 DEF HandlesTyped
  <1>8. ASSUME NEW q \in Rules, rule_hdl'[q] # 0
        PROVE  /\ EntryOf(q)' # 0 /\ tbl'[EntryOf(q)'].rule = q
               /\ tbl'[EntryOf(q)'].enable /\ ~tbl'[EntryOf(q)'].dead
    <2>1. q # r /\ rule_hdl[q] # 0 /\ rule_hdl'[q] = rule_hdl[q] BY <1>7, <1>8
    <2>2. EntryOf(q) # 0 /\ tbl[EntryOf(q)].rule = q /\ tbl[EntryOf(q)].enable /\ ~tbl[EntryOf(q)].dead
      BY <1>2, <1>5, <2>1 DEF Owned
    <2>3. EntryOf(q) \in Entries /\ rule_hdl[q] \in Slots BY <1>0, <2>1, EntryTypes
    <2>4. rule_hdl[q] # rule_hdl[r] BY <2>1, <2>2, <1>6 DEF EntryOf
    <2>5. EntryOf(q)' = EntryOf(q) BY <1>7, <2>1, <2>3, <2>4 DEF EntryOf, ParseHdl
    <2>6. EntryOf(q) # cur.entry BY <2>1, <2>2, <1>5, <1>6
    <2>7. SameRule(CleanRules[EntryOf(q)], tbl[EntryOf(q)]) BY <2>3, <2>6, CleanFields
    <2>8. tbl'[EntryOf(q)] = CleanRules[EntryOf(q)]
      BY <1>1, <2>2, <2>3, <2>7 DEF DelDeadHeads, SameRule
    <2>9. QED BY <2>2, <2>5, <2>7, <2>8 DEF SameRule
  <1>9. Owned' BY <1>8 DEF Owned
  <1>10. ASSUME NEW h \in Slots, rule_id_array'[h] # 0 PROVE \E q \in Rules : rule_hdl'[q] = h
    <2>1. h # rule_hdl[r] /\ rule_id_array[h] # 0 BY <1>7, <1>10
    <2>2. PICK q \in Rules : rule_hdl[q] = h BY <2>1, <1>2 DEF SlotsOwned
    <2>3. QED BY <2>1, <2>2, <1>7
  <1>11. SlotsOwned' BY <1>10 DEF SlotsOwned
  <1>12. QED BY <1>3, <1>9, <1>11

LEMMA HandlesInit == Init => HandleInv
  <1> SUFFICES ASSUME Init PROVE Owned /\ SlotsOwned /\ AddOwned /\ DelOwned BY DEF HandleInv
  <1>1. rule_hdl = [r \in Rules |-> 0] /\ rule_id_array = [h \in Slots |-> 0] /\ at = "idle" BY DEF Init
  <1>2. QED BY <1>1 DEF Owned, SlotsOwned, AddOwned, DelOwned, Adding

LEMMA HandlesKept ==
  ASSUME TypeInv, HandleInv, [Next]_vars PROVE HandleInv'
  <1>1. CASE UNCHANGED vars
    <2>1. UNCHANGED <<tbl, rule_hdl, rule_id_array, at, cur, cmds, fails>> BY <1>1 DEF vars, hw, cache
    <2>2. QED BY <2>1 DEF HandleInv, Owned, SlotsOwned, AddOwned, DelOwned, Adding, EntryOf, ParseHdl
  <1>2. CASE AddTable \/ AddTableFails \/ DelTable \/ DelTableFails BY <1>2, HandlesOfTables
  <1>3. CASE \E r \in Rules : AddRule(r) BY <1>3, HandlesOfAddRule
  <1>4. CASE AddLink \/ AddIndex \/ AddIndexLink BY <1>4, HandlesOfAddSteps
  <1>5. CASE AddEnable BY <1>5, HandlesOfAddEnable
  <1>6. CASE \E r \in Rules : DelRule(r) BY <1>6, HandlesOfDelRule
  <1>7. CASE Dma BY <1>7, HandlesOfDma
  <1>8. CASE DmaFails BY <1>8, HandlesOfDmaFails
  <1>9. CASE DelClean BY <1>9, HandlesOfDelClean
  <1>10. QED BY <1>1, <1>2, <1>3, <1>4, <1>5, <1>6, <1>7, <1>8, <1>9 DEF Next

-----------------------------------------------------------------------------
(* The tables, as long as no call has failed.  Between calls they are      *)
(* clean; during a call they are what its steps so far have made of clean  *)
(* ones.                                                                   *)

\* A rule that translates packets once it is found.
Live(t, e) == t[e].rule \in Rules /\ t[e].enable /\ ~t[e].dead

\* Entries that are zero.
Blank(a)      == a.rule = NoRule /\ ~a.enable /\ ~a.dead /\ a.next = 0 /\ a.prev = 0 /\ a.indx = 0
BlankIndex(a) == a.entry = 0 /\ a.next = 0

RuleHere(t, e) == t[e].rule \in Rules /\ t[e].enable /\ e \in List(t, DstHash[t[e].rule])
IndexHere(t, x, i) ==
  /\ x[i].entry # 0 /\ Live(t, x[i].entry) /\ t[x[i].entry].indx = i
  /\ i \in List(x, SrcHash[t[x[i].entry].rule])

\* An entry of the rule table is zero or lies in the list of its rule, the links back are
\* right, and a dead rule is the head of a list that goes on.
RulesClean(t) ==
  /\ \A e \in Entries : Blank(t[e]) \/ RuleHere(t, e)
  /\ \A e \in Entries : t[e].next # 0 => t[t[e].next].rule \in Rules /\ t[t[e].next].prev = e
  /\ \A e \in Entries : t[e].dead => e \in Base /\ t[e].next # 0

\* An entry of the index table is zero or lies in the list of the live rule it stands for,
\* the links back are right, and every live rule has its entry.
IndexClean(t, x, p) ==
  /\ \A i \in Entries : BlankIndex(x[i]) \/ IndexHere(t, x, i)
  /\ \A i \in Entries : x[i].next # 0 => x[x[i].next].entry # 0 /\ p[x[i].next] = i
  /\ \A e \in Entries : Live(t, e) => x[t[e].indx].entry = e

\* A live rule has a handle, which leads to it.
HandlesClean(t) ==
  \A e \in Entries : Live(t, e) => rule_hdl[t[e].rule] # 0 /\ EntryOf(t[e].rule) = e

-----------------------------------------------------------------------------
(* Adding a rule.                                                          *)

\* Where a new entry goes: it is the head of the list or comes behind the last entry.
NewPlace(t, h, e, b) ==
  \/ b = 0 /\ e = h
  \/ b # 0 /\ b # e /\ e \in Expn /\ b \in List(t, h) /\ t[b].next = 0

\* Table u is t with the new rule of call c, linked behind the last one or not yet.
RuleAdded(t, u, c) ==
  /\ u[c.entry].rule = c.rule /\ ~u[c.entry].dead /\ u[c.entry].next = 0
  /\ u[c.entry].prev = c.prev /\ u[c.entry].indx = c.ientry
  /\ \A f \in Entries : f # c.entry =>
       /\ SameRule(u[f], t[f]) /\ u[f].prev = t[f].prev /\ u[f].indx = t[f].indx
       /\ u[f].next = t[f].next \/ (f = c.prev /\ u[f].next = c.entry)
       /\ f # c.prev => u[f].next = t[f].next
RuleLinked(u, c) == c.prev # 0 => u[c.prev].next = c.entry

IndexAdded(x, y, c) ==
  /\ y[c.ientry].entry = c.entry /\ y[c.ientry].next = 0
  /\ \A k \in Entries : k # c.ientry =>
       /\ y[k].entry = x[k].entry
       /\ y[k].next = x[k].next \/ (k = c.iprev /\ y[k].next = c.ientry)
       /\ k # c.iprev => y[k].next = x[k].next
IndexLinked(y, c) == c.iprev # 0 => y[c.iprev].next = c.ientry

\* The call c found its places in the tables t and x.
Placed(t, x, p, c) ==
  /\ c.entry # 0 /\ Blank(t[c.entry]) /\ NewPlace(t, DstHash[c.rule], c.entry, c.prev)
  /\ c.prev # 0 => t[c.prev].rule \in Rules
  /\ c.ientry # 0 /\ BlankIndex(x[c.ientry]) /\ NewPlace(x, SrcHash[c.rule], c.ientry, c.iprev)
  /\ c.iprev # 0 => x[c.iprev].entry # 0
  /\ c.ientry \in Expn => p[c.ientry] = c.iprev

AddStage(t, x, p, c, a, u, y) ==
  /\ Placed(t, x, p, c) /\ RuleAdded(t, u, c) /\ ~u[c.entry].enable
  /\ a = "link" => c.prev # 0 /\ y = x
  /\ a # "link" => RuleLinked(u, c)
  /\ a = "index" => y = x
  /\ a = "indexLink" => c.iprev # 0 /\ IndexAdded(x, y, c)
  /\ a = "enable" => IndexAdded(x, y, c) /\ IndexLinked(y, c)

\* Where a list ends there is a rule, or an index entry.
LEMMA ListRules ==
  ASSUME NEW t \in Tables, RulesClean(t), NEW h \in Base, t[h].enable, NEW e \in List(t, h)
  PROVE  t[e].rule \in Rules /\ e \in Entries
  <1>1. NextsTyped(t) BY TableNexts
  <1>2. e \in Entries BY <1>1, ListPlaces
  <1>3. CASE e = h BY <1>2, <1>3 DEF RulesClean, Blank, RuleHere
  <1>4. CASE e # h
    <2>1. PICK b \in List(t, h) : b \in Entries /\ b # e /\ t[b].next = e BY <1>1, <1>4, ListPred
    <2>2. e # 0 BY <1>1, ListPlaces
    <2>3. QED BY <1>2, <2>1, <2>2 DEF RulesClean
  <1>5. QED BY <1>3, <1>4

LEMMA ListIndexes ==
  ASSUME NEW t, NEW x \in Indexes, NEW p, IndexClean(t, x, p), NEW h \in Base, x[h].entry # 0, NEW e \in List(x, h)
  PROVE  x[e].entry # 0 /\ e \in Entries
  <1>1. NextsTyped(x) BY IndexNexts
  <1>2. e \in Entries BY <1>1, ListPlaces
  <1>3. CASE e = h BY <1>2, <1>3
  <1>4. CASE e # h
    <2>1. PICK b \in List(x, h) : b \in Entries /\ b # e /\ x[b].next = e BY <1>1, <1>4, ListPred
    <2>2. e # 0 BY <1>1, ListPlaces
    <2>3. QED BY <1>2, <2>1, <2>2 DEF IndexClean
  <1>5. QED BY <1>3, <1>4

\* Entry 0 is never used.
LEMMA FirstRule ==
  ASSUME NEW t \in Tables, RulesClean(t) PROVE Blank(t[0])
  <1>1. \A r \in Rules : DstHash[r] \in Base BY NatAssumption
  <1>2. ~RuleHere(t, 0) BY <1>1, TableNexts, ListPlaces DEF RuleHere
  <1>3. QED BY <1>2, Places DEF RulesClean

LEMMA FirstIndex ==
  ASSUME NEW t, NEW x \in Indexes, NEW p, IndexClean(t, x, p) PROVE BlankIndex(x[0])
  <1>1. \A r \in Rules : SrcHash[r] \in Base BY NatAssumption
  <1>2. ~IndexHere(t, x, 0)
    <2> SUFFICES ASSUME IndexHere(t, x, 0) PROVE FALSE OBVIOUS
    <2>1. t[x[0].entry].rule \in Rules BY DEF IndexHere, Live
    <2>2. QED BY <2>1, <1>1, IndexNexts, ListPlaces DEF IndexHere
  <1>3. QED BY <1>2, Places DEF IndexClean

\* The lists grow as an entry is added to them.
LEMMA RuleAddedGrows ==
  ASSUME NEW t \in Tables, NEW u \in Tables, NEW c \in Calls, RulesClean(t),
         Blank(t[c.entry]), NewPlace(t, DstHash[c.rule], c.entry, c.prev), RuleAdded(t, u, c)
  PROVE  \A h \in Base : List(t, h) \subseteq List(u, h)
  <1>1. NextsTyped(t) /\ NextsTyped(u) BY TableNexts
  <1>2. \A f \in Entries : t[f].next # 0 => u[f].next = t[f].next
    <2> SUFFICES ASSUME NEW f \in Entries, t[f].next # 0 PROVE u[f].next = t[f].next OBVIOUS
    <2>1. f # c.entry BY DEF Blank
    <2>2. c.prev # 0 => t[c.prev].next = 0 BY DEF NewPlace
    <2>3. c.prev = 0 => t[c.prev].next = 0 BY FirstRule DEF Blank
    <2>4. QED BY <2>1, <2>2, <2>3 DEF RuleAdded
  <1>3. QED BY <1>1, <1>2, ListGrows

LEMMA IndexAddedGrows ==
  ASSUME NEW t, NEW x \in Indexes, NEW y \in Indexes, NEW p, NEW c \in Calls, IndexClean(t, x, p),
         BlankIndex(x[c.ientry]), NewPlace(x, SrcHash[c.rule], c.ientry, c.iprev), IndexAdded(x, y, c)
  PROVE  \A h \in Base : List(x, h) \subseteq List(y, h)
  <1>1. NextsTyped(x) /\ NextsTyped(y) BY IndexNexts
  <1>2. \A f \in Entries : x[f].next # 0 => y[f].next = x[f].next
    <2> SUFFICES ASSUME NEW f \in Entries, x[f].next # 0 PROVE y[f].next = x[f].next OBVIOUS
    <2>1. f # c.ientry BY DEF BlankIndex
    <2>2. c.iprev # 0 => x[c.iprev].next = 0 BY DEF NewPlace
    <2>3. c.iprev = 0 => x[c.iprev].next = 0 BY FirstIndex DEF BlankIndex
    <2>4. QED BY <2>1, <2>2, <2>3 DEF IndexAdded
  <1>3. QED BY <1>1, <1>2, ListGrows

LEMMA RuleAddedClean ==
  ASSUME NEW t \in Tables, NEW u \in Tables, NEW c \in Calls, c.rule \in Rules, RulesClean(t),
         c.entry # 0, Blank(t[c.entry]), NewPlace(t, DstHash[c.rule], c.entry, c.prev),
         c.prev # 0 => t[c.prev].rule \in Rules,
         RuleAdded(t, u, c), RuleLinked(u, c), u[c.entry].enable
  PROVE  RulesClean(u)
  <1>a. NextsTyped(t) /\ NextsTyped(u) BY TableNexts
  <1>b. c.entry \in Entries /\ c.prev \in Entries /\ c.rule # NoRule BY NatAssumption DEF Calls
  <1>c. \A r \in Rules : DstHash[r] \in Base BY NatAssumption
  <1>n. c.prev # 0 => c.prev # c.entry /\ t[c.prev].next = 0 BY DEF NewPlace
  <1>1. \A f \in Entries : t[f].next # 0 => u[f].next = t[f].next
    <2> SUFFICES ASSUME NEW f \in Entries, t[f].next # 0 PROVE u[f].next = t[f].next OBVIOUS
    <2>1. f # c.entry BY DEF Blank
    <2>2. f = c.prev => c.prev = 0 BY <1>n
    <2>3. c.prev = 0 => t[c.prev].next = 0 BY FirstRule DEF Blank
    <2>4. QED BY <2>1, <2>2, <2>3 DEF RuleAdded
  <1>2. \A h \in Base : List(t, h) \subseteq List(u, h) BY RuleAddedGrows
  <1>3. ASSUME NEW f \in Entries PROVE Blank(u[f]) \/ RuleHere(u, f)
    <2>1. CASE f = c.entry
      <3>1. u[f].rule = c.rule BY <2>1 DEF RuleAdded
      <3>2. PICK h \in Base : h = DstHash[c.rule] BY <1>c
      <3>3. ListFacts(u, h) BY <1>a, ListLeast
      <3>4. f \in List(u, h)
        <4>1. CASE c.prev = 0 /\ c.entry = h BY <2>1, <3>3, <4>1 DEF ListFacts
        <4>2. CASE c.prev # 0 /\ c.prev \in List(t, h)
          <5>1. c.prev \in List(u, h) /\ u[c.prev].next = c.entry BY <1>2, <4>2 DEF RuleLinked
          <5>2. QED BY <5>1, <3>3, <2>1 DEF ListFacts, Closed
        <4>3. QED BY <4>1, <4>2, <3>2 DEF NewPlace
      <3>5. QED BY <2>1, <3>1, <3>2, <3>4 DEF RuleHere
    <2>2. CASE f # c.entry /\ Blank(t[f])
      <3>1. f # c.prev \/ c.prev = 0 BY <2>2, NatAssumption DEF Blank
      <3>2. u[f].next = 0
        <4>1. CASE f # c.prev BY <2>2, <4>1 DEF RuleAdded, Blank
        <4>2. CASE f = c.prev /\ c.prev = 0
          <5>1. c.entry = DstHash[c.rule] BY <4>2 DEF NewPlace
          <5>2. c.entry \notin Expn BY <5>1, <1>c, Places
          <5>3. u[f].next # c.entry BY <5>2, <1>a, <2>2 DEF NextsTyped
          <5>4. QED BY <5>3, <2>2 DEF RuleAdded, Blank
        <4>3. QED BY <3>1, <4>1, <4>2
      <3>3. QED BY <2>2, <3>2 DEF RuleAdded, Blank, SameRule
    <2>3. CASE f # c.entry /\ RuleHere(t, f)
      <3>1. DstHash[t[f].rule] \in Base BY <2>3, <1>c DEF RuleHere
      <3>2. QED BY <2>3, <3>1, <1>2 DEF RuleAdded, SameRule, RuleHere
    <2>4. QED BY <2>1, <2>2, <2>3 DEF RulesClean
  <1>4. ASSUME NEW f \in Entries, u[f].next # 0 PROVE u[u[f].next].rule \in Rules /\ u[u[f].next].prev = f
    <2>1. f # c.entry BY <1>4 DEF RuleAdded
    <2>2. CASE u[f].next = t[f].next
      <3>1. t[t[f].next].rule \in Rules /\ t[t[f].next].prev = f /\ t[f].next \in Entries
        BY <1>4, <2>2, <1>a, Places DEF RulesClean, NextsTyped
      <3>2. t[f].next # c.entry BY <3>1, NatAssumption DEF Blank
      <3>3. QED BY <2>2, <3>1, <3>2 DEF RuleAdded, SameRule
    <2>3. CASE f = c.prev /\ u[f].next = c.entry BY <2>3 DEF RuleAdded
    <2>4. QED BY <2>1, <2>2, <2>3 DEF RuleAdded
  <1>5. ASSUME NEW f \in Entries, u[f].dead PROVE f \in Base /\ u[f].next # 0
    <2>1. f # c.entry BY <1>5 DEF RuleAdded
    <2>2. t[f].dead BY <1>5, <2>1 DEF RuleAdded, SameRule
    <2>3. QED BY <2>2, <1>1 DEF RulesClean
  <1>6. QED BY <1>3, <1>4, <1>5 DEF RulesClean

LEMMA IndexAddedClean ==
  ASSUME NEW t \in Tables, NEW u \in Tables, NEW x \in Indexes, NEW y \in Indexes, NEW p, NEW c \in Calls, c.rule \in Rules,
         RulesClean(t), IndexClean(t, x, p), Placed(t, x, p, c),
         RuleAdded(t, u, c), u[c.entry].enable, IndexAdded(x, y, c), IndexLinked(y, c)
  PROVE  IndexClean(u, y, p)
  <1>a. NextsTyped(x) /\ NextsTyped(y) BY IndexNexts
  <1>b. c.entry \in Entries /\ c.ientry \in Entries /\ c.iprev \in Entries /\ c.rule # NoRule BY NatAssumption DEF Calls
  <1>c. \A r \in Rules : SrcHash[r] \in Base BY NatAssumption
  <1>2. \A h \in Base : List(x, h) \subseteq List(y, h) BY IndexAddedGrows DEF Placed
  <1>l. \A f \in Entries : f # c.entry => (Live(u, f) <=> Live(t, f)) /\ u[f].rule = t[f].rule /\ u[f].indx = t[f].indx
    BY DEF Live, RuleAdded, SameRule
  <1>m. Live(u, c.entry) /\ u[c.entry].indx = c.ientry /\ u[c.entry].rule = c.rule BY DEF Live, RuleAdded
  <1>d. ~Live(t, c.entry) BY DEF Placed, Live, Blank
  <1>3. ASSUME NEW k \in Entries PROVE BlankIndex(y[k]) \/ IndexHere(u, y, k)
    <2>1. CASE k = c.ientry
      <3>1. y[k].entry = c.entry /\ c.entry # 0 BY <2>1 DEF IndexAdded, Placed
      <3>2. PICK h \in Base : h = SrcHash[c.rule] BY <1>c
      <3>3. ListFacts(y, h) BY <1>a, ListLeast
      <3>4. k \in List(y, h)
        <4>1. CASE c.iprev = 0 /\ c.ientry = h BY <2>1, <3>3, <4>1 DEF ListFacts
        <4>2. CASE c.iprev # 0 /\ c.iprev \in List(x, h)
          <5>1. c.iprev \in List(y, h) /\ y[c.iprev].next = c.ientry BY <1>2, <4>2 DEF IndexLinked
          <5>2. c.ientry # 0 BY DEF Placed
          <5>3. QED BY <5>1, <5>2, <3>3, <2>1 DEF ListFacts, Closed
        <4>3. QED BY <4>1, <4>2, <3>2 DEF NewPlace, Placed
      <3>5. QED BY <2>1, <3>1, <3>2, <3>4, <1>m DEF IndexHere
    <2>2. CASE k # c.ientry /\ BlankIndex(x[k])
      <3>1. y[k].entry = 0 BY <2>2 DEF IndexAdded, BlankIndex
      <3>2. CASE k # c.iprev BY <2>2, <3>1, <3>2 DEF IndexAdded, BlankIndex
      <3>3. CASE k = c.iprev
        <4>1. c.iprev = 0 BY <2>2, <3>3 DEF Placed, BlankIndex
        <4>2. c.ientry \in Base BY <4>1, <1>c DEF Placed, NewPlace
        <4>3. y[k].next # c.ientry BY <4>2, <1>a, Places DEF NextsTyped
        <4>4. QED BY <2>2, <3>1, <4>3 DEF IndexAdded, BlankIndex
      <3>4. QED BY <3>2, <3>3
    <2>3. CASE k # c.ientry /\ IndexHere(t, x, k)
      <3>1. y[k].entry = x[k].entry BY <2>3 DEF IndexAdded
      <3>2. PICK f \in Entries : f = x[k].entry BY DEF Indexes, IndexRec
      <3>3. f # 0 /\ Live(t, f) /\ t[f].indx = k /\ k \in List(x, SrcHash[t[f].rule]) BY <2>3, <3>2 DEF IndexHere
      <3>4. f # c.entry BY <3>3, <1>d
      <3>5. SrcHash[t[f].rule] \in Base BY <3>3, <1>c DEF Live
      <3>6. k \in List(y, SrcHash[u[f].rule]) BY <3>3, <3>4, <3>5, <1>2, <1>l
      <3>7. QED BY <3>1, <3>2, <3>3, <3>4, <3>6, <1>l DEF IndexHere
    <2>4. QED BY <2>1, <2>2, <2>3 DEF IndexClean
  <1>4. ASSUME NEW k \in Entries, y[k].next # 0 PROVE y[y[k].next].entry # 0 /\ p[y[k].next] = k
    <2>1. k # c.ientry BY <1>4 DEF IndexAdded
    <2>2. CASE y[k].next = x[k].next
      <3>1. x[x[k].next].entry # 0 /\ p[x[k].next] = k /\ x[k].next \in Entries
        BY <1>4, <2>2, <1>a, Places DEF IndexClean, NextsTyped
      <3>2. x[k].next # c.ientry BY <3>1 DEF BlankIndex, Placed
      <3>3. QED BY <2>2, <3>1, <3>2 DEF IndexAdded
    <2>3. CASE k = c.iprev /\ y[k].next = c.ientry
      <3>1. c.ientry \in Expn BY <2>3, <1>4, <1>a DEF NextsTyped
      <3>2. QED BY <2>3, <3>1 DEF IndexAdded, Placed
    <2>4. QED BY <2>1, <2>2, <2>3 DEF IndexAdded
  <1>5. ASSUME NEW f \in Entries, Live(u, f) PROVE y[u[f].indx].entry = f
    <2>1. CASE f = c.entry BY <2>1, <1>m DEF IndexAdded
    <2>2. CASE f # c.entry
      <3>1. Live(t, f) /\ u[f].indx = t[f].indx BY <2>2, <1>5, <1>l
      <3>2. x[t[f].indx].entry = f /\ t[f].indx \in Entries BY <3>1 DEF IndexClean, Tables, RuleRec
      <3>3. f # 0 BY <3>1, FirstRule DEF Live, Blank
      <3>4. t[f].indx # c.ientry BY <3>2, <3>3 DEF Placed, BlankIndex
      <3>5. QED BY <3>1, <3>2, <3>4 DEF IndexAdded
    <2>3. QED BY <2>1, <2>2
  <1>6. QED BY <1>3, <1>4, <1>5 DEF IndexClean

-----------------------------------------------------------------------------
(* Deleting a rule.                                                        *)

\* The index table when the commands on it are executed.
IndexDone(x, p, i) ==
  IF Position(x, i) = "HEAD" THEN WroteIndex(WroteIndex(x, IndexCmd(x, p, i)), HeadCmd(x, i))
                             ELSE WroteIndex(x, IndexCmd(x, p, i))

\* The call c deletes a rule of the tables t and x.
Deletes(t, x, c) ==
  /\ Live(t, c.entry) /\ t[c.entry].rule = c.rule /\ c.ientry = t[c.entry].indx
  /\ c.inext = x[c.ientry].next /\ c.pos = Position(t, c.entry) /\ c.ipos = Position(x, c.ientry)

\* The commands ks are left and the others have made u and y of the tables t and x.
DelStage(t, x, p, c, ks, u, y) ==
  \/ /\ u = t /\ y = x
     /\ ks = IF Position(x, c.ientry) = "HEAD"
               THEN <<IndexCmd(x, p, c.ientry), HeadCmd(x, c.ientry), RuleCmd(t, c.entry)>>
               ELSE <<IndexCmd(x, p, c.ientry), RuleCmd(t, c.entry)>>
  \/ /\ Position(x, c.ientry) = "HEAD" /\ u = t /\ y = WroteIndex(x, IndexCmd(x, p, c.ientry))
     /\ ks = <<HeadCmd(x, c.ientry), RuleCmd(t, c.entry)>>
  \/ u = t /\ y = IndexDone(x, p, c.ientry) /\ ks = <<RuleCmd(t, c.entry)>>
  \/ u = Wrote(t, RuleCmd(t, c.entry)) /\ y = IndexDone(x, p, c.ientry) /\ ks = <<>>

Clean(t, x) == RulesClean(t) /\ IndexClean(t, x, prev_index) /\ HandlesClean(t)

Stage(t, x) ==
  /\ at = "idle" => tbl = t /\ indx = x
  /\ Adding => AddStage(t, x, prev_index, cur, at, tbl, indx)
  /\ at = "dma" => Deletes(t, x, cur) /\ DelStage(t, x, prev_index, cur, cmds, tbl, indx)

SoundInv == fails = 0 => \E t \in Tables, x \in Indexes : Clean(t, x) /\ Stage(t, x)

-----------------------------------------------------------------------------
(* The steps that add a rule keep SoundInv.                                *)

LEMMA EmptyClean ==
  ASSUME NEW t, NEW x, NEW p, t = [e \in Entries |-> ZeroRule], x = [e \in Entries |-> ZeroIndex]
  PROVE  RulesClean(t) /\ IndexClean(t, x, p) /\ \A e \in Entries : ~Live(t, e)
  <1>1. \A e \in Entries : t[e] = ZeroRule /\ x[e] = ZeroIndex OBVIOUS
  <1>2. \A e \in Entries : Blank(t[e]) /\ BlankIndex(x[e]) BY <1>1 DEF Blank, BlankIndex, ZeroRule, ZeroIndex
  <1>3. QED BY <1>2 DEF RulesClean, IndexClean, Live, Blank, BlankIndex

LEMMA SoundInit == Init => SoundInv
  <1> SUFFICES ASSUME Init PROVE Clean(tbl, indx) /\ Stage(tbl, indx) /\ tbl \in Tables /\ indx \in Indexes
    BY DEF SoundInv
  <1>1. tbl = [e \in Entries |-> ZeroRule] /\ indx = [e \in Entries |-> ZeroIndex] /\ at = "idle" BY DEF Init
  <1>2. tbl \in Tables /\ indx \in Indexes BY <1>1, ZeroTypes
  <1>3. RulesClean(tbl) /\ IndexClean(tbl, indx, prev_index) /\ \A e \in Entries : ~Live(tbl, e) BY <1>1, EmptyClean
  <1>4. Clean(tbl, indx) BY <1>3 DEF Clean, HandlesClean
  <1>5. QED BY <1>1, <1>2, <1>4 DEF Stage, Adding

\* A step that fails leaves nothing to show.
LEMMA FailedSteps ==
  ASSUME TypeInv, fails' = 0 PROVE ~Fails
  <1>1. fails \in 0..MaxFails BY DEF TypeInv, TypeOK
  <1>2. QED BY <1>1, NatAssumption DEF Fails

LEMMA SoundOfTables ==
  ASSUME TypeInv, SoundInv, AddTable \/ AddTableFails \/ DelTable \/ DelTableFails
  PROVE  SoundInv'
  <1> SUFFICES ASSUME fails' = 0 PROVE \E t \in Tables, x \in Indexes : Clean(t, x)' /\ Stage(t, x)' BY DEF SoundInv
  <1>1. AddTable \/ DelTable BY FailedSteps DEF AddTableFails, DelTableFails
  <1> DEFINE t == [e \in Entries |-> ZeroRule]
             x == [e \in Entries |-> ZeroIndex]
  <1>2. tbl' = t /\ indx' = x /\ at' = "idle" BY <1>1 DEF AddTable, DelTable
  <1>3. RulesClean(t) /\ IndexClean(t, x, prev_index') /\ \A e \in Entries : ~Live(t, e) BY EmptyClean
  <1>4. t \in Tables /\ x \in Indexes BY ZeroTypes
  <1> HIDE DEF t, x
  <1>5. Clean(t, x)' BY <1>3 DEF Clean, HandlesClean
  <1>6. Stage(t, x)' BY <1>2 DEF Stage, Adding
  <1>7. QED BY <1>4, <1>5, <1>6

LEMMA HandlesCleanKept ==
  ASSUME NEW t, HandlesClean(t), UNCHANGED <<rule_hdl, rule_id_array>>
  PROVE  HandlesClean(t)'
  BY DEF HandlesClean, EntryOf, ParseHdl

\* The places that ipa_nati_generate_tbl_rule() and ipa_nati_generate_index_rule() find.
LEMMA GeneratedPlaces ==
  ASSUME TypeInv, NEW r \in Rules, Clean(tbl, indx), NEW g, Generated(g, r), g.entry # 0, g.ientry # 0,
         NEW p, g.ientry \in Expn => p[g.ientry] = g.iprev
  PROVE  Placed(tbl, indx, p, g)
  <1>0. TablesTyped /\ HandlesTyped /\ CallTyped BY TypeInvParts
  <1>t. tbl \in Tables /\ indx \in Indexes BY <1>0 DEF TablesTyped
  <1>n. NextsTyped(tbl) /\ NextsTyped(indx) BY <1>t, TableNexts, IndexNexts
  <1>c. RulesClean(tbl) /\ IndexClean(tbl, indx, prev_index) BY DEF Clean
  <1>h. PICK d \in Base, s \in Base : d = DstHash[r] /\ s = SrcHash[r] BY NatAssumption
  <1>g. /\ g \in Calls /\ g.rule = r
        /\ g.entry = IF d \notin Enabled THEN d ELSE IF Last(tbl, d) = 0 THEN 0 ELSE FreeEntry(Enabled)
        /\ g.prev = IF d \notin Enabled THEN 0 ELSE Last(tbl, d)
        /\ g.ientry = IF s \notin Indexed THEN s ELSE IF Last(indx, s) = 0 THEN 0 ELSE FreeEntry(Indexed)
        /\ g.iprev = IF s \notin Indexed THEN 0 ELSE Last(indx, s)
    BY <1>h DEF Generated
  <1>e. g.entry \in Entries /\ g.ientry \in Entries /\ d \in Entries /\ s \in Entries BY <1>g, Places DEF Calls
  <1>1. Blank(tbl[g.entry])
    <2>1. g.entry \notin Enabled BY <1>g, FreeFacts
    <2>2. ~tbl[g.entry].enable BY <2>1, <1>e DEF Enabled
    <2>3. QED BY <2>2, <1>e, <1>c DEF RulesClean, RuleHere
  <1>2. BlankIndex(indx[g.ientry])
    <2>1. g.ientry \notin Indexed BY <1>g, FreeFacts
    <2>2. indx[g.ientry].entry = 0 BY <2>1, <1>e DEF Indexed
    <2>3. QED BY <2>2, <1>e, <1>c DEF IndexClean, IndexHere
  <1>3. NewPlace(tbl, d, g.entry, g.prev) /\ (g.prev # 0 => tbl[g.prev].rule \in Rules)
    <2>1. CASE d \notin Enabled BY <2>1, <1>g DEF NewPlace
    <2>2. CASE d \in Enabled
      <3>1. g.prev = Last(tbl, d) /\ g.prev # 0 /\ g.entry = FreeEntry(Enabled) BY <2>2, <1>g
      <3>2. g.prev \in List(tbl, d) /\ tbl[g.prev].next = 0 BY <3>1, <1>n, LastFacts
      <3>3. g.entry \in Expn BY <3>1, FreeFacts
      <3>4. tbl[d].enable BY <2>2 DEF Enabled
      <3>5. tbl[g.prev].rule \in Rules BY <3>2, <3>4, <1>t, <1>c, ListRules
      <3>6. g.prev # g.entry BY <3>5, <1>1, NatAssumption DEF Blank
      <3>7. QED BY <3>1, <3>2, <3>3, <3>5, <3>6 DEF NewPlace
    <2>3. QED BY <2>1, <2>2
  <1>4. NewPlace(indx, s, g.ientry, g.iprev) /\ (g.iprev # 0 => indx[g.iprev].entry # 0)
    <2>1. CASE s \notin Indexed BY <2>1, <1>g DEF NewPlace
    <2>2. CASE s \in Indexed
      <3>1. g.iprev = Last(indx, s) /\ g.iprev # 0 /\ g.ientry = FreeEntry(Indexed) BY <2>2, <1>g
      <3>2. g.iprev \in List(indx, s) /\ indx[g.iprev].next = 0 BY <3>1, <1>n, LastFacts
      <3>3. g.ientry \in Expn BY <3>1, FreeFacts
      <3>4. indx[s].entry # 0 BY <2>2 DEF Indexed
      <3>5. indx[g.iprev].entry # 0 BY <3>2, <3>4, <1>t, <1>c, ListIndexes
      <3>6. g.iprev # g.ientry BY <3>5, <1>2 DEF BlankIndex
      <3>7. QED BY <3>1, <3>2, <3>3, <3>5, <3>6 DEF NewPlace
    <2>3. QED BY <2>1, <2>2
  <1>5. QED BY <1>1, <1>2, <1>3, <1>4, <1>h, <1>g DEF Placed

LEMMA SoundOfAddRule ==
  ASSUME TypeInv, SoundInv, NEW r \in Rules, AddRule(r)
  PROVE  SoundInv'
  <1> SUFFICES ASSUME fails' = 0 PROVE \E t \in Tables, x \in Indexes : Clean(t, x)' /\ Stage(t, x)' BY DEF SoundInv
  <1>0. TablesTyped /\ HandlesTyped /\ CallTyped BY TypeInvParts
  <1>g. PICK g : g = GenerateRule(r) OBVIOUS
  <1>1. Generated(g, r) BY <1>g, GenerateFacts DEF TypeInv
  <1>2. /\ at = "idle" /\ g.entry # 0 /\ g.ientry # 0
        /\ prev_index' = IF g.ientry \in Expn THEN [prev_index EXCEPT ![g.ientry] = g.iprev] ELSE prev_index
        /\ tbl' = [tbl EXCEPT ![g.entry] = [ZeroRule EXCEPT !.rule = r, !.prev = g.prev, !.indx = g.ientry]]
        /\ cur' = g /\ at' = IF g.prev # 0 THEN "link" ELSE "index"
        /\ UNCHANGED <<indx, rule_id_array, rule_hdl, fails>>
    BY <1>g, Zenon DEF AddRule
  <1>3. g \in Calls /\ g.rule = r /\ g.entry \in Entries /\ g.ientry \in Entries BY <1>1 DEF Generated, Calls
  <1>4. tbl' = [tbl EXCEPT ![g.entry] = NewRule(g)] BY <1>2, <1>3 DEF NewRule
  <1>5. PICK t \in Tables, x \in Indexes : Clean(t, x) /\ Stage(t, x) BY <1>2 DEF SoundInv
  <1>6. tbl = t /\ indx = x BY <1>2, <1>5 DEF Stage
  <1>7. g.ientry \in Expn => prev_index'[g.ientry] = g.iprev BY <1>0, <1>2 DEF TablesTyped
  <1>8. Placed(tbl, indx, prev_index', g) BY <1>1, <1>2, <1>5, <1>6, <1>7, GeneratedPlaces
  <1>9. RuleAdded(t, tbl', g) /\ ~tbl'[g.entry].enable
    <2>1. tbl'[g.entry] = NewRule(g) /\ \A f \in Entries : f # g.entry => tbl'[f] = t[f]
      BY <1>3, <1>4, <1>5, <1>6 DEF Tables
    <2>2. NewRule(g) = [enable |-> FALSE, dead |-> FALSE, rule |-> g.rule, next |-> 0, prev |-> g.prev, indx |-> g.ientry]
      BY <1>3, NewRuleFacts
    <2>3. QED BY <2>1, <2>2 DEF RuleAdded, SameRule
  <1>10. RuleLinked(tbl', g) \/ g.prev # 0 BY DEF RuleLinked
  <1>11. Stage(t, x)' BY <1>2, <1>6, <1>8, <1>9, <1>10 DEF Stage, Adding, AddStage
  <1>12. IndexClean(t, x, prev_index')
    <2>1. IndexClean(t, x, prev_index) BY <1>5 DEF Clean
    <2>2. ASSUME NEW i \in Entries, x[i].next # 0 PROVE x[x[i].next].entry # 0 /\ prev_index'[x[i].next] = i
      <3>1. x[x[i].next].entry # 0 /\ prev_index[x[i].next] = i BY <2>1, <2>2 DEF IndexClean
      <3>2. x[i].next # g.ientry BY <3>1, <1>8, <1>6 DEF Placed, BlankIndex
      <3>3. x[i].next \in Expn BY <2>2 DEF Indexes, IndexRec
      <3>4. QED BY <3>1, <3>2, <3>3, <1>0, <1>2 DEF TablesTyped
    <2>3. QED BY <2>1, <2>2 DEF IndexClean
  <1>13. HandlesClean(t)' BY <1>2, <1>5, HandlesCleanKept DEF Clean
  <1>14. Clean(t, x)' BY <1>5, <1>12, <1>13 DEF Clean
  <1>15. QED BY <1>11, <1>14

LEMMA SoundOfAddSteps ==
  ASSUME TypeInv, SoundInv, AddLink \/ AddIndex \/ AddIndexLink
  PROVE  SoundInv'
  <1> SUFFICES ASSUME fails' = 0 PROVE \E t \in Tables, x \in Indexes : Clean(t, x)' /\ Stage(t, x)' BY DEF SoundInv
  <1>0. TablesTyped /\ HandlesTyped /\ CallTyped BY TypeInvParts
  <1>f. ~Fails BY FailedSteps
  <1>1. UNCHANGED <<fails, prev_index, rule_id_array, rule_hdl, cur>> /\ at \in {"link", "index", "indexLink"}
    BY <1>f DEF AddLink, AddIndex, AddIndexLink, cache
  <1>2. PICK t \in Tables, x \in Indexes : Clean(t, x) /\ Stage(t, x) BY <1>1 DEF SoundInv
  <1>3. HandlesClean(t)' BY <1>1, <1>2, HandlesCleanKept DEF Clean
  <1>4. Clean(t, x)' BY <1>1, <1>2, <1>3 DEF Clean
  <1>5. AddStage(t, x, prev_index, cur, at, tbl, indx) BY <1>1, <1>2 DEF Stage, Adding
  <1>6. PICK c \in Calls : c = cur /\ c = cur' BY <1>0, <1>1 DEF CallTyped
  <1>7. c.entry \in Entries /\ c.prev \in Entries /\ c.ientry \in Entries /\ c.iprev \in Entries BY DEF Calls
  <1>8. Placed(t, x, prev_index, c) /\ RuleAdded(t, tbl, c) /\ ~tbl[c.entry].enable BY <1>5, <1>6 DEF AddStage
  <1>t. tbl \in Tables /\ indx \in Indexes BY <1>0 DEF TablesTyped
  <1>9. CASE AddLink
    <2>1. at = "link" /\ at' = "index" /\ indx' = indx /\ tbl' = [tbl EXCEPT ![c.prev].next = c.entry]
      BY <1>f, <1>6, <1>9 DEF AddLink
    <2>2. c.prev # 0 /\ indx = x BY <2>1, <1>5, <1>6 DEF AddStage
    <2>3. c.prev # c.entry BY <2>2, <1>8 DEF Placed, NewPlace
    <2>4. /\ \A f \in Entries : f # c.prev => tbl'[f] = tbl[f]
          /\ tbl'[c.prev] = [tbl[c.prev] EXCEPT !.next = c.entry]
      BY <2>1, <1>t, <1>7 DEF Tables
    <2>5. /\ SameRule(tbl'[c.prev], tbl[c.prev]) /\ tbl'[c.prev].prev = tbl[c.prev].prev
          /\ tbl'[c.prev].indx = tbl[c.prev].indx /\ tbl'[c.prev].next = c.entry
      <3>1. tbl[c.prev] \in RuleRec BY <1>t, <1>7 DEF Tables
      <3>2. QED BY <2>4, <3>1 DEF RuleRec, SameRule
    <2>6. RuleAdded(t, tbl', c) /\ ~tbl'[c.entry].enable
      <3>1. tbl'[c.entry] = tbl[c.entry] BY <2>3, <2>4, <1>7
      <3>2. ASSUME NEW f \in Entries, f # c.entry
            PROVE  /\ SameRule(tbl'[f], t[f]) /\ tbl'[f].prev = t[f].prev /\ tbl'[f].indx = t[f].indx
                   /\ tbl'[f].next = t[f].next \/ (f = c.prev /\ tbl'[f].next = c.entry)
                   /\ f # c.prev => tbl'[f].next = t[f].next
        <4>1. CASE f = c.prev BY <3>2, <4>1, <2>5, <1>8 DEF RuleAdded, SameRule
        <4>2. CASE f # c.prev
          <5>1. tbl'[f] = tbl[f] BY <4>2, <2>4
          <5>2. QED BY <3>2, <4>2, <5>1, <1>8 DEF RuleAdded
        <4>3. QED BY <4>1, <4>2
      <3>3. QED BY <3>1, <3>2, <1>8 DEF RuleAdded
    <2>7. RuleLinked(tbl', c) BY <2>5 DEF RuleLinked
    <2>8. AddStage(t, x, prev_index, c, "index", tbl', indx') BY <1>8, <2>1, <2>2, <2>6, <2>7 DEF AddStage
    <2>9. Stage(t, x)' BY <2>1, <2>8, <1>1, <1>6 DEF Stage, Adding
    <2>10. QED BY <2>9, <1>4
  <1>10. CASE AddIndex
    <2>1. /\ at = "index" /\ tbl' = tbl /\ at' = IF c.iprev # 0 THEN "indexLink" ELSE "enable"
          /\ indx' = [indx EXCEPT ![c.ientry] = [entry |-> c.entry, next |-> 0]]
      BY <1>6, <1>10 DEF AddIndex
    <2>2. indx = x /\ RuleLinked(tbl, c) BY <2>1, <1>5, <1>6 DEF AddStage
    <2>3. /\ \A k \in Entries : k # c.ientry => indx'[k] = x[k]
          /\ indx'[c.ientry] = [entry |-> c.entry, next |-> 0]
      BY <2>1, <2>2, <1>t, <1>7 DEF Indexes
    <2>4. IndexAdded(x, indx', c) BY <2>3 DEF IndexAdded
    <2>5. AddStage(t, x, prev_index, c, at', tbl', indx') BY <1>8, <2>1, <2>2, <2>4 DEF AddStage, IndexLinked
    <2>6. Stage(t, x)' BY <2>1, <2>5, <1>1, <1>6 DEF Stage, Adding
    <2>7. QED BY <2>6, <1>4
  <1>11. CASE AddIndexLink
    <2>1. at = "indexLink" /\ at' = "enable" /\ tbl' = tbl /\ indx' = [indx EXCEPT ![c.iprev].next = c.ientry]
      BY <1>f, <1>6, <1>11 DEF AddIndexLink
    <2>2. c.iprev # 0 /\ RuleLinked(tbl, c) /\ IndexAdded(x, indx, c) BY <2>1, <1>5, <1>6 DEF AddStage
    <2>3. c.iprev # c.ientry BY <2>2, <1>8 DEF Placed, NewPlace
    <2>4. /\ \A k \in Entries : k # c.iprev => indx'[k] = indx[k]
          /\ indx'[c.iprev] = [indx[c.iprev] EXCEPT !.next = c.ientry]
      BY <2>1, <1>t, <1>7 DEF Indexes
    <2>5. indx'[c.iprev].entry = indx[c.iprev].entry /\ indx'[c.iprev].next = c.ientry
      <3>1. indx[c.iprev] \in IndexRec BY <1>t, <1>7 DEF Indexes
      <3>2. QED BY <2>4, <3>1 DEF IndexRec
    <2>6. IndexAdded(x, indx', c)
      <3>1. indx'[c.ientry] = indx[c.ientry] BY <2>3, <2>4, <1>7
      <3>2. ASSUME NEW k \in Entries, k # c.ientry
            PROVE  /\ indx'[k].entry = x[k].entry
                   /\ indx'[k].next = x[k].next \/ (k = c.iprev /\ indx'[k].next = c.ientry)
                   /\ k # c.iprev => indx'[k].next = x[k].next
        BY <3>2, <2>2, <2>4, <2>5 DEF IndexAdded
      <3>3. QED BY <3>1, <3>2, <2>2 DEF IndexAdded
    <2>7. IndexLinked(indx', c) BY <2>5 DEF IndexLinked
    <2>8. AddStage(t, x, prev_index, c, "enable", tbl', indx') BY <1>8, <2>1, <2>2, <2>6, <2>7 DEF AddStage
    <2>9. Stage(t, x)' BY <2>1, <2>8, <1>1, <1>6 DEF Stage, Adding
    <2>10. QED BY <2>9, <1>4
  <1>12. QED BY <1>9, <1>10, <1>11

LEMMA EntriesTyped == HandlesTyped => \A r \in Rules : rule_hdl[r] # 0 => EntryOf(r) \in Entries
  BY EntryTypes

LEMMA EntriesTypedNext == HandlesTyped' => (\A r \in Rules : rule_hdl[r] # 0 => EntryOf(r) \in Entries)'
  BY EntriesTyped, PTL

LEMMA SoundOfAddEnable ==
  ASSUME TypeInv, HandleInv, SoundInv, AddEnable, TypeInv', HandleInv'
  PROVE  SoundInv'
  <1> SUFFICES ASSUME fails' = 0 PROVE \E t \in Tables, x \in Indexes : Clean(t, x)' /\ Stage(t, x)' BY DEF SoundInv
  <1>0. TablesTyped /\ HandlesTyped /\ CallTyped BY TypeInvParts
  <1>p. tbl' \in Tables /\ indx' \in Indexes BY TypeInvPartsNext DEF TablesTyped
  <1>f. ~Fails BY FailedSteps
  <1>1. /\ at = "enable" /\ at' = "idle" /\ UNCHANGED <<fails, indx, prev_index>>
        /\ tbl' = [tbl EXCEPT ![cur.entry].enable = TRUE]
        /\ rule_hdl' = [rule_hdl EXCEPT ![cur.rule] = FreeHandle]
    BY <1>f DEF AddEnable
  <1>2. Adding /\ fails <= 1 /\ fails' <= 1 BY <1>1 DEF Adding
  <1>3. Owned /\ AddOwned /\ Owned' BY <1>2 DEF HandleInv
  <1>4. FreeHandle # 0
    <2>1. FreeHandle \in Slots BY <1>2, HandleFree
    <2>2. QED BY <2>1, NatAssumption DEF Slots
  <1>5. PICK t \in Tables, x \in Indexes : Clean(t, x) /\ Stage(t, x) BY <1>1 DEF SoundInv
  <1>6. PICK c \in Calls, r \in Rules : c = cur /\ r = c.rule BY <1>0, <1>1 DEF CallTyped
  <1>7. AddStage(t, x, prev_index, c, "enable", tbl, indx) BY <1>1, <1>2, <1>5, <1>6 DEF Stage
  <1>8. c.entry \in Entries BY DEF Calls
  <1>9. /\ \A f \in Entries : f # c.entry => tbl'[f] = tbl[f]
        /\ tbl'[c.entry] = [tbl[c.entry] EXCEPT !.enable = TRUE] /\ tbl[c.entry] \in RuleRec
    BY <1>0, <1>1, <1>6, <1>8 DEF TablesTyped, Tables
  <1>10. RuleAdded(t, tbl', c) /\ tbl'[c.entry].enable
    <2>1. /\ tbl'[c.entry].rule = tbl[c.entry].rule /\ (tbl'[c.entry].dead <=> tbl[c.entry].dead)
          /\ tbl'[c.entry].next = tbl[c.entry].next /\ tbl'[c.entry].prev = tbl[c.entry].prev
          /\ tbl'[c.entry].indx = tbl[c.entry].indx /\ tbl'[c.entry].enable
      BY <1>9 DEF RuleRec
    <2>2. RuleAdded(t, tbl, c) BY <1>7 DEF AddStage
    <2>3. QED BY <2>1, <2>2, <1>9 DEF RuleAdded
  <1>11. Placed(t, x, prev_index, c) BY <1>7 DEF AddStage
  <1>12. RuleLinked(tbl', c)
    <2>1. c.prev # 0 => c.prev # c.entry /\ c.prev \in Entries BY <1>11 DEF Placed, NewPlace, Calls
    <2>2. QED BY <2>1, <1>7, <1>9 DEF AddStage, RuleLinked
  <1>13. RulesClean(t) /\ IndexClean(t, x, prev_index) /\ HandlesClean(t) BY <1>5 DEF Clean
  <1>14. RulesClean(tbl') BY <1>6, <1>10, <1>11, <1>12, <1>13, <1>p, RuleAddedClean DEF Placed
  <1>15. IndexClean(tbl', indx', prev_index')
    <2>1. IndexAdded(x, indx, c) /\ IndexLinked(indx, c) BY <1>7 DEF AddStage
    <2>2. IndexClean(tbl', indx, prev_index) BY <2>1, <1>1, <1>6, <1>10, <1>11, <1>13, <1>p, IndexAddedClean
    <2>3. QED BY <2>2, <1>1
  <1>16. HandlesClean(tbl)'
    <2>a. \A f \in Entries : f # c.entry /\ Live(tbl', f) => Live(t, f) /\ t[f].rule = tbl'[f].rule
      BY <1>10 DEF RuleAdded, SameRule, Live
    <2>b. tbl'[c.entry].rule = r BY <1>6, <1>10 DEF RuleAdded
    <2>c. rule_hdl'[r] = FreeHandle /\ \A q \in Rules : q # r => rule_hdl'[q] = rule_hdl[q]
      BY <1>0, <1>1, <1>6 DEF HandlesTyped
    <2>d. rule_hdl[r] = 0 BY <1>2, <1>3, <1>6 DEF AddOwned
    <2>1. ASSUME NEW f \in Entries, Live(tbl', f), NEW q \in Rules, q = tbl'[f].rule PROVE rule_hdl'[q] # 0 /\ EntryOf(q)' = f
      <3>1. rule_hdl'[q] # 0
        <4>1. CASE q = r BY <4>1, <2>c, <1>4
        <4>2. CASE q # r
          <5>1. f # c.entry BY <4>2, <2>1, <2>b
          <5>2. rule_hdl[q] # 0 BY <5>1, <2>a, <2>1, <1>13 DEF HandlesClean
          <5>3. QED BY <4>2, <5>2, <2>c
        <4>3. QED BY <4>1, <4>2
      <3>2. PICK g : g = EntryOf(q)' OBVIOUS
      <3>3. g # 0 /\ tbl'[g].rule = q /\ tbl'[g].enable /\ ~tbl'[g].dead BY <1>1, <1>3, <3>1, <3>2 DEF Owned
      <3>4. g \in Entries
        <4>1. HandlesTyped' BY TypeInvPartsNext
        <4>2. (\A a \in Rules : rule_hdl[a] # 0 => EntryOf(a) \in Entries)' BY <4>1, EntriesTypedNext
        <4>3. QED BY <4>2, <3>1, <3>2
      <3>5. Live(tbl', g) BY <3>3 DEF Live
      <3>6. CASE f = c.entry
        <4>1. q = r BY <3>6, <2>1, <2>b
        <4>2. g = c.entry BY <3>3, <3>4, <3>5, <4>1, <2>a, <2>d, <1>13 DEF HandlesClean
        <4>3. QED BY <4>2, <3>6, <3>1, <3>2
      <3>7. CASE f # c.entry
        <4>1. Live(t, f) /\ t[f].rule = q BY <3>7, <2>1, <2>a
        <4>2. rule_hdl[q] # 0 /\ EntryOf(q) = f BY <4>1, <1>13 DEF HandlesClean
        <4>3. q # r BY <4>2, <2>d
        <4>4. g # c.entry BY <4>3, <3>3, <2>b
        <4>5. EntryOf(q) = g BY <4>4, <3>3, <3>4, <3>5, <2>a, <1>13 DEF HandlesClean
        <4>6. QED BY <4>2, <4>5, <3>1, <3>2
      <3>8. QED BY <3>6, <3>7
    <2>2. ASSUME NEW f \in Entries, Live(tbl', f) PROVE rule_hdl'[tbl'[f].rule] # 0 /\ EntryOf(tbl[f].rule)' = f
      <3>1. PICK q \in Rules : q = tbl'[f].rule BY <2>2 DEF Live
      <3>2. rule_hdl'[q] # 0 /\ EntryOf(q)' = f BY <2>1, <2>2, <3>1
      <3>3. QED BY <3>1, <3>2
    <2>3. QED BY <2>2 DEF HandlesClean, Live
  <1>17. Clean(tbl, indx)' BY <1>14, <1>15, <1>16 DEF Clean
  <1>18. Stage(tbl, indx)' BY <1>1 DEF Stage, Adding
  <1>19. QED BY <1>17, <1>18, <1>p

-----------------------------------------------------------------------------
(* What a deletion leaves.  Rule e and the index entry g are taken out of  *)
(* their lists.                                                            *)

\* The links back are right.
Linked(t, p) == \A f \in Entries : t[f].next # 0 => p[t[f].next] = f
Backs(t)     == [f \in Expn |-> t[f].prev]

\* The next field of f when e is out of its list.
NextGone(t, e, f) == IF e \in Expn /\ f = t[e].prev THEN t[e].next ELSE t[f].next

\* The index entry that is free after the deletion, and the one before it.
Freed(x, i)     == IF i \notin Expn /\ x[i].next # 0 THEN x[i].next ELSE i
Before(x, p, i) == IF i \notin Expn THEN i ELSE p[i]

IndexGone(x, p, y, i) ==
  \A k \in Entries : k # Freed(x, i) =>
    /\ y[k].entry = IF k = i THEN x[Freed(x, i)].entry ELSE x[k].entry
    /\ y[k].next = IF k = Before(x, p, i) THEN x[Freed(x, i)].next ELSE x[k].next

\* Where the index entry of another rule f is then.
IndexOf(t, x, i, f) == IF i \notin Expn /\ x[i].next # 0 /\ f = x[x[i].next].entry THEN i ELSE t[f].indx

RuleGone(t, x, e, i, u) ==
  /\ \A f \in Entries : f # e =>
       \/ t[f].dead /\ NextGone(t, e, f) = 0 /\ Blank(u[f])
       \/ /\ ~(t[f].dead /\ NextGone(t, e, f) = 0)
          /\ SameRule(u[f], t[f]) /\ u[f].next = NextGone(t, e, f)
          /\ u[f].prev = IF e \in Expn /\ t[e].next # 0 /\ f = t[e].next THEN t[e].prev ELSE t[f].prev
          /\ u[f].indx = IndexOf(t, x, i, f)
  /\ e \in Expn \/ t[e].next = 0 => Blank(u[e])
  /\ e \notin Expn /\ t[e].next # 0 => u[e].rule = t[e].rule /\ u[e].enable /\ u[e].dead /\ u[e].next = t[e].next

MetaGone(x, p, q, i) ==
  \A m \in Expn : m # Freed(x, i) => q[m] = IF m = x[Freed(x, i)].next THEN Before(x, p, i) ELSE p[m]

\* An entry of the expansion table lies behind the one its link back names, and no other.
LEMMA Behind ==
  ASSUME NEW t, NEW p, NextsTyped(t), Linked(t, p), NEW h \in Base, NEW e \in Expn, e \in List(t, h)
  PROVE  /\ p[e] \in Entries /\ p[e] # e /\ p[e] \in List(t, h) /\ t[p[e]].next = e /\ t[e].next # e
         /\ \A f \in Entries : t[f].next = e => f = p[e]
  <1>1. e # h /\ e # 0 /\ e \in Entries BY Places
  <1>2. PICK b \in List(t, h) : b \in Entries /\ b # e /\ t[b].next = e BY <1>1, ListPred
  <1>3. p[e] = b BY <1>1, <1>2 DEF Linked
  <1>4. QED BY <1>1, <1>2, <1>3 DEF Linked

LEMMA BehindKeeps ==
  ASSUME NEW t, NEW u, NEW p, NextsTyped(t), NextsTyped(u), Linked(t, p), NEW h \in Base, NEW e \in Expn, e \in List(t, h),
         \A f \in Entries : f # e => u[f].next = IF f = p[e] THEN t[e].next ELSE t[f].next
  PROVE  \A g \in Base : List(t, g) \ {e} \subseteq List(u, g)
  <1>1. /\ p[e] \in Entries /\ p[e] # e /\ t[p[e]].next = e /\ t[e].next # e
        /\ \A f \in Entries : t[f].next = e => f = p[e]
    BY Behind
  <1>2. u[p[e]].next = t[e].next /\ \A f \in Entries : f # p[e] /\ f # e => u[f].next = t[f].next BY <1>1
  <1>3. ASSUME NEW g \in Base PROVE List(t, g) \ {e} \subseteq List(u, g) BY <1>1, <1>2, ListUnlinked
  <1>4. QED BY <1>3

\* A live rule lies in its list.
LEMMA LiveHere ==
  ASSUME NEW t, RulesClean(t), NEW e \in Entries, Live(t, e)
  PROVE  RuleHere(t, e) /\ DstHash[t[e].rule] \in Base /\ SrcHash[t[e].rule] \in Base
  BY NatAssumption DEF RulesClean, Live, Blank

LEMMA RulesLinked ==
  ASSUME NEW t \in Tables, RulesClean(t)
  PROVE  Linked(t, Backs(t)) /\ \A f \in Expn : Backs(t)[f] = t[f].prev
  <1>1. \A f \in Entries : t[f].next # 0 => t[f].next \in Expn BY DEF Tables, RuleRec
  <1>2. QED BY <1>1 DEF Linked, Backs, RulesClean

LEMMA RuleGoneKeeps ==
  ASSUME NEW t \in Tables, NEW u \in Tables, RulesClean(t), NEW e \in Entries, Live(t, e),
         \A f \in Entries : f # e => u[f].next = NextGone(t, e, f),
         e \notin Expn => u[e].next = t[e].next
  PROVE  /\ \A h \in Base : List(t, h) \ {e} \subseteq List(u, h)
         /\ e \notin Expn => \A h \in Base : List(t, h) \subseteq List(u, h)
  <1>1. NextsTyped(t) /\ NextsTyped(u) BY TableNexts
  <1>2. CASE e \in Expn
    <2>1. PICK h \in Base : e \in List(t, h) BY LiveHere DEF RuleHere
    <2>2. PICK p : p = Backs(t) OBVIOUS
    <2>3. Linked(t, p) /\ p[e] = t[e].prev BY <1>2, <2>2, RulesLinked
    <2>4. \A f \in Entries : f # e => u[f].next = IF f = p[e] THEN t[e].next ELSE t[f].next BY <1>2, <2>3 DEF NextGone
    <2>5. QED BY <1>1, <1>2, <2>1, <2>3, <2>4, BehindKeeps
  <1>3. CASE e \notin Expn
    <2>1. \A f \in Entries : u[f].next = t[f].next BY <1>3 DEF NextGone
    <2>2. \A h \in Base : List(t, h) \subseteq List(u, h) BY <1>1, <2>1, ListGrows
    <2>3. QED BY <2>2, <1>3
  <1>4. QED BY <1>2, <1>3

\* The rule before e, when e lies in the expansion table.
LEMMA RuleBehind ==
  ASSUME NEW t \in Tables, RulesClean(t), NEW e \in Expn, Live(t, e)
  PROVE  /\ t[e].prev \in Entries /\ t[e].prev # e /\ t[t[e].prev].next = e /\ t[e].next # e
         /\ \A f \in Entries : t[f].next = e => f = t[e].prev
  <1>1. NextsTyped(t) /\ e \in Entries BY TableNexts, Places
  <1>2. PICK h \in Base : e \in List(t, h) BY <1>1, LiveHere DEF RuleHere
  <1>3. PICK p : p = Backs(t) OBVIOUS
  <1>4. Linked(t, p) /\ p[e] = t[e].prev BY <1>3, RulesLinked
  <1>5. QED BY <1>1, <1>2, <1>4, Behind

LEMMA RuleGoneClean ==
  ASSUME NEW t \in Tables, NEW u \in Tables, NEW x, NEW i, RulesClean(t), NEW e \in Entries, Live(t, e),
         i \notin Expn /\ x[i].next # 0 => Live(t, x[x[i].next].entry), RuleGone(t, x, e, i, u)
  PROVE  RulesClean(u)
  <1>n. NextsTyped(t) /\ NextsTyped(u) BY TableNexts
  <1>1. \A f \in Entries : f # e => u[f].next = NextGone(t, e, f) BY DEF RuleGone, Blank
  <1>2. e \notin Expn => u[e].next = t[e].next BY DEF RuleGone, Blank
  <1>3. /\ \A h \in Base : List(t, h) \ {e} \subseteq List(u, h)
        /\ e \notin Expn => \A h \in Base : List(t, h) \subseteq List(u, h)
    BY <1>1, <1>2, RuleGoneKeeps
  <1>d. \A r \in Rules : DstHash[r] \in Base BY NatAssumption
  <1>b. /\ e \in Expn => /\ t[e].prev # e /\ t[t[e].prev].next = e /\ t[e].next # e
                         /\ \A f \in Entries : t[f].next = e => f = t[e].prev
        /\ RuleHere(t, e) /\ e # 0
    <2>1. RuleHere(t, e) BY LiveHere
    <2>2. e # 0 BY FirstRule DEF Live, Blank
    <2>3. QED BY <2>1, <2>2, RuleBehind
  <1>4. ASSUME NEW f \in Entries PROVE Blank(u[f]) \/ RuleHere(u, f)
    <2>1. CASE f # e /\ Blank(t[f])
      <3>1. NextGone(t, e, f) = 0
        <4>1. e \in Expn => f # t[e].prev BY <2>1, <1>b DEF Blank
        <4>2. QED BY <4>1, <2>1 DEF NextGone, Blank
      <3>2. ~(e \in Expn /\ t[e].next # 0 /\ f = t[e].next) BY <2>1, NatAssumption DEF Blank, RulesClean
      <3>3. IndexOf(t, x, i, f) = t[f].indx BY <2>1 DEF IndexOf, Live, Blank
      <3>4. QED BY <2>1, <3>1, <3>2, <3>3 DEF RuleGone, SameRule, Blank
    <2>2. CASE f # e /\ RuleHere(t, f)
      <3>1. f \in List(u, DstHash[t[f].rule]) BY <2>2, <1>3, <1>d DEF RuleHere
      <3>2. QED BY <2>2, <3>1 DEF RuleGone, RuleHere, SameRule
    <2>3. CASE f = e
      <3>1. CASE e \in Expn \/ t[e].next = 0 BY <2>3, <3>1 DEF RuleGone
      <3>2. CASE e \notin Expn /\ t[e].next # 0
        <4>1. e \in List(u, DstHash[t[e].rule]) BY <3>2, <1>3, <1>b, <1>d DEF RuleHere
        <4>2. QED BY <2>3, <3>2, <4>1, <1>b DEF RuleGone, RuleHere
      <3>3. QED BY <3>1, <3>2
    <2>4. QED BY <2>1, <2>2, <2>3 DEF RulesClean
  <1>5. ASSUME NEW f \in Entries, u[f].next # 0 PROVE u[u[f].next].rule \in Rules /\ u[u[f].next].prev = f
    <2>1. PICK m \in Expn : m = u[f].next BY <1>5, <1>n DEF NextsTyped
    <2>m. m \in Entries /\ m \notin Base /\ m # 0 BY Places
    <2>a. ~t[m].dead BY <2>m DEF RulesClean
    <2>2. ASSUME f # e \/ e \notin Expn, ~(e \in Expn /\ f = t[e].prev), t[f].next = m, m # e,
                 (f = e => t[e].next # 0) PROVE u[m].rule \in Rules /\ u[m].prev = f
      <3>1. t[m].rule \in Rules /\ t[m].prev = f BY <2>2, <2>m DEF RulesClean
      <3>2. ~(e \in Expn /\ m = t[e].next)
        <4>1. e \in Expn /\ m = t[e].next => t[m].prev = e BY <2>m DEF RulesClean
        <4>2. QED BY <4>1, <3>1, <2>2
      <3>3. SameRule(u[m], t[m]) /\ u[m].prev = t[m].prev BY <2>2, <2>m, <2>a, <3>2 DEF RuleGone
      <3>4. QED BY <3>1, <3>3 DEF SameRule
    <2>3. CASE f = e
      <3>1. e \notin Expn /\ t[e].next # 0 BY <2>3, <1>5 DEF RuleGone, Blank
      <3>2. t[e].next = m /\ m # e BY <2>1, <2>3, <3>1 DEF RuleGone
      <3>3. QED BY <2>1, <2>2, <2>3, <3>1, <3>2
    <2>4. CASE f # e /\ ~(e \in Expn /\ f = t[e].prev)
      <3>1. t[f].next = m BY <2>1, <2>4, <1>1 DEF NextGone
      <3>2. m # e BY <3>1, <2>4, <1>b
      <3>3. QED BY <2>1, <2>2, <2>4, <3>1, <3>2
    <2>5. CASE f # e /\ e \in Expn /\ f = t[e].prev
      <3>1. t[e].next = m /\ m # e BY <2>1, <2>5, <1>1, <1>b DEF NextGone
      <3>2. t[m].rule \in Rules BY <3>1, <2>m DEF RulesClean
      <3>3. SameRule(u[m], t[m]) /\ u[m].prev = t[e].prev BY <3>1, <2>5, <2>m, <2>a DEF RuleGone
      <3>4. QED BY <2>1, <2>5, <3>2, <3>3 DEF SameRule
    <2>6. QED BY <2>3, <2>4, <2>5
  <1>6. ASSUME NEW f \in Entries, u[f].dead PROVE f \in Base /\ u[f].next # 0
    <2>1. CASE f = e
      <3>1. e \notin Expn /\ t[e].next # 0 BY <2>1, <1>6 DEF RuleGone, Blank
      <3>2. e \in Base BY <3>1, <1>b, <1>d, <1>n, ListPlaces DEF RuleHere
      <3>3. QED BY <2>1, <3>1, <3>2 DEF RuleGone
    <2>2. CASE f # e
      <3>1. t[f].dead /\ NextGone(t, e, f) # 0 BY <2>2, <1>6 DEF RuleGone, Blank, SameRule
      <3>2. QED BY <2>2, <3>1, <1>1 DEF RulesClean
    <2>3. QED BY <2>1, <2>2
  <1>7. QED BY <1>4, <1>5, <1>6 DEF RulesClean

\* The index entries of a deletion: that of rule e, and in a list that goes on behind its head
\* the entry after it, which belongs to the same list.
LEMMA IndexPlaces ==
  ASSUME NEW t \in Tables, NEW x \in Indexes, NEW p \in [Expn -> Entries], RulesClean(t), IndexClean(t, x, p),
         NEW e \in Entries, Live(t, e), NEW i, i = t[e].indx
  PROVE  /\ i \in Entries /\ i # 0 /\ x[i].entry = e /\ e # 0 /\ (i \notin Expn => i \in Base)
         /\ i \in List(x, SrcHash[t[e].rule]) /\ SrcHash[t[e].rule] \in Base
         /\ Linked(x, p)
         /\ i \notin Expn /\ x[i].next # 0 =>
              /\ x[i].next \in Expn /\ x[i].next # i /\ IndexHere(t, x, x[i].next) /\ p[x[i].next] = i
              /\ x[x[i].next].entry \in Entries /\ x[x[i].next].entry # e
              /\ SrcHash[t[x[x[i].next].entry].rule] = i
  <1>n. NextsTyped(x) BY IndexNexts
  <1>s. \A r \in Rules : SrcHash[r] \in Base BY NatAssumption
  <1>1. i \in Entries /\ x[i].entry = e BY DEF Tables, RuleRec, IndexClean
  <1>2. e # 0 BY FirstRule DEF Live, Blank
  <1>3. IndexHere(t, x, i) BY <1>1, <1>2 DEF IndexClean, BlankIndex
  <1>4. i \in List(x, SrcHash[t[e].rule]) /\ SrcHash[t[e].rule] \in Base BY <1>1, <1>3, <1>s DEF IndexHere, Live
  <1>5. i # 0 /\ (i \notin Expn => i = SrcHash[t[e].rule]) BY <1>4, <1>n, ListPlaces
  <1>6. Linked(x, p) BY DEF Linked, IndexClean
  <1>7. ASSUME i \notin Expn, x[i].next # 0
        PROVE  /\ x[i].next \in Expn /\ x[i].next # i /\ IndexHere(t, x, x[i].next) /\ p[x[i].next] = i
               /\ x[x[i].next].entry \in Entries /\ x[x[i].next].entry # e
               /\ SrcHash[t[x[x[i].next].entry].rule] = i
    <2>1. PICK n \in Expn : n = x[i].next BY <1>1, <1>7, <1>n DEF NextsTyped
    <2>2. n \in Entries /\ n # i BY <2>1, <1>7, Places
    <2>3. x[n].entry # 0 /\ p[n] = i BY <2>1, <1>1, <1>7 DEF IndexClean
    <2>4. IndexHere(t, x, n) BY <2>2, <2>3 DEF IndexClean, BlankIndex
    <2>5. PICK f \in Entries : f = x[n].entry BY <2>2 DEF Indexes, IndexRec
    <2>6. Live(t, f) /\ t[f].indx = n /\ n \in List(x, SrcHash[t[f].rule]) BY <2>4, <2>5 DEF IndexHere
    <2>7. f # e BY <2>6, <2>2
    <2>8. PICK h \in Base : h = SrcHash[t[f].rule] BY <2>6, <1>s DEF Live
    <2>9. p[n] \in List(x, h) BY <2>6, <2>8, <1>n, <1>6, Behind
    <2>10. i = h BY <2>3, <2>9, <2>8, <1>7, <1>n, ListPlaces
    <2>11. QED BY <2>1, <2>2, <2>3, <2>4, <2>5, <2>7, <2>8, <2>10
  <1>8. QED BY <1>1, <1>2, <1>4, <1>5, <1>6, <1>7

HeadMoves(t, x, i) ==
  i \notin Expn /\ x[i].next # 0 => x[i].next # i /\ SrcHash[t[x[x[i].next].entry].rule] = i

LEMMA HeadMoving ==
  ASSUME NEW t \in Tables, NEW x \in Indexes, NEW p \in [Expn -> Entries], RulesClean(t), IndexClean(t, x, p),
         NEW e \in Entries, Live(t, e)
  PROVE  HeadMoves(t, x, t[e].indx)
  <1>1. PICK i : i = t[e].indx OBVIOUS
  <1>2. HeadMoves(t, x, i) BY <1>1, IndexPlaces DEF HeadMoves
  <1>3. QED BY <1>1, <1>2

\* The freed entry and the one before it.
LEMMA FreedPlaces ==
  ASSUME NEW t \in Tables, NEW x \in Indexes, NEW p \in [Expn -> Entries], RulesClean(t), IndexClean(t, x, p),
         NEW e \in Entries, Live(t, e), NEW i, i = t[e].indx
  PROVE  /\ Freed(x, i) \in Entries /\ Before(x, p, i) \in Entries
         /\ Freed(x, i) \notin Expn => Freed(x, i) = i /\ x[i].next = 0 /\ i \in Base
         /\ Freed(x, i) \in Expn => /\ Before(x, p, i) = p[Freed(x, i)] /\ Before(x, p, i) # Freed(x, i)
                                    /\ x[Before(x, p, i)].next = Freed(x, i) /\ x[Freed(x, i)].next # Freed(x, i)
                                    /\ \A k \in Entries : x[k].next = Freed(x, i) => k = Before(x, p, i)
                                    /\ \E h \in Base : Freed(x, i) \in List(x, h)
  <1>n. NextsTyped(x) BY IndexNexts
  <1>1. /\ i \in Entries /\ i # 0 /\ (i \notin Expn => i \in Base)
        /\ i \in List(x, SrcHash[t[e].rule]) /\ SrcHash[t[e].rule] \in Base /\ Linked(x, p)
        /\ i \notin Expn /\ x[i].next # 0 =>
              /\ x[i].next \in Expn /\ x[i].next # i /\ IndexHere(t, x, x[i].next) /\ p[x[i].next] = i
    BY IndexPlaces
  <1>2. CASE i \in Expn
    <2>1. Freed(x, i) = i /\ Before(x, p, i) = p[i] BY <1>2 DEF Freed, Before
    <2>2. QED BY <1>1, <1>2, <1>n, <2>1, Behind
  <1>3. CASE i \notin Expn /\ x[i].next = 0
    <2>1. Freed(x, i) = i /\ Before(x, p, i) = i BY <1>3 DEF Freed, Before
    <2>2. QED BY <1>1, <1>3, <2>1
  <1>4. CASE i \notin Expn /\ x[i].next # 0
    <2>1. PICK n \in Expn : n = x[i].next BY <1>1, <1>4
    <2>2. Freed(x, i) = n /\ Before(x, p, i) = i BY <1>4, <2>1 DEF Freed, Before
    <2>3. n \in Entries BY Places
    <2>4. IndexHere(t, x, n) /\ p[n] = i BY <1>1, <1>4, <2>1
    <2>5. PICK h \in Base : n \in List(x, h)
      <3>1. SrcHash[t[x[n].entry].rule] \in Base BY <2>4, NatAssumption DEF IndexHere, Live
      <3>2. QED BY <2>4, <3>1 DEF IndexHere
    <2>6. /\ x[p[n]].next = n /\ x[n].next # n /\ p[n] # n /\ \A k \in Entries : x[k].next = n => k = p[n]
      BY <2>5, <1>1, <1>n, Behind
    <2>7. QED BY <1>1, <1>4, <2>2, <2>3, <2>4, <2>5, <2>6
  <1>5. QED BY <1>2, <1>3, <1>4

LEMMA IndexGoneKeeps ==
  ASSUME NEW t \in Tables, NEW x \in Indexes, NEW p \in [Expn -> Entries], RulesClean(t), IndexClean(t, x, p),
         NEW e \in Entries, Live(t, e), NEW i, i = t[e].indx, NEW y \in Indexes, IndexGone(x, p, y, i)
  PROVE  \A h \in Base : List(x, h) \ {Freed(x, i)} \subseteq List(y, h)
  <1>n. NextsTyped(x) /\ NextsTyped(y) BY IndexNexts
  <1>g. PICK g \in Entries, b \in Entries : g = Freed(x, i) /\ b = Before(x, p, i) BY FreedPlaces
  <1>1. \A k \in Entries : k # g => y[k].next = IF k = b THEN x[g].next ELSE x[k].next BY <1>g DEF IndexGone
  <1>l. Linked(x, p) BY IndexPlaces
  <1>2. CASE g \in Expn
    <2>1. b = p[g] /\ \E h \in Base : g \in List(x, h) BY <1>2, <1>g, FreedPlaces
    <2>2. QED BY <2>1, <1>1, <1>2, <1>g, <1>l, <1>n, BehindKeeps
  <1>3. CASE g \notin Expn
    <2>1. g = i /\ x[i].next = 0 /\ i \notin Expn BY <1>3, <1>g, FreedPlaces
    <2>2. b = i BY <2>1, <1>g DEF Before
    <2>3. \A k \in Entries : x[k].next # 0 => y[k].next = x[k].next BY <1>1, <2>1, <2>2
    <2>4. \A h \in Base : List(x, h) \subseteq List(y, h) BY <2>3, <1>n, ListGrows
    <2>5. QED BY <2>4
  <1>4. QED BY <1>2, <1>3

\* Every other rule keeps an index entry in its list.
LEMMA IndexGoneFinds ==
  ASSUME NEW t \in Tables, NEW x \in Indexes, NEW p \in [Expn -> Entries], RulesClean(t), IndexClean(t, x, p),
         NEW e \in Entries, Live(t, e), NEW i, i = t[e].indx, NEW y \in Indexes, IndexGone(x, p, y, i),
         NEW f \in Entries, f # e, Live(t, f)
  PROVE  /\ IndexOf(t, x, i, f) \in Entries /\ IndexOf(t, x, i, f) # Freed(x, i)
         /\ y[IndexOf(t, x, i, f)].entry = f /\ IndexOf(t, x, i, f) \in List(y, SrcHash[t[f].rule])
  <1>n. NextsTyped(x) /\ NextsTyped(y) BY IndexNexts
  <1>k. \A h \in Base : List(x, h) \ {Freed(x, i)} \subseteq List(y, h) BY IndexGoneKeeps
  <1>1. i \in Entries /\ x[i].entry = e /\ (i \notin Expn => i \in Base) BY IndexPlaces
  <1>a. HeadMoves(t, x, i) BY HeadMoving
  <1>2. PICK k : k = t[f].indx OBVIOUS
  <1>3. k \in Entries /\ x[k].entry = f /\ k \in List(x, SrcHash[t[f].rule]) /\ SrcHash[t[f].rule] \in Base BY <1>2, IndexPlaces
  <1>4. k # i BY <1>1, <1>3
  <1>5. CASE i \notin Expn /\ x[i].next # 0 /\ f = x[x[i].next].entry
    <2>1. IndexOf(t, x, i, f) = i /\ Freed(x, i) = x[i].next BY <1>5 DEF IndexOf, Freed
    <2>a. x[i].next # i /\ SrcHash[t[x[x[i].next].entry].rule] = i BY <1>5, <1>a DEF HeadMoves
    <2>2. i # x[i].next /\ SrcHash[t[f].rule] = i BY <1>5, <2>a
    <2>3. y[i].entry = f BY <1>1, <1>5, <2>1, <2>2 DEF IndexGone
    <2>4. i \in List(y, i) BY <1>1, <1>5, <1>n, ListLeast DEF ListFacts
    <2>5. QED BY <1>1, <2>1, <2>2, <2>3, <2>4
  <1>6. CASE ~(i \notin Expn /\ x[i].next # 0 /\ f = x[x[i].next].entry)
    <2>1. IndexOf(t, x, i, f) = k BY <1>6, <1>2 DEF IndexOf
    <2>2. k # Freed(x, i) BY <1>3, <1>4, <1>6 DEF Freed
    <2>3. y[k].entry = f BY <1>3, <1>4, <2>2 DEF IndexGone
    <2>4. k \in List(y, SrcHash[t[f].rule]) BY <1>3, <1>k, <2>2
    <2>5. QED BY <1>3, <2>1, <2>2, <2>3, <2>4
  <1>7. QED BY <1>5, <1>6

LEMMA IndexGoneClean ==
  ASSUME NEW t \in Tables, NEW x \in Indexes, NEW p \in [Expn -> Entries], RulesClean(t), IndexClean(t, x, p),
         NEW e \in Entries, Live(t, e), NEW i, i = t[e].indx,
         NEW u \in Tables, NEW y \in Indexes, NEW q,
         RuleGone(t, x, e, i, u), IndexGone(x, p, y, i), BlankIndex(y[Freed(x, i)]), MetaGone(x, p, q, i)
  PROVE  IndexClean(u, y, q)
  <1>n. NextsTyped(x) /\ NextsTyped(y) BY IndexNexts
  <1>g. PICK g \in Entries, b \in Entries : g = Freed(x, i) /\ b = Before(x, p, i) BY FreedPlaces
  <1>i. /\ i \in Entries /\ i # 0 /\ x[i].entry = e /\ e # 0 /\ (i \notin Expn => i \in Base) BY IndexPlaces
  <1>y. \A k \in Entries : k # g => /\ y[k].entry = IF k = i THEN x[g].entry ELSE x[k].entry
                                    /\ y[k].next = IF k = b THEN x[g].next ELSE x[k].next
    BY <1>g DEF IndexGone
  <1>q. \A m \in Expn : m # g => q[m] = IF m = x[g].next THEN b ELSE p[m] BY <1>g DEF MetaGone
  <1>z. BlankIndex(y[g]) BY <1>g
  <1>f. /\ g \notin Expn => g = i /\ x[i].next = 0 /\ i \in Base
        /\ g \in Expn => b # g /\ x[b].next = g /\ x[g].next # g /\ \A k \in Entries : x[k].next = g => k = b
    BY <1>g, FreedPlaces
  <1>h. g # i => i \notin Expn /\ x[i].next # 0 /\ g = x[i].next /\ b = i BY <1>g DEF Freed, Before
  \* Which rules live, and where their index entries are.
  <1>1. \A f \in Entries : f # e /\ Live(t, f) =>
          /\ Live(u, f) /\ u[f].rule = t[f].rule /\ u[f].indx = IndexOf(t, x, i, f)
    BY DEF RuleGone, Live, SameRule
  <1>2. \A f \in Entries : Live(u, f) => f # e /\ Live(t, f) BY NatAssumption DEF RuleGone, Live, SameRule, Blank
  <1>3. \A f \in Entries : f # e /\ Live(t, f) =>
          /\ IndexOf(t, x, i, f) \in Entries /\ IndexOf(t, x, i, f) # g
          /\ y[IndexOf(t, x, i, f)].entry = f /\ IndexOf(t, x, i, f) \in List(y, SrcHash[t[f].rule])
    BY <1>g, IndexGoneFinds
  <1>4. ASSUME NEW f \in Entries, Live(u, f) PROVE y[u[f].indx].entry = f
    BY <1>1, <1>2, <1>3, <1>4
  <1>5. ASSUME NEW k \in Entries PROVE BlankIndex(y[k]) \/ IndexHere(u, y, k)
    <2>1. CASE k = g BY <2>1, <1>z
    <2>2. CASE k # g /\ BlankIndex(x[k])
      <3>1. k # i BY <2>2, <1>i DEF BlankIndex
      <3>2. k # b
        <4>1. CASE g \in Expn BY <4>1, <1>f, <2>2, Places DEF BlankIndex
        <4>2. CASE g \notin Expn BY <4>2, <1>f, <1>g, <3>1, Places DEF Before
        <4>3. QED BY <4>1, <4>2
      <3>3. QED BY <2>2, <3>1, <3>2, <1>y DEF BlankIndex
    <2>3. CASE k # g /\ IndexHere(t, x, k)
      <3>1. PICK f \in Entries : f # 0 /\ f # e /\ Live(t, f) /\ y[k].entry = f /\ IndexOf(t, x, i, f) = k
        <4>1. CASE k = i
          <5>1. i \notin Expn /\ x[i].next # 0 /\ g = x[i].next BY <4>1, <2>3, <1>h
          <5>2. PICK f \in Entries : f = x[g].entry BY DEF Indexes, IndexRec
          <5>3. IndexHere(t, x, g) /\ f # e BY <5>1, <5>2, IndexPlaces
          <5>4. f # 0 /\ Live(t, f) BY <5>2, <5>3 DEF IndexHere
          <5>5. y[k].entry = f BY <4>1, <5>2, <2>3, <1>y
          <5>6. IndexOf(t, x, i, f) = i BY <5>1, <5>2 DEF IndexOf
          <5>7. QED BY <4>1, <5>3, <5>4, <5>5, <5>6
        <4>2. CASE k # i
          <5>1. PICK f \in Entries : f = x[k].entry BY DEF Indexes, IndexRec
          <5>2. f # 0 /\ Live(t, f) /\ t[f].indx = k BY <5>1, <2>3 DEF IndexHere
          <5>3. f # e BY <5>2, <4>2
          <5>4. y[k].entry = f BY <4>2, <5>1, <2>3, <1>y
          <5>5. IndexOf(t, x, i, f) = k
            <6>1. ~(i \notin Expn /\ x[i].next # 0 /\ f = x[x[i].next].entry)
              <7> SUFFICES ASSUME i \notin Expn, x[i].next # 0, f = x[x[i].next].entry PROVE FALSE OBVIOUS
              <7>1. IndexHere(t, x, x[i].next) BY IndexPlaces
              <7>2. t[f].indx = x[i].next BY <7>1 DEF IndexHere
              <7>3. g = x[i].next BY <1>g DEF Freed
              <7>4. QED BY <7>2, <7>3, <5>2, <2>3
            <6>2. QED BY <6>1, <5>2 DEF IndexOf
          <5>6. QED BY <5>2, <5>3, <5>4, <5>5
        <4>3. QED BY <4>1, <4>2
      <3>2. Live(u, f) /\ u[f].indx = k /\ k \in List(y, SrcHash[u[f].rule]) BY <3>1, <1>1, <1>3
      <3>3. QED BY <3>1, <3>2 DEF IndexHere
    <2>4. QED BY <2>1, <2>2, <2>3 DEF IndexClean
  <1>6. ASSUME NEW k \in Entries, y[k].next # 0 PROVE y[y[k].next].entry # 0 /\ q[y[k].next] = k
    <2>1. k # g BY <1>6, <1>z DEF BlankIndex
    <2>2. PICK m \in Expn : m = y[k].next BY <1>6, <1>n DEF NextsTyped
    <2>m. m \in Entries /\ m # 0 BY Places
    <2>3. CASE k # b
      <3>1. x[k].next = m BY <2>1, <2>2, <2>3, <1>y
      <3>2. x[m].entry # 0 /\ p[m] = k BY <3>1, <2>m DEF IndexClean
      <3>3. m # g BY <3>1, <2>3, <1>f
      <3>4. m # x[g].next
        <4>1. m = x[g].next => p[m] = g BY <2>m DEF IndexClean
        <4>2. QED BY <4>1, <3>2, <2>1
      <3>5. q[m] = k BY <3>2, <3>3, <3>4, <1>q
      <3>6. y[m].entry # 0
        <4>1. CASE m = i
          <5>1. g = i BY <4>1, <1>h
          <5>2. QED BY <4>1, <5>1, <3>3
        <4>2. CASE m # i BY <4>2, <3>2, <3>3, <2>m, <1>y
        <4>3. QED BY <4>1, <4>2
      <3>7. QED BY <2>2, <3>5, <3>6
    <2>4. CASE k = b
      <3>1. x[g].next = m BY <2>1, <2>2, <2>4, <1>y
      <3>2. x[m].entry # 0 BY <3>1, <2>m DEF IndexClean
      <3>3. m # g BY <3>1, <1>f
      <3>5. q[m] = k BY <2>4, <3>1, <3>3, <1>q
      <3>6. y[m].entry # 0
        <4>1. CASE m = i
          <5>1. g = i BY <4>1, <1>h
          <5>2. QED BY <4>1, <5>1, <3>3
        <4>2. CASE m # i BY <4>2, <3>2, <3>3, <2>m, <1>y
        <4>3. QED BY <4>1, <4>2
      <3>7. QED BY <2>2, <3>5, <3>6
    <2>5. QED BY <2>3, <2>4
  <1>7. QED BY <1>4, <1>5, <1>6 DEF IndexClean

-----------------------------------------------------------------------------
(* The steps that delete a rule keep SoundInv.                             *)

\* Every command is about one of the tables.
LEMMA CommandFields ==
  ASSUME NEW t, NEW x, NEW p, NEW e, NEW i
  PROVE  /\ RuleCmd(t, e).field \in {"disable", "proto", "next"}
         /\ IndexCmd(x, p, i).field \in {"ientry", "inext"} /\ HeadCmd(x, i).field \in {"ientry", "inext"}
  <1>1. RuleCmd(t, e).field \in {"disable", "proto", "next"}
    <2>1. CASE Position(t, e) = "ONLY_ONE" BY <2>1 DEF RuleCmd, Cmd
    <2>2. CASE Position(t, e) = "HEAD" BY <2>2 DEF RuleCmd, Cmd
    <2>3. CASE Position(t, e) # "ONLY_ONE" /\ Position(t, e) # "HEAD" BY <2>3 DEF RuleCmd, Cmd
    <2>4. QED BY <2>1, <2>2, <2>3
  <1>2. IndexCmd(x, p, i).field \in {"ientry", "inext"}
    <2>1. CASE Position(x, i) = "ONLY_ONE" BY <2>1 DEF IndexCmd, Cmd
    <2>2. CASE Position(x, i) = "HEAD" BY <2>2 DEF IndexCmd, Cmd
    <2>3. CASE Position(x, i) # "ONLY_ONE" /\ Position(x, i) # "HEAD" BY <2>3 DEF IndexCmd, Cmd
    <2>4. QED BY <2>1, <2>2, <2>3
  <1>3. HeadCmd(x, i).field \in {"ientry", "inext"} BY DEF HeadCmd, Cmd
  <1>4. QED BY <1>1, <1>2, <1>3

LEMMA OtherTable ==
  ASSUME NEW t, NEW x, NEW k
  PROVE  /\ k.field \in {"disable", "proto", "next"} => WroteIndex(x, k) = x
         /\ k.field \in {"ientry", "inext"} => Wrote(t, k) = t
  BY DEF Wrote, WroteIndex

\* The rule table after the command of the rule.
RuleCut(t, u, e) ==
  /\ \A f \in Entries : /\ u[f].rule = t[f].rule /\ u[f].prev = t[f].prev /\ u[f].indx = t[f].indx
                        /\ f # e => SameRule(u[f], t[f])
                        /\ u[f].next = NextGone(t, e, f)
  /\ e \notin Expn /\ t[e].next # 0 => u[e].dead /\ u[e].enable

LEMMA RuleCmdCuts ==
  ASSUME NEW t \in Tables, NEW e \in Entries, Live(t, e)
  PROVE  RuleCut(t, Wrote(t, RuleCmd(t, e)), e)
  <1>t. \A f \in Entries : t[f] \in RuleRec BY DEF Tables
  <1>1. CASE e \notin Expn /\ t[e].next = 0
    <2>1. RuleCmd(t, e) = Cmd("disable", e, 0) BY <1>1, PositionFacts DEF RuleCmd
    <2>2. PICK u : u = Wrote(t, RuleCmd(t, e)) OBVIOUS
    <2>3. u = [t EXCEPT ![e].enable = FALSE] BY <2>1, <2>2 DEF Wrote, Cmd
    <2>4. \A f \in Entries : f # e => u[f] = t[f] BY <2>3 DEF Tables
    <2>5. u[e] = [t[e] EXCEPT !.enable = FALSE] BY <2>3 DEF Tables
    <2>6. u[e].rule = t[e].rule /\ u[e].prev = t[e].prev /\ u[e].indx = t[e].indx /\ u[e].next = t[e].next
      BY <2>5, <1>t DEF RuleRec
    <2>7. RuleCut(t, u, e) BY <1>1, <2>4, <2>6 DEF RuleCut, SameRule, NextGone
    <2>8. QED BY <2>2, <2>7
  <1>2. CASE e \notin Expn /\ t[e].next # 0
    <2>1. RuleCmd(t, e) = Cmd("proto", e, 0) BY <1>2, PositionFacts DEF RuleCmd
    <2>2. PICK u : u = Wrote(t, RuleCmd(t, e)) OBVIOUS
    <2>3. u = [t EXCEPT ![e].dead = TRUE] BY <2>1, <2>2 DEF Wrote, Cmd
    <2>4. \A f \in Entries : f # e => u[f] = t[f] BY <2>3 DEF Tables
    <2>5. u[e] = [t[e] EXCEPT !.dead = TRUE] BY <2>3 DEF Tables
    <2>6. u[e].rule = t[e].rule /\ u[e].prev = t[e].prev /\ u[e].indx = t[e].indx /\ u[e].next = t[e].next
          /\ u[e].dead /\ (u[e].enable <=> t[e].enable)
      BY <2>5, <1>t DEF RuleRec
    <2>7. RuleCut(t, u, e) BY <1>2, <2>4, <2>6 DEF RuleCut, SameRule, NextGone, Live
    <2>8. QED BY <2>2, <2>7
  <1>3. CASE e \in Expn
    <2>1. RuleCmd(t, e) = Cmd("next", t[e].prev, t[e].next) BY <1>3, PositionFacts DEF RuleCmd
    <2>2. PICK u : u = Wrote(t, RuleCmd(t, e)) OBVIOUS
    <2>3. PICK b \in Entries, n \in Expn \cup {0} : b = t[e].prev /\ n = t[e].next BY <1>t DEF RuleRec
    <2>4. u = [t EXCEPT ![b].next = n] BY <2>1, <2>2, <2>3 DEF Wrote, Cmd
    <2>5. \A f \in Entries : f # b => u[f] = t[f] BY <2>4 DEF Tables
    <2>6. u[b] = [t[b] EXCEPT !.next = n] BY <2>4 DEF Tables
    <2>7. u[b].rule = t[b].rule /\ u[b].prev = t[b].prev /\ u[b].indx = t[b].indx /\ u[b].next = n
          /\ (u[b].dead <=> t[b].dead) /\ (u[b].enable <=> t[b].enable)
      BY <2>6, <1>t DEF RuleRec
    <2>8. \A f \in Entries : /\ u[f].rule = t[f].rule /\ u[f].prev = t[f].prev /\ u[f].indx = t[f].indx
                             /\ SameRule(u[f], t[f])
                             /\ u[f].next = IF f = b THEN n ELSE t[f].next
      <3> TAKE f \in Entries
      <3>1. CASE f = b BY <3>1, <2>7 DEF SameRule
      <3>2. CASE f # b BY <3>2, <2>5 DEF SameRule
      <3>3. QED BY <3>1, <3>2
    <2>9. RuleCut(t, u, e) BY <1>3, <2>3, <2>8 DEF RuleCut, NextGone
    <2>10. QED BY <2>2, <2>9
  <1>4. QED BY <1>1, <1>2, <1>3

\* The index table between the two commands that overwrite a head.
HeadHalf(x, y, i) ==
  \A k \in Entries : y[k].next = x[k].next /\ y[k].entry = IF k = i THEN x[x[i].next].entry ELSE x[k].entry

LEMMA IndexCmdCuts ==
  ASSUME NEW x \in Indexes, NEW p \in [Expn -> Entries], NEW i \in Entries
  PROVE  /\ IndexDone(x, p, i) \in Indexes /\ IndexGone(x, p, IndexDone(x, p, i), i)
         /\ (i \in Expn => p[i] # i) => IndexDone(x, p, i)[Freed(x, i)].next = x[Freed(x, i)].next
         /\ i \notin Expn /\ x[i].next # 0 => HeadHalf(x, WroteIndex(x, IndexCmd(x, p, i)), i)
                                              /\ WroteIndex(x, IndexCmd(x, p, i)) \in Indexes
  <1>t. \A k \in Entries : x[k] \in IndexRec BY DEF Indexes
  <1>1. CASE i \notin Expn /\ x[i].next = 0
    <2>1. IndexCmd(x, p, i) = Cmd("ientry", i, 0) /\ Position(x, i) # "HEAD" BY <1>1, PositionFacts DEF IndexCmd
    <2>2. PICK y : y = IndexDone(x, p, i) OBVIOUS
    <2>3. y = [x EXCEPT ![i].entry = 0] BY <2>1, <2>2 DEF IndexDone, WroteIndex, Cmd
    <2>4. y \in Indexes BY <2>3, IndexWrites, Places
    <2>5. \A k \in Entries : k # i => y[k] = x[k] BY <2>3 DEF Indexes
    <2>6. IndexGone(x, p, y, i) BY <1>1, <2>5 DEF IndexGone, Freed, Before
    <2>7. y[i] = [x[i] EXCEPT !.entry = 0] BY <2>3 DEF Indexes
    <2>8. y[Freed(x, i)].next = x[Freed(x, i)].next BY <1>1, <1>t, <2>7 DEF Freed, IndexRec
    <2>9. QED BY <1>1, <2>2, <2>4, <2>6, <2>8
  <1>2. CASE i \notin Expn /\ x[i].next # 0
    <2>1. PICK n \in Expn : n = x[i].next BY <1>2, <1>t DEF IndexRec
    <2>2. n \in Entries /\ n # i BY <1>2, Places
    <2>3. PICK a \in Entries, m \in Expn \cup {0} : a = x[n].entry /\ m = x[n].next BY <2>2, <1>t DEF IndexRec
    <2>4. /\ IndexCmd(x, p, i) = Cmd("ientry", i, a) /\ HeadCmd(x, i) = Cmd("inext", i, m) /\ Position(x, i) = "HEAD"
      BY <1>2, <2>1, <2>3, PositionFacts DEF IndexCmd, HeadCmd
    <2>5. PICK z : z = WroteIndex(x, IndexCmd(x, p, i)) OBVIOUS
    <2>6. z = [x EXCEPT ![i].entry = a] BY <2>4, <2>5 DEF WroteIndex, Cmd
    <2>7. z \in Indexes BY <2>6, IndexWrites
    <2>8. /\ \A k \in Entries : k # i => z[k] = x[k]
          /\ z[i] = [x[i] EXCEPT !.entry = a] BY <2>6 DEF Indexes
    <2>9. z[i].entry = a /\ z[i].next = x[i].next BY <2>8, <1>t DEF IndexRec
    <2>10. HeadHalf(x, z, i) BY <2>1, <2>3, <2>8, <2>9 DEF HeadHalf
    <2>11. PICK y : y = IndexDone(x, p, i) OBVIOUS
    <2>12. y = [z EXCEPT ![i].next = m] BY <2>4, <2>5, <2>11 DEF IndexDone, WroteIndex, Cmd
    <2>13. y \in Indexes BY <2>7, <2>12, IndexWrites
    <2>14. /\ \A k \in Entries : k # i => y[k] = z[k]
           /\ y[i] = [z[i] EXCEPT !.next = m] /\ z[i] \in IndexRec BY <2>7, <2>12 DEF Indexes
    <2>15. y[i].entry = a /\ y[i].next = m BY <2>9, <2>14 DEF IndexRec
    <2>16. Freed(x, i) = n /\ Before(x, p, i) = i BY <1>2, <2>1 DEF Freed, Before
    <2>17. IndexGone(x, p, y, i) BY <2>3, <2>8, <2>14, <2>15, <2>16 DEF IndexGone
    <2>18. y[n].next = x[n].next BY <2>2, <2>8, <2>14
    <2>19. QED BY <2>5, <2>7, <2>10, <2>11, <2>13, <2>16, <2>17, <2>18
  <1>3. CASE i \in Expn
    <2>1. PICK b \in Entries, n \in Expn \cup {0} : b = p[i] /\ n = x[i].next BY <1>3, <1>t DEF IndexRec
    <2>2. IndexCmd(x, p, i) = Cmd("inext", b, n) /\ Position(x, i) # "HEAD" BY <1>3, <2>1, PositionFacts DEF IndexCmd
    <2>3. PICK y : y = IndexDone(x, p, i) OBVIOUS
    <2>4. y = [x EXCEPT ![b].next = n] BY <2>2, <2>3 DEF IndexDone, WroteIndex, Cmd
    <2>5. y \in Indexes BY <2>4, IndexWrites
    <2>6. /\ \A k \in Entries : k # b => y[k] = x[k]
          /\ y[b] = [x[b] EXCEPT !.next = n] BY <2>4 DEF Indexes
    <2>7. y[b].entry = x[b].entry /\ y[b].next = n BY <2>6, <1>t DEF IndexRec
    <2>8. Freed(x, i) = i /\ Before(x, p, i) = b BY <1>3, <2>1 DEF Freed, Before
    <2>9. IndexGone(x, p, y, i) BY <2>1, <2>6, <2>7, <2>8 DEF IndexGone
    <2>10. p[i] # i => y[i].next = x[i].next BY <2>1, <2>6
    <2>11. QED BY <1>3, <2>3, <2>5, <2>8, <2>9, <2>10
  <1>4. QED BY <1>1, <1>2, <1>3

LEMMA SoundOfDelRule ==
  ASSUME TypeInv, HandleInv, SoundInv, NEW r \in Rules, DelRule(r)
  PROVE  SoundInv'
  <1> SUFFICES ASSUME fails' = 0 PROVE \E t \in Tables, x \in Indexes : Clean(t, x)' /\ Stage(t, x)' BY DEF SoundInv
  <1>0. TablesTyped /\ HandlesTyped /\ CallTyped BY TypeInvParts
  <1>f. ~Fails BY FailedSteps
  <1>1. PICK e, i \in Entries : DelBegins(r, e, i) BY DelRuleFacts
  <1>2. /\ UNCHANGED <<tbl, indx, prev_index, rule_hdl, rule_id_array, fails>> /\ at = "idle" /\ at' = "dma"
        /\ e = EntryOf(r) /\ rule_hdl[r] # 0 /\ i = tbl[e].indx /\ cur' = Call(r, e, i)
        /\ cmds' = IndexCmds(i) \o RuleCmds(e)
    BY <1>1, <1>f, NatAssumption DEF DelBegins, hw, cache, Slots, EntryOf
  <1>3. PICK t \in Tables, x \in Indexes : Clean(t, x) /\ Stage(t, x) BY <1>2 DEF SoundInv
  <1>4. tbl = t /\ indx = x BY <1>2, <1>3 DEF Stage
  <1>5. Live(t, e) /\ t[e].rule = r
    <2>1. Owned BY <1>2 DEF HandleInv
    <2>2. QED BY <2>1, <1>2, <1>4 DEF Owned, Live
  <1>6. /\ cur'.rule = r /\ cur'.entry = e /\ cur'.ientry = i /\ cur'.inext = x[i].next
        /\ cur'.pos = Position(t, e) /\ cur'.ipos = Position(x, i)
    BY <1>0, <1>2, <1>4, CallFacts
  <1>7. Deletes(t, x, cur') BY <1>2, <1>4, <1>5, <1>6 DEF Deletes
  <1>8. cmds' = IF Position(x, i) = "HEAD"
                  THEN <<IndexCmd(x, prev_index, i), HeadCmd(x, i), RuleCmd(t, e)>>
                  ELSE <<IndexCmd(x, prev_index, i), RuleCmd(t, e)>>
    <2> DEFINE a == IndexCmd(x, prev_index, i)
               b == HeadCmd(x, i)
               k == RuleCmd(t, e)
    <2>1. /\ RuleCmds(e) = <<k>> /\ (Position(x, i) = "HEAD" => IndexCmds(i) = <<a, b>>)
          /\ (Position(x, i) # "HEAD" => IndexCmds(i) = <<a>>)
      BY <1>4, CommandSteps, Zenon
    <2> HIDE DEF a, b, k
    <2>2. <<a, b>> \o <<k>> = <<a, b, k>> /\ <<a>> \o <<k>> = <<a, k>> BY ConcatOneOne, ConcatTwoOne
    <2>3. cmds' = IF Position(x, i) = "HEAD" THEN <<a, b, k>> ELSE <<a, k>> BY <1>2, <2>1, <2>2, Zenon
    <2>4. QED BY <2>3 DEF a, b, k
  <1>9. DelStage(t, x, prev_index', cur', cmds', tbl', indx') BY <1>2, <1>4, <1>6, <1>8, Zenon DEF DelStage
  <1>10. Stage(t, x)' BY <1>2, <1>7, <1>9 DEF Stage, Adding
  <1>11. HandlesClean(t)' BY <1>2, <1>3, HandlesCleanKept DEF Clean
  <1>12. Clean(t, x)' BY <1>2, <1>3, <1>11 DEF Clean
  <1>13. QED BY <1>10, <1>12

LEMMA SoundOfDma ==
  ASSUME TypeInv, SoundInv, Dma
  PROVE  SoundInv'
  <1> SUFFICES ASSUME fails' = 0 PROVE \E t \in Tables, x \in Indexes : Clean(t, x)' /\ Stage(t, x)' BY DEF SoundInv
  <1>1. /\ at = "dma" /\ cmds # <<>> /\ cmds' = Tail(cmds)
        /\ tbl' = Wrote(tbl, Head(cmds)) /\ indx' = WroteIndex(indx, Head(cmds))
        /\ UNCHANGED <<prev_index, rule_id_array, at, cur, rule_hdl, fails>>
    BY DmaFacts DEF cache
  <1>2. PICK t \in Tables, x \in Indexes : Clean(t, x) /\ Stage(t, x) BY <1>1 DEF SoundInv
  <1>3. HandlesClean(t)' BY <1>1, <1>2, HandlesCleanKept DEF Clean
  <1>4. Clean(t, x)' BY <1>1, <1>2, <1>3 DEF Clean
  <1>5. Deletes(t, x, cur) /\ DelStage(t, x, prev_index, cur, cmds, tbl, indx) BY <1>1, <1>2 DEF Stage
  <1>6. PICK c, p : c = cur /\ p = prev_index OBVIOUS
  <1>7. PICK a, b, k : a = IndexCmd(x, p, c.ientry) /\ b = HeadCmd(x, c.ientry) /\ k = RuleCmd(t, c.entry) OBVIOUS
  <1>8. /\ WroteIndex(indx, k) = indx /\ Wrote(tbl, a) = tbl /\ Wrote(tbl, b) = tbl
    BY <1>7, CommandFields, OtherTable
  <1>9. \A ks : Head(<<a, b, k>>) = a /\ Tail(<<a, b, k>>) = <<b, k>> /\ Head(<<a, k>>) = a /\ Tail(<<a, k>>) = <<k>>
                /\ Head(<<b, k>>) = b /\ Tail(<<b, k>>) = <<k>> /\ Head(<<k>>) = k /\ Tail(<<k>>) = <<>>
    OBVIOUS
  <1>d. PICK y, z : y = WroteIndex(x, a) /\ z = IndexDone(x, p, c.ientry) OBVIOUS
  <1>e. PICK head : head = Position(x, c.ientry) OBVIOUS
  <1>10. \/ tbl = t /\ indx = x /\ cmds = IF head = "HEAD" THEN <<a, b, k>> ELSE <<a, k>>
         \/ head = "HEAD" /\ tbl = t /\ indx = y /\ cmds = <<b, k>>
         \/ tbl = t /\ indx = z /\ cmds = <<k>>
    BY <1>1, <1>5, <1>6, <1>7, <1>d, <1>e, Zenon DEF DelStage
  <1>z. z = IF head = "HEAD" THEN WroteIndex(y, b) ELSE y BY <1>6, <1>7, <1>d, <1>e, Zenon DEF IndexDone
  <1>11. \/ head = "HEAD" /\ tbl' = t /\ indx' = y /\ cmds' = <<b, k>>
         \/ tbl' = t /\ indx' = z /\ cmds' = <<k>>
         \/ tbl' = Wrote(t, k) /\ indx' = z /\ cmds' = <<>>
    <2>1. CASE tbl = t /\ indx = x /\ head = "HEAD" /\ cmds = <<a, b, k>> BY <2>1, <1>1, <1>8, <1>9, <1>d, Zenon
    <2>2. CASE tbl = t /\ indx = x /\ head # "HEAD" /\ cmds = <<a, k>> BY <2>2, <1>1, <1>8, <1>9, <1>d, <1>z, Zenon
    <2>3. CASE head = "HEAD" /\ tbl = t /\ indx = y /\ cmds = <<b, k>> BY <2>3, <1>1, <1>8, <1>9, <1>z, Zenon
    <2>4. CASE tbl = t /\ indx = z /\ cmds = <<k>> BY <2>4, <1>1, <1>8, <1>9, Zenon
    <2>5. QED BY <1>10, <2>1, <2>2, <2>3, <2>4, Zenon
  <1>12. DelStage(t, x, p, c, cmds', tbl', indx') BY <1>11, <1>7, <1>d, <1>e, Zenon DEF DelStage
  <1>13. Stage(t, x)' BY <1>1, <1>5, <1>6, <1>12 DEF Stage, Adding
  <1>14. QED BY <1>4, <1>13

\* The deleted rule itself after ipa_nati_del_ipv4_rule().
LEMMA CleanCurrent ==
  ASSUME TypeInv, cur.ipos = "HEAD" => indx[cur.ientry].entry # cur.entry,
         cur.pos = "MIDDLE" => tbl[cur.entry].next # cur.entry
  PROVE  CleanRules[cur.entry] = IF cur.pos # "HEAD" THEN ZeroRule ELSE tbl[cur.entry]
  <1>0. TablesTyped /\ HandlesTyped /\ CallTyped BY TypeInvParts
  <1>t. tbl \in Tables BY <1>0 DEF TablesTyped
  <1>a. cur.entry \in Entries BY <1>0, CurTypes
  <1> DEFINE n == tbl[cur.entry].next
             p == tbl[cur.entry].prev
             j == indx[cur.ientry].entry
             moved == IF cur.pos = "MIDDLE" THEN [tbl EXCEPT ![n].prev = p] ELSE tbl
             gone == IF cur.pos # "HEAD" THEN [moved EXCEPT ![cur.entry] = ZeroRule] ELSE moved
             clean == IF cur.ipos = "HEAD" THEN [gone EXCEPT ![j].indx = cur.ientry] ELSE gone
  <1>1. CleanRules = clean BY Zenon DEF CleanRules
  <1>2. n \in Entries /\ p \in Entries BY <1>t, <1>a, Places DEF Tables, RuleRec
  <1>3. moved \in Tables BY <1>t, <1>2, RuleWrites
  <1>4. gone \in Tables BY <1>3, <1>a, RuleWrites, ZeroTypes
  <1>5. moved[cur.entry] = tbl[cur.entry] BY <1>t, <1>a DEF Tables
  <1> HIDE DEF moved
  <1>6. gone[cur.entry] = IF cur.pos # "HEAD" THEN ZeroRule ELSE tbl[cur.entry] BY <1>3, <1>5, <1>a DEF Tables
  <1> HIDE DEF gone
  <1>7. clean[cur.entry] = gone[cur.entry] BY <1>4, <1>a DEF Tables
  <1>8. QED BY <1>1, <1>6, <1>7

\* A deletion is over: what the tables were made of, and what they are.
DelDone(t, x, p, e, i, r) ==
  /\ t \in Tables /\ x \in Indexes /\ p \in [Expn -> Entries] /\ e \in Entries /\ i \in Entries /\ r \in Rules
  /\ RulesClean(t) /\ IndexClean(t, x, p) /\ HandlesClean(t)
  /\ Live(t, e) /\ t[e].rule = r /\ i = t[e].indx
  /\ p = prev_index /\ e = cur.entry /\ i = cur.ientry /\ r = cur.rule
  /\ cur.inext = x[i].next /\ cur.pos = Position(t, e) /\ cur.ipos = Position(x, i)
  /\ tbl = Wrote(t, RuleCmd(t, e)) /\ indx = IndexDone(x, p, i)

LEMMA DelCleanBegins ==
  ASSUME TypeInv, SoundInv, fails = 0, at = "dma", cmds = <<>>
  PROVE  \E t, x, p, e, i, r : DelDone(t, x, p, e, i, r)
  <1>0. TablesTyped /\ HandlesTyped /\ CallTyped BY TypeInvParts
  <1>1. PICK t \in Tables, x \in Indexes : Clean(t, x) /\ Stage(t, x) BY DEF SoundInv
  <1>2. PICK p \in [Expn -> Entries], e \in Entries, i \in Entries, r \in Rules :
          p = prev_index /\ e = cur.entry /\ i = cur.ientry /\ r = cur.rule
    BY <1>0, CurTypes DEF TablesTyped, CallTyped
  <1>3. Deletes(t, x, cur) /\ DelStage(t, x, prev_index, cur, cmds, tbl, indx) BY <1>1 DEF Stage
  <1>4. tbl = Wrote(t, RuleCmd(t, e)) /\ indx = IndexDone(x, p, i)
    <2>1. \A a, b, k : <<a, b, k>> # <<>> /\ <<b, k>> # <<>> /\ <<k>> # <<>> OBVIOUS
    <2>2. QED BY <1>2, <1>3, <2>1, Zenon DEF DelStage
  <1>5. DelDone(t, x, p, e, i, r) BY <1>1, <1>2, <1>3, <1>4 DEF DelDone, Deletes, Clean
  <1>6. QED BY <1>5

LEMMA DelCleanRules ==
  ASSUME TypeInv, NEW t, NEW x, NEW p, NEW e, NEW i, NEW r, DelDone(t, x, p, e, i, r), tbl' = DelDeadHeads(CleanRules)
  PROVE  RuleGone(t, x, e, i, tbl')
  <1>d. /\ t \in Tables /\ x \in Indexes /\ p \in [Expn -> Entries] /\ e \in Entries /\ i \in Entries
        /\ RulesClean(t) /\ IndexClean(t, x, p) /\ Live(t, e) /\ i = t[e].indx /\ e = cur.entry /\ i = cur.ientry
        /\ cur.pos = Position(t, e) /\ cur.ipos = Position(x, i)
        /\ tbl = Wrote(t, RuleCmd(t, e)) /\ indx = IndexDone(x, p, i)
    BY DEF DelDone
  <1>1. RuleCut(t, tbl, e) BY <1>d, RuleCmdCuts
  <1>2. IndexGone(x, p, indx, i) BY <1>d, IndexCmdCuts
  <1>3. /\ cur.pos = "MIDDLE" <=> e \in Expn /\ t[e].next # 0
        /\ cur.pos = "HEAD" <=> e \notin Expn /\ t[e].next # 0
        /\ cur.ipos = "HEAD" <=> i \notin Expn /\ x[i].next # 0
    BY <1>d, PositionFacts
  <1>4. tbl[e].next = t[e].next /\ tbl[e].prev = t[e].prev /\ (cur.pos = "MIDDLE" => t[e].next # e)
    <2>1. e \in Expn => t[e].prev # e /\ t[e].next # e BY <1>d, RuleBehind
    <2>2. QED BY <1>1, <1>d, <1>3, <2>1 DEF RuleCut, NextGone
  <1>5. cur.ipos = "HEAD" => indx[i].entry = x[x[i].next].entry /\ indx[i].entry # e
    <2> SUFFICES ASSUME i \notin Expn, x[i].next # 0
                 PROVE  indx[i].entry = x[x[i].next].entry /\ indx[i].entry # e
      BY <1>3
    <2>1. x[i].next # i /\ x[x[i].next].entry # e BY <1>d, IndexPlaces
    <2>2. QED BY <2>1, <1>d, <1>2 DEF IndexGone, Freed
  <1>6. CleanRules[e] = IF cur.pos # "HEAD" THEN ZeroRule ELSE tbl[e] BY <1>d, <1>4, <1>5, CleanCurrent
  <1>7. \A f \in Entries : tbl'[f] = IF f \in Base /\ CleanRules[f].dead /\ CleanRules[f].next = 0 THEN ZeroRule ELSE CleanRules[f]
    BY DEF DelDeadHeads
  <1>b. Blank(ZeroRule) BY DEF Blank, ZeroRule
  <1>8. ASSUME NEW f \in Entries, f # e
        PROVE  \/ t[f].dead /\ NextGone(t, e, f) = 0 /\ Blank(tbl'[f])
               \/ /\ ~(t[f].dead /\ NextGone(t, e, f) = 0)
                  /\ SameRule(tbl'[f], t[f]) /\ tbl'[f].next = NextGone(t, e, f)
                  /\ tbl'[f].prev = IF e \in Expn /\ t[e].next # 0 /\ f = t[e].next THEN t[e].prev ELSE t[f].prev
                  /\ tbl'[f].indx = IndexOf(t, x, i, f)
    <2>1. /\ SameRule(CleanRules[f], tbl[f]) /\ CleanRules[f].next = tbl[f].next
          /\ CleanRules[f].prev = IF cur.pos = "MIDDLE" /\ f = tbl[e].next THEN tbl[e].prev ELSE tbl[f].prev
          /\ CleanRules[f].indx = IF cur.ipos = "HEAD" /\ f = indx[i].entry THEN i ELSE tbl[f].indx
      BY <1>8, <1>d, CleanFields
    <2>2. /\ SameRule(tbl[f], t[f]) /\ tbl[f].next = NextGone(t, e, f) /\ tbl[f].prev = t[f].prev /\ tbl[f].indx = t[f].indx
      BY <1>8, <1>1 DEF RuleCut
    <2>3. SameRule(CleanRules[f], t[f]) /\ CleanRules[f].next = NextGone(t, e, f) BY <2>1, <2>2 DEF SameRule
    <2>4. CleanRules[f].prev = IF e \in Expn /\ t[e].next # 0 /\ f = t[e].next THEN t[e].prev ELSE t[f].prev
      BY <2>1, <2>2, <1>3, <1>4
    <2>5. CleanRules[f].indx = IndexOf(t, x, i, f) BY <2>1, <2>2, <1>3, <1>5 DEF IndexOf
    <2>6. CASE t[f].dead /\ NextGone(t, e, f) = 0
      <3>1. f \in Base BY <2>6, <1>d DEF RulesClean
      <3>2. tbl'[f] = ZeroRule BY <3>1, <2>3, <2>6, <1>7 DEF SameRule
      <3>3. QED BY <3>2, <2>6, <1>b
    <2>7. CASE ~(t[f].dead /\ NextGone(t, e, f) = 0)
      <3>1. tbl'[f] = CleanRules[f] BY <2>3, <2>7, <1>7 DEF SameRule
      <3>2. QED BY <3>1, <2>3, <2>4, <2>5, <2>7
    <2>8. QED BY <2>6, <2>7
  <1>9. e \in Expn \/ t[e].next = 0 => Blank(tbl'[e])
    <2>1. e \in Expn \/ t[e].next = 0 => tbl'[e] = ZeroRule BY <1>3, <1>6, <1>7, <1>d
    <2>2. QED BY <2>1, <1>b
  <1>10. ASSUME e \notin Expn, t[e].next # 0
         PROVE  tbl'[e].rule = t[e].rule /\ tbl'[e].enable /\ tbl'[e].dead /\ tbl'[e].next = t[e].next
    <2>1. tbl'[e] = tbl[e] BY <1>3, <1>4, <1>6, <1>7, <1>10, <1>d
    <2>2. QED BY <2>1, <1>1, <1>4, <1>10, <1>d DEF RuleCut
  <1>11. QED BY <1>8, <1>9, <1>10 DEF RuleGone

LEMMA FreedEntries ==
  ASSUME NEW t \in Tables, NEW x \in Indexes, NEW p \in [Expn -> Entries], RulesClean(t), IndexClean(t, x, p),
         NEW e \in Entries, Live(t, e), NEW i, i = t[e].indx
  PROVE  Freed(x, i) \in Entries /\ Before(x, p, i) \in Entries /\ (i \in Expn => p[i] # i)
  <1>1. Freed(x, i) \in Entries /\ Before(x, p, i) \in Entries BY FreedPlaces
  <1>2. ASSUME i \in Expn PROVE p[i] # i
    <2>1. Freed(x, i) = i /\ Before(x, p, i) = p[i] BY <1>2 DEF Freed, Before
    <2>2. Before(x, p, i) # Freed(x, i) BY <1>2, <2>1, FreedPlaces
    <2>3. QED BY <2>1, <2>2
  <1>3. QED BY <1>1, <1>2

LEMMA DelCleanIndexes ==
  ASSUME TypeInv, NEW t, NEW x, NEW p, NEW e, NEW i, NEW r, DelDone(t, x, p, e, i, r),
         indx' = [indx EXCEPT ![FreedIndex] = ZeroIndex], prev_index' = CleanMeta
  PROVE  IndexGone(x, p, indx', i) /\ BlankIndex(indx'[Freed(x, i)]) /\ MetaGone(x, p, prev_index', i)
  <1>d. /\ t \in Tables /\ x \in Indexes /\ p \in [Expn -> Entries] /\ e \in Entries /\ i \in Entries
        /\ RulesClean(t) /\ IndexClean(t, x, p) /\ Live(t, e) /\ i = t[e].indx
        /\ i = cur.ientry /\ p = prev_index /\ cur.inext = x[i].next /\ cur.ipos = Position(x, i)
        /\ indx = IndexDone(x, p, i)
    BY DEF DelDone
  <1>1. indx \in Indexes /\ IndexGone(x, p, indx, i)
    <2>1. IndexDone(x, p, i) \in Indexes /\ IndexGone(x, p, IndexDone(x, p, i), i) BY <1>d, IndexCmdCuts
    <2>2. QED BY <2>1, <1>d, Zenon
  <1>3. /\ cur.ipos = "HEAD" <=> i \notin Expn /\ x[i].next # 0
        /\ cur.ipos = "MIDDLE" <=> i \in Expn /\ x[i].next # 0
    BY <1>d, PositionFacts
  <1>4. FreedIndex = Freed(x, i) BY <1>d, <1>3 DEF FreedIndex, Freed
  <1>e. Freed(x, i) \in Entries /\ Before(x, p, i) \in Entries /\ (i \in Expn => p[i] # i) BY <1>d, FreedEntries, Zenon
  <1>5. PICK g \in Entries, b \in Entries : g = Freed(x, i) /\ b = Before(x, p, i) BY <1>e, Zenon
  <1>6. indx'[g] = ZeroIndex /\ \A k \in Entries : k # g => indx'[k] = indx[k] BY <1>1, <1>4, <1>5 DEF Indexes
  <1>7. IndexGone(x, p, indx', i) BY <1>1, <1>5, <1>6 DEF IndexGone
  <1>8. BlankIndex(indx'[g]) BY <1>6 DEF BlankIndex, ZeroIndex
  <1>9. indx[g].next = x[g].next
    <2>1. i \in Expn => p[i] # i BY <1>e
    <2>2. QED BY <2>1, <1>d, <1>5, IndexCmdCuts
  <1>10. PICK n : n = x[g].next OBVIOUS
  <1>11. n \in Expn \cup {0} /\ 0 \notin Expn BY <1>d, <1>10, Places DEF Indexes, IndexRec
  <1>12. CASE cur.ipos = "HEAD" /\ n # 0
    <2>1. prev_index' = [p EXCEPT ![n] = i] BY <1>12, <1>4, <1>5, <1>9, <1>10, <1>d DEF CleanMeta
    <2>2. b = i BY <1>12, <1>3, <1>5 DEF Before
    <2>3. MetaGone(x, p, prev_index', i) BY <2>1, <2>2, <1>5, <1>10, <1>11, <1>d DEF MetaGone
    <2>4. QED BY <2>3, <1>5, <1>7, <1>8
  <1>13. CASE cur.ipos = "MIDDLE"
    <2>1. prev_index' = [p EXCEPT ![n] = p[i], ![i] = 0] BY <1>13, <1>4, <1>5, <1>9, <1>10, <1>d DEF CleanMeta
    <2>2. b = p[i] /\ g = i BY <1>13, <1>3, <1>5 DEF Before, Freed
    <2>3. MetaGone(x, p, prev_index', i) BY <2>1, <2>2, <1>5, <1>10, <1>11, <1>d DEF MetaGone
    <2>4. QED BY <2>3, <1>5, <1>7, <1>8
  <1>14. CASE ~(cur.ipos = "HEAD" /\ n # 0) /\ cur.ipos # "MIDDLE"
    <2>1. prev_index' = p BY <1>14, <1>4, <1>5, <1>9, <1>10, <1>d DEF CleanMeta
    <2>2. n = 0 BY <1>14, <1>3, <1>5, <1>10 DEF Freed
    <2>3. MetaGone(x, p, prev_index', i) BY <2>1, <2>2, <1>5, <1>10, <1>11, <1>d DEF MetaGone
    <2>4. QED BY <2>3, <1>5, <1>7, <1>8
  <1>15. QED BY <1>12, <1>13, <1>14

LEMMA SoundOfDelClean ==
  ASSUME TypeInv, HandleInv, SoundInv, DelClean, TypeInv', HandleInv'
  PROVE  SoundInv'
  <1> SUFFICES ASSUME fails' = 0 PROVE \E t \in Tables, x \in Indexes : Clean(t, x)' /\ Stage(t, x)' BY DEF SoundInv
  <1>0. TablesTyped /\ HandlesTyped /\ CallTyped BY TypeInvParts
  <1>p. tbl' \in Tables /\ indx' \in Indexes /\ HandlesTyped' BY TypeInvPartsNext DEF TablesTyped
  <1>1. /\ at = "dma" /\ cmds = <<>> /\ at' = "idle" /\ fails' = fails /\ tbl' = DelDeadHeads(CleanRules)
        /\ indx' = [indx EXCEPT ![FreedIndex] = ZeroIndex] /\ prev_index' = CleanMeta
        /\ rule_hdl' = [rule_hdl EXCEPT ![cur.rule] = 0]
    BY DEF DelClean
  <1>2. PICK t, x, p, e, i, r : DelDone(t, x, p, e, i, r) BY <1>1, DelCleanBegins
  <1>d. /\ t \in Tables /\ x \in Indexes /\ p \in [Expn -> Entries] /\ e \in Entries /\ i \in Entries /\ r \in Rules
        /\ RulesClean(t) /\ IndexClean(t, x, p) /\ HandlesClean(t) /\ Live(t, e) /\ t[e].rule = r /\ i = t[e].indx
        /\ r = cur.rule
    BY <1>2 DEF DelDone
  <1>3. RuleGone(t, x, e, i, tbl') BY <1>1, <1>2, DelCleanRules
  <1>4. IndexGone(x, p, indx', i) /\ BlankIndex(indx'[Freed(x, i)]) /\ MetaGone(x, p, prev_index', i)
    BY <1>1, <1>2, DelCleanIndexes
  <1>5. RulesClean(tbl')
    <2>1. i \notin Expn /\ x[i].next # 0 => Live(t, x[x[i].next].entry)
      <3>1. i \notin Expn /\ x[i].next # 0 => IndexHere(t, x, x[i].next) BY <1>d, IndexPlaces
      <3>2. QED BY <3>1 DEF IndexHere
    <2>2. QED BY <2>1, <1>d, <1>p, <1>3, RuleGoneClean
  <1>6. IndexClean(tbl', indx', prev_index') BY <1>d, <1>p, <1>3, <1>4, IndexGoneClean
  <1>7. HandlesClean(tbl)'
    <2>a. \A f \in Entries : Live(tbl', f) => f # e /\ Live(t, f) /\ t[f].rule = tbl'[f].rule
      BY <1>3, NatAssumption DEF RuleGone, Live, SameRule, Blank
    <2>b. \A q \in Rules : q # r => rule_hdl'[q] = rule_hdl[q] BY <1>0, <1>1, <1>d DEF HandlesTyped
    <2>c. Owned' BY <1>1 DEF HandleInv
    <2>d. EntryOf(r) = e BY <1>d DEF HandlesClean
    <2>1. ASSUME NEW f \in Entries, Live(tbl', f), NEW q \in Rules, q = tbl'[f].rule
          PROVE  rule_hdl'[q] # 0 /\ EntryOf(q)' = f
      <3>1. f # e /\ Live(t, f) /\ t[f].rule = q BY <2>a, <2>1
      <3>2. rule_hdl[q] # 0 /\ EntryOf(q) = f BY <3>1, <1>d DEF HandlesClean
      <3>3. q # r BY <3>1, <3>2, <2>d
      <3>4. rule_hdl'[q] # 0 BY <3>2, <3>3, <2>b
      <3>5. PICK g : g = EntryOf(q)' OBVIOUS
      <3>6. g # 0 /\ tbl'[g].rule = q /\ tbl'[g].enable /\ ~tbl'[g].dead BY <1>1, <2>c, <3>4, <3>5 DEF Owned
      <3>7. g \in Entries
        <4>1. (\A a \in Rules : rule_hdl[a] # 0 => EntryOf(a) \in Entries)' BY <1>p, EntriesTypedNext
        <4>2. QED BY <4>1, <3>4, <3>5
      <3>8. Live(tbl', g) BY <3>6 DEF Live
      <3>9. Live(t, g) /\ t[g].rule = q BY <3>6, <3>7, <3>8, <2>a
      <3>10. EntryOf(q) = g BY <3>7, <3>9, <1>d DEF HandlesClean
      <3>11. QED BY <3>2, <3>4, <3>5, <3>10
    <2>2. ASSUME NEW f \in Entries, Live(tbl', f) PROVE rule_hdl'[tbl'[f].rule] # 0 /\ EntryOf(tbl[f].rule)' = f
      <3>1. PICK q \in Rules : q = tbl'[f].rule BY <2>2 DEF Live
      <3>2. rule_hdl'[q] # 0 /\ EntryOf(q)' = f BY <2>1, <2>2, <3>1
      <3>3. QED BY <3>1, <3>2
    <2>3. QED BY <2>2 DEF HandlesClean, Live
  <1>8. Clean(tbl, indx)' BY <1>5, <1>6, <1>7 DEF Clean
  <1>9. Stage(tbl, indx)' BY <1>1 DEF Stage, Adding
  <1>10. QED BY <1>8, <1>9, <1>p

LEMMA SoundKept ==
  ASSUME TypeInv, HandleInv, SoundInv, [Next]_vars PROVE SoundInv'
  <1>t. TypeInv' BY TypesKept
  <1>h. HandleInv' BY HandlesKept
  <1>1. CASE UNCHANGED vars
    <2>1. UNCHANGED <<tbl, indx, prev_index, rule_hdl, rule_id_array, at, cur, cmds, fails>> BY <1>1 DEF vars, hw, cache
    <2> SUFFICES ASSUME fails' = 0 PROVE \E t \in Tables, x \in Indexes : Clean(t, x)' /\ Stage(t, x)' BY DEF SoundInv
    <2>2. PICK t \in Tables, x \in Indexes : Clean(t, x) /\ Stage(t, x) BY <2>1 DEF SoundInv
    <2>3. HandlesClean(t)' BY <2>1, <2>2, HandlesCleanKept DEF Clean
    <2>4. Clean(t, x)' BY <2>1, <2>2, <2>3 DEF Clean
    <2>5. Stage(t, x)' BY <2>1, <2>2 DEF Stage, Adding
    <2>6. QED BY <2>4, <2>5
  <1>2. CASE AddTable \/ AddTableFails \/ DelTable \/ DelTableFails BY <1>2, SoundOfTables
  <1>3. CASE \E r \in Rules : AddRule(r) BY <1>3, SoundOfAddRule
  <1>4. CASE AddLink \/ AddIndex \/ AddIndexLink BY <1>4, SoundOfAddSteps
  <1>5. CASE AddEnable BY <1>5, <1>t, <1>h, SoundOfAddEnable
  <1>6. CASE \E r \in Rules : DelRule(r) BY <1>6, SoundOfDelRule
  <1>7. CASE Dma BY <1>7, SoundOfDma
  <1>8. CASE DmaFails
    <2>1. fails' # 0 BY <1>8, FailedSteps DEF DmaFails
    <2>2. QED BY <2>1 DEF SoundInv
  <1>9. CASE DelClean BY <1>9, <1>t, <1>h, SoundOfDelClean
  <1>10. QED BY <1>1, <1>2, <1>3, <1>4, <1>5, <1>6, <1>7, <1>8, <1>9 DEF Next

-----------------------------------------------------------------------------
(* What the hardware finds.                                                *)

\* A live rule was there when the call began.
LEMMA LiveBefore ==
  ASSUME TypeInv, NEW t \in Tables, NEW x \in Indexes, Clean(t, x), Stage(t, x), NEW f \in Entries, Live(tbl, f)
  PROVE  Live(t, f) /\ t[f].rule = tbl[f].rule
  <1>0. TablesTyped /\ HandlesTyped /\ CallTyped BY TypeInvParts
  <1>1. at = "idle" \/ Adding \/ at = "dma" BY <1>0 DEF CallTyped, Adding
  <1>2. CASE at = "idle" BY <1>2 DEF Stage
  <1>3. CASE Adding
    <2>1. RuleAdded(t, tbl, cur) /\ ~tbl[cur.entry].enable BY <1>3 DEF Stage, AddStage
    <2>2. f # cur.entry BY <2>1 DEF Live
    <2>3. QED BY <2>1, <2>2 DEF RuleAdded, SameRule, Live
  <1>4. CASE at = "dma"
    <2>1. Deletes(t, x, cur) /\ DelStage(t, x, prev_index, cur, cmds, tbl, indx) BY <1>4 DEF Stage
    <2>2. PICK e \in Entries : e = cur.entry BY <1>0, CurTypes
    <2>3. tbl = t \/ tbl = Wrote(t, RuleCmd(t, e)) BY <2>1, <2>2, Zenon DEF DelStage
    <2>4. CASE tbl = t BY <2>4
    <2>5. CASE tbl = Wrote(t, RuleCmd(t, e))
      <3>1. Live(t, e) BY <2>1, <2>2 DEF Deletes
      <3>2. RuleCut(t, tbl, e) BY <2>5, <3>1, RuleCmdCuts
      <3>3. CASE f = e BY <3>1, <3>2, <3>3 DEF RuleCut
      <3>4. CASE f # e BY <3>2, <3>4 DEF RuleCut, SameRule, Live
      <3>5. QED BY <3>3, <3>4
    <2>6. QED BY <2>3, <2>4, <2>5
  <1>5. QED BY <1>1, <1>2, <1>3, <1>4

\* A rule that no call is about is found as long as it lives: downlink,
LEMMA FoundByTarget ==
  ASSUME TypeInv, NEW t \in Tables, NEW x \in Indexes, Clean(t, x), Stage(t, x),
         NEW f \in Entries, Live(t, f), t[f].rule # cur.rule
  PROVE  f \in List(tbl, DstHash[t[f].rule])
  <1>0. TablesTyped /\ HandlesTyped /\ CallTyped BY TypeInvParts
  <1>t. tbl \in Tables /\ cur \in Calls BY <1>0 DEF TablesTyped, CallTyped
  <1>c. RulesClean(t) BY DEF Clean
  <1>1. at = "idle" \/ Adding \/ at = "dma" BY <1>0 DEF CallTyped, Adding
  <1>h. PICK h \in Base : h = DstHash[t[f].rule] BY <1>c, LiveHere
  <1>f. f \in List(t, h) BY <1>c, <1>h, LiveHere DEF RuleHere
  <1>2. CASE at = "idle" BY <1>2, <1>f, <1>h DEF Stage
  <1>3. CASE Adding
    <2>1. RuleAdded(t, tbl, cur) /\ Placed(t, x, prev_index, cur) BY <1>3 DEF Stage, AddStage
    <2>2. \A g \in Base : List(t, g) \subseteq List(tbl, g) BY <1>t, <1>c, <2>1, RuleAddedGrows DEF Placed
    <2>3. QED BY <2>2, <1>f, <1>h
  <1>4. CASE at = "dma"
    <2>1. Deletes(t, x, cur) /\ DelStage(t, x, prev_index, cur, cmds, tbl, indx) BY <1>4 DEF Stage
    <2>2. PICK e \in Entries : e = cur.entry BY <1>0, CurTypes
    <2>3. tbl = t \/ tbl = Wrote(t, RuleCmd(t, e)) BY <2>1, <2>2, Zenon DEF DelStage
    <2>4. CASE tbl = t BY <2>4, <1>f, <1>h
    <2>5. CASE tbl = Wrote(t, RuleCmd(t, e))
      <3>1. Live(t, e) /\ f # e BY <2>1, <2>2 DEF Deletes
      <3>2. RuleCut(t, tbl, e) BY <2>5, <3>1, RuleCmdCuts
      <3>3. /\ \A k \in Entries : k # e => tbl[k].next = NextGone(t, e, k)
            /\ e \notin Expn => tbl[e].next = t[e].next
        BY <3>2 DEF RuleCut, NextGone
      <3>4. \A g \in Base : List(t, g) \ {e} \subseteq List(tbl, g) BY <1>t, <1>c, <3>1, <3>3, RuleGoneKeeps
      <3>5. QED BY <3>1, <3>4, <1>f, <1>h
    <2>6. QED BY <2>3, <2>4, <2>5
  <1>5. QED BY <1>1, <1>2, <1>3, <1>4

\* and uplink.
LEMMA FoundBySource ==
  ASSUME TypeInv, NEW t \in Tables, NEW x \in Indexes, Clean(t, x), Stage(t, x),
         NEW f \in Entries, Live(t, f), t[f].rule # cur.rule
  PROVE  \E i \in List(indx, SrcHash[t[f].rule]) : indx[i].entry = f
  <1>0. TablesTyped /\ HandlesTyped /\ CallTyped BY TypeInvParts
  <1>t. indx \in Indexes /\ prev_index \in [Expn -> Entries] /\ cur \in Calls BY <1>0 DEF TablesTyped, CallTyped
  <1>c. RulesClean(t) /\ IndexClean(t, x, prev_index) BY DEF Clean
  <1>1. at = "idle" \/ Adding \/ at = "dma" BY <1>0 DEF CallTyped, Adding
  <1>i. PICK k : k = t[f].indx OBVIOUS
  <1>f. /\ k \in Entries /\ x[k].entry = f /\ f # 0
        /\ k \in List(x, SrcHash[t[f].rule]) /\ SrcHash[t[f].rule] \in Base
    BY <1>t, <1>c, <1>i, IndexPlaces
  <1>h. PICK h \in Base : h = SrcHash[t[f].rule] BY <1>f
  <1>2. CASE indx = x BY <1>2, <1>f
  <1>3. CASE Adding
    <2>1. Placed(t, x, prev_index, cur) /\ (indx = x \/ IndexAdded(x, indx, cur)) BY <1>3 DEF Stage, AddStage, Adding
    <2>2. CASE IndexAdded(x, indx, cur)
      <3>1. \A g \in Base : List(x, g) \subseteq List(indx, g) BY <1>t, <1>c, <2>1, <2>2, IndexAddedGrows DEF Placed
      <3>2. k # cur.ientry BY <1>f, <2>1 DEF Placed, BlankIndex
      <3>3. indx[k].entry = f BY <1>f, <2>2, <3>2 DEF IndexAdded
      <3>4. QED BY <3>1, <3>3, <1>f
    <2>3. QED BY <2>1, <2>2, <1>2
  <1>4. CASE at = "dma"
    <2>1. Deletes(t, x, cur) /\ DelStage(t, x, prev_index, cur, cmds, tbl, indx) BY <1>4 DEF Stage
    <2>2. PICK e \in Entries, i \in Entries, p \in [Expn -> Entries] : e = cur.entry /\ i = cur.ientry /\ p = prev_index
      BY <1>0, CurTypes DEF TablesTyped
    <2>3. Live(t, e) /\ i = t[e].indx /\ f # e BY <2>1, <2>2 DEF Deletes
    <2>4. x[i].entry = e BY <1>c, <2>2, <2>3, IndexPlaces
    <2>5. \/ indx = x
          \/ Position(x, i) = "HEAD" /\ indx = WroteIndex(x, IndexCmd(x, p, i))
          \/ indx = IndexDone(x, p, i)
      BY <2>1, <2>2, Zenon DEF DelStage
    <2>6. CASE Position(x, i) = "HEAD" /\ indx = WroteIndex(x, IndexCmd(x, p, i))
      <3>1. HeadHalf(x, indx, i) BY <2>6, IndexCmdCuts, PositionFacts
      <3>2. k # i BY <1>f, <2>3, <2>4
      <3>3. indx[k].entry = f BY <1>f, <3>1, <3>2 DEF HeadHalf
      <3>4. NextsTyped(x) /\ NextsTyped(indx) BY <1>t, IndexNexts
      <3>5. \A g \in Entries : x[g].next # 0 => indx[g].next = x[g].next BY <3>1 DEF HeadHalf
      <3>6. List(x, h) \subseteq List(indx, h) BY <3>4, <3>5, ListGrows
      <3>7. QED BY <3>3, <3>6, <1>f, <1>h
    <2>7. CASE indx = IndexDone(x, p, i)
      <3>1. IndexGone(x, p, indx, i) BY <2>7, IndexCmdCuts
      <3>2. /\ indx[IndexOf(t, x, i, f)].entry = f /\ IndexOf(t, x, i, f) \in List(indx, SrcHash[t[f].rule])
        BY <1>t, <1>c, <2>2, <2>3, <3>1, IndexGoneFinds
      <3>3. QED BY <3>2
    <2>8. QED BY <2>5, <2>6, <2>7, <1>2
  <1>5. CASE at = "idle" BY <1>5, <1>2 DEF Stage
  <1>6. QED BY <1>1, <1>3, <1>4, <1>5

LEMMA LookupsHold ==
  ASSUME TypeInv, HandleInv, SoundInv PROVE LookupsRight
  <1>0. TablesTyped /\ HandlesTyped /\ CallTyped BY TypeInvParts
  <1>n. NextsTyped(tbl) /\ NextsTyped(indx) BY <1>0, TableNexts, IndexNexts DEF TablesTyped
  <1>h. \A r \in Rules : DstHash[r] \in Base /\ SrcHash[r] \in Base BY NatAssumption
  <1>1. ASSUME Sound, NEW r \in Rules, rule_hdl[r] # 0, cur.rule # r PROVE FoundDown(r) /\ FoundUp(r)
    <2>1. PICK t \in Tables, x \in Indexes : Clean(t, x) /\ Stage(t, x) BY <1>1 DEF SoundInv, Sound
    <2>2. Owned BY <1>1 DEF HandleInv, Sound
    <2>3. PICK f \in Entries : f = EntryOf(r) BY <1>0, <1>1, EntryTypes
    <2>4. Live(tbl, f) /\ tbl[f].rule = r /\ f # 0 BY <1>1, <2>2, <2>3 DEF Owned, Live
    <2>5. Live(t, f) /\ t[f].rule = r BY <2>1, <2>4, LiveBefore
    <2>6. f \in List(tbl, DstHash[r]) BY <1>1, <2>1, <2>5, FoundByTarget
    <2>7. PICK i \in List(indx, SrcHash[r]) : indx[i].entry = f BY <1>1, <2>1, <2>5, FoundBySource
    <2>8. QED BY <2>4, <2>6, <2>7 DEF FoundDown, FoundUp, Matches, Live
  <1>2. ASSUME Sound, NEW r \in Rules, rule_hdl[r] = 0 PROVE ~FoundDown(r) /\ ~FoundUp(r)
    <2>1. PICK t \in Tables, x \in Indexes : Clean(t, x) /\ Stage(t, x) BY <1>2 DEF SoundInv, Sound
    <2>2. \A f \in Entries : ~Matches(f, r)
      <3> SUFFICES ASSUME NEW f \in Entries, Matches(f, r) PROVE FALSE OBVIOUS
      <3>1. Live(tbl, f) /\ tbl[f].rule = r BY DEF Matches, Live
      <3>2. Live(t, f) /\ t[f].rule = r BY <2>1, <3>1, LiveBefore
      <3>3. QED BY <1>2, <2>1, <3>2 DEF Clean, HandlesClean
    <2>3. ~FoundDown(r) BY <2>2, <1>h, <1>n, ListPlaces DEF FoundDown
    <2>4. \A i \in Entries : indx[i].entry \in Entries BY <1>0 DEF TablesTyped, Indexes, IndexRec
    <2>5. ~FoundUp(r) BY <2>2, <2>4, <1>h, <1>n, ListPlaces DEF FoundUp
    <2>6. QED BY <2>3, <2>5
  <1>3. QED BY <1>1, <1>2 DEF LookupsRight, LiveRulesFound, DeletedNotFound
-----------------------------------------------------------------------------
(* The driver's own view of the tables.                                    *)

\* A clean table in which no rule lives is zero: a dead head would have a list that goes on.
LEMMA NothingLeft ==
  ASSUME NEW t \in Tables, NEW x \in Indexes, NEW p, RulesClean(t), IndexClean(t, x, p), \A e \in Entries : ~Live(t, e)
  PROVE  \A e \in Entries : t[e] = ZeroRule /\ x[e] = ZeroIndex
  <1>t. \A e \in Entries : t[e] \in RuleRec /\ x[e] \in IndexRec BY DEF Tables, Indexes
  <1>1. \A e \in Entries : ~t[e].dead
    <2> SUFFICES ASSUME NEW e \in Entries, t[e].dead PROVE FALSE OBVIOUS
    <2>1. PICK n : n = t[e].next OBVIOUS
    <2>2. n # 0 /\ n \in Expn BY <2>1, <1>t DEF RulesClean, RuleRec
    <2>3. n \in Entries /\ n \notin Base BY <2>2, Places
    <2>4. t[n].rule \in Rules /\ ~t[n].dead BY <2>1, <2>2, <2>3 DEF RulesClean
    <2>5. t[n].enable BY <2>3, <2>4, NatAssumption DEF RulesClean, Blank, RuleHere
    <2>6. QED BY <2>3, <2>4, <2>5 DEF Live
  <1>2. ASSUME NEW e \in Entries PROVE t[e] = ZeroRule
    <2>1. Blank(t[e]) BY <1>1 DEF RulesClean, RuleHere, Live
    <2>2. QED BY <1>t, <2>1 DEF Blank, RuleRec, ZeroRule
  <1>3. ASSUME NEW e \in Entries PROVE x[e] = ZeroIndex
    <2>1. x[e].entry \in Entries BY <1>t DEF IndexRec
    <2>2. BlankIndex(x[e]) BY <2>1 DEF IndexClean, IndexHere
    <2>3. QED BY <1>t, <2>2 DEF BlankIndex, IndexRec, ZeroIndex
  <1>4. QED BY <1>2, <1>3

LEMMA TablesHold ==
  ASSUME TypeInv, HandleInv, SoundInv PROVE TablesAgree
  <1>0. TablesTyped /\ HandlesTyped /\ CallTyped BY TypeInvParts
  <1>1. TypeOK BY DEF TypeInv
  <1>2. ASSUME Sound, at = "idle" PROVE Clean(tbl, indx)
    <2>1. PICK t \in Tables, x \in Indexes : Clean(t, x) /\ Stage(t, x) BY <1>2 DEF SoundInv, Sound
    <2>2. QED BY <1>2, <2>1 DEF Stage
  <1>3. LinksAgree
    <2> SUFFICES ASSUME Sound, at = "idle"
                 PROVE  /\ \A e \in Entries : tbl[e].next # 0 => tbl[tbl[e].next].prev = e
                        /\ \A i \in Entries : indx[i].next # 0 => prev_index[indx[i].next] = i
                        /\ \A i \in Entries : indx[i].entry # 0 => tbl[indx[i].entry].indx = i
      BY DEF LinksAgree
    <2>1. RulesClean(tbl) /\ IndexClean(tbl, indx, prev_index) BY <1>2 DEF Clean
    <2>2. \A i \in Entries : indx[i].entry # 0 => tbl[indx[i].entry].indx = i
      BY <2>1 DEF IndexClean, BlankIndex, IndexHere
    <2>3. QED BY <2>1, <2>2 DEF RulesClean, IndexClean
  <1>4. EmptyAgain
    <2> SUFFICES ASSUME Sound, at = "idle", \A r \in Rules : rule_hdl[r] = 0
                 PROVE  \A e \in Entries : tbl[e] = ZeroRule /\ indx[e] = ZeroIndex
      BY DEF EmptyAgain
    <2>1. RulesClean(tbl) /\ IndexClean(tbl, indx, prev_index) /\ HandlesClean(tbl) BY <1>2 DEF Clean
    <2>2. \A e \in Entries : ~Live(tbl, e) BY <2>1 DEF HandlesClean, Live
    <2>3. QED BY <1>0, <2>1, <2>2, NothingLeft DEF TablesTyped
  <1>5. HandleFindsRule BY DEF HandleFindsRule, HandleInv, Owned, EntryOf
  <1>6. QED BY <1>1, <1>3, <1>4, <1>5 DEF TablesAgree
-----------------------------------------------------------------------------
\* The types, the handles up to the first failure, and the tables without one hold in every
\* state of the driver.
THEOREM Inductive == Spec => [](TypeInv /\ HandleInv /\ SoundInv)
  <1>1. Init => TypeInv /\ HandleInv /\ SoundInv BY TypesInit, HandlesInit, SoundInit
  <1>2. (TypeInv /\ HandleInv /\ SoundInv) /\ [Next]_vars => (TypeInv /\ HandleInv /\ SoundInv)'
    BY TypesKept, HandlesKept, SoundKept
  <1>3. QED BY <1>1, <1>2, PTL DEF Spec

\* Whatever the rules and their hashes are: as long as no call fails the hardware finds every
\* rule that has a handle both ways, after every single write of ipa_nati_add_ipv4_rule() and
\* every single command of ipa_nati_del_ipv4_rule(), and finds no rule without a handle.
THEOREM LookupsRightHolds == Spec => []LookupsRight
  <1>1. TypeInv /\ HandleInv /\ SoundInv => LookupsRight BY LookupsHold
  <1>2. QED BY <1>1, Inductive, PTL

\* Whatever the rules and their hashes are: as long as no call fails the links back of both
\* tables agree with the lists between any two calls, and the last ipa_nati_del_ipv4_rule()
\* leaves nothing behind; a handle leads to its rule also after one failure.
THEOREM TablesAgreeHolds == Spec => []TablesAgree
  <1>1. TypeInv /\ HandleInv /\ SoundInv => TablesAgree BY TablesHold
  <1>2. QED BY <1>1, Inductive, PTL
=============================================================================
