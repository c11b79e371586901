------------------------- MODULE IpacmIfaceProofs -------------------------
(***************************************************************************)
(* The objects that ipacm keeps for its interfaces.                        *)
(*                                                                         *)
(* IpacmClients: the table of the clients of an interface and the handles  *)
(* of the driver, for any number of clients, addresses, handles and        *)
(* failing calls: HandlesKept and RoutedWhileAwake.                        *)
(*                                                                         *)
(* IpacmWan: the upstream and what hangs on it, for any interfaces and any *)
(* order of links, addresses and routes: UpstreamAgrees.                   *)
(***************************************************************************)
EXTENDS IpacmClients, IpacmWan, FiniteSetTheorems, SequenceTheorems, TLAPS

RoutesOf(c) == HandlesV4(c) \cup HandlesV6(c)

\* The fields of one element fit together.
RowRight(c) ==
  /\ Len(c.v6_addr) <= MaxV6 /\ Len(c.rt_hdl_v6) = c.route_rule_set_v6
  /\ c.route_rule_set_v6 <= Len(c.v6_addr)
  /\ c.ipv4_set => c.v4_addr \in V4
  /\ c.route_rule_set_v4 => c.ipv4_set
  /\ c.hdr_hdl_v4 # c.hdr_hdl_v6

\* ClientHandlesOwn for one element, against the rules rs and the headers hs.
OwnRoutes(c, rs) ==
  /\ c.route_rule_set_v4 => /\ c.rt_hdl_v4 \in RouteHdls
                            /\ rs[c.rt_hdl_v4] = [mac |-> c.mac, addr |-> c.v4_addr]
  /\ \A k \in 1..c.route_rule_set_v6 : rs[c.rt_hdl_v6[k]] = [mac |-> c.mac, addr |-> c.v6_addr[k]]

OwnHeaders(c, hs) ==
  /\ c.ipv4_header_set => hs[c.hdr_hdl_v4] = c.mac
  /\ c.ipv6_header_set => hs[c.hdr_hdl_v6] = c.mac

RowsRight == \A i \in 1..num : RowRight(client[i])

\* No two elements share a handle, so that deleting what one has leaves the others alone.
Apart(c, d) == RoutesOf(c) \cap RoutesOf(d) = {} /\ HeadersOf(c) \cap HeadersOf(d) = {}
RowsApart == \A i, j \in 1..num : i # j => Apart(client[i], client[j])

\* Without a failure the headers of the driver are those whose flags are set.
HeadersListed(cs, hs) ==
  \A h \in HeaderHdls : hs[h] # NoMac => \E i \in 1..Len(cs) : h \in HeadersOf(cs[i])
HeadersHeld == fails = 0 => HeadersListed(client, headers)

\* Only a client of an access point is told to be in power save.
EthAwake == kind = "eth" => asleep = {}

\* Without a failure, and without a client added again, a client has one element, and has it
\* only while it is attached.
MacsOnce ==
  fails = 0 /\ ~twice =>
    /\ \A i, j \in 1..num : client[i].mac = client[j].mac => i = j
    /\ \A i \in 1..num : client[i].mac \in attached

\* An element is routed completely or, with the flag of power save, not at all.
Served(c) ==
  /\ c.power_save_set => ~c.route_rule_set_v4 /\ c.route_rule_set_v6 = 0
  /\ ~c.power_save_set => /\ c.ipv4_set => c.route_rule_set_v4
                          /\ c.route_rule_set_v6 = Len(c.v6_addr)

Flagged(c, sleepers) == (c.power_save_set <=> c.mac \in sleepers) /\ Served(c)

FlagsRight == fails = 0 /\ ~shifted /\ ~twice => \A i \in 1..num : Flagged(client[i], asleep)

IndInv ==
  /\ HandlesKept /\ RowsRight /\ RowsApart /\ HeadersHeld
  /\ EthAwake /\ MacsOnce /\ FlagsRight

-----------------------------------------------------------------------------
(* The free handles of the driver, in their order.                         *)

LEMMA MinExists ==
  ASSUME NEW S \in SUBSET Nat, S # {}
  PROVE  \E x \in S : \A y \in S : x <= y
  <1>1. PICK x \in S : \A y \in S : ~ (<<y, x>> \in OpToRel(<, Nat))
    BY WFMin, NatLessThanWellFounded
  <1>2. ASSUME NEW y \in S PROVE x <= y
    <2>1. ~ (<<y, x>> \in {ss \in Nat \X Nat : ss[1] < ss[2]}) BY <1>1 DEF OpToRel
    <2>2. QED BY <2>1
  <1>3. QED BY <1>2

\* indexOf() is the place of an element of the client.
LEMMA IndexFacts ==
  ASSUME NEW m, client \in Seq(Clients), Known(m)
  PROVE  indexOf(m) \in 1..num /\ client[indexOf(m)].mac = m
  <1> DEFINE S == {i \in 1..num : client[i].mac = m}
  <1>1. S \in SUBSET Nat /\ S # {} BY DEF Known, num
  <1>2. \E x \in S : \A y \in S : x <= y BY <1>1, MinExists
  <1>3. Min(S) \in S BY <1>2 DEF Min
  <1>4. QED BY <1>3 DEF indexOf

Free(rs, none) == {h \in DOMAIN rs : rs[h] = none}

\* The places of two handles in the list differ, so that every place is taken.
LEMMA UnusedFacts ==
  ASSUME NEW n \in Nat, NEW rs, DOMAIN rs = 1..n, NEW none
  PROVE  /\ Unused(rs, none) \in Seq(1..n)
         /\ Len(Unused(rs, none)) = Cardinality(Free(rs, none))
         /\ \A k \in 1..Len(Unused(rs, none)) : rs[Unused(rs, none)[k]] = none
         /\ \A k, l \in 1..Len(Unused(rs, none)) :
              Unused(rs, none)[k] = Unused(rs, none)[l] => k = l
  <1> DEFINE F == Free(rs, none)
             N == Cardinality(F)
             Upto(h) == {g \in F : g <= h}
             r == [h \in F |-> Cardinality(Upto(h))]
  <1>1. F \subseteq 1..n BY DEF Free
  <1>2. IsFiniteSet(F) /\ N \in Nat
    <2>1. IsFiniteSet(1..n) BY FS_Interval
    <2>2. IsFiniteSet(F) BY <1>1, <2>1, FS_Subset
    <2>3. QED BY <2>2, FS_CardinalityType
  <1>3. ASSUME NEW h \in F PROVE IsFiniteSet(Upto(h)) /\ Cardinality(Upto(h)) \in 1..N
    <2>1. Upto(h) \in SUBSET F /\ h \in Upto(h) BY <1>1
    <2>2. IsFiniteSet(Upto(h)) /\ Cardinality(Upto(h)) <= N BY <2>1, <1>2, FS_Subset
    <2>3. Cardinality(Upto(h)) \in Nat /\ Cardinality(Upto(h)) # 0
      BY <2>1, <2>2, FS_EmptySet, FS_CardinalityType
    <2>4. QED BY <2>2, <2>3, <1>2
  <1>4. ASSUME NEW g \in F, NEW h \in F, g < h PROVE Cardinality(Upto(g)) # Cardinality(Upto(h))
    <2>1. Upto(g) \in SUBSET Upto(h) /\ h \in Upto(h) /\ h \notin Upto(g) BY <1>1, <1>4
    <2>2. QED BY <2>1, <1>3, FS_Subset
  <1>5. r \in Injection(F, 1..N)
    <2>1. r \in [F -> 1..N] BY <1>3
    <2>2. ASSUME NEW g \in F, NEW h \in F, g # h PROVE r[g] # r[h]
      <3>1. g < h \/ h < g BY <2>2, <1>1
      <3>2. QED BY <3>1, <1>4
    <2>3. QED BY <2>1, <2>2 DEF Injection, IsInjective
  <1>6. IsFiniteSet(1..N) /\ Cardinality(1..N) = N BY <1>2, FS_Interval
  <1>7. r \in Surjection(F, 1..N) BY <1>5, <1>6, FS_Injection
  <1>8. \A k \in 1..N : \E h \in F : Cardinality(Upto(h)) = k BY <1>7 DEF Surjection
  <1> DEFINE hs == Unused(rs, none)
  <1>9. hs = [k \in 1..N |-> CHOOSE h \in F : Cardinality(Upto(h)) = k]
    BY DEF Unused, Free
  <1>10. \A k \in 1..N : hs[k] \in F /\ Cardinality(Upto(hs[k])) = k
    <2>1. TAKE k \in 1..N
    <2>2. hs[k] = CHOOSE h \in F : Cardinality(Upto(h)) = k BY <1>9, Zenon
    <2>3. QED BY <2>2, <1>8, Zenon
  <1>11. hs \in Seq(1..n) /\ Len(hs) = N
    <2>1. DOMAIN hs = 1..N BY <1>9
    <2>2. hs = [k \in 1..N |-> hs[k]] BY <1>9, Zenon
    <2>3. hs \in [1..N -> 1..n] BY <2>2, <2>1, <1>10, <1>1, Zenon
    <2>4. QED BY <2>3, <1>2
  <1>12. \A k \in 1..N : rs[hs[k]] = none BY <1>10 DEF Free
  <1>13. \A k, l \in 1..N : hs[k] = hs[l] => k = l BY <1>10
  <1> HIDE DEF hs, N
  <1>14. Len(hs) = Cardinality(Free(rs, none)) BY <1>11 DEF N
  <1>15. QED BY <1>11, <1>12, <1>13, <1>14 DEF hs

-----------------------------------------------------------------------------
(* One element and the rules of the driver.                                *)

Rules == [RouteHdls -> [mac : Macs, addr : V4 \cup V6] \cup {NoRoute}]

SameHeaders(c, d) ==
  /\ d.mac = c.mac /\ d.hdr_hdl_v4 = c.hdr_hdl_v4 /\ d.hdr_hdl_v6 = c.hdr_hdl_v6
  /\ d.ipv4_header_set = c.ipv4_header_set /\ d.ipv6_header_set = c.ipv6_header_set

\* The element c becomes d while the rules rs become rs2: only handles of the element
\* and free ones are touched.
Rerouted(c, rs, d, rs2) ==
  /\ d \in Clients /\ RowRight(d) /\ rs2 \in Rules /\ OwnRoutes(d, rs2)
  /\ \A h \in RouteHdls : rs2[h] # rs[h] => rs[h] = NoRoute \/ h \in RoutesOf(c)
  /\ \A h \in RoutesOf(d) : h \in RoutesOf(c) \/ rs[h] = NoRoute

\* No rule of the element is forgotten.
Complete(c, rs, d, rs2) ==
  \A h \in RouteHdls :
    rs2[h] # NoRoute => h \in RoutesOf(d) \/ (rs[h] # NoRoute /\ h \notin RoutesOf(c))

LEMMA RoutesOfType ==
  ASSUME NEW c \in Clients, RowRight(c), NEW rs \in Rules, OwnRoutes(c, rs)
  PROVE  /\ RoutesOf(c) \subseteq RouteHdls
         /\ \A h \in RoutesOf(c) : rs[h].mac = c.mac /\ rs[h] # NoRoute
         /\ HandlesV4(c) \cap HandlesV6(c) = {}
  <1>1. \A k \in 1..c.route_rule_set_v6 :
          /\ c.rt_hdl_v6[k] \in RouteHdls /\ c.v6_addr[k] \in V6
          /\ rs[c.rt_hdl_v6[k]] = [mac |-> c.mac, addr |-> c.v6_addr[k]]
    BY DEF Clients, RowRight, OwnRoutes
  <1>2. c.mac \in Macs BY DEF Clients
  <1>3. c.route_rule_set_v4 => /\ c.rt_hdl_v4 \in RouteHdls /\ c.v4_addr \in V4
                               /\ rs[c.rt_hdl_v4] = [mac |-> c.mac, addr |-> c.v4_addr]
    BY DEF RowRight, OwnRoutes
  <1>4. \A h \in HandlesV6(c) : /\ h \in RouteHdls /\ rs[h].mac = c.mac /\ rs[h].addr \in V6
                                /\ rs[h] # NoRoute
    <2>1. TAKE h \in HandlesV6(c)
    <2>2. PICK k \in 1..c.route_rule_set_v6 : h = c.rt_hdl_v6[k] BY DEF HandlesV6
    <2>3. rs[h] = [mac |-> c.mac, addr |-> c.v6_addr[k]] BY <1>1, <2>2
    <2>4. QED BY <1>1, <1>2, <2>2, <2>3, ClientsAssumption DEF NoRoute
  <1>5. \A h \in HandlesV4(c) : /\ h \in RouteHdls /\ rs[h].mac = c.mac /\ rs[h].addr \in V4
                                /\ rs[h] # NoRoute
    BY <1>2, <1>3, ClientsAssumption DEF HandlesV4, NoRoute
  <1>6. QED BY <1>4, <1>5, ClientsAssumption DEF RoutesOf

LEMMA ReroutedTrans ==
  ASSUME NEW c, NEW rs, NEW d, NEW rs2, NEW e, NEW rs3,
         c \in Clients, RowRight(c), rs \in Rules, OwnRoutes(c, rs),
         Rerouted(c, rs, d, rs2), Rerouted(d, rs2, e, rs3)
  PROVE  /\ Rerouted(c, rs, e, rs3)
         /\ Complete(c, rs, d, rs2) /\ Complete(d, rs2, e, rs3) => Complete(c, rs, e, rs3)
  <1>1. RoutesOf(d) \subseteq RouteHdls /\ RoutesOf(e) \subseteq RouteHdls
    BY RoutesOfType DEF Rerouted
  <1>2. ASSUME NEW h \in RouteHdls, rs3[h] # rs[h] PROVE rs[h] = NoRoute \/ h \in RoutesOf(c)
    BY <1>2 DEF Rerouted
  <1>3. ASSUME NEW h \in RoutesOf(e) PROVE h \in RoutesOf(c) \/ rs[h] = NoRoute
    BY <1>1, <1>3 DEF Rerouted
  <1>4. Rerouted(c, rs, e, rs3) BY <1>2, <1>3 DEF Rerouted
  <1>5. Complete(c, rs, d, rs2) /\ Complete(d, rs2, e, rs3) => Complete(c, rs, e, rs3)
    BY DEF Complete
  <1>6. QED BY <1>4, <1>5

\* Deleting all rules of an element, for a client that goes or sleeps.
LEMMA UnroutedRow ==
  ASSUME NEW c \in Clients, RowRight(c), NEW rs \in Rules, OwnRoutes(c, rs), NEW hd,
         hd = NotRoutedV4(NotRoutedV6(c))
  PROVE  /\ Rerouted(c, rs, hd, UnrouteAll(c, rs)) /\ Complete(c, rs, hd, UnrouteAll(c, rs))
         /\ SameHeaders(c, hd) /\ RoutesOf(hd) = {}
         /\ hd.v4_addr = c.v4_addr /\ hd.ipv4_set = c.ipv4_set /\ hd.v6_addr = c.v6_addr
         /\ hd.route_rule_set_v4 = FALSE /\ hd.route_rule_set_v6 = 0
         /\ hd.power_save_set = c.power_save_set
  <1> DEFINE rs2 == UnrouteAll(c, rs)
  <1>1. /\ hd \in Clients /\ SameHeaders(c, hd)
        /\ hd.v4_addr = c.v4_addr /\ hd.ipv4_set = c.ipv4_set /\ hd.v6_addr = c.v6_addr
        /\ hd.route_rule_set_v4 = FALSE /\ hd.route_rule_set_v6 = 0 /\ hd.rt_hdl_v6 = <<>>
        /\ hd.power_save_set = c.power_save_set
    <2> DEFINE e == NotRoutedV6(c)
    <2>1. 0 \in 0..MaxV6 /\ 0 \in 0..MaxRoutes /\ <<>> \in Seq(RouteHdls) BY ClientsAssumption
    <2>2. /\ e \in Clients /\ SameHeaders(c, e)
          /\ e.v4_addr = c.v4_addr /\ e.ipv4_set = c.ipv4_set /\ e.v6_addr = c.v6_addr
          /\ e.route_rule_set_v6 = 0 /\ e.rt_hdl_v6 = <<>> /\ e.power_save_set = c.power_save_set
      BY <2>1 DEF Clients, NotRoutedV6, SameHeaders
    <2> HIDE DEF e
    <2>3. hd = NotRoutedV4(e) BY DEF e
    <2>4. /\ hd \in Clients /\ SameHeaders(e, hd)
          /\ hd.v4_addr = e.v4_addr /\ hd.ipv4_set = e.ipv4_set /\ hd.v6_addr = e.v6_addr
          /\ hd.route_rule_set_v4 = FALSE
          /\ hd.route_rule_set_v6 = e.route_rule_set_v6 /\ hd.rt_hdl_v6 = e.rt_hdl_v6
          /\ hd.power_save_set = e.power_save_set
      BY <2>1, <2>2, <2>3 DEF Clients, NotRoutedV4, SameHeaders
    <2>5. QED BY <2>2, <2>4 DEF SameHeaders
  <1>2. RoutesOf(hd) = {} BY <1>1 DEF RoutesOf, HandlesV4, HandlesV6
  <1>3. RowRight(hd) BY <1>1 DEF RowRight, SameHeaders, Clients
  <1>4. OwnRoutes(hd, rs2) BY <1>1 DEF OwnRoutes
  <1>5. rs2 = [h \in RouteHdls |-> IF h \in RoutesOf(c) THEN NoRoute ELSE rs[h]]
    BY DEF UnrouteAll, Unroute, RoutesOf
  <1>6. rs2 \in Rules BY <1>5 DEF Rules
  <1>7. Rerouted(c, rs, hd, rs2) BY <1>1, <1>2, <1>3, <1>4, <1>5, <1>6 DEF Rerouted
  <1>8. Complete(c, rs, hd, rs2) BY <1>5 DEF Complete
  <1>9. QED BY <1>1, <1>2, <1>7, <1>8

\* The fields of an element d that an address was added to.
Addressed(c, rs, a, d, rs2) ==
  /\ Rerouted(c, rs, d, rs2) /\ Complete(c, rs, d, rs2) /\ SameHeaders(c, d)
  /\ d.power_save_set = c.power_save_set
  /\ a \in V4 => /\ d.v4_addr = a /\ d.ipv4_set = TRUE /\ d.route_rule_set_v4 = FALSE
                 /\ d.route_rule_set_v6 = c.route_rule_set_v6 /\ d.v6_addr = c.v6_addr
  /\ a \notin V4 => /\ d.v4_addr = c.v4_addr /\ d.ipv4_set = c.ipv4_set
                    /\ d.route_rule_set_v4 = c.route_rule_set_v4
                    /\ d.route_rule_set_v6 = c.route_rule_set_v6
                    /\ Len(d.v6_addr) = Len(c.v6_addr) + 1

\* handle_*_client_ipaddr(): a new IPv4 address takes the rule of the old one away.
LEMMA AddressedRow ==
  ASSUME NEW c \in Clients, RowRight(c), NEW rs \in Rules, OwnRoutes(c, rs),
         NEW a \in V4 \cup V6, Accepts(c, a), NEW hd, hd = AddrAdded(c, a),
         NEW rs2, rs2 = IF a \in V4 THEN Unroute(HandlesV4(c), rs) ELSE rs
  PROVE  Addressed(c, rs, a, hd, rs2)
  <1>1. CASE a \in V4
    <2>1. /\ hd \in Clients /\ SameHeaders(c, hd) /\ hd.power_save_set = c.power_save_set
          /\ hd.v4_addr = a /\ hd.ipv4_set = TRUE /\ hd.route_rule_set_v4 = FALSE
          /\ hd.route_rule_set_v6 = c.route_rule_set_v6 /\ hd.v6_addr = c.v6_addr
          /\ hd.rt_hdl_v6 = c.rt_hdl_v6
      BY <1>1 DEF Clients, AddrAdded, SameHeaders
    <2>2. RoutesOf(hd) = HandlesV6(c) BY <2>1 DEF RoutesOf, HandlesV4, HandlesV6
    <2>3. RowRight(hd) BY <1>1, <2>1 DEF RowRight, SameHeaders
    <2>4. rs2 = [h \in RouteHdls |-> IF h \in HandlesV4(c) THEN NoRoute ELSE rs[h]]
      BY <1>1 DEF Unroute
    <2>5. rs2 \in Rules BY <2>4 DEF Rules
    <2>6. HandlesV4(c) \cap HandlesV6(c) = {} /\ RoutesOf(c) \subseteq RouteHdls BY RoutesOfType
    <2>7. OwnRoutes(hd, rs2)
      <3>1. ASSUME NEW k \in 1..c.route_rule_set_v6
            PROVE  rs2[c.rt_hdl_v6[k]] = [mac |-> c.mac, addr |-> c.v6_addr[k]]
        <4>1. c.rt_hdl_v6[k] \in HandlesV6(c) BY DEF HandlesV6
        <4>2. c.rt_hdl_v6[k] \in RouteHdls /\ c.rt_hdl_v6[k] \notin HandlesV4(c)
          BY <4>1, <2>6 DEF RoutesOf
        <4>3. QED BY <4>2, <2>4 DEF OwnRoutes
      <3>2. QED BY <3>1, <2>1 DEF OwnRoutes, SameHeaders
    <2>8. Rerouted(c, rs, hd, rs2) BY <2>1, <2>2, <2>3, <2>4, <2>5, <2>7 DEF Rerouted, RoutesOf
    <2>9. Complete(c, rs, hd, rs2) BY <2>2, <2>4 DEF Complete, RoutesOf
    <2>10. QED BY <1>1, <2>1, <2>8, <2>9 DEF Addressed
  <1>2. CASE a \notin V4
    <2>1. /\ hd \in Clients /\ SameHeaders(c, hd) /\ hd.power_save_set = c.power_save_set
          /\ hd.v4_addr = c.v4_addr /\ hd.ipv4_set = c.ipv4_set
          /\ hd.route_rule_set_v4 = c.route_rule_set_v4 /\ hd.rt_hdl_v4 = c.rt_hdl_v4
          /\ hd.route_rule_set_v6 = c.route_rule_set_v6 /\ hd.rt_hdl_v6 = c.rt_hdl_v6
          /\ hd.v6_addr = Append(c.v6_addr, a)
      <3>1. hd = [c EXCEPT !.v6_addr = Append(c.v6_addr, a)] BY <1>2 DEF AddrAdded
      <3>2. c.v6_addr \in Seq(V6) /\ a \in V6 BY <1>2 DEF Clients
      <3>3. Append(c.v6_addr, a) \in Seq(V6) BY <3>2
      <3> DEFINE s == Append(c.v6_addr, a)
      <3> HIDE DEF s
      <3>4. hd = [c EXCEPT !.v6_addr = s] /\ s \in Seq(V6) BY <3>1, <3>3 DEF s
      <3>5. /\ hd \in Clients /\ SameHeaders(c, hd) /\ hd.power_save_set = c.power_save_set
            /\ hd.v4_addr = c.v4_addr /\ hd.ipv4_set = c.ipv4_set
            /\ hd.route_rule_set_v4 = c.route_rule_set_v4 /\ hd.rt_hdl_v4 = c.rt_hdl_v4
            /\ hd.route_rule_set_v6 = c.route_rule_set_v6 /\ hd.rt_hdl_v6 = c.rt_hdl_v6
            /\ hd.v6_addr = s
        BY <3>4 DEF Clients, SameHeaders
      <3>6. QED BY <3>5 DEF s
    <2>2. /\ Len(hd.v6_addr) = Len(c.v6_addr) + 1
          /\ \A k \in 1..c.route_rule_set_v6 : hd.v6_addr[k] = c.v6_addr[k]
      BY <2>1, <1>2 DEF Clients, RowRight
    <2>3. RoutesOf(hd) = RoutesOf(c) BY <2>1 DEF RoutesOf, HandlesV4, HandlesV6
    <2>4. RowRight(hd)
      <3>1. Len(c.v6_addr) \in Nat /\ Len(c.v6_addr) < MaxV6 BY <1>2 DEF Accepts, Clients
      <3>2. QED BY <3>1, <2>1, <2>2, ClientsAssumption DEF RowRight, SameHeaders, Clients
    <2>5. rs2 = rs BY <1>2
    <2>6. OwnRoutes(hd, rs2)
      <3>1. ASSUME NEW k \in 1..hd.route_rule_set_v6
            PROVE  rs2[hd.rt_hdl_v6[k]] = [mac |-> hd.mac, addr |-> hd.v6_addr[k]]
        <4>1. k \in 1..c.route_rule_set_v6 /\ hd.v6_addr[k] = c.v6_addr[k] BY <2>1, <2>2
        <4>2. rs[c.rt_hdl_v6[k]] = [mac |-> c.mac, addr |-> c.v6_addr[k]] BY <4>1 DEF OwnRoutes
        <4>3. QED BY <4>1, <4>2, <2>1, <2>5 DEF SameHeaders
      <3>2. QED BY <3>1, <2>1, <2>5 DEF OwnRoutes, SameHeaders
    <2>7. Rerouted(c, rs, hd, rs2) BY <2>1, <2>3, <2>4, <2>5, <2>6 DEF Rerouted
    <2>8. Complete(c, rs, hd, rs2) BY <2>3, <2>5 DEF Complete
    <2>9. QED BY <1>2, <2>1, <2>2, <2>7, <2>8 DEF Addressed
  <1>3. QED BY <1>1, <1>2

\* Two calls are one handle.
LEMMA HalfFacts ==
  ASSUME NEW x \in Nat, NEW g \in Nat, g <= 2 * x
  PROVE  /\ (g + 1) \div 2 \in Nat /\ (g + 1) \div 2 <= x
         /\ (g = 0 => (g + 1) \div 2 = 0) /\ (g = 2 * x => (g + 1) \div 2 = x)
  OBVIOUS

\* handle_*_client_route_rule(): rules for the addresses that have none.
LEMMA RoutedRow ==
  ASSUME NEW c \in Clients, RowRight(c), NEW rs \in Rules, OwnRoutes(c, rs),
         NEW family \in {"v4", "v6"}, NEW good \in 0..Calls(c, family),
         HandlesTaken(family, good) <= Len(Unused(rs, NoRoute)),
         NEW hd, hd = ClientAfter(c, family, rs, good),
         NEW rs2, rs2 = RoutesAfter(c, family, rs, good)
  PROVE  /\ Rerouted(c, rs, hd, rs2) /\ (good = Calls(c, family) => Complete(c, rs, hd, rs2))
         /\ SameHeaders(c, hd) /\ hd.power_save_set = c.power_save_set
         /\ hd.v4_addr = c.v4_addr /\ hd.ipv4_set = c.ipv4_set /\ hd.v6_addr = c.v6_addr
         /\ family = "v4" => hd.route_rule_set_v6 = c.route_rule_set_v6
         /\ family = "v6" => hd.route_rule_set_v4 = c.route_rule_set_v4
         /\ c.power_save_set => /\ hd.route_rule_set_v4 = c.route_rule_set_v4
                               /\ hd.route_rule_set_v6 = c.route_rule_set_v6
         /\ ~c.power_save_set /\ good = Calls(c, family) =>
              /\ family = "v4" /\ c.ipv4_set => hd.route_rule_set_v4
              /\ family = "v6" => hd.route_rule_set_v6 = Len(c.v6_addr)
         /\ family = "v4" => Len(Unused(rs2, NoRoute)) >= Len(Unused(rs, NoRoute)) - good
  <1> DEFINE hs == Unused(rs, NoRoute)
             n == HandlesTaken(family, good)
             addr(k) == IF family = "v4" THEN c.v4_addr ELSE c.v6_addr[c.route_rule_set_v6 + k]
  <1>1. /\ hs \in Seq(RouteHdls) /\ Len(hs) = Cardinality(Free(rs, NoRoute))
        /\ \A k \in 1..Len(hs) : rs[hs[k]] = NoRoute
        /\ \A k, l \in 1..Len(hs) : hs[k] = hs[l] => k = l
    <2>1. MaxRoutes \in Nat BY ClientsAssumption
    <2>2. DOMAIN rs = 1..MaxRoutes BY DEF Rules, RouteHdls
    <2>3. QED BY <2>1, <2>2, UnusedFacts DEF RouteHdls
  <1> HIDE DEF hs
  <1>t. /\ c.mac \in Macs /\ c.power_save_set \in BOOLEAN /\ c.v6_addr \in Seq(V6)
        /\ Len(c.v6_addr) \in Nat /\ c.route_rule_set_v6 \in Nat /\ c.rt_hdl_v6 \in Seq(RouteHdls)
        /\ c.route_rule_set_v6 <= Len(c.v6_addr) /\ Len(c.rt_hdl_v6) = c.route_rule_set_v6
        /\ Len(c.v6_addr) <= MaxV6
    BY DEF Clients, RowRight
  <1>2. /\ n \in Nat /\ n <= Len(hs)
        /\ family = "v4" => n = good /\ n \in {0, 1}
        /\ family = "v4" /\ n = 1 => c.ipv4_set /\ ~c.route_rule_set_v4 /\ ~c.power_save_set
        /\ family = "v6" => c.route_rule_set_v6 + n <= Len(c.v6_addr)
        /\ good = 0 => n = 0
        /\ family = "v6" /\ good = Calls(c, family) /\ good # 0 =>
             n = Len(c.v6_addr) - c.route_rule_set_v6
        /\ good # 0 => ~c.power_save_set
    <2>1. n <= Len(hs) BY DEF hs
    <2>2. CASE family = "v4" BY <2>1, <2>2, <1>t DEF Calls, HandlesTaken
    <2>3. CASE family = "v6"
      <3>1. n = (good + 1) \div 2 BY <2>3 DEF HandlesTaken
      <3>2. good \in Nat /\ (good # 0 => ~c.power_save_set)
        BY <2>3, <1>t DEF Calls
      <3>3. good <= 2 * (Len(c.v6_addr) - c.route_rule_set_v6)
        BY <2>3, <1>t DEF Calls
      <3>4. good = Calls(c, family) /\ good # 0 => good = 2 * (Len(c.v6_addr) - c.route_rule_set_v6)
        BY <2>3, <1>t DEF Calls
      <3> DEFINE x == Len(c.v6_addr) - c.route_rule_set_v6
      <3>5. x \in Nat BY <1>t
      <3>6. good <= 2 * x /\ (good = Calls(c, family) /\ good # 0 => good = 2 * x)
        BY <3>3, <3>4
      <3> HIDE DEF x
      <3>7. /\ n \in Nat /\ n <= x /\ (good = 0 => n = 0)
            /\ good = Calls(c, family) /\ good # 0 => n = x
        BY <3>1, <3>2, <3>5, <3>6, HalfFacts
      <3> HIDE DEF n
      <3>8. QED BY <2>1, <2>3, <3>2, <3>7, <1>t DEF x
    <2>4. QED BY <2>2, <2>3
  <1>3. \A k \in 1..n : addr(k) \in V4 \cup V6
    <2>1. TAKE k \in 1..n
    <2>2. CASE family = "v4" BY <2>2, <1>2 DEF RowRight
    <2>3. CASE family = "v6"
      <3>1. c.route_rule_set_v6 + k \in 1..Len(c.v6_addr)
        <4>1. n \in Nat /\ c.route_rule_set_v6 + n <= Len(c.v6_addr) BY <1>2, <2>3
        <4> HIDE DEF n
        <4>2. QED BY <1>t, <4>1
      <3>2. QED BY ONLY <3>1, <2>3, <1>t
    <2>4. QED BY <2>2, <2>3
  <1> HIDE DEF n
  <1>4. rs2 = [h \in RouteHdls |-> IF \E k \in 1..n : hs[k] = h
                                   THEN [mac |-> c.mac, addr |-> addr(CHOOSE k \in 1..n : hs[k] = h)]
                                   ELSE rs[h]]
    BY DEF RoutesAfter, hs, n
  <1>5. ASSUME NEW k \in 1..n
        PROVE  /\ hs[k] \in RouteHdls /\ rs[hs[k]] = NoRoute
               /\ rs2[hs[k]] = [mac |-> c.mac, addr |-> addr(k)]
    <2>1. k \in 1..Len(hs) BY <1>1, <1>2
    <2>2. hs[k] \in RouteHdls /\ rs[hs[k]] = NoRoute BY <2>1, <1>1
    <2>3. \A l \in 1..n : hs[l] = hs[k] => l = k BY <2>1, <1>1, <1>2
    <2>4. (CHOOSE l \in 1..n : hs[l] = hs[k]) = k BY <2>3, Zenon
    <2>5. rs2[hs[k]] = [mac |-> c.mac, addr |-> addr(CHOOSE l \in 1..n : hs[l] = hs[k])]
      BY <1>4, <2>2, Zenon
    <2>6. QED BY <2>2, <2>4, <2>5, Zenon
  <1>6. ASSUME NEW h \in RouteHdls, \A k \in 1..n : hs[k] # h PROVE rs2[h] = rs[h]
    BY <1>4, <1>6, Zenon
  <1> HIDE DEF addr
  <1>7. rs2 \in Rules
    <2>1. DOMAIN rs2 = RouteHdls /\ rs2 = [h \in RouteHdls |-> rs2[h]] BY <1>4, Zenon
    <2>2. ASSUME NEW h \in RouteHdls PROVE rs2[h] \in [mac : Macs, addr : V4 \cup V6] \cup {NoRoute}
      <3>1. CASE \E k \in 1..n : hs[k] = h
        <4>1. PICK k \in 1..n : hs[k] = h BY <3>1
        <4>2. addr(k) \in V4 \cup V6 BY <1>3
        <4>3. rs2[h] = [mac |-> c.mac, addr |-> addr(k)] BY <4>1, <1>5
        <4>4. QED BY <4>2, <4>3, <1>t
      <3>2. CASE \A k \in 1..n : hs[k] # h BY <3>2, <1>6 DEF Rules
      <3>3. QED BY <3>1, <3>2
    <2>3. QED BY <2>1, <2>2 DEF Rules
  <1>8. \A h \in RouteHdls : rs2[h] # rs[h] => rs[h] = NoRoute /\ \E k \in 1..n : hs[k] = h
    BY <1>5, <1>6
  <1>9. \A h \in RoutesOf(c) : h \in RouteHdls /\ rs2[h] = rs[h]
    BY <1>8, RoutesOfType
  <1>10. OwnRoutes(c, rs2)
    <2>1. c.route_rule_set_v4 => c.rt_hdl_v4 \in RoutesOf(c) BY DEF RoutesOf, HandlesV4
    <2>2. \A k \in 1..c.route_rule_set_v6 : c.rt_hdl_v6[k] \in RoutesOf(c) BY DEF RoutesOf, HandlesV6
    <2>3. QED BY <2>1, <2>2, <1>9 DEF OwnRoutes
  <1>11. family = "v4" => Len(Unused(rs2, NoRoute)) >= Len(hs) - good
    <2> HAVE family = "v4"
    <2>1. MaxRoutes \in Nat /\ DOMAIN rs2 = 1..MaxRoutes /\ DOMAIN rs = 1..MaxRoutes
      BY <1>7, ClientsAssumption DEF Rules, RouteHdls
    <2>2. Len(Unused(rs2, NoRoute)) = Cardinality(Free(rs2, NoRoute)) BY <2>1, UnusedFacts
    <2>3. IsFiniteSet(Free(rs, NoRoute)) /\ IsFiniteSet(Free(rs2, NoRoute))
      <3>1. IsFiniteSet(1..MaxRoutes) BY <2>1, FS_Interval
      <3>2. Free(rs, NoRoute) \subseteq 1..MaxRoutes /\ Free(rs2, NoRoute) \subseteq 1..MaxRoutes
        BY <2>1 DEF Free
      <3>3. QED BY <3>1, <3>2, FS_Subset
    <2>4. Cardinality(Free(rs, NoRoute)) \in Nat /\ Cardinality(Free(rs2, NoRoute)) \in Nat
      BY <2>3, FS_CardinalityType
    <2>5. Free(rs, NoRoute) \ {hs[1]} \subseteq Free(rs2, NoRoute)
      BY <1>2, <1>6, <2>1 DEF Free, RouteHdls
    <2>6. good = 0 => Free(rs, NoRoute) \subseteq Free(rs2, NoRoute)
      BY <1>2, <1>6, <2>1 DEF Free, RouteHdls
    <2>7. CASE good = 0
      BY <2>6, <2>7, <2>2, <2>3, <2>4, <1>1, FS_Subset
    <2>8. CASE good = 1
      <3>1. Cardinality(Free(rs, NoRoute) \ {hs[1]}) >= Cardinality(Free(rs, NoRoute)) - 1
        <4> DEFINE S == Free(rs, NoRoute)
        <4> HIDE DEF S
        <4>1. IsFiniteSet(S) /\ Cardinality(S) \in Nat BY <2>3, <2>4 DEF S
        <4>2. Cardinality(S \ {hs[1]}) = IF hs[1] \in S THEN Cardinality(S) - 1 ELSE Cardinality(S)
          BY <4>1, FS_RemoveElement
        <4>3. Cardinality(S \ {hs[1]}) >= Cardinality(S) - 1 BY <4>1, <4>2
        <4>4. QED BY <4>3 DEF S
      <3>2. Cardinality(Free(rs, NoRoute) \ {hs[1]}) <= Cardinality(Free(rs2, NoRoute))
        BY <2>5, <2>3, FS_Subset
      <3>3. IsFiniteSet(Free(rs, NoRoute) \ {hs[1]}) BY <2>3, FS_RemoveElement
      <3>4. Cardinality(Free(rs, NoRoute) \ {hs[1]}) \in Nat BY <3>3, FS_CardinalityType
      <3>5. QED BY <3>1, <3>2, <3>4, <2>2, <2>4, <2>8, <1>1
    <2>9. QED BY <2>7, <2>8, <1>2
  <1>12. CASE good < Calls(c, family) \/ good = 0
    <2>1. hd = c BY <1>12 DEF ClientAfter
    <2>2. Rerouted(c, rs, hd, rs2) BY <2>1, <1>7, <1>8, <1>10 DEF Rerouted
    <2>3. ASSUME good = Calls(c, family) PROVE Complete(c, rs, hd, rs2)
      <3>1. n = 0 BY <2>3, <1>12, <1>2, <1>t DEF Calls
      <3>2. \A h \in RouteHdls : rs2[h] = rs[h] BY <3>1, <1>6
      <3>3. QED BY <3>2, <2>1 DEF Complete
    <2>4. ASSUME ~c.power_save_set, good = Calls(c, family)
          PROVE  /\ family = "v4" /\ c.ipv4_set => c.route_rule_set_v4
                 /\ family = "v6" => c.route_rule_set_v6 = Len(c.v6_addr)
      <3>1. Calls(c, family) = 0 BY <2>4, <1>12, <1>t DEF Calls
      <3>2. QED BY <3>1, <2>4, <1>t DEF Calls
    <2>5. QED BY <2>1, <2>2, <2>3, <2>4, <1>11 DEF SameHeaders, hs
  <1>13. CASE good = Calls(c, family) /\ good # 0 /\ family = "v4"
    <2>1. hd = [c EXCEPT !.route_rule_set_v4 = TRUE, !.rt_hdl_v4 = hs[1]]
      BY <1>13 DEF ClientAfter, hs
    <2>2. /\ n = 1 /\ good = 1 /\ c.ipv4_set /\ ~c.route_rule_set_v4 /\ ~c.power_save_set
          /\ hs[1] \in RouteHdls /\ rs[hs[1]] = NoRoute
          /\ rs2[hs[1]] = [mac |-> c.mac, addr |-> c.v4_addr]
      BY <1>13, <1>2, <1>5 DEF addr
    <2>3. hs[1] \in 0..MaxRoutes BY <2>2, ClientsAssumption DEF RouteHdls
    <2>4. /\ hd \in Clients /\ SameHeaders(c, hd) /\ hd.power_save_set = c.power_save_set
          /\ hd.v4_addr = c.v4_addr /\ hd.ipv4_set = c.ipv4_set /\ hd.v6_addr = c.v6_addr
          /\ hd.route_rule_set_v4 = TRUE /\ hd.rt_hdl_v4 = hs[1]
          /\ hd.route_rule_set_v6 = c.route_rule_set_v6 /\ hd.rt_hdl_v6 = c.rt_hdl_v6
      BY <2>1, <2>3 DEF Clients, SameHeaders
    <2>5. RoutesOf(hd) = RoutesOf(c) \cup {hs[1]}
      BY <2>2, <2>4 DEF RoutesOf, HandlesV4, HandlesV6
    <2>6. RowRight(hd) BY <2>2, <2>4 DEF RowRight, SameHeaders
    <2>7. OwnRoutes(hd, rs2) BY <2>2, <2>4, <1>10 DEF OwnRoutes, SameHeaders
    <2>8. Rerouted(c, rs, hd, rs2) BY <2>2, <2>4, <2>5, <2>6, <2>7, <1>7, <1>8 DEF Rerouted
    <2>9. Complete(c, rs, hd, rs2) BY <2>2, <2>5, <1>8 DEF Complete
    <2>10. QED BY <1>13, <2>2, <2>4, <2>8, <2>9, <1>11 DEF hs
  <1>14. CASE good = Calls(c, family) /\ good # 0 /\ family = "v6"
    <2> DEFINE old == c.rt_hdl_v6
               q == SubSeq(hs, 1, n)
               N == c.route_rule_set_v6 + n
    <2>1. hd = [c EXCEPT !.route_rule_set_v6 = N, !.rt_hdl_v6 = old \o q]
      BY <1>14 DEF ClientAfter, hs, n
    <2>2. N = Len(c.v6_addr) /\ ~c.power_save_set /\ N \in 0..MaxV6
      <3>1. n = Len(c.v6_addr) - c.route_rule_set_v6 /\ ~c.power_save_set BY <1>14, <1>2
      <3>2. MaxV6 \in Nat BY ClientsAssumption
      <3>3. QED BY <3>1, <3>2, <1>t
    <2>3. q \in Seq(RouteHdls) /\ Len(q) = n /\ \A k \in 1..n : q[k] = hs[k]
      BY <1>1, <1>2
    <2>4. /\ old \o q \in Seq(RouteHdls) /\ Len(old \o q) = N
          /\ \A k \in 1..c.route_rule_set_v6 : (old \o q)[k] = old[k]
          /\ \A k \in 1..n : (old \o q)[c.route_rule_set_v6 + k] = hs[k]
      <3> HIDE DEF q
      <3>1. old \in Seq(RouteHdls) /\ Len(old) = c.route_rule_set_v6 BY <1>t
      <3> HIDE DEF old
      <3>2. old \o q \in Seq(RouteHdls) /\ Len(old \o q) = Len(old) + Len(q) BY <2>3, <3>1
      <3>3. ASSUME NEW k \in 1..c.route_rule_set_v6 PROVE (old \o q)[k] = old[k]
        BY <2>3, <3>1, <1>t
      <3>4. ASSUME NEW k \in 1..n PROVE (old \o q)[c.route_rule_set_v6 + k] = hs[k]
        <4>1. c.route_rule_set_v6 + k \in 1..(Len(old) + Len(q))
          BY <2>3, <3>1, <1>2, <1>t
        <4> DEFINE p == c.route_rule_set_v6 + k
        <4>0. k \in Nat /\ k > 0 /\ c.route_rule_set_v6 \in Nat BY <1>2, <1>t
        <4>2. p \in 1..(Len(old) + Len(q)) /\ p > Len(old) /\ p - Len(old) = k
          BY ONLY <3>1, <4>0, <4>1
        <4> HIDE DEF p
        <4>3. (old \o q)[p] = q[p - Len(old)] BY <2>3, <3>1, <4>2
        <4>4. QED BY <4>2, <4>3, <2>3 DEF p
      <3>5. QED BY <3>1, <3>2, <3>3, <3>4, <2>3
    <2> DEFINE u == old \o q
    <2> HIDE DEF u, q
    <2>5. /\ hd \in Clients /\ SameHeaders(c, hd) /\ hd.power_save_set = c.power_save_set
          /\ hd.v4_addr = c.v4_addr /\ hd.ipv4_set = c.ipv4_set /\ hd.v6_addr = c.v6_addr
          /\ hd.route_rule_set_v4 = c.route_rule_set_v4 /\ hd.rt_hdl_v4 = c.rt_hdl_v4
          /\ hd.route_rule_set_v6 = N /\ hd.rt_hdl_v6 = u
      <3>1. hd = [c EXCEPT !.route_rule_set_v6 = N, !.rt_hdl_v6 = u] /\ u \in Seq(RouteHdls)
        BY <2>1, <2>4 DEF u
      <3> HIDE DEF N
      <3>2. QED BY <3>1, <2>2 DEF Clients, SameHeaders
    <2>6. \A k \in 1..N : \/ k \in 1..c.route_rule_set_v6 /\ u[k] = c.rt_hdl_v6[k]
                          \/ \E l \in 1..n : k = c.route_rule_set_v6 + l /\ u[k] = hs[l]
      <3>1. TAKE k \in 1..N
      <3>2. CASE k <= c.route_rule_set_v6 BY <3>2, <2>4, <1>t DEF u
      <3>3. CASE k > c.route_rule_set_v6
        <4>1. k - c.route_rule_set_v6 \in 1..n BY <3>3, <1>2, <1>t
        <4>2. k = c.route_rule_set_v6 + (k - c.route_rule_set_v6) BY <1>t
        <4>3. u[k] = hs[k - c.route_rule_set_v6] BY <4>1, <4>2, <2>4 DEF u
        <4>4. QED BY <4>1, <4>2, <4>3
      <3>4. QED BY <3>2, <3>3, <1>t
    <2>7. RoutesOf(c) \subseteq RoutesOf(hd)
      <3>1. \A k \in 1..c.route_rule_set_v6 : k \in 1..N /\ c.rt_hdl_v6[k] = u[k]
        BY <2>4, <1>t, <1>2 DEF u
      <3>2. QED BY <3>1, <2>5 DEF RoutesOf, HandlesV4, HandlesV6
    <2>8. \A k \in 1..n : hs[k] \in RoutesOf(hd)
      <3>1. \A k \in 1..n : c.route_rule_set_v6 + k \in 1..N BY <1>t, <1>2
      <3>3. \A k \in 1..n : hs[k] = u[c.route_rule_set_v6 + k] BY <2>4 DEF u
      <3>4. QED BY <3>1, <3>3, <2>5 DEF RoutesOf, HandlesV6
    <2>9. \A h \in RoutesOf(hd) : h \in RoutesOf(c) \/ \E k \in 1..n : h = hs[k]
      BY <2>5, <2>6 DEF RoutesOf, HandlesV4, HandlesV6
    <2>10. RowRight(hd)
      <3>1. Len(u) = N BY <2>4 DEF u
      <3>2. QED BY <3>1, <2>2, <2>5, <1>t DEF RowRight, SameHeaders
    <2>11. OwnRoutes(hd, rs2)
      <3>1. ASSUME NEW k \in 1..N PROVE rs2[u[k]] = [mac |-> c.mac, addr |-> c.v6_addr[k]]
        <4>1. CASE k \in 1..c.route_rule_set_v6 /\ u[k] = c.rt_hdl_v6[k]
          BY <4>1, <1>10 DEF OwnRoutes
        <4>2. CASE \E l \in 1..n : k = c.route_rule_set_v6 + l /\ u[k] = hs[l]
          BY <4>2, <1>5, <1>14 DEF addr
        <4>3. QED BY <4>1, <4>2, <2>6
      <3>2. QED BY <3>1, <2>5, <1>10 DEF OwnRoutes, SameHeaders
    <2>12. Rerouted(c, rs, hd, rs2)
      <3>0. \A k \in 1..n : rs[hs[k]] = NoRoute BY <1>5
      <3>1. \A h \in RoutesOf(hd) : h \in RoutesOf(c) \/ rs[h] = NoRoute BY ONLY <3>0, <2>9
      <3>2. \A h \in RouteHdls : rs2[h] # rs[h] => rs[h] = NoRoute \/ h \in RoutesOf(c) BY <1>8
      <3>3. hd \in Clients BY <2>5
      <3>4. QED BY <3>1, <3>2, <3>3, <2>10, <2>11, <1>7 DEF Rerouted
    <2>13. Complete(c, rs, hd, rs2) BY <2>7, <2>8, <1>8, <1>9 DEF Complete
    <2>14. QED BY <1>14, <2>2, <2>5, <2>12, <2>13
  <1>15. QED BY <1>12, <1>13, <1>14, <1>t DEF Calls

\* The flag of power save is nobody's business here.
LEMMA FlagOfRow ==
  ASSUME NEW c \in Clients, NEW b \in BOOLEAN, NEW hd, hd = [c EXCEPT !.power_save_set = b]
  PROVE  /\ hd \in Clients /\ SameHeaders(c, hd) /\ RoutesOf(hd) = RoutesOf(c)
         /\ hd.power_save_set = b
         /\ hd.v4_addr = c.v4_addr /\ hd.ipv4_set = c.ipv4_set /\ hd.v6_addr = c.v6_addr
         /\ hd.route_rule_set_v4 = c.route_rule_set_v4 /\ hd.route_rule_set_v6 = c.route_rule_set_v6
         /\ RowRight(c) => RowRight(hd)
         /\ \A rs : OwnRoutes(c, rs) => OwnRoutes(hd, rs)
  <1>1. /\ hd \in Clients /\ SameHeaders(c, hd) /\ hd.power_save_set = b
        /\ hd.v4_addr = c.v4_addr /\ hd.ipv4_set = c.ipv4_set /\ hd.v6_addr = c.v6_addr
        /\ hd.route_rule_set_v4 = c.route_rule_set_v4 /\ hd.route_rule_set_v6 = c.route_rule_set_v6
        /\ hd.rt_hdl_v4 = c.rt_hdl_v4 /\ hd.rt_hdl_v6 = c.rt_hdl_v6
    BY DEF Clients, SameHeaders
  <1>2. RoutesOf(hd) = RoutesOf(c) BY <1>1 DEF RoutesOf, HandlesV4, HandlesV6
  <1>3. RowRight(c) => RowRight(hd) BY <1>1 DEF RowRight, SameHeaders
  <1>4. \A rs : OwnRoutes(c, rs) => OwnRoutes(hd, rs) BY <1>1 DEF OwnRoutes, SameHeaders
  <1>5. QED BY <1>1, <1>2, <1>3, <1>4

LEMMA SameHeadersOf ==
  ASSUME NEW c, NEW d, SameHeaders(c, d)
  PROVE  HeadersOf(d) = HeadersOf(c) /\ \A hs : OwnHeaders(c, hs) => OwnHeaders(d, hs)
  BY DEF SameHeaders, HeadersOf, OwnHeaders

LEMMA SameTrans ==
  ASSUME NEW c, NEW d, NEW e, SameHeaders(c, d), SameHeaders(d, e)
  PROVE  SameHeaders(c, e)
  BY DEF SameHeaders

-----------------------------------------------------------------------------
(* The table, the rules and the headers.                                   *)

Headers == [HeaderHdls -> Macs \cup {NoMac}]

RowFits(c, rs, hs) == RowRight(c) /\ OwnRoutes(c, rs) /\ OwnHeaders(c, hs)

TableRight(cs, rs, hs) ==
  /\ cs \in Seq(Clients) /\ rs \in Rules /\ hs \in Headers
  /\ \A i \in 1..Len(cs) : RowFits(cs[i], rs, hs)
  /\ \A i, j \in 1..Len(cs) : i # j => Apart(cs[i], cs[j])

RoutesListed(cs, rs) ==
  \A h \in RouteHdls : rs[h] # NoRoute => \E i \in 1..Len(cs) : h \in RoutesOf(cs[i])

LEMMA TableFacts ==
  ASSUME IndInv
  PROVE  /\ TableRight(client, routes, headers)
         /\ fails = 0 => RoutesListed(client, routes) /\ HeadersListed(client, headers)
  <1>1. /\ client \in Seq(Clients) /\ routes \in Rules /\ headers \in Headers
    BY DEF IndInv, HandlesKept, TypeOK, Rules, Headers
  <1>2. \A i \in 1..Len(client) : RowFits(client[i], routes, headers)
    BY DEF IndInv, HandlesKept, ClientHandlesOwn, RowsRight, RowFits, OwnRoutes, OwnHeaders, num
  <1>3. \A i, j \in 1..Len(client) : i # j => Apart(client[i], client[j])
    BY DEF IndInv, RowsApart, num
  <1>4. fails = 0 => RoutesListed(client, routes) /\ HeadersListed(client, headers)
    BY DEF IndInv, HandlesKept, NothingLeftInDriver, HeadersHeld, RoutesListed, RoutesOf, num
  <1>5. QED BY <1>1, <1>2, <1>3, <1>4 DEF TableRight

LEMMA ReplacedRow ==
  ASSUME NEW cs, NEW rs, NEW hs, TableRight(cs, rs, hs), NEW i \in 1..Len(cs),
         NEW d, NEW rs2, Rerouted(cs[i], rs, d, rs2), SameHeaders(cs[i], d)
  PROVE  /\ TableRight([cs EXCEPT ![i] = d], rs2, hs)
         /\ Complete(cs[i], rs, d, rs2) /\ RoutesListed(cs, rs) => RoutesListed([cs EXCEPT ![i] = d], rs2)
         /\ HeadersListed(cs, hs) => HeadersListed([cs EXCEPT ![i] = d], hs)
  <1> DEFINE ds == [cs EXCEPT ![i] = d]
  <1>1. /\ cs \in Seq(Clients) /\ rs \in Rules /\ hs \in Headers /\ d \in Clients /\ rs2 \in Rules
    BY DEF TableRight, Rerouted
  <1>2. /\ ds \in Seq(Clients) /\ Len(ds) = Len(cs) /\ ds[i] = d
        /\ \A j \in 1..Len(cs) : j # i => ds[j] = cs[j]
    BY <1>1
  <1> HIDE DEF ds
  <1>3. ASSUME NEW j \in 1..Len(cs), j # i
        PROVE  RowFits(cs[j], rs2, hs) /\ Apart(cs[j], d) /\ Apart(d, cs[j])
    <2>1. cs[j] \in Clients /\ RowRight(cs[j]) /\ OwnRoutes(cs[j], rs) /\ OwnHeaders(cs[j], hs)
      BY <1>1 DEF TableRight, RowFits
    <2>2. \A h \in RoutesOf(cs[j]) : h \in RouteHdls /\ rs[h] # NoRoute BY <1>1, <2>1, RoutesOfType
    <2>3. Apart(cs[j], cs[i]) BY <1>3 DEF TableRight
    <2>4. \A h \in RoutesOf(cs[j]) : rs2[h] = rs[h] BY <2>2, <2>3 DEF Apart, Rerouted
    <2>5. OwnRoutes(cs[j], rs2)
      <3>1. cs[j].route_rule_set_v4 => cs[j].rt_hdl_v4 \in RoutesOf(cs[j]) BY DEF RoutesOf, HandlesV4
      <3>2. \A k \in 1..cs[j].route_rule_set_v6 : cs[j].rt_hdl_v6[k] \in RoutesOf(cs[j])
        BY DEF RoutesOf, HandlesV6
      <3>3. QED BY <3>1, <3>2, <2>1, <2>4 DEF OwnRoutes
    <2>6. RoutesOf(cs[j]) \cap RoutesOf(d) = {} BY <2>2, <2>3 DEF Apart, Rerouted
    <2>7. HeadersOf(cs[j]) \cap HeadersOf(d) = {} BY <2>3, SameHeadersOf DEF Apart
    <2>8. QED BY <2>1, <2>5, <2>6, <2>7 DEF RowFits, Apart
  <1>4. RowFits(d, rs2, hs)
    BY SameHeadersOf DEF TableRight, RowFits, Rerouted
  <1>5. TableRight(ds, rs2, hs)
    <2>1. \A j \in 1..Len(ds) : RowFits(ds[j], rs2, hs) BY <1>2, <1>3, <1>4
    <2>2. \A j, k \in 1..Len(ds) : j # k => Apart(ds[j], ds[k])
      <3>1. TAKE j, k \in 1..Len(ds)
      <3>2. CASE j = i BY <3>2, <1>2, <1>3
      <3>3. CASE k = i BY <3>3, <1>2, <1>3
      <3>4. CASE j # i /\ k # i BY <3>4, <1>2 DEF TableRight
      <3>5. QED BY <3>2, <3>3, <3>4
    <2>3. QED BY <2>1, <2>2, <1>1, <1>2 DEF TableRight
  <1>6. ASSUME Complete(cs[i], rs, d, rs2), RoutesListed(cs, rs) PROVE RoutesListed(ds, rs2)
    <2>1. SUFFICES ASSUME NEW h \in RouteHdls, rs2[h] # NoRoute
                   PROVE  \E j \in 1..Len(ds) : h \in RoutesOf(ds[j])
      BY DEF RoutesListed
    <2>2. CASE h \in RoutesOf(d) BY <2>2, <1>2
    <2>3. CASE rs[h] # NoRoute /\ h \notin RoutesOf(cs[i])
      <3>1. PICK j \in 1..Len(cs) : h \in RoutesOf(cs[j]) BY <2>3, <1>6 DEF RoutesListed
      <3>2. QED BY <3>1, <2>3, <1>2
    <2>4. QED BY <2>1, <2>2, <2>3, <1>6 DEF Complete
  <1>7. ASSUME HeadersListed(cs, hs) PROVE HeadersListed(ds, hs)
    <2>1. HeadersOf(d) = HeadersOf(cs[i]) BY SameHeadersOf
    <2>2. \A j \in 1..Len(cs) : HeadersOf(ds[j]) = HeadersOf(cs[j]) BY <2>1, <1>2
    <2>3. QED BY <2>2, <1>2, <1>7 DEF HeadersListed
  <1>8. QED BY <1>5, <1>6, <1>7 DEF ds

LEMMA CountedFacts ==
  ASSUME fails \in 0..MaxFails, NEW good \in Nat, NEW calls \in Nat, Counted(good, calls)
  PROVE  /\ fails' \in 0..MaxFails
         /\ fails' = 0 => fails = 0 /\ good >= calls
  BY ClientsAssumption DEF Counted

LEMMA CallsType ==
  ASSUME NEW c \in Clients, RowRight(c), NEW family
  PROVE  Calls(c, family) \in Nat
  BY DEF Calls, Clients, RowRight

\* An address for the element at i, with all that follows: what the event leaves behind.
AddrLeaves(cs, hs, i, a, d) ==
  /\ client' = [cs EXCEPT ![i] = d] /\ SameHeaders(cs[i], d) /\ d \in Clients
  /\ d.power_save_set = cs[i].power_save_set
  /\ a \in V4 => d.v4_addr = a /\ d.ipv4_set = TRUE
  /\ a \notin V4 => d.v4_addr = cs[i].v4_addr /\ d.ipv4_set = cs[i].ipv4_set
  /\ TableRight(client', routes', hs) /\ fails' \in 0..MaxFails
  /\ fails' = 0 => /\ fails = 0
                   /\ RoutesListed(cs, routes) => RoutesListed(client', routes')
                   /\ HeadersListed(cs, hs) => HeadersListed(client', hs)
                   /\ Served(cs[i]) => Served(d)

LEMMA AddrEventFacts ==
  ASSUME NEW cs, NEW hs, TableRight(cs, routes, hs), NEW i \in 1..Len(cs), NEW a \in V4 \cup V6,
         Accepts(cs[i], a), fails \in 0..MaxFails, AddrEvent(cs, i, a)
  PROVE  \E d : AddrLeaves(cs, hs, i, a, d)
  <1> DEFINE c == cs[i]
             c1 == AddrAdded(c, a)
             family == IF a \in V4 THEN "v4" ELSE "v6"
             rs == IF a \in V4 THEN Unroute(HandlesV4(c), routes) ELSE routes
  <1>1. PICK good \in 0..Calls(c1, family) :
          /\ HandlesTaken(family, good) <= Len(Unused(rs, NoRoute))
          /\ Counted(good, Calls(c1, family))
          /\ client' = [cs EXCEPT ![i] = ClientAfter(c1, family, rs, good)]
          /\ routes' = RoutesAfter(c1, family, rs, good)
    BY DEF AddrEvent
  <1>2. c \in Clients /\ RowRight(c) /\ routes \in Rules /\ OwnRoutes(c, routes)
    BY DEF TableRight, RowFits
  <1>0. /\ c1 = AddrAdded(c, a) /\ Accepts(c, a)
        /\ rs = IF a \in V4 THEN Unroute(HandlesV4(c), routes) ELSE routes
    OBVIOUS
  <1> HIDE DEF c1, rs, c, family
  <1>a. Addressed(c, routes, a, c1, rs) BY <1>0, <1>2, AddressedRow
  <1>3. /\ Rerouted(c, routes, c1, rs) /\ Complete(c, routes, c1, rs) /\ SameHeaders(c, c1)
        /\ c1.power_save_set = c.power_save_set
        /\ a \in V4 => /\ c1.v4_addr = a /\ c1.ipv4_set = TRUE /\ c1.route_rule_set_v4 = FALSE
                       /\ c1.route_rule_set_v6 = c.route_rule_set_v6 /\ c1.v6_addr = c.v6_addr
        /\ a \notin V4 => /\ c1.v4_addr = c.v4_addr /\ c1.ipv4_set = c.ipv4_set
                          /\ c1.route_rule_set_v4 = c.route_rule_set_v4
                          /\ c1.route_rule_set_v6 = c.route_rule_set_v6
                          /\ Len(c1.v6_addr) = Len(c.v6_addr) + 1
    BY <1>a DEF Addressed
  <1> DEFINE d == ClientAfter(c1, family, rs, good)
             rs2 == RoutesAfter(c1, family, rs, good)
  <1>4. c1 \in Clients /\ RowRight(c1) /\ rs \in Rules /\ OwnRoutes(c1, rs) BY <1>3 DEF Rerouted
  <1>5. family \in {"v4", "v6"} /\ (a \in V4 <=> family = "v4") BY DEF family
  <1>6. /\ Rerouted(c1, rs, d, rs2) /\ (good = Calls(c1, family) => Complete(c1, rs, d, rs2))
        /\ SameHeaders(c1, d) /\ d.power_save_set = c1.power_save_set
        /\ d.v4_addr = c1.v4_addr /\ d.ipv4_set = c1.ipv4_set /\ d.v6_addr = c1.v6_addr
        /\ family = "v4" => d.route_rule_set_v6 = c1.route_rule_set_v6
        /\ family = "v6" => d.route_rule_set_v4 = c1.route_rule_set_v4
        /\ c1.power_save_set => /\ d.route_rule_set_v4 = c1.route_rule_set_v4
                               /\ d.route_rule_set_v6 = c1.route_rule_set_v6
        /\ ~c1.power_save_set /\ good = Calls(c1, family) =>
             /\ family = "v4" /\ c1.ipv4_set => d.route_rule_set_v4
             /\ family = "v6" => d.route_rule_set_v6 = Len(c1.v6_addr)
    BY <1>1, <1>4, <1>5, RoutedRow
  <1> HIDE DEF d, rs2
  <1>7. /\ Rerouted(c, routes, d, rs2) /\ SameHeaders(c, d)
        /\ good = Calls(c1, family) => Complete(c, routes, d, rs2)
    BY <1>2, <1>3, <1>6, ReroutedTrans, SameTrans
  <1>8. /\ fails' \in 0..MaxFails
        /\ fails' = 0 => fails = 0 /\ good = Calls(c1, family)
    <2>1. Calls(c1, family) \in Nat BY <1>4, CallsType
    <2>2. good \in Nat /\ good <= Calls(c1, family) BY <2>1
    <2>3. Counted(good, Calls(c1, family)) BY <1>1
    <2>4. QED BY <2>1, <2>2, <2>3, CountedFacts
  <1>9. client' = [cs EXCEPT ![i] = d] /\ routes' = rs2 BY <1>1 DEF d, rs2
  <1>10. /\ TableRight(client', routes', hs)
         /\ Complete(c, routes, d, rs2) /\ RoutesListed(cs, routes) => RoutesListed(client', routes')
         /\ HeadersListed(cs, hs) => HeadersListed(client', hs)
    BY <1>7, <1>9, ReplacedRow DEF c
  <1>11. ASSUME fails' = 0, Served(c) PROVE Served(d)
    <2>1. good = Calls(c1, family) BY <1>8, <1>11
    <2>2. c.power_save_set \in BOOLEAN BY <1>2 DEF Clients
    <2>3. CASE c.power_save_set BY <2>3, <1>3, <1>6, <1>11, <1>5 DEF Served
    <2>4. CASE ~c.power_save_set BY <2>1, <2>4, <1>3, <1>6, <1>11, <1>5 DEF Served
    <2>5. QED BY <2>2, <2>3, <2>4
  <1>12. d \in Clients BY <1>7 DEF Rerouted
  <1>13. /\ d.power_save_set = c.power_save_set
         /\ a \in V4 => d.v4_addr = a /\ d.ipv4_set = TRUE
         /\ a \notin V4 => d.v4_addr = c.v4_addr /\ d.ipv4_set = c.ipv4_set
    BY <1>3, <1>6
  <1>14. AddrLeaves(cs, hs, i, a, d)
    BY <1>7, <1>8, <1>9, <1>10, <1>11, <1>12, <1>13 DEF AddrLeaves, c
  <1>15. QED BY <1>14

-----------------------------------------------------------------------------
(* The headers.                                                            *)

\* New headers go to free handles; those of the table are not free.
LEMMA HeadersAddedFacts ==
  ASSUME TableRight(client, routes, headers), NEW m \in Macs, NEW good \in 0..2,
         good <= Len(Unused(headers, NoMac))
  PROVE  /\ TableRight(client, routes, HeadersAdded(m, good))
         /\ \A h \in HeaderHdls : headers[h] # NoMac => HeadersAdded(m, good)[h] = headers[h]
         /\ \A h \in HeaderHdls : HeadersAdded(m, good)[h] # headers[h] =>
              \E k \in 1..good : Unused(headers, NoMac)[k] = h
         /\ \A k \in 1..good : /\ Unused(headers, NoMac)[k] \in HeaderHdls
                               /\ headers[Unused(headers, NoMac)[k]] = NoMac
                               /\ HeadersAdded(m, good)[Unused(headers, NoMac)[k]] = m
         /\ good = 2 => Unused(headers, NoMac)[1] # Unused(headers, NoMac)[2]
  <1> DEFINE hs == Unused(headers, NoMac)
             hs2 == HeadersAdded(m, good)
  <1>1. headers \in Headers BY DEF TableRight
  <1>2. /\ hs \in Seq(HeaderHdls) /\ \A k \in 1..Len(hs) : headers[hs[k]] = NoMac
        /\ \A k, l \in 1..Len(hs) : hs[k] = hs[l] => k = l
    <2>1. MaxHeaders \in Nat BY ClientsAssumption
    <2>2. DOMAIN headers = 1..MaxHeaders BY <1>1 DEF Headers, HeaderHdls
    <2>3. QED BY <2>1, <2>2, UnusedFacts DEF HeaderHdls
  <1>3. hs2 = [h \in HeaderHdls |-> IF \E k \in 1..good : hs[k] = h THEN m ELSE headers[h]]
    BY DEF HeadersAdded
  <1>0. good <= Len(hs) OBVIOUS
  <1> HIDE DEF hs, hs2
  <1>4. \A k \in 1..good : k \in 1..Len(hs) /\ hs[k] \in HeaderHdls /\ headers[hs[k]] = NoMac
    BY <1>0, <1>2
  <1>5. \A h \in HeaderHdls : headers[h] # NoMac => hs2[h] = headers[h] BY <1>3, <1>4
  <1>6. \A h \in HeaderHdls : hs2[h] # headers[h] => \E k \in 1..good : hs[k] = h BY <1>3
  <1>7. \A k \in 1..good : hs2[hs[k]] = m BY <1>3, <1>4
  <1>8. good = 2 => hs[1] # hs[2] BY <1>0, <1>2
  <1>9. hs2 \in Headers BY <1>1, <1>3 DEF Headers
  <1>10. ASSUME NEW i \in 1..Len(client) PROVE RowFits(client[i], routes, hs2)
    <2>1. RowFits(client[i], routes, headers) /\ client[i] \in Clients BY DEF TableRight
    <2>2. /\ client[i].hdr_hdl_v4 \in HeaderHdls /\ client[i].hdr_hdl_v6 \in HeaderHdls
          /\ client[i].mac # NoMac
      BY <2>1, ClientsAssumption DEF Clients
    <2>3. QED BY <2>1, <2>2, <1>5 DEF RowFits, OwnHeaders
  <1>11. TableRight(client, routes, hs2) BY <1>9, <1>10 DEF TableRight
  <1>12. QED BY <1>4, <1>5, <1>6, <1>7, <1>8, <1>11 DEF hs, hs2

IsNew(c, m, h4, h6) ==
  /\ c \in Clients /\ RowRight(c) /\ RoutesOf(c) = {} /\ HeadersOf(c) = {h4, h6}
  /\ c.mac = m /\ c.power_save_set = FALSE /\ c.ipv4_set = FALSE /\ Served(c)
  /\ \A rs : OwnRoutes(c, rs)
  /\ \A hs : hs[h4] = m /\ hs[h6] = m => OwnHeaders(c, hs)
  /\ \A a \in V4 \cup V6 : Accepts(c, a)

LEMMA NewClientFacts ==
  ASSUME NEW m \in Macs, NEW h4 \in HeaderHdls, NEW h6 \in HeaderHdls, h4 # h6,
         NEW c, c = NewClient(m, h4, h6)
  PROVE  IsNew(c, m, h4, h6)
  <1>1. 0 \in 0..MaxV6 /\ 0 \in 0..MaxRoutes BY ClientsAssumption
  <1>2. c \in Clients BY <1>1 DEF Clients, NewClient
  <1>3. /\ c.mac = m /\ c.hdr_hdl_v4 = h4 /\ c.hdr_hdl_v6 = h6 /\ c.ipv4_header_set = TRUE
        /\ c.ipv6_header_set = TRUE /\ c.ipv4_set = FALSE /\ c.v6_addr = <<>>
        /\ c.route_rule_set_v4 = FALSE /\ c.route_rule_set_v6 = 0 /\ c.rt_hdl_v6 = <<>>
        /\ c.power_save_set = FALSE
    BY DEF NewClient
  <1>4. RowRight(c) BY <1>1, <1>3 DEF RowRight
  <1>5. RoutesOf(c) = {} BY <1>3 DEF RoutesOf, HandlesV4, HandlesV6
  <1>6. HeadersOf(c) = {h4, h6} BY <1>3 DEF HeadersOf
  <1>7. Served(c) BY <1>3 DEF Served
  <1>8. \A rs : OwnRoutes(c, rs) BY <1>3 DEF OwnRoutes
  <1>9. \A hs : hs[h4] = m /\ hs[h6] = m => OwnHeaders(c, hs) BY <1>3 DEF OwnHeaders
  <1>10. \A a \in V4 \cup V6 : Accepts(c, a)
    <2>1. 0 < MaxV6 /\ Len(c.v6_addr) = 0 BY <1>3, ClientsAssumption
    <2>2. ToSet(c.v6_addr) = {} BY <1>3 DEF ToSet
    <2>3. QED BY <2>1, <2>2, <1>3 DEF Accepts
  <1>11. QED BY <1>2, <1>3, <1>4, <1>5, <1>6, <1>7, <1>8, <1>9, <1>10 DEF IsNew

Appended(cs, c, m) ==
  /\ TableRight(cs, routes, HeadersAdded(m, 2))
  /\ Len(cs) = num + 1 /\ num + 1 \in 1..Len(cs) /\ cs[num + 1] = c
  /\ \A i \in 1..num : cs[i] = client[i]
  /\ c \in Clients /\ c.mac = m /\ c.power_save_set = FALSE /\ c.ipv4_set = FALSE /\ Served(c)
  /\ \A a \in V4 \cup V6 : Accepts(c, a)
  /\ RoutesListed(client, routes) => RoutesListed(cs, routes)
  /\ HeadersListed(client, headers) => HeadersListed(cs, HeadersAdded(m, 2))

\* A client that is new, with both its headers.
LEMMA AppendedRow ==
  ASSUME TableRight(client, routes, headers), NEW m \in Macs, 2 <= Len(Unused(headers, NoMac)),
         NEW c, c = NewClient(m, Unused(headers, NoMac)[1], Unused(headers, NoMac)[2]),
         NEW cs, cs = Append(client, c)
  PROVE  Appended(cs, c, m)
  <1> DEFINE h4 == Unused(headers, NoMac)[1]
             h6 == Unused(headers, NoMac)[2]
             hs2 == HeadersAdded(m, 2)
  <1>1. /\ TableRight(client, routes, hs2)
        /\ \A h \in HeaderHdls : headers[h] # NoMac => hs2[h] = headers[h]
        /\ \A h \in HeaderHdls : hs2[h] # headers[h] => h \in {h4, h6}
        /\ h4 \in HeaderHdls /\ h6 \in HeaderHdls /\ headers[h4] = NoMac /\ headers[h6] = NoMac
        /\ hs2[h4] = m /\ hs2[h6] = m /\ h4 # h6
    <2>1. 2 \in 0..2 /\ 1..2 = {1, 2} OBVIOUS
    <2> HIDE DEF hs2
    <2>2. /\ TableRight(client, routes, hs2)
          /\ \A h \in HeaderHdls : headers[h] # NoMac => hs2[h] = headers[h]
          /\ \A h \in HeaderHdls : hs2[h] # headers[h] =>
               \E k \in 1..2 : Unused(headers, NoMac)[k] = h
          /\ \A k \in 1..2 : /\ Unused(headers, NoMac)[k] \in HeaderHdls
                             /\ headers[Unused(headers, NoMac)[k]] = NoMac
                             /\ hs2[Unused(headers, NoMac)[k]] = m
          /\ h4 # h6
      BY <2>1, HeadersAddedFacts DEF hs2
    <2>3. QED BY <2>1, <2>2
  <1>2. c = NewClient(m, h4, h6) OBVIOUS
  <1> HIDE DEF h4, h6, hs2
  <1>3. /\ c \in Clients /\ RowRight(c) /\ RoutesOf(c) = {} /\ HeadersOf(c) = {h4, h6}
        /\ c.mac = m /\ c.power_save_set = FALSE /\ c.ipv4_set = FALSE /\ Served(c)
        /\ OwnRoutes(c, routes) /\ OwnHeaders(c, hs2)
        /\ \A a \in V4 \cup V6 : Accepts(c, a)
    <2>1. IsNew(c, m, h4, h6) BY <1>1, <1>2, NewClientFacts
    <2>2. QED BY <2>1, <1>1 DEF IsNew
  <1>4. client \in Seq(Clients) /\ num \in Nat BY DEF TableRight, num
  <1>5. /\ cs \in Seq(Clients) /\ Len(cs) = num + 1 /\ num + 1 \in 1..Len(cs) /\ cs[num + 1] = c
        /\ \A i \in 1..num : cs[i] = client[i] /\ i \in 1..Len(cs)
    BY <1>3, <1>4 DEF num
  <1>6. \A j \in 1..Len(cs) : j = num + 1 \/ j \in 1..num BY <1>4, <1>5
  <1>7. \A j \in 1..Len(cs) : RowFits(cs[j], routes, hs2)
    BY <1>1, <1>3, <1>5, <1>6 DEF RowFits, TableRight, num
  <1>8. ASSUME NEW j \in 1..num PROVE Apart(client[j], c) /\ Apart(c, client[j])
    <2>1. client[j] \in Clients /\ OwnHeaders(client[j], headers)
      BY <1>4 DEF TableRight, RowFits, num
    <2>2. client[j].mac # NoMac BY <2>1, ClientsAssumption DEF Clients
    <2>3. \A h \in HeadersOf(client[j]) : headers[h] # NoMac BY <2>1, <2>2 DEF OwnHeaders, HeadersOf
    <2>4. QED BY <2>3, <1>1, <1>3 DEF Apart
  <1>9. \A j, k \in 1..Len(cs) : j # k => Apart(cs[j], cs[k])
    <2>1. TAKE j, k \in 1..Len(cs)
    <2>2. CASE j \in 1..num /\ k \in 1..num BY <2>2, <1>5 DEF TableRight, num
    <2>3. CASE j = num + 1 /\ k \in 1..num BY <2>3, <1>5, <1>8
    <2>4. CASE j \in 1..num /\ k = num + 1 BY <2>4, <1>5, <1>8
    <2>5. QED BY <2>2, <2>3, <2>4, <1>6
  <1>10. TableRight(cs, routes, hs2) BY <1>1, <1>5, <1>7, <1>9 DEF TableRight
  <1>11. RoutesListed(client, routes) => RoutesListed(cs, routes)
    BY <1>5 DEF RoutesListed, num
  <1>12. ASSUME HeadersListed(client, headers) PROVE HeadersListed(cs, hs2)
    <2>1. SUFFICES ASSUME NEW h \in HeaderHdls, hs2[h] # NoMac
                   PROVE  \E j \in 1..Len(cs) : h \in HeadersOf(cs[j])
      BY DEF HeadersListed
    <2>2. CASE headers[h] = NoMac BY <2>1, <2>2, <1>1, <1>3, <1>5
    <2>3. CASE headers[h] # NoMac
      <3>1. PICK j \in 1..num : h \in HeadersOf(client[j]) BY <2>3, <1>12 DEF HeadersListed, num
      <3>2. QED BY <3>1, <1>5
    <2>4. QED BY <2>2, <2>3
  <1>13. QED BY <1>3, <1>5, <1>10, <1>11, <1>12 DEF hs2, Appended

\* The element at j was the one at Behind(j, i).
Behind(j, i) == IF j < i THEN j ELSE j + 1

MovedDown(cs, i) ==
  /\ \A j \in 1..(num - 1) : /\ cs[j].mac = client[Behind(j, i)].mac
                             /\ cs[j].ipv4_set = client[Behind(j, i)].ipv4_set
                             /\ cs[j].v4_addr = client[Behind(j, i)].v4_addr
  /\ \A j \in 1..(num - 1) : Behind(j, i) \in 1..num /\ Behind(j, i) # i
  /\ \A j, k \in 1..(num - 1) : Behind(j, i) = Behind(k, i) => j = k
  /\ \A k \in 1..num : k # i => \E j \in 1..(num - 1) : Behind(j, i) = k

\* A client that goes: its rules, its headers and its element.
LEMMA RemovedRow ==
  ASSUME TableRight(client, routes, headers), NEW i \in 1..num,
         NEW cs, cs = Removed(i), NEW rs, rs = UnrouteAll(client[i], routes),
         NEW hs, hs = WithoutHeaders(HeadersOf(client[i]))
  PROVE  /\ TableRight(cs, rs, hs) /\ Len(cs) = num - 1
         /\ MovedDown(cs, i)
         /\ i = num => \A j \in 1..(num - 1) : cs[j] = client[j]
         /\ RoutesListed(client, routes) => RoutesListed(cs, rs)
         /\ HeadersListed(client, headers) => HeadersListed(cs, hs)
  <1> DEFINE src(j) == IF j < i THEN j ELSE j + 1
  <1>1. client \in Seq(Clients) /\ routes \in Rules /\ headers \in Headers /\ num \in Nat
    BY DEF TableRight, num
  <1>2. /\ \A j \in 1..(num - 1) : src(j) \in 1..num /\ src(j) # i /\ j \in 1..num
        /\ \A j, k \in 1..(num - 1) : src(j) = src(k) => j = k
        /\ \A k \in 1..num : k # i => LET j == IF k < i THEN k ELSE k - 1 IN
                                     j \in 1..(num - 1) /\ src(j) = k
    BY <1>1
  <1>3. ASSUME NEW j \in 1..(num - 1)
        PROVE  /\ cs[j] \in Clients /\ SameHeaders(client[src(j)], cs[j])
               /\ RoutesOf(cs[j]) = RoutesOf(client[src(j)])
               /\ cs[j].v4_addr = client[src(j)].v4_addr /\ cs[j].ipv4_set = client[src(j)].ipv4_set
               /\ RowRight(client[src(j)]) => RowRight(cs[j])
               /\ \A ts : OwnRoutes(client[src(j)], ts) => OwnRoutes(cs[j], ts)
    <2>1. CASE j < i
      <3>1. cs[j] = client[j] /\ src(j) = j /\ client[j] \in Clients BY <1>1, <1>2, <2>1 DEF Removed, num
      <3>2. QED BY <3>1 DEF SameHeaders
    <2>2. CASE ~(j < i)
      <3>1. j + 1 \in 1..num /\ j \in 1..num /\ src(j) = j + 1 BY <1>1, <2>2
      <3>0. client[j + 1] \in Clients /\ client[j] \in Clients BY <1>1, <3>1 DEF num
      <3>2. client[j].power_save_set \in BOOLEAN BY <3>0 DEF Clients
      <3>3. cs[j] = [client[j + 1] EXCEPT !.power_save_set = client[j].power_save_set]
        BY <2>2 DEF Removed
      <3>4. QED BY <3>0, <3>1, <3>2, <3>3, FlagOfRow
    <2>3. QED BY <2>1, <2>2
  <1>4. cs \in Seq(Clients) /\ Len(cs) = num - 1
    <2>1. num - 1 \in Nat /\ DOMAIN cs = 1..(num - 1) BY <1>1 DEF Removed
    <2>2. cs = [j \in 1..(num - 1) |-> cs[j]] BY DEF Removed
    <2>3. cs \in [1..(num - 1) -> Clients] BY <2>1, <2>2, <1>3
    <2>4. QED BY <2>1, <2>3
  <1> HIDE DEF src
  <1>5. /\ \A h \in RouteHdls : rs[h] = IF h \in RoutesOf(client[i]) THEN NoRoute ELSE routes[h]
        /\ rs \in Rules
    BY <1>1 DEF UnrouteAll, Unroute, RoutesOf, Rules
  <1>6. /\ \A h \in HeaderHdls : hs[h] = IF h \in HeadersOf(client[i]) THEN NoMac ELSE headers[h]
        /\ hs \in Headers
    BY <1>1 DEF WithoutHeaders, Headers
  <1>7. ASSUME NEW k \in 1..num, k # i PROVE RowFits(client[k], rs, hs)
    <2>1. client[k] \in Clients /\ RowRight(client[k]) /\ OwnRoutes(client[k], routes) /\ OwnHeaders(client[k], headers)
      BY <1>1 DEF TableRight, RowFits, num
    <2>2. Apart(client[k], client[i]) BY <1>7 DEF TableRight, num
    <2>3. RoutesOf(client[k]) \subseteq RouteHdls BY <1>1, <2>1, RoutesOfType
    <2>4. \A h \in RoutesOf(client[k]) : rs[h] = routes[h] BY <2>2, <2>3, <1>5 DEF Apart
    <2>5. OwnRoutes(client[k], rs)
      <3>1. client[k].route_rule_set_v4 => client[k].rt_hdl_v4 \in RoutesOf(client[k]) BY DEF RoutesOf, HandlesV4
      <3>2. \A l \in 1..client[k].route_rule_set_v6 : client[k].rt_hdl_v6[l] \in RoutesOf(client[k])
        BY DEF RoutesOf, HandlesV6
      <3>3. QED BY <3>1, <3>2, <2>1, <2>4 DEF OwnRoutes
    <2>6. client[k].hdr_hdl_v4 \in HeaderHdls /\ client[k].hdr_hdl_v6 \in HeaderHdls BY <2>1 DEF Clients
    <2>7. /\ client[k].ipv4_header_set => client[k].hdr_hdl_v4 \in HeadersOf(client[k])
          /\ client[k].ipv6_header_set => client[k].hdr_hdl_v6 \in HeadersOf(client[k])
      BY DEF HeadersOf
    <2>8. OwnHeaders(client[k], hs) BY <2>1, <2>2, <2>6, <2>7, <1>6 DEF OwnHeaders, Apart
    <2>9. QED BY <2>1, <2>5, <2>8 DEF RowFits
  <1>8. \A j \in 1..(num - 1) : HeadersOf(cs[j]) = HeadersOf(client[src(j)]) BY <1>3, SameHeadersOf
  <1>9. ASSUME NEW j \in 1..(num - 1) PROVE RowFits(cs[j], rs, hs)
    <2>1. RowFits(client[src(j)], rs, hs) BY <1>2, <1>7
    <2>2. OwnHeaders(cs[j], hs) BY <2>1, <1>3, SameHeadersOf DEF RowFits
    <2>3. QED BY <2>1, <2>2, <1>3 DEF RowFits
  <1>10. ASSUME NEW j \in 1..(num - 1), NEW k \in 1..(num - 1), j # k PROVE Apart(cs[j], cs[k])
    <2>1. Apart(client[src(j)], client[src(k)]) BY <1>2, <1>10 DEF TableRight, num
    <2>2. QED BY <2>1, <1>3, <1>8 DEF Apart
  <1>11. TableRight(cs, rs, hs) BY <1>4, <1>5, <1>6, <1>9, <1>10 DEF TableRight
  <1>12. ASSUME RoutesListed(client, routes) PROVE RoutesListed(cs, rs)
    <2>1. SUFFICES ASSUME NEW h \in RouteHdls, rs[h] # NoRoute
                   PROVE  \E j \in 1..(num - 1) : h \in RoutesOf(cs[j])
      BY <1>4 DEF RoutesListed
    <2>2. PICK k \in 1..num : h \in RoutesOf(client[k]) BY <2>1, <1>5, <1>12 DEF RoutesListed, num
    <2>3. k # i BY <2>1, <2>2, <1>5
    <2>4. QED BY <2>2, <2>3, <1>2, <1>3
  <1>13. ASSUME HeadersListed(client, headers) PROVE HeadersListed(cs, hs)
    <2>1. SUFFICES ASSUME NEW h \in HeaderHdls, hs[h] # NoMac
                   PROVE  \E j \in 1..(num - 1) : h \in HeadersOf(cs[j])
      BY <1>4 DEF HeadersListed
    <2>2. PICK k \in 1..num : h \in HeadersOf(client[k]) BY <2>1, <1>6, <1>13 DEF HeadersListed, num
    <2>3. k # i BY <2>1, <2>2, <1>6
    <2>4. QED BY <2>2, <2>3, <1>2, <1>8
  <1>14. i = num => \A j \in 1..(num - 1) : cs[j] = client[j] BY <1>1 DEF Removed
  <1>15. MovedDown(cs, i)
    <2>1. \A j : src(j) = Behind(j, i) BY DEF src, Behind
    <2>2. QED BY <2>1, <1>2, <1>3 DEF MovedDown, SameHeaders
  <1>16. QED BY <1>4, <1>11, <1>12, <1>13, <1>14, <1>15

LEMMA ElementReplaced ==
  ASSUME NEW cs \in Seq(Clients), NEW i \in 1..Len(cs), NEW d \in Clients
  PROVE  /\ [cs EXCEPT ![i] = d] \in Seq(Clients) /\ Len([cs EXCEPT ![i] = d]) = Len(cs)
         /\ [cs EXCEPT ![i] = d][i] = d
         /\ \A j \in 1..Len(cs) : j # i => [cs EXCEPT ![i] = d][j] = cs[j]
  OBVIOUS

\* handle_*_client_down_evt() that fails at the second header: the first is gone.
LEMMA HeaderLost ==
  ASSUME NEW cs, NEW rs, TableRight(cs, rs, headers), NEW i \in 1..Len(cs), NEW c,
         SameHeaders(c, cs[i]), c \in Clients,
         NEW d, d = [cs[i] EXCEPT !.ipv4_header_set = FALSE]
  PROVE  TableRight([cs EXCEPT ![i] = d], rs, WithoutHeaders(HeadersOf([c EXCEPT !.ipv6_header_set = FALSE])))
  <1> DEFINE ds == [cs EXCEPT ![i] = d]
             c0 == [c EXCEPT !.ipv6_header_set = FALSE]
             hs == WithoutHeaders(HeadersOf(c0))
  <1>1. cs \in Seq(Clients) /\ rs \in Rules /\ headers \in Headers /\ cs[i] \in Clients
    BY DEF TableRight
  <1>2. HeadersOf(c0) = IF cs[i].ipv4_header_set THEN {cs[i].hdr_hdl_v4} ELSE {}
    <2>1. /\ c0.ipv4_header_set = c.ipv4_header_set /\ c0.hdr_hdl_v4 = c.hdr_hdl_v4
          /\ c0.ipv6_header_set = FALSE
      BY DEF Clients
    <2>2. QED BY <2>1 DEF HeadersOf, SameHeaders
  <1>3. /\ d \in Clients /\ d.mac = cs[i].mac /\ d.hdr_hdl_v4 = cs[i].hdr_hdl_v4
        /\ d.hdr_hdl_v6 = cs[i].hdr_hdl_v6 /\ d.ipv4_header_set = FALSE
        /\ d.ipv6_header_set = cs[i].ipv6_header_set
        /\ d.v4_addr = cs[i].v4_addr /\ d.ipv4_set = cs[i].ipv4_set /\ d.v6_addr = cs[i].v6_addr
        /\ d.route_rule_set_v4 = cs[i].route_rule_set_v4 /\ d.rt_hdl_v4 = cs[i].rt_hdl_v4
        /\ d.route_rule_set_v6 = cs[i].route_rule_set_v6 /\ d.rt_hdl_v6 = cs[i].rt_hdl_v6
    <2> DEFINE e == cs[i]
    <2>1. e \in Clients /\ d = [e EXCEPT !.ipv4_header_set = FALSE] BY <1>1
    <2> HIDE DEF e
    <2>3. /\ d \in Clients /\ d.mac = e.mac /\ d.hdr_hdl_v4 = e.hdr_hdl_v4
          /\ d.hdr_hdl_v6 = e.hdr_hdl_v6 /\ d.ipv4_header_set = FALSE
          /\ d.ipv6_header_set = e.ipv6_header_set
          /\ d.v4_addr = e.v4_addr /\ d.ipv4_set = e.ipv4_set /\ d.v6_addr = e.v6_addr
          /\ d.route_rule_set_v4 = e.route_rule_set_v4 /\ d.rt_hdl_v4 = e.rt_hdl_v4
          /\ d.route_rule_set_v6 = e.route_rule_set_v6 /\ d.rt_hdl_v6 = e.rt_hdl_v6
      BY <2>1 DEF Clients
    <2>4. QED BY <2>3 DEF e
  <1>4. /\ ds \in Seq(Clients) /\ Len(ds) = Len(cs) /\ ds[i] = d
        /\ \A j \in 1..Len(cs) : j # i => ds[j] = cs[j]
    <2>1. cs \in Seq(Clients) /\ i \in 1..Len(cs) /\ d \in Clients BY <1>1, <1>3
    <2>2. QED BY ONLY <2>1, ElementReplaced DEF ds
  <1> HIDE DEF c0
  <1>5. /\ hs \in Headers
        /\ \A h \in HeaderHdls : hs[h] = IF h \in HeadersOf(c0) THEN NoMac ELSE headers[h]
    BY <1>1 DEF WithoutHeaders, Headers
  <1> HIDE DEF ds, hs
  <1>6. HeadersOf(d) \subseteq HeadersOf(cs[i]) /\ RoutesOf(d) = RoutesOf(cs[i])
    BY <1>3 DEF HeadersOf, RoutesOf, HandlesV4, HandlesV6
  <1>7. RowFits(d, rs, hs)
    <2>1. RowRight(cs[i]) /\ OwnRoutes(cs[i], rs) /\ OwnHeaders(cs[i], headers) BY DEF TableRight, RowFits
    <2>2. RowRight(d) BY <2>1, <1>3 DEF RowRight
    <2>3. OwnRoutes(d, rs) BY <2>1, <1>3 DEF OwnRoutes
    <2>4. d.hdr_hdl_v6 \in HeaderHdls /\ d.hdr_hdl_v6 \notin HeadersOf(c0)
      BY <2>1, <1>1, <1>2, <1>3 DEF RowRight, Clients
    <2>5. OwnHeaders(d, hs) BY <2>1, <2>4, <1>3, <1>5 DEF OwnHeaders
    <2>6. QED BY <2>2, <2>3, <2>5 DEF RowFits
  <1>8. ASSUME NEW j \in 1..Len(cs), j # i
        PROVE  RowFits(cs[j], rs, hs) /\ Apart(cs[j], d) /\ Apart(d, cs[j])
    <2>1. RowRight(cs[j]) /\ OwnRoutes(cs[j], rs) /\ OwnHeaders(cs[j], headers) /\ cs[j] \in Clients
      BY DEF TableRight, RowFits
    <2>2. Apart(cs[j], cs[i]) BY <1>8 DEF TableRight
    <2>3. cs[j].hdr_hdl_v4 \in HeaderHdls /\ cs[j].hdr_hdl_v6 \in HeaderHdls BY <2>1 DEF Clients
    <2>4. HeadersOf(c0) \subseteq HeadersOf(cs[i]) BY <1>2 DEF HeadersOf
    <2>5. /\ cs[j].ipv4_header_set => cs[j].hdr_hdl_v4 \in HeadersOf(cs[j])
          /\ cs[j].ipv6_header_set => cs[j].hdr_hdl_v6 \in HeadersOf(cs[j])
      BY DEF HeadersOf
    <2>6. OwnHeaders(cs[j], hs) BY <2>1, <2>2, <2>3, <2>4, <2>5, <1>5 DEF OwnHeaders, Apart
    <2>7. QED BY <2>1, <2>2, <2>6, <1>6 DEF RowFits, Apart
  <1>9. \A j \in 1..Len(ds) : RowFits(ds[j], rs, hs) BY <1>4, <1>7, <1>8
  <1>10. \A j, k \in 1..Len(ds) : j # k => Apart(ds[j], ds[k])
    <2>1. TAKE j, k \in 1..Len(ds)
    <2>2. CASE j = i BY <2>2, <1>4, <1>8
    <2>3. CASE k = i BY <2>3, <1>4, <1>8
    <2>4. CASE j # i /\ k # i BY <2>4, <1>4 DEF TableRight
    <2>5. QED BY <2>2, <2>3, <2>4
  <1>11. TableRight(ds, rs, hs) BY <1>1, <1>4, <1>5, <1>9, <1>10 DEF TableRight
  <1>12. QED BY <1>11 DEF ds, hs, c0

-----------------------------------------------------------------------------
(* The addresses that the NAT knows.                                       *)

NatHeld(cs, n) == \A x \in n : \E i \in 1..Len(cs) : cs[i].ipv4_set /\ cs[i].v4_addr = x

LEMMA NatAfterAddr ==
  ASSUME NEW cs \in Seq(Clients), NEW hs, NEW i \in 1..Len(cs), NEW a \in V4 \cup V6, NEW d,
         AddrEvent(cs, i, a), AddrLeaves(cs, hs, i, a, d), nat \subseteq V4
  PROVE  nat' \subseteq V4 /\ (NatHeld(cs, nat) => NatHeld(client', nat'))
  <1>1. nat' = IF a \in V4 THEN (nat \ (IF cs[i].ipv4_set THEN {cs[i].v4_addr} ELSE {})) \cup {a} ELSE nat
    BY DEF AddrEvent
  <1>2. /\ client' = [cs EXCEPT ![i] = d]
        /\ a \in V4 => d.v4_addr = a /\ d.ipv4_set = TRUE
        /\ a \notin V4 => d.v4_addr = cs[i].v4_addr /\ d.ipv4_set = cs[i].ipv4_set
    BY DEF AddrLeaves
  <1>3. /\ Len(client') = Len(cs) /\ client'[i] = d
        /\ \A j \in 1..Len(cs) : j # i => client'[j] = cs[j]
    BY <1>2
  <1>4. nat' \subseteq V4 BY <1>1
  <1>5. ASSUME NatHeld(cs, nat), NEW x \in nat'
        PROVE  \E j \in 1..Len(client') : client'[j].ipv4_set /\ client'[j].v4_addr = x
    <2>1. CASE a \in V4 /\ x = a BY <2>1, <1>2, <1>3
    <2>2. CASE x \in nat /\ (a \in V4 /\ cs[i].ipv4_set => x # cs[i].v4_addr)
      <3>1. PICK j \in 1..Len(cs) : cs[j].ipv4_set /\ cs[j].v4_addr = x BY <2>2, <1>5 DEF NatHeld
      <3>2. CASE j # i BY <3>1, <3>2, <1>3
      <3>3. CASE j = i /\ a \notin V4 BY <3>1, <3>3, <1>2, <1>3
      <3>4. QED BY <3>1, <3>2, <3>3, <2>2
    <2>3. QED BY <2>1, <2>2, <1>1
  <1>6. QED BY <1>4, <1>5 DEF NatHeld

-----------------------------------------------------------------------------
(* The inductive invariant from its parts.                                 *)

LEMMA Parts ==
  ASSUME IndInv
  PROVE  /\ kind \in {"eth", "wlan"} /\ up \in BOOLEAN /\ shifted \in BOOLEAN /\ twice \in BOOLEAN
         /\ client \in Seq(Clients) /\ num \in Nat /\ num <= MaxClients
         /\ nat \subseteq V4 /\ asleep \subseteq attached /\ attached \subseteq Macs
         /\ fails \in 0..MaxFails
         /\ fails = 0 => NatHeld(client, nat)
  <1>1. fails = 0 => NatHeld(client, nat)
    BY DEF IndInv, HandlesKept, NatAddressesHeld, NatHeld, num
  <1>2. QED BY <1>1 DEF IndInv, HandlesKept, TypeOK, num

LEMMA FromParts ==
  ASSUME TableRight(client', routes', headers'),
         kind' \in {"eth", "wlan"}, up' \in BOOLEAN, shifted' \in BOOLEAN, twice' \in BOOLEAN,
         Len(client') <= MaxClients, nat' \subseteq V4, asleep' \subseteq attached', attached' \subseteq Macs,
         fails' \in 0..MaxFails,
         fails' = 0 => /\ RoutesListed(client', routes') /\ HeadersListed(client', headers')
                       /\ NatHeld(client', nat'),
         EthAwake', MacsOnce', FlagsRight'
  PROVE  IndInv'
  <1>1. TypeOK' BY DEF TypeOK, TableRight, Rules, Headers, num
  <1>2. ClientHandlesOwn' BY DEF ClientHandlesOwn, TableRight, RowFits, OwnRoutes, OwnHeaders, num
  <1>3. RowsRight' /\ RowsApart' BY DEF RowsRight, RowsApart, TableRight, RowFits, num
  <1>4. NothingLeftInDriver'
    <2>1. \A c : HeadersOf(c) \subseteq {c.hdr_hdl_v4, c.hdr_hdl_v6} BY DEF HeadersOf
    <2>2. QED BY <2>1 DEF NothingLeftInDriver, RoutesListed, HeadersListed, RoutesOf, num
  <1>5. NatAddressesHeld' BY DEF NatAddressesHeld, NatHeld, num
  <1>6. HeadersHeld' BY DEF HeadersHeld
  <1>7. QED BY <1>1, <1>2, <1>3, <1>4, <1>5, <1>6 DEF IndInv, HandlesKept

-----------------------------------------------------------------------------
(* The actions.                                                            *)

LEMMA WlanClientAddKeeps ==
  ASSUME IndInv, NEW m \in Macs, WlanClientAdd(m)
  PROVE  IndInv'
  <1> DEFINE hs == Unused(headers, NoMac)
  <1>1. PICK good \in 0..2 :
          /\ good <= Len(hs) /\ Counted(good, 2)
          /\ headers' = HeadersAdded(m, good)
          /\ client' = IF good = 2 THEN Append(client, NewClient(m, hs[1], hs[2])) ELSE client
    BY DEF WlanClientAdd
  <1>2. /\ kind = "wlan" /\ num < MaxClients /\ attached' = attached \cup {m} /\ asleep' = asleep \ {m}
        /\ twice' = (twice \/ Known(m)) /\ kind' = kind /\ up' = up /\ routes' = routes /\ nat' = nat
        /\ shifted' = shifted
    BY DEF WlanClientAdd
  <1>3. /\ TableRight(client, routes, headers)
        /\ fails = 0 => RoutesListed(client, routes) /\ HeadersListed(client, headers)
    BY TableFacts
  <1>4. /\ kind \in {"eth", "wlan"} /\ up \in BOOLEAN /\ shifted \in BOOLEAN /\ twice \in BOOLEAN
        /\ client \in Seq(Clients) /\ num \in Nat /\ num <= MaxClients
        /\ nat \subseteq V4 /\ asleep \subseteq attached /\ attached \subseteq Macs
        /\ fails \in 0..MaxFails
        /\ fails = 0 => NatHeld(client, nat)
    BY Parts
  <1>5. fails' \in 0..MaxFails /\ (fails' = 0 => fails = 0 /\ good = 2)
    BY <1>1, <1>4, CountedFacts
  <1>6. /\ kind' \in {"eth", "wlan"} /\ up' \in BOOLEAN /\ shifted' \in BOOLEAN /\ twice' \in BOOLEAN
        /\ nat' \subseteq V4 /\ asleep' \subseteq attached' /\ attached' \subseteq Macs
    BY <1>2, <1>4 DEF Known
  <1>7. EthAwake' BY <1>2 DEF EthAwake
  <1>8. CASE good # 2
    <2>1. TableRight(client', routes', headers') /\ Len(client') <= MaxClients
      BY <1>1, <1>2, <1>3, <1>4, <1>8, HeadersAddedFacts DEF num
    <2>2. fails' # 0 BY <1>5, <1>8
    <2>3. MacsOnce' /\ FlagsRight' BY <2>2 DEF MacsOnce, FlagsRight
    <2>4. QED BY <1>5, <1>6, <1>7, <2>1, <2>2, <2>3, FromParts
  <1>9. CASE good = 2
    <2> DEFINE c == NewClient(m, hs[1], hs[2])
    <2>1. client' = Append(client, c) /\ headers' = HeadersAdded(m, 2) /\ 2 <= Len(hs) BY <1>1, <1>9
    <2>2. /\ TableRight(client', routes, headers')
          /\ Len(client') = num + 1 /\ client'[num + 1] = c
          /\ \A i \in 1..num : client'[i] = client[i]
          /\ c \in Clients /\ c.mac = m /\ c.power_save_set = FALSE /\ c.ipv4_set = FALSE /\ Served(c)
          /\ RoutesListed(client, routes) => RoutesListed(client', routes)
          /\ HeadersListed(client, headers) => HeadersListed(client', headers')
      <3>1. Appended(client', c, m) BY <1>3, <2>1, AppendedRow
      <3>2. QED BY <3>1, <2>1 DEF Appended
    <2> HIDE DEF c
    <2>3. Len(client') <= MaxClients BY <2>2, <1>2, <1>4, ClientsAssumption
    <2>4. ASSUME fails' = 0 PROVE NatHeld(client', nat')
      BY <2>2, <2>4, <1>2, <1>4, <1>5 DEF NatHeld, num
    <2>5. \A i \in 1..Len(client') : i = num + 1 \/ i \in 1..num BY <2>2, <1>4
    <2>6. ASSUME fails' = 0, ~twice' PROVE fails = 0 /\ ~twice /\ \A i \in 1..num : client[i].mac # m
      BY <2>6, <1>2, <1>4, <1>5 DEF Known
    <2>7. MacsOnce'
      <3>1. SUFFICES ASSUME fails' = 0, ~twice'
                     PROVE  /\ \A i, j \in 1..Len(client') : client'[i].mac = client'[j].mac => i = j
                            /\ \A i \in 1..Len(client') : client'[i].mac \in attached'
        BY DEF MacsOnce, num
      <3>2. /\ \A i, j \in 1..num : client[i].mac = client[j].mac => i = j
            /\ \A i \in 1..num : client[i].mac \in attached
        BY <2>6, <3>1 DEF IndInv, MacsOnce
      <3>3. QED BY <3>1, <3>2, <2>2, <2>5, <2>6, <1>2
    <2>8. FlagsRight'
      <3>1. SUFFICES ASSUME fails' = 0, ~shifted', ~twice', NEW i \in 1..Len(client')
                     PROVE  (client'[i].power_save_set <=> client'[i].mac \in asleep') /\ Served(client'[i])
        BY DEF FlagsRight, Flagged, Served, num
      <3>2. \A j \in 1..num : (client[j].power_save_set <=> client[j].mac \in asleep) /\ Served(client[j])
        BY <2>6, <3>1, <1>2 DEF IndInv, FlagsRight, Flagged
      <3>3. CASE i = num + 1 BY <3>3, <2>2, <1>2
      <3>4. CASE i \in 1..num BY <3>1, <3>2, <3>4, <2>2, <2>6, <1>2
      <3>5. QED BY <3>3, <3>4, <2>5
    <2>9. QED BY <1>2, <1>3, <1>5, <1>6, <1>7, <2>2, <2>3, <2>4, <2>7, <2>8, FromParts
  <1>10. QED BY <1>8, <1>9

LEMMA AddrKeepsRows ==
  ASSUME NEW cs \in Seq(Clients), NEW hs, NEW i \in 1..Len(cs), NEW a, NEW d, AddrLeaves(cs, hs, i, a, d)
  PROVE  /\ Len(client') = Len(cs) /\ \A j \in 1..Len(cs) : client'[j].mac = cs[j].mac
         /\ \A j \in 1..Len(cs) : \A sleepers :
              fails' = 0 /\ Flagged(cs[j], sleepers) => Flagged(client'[j], sleepers)
  <1>1. /\ client' = [cs EXCEPT ![i] = d] /\ d \in Clients /\ d.mac = cs[i].mac
        /\ d.power_save_set = cs[i].power_save_set
        /\ fails' = 0 /\ Served(cs[i]) => Served(d)
    BY DEF AddrLeaves, SameHeaders
  <1>2. /\ Len(client') = Len(cs) /\ client'[i] = d
        /\ \A j \in 1..Len(cs) : j # i => client'[j] = cs[j]
    BY <1>1
  <1>3. \A j \in 1..Len(cs) : client'[j].mac = cs[j].mac BY <1>1, <1>2
  <1>4. ASSUME NEW j \in 1..Len(cs), NEW sleepers, fails' = 0, Flagged(cs[j], sleepers)
        PROVE  Flagged(client'[j], sleepers)
    <2>1. CASE j # i BY <2>1, <1>2, <1>4
    <2>2. CASE j = i BY <2>2, <1>1, <1>2, <1>4 DEF Flagged
    <2>3. QED BY <2>1, <2>2
  <1>5. QED BY <1>2, <1>3, <1>4

LEMMA NeighAddKeeps ==
  ASSUME IndInv, NEW m \in Macs, NEW a \in V4 \cup V6, NeighAdd(m, a)
  PROVE  IndInv'
  <1> DEFINE i == indexOf(m)
  <1>1. /\ Known(m) /\ Accepts(client[i], a) /\ AddrEvent(client, i, a)
        /\ kind' = kind /\ up' = up /\ headers' = headers /\ attached' = attached /\ asleep' = asleep
        /\ shifted' = shifted /\ twice' = twice
    BY DEF NeighAdd
  <1>2. /\ TableRight(client, routes, headers)
        /\ fails = 0 => RoutesListed(client, routes) /\ HeadersListed(client, headers)
    BY TableFacts
  <1>3. /\ kind \in {"eth", "wlan"} /\ up \in BOOLEAN /\ shifted \in BOOLEAN /\ twice \in BOOLEAN
        /\ client \in Seq(Clients) /\ num \in Nat /\ num <= MaxClients
        /\ nat \subseteq V4 /\ asleep \subseteq attached /\ attached \subseteq Macs
        /\ fails \in 0..MaxFails
        /\ fails = 0 => NatHeld(client, nat)
    BY Parts
  <1>4. i \in 1..Len(client) BY <1>1, <1>3, IndexFacts DEF num
  <1> HIDE DEF i
  <1>5. PICK d : AddrLeaves(client, headers, i, a, d) BY <1>1, <1>2, <1>3, <1>4, AddrEventFacts
  <1>6. /\ TableRight(client', routes', headers') /\ fails' \in 0..MaxFails
        /\ fails' = 0 => /\ fails = 0 /\ RoutesListed(client', routes') /\ HeadersListed(client', headers')
    BY <1>1, <1>2, <1>5 DEF AddrLeaves
  <1>7. nat' \subseteq V4 /\ (NatHeld(client, nat) => NatHeld(client', nat'))
    BY <1>1, <1>3, <1>4, <1>5, NatAfterAddr
  <1>8. /\ Len(client') = num /\ \A j \in 1..num : client'[j].mac = client[j].mac
        /\ \A j \in 1..num : \A sleepers :
             fails' = 0 /\ Flagged(client[j], sleepers) => Flagged(client'[j], sleepers)
    BY <1>3, <1>4, <1>5, AddrKeepsRows DEF num
  <1>9. EthAwake' BY <1>1 DEF IndInv, EthAwake
  <1>10. MacsOnce' BY <1>1, <1>6, <1>8 DEF IndInv, MacsOnce, num
  <1>11. FlagsRight'
    <2>1. SUFFICES ASSUME fails' = 0, ~shifted', ~twice', NEW j \in 1..Len(client')
                   PROVE  Flagged(client'[j], asleep')
      BY DEF FlagsRight, Flagged, Served, num
    <2>2. Flagged(client[j], asleep) BY <1>1, <1>6, <1>8, <2>1 DEF IndInv, FlagsRight
    <2>3. QED BY <2>1, <2>2, <1>1, <1>8
  <1>12. QED BY <1>1, <1>3, <1>6, <1>7, <1>8, <1>9, <1>10, <1>11, FromParts

LEMMA NeighAddNewKeeps ==
  ASSUME IndInv, NEW m \in Macs, NEW a \in V4 \cup V6, NeighAddNew(m, a)
  PROVE  IndInv'
  <1> DEFINE hs == Unused(headers, NoMac)
             c == NewClient(m, hs[1], hs[2])
             cs == Append(client, c)
  <1>1. /\ kind = "eth" /\ ~Known(m) /\ num < MaxClients /\ 2 <= Len(hs)
        /\ attached' = attached \cup {m}
        /\ kind' = kind /\ up' = up /\ asleep' = asleep /\ shifted' = shifted /\ twice' = twice
    <2>1. hs \in Seq(HeaderHdls)
      <3>1. MaxHeaders \in Nat BY ClientsAssumption
      <3>2. DOMAIN headers = 1..MaxHeaders BY TableFacts DEF TableRight, Headers, HeaderHdls
      <3>3. QED BY <3>1, <3>2, UnusedFacts DEF HeaderHdls
    <2>2. QED BY <2>1 DEF NeighAddNew
  <1>2. /\ TableRight(client, routes, headers)
        /\ fails = 0 => RoutesListed(client, routes) /\ HeadersListed(client, headers)
    BY TableFacts
  <1>3. /\ kind \in {"eth", "wlan"} /\ up \in BOOLEAN /\ shifted \in BOOLEAN /\ twice \in BOOLEAN
        /\ client \in Seq(Clients) /\ num \in Nat /\ num <= MaxClients
        /\ nat \subseteq V4 /\ asleep \subseteq attached /\ attached \subseteq Macs
        /\ fails \in 0..MaxFails
        /\ fails = 0 => NatHeld(client, nat)
    BY Parts
  <1>4. asleep = {} /\ EthAwake' BY <1>1 DEF IndInv, EthAwake
  <1>5. asleep' \subseteq attached' /\ attached' \subseteq Macs BY <1>1, <1>3
  <1>6. CASE AddrEvent(cs, num + 1, a) /\ headers' = HeadersAdded(m, 2)
    <2>1. Appended(cs, c, m) BY <1>1, <1>2, AppendedRow
    <2> HIDE DEF c, cs
    <2>2. /\ TableRight(cs, routes, headers') /\ cs \in Seq(Clients)
          /\ Len(cs) = num + 1 /\ num + 1 \in 1..Len(cs) /\ cs[num + 1] = c
          /\ \A j \in 1..num : cs[j] = client[j]
          /\ c \in Clients /\ c.mac = m /\ c.power_save_set = FALSE /\ c.ipv4_set = FALSE /\ Served(c)
          /\ Accepts(cs[num + 1], a)
          /\ RoutesListed(client, routes) => RoutesListed(cs, routes)
          /\ HeadersListed(client, headers) => HeadersListed(cs, headers')
      BY <2>1, <1>6 DEF Appended, TableRight
    <2>3. \A j \in 1..Len(cs) : j = num + 1 \/ j \in 1..num BY <2>2, <1>3
    <2>4. PICK d : AddrLeaves(cs, headers', num + 1, a, d) BY <1>3, <1>6, <2>2, AddrEventFacts
    <2>5. /\ TableRight(client', routes', headers') /\ fails' \in 0..MaxFails
          /\ fails' = 0 => /\ fails = 0 /\ RoutesListed(client', routes') /\ HeadersListed(client', headers')
      BY <1>2, <2>2, <2>4 DEF AddrLeaves
    <2>6. nat' \subseteq V4 /\ (NatHeld(cs, nat) => NatHeld(client', nat'))
      BY <1>3, <1>6, <2>2, <2>4, NatAfterAddr
    <2>7. NatHeld(client, nat) => NatHeld(cs, nat)
      <3>1. \A j \in 1..Len(client) : j \in 1..Len(cs) /\ cs[j] = client[j] BY <2>2, <1>3 DEF num
      <3>2. QED BY <3>1 DEF NatHeld
    <2>8. /\ Len(client') = Len(cs) /\ \A j \in 1..Len(cs) : client'[j].mac = cs[j].mac
          /\ \A j \in 1..Len(cs) : \A sleepers :
               fails' = 0 /\ Flagged(cs[j], sleepers) => Flagged(client'[j], sleepers)
      BY <2>2, <2>4, AddrKeepsRows
    <2>9. Len(client') <= MaxClients BY <2>2, <2>8, <1>1, <1>3, ClientsAssumption
    <2>10. MacsOnce'
      <3>1. SUFFICES ASSUME fails' = 0, ~twice'
                     PROVE  /\ \A i, j \in 1..Len(client') : client'[i].mac = client'[j].mac => i = j
                            /\ \A i \in 1..Len(client') : client'[i].mac \in attached'
        BY DEF MacsOnce, num
      <3>2. /\ \A i, j \in 1..num : client[i].mac = client[j].mac => i = j
            /\ \A i \in 1..num : client[i].mac \in attached /\ client[i].mac # m
        BY <2>5, <3>1, <1>1 DEF IndInv, MacsOnce, Known
      <3>3. \A j \in 1..num : client'[j].mac = client[j].mac /\ j \in 1..Len(cs) BY <2>2, <2>8, <1>3
      <3>4. client'[num + 1].mac = m BY <2>2, <2>8
      <3>5. QED BY <3>2, <3>3, <3>4, <2>3, <2>8, <1>1
    <2>11. FlagsRight'
      <3>1. SUFFICES ASSUME fails' = 0, ~shifted', ~twice', NEW j \in 1..Len(client')
                     PROVE  Flagged(client'[j], asleep')
        BY DEF FlagsRight, Flagged, Served, num
      <3>2. CASE j \in 1..num
        <4>1. Flagged(client[j], asleep) BY <1>1, <2>5, <3>1, <3>2 DEF IndInv, FlagsRight
        <4>2. Flagged(cs[j], asleep) BY <4>1, <3>2, <2>2
        <4>3. QED BY <4>2, <3>1, <1>1, <2>8
      <3>3. CASE j = num + 1
        <4>1. Flagged(cs[j], asleep) BY <3>3, <2>2, <1>4 DEF Flagged
        <4>2. QED BY <4>1, <3>1, <1>1, <2>8
      <3>4. QED BY <3>2, <3>3, <2>3, <2>8
    <2>12. QED
      BY <1>1, <1>3, <1>4, <1>5, <2>5, <2>6, <2>7, <2>9, <2>10, <2>11, FromParts
  <1>7. CASE /\ fails < MaxFails /\ fails' = fails + 1
             /\ \E good \in 0..1 : headers' = HeadersAdded(m, good)
             /\ UNCHANGED <<client, routes, nat>>
    <2>1. PICK good \in 0..1 : headers' = HeadersAdded(m, good) BY <1>7
    <2>2. TableRight(client, routes, HeadersAdded(m, good))
      <3>1. good \in 0..2 /\ good <= Len(hs)
        <4>1. Len(hs) \in Nat
          <5>1. MaxHeaders \in Nat BY ClientsAssumption
          <5>2. DOMAIN headers = 1..MaxHeaders BY TableFacts DEF TableRight, Headers, HeaderHdls
          <5>3. hs \in Seq(1..MaxHeaders) BY <5>1, <5>2, UnusedFacts
          <5>4. QED BY <5>3
        <4>2. QED BY <4>1, <1>1
      <3>2. QED BY <3>1, <1>2, HeadersAddedFacts
    <2>3. fails' \in 0..MaxFails /\ fails' # 0 BY <1>3, <1>7, ClientsAssumption
    <2>4. MacsOnce' /\ FlagsRight' BY <2>3 DEF MacsOnce, FlagsRight
    <2>5. TableRight(client', routes', headers') /\ Len(client') <= MaxClients /\ nat' \subseteq V4
      BY <1>3, <1>7, <2>1, <2>2 DEF num
    <2>6. QED BY <1>1, <1>3, <1>4, <1>5, <2>3, <2>4, <2>5, FromParts
  <1>8. QED BY <1>6, <1>7 DEF NeighAddNew

LEMMA ClientDownKeeps ==
  ASSUME IndInv, NEW m \in Macs, ClientDown(m)
  PROVE  IndInv'
  <1> DEFINE i == indexOf(m)
             c == client[i]
             off == NotRoutedV4(NotRoutedV6(c))
  <1>1. /\ attached' = attached \ {m} /\ asleep' = asleep \ {m}
        /\ kind' = kind /\ up' = up /\ twice' = twice
    BY DEF ClientDown
  <1>2. /\ TableRight(client, routes, headers)
        /\ fails = 0 => RoutesListed(client, routes) /\ HeadersListed(client, headers)
    BY TableFacts
  <1>3. /\ kind \in {"eth", "wlan"} /\ up \in BOOLEAN /\ shifted \in BOOLEAN /\ twice \in BOOLEAN
        /\ client \in Seq(Clients) /\ num \in Nat /\ num <= MaxClients
        /\ nat \subseteq V4 /\ asleep \subseteq attached /\ attached \subseteq Macs
        /\ fails \in 0..MaxFails
        /\ fails = 0 => NatHeld(client, nat)
    BY Parts
  <1>4. EthAwake' BY <1>1 DEF IndInv, EthAwake
  <1>5. asleep' \subseteq attached' /\ attached' \subseteq Macs BY <1>1, <1>3
  <1>6. CASE ~Known(m)
    <2>1. client' = client /\ routes' = routes /\ headers' = headers /\ nat' = nat /\ shifted' = shifted /\ fails' = fails
      BY <1>6 DEF ClientDown, driver
    <2>2. \A j \in 1..num : client[j].mac # m BY <1>6 DEF Known
    <2>3. MacsOnce' BY <2>1, <2>2, <1>1 DEF IndInv, MacsOnce, num
    <2>4. FlagsRight'
      <3>1. SUFFICES ASSUME fails' = 0, ~shifted', ~twice', NEW j \in 1..Len(client')
                     PROVE  Flagged(client'[j], asleep')
        BY DEF FlagsRight, Flagged, Served, num
      <3>2. Flagged(client[j], asleep) BY <1>1, <2>1, <3>1 DEF IndInv, FlagsRight, num
      <3>3. QED BY <3>2, <1>1, <2>1, <2>2 DEF Flagged, num
    <2>5. QED BY <1>1, <1>2, <1>3, <1>4, <1>5, <2>1, <2>3, <2>4, FromParts DEF num
  <1>7. CASE Known(m)
    <2>1. i \in 1..num /\ client[i].mac = m BY <1>3, <1>7, IndexFacts
    <2>2. nat' = nat \ (IF c.ipv4_set THEN {c.v4_addr} ELSE {}) /\ routes' = UnrouteAll(c, routes)
      BY <1>7 DEF ClientDown
    <2>3. \/ /\ client' = Removed(i) /\ shifted' = (shifted \/ i < num)
             /\ headers' = WithoutHeaders(HeadersOf(c)) /\ fails' = fails
          \/ /\ Counted(0, 1) /\ client' = [client EXCEPT ![i] = off]
             /\ headers' = headers /\ shifted' = shifted
          \/ /\ Counted(0, 1) /\ client' = [client EXCEPT ![i] = [off EXCEPT !.ipv4_header_set = FALSE]]
             /\ headers' = WithoutHeaders(HeadersOf([c EXCEPT !.ipv6_header_set = FALSE]))
             /\ shifted' = shifted
      BY <1>7 DEF ClientDown
    <2>4. nat' \subseteq V4 BY <2>2, <1>3
    <2> HIDE DEF i
    <2>5. c \in Clients /\ RowRight(c) /\ OwnRoutes(c, routes) /\ routes \in Rules
      BY <1>2, <2>1 DEF TableRight, RowFits, num
    <2>6. CASE /\ client' = Removed(i) /\ shifted' = (shifted \/ i < num)
               /\ headers' = WithoutHeaders(HeadersOf(c)) /\ fails' = fails
      <3>1. /\ TableRight(client', routes', headers') /\ Len(client') = num - 1
            /\ MovedDown(client', i)
            /\ i = num => \A j \in 1..(num - 1) : client'[j] = client[j]
            /\ RoutesListed(client, routes) => RoutesListed(client', routes')
            /\ HeadersListed(client, headers) => HeadersListed(client', headers')
        BY <1>2, <2>1, <2>2, <2>6, RemovedRow
      <3>2. Len(client') <= MaxClients BY <3>1, <1>3, ClientsAssumption
      <3>3. shifted' \in BOOLEAN BY <2>6, <1>3
      <3>4. ASSUME fails' = 0 PROVE NatHeld(client', nat')
        <4>1. SUFFICES ASSUME NEW x \in nat'
                       PROVE  \E j \in 1..Len(client') : client'[j].ipv4_set /\ client'[j].v4_addr = x
          BY DEF NatHeld
        <4>2. PICK k \in 1..num : client[k].ipv4_set /\ client[k].v4_addr = x
          BY <4>1, <2>2, <2>6, <3>4, <1>3 DEF NatHeld, num
        <4>3. k # i BY <4>1, <4>2, <2>2
        <4>4. PICK j \in 1..(num - 1) : Behind(j, i) = k BY <4>3, <3>1 DEF MovedDown
        <4>5. QED BY <4>2, <4>4, <3>1 DEF MovedDown
      <3>5. ASSUME fails' = 0, ~twice'
            PROVE  /\ \A j, k \in 1..num : client[j].mac = client[k].mac => j = k
                   /\ \A j \in 1..num : client[j].mac \in attached
                   /\ \A j \in 1..num : j # i => client[j].mac # m
        BY <3>5, <2>1, <2>6, <1>1 DEF IndInv, MacsOnce
      <3>6. MacsOnce'
        <4>1. SUFFICES ASSUME fails' = 0, ~twice'
                       PROVE  /\ \A j, k \in 1..Len(client') : client'[j].mac = client'[k].mac => j = k
                              /\ \A j \in 1..Len(client') : client'[j].mac \in attached'
          BY DEF MacsOnce, num
        <4>2. \A j \in 1..(num - 1) : client'[j].mac = client[Behind(j, i)].mac /\ Behind(j, i) \in 1..num
                                     /\ Behind(j, i) # i
          BY <3>1 DEF MovedDown
        <4>3. \A j, k \in 1..(num - 1) : Behind(j, i) = Behind(k, i) => j = k BY <3>1 DEF MovedDown
        <4>4. QED BY <4>1, <4>2, <4>3, <3>1, <3>5, <1>1
      <3>7. FlagsRight'
        <4>1. SUFFICES ASSUME fails' = 0, ~shifted', ~twice', NEW j \in 1..Len(client')
                       PROVE  Flagged(client'[j], asleep')
          BY DEF FlagsRight, Flagged, Served, num
        <4>0. ~shifted /\ ~(i < num) BY <4>1, <2>6, Zenon
        <4>2. i = num /\ ~shifted BY <4>0, <2>1, <1>3
        <4>3. j \in 1..num /\ j # i /\ client'[j] = client[j] BY <4>1, <4>2, <3>1, <1>3
        <4>4. Flagged(client[j], asleep) BY <4>1, <4>2, <4>3, <2>6, <1>1 DEF IndInv, FlagsRight
        <4>5. QED BY <4>1, <4>3, <4>4, <3>5, <1>1 DEF Flagged
      <3>8. QED BY <1>1, <1>2, <1>3, <1>4, <1>5, <2>4, <2>6, <3>1, <3>2, <3>3, <3>4, <3>6, <3>7, FromParts
    <2>7. /\ Rerouted(c, routes, off, routes') /\ SameHeaders(c, off)
      BY <2>2, <2>5, UnroutedRow
    <2> HIDE DEF off
    <2>8. TableRight([client EXCEPT ![i] = off], routes', headers)
      BY <1>2, <2>1, <2>7, ReplacedRow DEF num
    <2>9. ASSUME Counted(0, 1) PROVE fails' \in 0..MaxFails /\ fails' # 0
      BY <2>9, <1>3, CountedFacts
    <2>10. ASSUME fails' # 0 PROVE MacsOnce' /\ FlagsRight' BY <2>10 DEF MacsOnce, FlagsRight
    <2>11. client \in Seq(Clients) /\ i \in 1..Len(client) /\ off \in Clients
      BY <1>3, <2>1, <2>7 DEF num, Rerouted
    <2>12. CASE /\ Counted(0, 1) /\ client' = [client EXCEPT ![i] = off]
                /\ headers' = headers /\ shifted' = shifted
      <3>1. Len(client') <= MaxClients BY <2>11, <2>12, <1>3 DEF num
      <3>2. QED BY <1>1, <1>3, <1>4, <1>5, <2>4, <2>8, <2>9, <2>10, <2>12, <3>1, FromParts
    <2>13. CASE /\ Counted(0, 1) /\ client' = [client EXCEPT ![i] = [off EXCEPT !.ipv4_header_set = FALSE]]
                /\ headers' = WithoutHeaders(HeadersOf([c EXCEPT !.ipv6_header_set = FALSE]))
                /\ shifted' = shifted
      <3> DEFINE cs == [client EXCEPT ![i] = off]
                 d == [off EXCEPT !.ipv4_header_set = FALSE]
      <3>1. cs[i] = off /\ Len(cs) = Len(client) /\ i \in 1..Len(cs) BY <2>11
      <3>2. client' = [cs EXCEPT ![i] = d] BY <2>13, <2>11
      <3>3. d = [cs[i] EXCEPT !.ipv4_header_set = FALSE] BY <3>1
      <3>4. Len(client') <= MaxClients BY <2>11, <2>13, <1>3 DEF num
      <3> HIDE DEF cs, d
      <3>5. TableRight(cs, routes', headers) /\ SameHeaders(c, cs[i]) BY <2>7, <2>8, <3>1 DEF cs
      <3> HIDE DEF c
      <3>6. TableRight([cs EXCEPT ![i] = d], routes', headers')
        <4> DEFINE hs == WithoutHeaders(HeadersOf([c EXCEPT !.ipv6_header_set = FALSE]))
        <4>1. TableRight([cs EXCEPT ![i] = d], routes', hs)
          BY ONLY <2>5, <3>1, <3>3, <3>5, HeaderLost
        <4> HIDE DEF hs
        <4>2. headers' = hs BY <2>13 DEF hs
        <4>3. QED BY <4>1, <4>2
      <3>7. QED BY <1>1, <1>3, <1>4, <1>5, <2>4, <2>9, <2>10, <2>13, <3>2, <3>4, <3>6, FromParts
    <2>14. QED BY <2>3, <2>6, <2>12, <2>13 DEF off
  <1>8. QED BY <1>6, <1>7

\* A step that gives the element of client m new rules and flags: the rest of the table, and
\* the addresses, stay.
RowServed(i, d) ==
  /\ client' = [client EXCEPT ![i] = d] /\ SameHeaders(client[i], d) /\ d \in Clients
  /\ d.v4_addr = client[i].v4_addr /\ d.ipv4_set = client[i].ipv4_set
  /\ Rerouted(client[i], routes, d, routes')
  /\ fails' \in 0..MaxFails
  /\ fails' = 0 => /\ fails = 0 /\ Complete(client[i], routes, d, routes') /\ Flagged(d, asleep')

LEMMA RowServedKeeps ==
  ASSUME IndInv, NEW m \in Macs, NEW i \in 1..num, client[i].mac = m, NEW d, RowServed(i, d),
         kind' = kind, up' = up, headers' = headers, nat' = nat, attached' = attached,
         shifted' = shifted, twice' = twice, kind = "wlan",
         asleep' \subseteq attached, \A x \in Macs \ {m} : x \in asleep' <=> x \in asleep
  PROVE  IndInv'
  <1>2. /\ TableRight(client, routes, headers)
        /\ fails = 0 => RoutesListed(client, routes) /\ HeadersListed(client, headers)
    BY TableFacts
  <1>3. /\ kind \in {"eth", "wlan"} /\ up \in BOOLEAN /\ shifted \in BOOLEAN /\ twice \in BOOLEAN
        /\ client \in Seq(Clients) /\ num \in Nat /\ num <= MaxClients
        /\ nat \subseteq V4 /\ asleep \subseteq attached /\ attached \subseteq Macs
        /\ fails \in 0..MaxFails
        /\ fails = 0 => NatHeld(client, nat)
    BY Parts
  <1>4. /\ client' = [client EXCEPT ![i] = d] /\ d.mac = m /\ d \in Clients
        /\ d.v4_addr = client[i].v4_addr /\ d.ipv4_set = client[i].ipv4_set
        /\ fails' \in 0..MaxFails
        /\ fails' = 0 => /\ fails = 0 /\ Flagged(d, asleep')
    BY DEF RowServed, SameHeaders
  <1>5. /\ Len(client') = num /\ client'[i] = d
        /\ \A j \in 1..num : j # i => client'[j] = client[j]
    BY <1>3, <1>4 DEF num
  <1>6. /\ TableRight(client', routes', headers')
        /\ Complete(client[i], routes, d, routes') /\ RoutesListed(client, routes) => RoutesListed(client', routes')
        /\ HeadersListed(client, headers) => HeadersListed(client', headers')
    <2>1. i \in 1..Len(client) /\ Rerouted(client[i], routes, d, routes') /\ SameHeaders(client[i], d)
      BY DEF RowServed, num
    <2>2. QED BY <2>1, <1>2, <1>4, ReplacedRow
  <1>7. fails' = 0 => NatHeld(client', nat') BY <1>3, <1>4, <1>5 DEF NatHeld, num
  <1>8. \A j \in 1..num : client'[j].mac = client[j].mac BY <1>4, <1>5
  <1>9. MacsOnce' BY <1>4, <1>5, <1>8 DEF IndInv, MacsOnce, num
  <1>10. FlagsRight'
    <2>1. SUFFICES ASSUME fails' = 0, ~shifted', ~twice', NEW j \in 1..Len(client')
                   PROVE  Flagged(client'[j], asleep')
      BY DEF FlagsRight, Flagged, Served, num
    <2>2. CASE j = i BY <2>1, <2>2, <1>4, <1>5
    <2>3. CASE j # i
      <3>1. Flagged(client[j], asleep) BY <2>1, <1>4, <1>5 DEF IndInv, FlagsRight
      <3>2. client[j].mac # m BY <2>1, <2>3, <1>4, <1>5 DEF IndInv, MacsOnce
      <3>3. client[j].mac \in Macs
        <4>1. client[j] \in Clients BY <2>1, <1>3, <1>5 DEF num
        <4>2. QED BY <4>1 DEF Clients
      <3>4. QED BY <3>1, <3>2, <3>3, <2>1, <2>3, <1>5 DEF Flagged
    <2>4. QED BY <2>2, <2>3
  <1>11. EthAwake' BY DEF EthAwake
  <1>12. QED
    BY <1>2, <1>3, <1>4, <1>5, <1>6, <1>7, <1>9, <1>10, <1>11, FromParts DEF RowServed

\* Only the history of who sleeps changes, for a client whose flag says so already or that is
\* not in the table.
LEMMA OnlyAsleepKeeps ==
  ASSUME IndInv, UNCHANGED <<client, routes, headers, nat, kind, up, attached, shifted, twice, fails>>,
         kind = "wlan", asleep' \subseteq attached,
         fails = 0 /\ ~shifted /\ ~twice => \A j \in 1..num : client[j].mac \in asleep' <=> client[j].mac \in asleep
  PROVE  IndInv'
  <1>2. /\ TableRight(client, routes, headers)
        /\ fails = 0 => RoutesListed(client, routes) /\ HeadersListed(client, headers)
    BY TableFacts
  <1>3. /\ kind \in {"eth", "wlan"} /\ up \in BOOLEAN /\ shifted \in BOOLEAN /\ twice \in BOOLEAN
        /\ client \in Seq(Clients) /\ num \in Nat /\ num <= MaxClients
        /\ nat \subseteq V4 /\ asleep \subseteq attached /\ attached \subseteq Macs
        /\ fails \in 0..MaxFails
        /\ fails = 0 => NatHeld(client, nat)
    BY Parts
  <1>4. MacsOnce' BY DEF IndInv, MacsOnce, num
  <1>5. FlagsRight'
    <2>1. SUFFICES ASSUME fails' = 0, ~shifted', ~twice', NEW j \in 1..Len(client')
                   PROVE  Flagged(client'[j], asleep')
      BY DEF FlagsRight, Flagged, Served, num
    <2>2. Flagged(client[j], asleep) BY <2>1 DEF IndInv, FlagsRight, num
    <2>3. QED BY <2>1, <2>2 DEF Flagged, num
  <1>6. EthAwake' BY DEF EthAwake
  <1>7. QED BY <1>2, <1>3, <1>4, <1>5, <1>6, FromParts DEF num

LEMMA PowerSaveKeeps ==
  ASSUME IndInv, NEW m \in Macs, PowerSave(m)
  PROVE  IndInv'
  <1> DEFINE i == indexOf(m)
             c == client[i]
             off == NotRoutedV4(NotRoutedV6(c))
             d == [off EXCEPT !.power_save_set = TRUE]
  <1>1. /\ kind = "wlan" /\ m \in attached /\ m \notin asleep /\ asleep' = asleep \cup {m}
        /\ kind' = kind /\ up' = up /\ headers' = headers /\ nat' = nat /\ attached' = attached
        /\ shifted' = shifted /\ twice' = twice /\ fails' = fails
    BY DEF PowerSave
  <1>2. /\ TableRight(client, routes, headers)
        /\ fails = 0 => RoutesListed(client, routes) /\ HeadersListed(client, headers)
    BY TableFacts
  <1>3. /\ kind \in {"eth", "wlan"} /\ up \in BOOLEAN /\ shifted \in BOOLEAN /\ twice \in BOOLEAN
        /\ client \in Seq(Clients) /\ num \in Nat /\ num <= MaxClients
        /\ nat \subseteq V4 /\ asleep \subseteq attached /\ attached \subseteq Macs
        /\ fails \in 0..MaxFails
        /\ fails = 0 => NatHeld(client, nat)
    BY Parts
  <1>4. asleep' \subseteq attached BY <1>1, <1>3
  <1>5. CASE Known(m) /\ ~c.power_save_set
    <2>1. routes' = UnrouteAll(c, routes) /\ client' = [client EXCEPT ![i] = d] BY <1>5 DEF PowerSave
    <2>2. i \in 1..num /\ c.mac = m BY <1>3, <1>5, IndexFacts
    <2> HIDE DEF i
    <2>3. c \in Clients /\ RowRight(c) /\ OwnRoutes(c, routes) /\ routes \in Rules
      BY <1>2, <2>2 DEF TableRight, RowFits, num
    <2>4. /\ Rerouted(c, routes, off, routes') /\ Complete(c, routes, off, routes')
          /\ SameHeaders(c, off) /\ RoutesOf(off) = {}
          /\ off.v4_addr = c.v4_addr /\ off.ipv4_set = c.ipv4_set
          /\ off.route_rule_set_v4 = FALSE /\ off.route_rule_set_v6 = 0
      BY <2>1, <2>3, UnroutedRow
    <2>5. off \in Clients /\ RowRight(off) /\ OwnRoutes(off, routes') BY <2>4 DEF Rerouted
    <2> HIDE DEF off
    <2>6. /\ d \in Clients /\ SameHeaders(off, d) /\ RoutesOf(d) = RoutesOf(off)
          /\ d.power_save_set = TRUE
          /\ d.v4_addr = off.v4_addr /\ d.ipv4_set = off.ipv4_set
          /\ d.route_rule_set_v4 = off.route_rule_set_v4 /\ d.route_rule_set_v6 = off.route_rule_set_v6
          /\ RowRight(d) /\ OwnRoutes(d, routes')
      BY <2>5, FlagOfRow
    <2> HIDE DEF d
    <2>7. SameHeaders(c, d) BY <2>4, <2>6, SameTrans
    <2>8. Rerouted(c, routes, d, routes') BY <2>4, <2>6 DEF Rerouted
    <2>9. Complete(c, routes, d, routes') BY <2>4, <2>6 DEF Complete
    <2>10. Flagged(d, asleep')
      <3>1. d.mac = m BY <2>2, <2>7 DEF SameHeaders
      <3>2. QED BY <3>1, <2>4, <2>6, <1>1 DEF Flagged, Served
    <2>11. RowServed(i, d)
      BY <2>1, <2>4, <2>6, <2>7, <2>8, <2>9, <2>10, <1>1, <1>3 DEF RowServed, c
    <2>12. QED BY <1>1, <1>4, <2>2, <2>11, RowServedKeeps DEF c
  <1>6. CASE ~(Known(m) /\ ~c.power_save_set)
    <2>1. client' = client /\ routes' = routes BY <1>6 DEF PowerSave
    <2>2. ASSUME fails = 0, ~shifted, ~twice, NEW j \in 1..num
          PROVE  client[j].mac \in asleep' <=> client[j].mac \in asleep
      <3>1. CASE ~Known(m) BY <3>1, <1>1 DEF Known
      <3>2. CASE Known(m)
        <4>1. i \in 1..num /\ c.mac = m BY <1>3, <3>2, IndexFacts
        <4>2. Flagged(c, asleep) BY <4>1, <2>2 DEF IndInv, FlagsRight
        <4>3. QED BY <4>1, <4>2, <3>2, <1>1, <1>6 DEF Flagged
      <3>3. QED BY <3>1, <3>2
    <2>3. QED BY <1>1, <1>4, <2>1, <2>2, OnlyAsleepKeeps
  <1>7. QED BY <1>5, <1>6

LEMMA RecoverKeeps ==
  ASSUME IndInv, NEW m \in Macs, Recover(m)
  PROVE  IndInv'
  <1> DEFINE i == indexOf(m)
             c0 == client[i]
             c == [c0 EXCEPT !.power_save_set = FALSE]
  <1>1. /\ kind = "wlan" /\ m \in asleep /\ asleep' = asleep \ {m}
        /\ kind' = kind /\ up' = up /\ headers' = headers /\ nat' = nat /\ attached' = attached
        /\ shifted' = shifted /\ twice' = twice
    BY DEF Recover
  <1>2. /\ TableRight(client, routes, headers)
        /\ fails = 0 => RoutesListed(client, routes) /\ HeadersListed(client, headers)
    BY TableFacts
  <1>3. /\ kind \in {"eth", "wlan"} /\ up \in BOOLEAN /\ shifted \in BOOLEAN /\ twice \in BOOLEAN
        /\ client \in Seq(Clients) /\ num \in Nat /\ num <= MaxClients
        /\ nat \subseteq V4 /\ asleep \subseteq attached /\ attached \subseteq Macs
        /\ fails \in 0..MaxFails
        /\ fails = 0 => NatHeld(client, nat)
    BY Parts
  <1>4. asleep' \subseteq attached BY <1>1, <1>3
  <1>5. CASE Known(m) /\ c0.power_save_set
    <2>1. PICK good4 \in 0..Calls(c, "v4"), good6 \in 0..Calls(c, "v6") :
            LET c4 == ClientAfter(c, "v4", routes, good4)
                r4 == RoutesAfter(c, "v4", routes, good4) IN
            /\ good4 + HandlesTaken("v6", good6) <= Len(Unused(routes, NoRoute))
            /\ Counted(good4 + good6, Calls(c, "v4") + Calls(c, "v6"))
            /\ client' = [client EXCEPT ![i] = ClientAfter(c4, "v6", r4, good6)]
            /\ routes' = RoutesAfter(c4, "v6", r4, good6)
      BY <1>5 DEF Recover
    <2> DEFINE c4 == ClientAfter(c, "v4", routes, good4)
               r4 == RoutesAfter(c, "v4", routes, good4)
               d == ClientAfter(c4, "v6", r4, good6)
               rs == RoutesAfter(c4, "v6", r4, good6)
    <2>2. i \in 1..num /\ c0.mac = m BY <1>3, <1>5, IndexFacts
    <2>3. /\ good4 + HandlesTaken("v6", good6) <= Len(Unused(routes, NoRoute))
          /\ Counted(good4 + good6, Calls(c, "v4") + Calls(c, "v6"))
          /\ client' = [client EXCEPT ![i] = d] /\ routes' = rs
      BY <2>1
    <2> HIDE DEF i
    <2>4. c0 \in Clients /\ RowRight(c0) /\ OwnRoutes(c0, routes) /\ routes \in Rules
      BY <1>2, <2>2 DEF TableRight, RowFits, num
    <2> HIDE DEF c0
    <2>5. /\ c \in Clients /\ SameHeaders(c0, c) /\ RoutesOf(c) = RoutesOf(c0)
          /\ c.power_save_set = FALSE /\ c.v4_addr = c0.v4_addr /\ c.ipv4_set = c0.ipv4_set
          /\ RowRight(c) /\ OwnRoutes(c, routes)
      BY <2>4, FlagOfRow
    <2> HIDE DEF c
    <2>6. Rerouted(c0, routes, c, routes) /\ Complete(c0, routes, c, routes)
      BY <2>4, <2>5 DEF Rerouted, Complete
    <2>7. Calls(c, "v4") \in Nat /\ Calls(c, "v6") \in Nat BY <2>5, CallsType
    <2>8. /\ HandlesTaken("v4", good4) = good4 /\ HandlesTaken("v6", good6) \in Nat
          /\ good4 \in Nat /\ good6 \in Nat
      BY <2>7 DEF HandlesTaken
    <2>9. Len(Unused(routes, NoRoute)) \in Nat
      <3>1. MaxRoutes \in Nat BY ClientsAssumption
      <3>2. DOMAIN routes = 1..MaxRoutes BY <2>4 DEF Rules, RouteHdls
      <3>3. Unused(routes, NoRoute) \in Seq(1..MaxRoutes) BY <3>1, <3>2, UnusedFacts
      <3>4. QED BY <3>3
    <2>10. HandlesTaken("v4", good4) <= Len(Unused(routes, NoRoute)) BY <2>3, <2>8, <2>9
    <2>11. /\ Rerouted(c, routes, c4, r4) /\ (good4 = Calls(c, "v4") => Complete(c, routes, c4, r4))
           /\ SameHeaders(c, c4) /\ c4.power_save_set = c.power_save_set
           /\ c4.v4_addr = c.v4_addr /\ c4.ipv4_set = c.ipv4_set /\ c4.v6_addr = c.v6_addr
           /\ c4.route_rule_set_v6 = c.route_rule_set_v6
           /\ ~c.power_save_set /\ good4 = Calls(c, "v4") => (c.ipv4_set => c4.route_rule_set_v4)
           /\ Len(Unused(r4, NoRoute)) >= Len(Unused(routes, NoRoute)) - good4
      BY <2>4, <2>5, <2>10, RoutedRow
    <2>12. c4 \in Clients /\ RowRight(c4) /\ OwnRoutes(c4, r4) /\ r4 \in Rules BY <2>11 DEF Rerouted
    <2> HIDE DEF c4, r4
    <2>13. Calls(c4, "v6") = Calls(c, "v6") BY <2>11 DEF Calls
    <2>14. Len(Unused(r4, NoRoute)) \in Nat
      <3>1. MaxRoutes \in Nat BY ClientsAssumption
      <3>2. DOMAIN r4 = 1..MaxRoutes BY <2>12 DEF Rules, RouteHdls
      <3>3. Unused(r4, NoRoute) \in Seq(1..MaxRoutes) BY <3>1, <3>2, UnusedFacts
      <3>4. QED BY <3>3
    <2>15. HandlesTaken("v6", good6) <= Len(Unused(r4, NoRoute)) BY <2>3, <2>8, <2>9, <2>11, <2>14
    <2>16. good6 \in 0..Calls(c4, "v6") BY <2>13
    <2>17. /\ Rerouted(c4, r4, d, rs) /\ (good6 = Calls(c4, "v6") => Complete(c4, r4, d, rs))
           /\ SameHeaders(c4, d) /\ d.power_save_set = c4.power_save_set
           /\ d.v4_addr = c4.v4_addr /\ d.ipv4_set = c4.ipv4_set /\ d.v6_addr = c4.v6_addr
           /\ d.route_rule_set_v4 = c4.route_rule_set_v4
           /\ ~c4.power_save_set /\ good6 = Calls(c4, "v6") => d.route_rule_set_v6 = Len(c4.v6_addr)
      BY <2>12, <2>15, <2>16, RoutedRow
    <2> HIDE DEF d, rs
    <2>18. /\ fails' \in 0..MaxFails
           /\ fails' = 0 => fails = 0 /\ good4 = Calls(c, "v4") /\ good6 = Calls(c, "v6")
      <3>1. /\ fails' \in 0..MaxFails
            /\ fails' = 0 => fails = 0 /\ good4 + good6 >= Calls(c, "v4") + Calls(c, "v6")
        BY <1>3, <2>3, <2>7, <2>8, CountedFacts
      <3>2. QED BY <3>1, <2>7, <2>8
    <2>19. /\ Rerouted(c0, routes, c4, r4) /\ (good4 = Calls(c, "v4") => Complete(c0, routes, c4, r4))
      BY <2>4, <2>6, <2>11, ReroutedTrans
    <2>20. /\ Rerouted(c0, routes, d, rs)
           /\ good4 = Calls(c, "v4") /\ good6 = Calls(c, "v6") => Complete(c0, routes, d, rs)
      BY <2>4, <2>13, <2>17, <2>19, ReroutedTrans
    <2>21. SameHeaders(c0, d) BY <2>5, <2>11, <2>17, SameTrans
    <2>22. ASSUME fails' = 0 PROVE Flagged(d, asleep')
      <3>1. d.mac = m BY <2>2, <2>21 DEF SameHeaders
      <3>2. d.power_save_set = FALSE BY <2>5, <2>11, <2>17
      <3>3. d.ipv4_set => d.route_rule_set_v4 BY <2>5, <2>11, <2>17, <2>18, <2>22
      <3>4. d.route_rule_set_v6 = Len(d.v6_addr) BY <2>5, <2>11, <2>13, <2>17, <2>18, <2>22
      <3>5. QED BY <3>1, <3>2, <3>3, <3>4, <1>1 DEF Flagged, Served
    <2>23. RowServed(i, d)
      <3>1. d \in Clients BY <2>20 DEF Rerouted
      <3>2. QED BY <2>3, <2>5, <2>11, <2>17, <2>18, <2>20, <2>21, <2>22, <3>1 DEF RowServed, c0
    <2>24. QED BY <1>1, <1>4, <2>2, <2>23, RowServedKeeps DEF c0
  <1>6. CASE ~(Known(m) /\ c0.power_save_set)
    <2>1. client' = client /\ routes' = routes /\ fails' = fails BY <1>6 DEF Recover
    <2>2. ASSUME fails = 0, ~shifted, ~twice, NEW j \in 1..num
          PROVE  client[j].mac \in asleep' <=> client[j].mac \in asleep
      <3>1. CASE ~Known(m) BY <3>1, <1>1 DEF Known
      <3>2. CASE Known(m)
        <4>1. i \in 1..num /\ c0.mac = m BY <1>3, <3>2, IndexFacts
        <4>2. Flagged(c0, asleep) BY <4>1, <2>2 DEF IndInv, FlagsRight
        <4>3. QED BY <4>1, <4>2, <3>2, <1>1, <1>6 DEF Flagged
      <3>3. QED BY <3>1, <3>2
    <2>3. QED BY <1>1, <1>4, <2>1, <2>2, OnlyAsleepKeeps
  <1>7. QED BY <1>5, <1>6

\* handle_*_client_reset_rt(): the IPv6 part of an element is forgotten.
LEMMA ResetRow ==
  ASSUME NEW c \in Clients, RowRight(c), NEW d, d = [NotRoutedV6(c) EXCEPT !.v6_addr = <<>>]
  PROVE  /\ d \in Clients /\ SameHeaders(c, d) /\ RowRight(d) /\ RoutesOf(d) = HandlesV4(c)
         /\ d.v4_addr = c.v4_addr /\ d.ipv4_set = c.ipv4_set /\ d.power_save_set = c.power_save_set
         /\ d.route_rule_set_v4 = c.route_rule_set_v4 /\ d.rt_hdl_v4 = c.rt_hdl_v4
         /\ d.route_rule_set_v6 = 0
         /\ Served(c) => Served(d)
  <1> DEFINE e == NotRoutedV6(c)
  <1>1. 0 \in 0..MaxV6 /\ <<>> \in Seq(RouteHdls) /\ <<>> \in Seq(V6) BY ClientsAssumption
  <1>2. /\ e \in Clients /\ SameHeaders(c, e)
        /\ e.v4_addr = c.v4_addr /\ e.ipv4_set = c.ipv4_set /\ e.power_save_set = c.power_save_set
        /\ e.route_rule_set_v4 = c.route_rule_set_v4 /\ e.rt_hdl_v4 = c.rt_hdl_v4
        /\ e.route_rule_set_v6 = 0 /\ e.rt_hdl_v6 = <<>>
    BY <1>1 DEF Clients, NotRoutedV6, SameHeaders
  <1>3. d = [e EXCEPT !.v6_addr = <<>>] OBVIOUS
  <1> HIDE DEF e
  <1>4. /\ d \in Clients /\ SameHeaders(e, d)
        /\ d.v4_addr = e.v4_addr /\ d.ipv4_set = e.ipv4_set /\ d.power_save_set = e.power_save_set
        /\ d.route_rule_set_v4 = e.route_rule_set_v4 /\ d.rt_hdl_v4 = e.rt_hdl_v4
        /\ d.route_rule_set_v6 = e.route_rule_set_v6 /\ d.rt_hdl_v6 = e.rt_hdl_v6 /\ d.v6_addr = <<>>
    BY <1>1, <1>2, <1>3 DEF Clients, SameHeaders
  <1>5. SameHeaders(c, d) BY <1>2, <1>4, SameTrans
  <1>6. RowRight(d) BY <1>1, <1>2, <1>4, <1>5 DEF RowRight, SameHeaders
  <1>7. RoutesOf(d) = HandlesV4(c) BY <1>2, <1>4 DEF RoutesOf, HandlesV4, HandlesV6
  <1>8. Served(c) => Served(d) BY <1>2, <1>4 DEF Served
  <1>9. QED BY <1>2, <1>4, <1>5, <1>6, <1>7, <1>8

LEMMA ClientResetRtKeeps ==
  ASSUME IndInv, ClientResetRt
  PROVE  IndInv'
  <1> DEFINE U == UNION {HandlesV6(client[i]) : i \in 1..num}
  <1>1. /\ routes' = Unroute(U, routes)
        /\ client' = [i \in 1..num |-> [NotRoutedV6(client[i]) EXCEPT !.v6_addr = <<>>]]
        /\ kind' = kind /\ up' = up /\ headers' = headers /\ nat' = nat /\ attached' = attached
        /\ asleep' = asleep /\ shifted' = shifted /\ twice' = twice /\ fails' = fails
    BY DEF ClientResetRt, history
  <1>2. /\ TableRight(client, routes, headers)
        /\ fails = 0 => RoutesListed(client, routes) /\ HeadersListed(client, headers)
    BY TableFacts
  <1>3. /\ kind \in {"eth", "wlan"} /\ up \in BOOLEAN /\ shifted \in BOOLEAN /\ twice \in BOOLEAN
        /\ client \in Seq(Clients) /\ num \in Nat /\ num <= MaxClients
        /\ nat \subseteq V4 /\ asleep \subseteq attached /\ attached \subseteq Macs
        /\ fails \in 0..MaxFails
        /\ fails = 0 => NatHeld(client, nat)
    BY Parts
  <1>4. ASSUME NEW i \in 1..num
        PROVE  /\ client[i] \in Clients /\ RowFits(client[i], routes, headers)
               /\ client'[i] \in Clients /\ SameHeaders(client[i], client'[i])
               /\ RowRight(client'[i]) /\ RoutesOf(client'[i]) = HandlesV4(client[i])
               /\ client'[i].v4_addr = client[i].v4_addr /\ client'[i].ipv4_set = client[i].ipv4_set
               /\ client'[i].power_save_set = client[i].power_save_set
               /\ client'[i].route_rule_set_v4 = client[i].route_rule_set_v4
               /\ client'[i].rt_hdl_v4 = client[i].rt_hdl_v4 /\ client'[i].route_rule_set_v6 = 0
               /\ Served(client[i]) => Served(client'[i])
    <2>1. client[i] \in Clients /\ RowFits(client[i], routes, headers) BY <1>2, <1>3 DEF TableRight, num
    <2>2. client'[i] = [NotRoutedV6(client[i]) EXCEPT !.v6_addr = <<>>] BY <1>1
    <2>3. QED BY <2>1, <2>2, ResetRow DEF RowFits
  <1>5. client' \in Seq(Clients) /\ Len(client') = num
    <2>1. client' = [i \in 1..num |-> client'[i]] /\ DOMAIN client' = 1..num BY <1>1
    <2>2. client' \in [1..num -> Clients] BY <1>4, <2>1
    <2>3. QED BY <2>2, <1>3
  <1>0. /\ headers' = headers /\ nat' = nat /\ attached' = attached /\ asleep' = asleep
        /\ shifted' = shifted /\ twice' = twice /\ fails' = fails
    BY <1>1
  <1>6. /\ routes \in Rules /\ headers \in Headers
        /\ routes' \in Rules
        /\ \A h \in RouteHdls : routes'[h] = IF h \in U THEN NoRoute ELSE routes[h]
    BY <1>1, <1>2 DEF TableRight, Unroute, Rules
  <1> HIDE DEF U
  <1>7. ASSUME NEW i \in 1..num, NEW h \in HandlesV4(client[i]) PROVE h \notin U /\ h \in RouteHdls
    <2>1. /\ RoutesOf(client[i]) \subseteq RouteHdls /\ HandlesV4(client[i]) \cap HandlesV6(client[i]) = {}
      BY <1>4, <1>6, RoutesOfType DEF RowFits
    <2>2. ASSUME NEW j \in 1..num, h \in HandlesV6(client[j]) PROVE FALSE
      <3>1. j # i BY <2>1, <2>2, <1>7
      <3>2. Apart(client[i], client[j]) BY <3>1, <1>2 DEF TableRight, num
      <3>3. QED BY <2>2, <3>2, <1>7 DEF Apart, RoutesOf
    <2>3. QED BY <2>1, <2>2, <1>7 DEF U, RoutesOf
  <1>8. ASSUME NEW i \in 1..num PROVE RowFits(client'[i], routes', headers')
    <2>1. OwnHeaders(client'[i], headers') BY <1>1, <1>4, SameHeadersOf DEF RowFits
    <2>2. OwnRoutes(client'[i], routes')
      <3>1. client[i].route_rule_set_v4 => client[i].rt_hdl_v4 \in HandlesV4(client[i]) BY DEF HandlesV4
      <3>2. client[i].route_rule_set_v4 =>
              /\ client[i].rt_hdl_v4 \in RouteHdls
              /\ routes[client[i].rt_hdl_v4] = [mac |-> client[i].mac, addr |-> client[i].v4_addr]
        BY <1>4 DEF RowFits, OwnRoutes
      <3>3. client[i].route_rule_set_v4 => routes'[client[i].rt_hdl_v4] = routes[client[i].rt_hdl_v4]
        BY <3>1, <3>2, <1>6, <1>7
      <3>4. client'[i].mac = client[i].mac BY <1>4 DEF SameHeaders
      <3>5. QED BY <3>2, <3>3, <3>4, <1>4 DEF OwnRoutes
    <2>3. QED BY <2>1, <2>2, <1>4 DEF RowFits
  <1>9. ASSUME NEW i \in 1..num, NEW j \in 1..num, i # j PROVE Apart(client'[i], client'[j])
    <2>1. Apart(client[i], client[j]) BY <1>2, <1>9 DEF TableRight, num
    <2>2. HeadersOf(client'[i]) = HeadersOf(client[i]) /\ HeadersOf(client'[j]) = HeadersOf(client[j])
      BY <1>4, SameHeadersOf
    <2>3. QED BY <2>1, <2>2, <1>4 DEF Apart, RoutesOf
  <1>10. TableRight(client', routes', headers')
    BY <1>1, <1>5, <1>6, <1>8, <1>9 DEF TableRight
  <1>11. ASSUME fails' = 0 PROVE RoutesListed(client', routes')
    <2>1. SUFFICES ASSUME NEW h \in RouteHdls, routes'[h] # NoRoute
                   PROVE  \E i \in 1..num : h \in RoutesOf(client'[i])
      BY <1>5 DEF RoutesListed
    <2>2. h \notin U /\ routes[h] # NoRoute BY <2>1, <1>6
    <2>3. PICK i \in 1..num : h \in RoutesOf(client[i]) BY <2>2, <1>1, <1>2, <1>11 DEF RoutesListed, num
    <2>4. h \in HandlesV4(client[i]) BY <2>2, <2>3 DEF U, RoutesOf
    <2>5. QED BY <2>4, <1>4
  <1>12. ASSUME fails' = 0 PROVE HeadersListed(client', headers') /\ NatHeld(client', nat')
    <2>1. \A i \in 1..num : HeadersOf(client'[i]) = HeadersOf(client[i]) BY <1>4, SameHeadersOf
    <2>2. HeadersListed(client', headers') BY <2>1, <1>1, <1>2, <1>5, <1>12 DEF HeadersListed, num
    <2>3. NatHeld(client', nat') BY <1>0, <1>3, <1>4, <1>5, <1>12 DEF NatHeld, num
    <2>4. QED BY <2>2, <2>3
  <1>13. \A i \in 1..num : client'[i].mac = client[i].mac BY <1>4 DEF SameHeaders
  <1>14. MacsOnce' BY <1>0, <1>5, <1>13 DEF IndInv, MacsOnce, num
  <1>15. FlagsRight'
    <2>1. SUFFICES ASSUME fails' = 0, ~shifted', ~twice', NEW j \in 1..Len(client')
                   PROVE  Flagged(client'[j], asleep')
      BY DEF FlagsRight, Flagged, Served, num
    <2>2. Flagged(client[j], asleep) BY <2>1, <1>1, <1>5 DEF IndInv, FlagsRight
    <2>3. Served(client'[j]) /\ client'[j].power_save_set = client[j].power_save_set
      BY <2>2, <1>4, <1>5 DEF Flagged
    <2>4. QED BY <2>2, <2>3, <1>0, <1>5, <1>13 DEF Flagged
  <1>16. EthAwake' BY <1>1 DEF IndInv, EthAwake
  <1>17. QED BY <1>1, <1>3, <1>5, <1>10, <1>11, <1>12, <1>14, <1>15, <1>16, FromParts

LEMMA InterfaceDownKeeps ==
  ASSUME IndInv, InterfaceDown
  PROVE  IndInv'
  <1>1. /\ up' = FALSE /\ client' = <<>> /\ attached' = {} /\ asleep' = {} /\ shifted' = FALSE
        /\ twice' = FALSE /\ kind' = kind
    BY DEF InterfaceDown
  <1>2. /\ TableRight(client, routes, headers)
        /\ fails = 0 => RoutesListed(client, routes) /\ HeadersListed(client, headers)
    BY TableFacts
  <1>3. /\ kind \in {"eth", "wlan"} /\ up \in BOOLEAN /\ shifted \in BOOLEAN /\ twice \in BOOLEAN
        /\ client \in Seq(Clients) /\ num \in Nat /\ num <= MaxClients
        /\ nat \subseteq V4 /\ asleep \subseteq attached /\ attached \subseteq Macs
        /\ fails \in 0..MaxFails
        /\ fails = 0 => NatHeld(client, nat)
    BY Parts
  <1>4. PICK n \in 0..num : Counted(n, num) /\ ClientsDown(n) BY DEF InterfaceDown
  <1>5. fails' \in 0..MaxFails /\ (fails' = 0 => fails = 0 /\ n = num)
    <2>1. n \in Nat /\ n <= num BY <1>3
    <2>2. fails' \in 0..MaxFails /\ (fails' = 0 => fails = 0 /\ n >= num) BY <1>3, <1>4, <2>1, CountedFacts
    <2>3. QED BY <2>1, <2>2, <1>3
  <1> DEFINE tried == 1..(IF n < num THEN n + 1 ELSE num)
             RU == UNION {HandlesV4(client[i]) \cup HandlesV6(client[i]) : i \in tried}
             HU == UNION {HeadersOf(client[i]) : i \in 1..n}
  <1>6. nat' \subseteq nat /\ (n = num => \A i \in 1..num : client[i].ipv4_set => client[i].v4_addr \notin nat')
    BY <1>3, <1>4 DEF ClientsDown
  <1>7. routes' = Unroute(RU, routes) BY <1>4 DEF ClientsDown
  <1>8. PICK rest : headers' = WithoutHeaders(rest \cup HU) BY <1>4 DEF ClientsDown
  <1>9. /\ \A h \in RouteHdls : routes'[h] = IF h \in RU THEN NoRoute ELSE routes[h]
        /\ \A h \in HeaderHdls : headers'[h] = IF h \in rest \cup HU THEN NoMac ELSE headers[h]
        /\ routes' \in Rules /\ headers' \in Headers
    <2> HIDE DEF RU, HU
    <2>1. QED BY <1>2, <1>7, <1>8 DEF TableRight, Unroute, WithoutHeaders, Rules, Headers
  <1>10. Len(client') = 0 /\ client' \in Seq(Clients) /\ 1..Len(client') = {} BY <1>1
  <1>11. TableRight(client', routes', headers') BY <1>9, <1>10 DEF TableRight
  <1>12. ASSUME fails' = 0 PROVE RoutesListed(client', routes')
    <2>1. tried = 1..num BY <1>5, <1>12, <1>3
    <2>2. ASSUME NEW h \in RouteHdls, routes[h] # NoRoute PROVE h \in RU
      <3>1. PICK i \in 1..num : h \in RoutesOf(client[i]) BY <2>2, <1>2, <1>5, <1>12 DEF RoutesListed, num
      <3>2. QED BY <3>1, <2>1 DEF RoutesOf
    <2> HIDE DEF RU
    <2>3. QED BY <2>2, <1>9 DEF RoutesListed
  <1>13. ASSUME fails' = 0 PROVE HeadersListed(client', headers')
    <2>1. ASSUME NEW h \in HeaderHdls, headers[h] # NoMac PROVE h \in HU
      <3>1. PICK i \in 1..num : h \in HeadersOf(client[i]) BY <2>1, <1>2, <1>5, <1>13 DEF HeadersListed, num
      <3>2. QED BY <3>1, <1>5, <1>13
    <2> HIDE DEF HU
    <2>2. QED BY <2>1, <1>9 DEF HeadersListed
  <1>14. ASSUME fails' = 0 PROVE NatHeld(client', nat')
    <2>1. ASSUME NEW x \in nat' PROVE FALSE
      <3>1. PICK i \in 1..num : client[i].ipv4_set /\ client[i].v4_addr = x
        BY <2>1, <1>3, <1>5, <1>6, <1>14 DEF NatHeld, num
      <3>2. QED BY <2>1, <3>1, <1>5, <1>6, <1>14
    <2>2. QED BY <2>1 DEF NatHeld
  <1>15. EthAwake' /\ MacsOnce' /\ FlagsRight' BY <1>1, <1>10 DEF EthAwake, MacsOnce, FlagsRight, num
  <1>16. Len(client') <= MaxClients /\ nat' \subseteq V4
    <2>1. 0 <= MaxClients BY ClientsAssumption
    <2>2. QED BY <2>1, <1>3, <1>6, <1>10
  <1>17. QED BY <1>1, <1>3, <1>5, <1>11, <1>12, <1>13, <1>14, <1>15, <1>16, FromParts

LEMMA Unchanged ==
  ASSUME IndInv, UNCHANGED <<kind, client, driver, nat, history>>, up' \in BOOLEAN
  PROVE  IndInv'
  <1>2. /\ TableRight(client, routes, headers)
        /\ fails = 0 => RoutesListed(client, routes) /\ HeadersListed(client, headers)
    BY TableFacts
  <1>3. /\ kind \in {"eth", "wlan"} /\ up \in BOOLEAN /\ shifted \in BOOLEAN /\ twice \in BOOLEAN
        /\ client \in Seq(Clients) /\ num \in Nat /\ num <= MaxClients
        /\ nat \subseteq V4 /\ asleep \subseteq attached /\ attached \subseteq Macs
        /\ fails \in 0..MaxFails
        /\ fails = 0 => NatHeld(client, nat)
    BY Parts
  <1>4. /\ kind' = kind /\ client' = client /\ routes' = routes /\ headers' = headers /\ nat' = nat
        /\ attached' = attached /\ asleep' = asleep /\ shifted' = shifted /\ twice' = twice /\ fails' = fails
    BY DEF driver, history
  <1>5. EthAwake' /\ MacsOnce' /\ FlagsRight'
    BY <1>4 DEF IndInv, EthAwake, MacsOnce, FlagsRight, num, Flagged, Served
  <1>6. QED BY <1>2, <1>3, <1>4, <1>5, FromParts DEF num

-----------------------------------------------------------------------------
(* The theorems.                                                           *)

LEMMA InitInv == Init => IndInv
  <1> SUFFICES ASSUME Init PROVE IndInv OBVIOUS
  <1>1. num = 0 /\ client = <<>> /\ 1..num = {} /\ 1..Len(client) = {} BY DEF Init, num
  <1>2. TypeOK
    <2>clients. client \in Seq(Clients) /\ num <= MaxClients BY <1>1, ClientsAssumption
    <2>driver. /\ routes \in [RouteHdls -> [mac : Macs, addr : V4 \cup V6] \cup {NoRoute}]
               /\ headers \in [HeaderHdls -> Macs \cup {NoMac}]
      BY DEF Init
    <2>flags. {up, shifted, twice} \subseteq BOOLEAN BY DEF Init
    <2>q. QED BY <2>clients, <2>driver, <2>flags, ClientsAssumption DEF Init, TypeOK
  <1>3. ClientHandlesOwn /\ RowsRight /\ RowsApart BY <1>1 DEF ClientHandlesOwn, RowsRight, RowsApart
  <1>4. NothingLeftInDriver /\ HeadersHeld
    BY DEF Init, NothingLeftInDriver, HeadersHeld, HeadersListed
  <1>5. NatAddressesHeld /\ EthAwake BY DEF Init, NatAddressesHeld, EthAwake
  <1>6. MacsOnce /\ FlagsRight BY <1>1 DEF MacsOnce, FlagsRight
  <1>7. QED BY <1>2, <1>3, <1>4, <1>5, <1>6 DEF IndInv, HandlesKept

LEMMA NextInv == IndInv /\ [Next]_vars => IndInv'
  <1> SUFFICES ASSUME IndInv, [Next]_vars PROVE IndInv' OBVIOUS
  <1>1. ASSUME NEW m \in Macs, WlanClientAdd(m) PROVE IndInv' BY <1>1, WlanClientAddKeeps
  <1>2. ASSUME NEW m \in Macs, NEW a \in V4 \cup V6, NeighAdd(m, a) PROVE IndInv' BY <1>2, NeighAddKeeps
  <1>3. ASSUME NEW m \in Macs, NEW a \in V4 \cup V6, NeighAddNew(m, a) PROVE IndInv' BY <1>3, NeighAddNewKeeps
  <1>4. ASSUME NEW m \in Macs, ClientDown(m) PROVE IndInv' BY <1>4, ClientDownKeeps
  <1>5. ASSUME NEW m \in Macs, PowerSave(m) PROVE IndInv' BY <1>5, PowerSaveKeeps
  <1>6. ASSUME NEW m \in Macs, Recover(m) PROVE IndInv' BY <1>6, RecoverKeeps
  <1>7. CASE ClientResetRt BY <1>7, ClientResetRtKeeps
  <1>8. CASE InterfaceDown BY <1>8, InterfaceDownKeeps
  <1>9. CASE InterfaceUp BY <1>9, Unchanged DEF InterfaceUp
  <1>10. CASE UNCHANGED vars
    <2>1. up' = up /\ UNCHANGED <<kind, client, driver, nat, history>> BY <1>10 DEF vars
    <2>2. QED BY <2>1, Unchanged, Parts
  <1>11. QED BY <1>1, <1>2, <1>3, <1>4, <1>5, <1>6, <1>7, <1>8, <1>9, <1>10 DEF Next

\* Every event of the clients, and every failing call of the driver, keeps the invariant.
THEOREM Inductive == Spec => []IndInv
  <1>1. QED BY InitInv, NextInv, PTL DEF Spec

\* Elements move and calls fail: each element of eth_client[] or wlan_client[] still has its own
\* handles, and what the driver and the NAT have of a client goes when it goes, for any number
\* of clients, addresses, handles and failing calls.
THEOREM HandlesKeptHolds == Spec => []HandlesKept
  <1>1. IndInv => HandlesKept BY DEF IndInv
  <1>2. QED BY <1>1, Inductive, PTL

\* The hardware routes to a client exactly while it is there and awake: handle_wlan_client_pwrsave()
\* and the recovery take all its routes away and bring all of them back.
THEOREM RoutedWhileAwakeHolds == Spec => []RoutedWhileAwake
  <1>1. ASSUME IndInv PROVE RoutedWhileAwake
    <2>1. /\ TableRight(client, routes, headers)
          /\ fails = 0 => RoutesListed(client, routes) /\ HeadersListed(client, headers)
      BY <1>1, TableFacts
    <2>2. /\ asleep \subseteq attached /\ attached \subseteq Macs /\ client \in Seq(Clients)
      BY <1>1, Parts
    <2>3. ASSUME fails = 0, NEW h \in RouteHdls, routes[h] # NoRoute
          PROVE  \E i \in 1..num : h \in RoutesOf(client[i]) /\ routes[h].mac = client[i].mac
      <3>1. PICK i \in 1..num : h \in RoutesOf(client[i]) BY <2>1, <2>3 DEF RoutesListed, num
      <3>2. client[i] \in Clients /\ RowRight(client[i]) /\ OwnRoutes(client[i], routes) /\ routes \in Rules
        BY <2>1 DEF TableRight, RowFits, num
      <3>3. QED BY <3>1, <3>2, RoutesOfType
    <2>4. GoneNotRouted BY <1>1, <2>3 DEF GoneNotRouted, IndInv, MacsOnce
    <2>5. AsleepNotRouted
      <3>1. SUFFICES ASSUME fails = 0, ~shifted, ~twice, NEW h \in RouteHdls, routes[h].mac \in asleep
                     PROVE  FALSE
        BY DEF AsleepNotRouted
      <3>2. CASE routes[h] = NoRoute BY <3>1, <3>2, <2>2, ClientsAssumption DEF NoRoute
      <3>3. CASE routes[h] # NoRoute
        <4>1. PICK i \in 1..num : h \in RoutesOf(client[i]) /\ routes[h].mac = client[i].mac
          BY <2>3, <3>1, <3>3
        <4>2. Flagged(client[i], asleep) BY <1>1, <3>1 DEF IndInv, FlagsRight
        <4>3. ~client[i].route_rule_set_v4 /\ client[i].route_rule_set_v6 = 0
          BY <3>1, <4>1, <4>2 DEF Flagged, Served
        <4>4. RoutesOf(client[i]) = {} BY <4>3 DEF RoutesOf, HandlesV4, HandlesV6
        <4>5. QED BY <4>1, <4>4
      <3>4. QED BY <3>2, <3>3
    <2>6. AwakeRouted BY <1>1 DEF AwakeRouted, IndInv, FlagsRight, Flagged, Served
    <2>7. QED BY <2>4, <2>5, <2>6 DEF RoutedWhileAwake
  <1>2. QED BY <1>1, Inductive, PTL

-----------------------------------------------------------------------------
(* IpacmWan: the inductive invariant                                       *)

\* An upstream is in use while it serves a family or waits for its header.
Busy(s, w)   == s.wan[w].active \cup s.wan[w].partial # {}
BusyOnes(s)  == {w \in Wans : Busy(s, w)}
Tethered(s)  == {p \in Families \X Lans : p[2] \in ToSet(s.tether[p[1]])}
ActiveV4(s)        == {w \in Wans : "v4" \in s.wan[w].active}
Modems       == Wans \ Stas
Users(s, f)  == IF \E w \in Modems : f \in s.wan[w].active THEN 1 ELSE 0
Having(s, f) == {w \in Modems : f \in s.wan[w].ip}

\* The members of one object fit together.
Fit(o, w) ==
  /\ o.active \cup o.partial \subseteq o.ip
  /\ "v6" \notin o.ip => o.addrs = 0
  /\ w \notin Stas => o.partial = {}
  /\ o.header => o.partial = {}
  /\ w \in Stas /\ ~o.header => o.active = {}

Made(s) ==
  /\ s \in Upstreams
  /\ \A w \in Wans : Fit(s.wan[w], w)
  /\ s.rm_set = s.producer_up \X s.consumer_up

\* A modem connection with an address is counted; one with several may be counted still.
PdnCounted(s) == \A f \in Families : s.num_modem_pdn[f] >= Cardinality(Having(s, f))

Sound(s) == Made(s) /\ PdnCounted(s) /\ s.modem = s.flt

\* One upstream is in use, and the members that all objects share are the ones it has set.
Single(s) ==
  /\ \A w, v \in Wans : Busy(s, w) /\ Busy(s, v) => w = v
  /\ \A w \in Wans : s.wan[w].gateway => Busy(s, w)
  /\ \A f \in Families : s.wan_up[f] <=> \E w \in Wans : f \in s.wan[w].active
  /\ \A f \in Families, w \in Modems : f \in s.wan[w].active => s.flt[f] = "firewall"
  /\ s.a2_check = Users(s, "v4") + Users(s, "v6")
  /\ "Q6" \in s.consumer_up <=> \E w \in Modems : s.wan[w].active # {}
  /\ "USB" \in s.consumer_up => \E w \in Stas : s.wan[w].active # {}

\* The lists of the tethered interfaces go with the families in use, each interface once.
Listed(s) ==
  \A f \in Families :
    /\ s.tether[f] # <<>> <=> \E w \in Wans : f \in s.wan[w].active \cup s.wan[w].partial
    /\ \A i, j \in 1..Len(s.tether[f]) : s.tether[f][i] = s.tether[f][j] => i = j

\* Without "usb family" the dependency on USB is there as long as it is needed.
UsbKept(s) == (\E w \in Stas : s.wan[w].active # {}) => "USB" \in s.consumer_up

Added(e)         == e.event = "ROUTE_ADD"
Deleted(w, f, l) == Event("ROUTE_DEL", w, f, l)

\* The routes against what the framework chose, `W' being the objects, `B' the upstreams in use and `T' the
\* interfaces tethered: who is in use is chosen or its deletion is waiting; so is a route that is added;
\* before it is, what is in its way has been deleted, and of two that are added so has the first.
RoutesRight(q, W, B, T, c) ==
  /\ \A w \in B, p \in T :
       c[p[1]][p[2]] = w \/ \E j \in 1..Len(q) : q[j] = Deleted(w, p[1], p[2])
  /\ \A i \in 1..Len(q) : Added(q[i]) /\ q[i].dev \in W =>
       c[q[i].family][q[i].lan] = q[i].dev
         \/ \E j \in (i + 1)..Len(q) : q[j] = Deleted(q[i].dev, q[i].family, q[i].lan)
  /\ \A i \in 1..Len(q), w \in B, p \in T :
       Added(q[i]) /\ (w # q[i].dev \/ p = <<q[i].family, q[i].lan>>) =>
         \E j \in 1..(i - 1) : q[j] = Deleted(w, p[1], p[2])
  /\ \A i, k \in 1..Len(q) :
       i < k /\ Added(q[i]) /\ Added(q[k]) /\ q[i].dev \in W /\ (q[i].dev # q[k].dev \/ q[i] = q[k]) =>
         \E j \in (i + 1)..(k - 1) : q[j] = Deleted(q[i].dev, q[i].family, q[i].lan)

Told(e) == e.event \in {"WAN_UP", "WAN_DOWN"}

\* From the upstreams `x' the event `e' leads to `y'.
Leads(e, x, y) ==
  /\ e.event = "WAN_UP" => x = {} /\ y = {e.dev}
  /\ e.event = "WAN_DOWN" => x = {e.dev} /\ y = {}
  /\ ~Told(e) => x = y

\* The events `q', one after the other, lead from the upstreams `a' to `b'.
Chain(q, a, b) ==
  \E h \in [0..Len(q) -> SUBSET Wans] :
    h[0] = a /\ h[Len(q)] = b /\ \A i \in 1..Len(q) : Leads(q[i], h[i - 1], h[i])

\* The upstream that connection tracking knows.
At == IF conntrack.WanUp THEN {conntrack.table} ELSE {}

\* Who has no object is as new.
Present(s) == \A w \in Wans \ ToSet(wans) : s.wan[w] = NewWan

\* The producers are the tethered interfaces with an address.
LansRight ==
  /\ \A l \in Lans : /\ lan[l].ip # {} => lan[l].up
                     /\ "v6" \notin lan[l].ip => lan[l].addrs = 0
  /\ upstream.producer_up = {l \in Lans : lan[l].ip # {}}

ObjectsKnown == WanTypeOK /\ Sound(upstream) /\ Present(upstream) /\ LansRight

Routed == RoutesRight(queue, ToSet(wans), BusyOnes(upstream), Tethered(upstream), chosen)

\* WAN_UP and WAN_DOWN in the queue lead from what connection tracking knows to the upstream there is.
ToldRight ==
  /\ Chain(queue, At, ActiveV4(upstream))
  /\ conntrack.WanUp <=> conntrack.table # None

InOrder == Single(upstream) /\ Listed(upstream) /\ Routed /\ ToldRight

WanInv ==
  /\ ObjectsKnown
  /\ Orderly => InOrder
  /\ Orderly /\ "usb family" \notin unusual => UsbKept(upstream)

-----------------------------------------------------------------------------
(* Calling the objects in their turn                                       *)

\* What holds at first and is kept by each call holds after all of them.
LEMMA Upto ==
  ASSUME NEW n \in Nat, NEW B, 0 \in B, \A i \in 1..n : i - 1 \in B => i \in B
  PROVE  \A i \in 0..n : i \in B
  <1> DEFINE S == {i \in 0..n : i \notin B}
  <1>1. SUFFICES ASSUME S # {} PROVE FALSE OBVIOUS
  <1>2. S \in SUBSET Nat OBVIOUS
  <1>3. PICK k \in S : \A y \in S : k <= y BY <1>1, <1>2, MinExists
  <1>4. k # 0 /\ k \in 1..n BY <1>3
  <1>5. k - 1 \in 0..n /\ k - 1 \notin S BY <1>3, <1>4
  <1>6. QED BY <1>3, <1>4, <1>5

\* Each call in its turn has a result.
Turns(D, n, b, F) == {g \in [0..n -> D] : g[0] = b /\ \A i \in 1..n : g[i] = F[<<g[i - 1], i>>]}
Closed(D, n, F)   == \A x \in D, i \in 1..n : F[<<x, i>>] \in D

\* What is computed turn by turn stays in a set that every turn keeps.
LEMMA TurnsExist ==
  ASSUME NEW D, NEW n \in Nat, NEW b \in D, NEW F, Closed(D, n, F)
  PROVE  Turns(D, n, b, F) # {}
  <1>a. \A x \in D, i \in 1..n : F[<<x, i>>] \in D BY DEF Closed
  <1> DEFINE P(k) == \E g \in [0..k -> D] : g[0] = b /\ \A i \in 1..k : g[i] = F[<<g[i - 1], i>>]
             B == {k \in 0..n : P(k)}
  <1>1. P(0)
    <2> DEFINE g == [i \in 0..0 |-> b]
    <2>1. g \in [0..0 -> D] /\ g[0] = b /\ 1..0 = {} OBVIOUS
    <2>2. QED BY <2>1
  <1>2. ASSUME NEW k \in 1..n, P(k - 1) PROVE P(k)
    <2>1. PICK g \in [0..(k - 1) -> D] : g[0] = b /\ \A i \in 1..(k - 1) : g[i] = F[<<g[i - 1], i>>] BY <1>2
    <2> DEFINE h == [i \in 0..k |-> IF i = k THEN F[<<g[k - 1], k>>] ELSE g[i]]
    <2>2. \A i \in 0..(k - 1) : g[i] \in D /\ h[i] = g[i] BY <2>1
    <2>3. h[k] = F[<<g[k - 1], k>>] /\ F[<<g[k - 1], k>>] \in D BY <1>a, <2>2
    <2>4. \A i \in 0..k : h[i] \in D
      <3> SUFFICES ASSUME NEW i \in 0..k PROVE h[i] \in D OBVIOUS
      <3>1. CASE i = k BY <2>3, <3>1
      <3>2. CASE i # k
        <4>1. i \in 0..(k - 1) BY <3>2
        <4> QED BY <4>1, <2>2
      <3> QED BY <3>1, <3>2
    <2>5. h \in [0..k -> D] BY <2>4
    <2>6. h[0] = b BY <2>1, <2>2
    <2>7. ASSUME NEW i \in 1..k PROVE h[i] = F[<<h[i - 1], i>>]
      <3>1. h[i - 1] = g[i - 1] BY <2>2
      <3>2. CASE i = k BY <2>3, <3>1, <3>2
      <3>3. CASE i # k
        <4>1. i \in 1..(k - 1) /\ i \in 0..(k - 1) BY <3>3
        <4> QED BY <4>1, <3>1, <2>1, <2>2
      <3> QED BY <3>2, <3>3
    <2> HIDE DEF h
    <2>8. QED BY <2>5, <2>6, <2>7
  <1>3. 0 \in B BY <1>1
  <1>4. \A i \in 1..n : i - 1 \in B => i \in B
    <2> HIDE DEF P
    <2> QED BY <1>2
  <1>5. n \in B
    <2> HIDE DEF B
    <2>1. \A i \in 0..n : i \in B BY <1>3, <1>4, Upto
    <2> QED BY <2>1
  <1>6. QED BY <1>5 DEF Turns
-----------------------------------------------------------------------------
(* What connection tracking is told                                        *)

\* A queue without its first event.
LEMMA TailIs ==
  ASSUME NEW E, NEW q \in Seq(E), q # <<>>
  PROVE  /\ Tail(q) \in Seq(E) /\ Len(Tail(q)) = Len(q) - 1 /\ Len(q) > 0 /\ Len(q) \in Nat
         /\ \A i \in 1..(Len(q) - 1) : Tail(q)[i] = q[i + 1]
         /\ Head(q) = q[1] /\ Head(q) \in E
  OBVIOUS

\* Two queues, one behind the other.
LEMMA JoinIs ==
  ASSUME NEW E, NEW q \in Seq(E), NEW p \in Seq(E)
  PROVE  /\ q \o p \in Seq(E) /\ Len(q \o p) = Len(q) + Len(p) /\ Len(q) \in Nat /\ Len(p) \in Nat
         /\ \A i \in 1..Len(q) : (q \o p)[i] = q[i]
         /\ \A i \in 1..Len(p) : (q \o p)[Len(q) + i] = p[i]
         /\ \A i \in 1..Len(q \o p) : i \in 1..Len(q) \/ (i - Len(q) \in 1..Len(p) /\ (q \o p)[i] = p[i - Len(q)])
  OBVIOUS

\* Events of others tell nothing.
LEMMA ChainSilent ==
  ASSUME NEW q \in Seq(Events), NEW a \in SUBSET Wans, \A i \in 1..Len(q) : ~Told(q[i])
  PROVE  Chain(q, a, a)
  <1> DEFINE h == [i \in 0..Len(q) |-> a]
  <1>1. h \in [0..Len(q) -> SUBSET Wans] /\ h[0] = a /\ h[Len(q)] = a OBVIOUS
  <1>2. ASSUME NEW i \in 1..Len(q) PROVE Leads(q[i], h[i - 1], h[i])
    <2>1. h[i - 1] = a /\ h[i] = a OBVIOUS
    <2>2. QED BY <2>1 DEF Leads, Told
  <1> HIDE DEF h
  <1>3. QED BY <1>1, <1>2 DEF Chain

\* One event is a chain of one step.
LEMMA ChainOne ==
  ASSUME NEW e \in Events, NEW a \in SUBSET Wans, NEW b \in SUBSET Wans, Leads(e, a, b)
  PROVE  Chain(<<e>>, a, b)
  <1> DEFINE h == [i \in 0..1 |-> IF i = 0 THEN a ELSE b]
  <1>1. h \in [0..1 -> SUBSET Wans] /\ h[0] = a /\ h[1] = b OBVIOUS
  <1>2. Len(<<e>>) = 1 /\ <<e>>[1] = e OBVIOUS
  <1>3. ASSUME NEW i \in 1..1 PROVE i = 1 /\ i - 1 = 0 OBVIOUS
  <1> HIDE DEF h
  <1>4. \A i \in 1..1 : Leads(<<e>>[i], h[i - 1], h[i]) BY <1>1, <1>2, <1>3
  <1>5. QED BY <1>1, <1>2, <1>4 DEF Chain

\* Chains join where the first ends and the second begins.
LEMMA ChainJoin ==
  ASSUME NEW q \in Seq(Events), NEW p \in Seq(Events), NEW a, NEW b, NEW c, Chain(q, a, b), Chain(p, b, c)
  PROVE  Chain(q \o p, a, c)
  <1>1. PICK h \in [0..Len(q) -> SUBSET Wans] :
          h[0] = a /\ h[Len(q)] = b /\ \A i \in 1..Len(q) : Leads(q[i], h[i - 1], h[i])
    BY DEF Chain
  <1>2. PICK g \in [0..Len(p) -> SUBSET Wans] :
          g[0] = b /\ g[Len(p)] = c /\ \A i \in 1..Len(p) : Leads(p[i], g[i - 1], g[i])
    BY DEF Chain
  <1> DEFINE n == Len(q)
             m == Len(p)
             k == [i \in 0..(n + m) |-> IF i <= n THEN h[i] ELSE g[i - n]]
  <1>3. n \in Nat /\ m \in Nat /\ Len(q \o p) = n + m OBVIOUS
  <1>4. k \in [0..(n + m) -> SUBSET Wans]
    <2>1. ASSUME NEW i \in 0..(n + m) PROVE (IF i <= n THEN h[i] ELSE g[i - n]) \in SUBSET Wans
      <3>1. CASE i <= n
        <4>1. i \in 0..n BY <3>1, <1>3
        <4>2. h[i] \in SUBSET Wans BY <4>1
        <4> QED BY <4>2, <3>1
      <3>2. CASE ~(i <= n)
        <4>1. i - n \in 0..m BY <3>2, <1>3
        <4>2. g[i - n] \in SUBSET Wans BY <4>1
        <4> QED BY <4>2, <3>2
      <3> QED BY <3>1, <3>2
    <2> QED BY <2>1
  <1>5. \A i \in 0..n : k[i] = h[i] BY <1>3
  <1>6. \A i \in 0..m : k[n + i] = g[i]
    <2> SUFFICES ASSUME NEW i \in 0..m PROVE k[n + i] = g[i] OBVIOUS
    <2>1. CASE i = 0 BY <1>1, <1>2, <1>3, <1>5, <2>1
    <2>2. CASE i # 0
      <3>1. n + i \in 0..(n + m) /\ ~(n + i <= n) /\ (n + i) - n = i BY <1>3, <2>2
      <3> QED BY <3>1
    <2> QED BY <2>1, <2>2
  <1> HIDE DEF k
  <1>7. ASSUME NEW i \in 1..(n + m) PROVE Leads((q \o p)[i], k[i - 1], k[i])
    <2>1. CASE i <= n
      <3>1. i \in 1..n /\ i \in 0..n /\ i - 1 \in 0..n BY <2>1, <1>3
      <3>2. (q \o p)[i] = q[i] BY <3>1
      <3> QED BY <3>1, <3>2, <1>5, <1>1
    <2>2. CASE ~(i <= n)
      <3> DEFINE j == i - n
      <3>1. j \in 1..m /\ j \in 0..m /\ j - 1 \in 0..m /\ n + j = i /\ n + (j - 1) = i - 1 BY <2>2, <1>3
      <3>2. (q \o p)[i] = p[j] BY <3>1
      <3>3. k[i] = g[j] /\ k[i - 1] = g[j - 1] BY <3>1, <1>6
      <3>4. Leads(p[j], g[j - 1], g[j]) BY <1>2, <3>1
      <3> QED BY <3>2, <3>3, <3>4
    <2> QED BY <2>1, <2>2
  <1>8. k[0] = a /\ k[n + m] = c BY <1>1, <1>2, <1>3, <1>5, <1>6
  <1>9. QED BY <1>3, <1>4, <1>7, <1>8 DEF Chain

\* What was told so far grows by the event that is handled.
LEMMA ChainTail ==
  ASSUME NEW q \in Seq(Events), NEW a, NEW b, q # <<>>, Chain(q, a, b)
  PROVE  \E c \in SUBSET Wans : Leads(Head(q), a, c) /\ Chain(Tail(q), c, b)
  <1>1. PICK h \in [0..Len(q) -> SUBSET Wans] :
          h[0] = a /\ h[Len(q)] = b /\ \A i \in 1..Len(q) : Leads(q[i], h[i - 1], h[i])
    BY DEF Chain
  <1> DEFINE n == Len(q) - 1
             k == [i \in 0..n |-> h[i + 1]]
  <1>2. n \in Nat /\ Len(Tail(q)) = n /\ Head(q) = q[1] /\ 1 \in 1..Len(q) /\ Len(q) = n + 1 OBVIOUS
  <1>3. \A i \in 0..n : i + 1 \in 0..Len(q) BY <1>2
  <1>4. k \in [0..n -> SUBSET Wans] BY <1>3
  <1>5. \A i \in 0..n : k[i] = h[i + 1] OBVIOUS
  <1> HIDE DEF k
  <1>6. ASSUME NEW i \in 1..n PROVE Leads(Tail(q)[i], k[i - 1], k[i])
    <2>1. i + 1 \in 1..Len(q) /\ (i + 1) - 1 = i /\ i \in 0..n /\ i - 1 \in 0..n /\ (i - 1) + 1 = i BY <1>2
    <2>2. Tail(q)[i] = q[i + 1] BY <1>2
    <2>3. k[i] = h[i + 1] /\ k[i - 1] = h[i] BY <2>1, <1>5
    <2>4. Leads(q[i + 1], h[(i + 1) - 1], h[i + 1]) BY <2>1, <1>1
    <2> QED BY <2>1, <2>2, <2>3, <2>4
  <1>7. k[0] = h[1] /\ k[n] = b /\ h[1] \in SUBSET Wans BY <1>1, <1>2, <1>5
  <1>8. Leads(Head(q), a, h[1])
    <2>1. Leads(q[1], h[1 - 1], h[1]) BY <1>1, <1>2
    <2>2. 1 - 1 = 0 OBVIOUS
    <2> QED BY <2>1, <2>2, <1>1, <1>2
  <1>9. Chain(Tail(q), h[1], b) BY <1>2, <1>4, <1>6, <1>7 DEF Chain
  <1>10. QED BY <1>7, <1>8, <1>9

\* With nothing left to tell, what was told is so.
LEMMA ChainQuiet ==
  ASSUME NEW q \in Seq(Events), NEW a, NEW b, Chain(q, a, b), \A i \in 1..Len(q) : ~Told(q[i])
  PROVE  a = b
  <1>1. PICK h \in [0..Len(q) -> SUBSET Wans] :
          h[0] = a /\ h[Len(q)] = b /\ \A i \in 1..Len(q) : Leads(q[i], h[i - 1], h[i])
    BY DEF Chain
  <1> DEFINE B == {i \in 0..Len(q) : h[i] = a}
  <1>2. Len(q) \in Nat /\ 0 \in B BY <1>1
  <1>3. \A i \in 1..Len(q) : i - 1 \in B => i \in B BY <1>1 DEF Leads
  <1> HIDE DEF B
  <1>4. \A i \in 0..Len(q) : i \in B BY <1>2, <1>3, Upto
  <1>5. Len(q) \in B BY <1>4, <1>2
  <1>6. QED BY <1>5, <1>1 DEF B
-----------------------------------------------------------------------------
(* Where the routes are while they are reported and handled                *)

\* What is reported otherwise, and a later end of an upstream, leave the routes right.
LEMMA RoutesOther ==
  ASSUME NEW q \in Seq(Events), NEW e \in Events, NEW W, NEW W1, NEW B, NEW T, NEW c,
         RoutesRight(q, W, B, T, c), ~Added(e), W1 \subseteq W
  PROVE  RoutesRight(Append(q, e), W1, B, T, c)
  <1> DEFINE n == Len(q)
             p == Append(q, e)
  <1>1. n \in Nat /\ Len(p) = n + 1 /\ p[n + 1] = e /\ \A i \in 1..n : p[i] = q[i] OBVIOUS
  <1> HIDE DEF p
  <1>2. \A i \in 1..Len(p) : Added(p[i]) => i \in 1..n BY <1>1
  <1>3. ASSUME NEW w \in B, NEW t \in T
        PROVE  c[t[1]][t[2]] = w \/ \E j \in 1..Len(p) : p[j] = Deleted(w, t[1], t[2])
    <2>1. c[t[1]][t[2]] = w \/ \E j \in 1..n : q[j] = Deleted(w, t[1], t[2]) BY DEF RoutesRight
    <2> QED BY <2>1, <1>1
  <1>4. ASSUME NEW i \in 1..Len(p), Added(p[i]) /\ p[i].dev \in W1
        PROVE  c[p[i].family][p[i].lan] = p[i].dev
                 \/ \E j \in (i + 1)..Len(p) : p[j] = Deleted(p[i].dev, p[i].family, p[i].lan)
    <2>1. i \in 1..n /\ p[i] = q[i] BY <1>1, <1>2, <1>4
    <2>2. c[q[i].family][q[i].lan] = q[i].dev
            \/ \E j \in (i + 1)..n : q[j] = Deleted(q[i].dev, q[i].family, q[i].lan)
      BY <2>1, <1>4 DEF RoutesRight
    <2>3. \A j \in (i + 1)..n : j \in 1..n /\ j \in (i + 1)..Len(p) BY <1>1, <2>1
    <2> QED BY <2>1, <2>2, <2>3, <1>1
  <1>5. ASSUME NEW i \in 1..Len(p), NEW w \in B, NEW t \in T,
               Added(p[i]) /\ (w # p[i].dev \/ t = <<p[i].family, p[i].lan>>)
        PROVE  \E j \in 1..(i - 1) : p[j] = Deleted(w, t[1], t[2])
    <2>1. i \in 1..n /\ p[i] = q[i] BY <1>1, <1>2, <1>5
    <2>2. \E j \in 1..(i - 1) : q[j] = Deleted(w, t[1], t[2]) BY <2>1, <1>5 DEF RoutesRight
    <2>3. \A j \in 1..(i - 1) : j \in 1..n BY <1>1, <2>1
    <2> QED BY <2>2, <2>3, <1>1
  <1>6. ASSUME NEW i \in 1..Len(p), NEW k \in 1..Len(p), i < k, Added(p[i]) /\ Added(p[k]) /\ p[i].dev \in W1,
               p[i].dev # p[k].dev \/ p[i] = p[k]
        PROVE  \E j \in (i + 1)..(k - 1) : p[j] = Deleted(p[i].dev, p[i].family, p[i].lan)
    <2>1. i \in 1..n /\ p[i] = q[i] /\ k \in 1..n /\ p[k] = q[k] BY <1>1, <1>2, <1>6
    <2>2. \E j \in (i + 1)..(k - 1) : q[j] = Deleted(q[i].dev, q[i].family, q[i].lan) BY <2>1, <1>6 DEF RoutesRight
    <2>3. \A j \in (i + 1)..(k - 1) : j \in 1..n BY <1>1, <2>1
    <2> QED BY <2>1, <2>2, <2>3, <1>1
  <1>7. QED BY <1>3, <1>4, <1>5, <1>6 DEF RoutesRight, p

\* A route is reported for the only upstream that is chosen.
LEMMA RoutesAdd ==
  ASSUME NEW q \in Seq(Events), NEW W \in SUBSET Wans, NEW B \in SUBSET W, NEW T \in SUBSET (Families \X Lans),
         NEW c \in [Families -> [Lans -> Wans \cup {None}]], RoutesRight(q, W, B, T, c),
         NEW d \in Wans, NEW f \in Families, NEW l \in Lans, c[f][l] # d,
         \A g \in Families, k \in Lans : c[g][k] \notin W \ {d}
  PROVE  RoutesRight(Append(q, Event("ROUTE_ADD", d, f, l)), W, B, T, [c EXCEPT ![f][l] = d])
  <1> DEFINE n == Len(q)
             e == Event("ROUTE_ADD", d, f, l)
             p == Append(q, e)
             b == [c EXCEPT ![f][l] = d]
  <1>1. e \in Events BY DEF Event, Events
  <1>2. n \in Nat /\ Len(p) = n + 1 /\ p[n + 1] = e /\ \A i \in 1..n : p[i] = q[i] BY <1>1
  <1>3. e.dev = d /\ e.family = f /\ e.lan = l /\ e.event = "ROUTE_ADD" BY DEF Event
  <1>4. b[f][l] = d /\ \A g \in Families, k \in Lans : <<g, k>> # <<f, l>> => b[g][k] = c[g][k] OBVIOUS
  <1>5. \A i \in 1..n : q[i] \in Events OBVIOUS
  <1> HIDE DEF p, b, e
  <1>6. \A i \in 1..n : Added(q[i]) => q[i].family \in Families /\ q[i].lan \in Lans
    BY <1>5 DEF Events, Added
  \* What was chosen is chosen still.
  <1>7. \A w \in W, g \in Families, k \in Lans : c[g][k] = w => w = d /\ b[g][k] = w /\ <<g, k>> # <<f, l>>
    BY <1>4
  <1>8. ASSUME NEW w \in B, NEW t \in T
        PROVE  b[t[1]][t[2]] = w \/ \E j \in 1..Len(p) : p[j] = Deleted(w, t[1], t[2])
    <2>1. c[t[1]][t[2]] = w \/ \E j \in 1..n : q[j] = Deleted(w, t[1], t[2]) BY DEF RoutesRight
    <2>2. w \in W /\ t[1] \in Families /\ t[2] \in Lans OBVIOUS
    <2> QED BY <2>1, <2>2, <1>2, <1>7
  <1>9. ASSUME NEW i \in 1..Len(p), Added(p[i]) /\ p[i].dev \in W
        PROVE  b[p[i].family][p[i].lan] = p[i].dev
                 \/ \E j \in (i + 1)..Len(p) : p[j] = Deleted(p[i].dev, p[i].family, p[i].lan)
    <2>1. CASE i = n + 1 BY <2>1, <1>2, <1>3, <1>4
    <2>2. CASE i # n + 1
      <3>1. i \in 1..n /\ p[i] = q[i] BY <1>2, <2>2
      <3>2. c[q[i].family][q[i].lan] = q[i].dev
              \/ \E j \in (i + 1)..n : q[j] = Deleted(q[i].dev, q[i].family, q[i].lan)
        BY <3>1, <1>9 DEF RoutesRight
      <3>3. \A j \in (i + 1)..n : j \in 1..n /\ j \in (i + 1)..Len(p) BY <1>2, <3>1
      <3>4. CASE c[q[i].family][q[i].lan] = q[i].dev BY <3>4, <3>1, <1>6, <1>7, <1>9
      <3>5. CASE c[q[i].family][q[i].lan] # q[i].dev BY <3>5, <3>1, <3>2, <3>3, <1>2
      <3> QED BY <3>4, <3>5
    <2> QED BY <2>1, <2>2
  <1>10. ASSUME NEW i \in 1..Len(p), NEW w \in B, NEW t \in T,
                Added(p[i]) /\ (w # p[i].dev \/ t = <<p[i].family, p[i].lan>>)
         PROVE  \E j \in 1..(i - 1) : p[j] = Deleted(w, t[1], t[2])
    <2>1. CASE i = n + 1
      <3>1. p[i].dev = d /\ p[i].family = f /\ p[i].lan = l /\ i - 1 = n BY <2>1, <1>2, <1>3
      <3>2. c[t[1]][t[2]] = w \/ \E j \in 1..n : q[j] = Deleted(w, t[1], t[2]) BY DEF RoutesRight
      <3>3. w \in W /\ t[1] \in Families /\ t[2] \in Lans /\ t = <<t[1], t[2]>> OBVIOUS
      <3>4. c[t[1]][t[2]] # w BY <3>1, <3>3, <1>7, <1>10
      <3> QED BY <3>1, <3>2, <3>4, <1>2
    <2>2. CASE i # n + 1
      <3>1. i \in 1..n /\ p[i] = q[i] BY <1>2, <2>2
      <3>2. \E j \in 1..(i - 1) : q[j] = Deleted(w, t[1], t[2]) BY <3>1, <1>10 DEF RoutesRight
      <3>3. \A j \in 1..(i - 1) : j \in 1..n BY <1>2, <3>1
      <3> QED BY <3>2, <3>3, <1>2
    <2> QED BY <2>1, <2>2
  <1>11. ASSUME NEW i \in 1..Len(p), NEW k \in 1..Len(p), i < k, Added(p[i]) /\ Added(p[k]) /\ p[i].dev \in W,
                p[i].dev # p[k].dev \/ p[i] = p[k]
         PROVE  \E j \in (i + 1)..(k - 1) : p[j] = Deleted(p[i].dev, p[i].family, p[i].lan)
    <2>1. i \in 1..n /\ p[i] = q[i] BY <1>2, <1>11
    <2>2. CASE k = n + 1
      <3>1. p[k] = e /\ k - 1 = n BY <2>2, <1>2
      <3>2. c[q[i].family][q[i].lan] = q[i].dev
              \/ \E j \in (i + 1)..n : q[j] = Deleted(q[i].dev, q[i].family, q[i].lan)
        BY <2>1, <1>11 DEF RoutesRight
      <3>3. c[q[i].family][q[i].lan] # q[i].dev BY <3>1, <2>1, <1>3, <1>6, <1>7, <1>11
      <3>4. \A j \in (i + 1)..n : j \in 1..n BY <1>2, <2>1
      <3> QED BY <3>1, <3>2, <3>3, <3>4, <2>1, <1>2
    <2>3. CASE k # n + 1
      <3>1. k \in 1..n /\ p[k] = q[k] BY <1>2, <2>3
      <3>2. \E j \in (i + 1)..(k - 1) : q[j] = Deleted(q[i].dev, q[i].family, q[i].lan)
        BY <2>1, <3>1, <1>11 DEF RoutesRight
      <3>3. \A j \in (i + 1)..(k - 1) : j \in 1..n BY <1>2, <2>1, <3>1
      <3> QED BY <2>1, <3>2, <3>3, <1>2
    <2> QED BY <2>2, <2>3
  <1>12. QED BY <1>8, <1>9, <1>10, <1>11 DEF RoutesRight, p, b, e

\* The framework takes a route back.
LEMMA RoutesDel ==
  ASSUME NEW q \in Seq(Events), NEW W \in SUBSET Wans, NEW B \in SUBSET W, NEW T \in SUBSET (Families \X Lans),
         NEW c \in [Families -> [Lans -> Wans \cup {None}]], RoutesRight(q, W, B, T, c),
         NEW f \in Families, NEW l \in Lans, c[f][l] # None
  PROVE  RoutesRight(Append(q, Event("ROUTE_DEL", c[f][l], f, l)), W, B, T, [c EXCEPT ![f][l] = None])
  <1> DEFINE n == Len(q)
             e == Event("ROUTE_DEL", c[f][l], f, l)
             p == Append(q, e)
             b == [c EXCEPT ![f][l] = None]
  <1>1. e \in Events /\ e = Deleted(c[f][l], f, l) BY DEF Event, Events, Deleted
  <1>2. n \in Nat /\ Len(p) = n + 1 /\ p[n + 1] = e /\ \A i \in 1..n : p[i] = q[i] BY <1>1
  <1>3. e.event = "ROUTE_DEL" BY DEF Event
  <1>4. \A g \in Families, k \in Lans : <<g, k>> # <<f, l>> => b[g][k] = c[g][k] OBVIOUS
  <1>5. \A i \in 1..n : q[i] \in Events OBVIOUS
  <1> HIDE DEF p, b, e
  <1>6. \A i \in 1..n : Added(q[i]) => q[i].family \in Families /\ q[i].lan \in Lans
    BY <1>5 DEF Events, Added
  <1>7. \A i \in 1..Len(p) : Added(p[i]) => i \in 1..n BY <1>2, <1>3 DEF Added
  <1>8. RoutesRight(p, W, B, T, c)
    <2>1. ~Added(e) BY <1>3 DEF Added
    <2> QED BY <2>1, <1>1, RoutesOther DEF p
  \* What was chosen is chosen still, or has been taken back with this event.
  <1>9. \A w \in W, g \in Families, k \in Lans :
          c[g][k] = w => b[g][k] = w \/ p[n + 1] = Deleted(w, g, k)
    BY <1>1, <1>2, <1>4
  <1>10. ASSUME NEW w \in B, NEW t \in T
         PROVE  b[t[1]][t[2]] = w \/ \E j \in 1..Len(p) : p[j] = Deleted(w, t[1], t[2])
    <2>1. c[t[1]][t[2]] = w \/ \E j \in 1..Len(p) : p[j] = Deleted(w, t[1], t[2]) BY <1>8 DEF RoutesRight
    <2>2. w \in W /\ t[1] \in Families /\ t[2] \in Lans /\ n + 1 \in 1..Len(p) BY <1>2
    <2> QED BY <2>1, <2>2, <1>9
  <1>11. ASSUME NEW i \in 1..Len(p), Added(p[i]) /\ p[i].dev \in W
         PROVE  b[p[i].family][p[i].lan] = p[i].dev
                  \/ \E j \in (i + 1)..Len(p) : p[j] = Deleted(p[i].dev, p[i].family, p[i].lan)
    <2>1. i \in 1..n /\ p[i] = q[i] /\ n + 1 \in (i + 1)..Len(p) BY <1>2, <1>7, <1>11
    <2>2. c[p[i].family][p[i].lan] = p[i].dev
            \/ \E j \in (i + 1)..Len(p) : p[j] = Deleted(p[i].dev, p[i].family, p[i].lan)
      BY <1>8, <1>11 DEF RoutesRight
    <2>3. p[i].family \in Families /\ p[i].lan \in Lans BY <2>1, <1>6, <1>11
    <2> QED BY <2>1, <2>2, <2>3, <1>9, <1>11
  <1>12. QED BY <1>8, <1>10, <1>11 DEF RoutesRight, p, b, e

\* The first event is handled, and what the upstream posts comes behind the rest.
Handled(q, s) == Tail(q) \o s

\* The event handled leaves, and what is posted behind the rest adds no route.
LEMMA HandledIs ==
  ASSUME NEW q \in Seq(Events), q # <<>>, NEW s \in Seq(Events), \A i \in 1..Len(s) : ~Added(s[i])
  PROVE  /\ Handled(q, s) \in Seq(Events) /\ Len(q) \in Nat /\ Len(q) >= 1 /\ Len(Handled(q, s)) >= Len(q) - 1
         /\ Len(Handled(q, s)) \in Nat
         /\ \A i \in 1..(Len(q) - 1) : Handled(q, s)[i] = q[i + 1]
         /\ \A i \in 1..Len(Handled(q, s)) : Added(Handled(q, s)[i]) => i \in 1..(Len(q) - 1)
  <1> DEFINE t == Tail(q)
  <1>1. t \in Seq(Events) /\ Len(t) = Len(q) - 1 /\ Len(q) \in Nat /\ Len(q) >= 1 /\ \A i \in 1..Len(t) : t[i] = q[i + 1]
    OBVIOUS
  <1>a. t \in Seq(Events) OBVIOUS
  <1> HIDE DEF t
  <1>2. /\ t \o s \in Seq(Events) /\ Len(t \o s) = Len(t) + Len(s) /\ Len(t) \in Nat /\ Len(s) \in Nat
        /\ \A i \in 1..Len(t) : (t \o s)[i] = t[i]
        /\ \A i \in 1..Len(s) : (t \o s)[Len(t) + i] = s[i]
        /\ \A i \in 1..Len(t \o s) : i \in 1..Len(t) \/ (i - Len(t) \in 1..Len(s) /\ (t \o s)[i] = s[i - Len(t)])
    BY ONLY <1>a, s \in Seq(Events), JoinIs, Zenon
  <1> DEFINE p == t \o s
  <1>3. Handled(q, s) = p BY DEF Handled, t
  <1> HIDE DEF p
  <1>4. p \in Seq(Events) /\ Len(p) \in Nat /\ Len(p) >= Len(q) - 1 BY <1>1, <1>2 DEF p
  <1>5. \A i \in 1..(Len(q) - 1) : p[i] = q[i + 1] BY <1>1, <1>2 DEF p
  <1>6. ASSUME NEW i \in 1..Len(p), Added(p[i]) PROVE i \in 1..(Len(q) - 1)
    <2>1. i \in 1..Len(t) \/ (i - Len(t) \in 1..Len(s) /\ p[i] = s[i - Len(t)]) BY <1>2 DEF p
    <2>2. i \in 1..Len(t) BY <2>1, <1>6
    <2> QED BY <2>2, <1>1
  <1> QED BY <1>1, <1>3, <1>4, <1>5, <1>6

\* Another event than the end of a route: the upstreams and the tethered interfaces get fewer at most.
LEMMA RoutesHandled ==
  ASSUME NEW q \in Seq(Events), q # <<>>, NEW s \in Seq(Events), \A i \in 1..Len(s) : ~Added(s[i]),
         NEW W, NEW B, NEW T, NEW c, NEW W1 \in SUBSET W, NEW B1 \in SUBSET B, NEW T1 \in SUBSET T,
         RoutesRight(q, W, B, T, c),
         \A w \in B1, t \in T1 : Head(q) # Deleted(w, t[1], t[2])
  PROVE  RoutesRight(Handled(q, s), W1, B1, T1, c)
  <1> DEFINE p == Handled(q, s)
             n == Len(q)
  <1>1. /\ p \in Seq(Events) /\ n \in Nat /\ n >= 1 /\ Len(p) >= n - 1 /\ Len(p) \in Nat
        /\ \A i \in 1..(n - 1) : p[i] = q[i + 1]
        /\ \A i \in 1..Len(p) : Added(p[i]) => i \in 1..(n - 1)
    BY HandledIs
  <1>2. \A w \in B1, t \in T1 : q[1] # Deleted(w, t[1], t[2]) OBVIOUS
  <1> HIDE DEF p
  <1>3. ASSUME NEW w \in B1, NEW t \in T1
        PROVE  c[t[1]][t[2]] = w \/ \E j \in 1..Len(p) : p[j] = Deleted(w, t[1], t[2])
    <2>1. c[t[1]][t[2]] = w \/ \E j \in 1..n : q[j] = Deleted(w, t[1], t[2]) BY DEF RoutesRight
    <2>2. ASSUME NEW j \in 1..n, q[j] = Deleted(w, t[1], t[2])
          PROVE  j - 1 \in 1..Len(p) /\ p[j - 1] = Deleted(w, t[1], t[2])
      <3>1. j # 1 BY <2>2, <1>2
      <3>2. j - 1 \in 1..(n - 1) /\ (j - 1) + 1 = j BY <3>1, <1>1
      <3> QED BY <3>2, <2>2, <1>1
    <2> QED BY <2>1, <2>2
  <1>4. ASSUME NEW i \in 1..Len(p), Added(p[i]) /\ p[i].dev \in W1
        PROVE  c[p[i].family][p[i].lan] = p[i].dev
                 \/ \E j \in (i + 1)..Len(p) : p[j] = Deleted(p[i].dev, p[i].family, p[i].lan)
    <2>1. i \in 1..(n - 1) /\ p[i] = q[i + 1] /\ i + 1 \in 1..n BY <1>1, <1>4
    <2>2. c[p[i].family][p[i].lan] = p[i].dev
            \/ \E j \in ((i + 1) + 1)..n : q[j] = Deleted(p[i].dev, p[i].family, p[i].lan)
      BY <2>1, <1>4 DEF RoutesRight
    <2>3. \A j \in ((i + 1) + 1)..n : j - 1 \in (i + 1)..Len(p) /\ j - 1 \in 1..(n - 1) /\ (j - 1) + 1 = j
      BY <1>1, <2>1
    <2>4. \A j \in ((i + 1) + 1)..n : p[j - 1] = q[j] BY <2>3, <1>1
    <2> QED BY <2>2, <2>3, <2>4
  <1>5. ASSUME NEW i \in 1..Len(p), NEW w \in B1, NEW t \in T1,
               Added(p[i]) /\ (w # p[i].dev \/ t = <<p[i].family, p[i].lan>>)
        PROVE  \E j \in 1..(i - 1) : p[j] = Deleted(w, t[1], t[2])
    <2>1. i \in 1..(n - 1) /\ p[i] = q[i + 1] /\ i + 1 \in 1..n BY <1>1, <1>5
    <2>2. \E j \in 1..((i + 1) - 1) : q[j] = Deleted(w, t[1], t[2]) BY <2>1, <1>5 DEF RoutesRight
    <2>3. \A j \in 1..((i + 1) - 1) : j # 1 => j - 1 \in 1..(i - 1) /\ j - 1 \in 1..(n - 1) /\ (j - 1) + 1 = j
      BY <1>1, <2>1
    <2>4. \A j \in 1..((i + 1) - 1) : j # 1 => p[j - 1] = q[j] BY <2>3, <1>1
    <2> QED BY <2>2, <2>3, <2>4, <1>2
  <1>6. ASSUME NEW i \in 1..Len(p), NEW k \in 1..Len(p), i < k, Added(p[i]) /\ Added(p[k]) /\ p[i].dev \in W1,
               p[i].dev # p[k].dev \/ p[i] = p[k]
        PROVE  \E j \in (i + 1)..(k - 1) : p[j] = Deleted(p[i].dev, p[i].family, p[i].lan)
    <2>1. /\ i \in 1..(n - 1) /\ p[i] = q[i + 1] /\ i + 1 \in 1..n
          /\ k \in 1..(n - 1) /\ p[k] = q[k + 1] /\ k + 1 \in 1..n /\ i + 1 < k + 1
      BY <1>1, <1>6
    <2>2. \E j \in ((i + 1) + 1)..((k + 1) - 1) : q[j] = Deleted(p[i].dev, p[i].family, p[i].lan)
      BY <2>1, <1>6 DEF RoutesRight
    <2>3. \A j \in ((i + 1) + 1)..((k + 1) - 1) : j - 1 \in (i + 1)..(k - 1) /\ j - 1 \in 1..(n - 1) /\ (j - 1) + 1 = j
      BY <1>1, <2>1
    <2>4. \A j \in ((i + 1) + 1)..((k + 1) - 1) : p[j - 1] = q[j] BY <2>3, <1>1
    <2> QED BY <2>2, <2>3, <2>4
  <1>7. QED BY <1>3, <1>4, <1>5, <1>6 DEF RoutesRight, p

\* The route is there: nothing but the end of this route can be in front of the next one.
LEMMA RoutesServed ==
  ASSUME NEW q \in Seq(Events), q # <<>>, NEW s \in Seq(Events), \A i \in 1..Len(s) : ~Added(s[i]),
         NEW W, NEW B, NEW T, NEW c, NEW d \in W, NEW f, NEW l, Head(q) = Event("ROUTE_ADD", d, f, l),
         B \subseteq {d}, B = {} => T = {}, RoutesRight(q, W, B, T, c)
  PROVE  RoutesRight(Handled(q, s), W, {d}, T \cup {<<f, l>>}, c)
  <1> DEFINE p == Handled(q, s)
             n == Len(q)
  <1>1. /\ p \in Seq(Events) /\ n \in Nat /\ n >= 1 /\ Len(p) >= n - 1 /\ Len(p) \in Nat
        /\ \A i \in 1..(n - 1) : p[i] = q[i + 1]
        /\ \A i \in 1..Len(p) : Added(p[i]) => i \in 1..(n - 1)
    BY HandledIs
  <1>2. q[1].event = "ROUTE_ADD" /\ q[1].dev = d /\ q[1].family = f /\ q[1].lan = l /\ 1 \in 1..n
    BY <1>1 DEF Event
  <1>3. \A w, g, k : Head(q) # Deleted(w, g, k) BY DEF Event, Deleted
  <1>4. RoutesRight(p, W, B, T, c) BY <1>3, RoutesHandled
  <1>5. B = {d} \/ (B = {} /\ T = {}) OBVIOUS
  <1>6. \A i \in 1..n : q[i] \in Events OBVIOUS
  <1> HIDE DEF p
  <1>7. ASSUME NEW w \in {d}, NEW t \in T \cup {<<f, l>>}
        PROVE  c[t[1]][t[2]] = w \/ \E j \in 1..Len(p) : p[j] = Deleted(w, t[1], t[2])
    <2>1. CASE t = <<f, l>>
      <3>1. c[f][l] = d \/ \E j \in (1 + 1)..n : q[j] = Deleted(d, f, l) BY <1>2 DEF RoutesRight, Added
      <3>2. \A j \in (1 + 1)..n : j - 1 \in 1..Len(p) /\ j - 1 \in 1..(n - 1) /\ (j - 1) + 1 = j BY <1>1
      <3>3. \A j \in (1 + 1)..n : p[j - 1] = q[j] BY <3>2, <1>1
      <3> QED BY <3>1, <3>2, <3>3, <2>1
    <2>2. CASE t # <<f, l>>
      <3>1. w \in B /\ t \in T BY <2>2, <1>5
      <3> QED BY <3>1, <1>4 DEF RoutesRight
    <2> QED BY <2>1, <2>2
  <1>8. ASSUME NEW i \in 1..Len(p), NEW w \in {d}, NEW t \in T \cup {<<f, l>>},
               Added(p[i]) /\ (w # p[i].dev \/ t = <<p[i].family, p[i].lan>>)
        PROVE  \E j \in 1..(i - 1) : p[j] = Deleted(w, t[1], t[2])
    <2>1. i \in 1..(n - 1) /\ p[i] = q[i + 1] /\ i + 1 \in 1..n /\ 1 < i + 1 BY <1>1, <1>8
    <2>2. CASE t = <<f, l>>
      <3>1. q[1].dev # q[i + 1].dev \/ q[1] = q[i + 1]
        <4>1. Added(q[i + 1]) BY <1>8, <2>1
        <4>2. CASE d = q[i + 1].dev
          <5>1. q[i + 1].family = f /\ q[i + 1].lan = l BY <4>2, <2>1, <2>2, <1>8
          <5>2. q[1] \in Events /\ q[i + 1] \in Events BY <1>2, <1>6, <2>1
          <5>3. q[1] = Event("ROUTE_ADD", d, f, l) OBVIOUS
          <5>4. q[i + 1] = Event("ROUTE_ADD", d, f, l) BY <5>1, <5>2, <4>1, <4>2 DEF Events, Event, Added
          <5> QED BY <5>3, <5>4
        <4>3. CASE d # q[i + 1].dev BY <4>3, <1>2
        <4> QED BY <4>2, <4>3
      <3>2. \E j \in (1 + 1)..((i + 1) - 1) : q[j] = Deleted(d, f, l)
        BY <3>1, <2>1, <1>2, <1>8 DEF RoutesRight, Added
      <3>3. \A j \in (1 + 1)..((i + 1) - 1) : j - 1 \in 1..(i - 1) /\ j - 1 \in 1..(n - 1) /\ (j - 1) + 1 = j
        BY <1>1, <2>1
      <3>4. \A j \in (1 + 1)..((i + 1) - 1) : p[j - 1] = q[j] BY <3>3, <1>1
      <3> QED BY <3>2, <3>3, <3>4, <2>2
    <2>3. CASE t # <<f, l>>
      <3>1. w \in B /\ t \in T BY <2>3, <1>5
      <3> QED BY <3>1, <1>4, <1>8 DEF RoutesRight
    <2> QED BY <2>2, <2>3
  <1>9. QED BY <1>4, <1>7, <1>8 DEF RoutesRight, p

\* Who is upstream when the first event is a route.
LEMMA RouteHead ==
  ASSUME NEW q \in Seq(Events), q # <<>>, NEW W, NEW B, NEW T, NEW c, NEW d, NEW f, NEW l,
         Head(q) = Event("ROUTE_ADD", d, f, l), RoutesRight(q, W, B, T, c), T # {}
  PROVE  B \subseteq {d} /\ (B # {} => <<f, l>> \notin T)
  <1>1. q[1].event = "ROUTE_ADD" /\ q[1].dev = d /\ q[1].family = f /\ q[1].lan = l /\ 1 \in 1..Len(q)
    BY DEF Event
  <1>2. \A w \in B, t \in T : Added(q[1]) /\ (w # q[1].dev \/ t = <<q[1].family, q[1].lan>>) => 1..(1 - 1) # {}
    BY <1>1 DEF RoutesRight
  <1>3. 1..(1 - 1) = {} OBVIOUS
  <1>4. \A w \in B, t \in T : w = d /\ t # <<f, l>> BY <1>1, <1>2, <1>3 DEF Added
  <1>5. QED BY <1>4
-----------------------------------------------------------------------------
(* What the operations of an upstream change                               *)

Fields == {"wan", "wan_up", "backhaul_is_sta_mode", "tether", "num_modem_pdn", "flt", "modem", "a2_check",
           "consumer_up", "producer_up", "rm_set", "posted"}
Keeps(r, s, F) == \A x \in Fields \ F : r[x] = s[x]

\* Only the object `w' changes, and it keeps its addresses and its header.
Edits(r, s, w) ==
  /\ r \in Upstreams
  /\ \A v \in Wans \ {w} : r.wan[v] = s.wan[v]
  /\ r.wan[w].ip = s.wan[w].ip /\ r.wan[w].addrs = s.wan[w].addrs /\ r.wan[w].header = s.wan[w].header

Crossed(s) == s.rm_set = s.producer_up \X s.consumer_up

Joined(r, s, c) ==
  /\ r.a2_check = IF c = "Q6" THEN s.a2_check + 1 ELSE s.a2_check
  /\ r.consumer_up = s.consumer_up \cup {c}
  /\ Crossed(s) => Crossed(r)

Left(r, s, c) ==
  /\ r.a2_check = IF c = "Q6" THEN s.a2_check - 1 ELSE s.a2_check
  /\ r.consumer_up = IF c = "Q6" /\ s.a2_check = 2 THEN s.consumer_up ELSE s.consumer_up \ {c}
  /\ Crossed(s) => Crossed(r)

\* The route of a USB upstream waits for the header.
Waits(r, s, w, f) ==
  /\ Edits(r, s, w) /\ r.wan[w].gateway
  /\ r.wan[w].active = s.wan[w].active /\ r.wan[w].partial = s.wan[w].partial \cup {f}
  /\ Keeps(r, s, {"wan", "backhaul_is_sta_mode"})

\* The route is there.
Serves(r, s, w, f) ==
  /\ Edits(r, s, w) /\ r.wan[w].gateway
  /\ r.wan[w].active = s.wan[w].active \cup {f} /\ r.wan[w].partial = s.wan[w].partial \ {f}
  /\ r.wan_up = [s.wan_up EXCEPT ![f] = TRUE]
  /\ r.flt = IF w \in Stas THEN s.flt ELSE [s.flt EXCEPT ![f] = "firewall"]
  /\ s.modem = s.flt => r.modem = r.flt
  /\ Joined(r, s, Consumer(w))
  /\ r.posted = IF f = "v4" THEN Append(s.posted, Event("WAN_UP", w, f, None)) ELSE s.posted
  /\ Keeps(r, s, {"wan", "backhaul_is_sta_mode", "wan_up", "flt", "modem", "a2_check", "consumer_up", "rm_set", "posted"})

\* The route has gone.
Ends(r, s, w, f) ==
  /\ Edits(r, s, w) /\ ~r.wan[w].gateway
  /\ r.wan[w].active = s.wan[w].active \ {f} /\ r.wan[w].partial = s.wan[w].partial
  /\ r.wan_up = [s.wan_up EXCEPT ![f] = FALSE]
  /\ \A g \in Families \ {f} : r.flt[g] = s.flt[g]
  /\ f \in s.wan[w].active => Left(r, s, Consumer(w))
  /\ f \notin s.wan[w].active => r.a2_check = s.a2_check /\ r.consumer_up = s.consumer_up /\ r.rm_set = s.rm_set
  /\ Keeps(r, s, {"wan", "wan_up", "flt", "modem", "a2_check", "consumer_up", "rm_set", "posted", "tether"})

EndTold(s, w, f) ==
  IF f = "v4" /\ f \in s.wan[w].active THEN Append(s.posted, Event("WAN_DOWN", w, f, None)) ELSE s.posted

LEMMA EventsMade ==
  ASSUME NEW w \in Wans, NEW f \in Families, NEW l \in Lans
  PROVE  /\ Event("UP_TETHER", w, f, l) \in Events /\ Event("DOWN_TETHER", w, f, l) \in Events
         /\ Event("WAN_UP", w, "v4", None) \in Events /\ Event("WAN_DOWN", w, "v4", None) \in Events
  BY DEF Event, Events

\* One object changes.
LEMMA WanSet ==
  ASSUME NEW s \in Upstreams, NEW w \in Wans, NEW o \in WanObjects, NEW r, r = [s EXCEPT !.wan[w] = o]
  PROVE  /\ r \in Upstreams /\ r.wan[w] = o /\ Keeps(r, s, {"wan"}) /\ s.wan[w] \in WanObjects
         /\ \A v \in Wans \ {w} : r.wan[v] = s.wan[v]
  <1> DEFINE x == [s.wan EXCEPT ![w] = o]
  <1>1. x \in [Wans -> WanObjects] /\ s.wan[w] \in WanObjects BY DEF Upstreams
  <1>2. r = [s EXCEPT !.wan = x] OBVIOUS
  <1>3. x[w] = o /\ \A v \in Wans \ {w} : x[v] = s.wan[v] BY DEF Upstreams
  <1> HIDE DEF x
  <1>4. r \in Upstreams BY <1>1, <1>2 DEF Upstreams
  <1>5. Keeps(r, s, {"wan"}) BY <1>2 DEF Upstreams, Keeps, Fields
  <1>6. r.wan = x BY <1>2 DEF Upstreams
  <1> QED BY <1>1, <1>3, <1>4, <1>5, <1>6

\* A flag or a list of one family changes.
LEMMA FamilySet ==
  ASSUME NEW s \in Upstreams, NEW f \in Families
  PROVE  /\ \A b \in BOOLEAN : [s EXCEPT !.wan_up[f] = b] \in Upstreams
         /\ \A m \in Modes : [s EXCEPT !.flt[f] = m] \in Upstreams
         /\ \A x \in Seq(Lans) : [s EXCEPT !.tether[f] = x] \in Upstreams
         /\ \A x \in Seq(Events) : [s EXCEPT !.posted = x] \in Upstreams
         /\ \A b \in BOOLEAN : [s EXCEPT !.backhaul_is_sta_mode = b] \in Upstreams
         /\ \A n \in Int : [s EXCEPT !.a2_check = n] \in Upstreams
         /\ [s EXCEPT !.modem = s.flt] \in Upstreams
  <1>1. ASSUME NEW b \in BOOLEAN PROVE [s EXCEPT !.wan_up[f] = b] \in Upstreams
    <2> DEFINE x == [s.wan_up EXCEPT ![f] = b]
    <2>1. x \in [Families -> BOOLEAN] /\ [s EXCEPT !.wan_up[f] = b] = [s EXCEPT !.wan_up = x] BY DEF Upstreams
    <2> HIDE DEF x
    <2> QED BY <2>1 DEF Upstreams
  <1>2. ASSUME NEW m \in Modes PROVE [s EXCEPT !.flt[f] = m] \in Upstreams
    <2> DEFINE x == [s.flt EXCEPT ![f] = m]
    <2>1. x \in [Families -> Modes] /\ [s EXCEPT !.flt[f] = m] = [s EXCEPT !.flt = x] BY DEF Upstreams
    <2> HIDE DEF x
    <2> QED BY <2>1 DEF Upstreams
  <1>3. ASSUME NEW y \in Seq(Lans) PROVE [s EXCEPT !.tether[f] = y] \in Upstreams
    <2> DEFINE x == [s.tether EXCEPT ![f] = y]
    <2>1. x \in [Families -> Seq(Lans)] /\ [s EXCEPT !.tether[f] = y] = [s EXCEPT !.tether = x] BY DEF Upstreams
    <2> HIDE DEF x
    <2> QED BY <2>1 DEF Upstreams
  <1>4. \A x \in Seq(Events) : [s EXCEPT !.posted = x] \in Upstreams BY DEF Upstreams
  <1>5. \A b \in BOOLEAN : [s EXCEPT !.backhaul_is_sta_mode = b] \in Upstreams BY DEF Upstreams
  <1>6. [s EXCEPT !.modem = s.flt] \in Upstreams BY DEF Upstreams
  <1>7. \A n \in Int : [s EXCEPT !.a2_check = n] \in Upstreams BY DEF Upstreams
  <1> QED BY <1>1, <1>2, <1>3, <1>4, <1>5, <1>6, <1>7

\* AddRmDependConsumer()
LEMMA ConsumerJoins ==
  ASSUME NEW s \in Upstreams, NEW c \in {"Q6", "USB"}, NEW r, r = AddRmDependConsumer(s, c)
  PROVE  r \in Upstreams /\ Joined(r, s, c) /\ Keeps(r, s, {"a2_check", "consumer_up", "rm_set"})
  <1>1. r.a2_check = (IF c = "Q6" THEN s.a2_check + 1 ELSE s.a2_check) /\ r.consumer_up = s.consumer_up \cup {c}
        /\ r.rm_set = s.rm_set \cup (s.producer_up \X {c}) /\ r.producer_up = s.producer_up
    BY DEF AddRmDependConsumer, Upstreams
  <1>2. Keeps(r, s, {"a2_check", "consumer_up", "rm_set"}) BY DEF AddRmDependConsumer, Upstreams, Keeps, Fields
  <1>3. r \in Upstreams
    <2>1. s.producer_up \X {c} \subseteq Lans \X {"Q6", "USB"} BY DEF Upstreams
    <2>2. s.a2_check + 1 \in Int BY DEF Upstreams
    <2> QED BY <2>1, <2>2 DEF AddRmDependConsumer, Upstreams
  <1>4. Crossed(s) => Crossed(r) BY <1>1 DEF Crossed
  <1> QED BY <1>1, <1>2, <1>3, <1>4 DEF Joined

\* DelRmDependConsumer()
LEMMA ConsumerLeaves ==
  ASSUME NEW s \in Upstreams, NEW c \in {"Q6", "USB"}, NEW r, r = DelRmDependConsumer(s, c)
  PROVE  r \in Upstreams /\ Left(r, s, c) /\ Keeps(r, s, {"a2_check", "consumer_up", "rm_set"})
  <1>1. s.a2_check \in Int BY DEF Upstreams
  <1>2. CASE c = "Q6" /\ s.a2_check = 2
    <2>1. s.a2_check - 1 = 1 BY <1>2
    <2>2. r = [s EXCEPT !.a2_check = 1] BY <1>2, <2>1 DEF DelRmDependConsumer
    <2>a. "v4" \in Families /\ 1 \in Int BY DEF Families
    <2>b. [s EXCEPT !.a2_check = 1] \in Upstreams BY <2>a, FamilySet, Zenon
    <2>3. r \in Upstreams BY <2>2, <2>b
    <2>4. Keeps(r, s, {"a2_check", "consumer_up", "rm_set"}) BY <2>2 DEF Upstreams, Keeps, Fields
    <2>5. r.a2_check = 1 /\ r.consumer_up = s.consumer_up /\ r.rm_set = s.rm_set /\ r.producer_up = s.producer_up
      BY <2>2 DEF Upstreams
    <2> QED BY <2>1, <2>3, <2>4, <2>5, <1>2 DEF Left, Crossed
  <1>3. CASE ~(c = "Q6" /\ s.a2_check = 2)
    <2> DEFINE n == IF c = "Q6" THEN s.a2_check - 1 ELSE s.a2_check
    <2>1. n \in Int /\ ~(c = "Q6" /\ n = 1) BY <1>1, <1>3
    <2>2. r = [s EXCEPT !.a2_check = n, !.consumer_up = @ \ {c}, !.rm_set = @ \ (Lans \X {c})]
      BY <2>1 DEF DelRmDependConsumer
    <2> HIDE DEF n
    <2>a. r \in Upstreams
      <3>1. s.rm_set \ (Lans \X {c}) \in SUBSET (Lans \X {"Q6", "USB"}) /\ s.consumer_up \ {c} \in SUBSET {"Q6", "USB"}
        BY DEF Upstreams
      <3> QED BY <3>1, <2>1, <2>2 DEF Upstreams
    <2>b. Keeps(r, s, {"a2_check", "consumer_up", "rm_set"}) BY <2>2 DEF Upstreams, Keeps, Fields
    <2>3. r.a2_check = n /\ r.consumer_up = s.consumer_up \ {c} /\ r.rm_set = s.rm_set \ (Lans \X {c})
          /\ r.producer_up = s.producer_up
      BY <2>2 DEF Upstreams
    <2>4. Crossed(s) => Crossed(r)
      <3>1. s.producer_up \subseteq Lans BY DEF Upstreams
      <3> QED BY <3>1, <2>3 DEF Crossed
    <2> QED BY <2>a, <2>b, <2>3, <2>4, <1>3 DEF Left, n
  <1> QED BY <1>2, <1>3

LEMMA ConsumerIs ==
  ASSUME NEW w
  PROVE  Consumer(w) \in {"Q6", "USB"} /\ (Consumer(w) = "Q6" <=> w \notin Stas)
  BY DEF Consumer, Sta

\* handle_route_add_evt(): the upstream waits for its header, or serves the family.
LEMMA RouteAddEvtIs ==
  ASSUME NEW s \in Upstreams, NEW w \in Wans, NEW f \in Families, NEW r, r = RouteAddEvt(s, w, f)
  PROVE  /\ w \in Stas /\ ~s.wan[w].header => Waits(r, s, w, f)
         /\ ~(w \in Stas /\ ~s.wan[w].header) => Serves(r, s, w, f)
  <1> DEFINE s1 == [s EXCEPT !.wan[w].gateway = TRUE, !.backhaul_is_sta_mode = Sta(w)]
             s2 == [s1 EXCEPT !.wan[w].partial = @ \ {f}, !.wan_up[f] = TRUE, !.wan[w].active = @ \cup {f}]
             s3 == IF Sta(w) THEN StaFirewallRules(s2, w, f) ELSE InstallWanFilteringRule(FirewallRules(s2, f))
             s4 == IF f = "v4" THEN Posted(s3, Event("WAN_UP", w, f, None)) ELSE s3
  <1> DEFINE o1 == [s.wan[w] EXCEPT !.gateway = TRUE]
             sa == [s EXCEPT !.wan[w] = o1]
  <1>1. s1 \in Upstreams /\ Edits(s1, s, w) /\ s1.wan[w].gateway /\ s1.wan[w].active = s.wan[w].active
        /\ s1.wan[w].partial = s.wan[w].partial /\ Keeps(s1, s, {"wan", "backhaul_is_sta_mode"})
    <2>1. s.wan[w] \in WanObjects BY DEF Upstreams
    <2>2. /\ o1 \in WanObjects /\ o1.gateway /\ o1.active = s.wan[w].active /\ o1.partial = s.wan[w].partial
          /\ o1.ip = s.wan[w].ip /\ o1.addrs = s.wan[w].addrs /\ o1.header = s.wan[w].header
      BY <2>1 DEF WanObjects
    <2>3. s1 = [sa EXCEPT !.backhaul_is_sta_mode = Sta(w)] OBVIOUS
    <2> HIDE DEF o1
    <2>4. sa \in Upstreams /\ sa.wan[w] = o1 /\ Keeps(sa, s, {"wan"}) /\ \A v \in Wans \ {w} : sa.wan[v] = s.wan[v]
      BY <2>2, WanSet
    <2> HIDE DEF sa
    <2>5. Sta(w) \in BOOLEAN BY DEF Sta
    <2>6. s1 \in Upstreams BY <2>3, <2>4, <2>5, FamilySet
    <2>7. s1.wan = sa.wan /\ Keeps(s1, sa, {"backhaul_is_sta_mode"}) BY <2>3, <2>4 DEF Upstreams, Keeps, Fields
    <2>8. Keeps(s1, s, {"wan", "backhaul_is_sta_mode"}) BY <2>4, <2>7 DEF Keeps
    <2> QED BY <2>2, <2>4, <2>6, <2>7, <2>8 DEF Edits
  <1> HIDE DEF s1
  <1>2. CASE w \in Stas /\ ~s.wan[w].header
    <2> DEFINE o2 == [s1.wan[w] EXCEPT !.partial = @ \cup {f}]
    <2>a. r = [s1 EXCEPT !.wan[w].partial = @ \cup {f}] BY <1>2, Zenon DEF RouteAddEvt, Sta, s1
    <2>b. [s1 EXCEPT !.wan[w].partial = @ \cup {f}] = [s1 EXCEPT !.wan[w] = o2] OBVIOUS
    <2>1. r = [s1 EXCEPT !.wan[w] = o2] BY <2>a, <2>b
    <2>2. s1.wan[w] \in WanObjects BY <1>1 DEF Upstreams
    <2>3. /\ o2 \in WanObjects /\ o2.gateway = s1.wan[w].gateway /\ o2.active = s1.wan[w].active
          /\ o2.partial = s1.wan[w].partial \cup {f}
          /\ o2.ip = s1.wan[w].ip /\ o2.addrs = s1.wan[w].addrs /\ o2.header = s1.wan[w].header
      BY <2>2 DEF WanObjects
    <2> HIDE DEF o2
    <2>4. r \in Upstreams /\ r.wan[w] = o2 /\ Keeps(r, s1, {"wan"}) /\ \A v \in Wans \ {w} : r.wan[v] = s1.wan[v]
      BY <1>1, <2>1, <2>3, WanSet
    <2>6. Edits(r, s, w) BY <2>3, <2>4, <1>1 DEF Edits
    <2>7. Keeps(r, s, {"wan", "backhaul_is_sta_mode"}) BY <2>4, <1>1 DEF Keeps
    <2> QED BY <2>3, <2>4, <2>6, <2>7, <1>1, <1>2 DEF Waits
  <1>3. CASE ~(w \in Stas /\ ~s.wan[w].header)
    <2>1. r = AddRmDependConsumer(s4, Consumer(w)) BY <1>3 DEF RouteAddEvt, Sta, s1
    <2>2. /\ s2 \in Upstreams /\ Edits(s2, s, w) /\ s2.wan[w].gateway /\ s2.wan[w].active = s.wan[w].active \cup {f}
          /\ s2.wan[w].partial = s.wan[w].partial \ {f} /\ s2.wan_up = [s.wan_up EXCEPT ![f] = TRUE]
          /\ Keeps(s2, s, {"wan", "backhaul_is_sta_mode", "wan_up"})
      <3> DEFINE o2 == [s1.wan[w] EXCEPT !.partial = @ \ {f}, !.active = @ \cup {f}]
                 sb == [s1 EXCEPT !.wan_up[f] = TRUE]
      <3>1. s1.wan[w] \in WanObjects BY <1>1 DEF Upstreams
      <3>2. /\ o2 \in WanObjects /\ o2.gateway = s1.wan[w].gateway /\ o2.active = s1.wan[w].active \cup {f}
            /\ o2.partial = s1.wan[w].partial \ {f}
            /\ o2.ip = s1.wan[w].ip /\ o2.addrs = s1.wan[w].addrs /\ o2.header = s1.wan[w].header
        BY <3>1 DEF WanObjects
      <3>a. s1 \in Upstreams BY <1>1
      <3>b. [s1 EXCEPT !.wan[w].partial = @ \ {f}, !.wan_up[f] = TRUE, !.wan[w].active = @ \cup {f}]
            = [[s1 EXCEPT !.wan_up[f] = TRUE] EXCEPT !.wan[w] = [s1.wan[w] EXCEPT !.partial = @ \ {f}, !.active = @ \cup {f}]]
        BY ONLY <3>a, <3>1, w \in Wans, f \in Families DEF Upstreams, WanObjects
      <3>3. s2 = [sb EXCEPT !.wan[w] = o2] BY <3>b
      <3> HIDE DEF o2
      <3>4. sb \in Upstreams BY <1>1, FamilySet
      <3>5. sb.wan_up = [s1.wan_up EXCEPT ![f] = TRUE] /\ Keeps(sb, s1, {"wan_up"}) BY <1>1 DEF Upstreams, Keeps, Fields
      <3> HIDE DEF sb, s2
      <3>6. s2 \in Upstreams /\ s2.wan[w] = o2 /\ Keeps(s2, sb, {"wan"}) /\ \A v \in Wans \ {w} : s2.wan[v] = sb.wan[v]
        BY <3>2, <3>3, <3>4, WanSet
      <3>7. s1.wan_up = s.wan_up /\ sb.wan = s1.wan /\ s2.wan_up = sb.wan_up BY <1>1, <3>5, <3>6 DEF Keeps, Fields
      <3>8. Edits(s2, s, w) BY <3>2, <3>6, <3>7, <1>1 DEF Edits
      <3>9. Keeps(s2, s, {"wan", "backhaul_is_sta_mode", "wan_up"}) BY <3>5, <3>6, <1>1 DEF Keeps
      <3> QED BY <3>2, <3>5, <3>6, <3>7, <3>8, <3>9, <1>1
    <2> HIDE DEF s2
    <2>3. /\ s3 \in Upstreams /\ Edits(s3, s2, w) /\ s3.wan[w].gateway = s2.wan[w].gateway /\ s3.wan[w].active = s2.wan[w].active
          /\ s3.wan[w].partial = s2.wan[w].partial
          /\ s3.flt = IF w \in Stas THEN s2.flt ELSE [s2.flt EXCEPT ![f] = "firewall"]
          /\ s2.modem = s2.flt => s3.modem = s3.flt
          /\ Keeps(s3, s2, {"wan", "flt", "modem"})
      <3>1. CASE w \in Stas
        <4> DEFINE o3 == [s2.wan[w] EXCEPT !.firewall = @ \cup {f}]
        <4>1. s3 = [s2 EXCEPT !.wan[w] = o3] BY <3>1 DEF StaFirewallRules, Sta
        <4>2. s2.wan[w] \in WanObjects BY <2>2 DEF Upstreams
        <4>3. /\ o3 \in WanObjects /\ o3.gateway = s2.wan[w].gateway /\ o3.active = s2.wan[w].active
              /\ o3.partial = s2.wan[w].partial
              /\ o3.ip = s2.wan[w].ip /\ o3.addrs = s2.wan[w].addrs /\ o3.header = s2.wan[w].header
          BY <4>2 DEF WanObjects
        <4> HIDE DEF o3
        <4>4. s3 \in Upstreams /\ s3.wan[w] = o3 /\ Keeps(s3, s2, {"wan"}) /\ \A v \in Wans \ {w} : s3.wan[v] = s2.wan[v]
          BY <2>2, <4>1, <4>3, WanSet
        <4>5. s3.flt = s2.flt /\ s3.modem = s2.modem /\ Keeps(s3, s2, {"wan", "flt", "modem"}) BY <4>4 DEF Keeps, Fields
        <4> QED BY <4>3, <4>4, <4>5, <3>1 DEF Edits
      <3>2. CASE w \notin Stas
        <4> DEFINE sc == [s2 EXCEPT !.flt[f] = "firewall"]
        <4>1. s3 = [sc EXCEPT !.modem = sc.flt] BY <3>2 DEF InstallWanFilteringRule, FirewallRules, Sta
        <4>2. sc \in Upstreams BY <2>2, FamilySet DEF Modes
        <4>3. sc.flt = [s2.flt EXCEPT ![f] = "firewall"] /\ Keeps(sc, s2, {"flt"}) BY <2>2 DEF Upstreams, Keeps, Fields
        <4> HIDE DEF sc, s3
        <4>4. s3 \in Upstreams BY <4>1, <4>2, FamilySet
        <4>5. s3.modem = sc.flt /\ Keeps(s3, sc, {"modem"}) BY <4>1, <4>2 DEF Upstreams, Keeps, Fields
        <4>6. s3.wan = s2.wan /\ s3.flt = sc.flt /\ Keeps(s3, s2, {"wan", "flt", "modem"}) BY <4>3, <4>5 DEF Keeps, Fields
        <4> QED BY <4>3, <4>4, <4>5, <4>6, <3>2 DEF Edits
      <3> QED BY <3>1, <3>2
    <2> HIDE DEF s3
    <2>4. /\ s4 \in Upstreams /\ Keeps(s4, s3, {"posted"})
          /\ s4.posted = IF f = "v4" THEN Append(s3.posted, Event("WAN_UP", w, f, None)) ELSE s3.posted
      <3>1. Event("WAN_UP", w, "v4", None) \in Events BY EventsMade DEF Event, Events
      <3>2. s3.posted \in Seq(Events) BY <2>3 DEF Upstreams
      <3>3. Append(s3.posted, Event("WAN_UP", w, "v4", None)) \in Seq(Events) BY <3>1, <3>2
      <3>4. CASE f = "v4"
        <4>1. s4 = [s3 EXCEPT !.posted = Append(@, Event("WAN_UP", w, "v4", None))] BY <3>4 DEF Posted
        <4> QED BY <4>1, <3>3, <3>4, <2>3 DEF Upstreams, Keeps, Fields
      <3>5. CASE f # "v4" BY <3>5, <2>3 DEF Keeps
      <3> QED BY <3>4, <3>5
    <2> HIDE DEF s4
    <2>5. r \in Upstreams /\ Joined(r, s4, Consumer(w)) /\ Keeps(r, s4, {"a2_check", "consumer_up", "rm_set"})
      BY <2>1, <2>4, ConsumerIs, ConsumerJoins
    <2>7. /\ r.wan = s3.wan /\ r.wan_up = s2.wan_up /\ r.flt = s3.flt /\ r.modem = s3.modem /\ r.posted = s4.posted
          /\ s3.posted = s.posted /\ s2.flt = s.flt /\ s2.modem = s.modem
          /\ s4.a2_check = s.a2_check /\ s4.consumer_up = s.consumer_up /\ s4.producer_up = s.producer_up /\ s4.rm_set = s.rm_set
      BY <2>2, <2>3, <2>4, <2>5 DEF Keeps, Fields
    <2>8. Keeps(r, s, {"wan", "backhaul_is_sta_mode", "wan_up", "flt", "modem", "a2_check", "consumer_up", "rm_set", "posted"})
      BY <2>2, <2>3, <2>4, <2>5 DEF Keeps
    <2>9. Joined(r, s, Consumer(w)) BY <2>5, <2>7 DEF Joined, Crossed
    <2>10. Edits(r, s, w) BY <2>2, <2>3, <2>5, <2>7 DEF Edits
    <2> QED BY <2>2, <2>3, <2>4, <2>7, <2>8, <2>9, <2>10, <1>3 DEF Serves
  <1> QED BY <1>2, <1>3

Downs(s, w, f) == [i \in 1..Len(s.tether[f]) |-> Event("DOWN_TETHER", w, f, s.tether[f][i])]

DownTold(r, s, w, f) == r.posted = EndTold(s, w, f) \o Downs(s, w, f)

\* handle_route_del_evt(): the upstream gives up the family, if it served it.
LEMMA RouteDelEvtIs ==
  ASSUME NEW s \in Upstreams, NEW w \in Wans, NEW f \in Families, NEW r, r = RouteDelEvt(s, w, f)
  PROVE  /\ f \in s.wan[w].active => /\ Ends(r, s, w, f) /\ r.flt = s.flt /\ r.modem = s.modem /\ r.tether = s.tether
                                     /\ r.posted = EndTold(s, w, f)
         /\ f \notin s.wan[w].active => /\ Edits(r, s, w) /\ ~r.wan[w].gateway /\ r.wan[w].active = s.wan[w].active
                                        /\ r.wan[w].partial = s.wan[w].partial /\ Keeps(r, s, {"wan"})
  <1> DEFINE o0 == [s.wan[w] EXCEPT !.gateway = FALSE]
             s0 == [s EXCEPT !.wan[w] = o0]
             s1 == DelRmDependConsumer(s0, Consumer(w))
             s2 == IF f = "v4" THEN Posted(s1, Event("WAN_DOWN", w, f, None)) ELSE s1
             o3 == [s2.wan[w] EXCEPT !.active = @ \ {f}]
             s3 == [s2 EXCEPT !.wan_up[f] = FALSE]
  <1>1. s.wan[w] \in WanObjects BY DEF Upstreams
  <1>2. /\ o0 \in WanObjects /\ ~o0.gateway /\ o0.active = s.wan[w].active /\ o0.partial = s.wan[w].partial
        /\ o0.ip = s.wan[w].ip /\ o0.addrs = s.wan[w].addrs /\ o0.header = s.wan[w].header
    BY <1>1 DEF WanObjects
  <1>3. s0 = [s EXCEPT !.wan[w].gateway = FALSE] OBVIOUS
  <1>4. r = IF f \notin s.wan[w].active THEN s0 ELSE [s2 EXCEPT !.wan_up[f] = FALSE, !.wan[w].active = @ \ {f}]
    BY <1>3 DEF RouteDelEvt
  <1> HIDE DEF o0
  <1>5. s0 \in Upstreams /\ s0.wan[w] = o0 /\ Keeps(s0, s, {"wan"}) /\ \A v \in Wans \ {w} : s0.wan[v] = s.wan[v]
    BY <1>2, WanSet
  <1> HIDE DEF s0
  <1>6. CASE f \notin s.wan[w].active BY <1>2, <1>4, <1>5, <1>6 DEF Edits
  <1>7. CASE f \in s.wan[w].active
    <2>1. s1 \in Upstreams /\ Left(s1, s0, Consumer(w)) /\ Keeps(s1, s0, {"a2_check", "consumer_up", "rm_set"})
      BY <1>5, ConsumerIs, ConsumerLeaves
    <2> HIDE DEF s1
    <2>2. s2 \in Upstreams /\ Keeps(s2, s1, {"posted"}) /\ s2.posted = (IF f = "v4" THEN Append(s1.posted, Event("WAN_DOWN", w, f, None)) ELSE s1.posted)
      <3>1. Event("WAN_DOWN", w, "v4", None) \in Events BY DEF Event, Events
      <3>2. s1.posted \in Seq(Events) BY <2>1 DEF Upstreams
      <3>3. Append(s1.posted, Event("WAN_DOWN", w, "v4", None)) \in Seq(Events) BY <3>1, <3>2
      <3>4. CASE f = "v4"
        <4>1. s2 = [s1 EXCEPT !.posted = Append(@, Event("WAN_DOWN", w, "v4", None))] BY <3>4 DEF Posted
        <4> QED BY <4>1, <3>3, <3>4, <2>1 DEF Upstreams, Keeps, Fields
      <3>5. CASE f # "v4" BY <3>5, <2>1 DEF Keeps
      <3> QED BY <3>4, <3>5
    <2> HIDE DEF s2
    <2>3. s2.wan[w] \in WanObjects BY <2>2 DEF Upstreams
    <2>4. s2.wan = s0.wan BY <2>1, <2>2 DEF Keeps, Fields
    <2>5. /\ o3 \in WanObjects /\ ~o3.gateway /\ o3.active = s.wan[w].active \ {f} /\ o3.partial = s.wan[w].partial
          /\ o3.ip = s.wan[w].ip /\ o3.addrs = s.wan[w].addrs /\ o3.header = s.wan[w].header
      BY <2>3, <2>4, <1>2, <1>5 DEF WanObjects
    <2>6. r = [s3 EXCEPT !.wan[w] = o3] BY <1>4, <1>7, <2>2, <2>3 DEF Upstreams, WanObjects
    <2> HIDE DEF o3
    <2>7. s3 \in Upstreams BY <2>2, FamilySet
    <2>8. s3.wan_up = [s2.wan_up EXCEPT ![f] = FALSE] /\ Keeps(s3, s2, {"wan_up"}) BY <2>2 DEF Upstreams, Keeps, Fields
    <2> HIDE DEF s3
    <2>9. r \in Upstreams /\ r.wan[w] = o3 /\ Keeps(r, s3, {"wan"}) /\ \A v \in Wans \ {w} : r.wan[v] = s3.wan[v]
      BY <2>5, <2>6, <2>7, WanSet
    <2>10. /\ s3.wan = s0.wan /\ r.wan_up = s3.wan_up /\ s2.wan_up = s.wan_up /\ r.flt = s.flt /\ r.modem = s.modem /\ r.tether = s.tether
           /\ r.posted = s2.posted /\ s1.posted = s.posted /\ r.a2_check = s1.a2_check /\ r.consumer_up = s1.consumer_up
           /\ r.rm_set = s1.rm_set /\ r.producer_up = s1.producer_up
           /\ s0.a2_check = s.a2_check /\ s0.consumer_up = s.consumer_up /\ s0.rm_set = s.rm_set /\ s0.producer_up = s.producer_up
      BY <1>5, <2>1, <2>2, <2>8, <2>9 DEF Keeps, Fields
    <2>11. Keeps(r, s, {"wan", "wan_up", "flt", "modem", "a2_check", "consumer_up", "rm_set", "posted", "tether"})
      BY <1>5, <2>1, <2>2, <2>8, <2>9 DEF Keeps
    <2>12. Left(r, s, Consumer(w)) BY <2>1, <2>10 DEF Left, Crossed
    <2>13. Edits(r, s, w) BY <2>5, <2>9, <2>10, <1>5 DEF Edits
    <2>14. Ends(r, s, w, f) BY <2>5, <2>8, <2>9, <2>10, <2>11, <2>12, <2>13, <1>7 DEF Ends
    <2>15. r.posted = EndTold(s, w, f) BY <2>2, <2>10, <1>7 DEF EndTold
    <2> QED BY <2>10, <2>14, <2>15, <1>7
  <1> QED BY <1>6, <1>7

\* The firewall and the route go together.
LEMMA RouteWithdrawnIs ==
  ASSUME NEW s \in Upstreams, NEW w \in Wans, NEW f \in Families, f \in s.wan[w].active, NEW r, r = RouteWithdrawn(s, w, f)
  PROVE  Ends(r, s, w, f) /\ (s.modem = s.flt => r.modem = r.flt) /\ r.tether = s.tether /\ r.posted = EndTold(s, w, f)
  <1>1. CASE w \in Stas
    <2> DEFINE o == [s.wan[w] EXCEPT !.firewall = @ \ {f}]
               t == [s EXCEPT !.wan[w] = o]
    <2>1. r = RouteDelEvt(t, w, f) BY <1>1 DEF RouteWithdrawn, Sta
    <2>2. s.wan[w] \in WanObjects BY DEF Upstreams
    <2>3. /\ o \in WanObjects /\ o.active = s.wan[w].active /\ o.partial = s.wan[w].partial
          /\ o.ip = s.wan[w].ip /\ o.addrs = s.wan[w].addrs /\ o.header = s.wan[w].header
      BY <2>2 DEF WanObjects
    <2> HIDE DEF o
    <2>4. t \in Upstreams /\ t.wan[w] = o /\ Keeps(t, s, {"wan"}) /\ \A v \in Wans \ {w} : t.wan[v] = s.wan[v]
      BY <2>3, WanSet
    <2> HIDE DEF t
    <2>5. /\ Ends(r, t, w, f) /\ r.flt = t.flt /\ r.modem = t.modem /\ r.tether = t.tether /\ r.posted = EndTold(t, w, f)
      BY <2>1, <2>3, <2>4, RouteDelEvtIs
    <2>6. /\ t.flt = s.flt /\ t.modem = s.modem /\ t.tether = s.tether /\ t.posted = s.posted /\ t.wan_up = s.wan_up
          /\ t.a2_check = s.a2_check /\ t.consumer_up = s.consumer_up /\ t.rm_set = s.rm_set /\ t.producer_up = s.producer_up
      BY <2>4 DEF Keeps, Fields
    <2>7. Edits(r, s, w) BY <2>3, <2>4, <2>5 DEF Ends, Edits
    <2>8. Keeps(r, s, {"wan", "wan_up", "flt", "modem", "a2_check", "consumer_up", "rm_set", "posted", "tether"})
      BY <2>4, <2>5 DEF Ends, Keeps
    <2>9. Left(r, s, Consumer(w)) BY <2>3, <2>4, <2>5, <2>6 DEF Ends, Left, Crossed
    <2>10. Ends(r, s, w, f) BY <2>3, <2>4, <2>5, <2>6, <2>7, <2>8, <2>9 DEF Ends
    <2>11. r.posted = EndTold(s, w, f) BY <2>3, <2>4, <2>5, <2>6 DEF EndTold
    <2> QED BY <2>5, <2>6, <2>10, <2>11
  <1>2. CASE w \notin Stas
    <2> DEFINE t0 == [s EXCEPT !.flt[f] = "default"]
               t  == [t0 EXCEPT !.modem = t0.flt]
    <2>1. r = RouteDelEvt(t, w, f) BY <1>2 DEF RouteWithdrawn, InstallWanFilteringRule, Sta
    <2>2. t0 \in Upstreams BY FamilySet DEF Modes
    <2>3. t0.flt = [s.flt EXCEPT ![f] = "default"] /\ Keeps(t0, s, {"flt"}) BY DEF Upstreams, Keeps, Fields
    <2> HIDE DEF t0
    <2>4. t \in Upstreams BY <2>2, FamilySet
    <2>5. t.modem = t0.flt /\ Keeps(t, t0, {"modem"}) BY <2>2 DEF Upstreams, Keeps, Fields
    <2> HIDE DEF t
    <2>6. /\ t.wan = s.wan /\ t.tether = s.tether /\ t.posted = s.posted /\ t.wan_up = s.wan_up /\ t.flt = t0.flt
          /\ t.a2_check = s.a2_check /\ t.consumer_up = s.consumer_up /\ t.rm_set = s.rm_set /\ t.producer_up = s.producer_up
      BY <2>3, <2>5 DEF Keeps, Fields
    <2>7. /\ Ends(r, t, w, f) /\ r.flt = t.flt /\ r.modem = t.modem /\ r.tether = t.tether /\ r.posted = EndTold(t, w, f)
      BY <2>1, <2>4, <2>6, RouteDelEvtIs
    <2>8. Edits(r, s, w) BY <2>6, <2>7 DEF Ends, Edits
    <2>9. Keeps(r, s, {"wan", "wan_up", "flt", "modem", "a2_check", "consumer_up", "rm_set", "posted", "tether"})
      BY <2>3, <2>5, <2>7 DEF Ends, Keeps
    <2>10. Left(r, s, Consumer(w)) BY <2>6, <2>7 DEF Ends, Left, Crossed
    <2>11. \A g \in Families \ {f} : r.flt[g] = s.flt[g] BY <2>3, <2>6, <2>7 DEF Upstreams
    <2>12. Ends(r, s, w, f) BY <2>6, <2>7, <2>8, <2>9, <2>10, <2>11 DEF Ends
    <2>13. r.posted = EndTold(s, w, f) BY <2>6, <2>7 DEF EndTold
    <2> QED BY <2>5, <2>6, <2>7, <2>12, <2>13
  <1> QED BY <1>1, <1>2

\* One family of handle_down_evt_ex().
LEMMA FamilyDownIs ==
  ASSUME NEW s \in Upstreams, NEW w \in Wans, NEW f \in Families, NEW r, r = FamilyDown(s, w, f)
  PROVE  /\ Ends(r, s, w, f) /\ r.tether = [s.tether EXCEPT ![f] = <<>>] /\ DownTold(r, s, w, f)
         /\ Downs(s, w, f) \in Seq(Events) /\ EndTold(s, w, f) \in Seq(Events)
  <1> DEFINE t0 == [s EXCEPT !.flt[f] = "default"]
             t  == [t0 EXCEPT !.wan_up[f] = FALSE]
             u  == RouteDelEvt(t, w, f)
             v  == [u EXCEPT !.tether[f] = <<>>]
  <1>1. Downs(s, w, f) \in Seq(Events)
    <2>1. s.tether[f] \in Seq(Lans) BY DEF Upstreams
    <2>2. Len(s.tether[f]) \in Nat /\ \A i \in 1..Len(s.tether[f]) : s.tether[f][i] \in Lans BY <2>1
    <2>3. \A i \in 1..Len(s.tether[f]) : Event("DOWN_TETHER", w, f, s.tether[f][i]) \in Events BY <2>2, EventsMade
    <2> QED BY <2>2, <2>3 DEF Downs
  <1>2. EndTold(s, w, f) \in Seq(Events)
    <2>1. s.posted \in Seq(Events) /\ Event("WAN_DOWN", w, "v4", None) \in Events BY DEF Upstreams, Event, Events
    <2> QED BY <2>1 DEF EndTold
  <1>3. r = [u EXCEPT !.tether[f] = <<>>, !.posted = @ \o Downs(s, w, f)]
    <2>1. [s EXCEPT !.wan_up[f] = FALSE, !.flt[f] = "default"] = t BY DEF Upstreams
    <2>2. u = RouteDelEvt([s EXCEPT !.wan_up[f] = FALSE, !.flt[f] = "default"], w, f) BY <2>1
    <2> HIDE DEF t, u
    <2> QED BY <2>2 DEF FamilyDown, Downs
  <1>4. t0 \in Upstreams BY FamilySet DEF Modes
  <1>5. t0.flt = [s.flt EXCEPT ![f] = "default"] /\ Keeps(t0, s, {"flt"}) BY DEF Upstreams, Keeps, Fields
  <1> HIDE DEF t0
  <1>6. t \in Upstreams BY <1>4, FamilySet
  <1>7. t.wan_up = [t0.wan_up EXCEPT ![f] = FALSE] /\ Keeps(t, t0, {"wan_up"}) BY <1>4 DEF Upstreams, Keeps, Fields
  <1> HIDE DEF t
  <1>8. /\ t.wan = s.wan /\ t.tether = s.tether /\ t.posted = s.posted /\ t0.wan_up = s.wan_up /\ t.flt = t0.flt
        /\ t.a2_check = s.a2_check /\ t.consumer_up = s.consumer_up /\ t.rm_set = s.rm_set /\ t.producer_up = s.producer_up
    BY <1>5, <1>7 DEF Keeps, Fields
  <1>9. t.wan_up[f] = FALSE /\ s.wan_up \in [Families -> BOOLEAN] /\ t.flt \in [Families -> Modes] /\ s.flt \in [Families -> Modes]
    BY <1>4, <1>6, <1>7, <1>8 DEF Upstreams
  <1>10. \A g \in Families \ {f} : t.flt[g] = s.flt[g] BY <1>5, <1>8, <1>9
  <1>11. /\ Edits(u, s, w) /\ ~u.wan[w].gateway /\ u.wan[w].active = s.wan[w].active \ {f} /\ u.wan[w].partial = s.wan[w].partial
         /\ u.wan_up = [s.wan_up EXCEPT ![f] = FALSE] /\ u.flt = t.flt /\ u.tether = s.tether /\ u.posted = EndTold(s, w, f)
         /\ f \in s.wan[w].active => Left(u, s, Consumer(w))
         /\ f \notin s.wan[w].active => u.a2_check = s.a2_check /\ u.consumer_up = s.consumer_up /\ u.rm_set = s.rm_set
         /\ Keeps(u, s, {"wan", "wan_up", "flt", "modem", "a2_check", "consumer_up", "rm_set", "posted", "tether"})
    <2>1. CASE f \in s.wan[w].active
      <3>1. /\ Ends(u, t, w, f) /\ u.flt = t.flt /\ u.modem = t.modem /\ u.tether = t.tether /\ u.posted = EndTold(t, w, f)
        BY <2>1, <1>6, <1>8, RouteDelEvtIs
      <3> HIDE DEF u
      <3>2. Edits(u, s, w) BY <3>1, <1>8 DEF Ends, Edits
      <3>3. Keeps(u, s, {"wan", "wan_up", "flt", "modem", "a2_check", "consumer_up", "rm_set", "posted", "tether"})
        BY <3>1, <1>5, <1>7 DEF Ends, Keeps
      <3>4. Left(u, s, Consumer(w)) BY <2>1, <3>1, <1>8 DEF Ends, Left, Crossed
      <3>5. u.wan_up = [s.wan_up EXCEPT ![f] = FALSE] BY <3>1, <1>7, <1>8, <1>9 DEF Ends
      <3>6. u.posted = EndTold(s, w, f) BY <3>1, <1>8 DEF EndTold
      <3> QED BY <2>1, <3>1, <3>2, <3>3, <3>4, <3>5, <3>6, <1>8 DEF Ends
    <2>2. CASE f \notin s.wan[w].active
      <3>1. /\ Edits(u, t, w) /\ ~u.wan[w].gateway /\ u.wan[w].active = t.wan[w].active
            /\ u.wan[w].partial = t.wan[w].partial /\ Keeps(u, t, {"wan"})
        BY <2>2, <1>6, <1>8, RouteDelEvtIs
      <3> HIDE DEF u
      <3>2. Edits(u, s, w) BY <3>1, <1>8 DEF Edits
      <3>3. Keeps(u, s, {"wan", "wan_up", "flt", "modem", "a2_check", "consumer_up", "rm_set", "posted", "tether"})
        BY <3>1, <1>5, <1>7 DEF Keeps
      <3>4. /\ u.wan_up = t.wan_up /\ u.flt = t.flt /\ u.tether = t.tether /\ u.posted = t.posted /\ u.a2_check = t.a2_check
            /\ u.consumer_up = t.consumer_up /\ u.rm_set = t.rm_set
        BY <3>1 DEF Keeps, Fields
      <3>5. u.posted = EndTold(s, w, f) BY <2>2, <3>4, <1>8 DEF EndTold
      <3> QED BY <2>2, <3>1, <3>2, <3>3, <3>4, <3>5, <1>7, <1>8
    <2> QED BY <2>1, <2>2
  <1> HIDE DEF u
  <1>12. u \in Upstreams BY <1>11 DEF Edits
  <1>a. r = [v EXCEPT !.posted = @ \o Downs(s, w, f)] BY <1>3, <1>12 DEF Upstreams
  <1>13. v \in Upstreams
    <2>1. <<>> \in Seq(Lans) OBVIOUS
    <2> QED BY <2>1, <1>12, FamilySet
  <1>14. v.tether = [u.tether EXCEPT ![f] = <<>>] /\ Keeps(v, u, {"tether"}) BY <1>12 DEF Upstreams, Keeps, Fields
  <1> HIDE DEF v
  <1>15. v.posted = EndTold(s, w, f) BY <1>11, <1>14 DEF Keeps, Fields
  <1>16. EndTold(s, w, f) \o Downs(s, w, f) \in Seq(Events) BY <1>1, <1>2
  <1>17. r \in Upstreams BY <1>a, <1>13, <1>15, <1>16, FamilySet
  <1>18. r.posted = v.posted \o Downs(s, w, f) /\ Keeps(r, v, {"posted"}) BY <1>a, <1>13 DEF Upstreams, Keeps, Fields
  <1>19. /\ r.wan = u.wan /\ r.wan_up = u.wan_up /\ r.flt = u.flt /\ r.tether = v.tether /\ r.a2_check = u.a2_check
         /\ r.consumer_up = u.consumer_up /\ r.rm_set = u.rm_set /\ r.producer_up = u.producer_up
    BY <1>14, <1>18 DEF Keeps, Fields
  <1>20. Keeps(r, s, {"wan", "wan_up", "flt", "modem", "a2_check", "consumer_up", "rm_set", "posted", "tether"})
    BY <1>11, <1>14, <1>18 DEF Keeps
  <1>21. Edits(r, s, w) BY <1>11, <1>17, <1>19 DEF Edits
  <1>22. f \in s.wan[w].active => Left(r, s, Consumer(w)) BY <1>11, <1>19 DEF Left, Crossed
  <1>23. Ends(r, s, w, f) BY <1>10, <1>11, <1>19, <1>20, <1>21, <1>22 DEF Ends
  <1>24. DownTold(r, s, w, f) BY <1>15, <1>18 DEF DownTold
  <1> QED BY <1>1, <1>2, <1>11, <1>14, <1>19, <1>23, <1>24
-----------------------------------------------------------------------------
(* The upstream while one route comes or goes                              *)

LEMMA MadeKept ==
  ASSUME NEW s, Made(s), NEW w \in Wans, NEW r, Edits(r, s, w), Fit(r.wan[w], w), Crossed(s) => Crossed(r)
  PROVE  Made(r)
  BY DEF Made, Edits, Crossed

LEMMA CountedKept ==
  ASSUME NEW s, PdnCounted(s), NEW r, \A w \in Wans : r.wan[w].ip = s.wan[w].ip, r.num_modem_pdn = s.num_modem_pdn
  PROVE  PdnCounted(r)
  <1>1. ASSUME NEW f \in Families PROVE Having(r, f) = Having(s, f) BY DEF Having, Modems
  <1>2. QED BY <1>1 DEF PdnCounted

LEMMA EditsIp ==
  ASSUME NEW s, NEW r, NEW w \in Wans, Edits(r, s, w)
  PROVE  \A v \in Wans : r.wan[v].ip = s.wan[v].ip
  BY DEF Edits

\* All conditions that speak of one upstream hold if it is the only one and they hold for it.
LEMMA SingleIf ==
  ASSUME NEW r \in Upstreams, NEW w \in Wans, Stas \subseteq Wans,
         \A v \in Wans \ {w} : ~Busy(r, v) /\ ~r.wan[v].gateway,
         r.wan[w].gateway => Busy(r, w),
         \A f \in Families : r.wan_up[f] <=> f \in r.wan[w].active,
         w \notin Stas => \A f \in r.wan[w].active : r.flt[f] = "firewall",
         w \in Stas => r.a2_check = 0,
         w \notin Stas => r.a2_check = (IF "v4" \in r.wan[w].active THEN 1 ELSE 0) + (IF "v6" \in r.wan[w].active THEN 1 ELSE 0),
         "Q6" \in r.consumer_up <=> w \notin Stas /\ r.wan[w].active # {},
         "USB" \in r.consumer_up => w \in Stas /\ r.wan[w].active # {}
  PROVE  Single(r)
  <1>1. \A v \in Wans \ {w} : r.wan[v].active = {} BY DEF Busy
  <1>2. \A f \in Families : (\E v \in Wans : f \in r.wan[v].active) <=> f \in r.wan[w].active BY <1>1
  <1>3. \A f \in Families, v \in Modems : f \in r.wan[v].active => v = w /\ w \notin Stas BY <1>1 DEF Modems
  <1>4. CASE w \in Stas
    <2>1. \A f \in Families : Users(r, f) = 0 BY <1>3, <1>4 DEF Users
    <2>2. Users(r, "v4") + Users(r, "v6") = 0 BY <2>1 DEF Families
    <2>3. ~(\E v \in Modems : r.wan[v].active # {}) BY <1>1, <1>4 DEF Modems
    <2>4. \A v, u \in Wans : Busy(r, v) /\ Busy(r, u) => v = u OBVIOUS
    <2> QED BY <1>2, <1>3, <1>4, <2>2, <2>3, <2>4 DEF Single
  <1>5. CASE w \notin Stas
    <2>1. w \in Modems BY <1>5 DEF Modems
    <2>2. \A f \in Families : Users(r, f) = IF f \in r.wan[w].active THEN 1 ELSE 0 BY <1>3, <2>1 DEF Users
    <2>3. r.a2_check = Users(r, "v4") + Users(r, "v6") BY <2>2, <1>5 DEF Families
    <2>4. (\E v \in Modems : r.wan[v].active # {}) <=> r.wan[w].active # {} BY <1>1, <2>1 DEF Modems
    <2>5. \A v, u \in Wans : Busy(r, v) /\ Busy(r, u) => v = u OBVIOUS
    <2>6. "USB" \notin r.consumer_up BY <1>5
    <2>7. \A f \in Families, v \in Modems : f \in r.wan[v].active => r.flt[f] = "firewall" BY <1>3, <1>5
    <2> QED BY <1>2, <1>5, <2>3, <2>4, <2>5, <2>6, <2>7 DEF Single
  <1> QED BY <1>4, <1>5

\* And what follows for the one.
LEMMA SingleThen ==
  ASSUME NEW s \in Upstreams, Single(s), NEW w \in Wans, BusyOnes(s) \subseteq {w}, Stas \subseteq Wans
  PROVE  /\ \A v \in Wans \ {w} : ~Busy(s, v) /\ ~s.wan[v].gateway /\ s.wan[v].active = {}
         /\ s.wan[w].gateway => Busy(s, w)
         /\ \A f \in Families : s.wan_up[f] <=> f \in s.wan[w].active
         /\ w \notin Stas => \A f \in Families : f \in s.wan[w].active => s.flt[f] = "firewall"
         /\ w \in Stas => s.a2_check = 0
         /\ w \notin Stas => s.a2_check = (IF "v4" \in s.wan[w].active THEN 1 ELSE 0) + (IF "v6" \in s.wan[w].active THEN 1 ELSE 0)
         /\ "Q6" \in s.consumer_up <=> w \notin Stas /\ s.wan[w].active # {}
         /\ "USB" \in s.consumer_up => w \in Stas /\ s.wan[w].active # {}
  <1>1. \A v \in Wans \ {w} : ~Busy(s, v) BY DEF BusyOnes
  <1>2. \A v \in Wans \ {w} : s.wan[v].active = {} /\ ~s.wan[v].gateway BY <1>1 DEF Busy, Single
  <1>3. \A f \in Families : (\E v \in Wans : f \in s.wan[v].active) <=> f \in s.wan[w].active BY <1>2
  <1>4. \A f \in Families : s.wan_up[f] <=> f \in s.wan[w].active BY <1>3 DEF Single
  <1>5. \A f \in Families, v \in Modems : f \in s.wan[v].active => v = w /\ w \notin Stas BY <1>2 DEF Modems
  <1>6. s.a2_check = Users(s, "v4") + Users(s, "v6") BY DEF Single
  <1>7. CASE w \in Stas
    <2>1. \A f \in Families : Users(s, f) = 0 BY <1>5, <1>7 DEF Users
    <2>2. s.a2_check = 0 BY <2>1, <1>6 DEF Families
    <2>3. ~(\E v \in Modems : s.wan[v].active # {}) BY <1>2, <1>7 DEF Modems
    <2>4. "Q6" \notin s.consumer_up BY <2>3 DEF Single
    <2>5. "USB" \in s.consumer_up => s.wan[w].active # {}
      <3>1. "USB" \in s.consumer_up => \E v \in Stas : s.wan[v].active # {} BY DEF Single
      <3> QED BY <3>1, <1>2
    <2>6. s.wan[w].gateway => Busy(s, w) BY DEF Single
    <2> QED BY <1>1, <1>2, <1>4, <1>7, <2>2, <2>4, <2>5, <2>6
  <1>8. CASE w \notin Stas
    <2>1. w \in Modems BY <1>8 DEF Modems
    <2>2. \A f \in Families : Users(s, f) = IF f \in s.wan[w].active THEN 1 ELSE 0 BY <1>5, <2>1 DEF Users
    <2>3. s.a2_check = (IF "v4" \in s.wan[w].active THEN 1 ELSE 0) + (IF "v6" \in s.wan[w].active THEN 1 ELSE 0)
      BY <2>2, <1>6 DEF Families
    <2>4. (\E v \in Modems : s.wan[v].active # {}) <=> s.wan[w].active # {} BY <1>2, <2>1 DEF Modems
    <2>5. "Q6" \in s.consumer_up <=> s.wan[w].active # {} BY <2>4 DEF Single
    <2>6. "USB" \notin s.consumer_up
      <3>1. "USB" \in s.consumer_up => \E v \in Stas : s.wan[v].active # {} BY DEF Single
      <3> QED BY <3>1, <1>2, <1>8
    <2>7. \A f \in Families : f \in s.wan[w].active => s.flt[f] = "firewall" BY <2>1 DEF Single
    <2>8. s.wan[w].gateway => Busy(s, w) BY DEF Single
    <2> QED BY <1>1, <1>2, <1>4, <1>8, <2>3, <2>5, <2>6, <2>7, <2>8
  <1> QED BY <1>7, <1>8

\* What is posted leads from the upstreams `a' to those that are there now, and is no route.
Own(q)     == \A i \in 1..Len(q) : ~Added(q[i])
Says(s, a) == Chain(s.posted, a, ActiveV4(s)) /\ Own(s.posted)

\* What the upstream posts adds no route.
LEMMA OwnGrows ==
  ASSUME NEW q \in Seq(Events), Own(q)
  PROVE  /\ \A e \in Events : ~Added(e) => Own(Append(q, e))
         /\ \A p \in Seq(Events) : Own(p) => Own(q \o p)
  <1>1. ASSUME NEW e \in Events, ~Added(e) PROVE Own(Append(q, e))
    <2>1. \A i \in 1..Len(Append(q, e)) : Append(q, e)[i] = e \/ (i \in 1..Len(q) /\ Append(q, e)[i] = q[i]) OBVIOUS
    <2> QED BY <2>1, <1>1 DEF Own
  <1>2. ASSUME NEW p \in Seq(Events), Own(p) PROVE Own(q \o p)
    <2>1. \A i \in 1..Len(q \o p) : (i \in 1..Len(q) /\ (q \o p)[i] = q[i]) \/ (i - Len(q) \in 1..Len(p) /\ (q \o p)[i] = p[i - Len(q)])
      OBVIOUS
    <2> QED BY <2>1, <1>2 DEF Own
  <1> QED BY <1>1, <1>2

\* The only upstream may wait for its header.
LEMMA WaitsSingle ==
  ASSUME NEW s \in Upstreams, Single(s), NEW w \in Stas, BusyOnes(s) \subseteq {w}, NEW f \in Families, Stas \subseteq Wans,
         NEW r, Waits(r, s, w, f)
  PROVE  Single(r) /\ BusyOnes(r) \subseteq {w} /\ ActiveV4(r) = ActiveV4(s) /\ (UsbKept(s) => UsbKept(r)) /\ r.posted = s.posted
  <1>1. /\ r \in Upstreams /\ w \in Wans /\ \A v \in Wans \ {w} : r.wan[v] = s.wan[v]
        /\ r.wan[w].gateway /\ r.wan[w].active = s.wan[w].active /\ r.wan[w].partial # {}
    BY DEF Waits, Edits
  <1>2. r.a2_check = s.a2_check /\ r.consumer_up = s.consumer_up /\ r.wan_up = s.wan_up /\ r.flt = s.flt /\ r.posted = s.posted
    BY DEF Waits, Keeps, Fields
  <1>3. \A v \in Wans \ {w} : ~Busy(r, v) /\ ~r.wan[v].gateway BY <1>1, SingleThen DEF Busy
  <1>4. Busy(r, w) BY <1>1 DEF Busy
  <1>5. Single(r) BY <1>1, <1>2, <1>3, <1>4, SingleThen, SingleIf
  <1>6. BusyOnes(r) \subseteq {w} BY <1>3 DEF BusyOnes
  <1>7. ActiveV4(r) = ActiveV4(s) BY <1>1 DEF ActiveV4
  <1>8. UsbKept(s) => UsbKept(r) BY <1>1, <1>2 DEF UsbKept
  <1> QED BY <1>2, <1>5, <1>6, <1>7, <1>8

LEMMA AppendChain ==
  ASSUME NEW q \in Seq(Events), NEW e \in Events, NEW a, NEW b \in SUBSET Wans, NEW c \in SUBSET Wans, Chain(q, a, b), Leads(e, b, c)
  PROVE  Chain(Append(q, e), a, c)
  <1>1. Append(q, e) = q \o <<e>> /\ <<e>> \in Seq(Events) OBVIOUS
  <1>2. QED BY <1>1, ChainOne, ChainJoin

\* The only upstream may serve one more family.
LEMMA ServesSingle ==
  ASSUME NEW s \in Upstreams, Single(s), NEW w \in Wans, BusyOnes(s) \subseteq {w}, NEW f \in Families, Stas \subseteq Wans,
         f \notin s.wan[w].active, NEW r, Serves(r, s, w, f), NEW a, Says(s, a)
  PROVE  Single(r) /\ BusyOnes(r) \subseteq {w} /\ Says(r, a) /\ UsbKept(r)
  <1>1. /\ r \in Upstreams /\ \A v \in Wans \ {w} : r.wan[v] = s.wan[v]
        /\ r.wan[w].gateway /\ r.wan[w].active = s.wan[w].active \cup {f}
    BY DEF Serves, Edits
  <1>2. \A v \in Wans \ {w} : ~Busy(r, v) /\ ~r.wan[v].gateway BY <1>1, SingleThen DEF Busy
  <1>3. Busy(r, w) BY <1>1 DEF Busy
  <1>4. \A g \in Families : r.wan_up[g] <=> g \in r.wan[w].active
    <2>1. r.wan_up = [s.wan_up EXCEPT ![f] = TRUE] /\ s.wan_up \in [Families -> BOOLEAN] BY DEF Serves, Upstreams
    <2>2. \A g \in Families : s.wan_up[g] <=> g \in s.wan[w].active BY SingleThen
    <2> QED BY <2>1, <2>2, <1>1
  <1>5. w \notin Stas => \A g \in r.wan[w].active : r.flt[g] = "firewall"
    <2> SUFFICES ASSUME w \notin Stas, NEW g \in r.wan[w].active PROVE r.flt[g] = "firewall" OBVIOUS
    <2>1. r.flt = [s.flt EXCEPT ![f] = "firewall"] /\ s.flt \in [Families -> Modes] BY DEF Serves, Upstreams
    <2>2. \A h \in Families : h \in s.wan[w].active => s.flt[h] = "firewall" BY SingleThen
    <2>3. g \in Families BY <1>1 DEF Upstreams, WanObjects
    <2> QED BY <2>1, <2>2, <2>3, <1>1
  <1>6. /\ w \in Stas => r.a2_check = 0
        /\ w \notin Stas => r.a2_check = (IF "v4" \in r.wan[w].active THEN 1 ELSE 0) + (IF "v6" \in r.wan[w].active THEN 1 ELSE 0)
    <2>1. r.a2_check = IF Consumer(w) = "Q6" THEN s.a2_check + 1 ELSE s.a2_check BY DEF Serves, Joined
    <2>2. /\ w \in Stas => s.a2_check = 0
          /\ w \notin Stas => s.a2_check = (IF "v4" \in s.wan[w].active THEN 1 ELSE 0) + (IF "v6" \in s.wan[w].active THEN 1 ELSE 0)
      BY SingleThen
    <2>3. f = "v4" \/ f = "v6" BY DEF Families
    <2> QED BY <2>1, <2>2, <2>3, <1>1, ConsumerIs
  <1>7. /\ "Q6" \in r.consumer_up <=> w \notin Stas /\ r.wan[w].active # {}
        /\ "USB" \in r.consumer_up <=> w \in Stas /\ r.wan[w].active # {}
    <2>1. r.consumer_up = s.consumer_up \cup {Consumer(w)} BY DEF Serves, Joined
    <2>2. "Q6" \in s.consumer_up <=> w \notin Stas /\ s.wan[w].active # {} BY SingleThen
    <2>3. "USB" \in s.consumer_up => w \in Stas /\ s.wan[w].active # {} BY SingleThen
    <2> QED BY <2>1, <2>2, <2>3, <1>1, ConsumerIs
  <1>8. Single(r) BY <1>1, <1>2, <1>3, <1>4, <1>5, <1>6, <1>7, SingleIf
  <1>9. BusyOnes(r) \subseteq {w} BY <1>2 DEF BusyOnes
  <1>10. UsbKept(r)
    <2>1. \A v \in Stas : r.wan[v].active # {} => v = w BY <1>2 DEF Busy
    <2> QED BY <2>1, <1>7 DEF UsbKept
  <1>11. Says(r, a)
    <2>1. \A v \in Wans \ {w} : r.wan[v].active = {} /\ s.wan[v].active = {} BY <1>1, SingleThen
    <2>2. CASE f = "v4"
      <3>1. ActiveV4(s) = {} /\ ActiveV4(r) = {w} BY <2>1, <2>2, <1>1 DEF ActiveV4
      <3>2. r.posted = Append(s.posted, Event("WAN_UP", w, "v4", None)) BY <2>2 DEF Serves
      <3>3. Event("WAN_UP", w, "v4", None) \in Events /\ s.posted \in Seq(Events) BY DEF Event, Events, Upstreams
      <3>4. Leads(Event("WAN_UP", w, "v4", None), {}, {w}) BY DEF Event, Leads, Told
      <3>5. Chain(s.posted, a, {}) BY <3>1 DEF Says
      <3>6. Chain(r.posted, a, {w}) BY <3>2, <3>3, <3>4, <3>5, AppendChain
      <3>7. ~Added(Event("WAN_UP", w, "v4", None)) BY DEF Event, Added
      <3>8. Own(r.posted) BY <3>2, <3>3, <3>7, OwnGrows DEF Says
      <3> QED BY <3>1, <3>6, <3>8 DEF Says
    <2>3. CASE f # "v4"
      <3>1. ActiveV4(s) = ActiveV4(r) BY <2>1, <2>3, <1>1 DEF ActiveV4
      <3>2. r.posted = s.posted BY <2>3 DEF Serves
      <3> QED BY <3>1, <3>2 DEF Says
    <2> QED BY <2>2, <2>3
  <1> QED BY <1>8, <1>9, <1>10, <1>11

\* The only upstream may give up a family.
LEMMA EndsSingle ==
  ASSUME NEW s \in Upstreams, Single(s), NEW w \in Wans, BusyOnes(s) \subseteq {w}, NEW f \in Families, Stas \subseteq Wans,
         NEW r, Ends(r, s, w, f)
  PROVE  /\ Single(r) /\ BusyOnes(r) \subseteq {w}
         /\ ActiveV4(r) = (IF f = "v4" THEN {} ELSE ActiveV4(s)) /\ ActiveV4(s) \subseteq {w}
         /\ UsbKept(s) /\ (w \in Stas => s.wan[w].active \in {r.wan[w].active, {}} \/ r.wan[w].active = {}) => UsbKept(r)
  <1>1. /\ r \in Upstreams /\ \A v \in Wans \ {w} : r.wan[v] = s.wan[v]
        /\ ~r.wan[w].gateway /\ r.wan[w].active = s.wan[w].active \ {f}
    BY DEF Ends, Edits
  <1>2. \A v \in Wans \ {w} : ~Busy(r, v) /\ ~r.wan[v].gateway /\ s.wan[v].active = {} /\ r.wan[v].active = {}
    BY <1>1, SingleThen DEF Busy
  <1>3. s.wan[w].active \subseteq Families BY DEF Upstreams, WanObjects
  <1>4. \A g \in Families : r.wan_up[g] <=> g \in r.wan[w].active
    <2>1. r.wan_up = [s.wan_up EXCEPT ![f] = FALSE] /\ s.wan_up \in [Families -> BOOLEAN] BY DEF Ends, Upstreams
    <2>2. \A g \in Families : s.wan_up[g] <=> g \in s.wan[w].active BY SingleThen
    <2> QED BY <2>1, <2>2, <1>1
  <1>5. w \notin Stas => \A g \in r.wan[w].active : r.flt[g] = "firewall"
    <2> SUFFICES ASSUME w \notin Stas, NEW g \in r.wan[w].active PROVE r.flt[g] = "firewall" OBVIOUS
    <2>1. g \in Families \ {f} /\ g \in s.wan[w].active BY <1>1, <1>3
    <2>2. \A h \in Families : h \in s.wan[w].active => s.flt[h] = "firewall" BY SingleThen
    <2> QED BY <2>1, <2>2 DEF Ends
  <1>6. /\ w \in Stas => s.a2_check = 0
        /\ w \notin Stas => s.a2_check = (IF "v4" \in s.wan[w].active THEN 1 ELSE 0) + (IF "v6" \in s.wan[w].active THEN 1 ELSE 0)
        /\ "Q6" \in s.consumer_up <=> w \notin Stas /\ s.wan[w].active # {}
        /\ "USB" \in s.consumer_up => w \in Stas /\ s.wan[w].active # {}
    BY SingleThen
  <1>7. f = "v4" \/ f = "v6" BY DEF Families
  <1>8. CASE f \in s.wan[w].active
    <2>1. Left(r, s, Consumer(w)) BY <1>8 DEF Ends
    <2>2. ASSUME w \in Stas PROVE Single(r)
      <3>1. Consumer(w) = "USB" BY <2>2 DEF Consumer, Sta
      <3>2. r.a2_check = 0 /\ r.consumer_up = s.consumer_up \ {"USB"} BY <2>1, <2>2, <3>1, <1>6 DEF Left
      <3>3. "Q6" \notin r.consumer_up /\ "USB" \notin r.consumer_up BY <3>2, <2>2, <1>6
      <3>4. "USB" \in r.consumer_up => w \in Stas /\ r.wan[w].active # {} BY <3>3
      <3>5. "Q6" \in r.consumer_up <=> w \notin Stas /\ r.wan[w].active # {} BY <3>3, <2>2
      <3>6. r.wan[w].gateway => Busy(r, w) BY <1>1
      <3> QED BY <2>2, <3>2, <3>4, <3>5, <3>6, <1>1, <1>2, <1>4, <1>5, SingleIf
    <2>3. ASSUME w \notin Stas PROVE Single(r)
      <3>1. Consumer(w) = "Q6" BY <2>3 DEF Consumer, Sta
      <3>2. r.a2_check = s.a2_check - 1 /\ r.consumer_up = (IF s.a2_check = 2 THEN s.consumer_up ELSE s.consumer_up \ {"Q6"})
        BY <2>1, <3>1 DEF Left
      <3>3. s.a2_check = 2 <=> s.wan[w].active = {"v4", "v6"} BY <2>3, <1>3, <1>6 DEF Families
      <3>4. s.a2_check # 2 => r.wan[w].active = {} BY <2>3, <1>1, <1>3, <1>6, <1>7, <1>8 DEF Families
      <3>5. s.a2_check = 2 => r.wan[w].active # {} BY <3>3, <1>1, <1>7
      <3>6. r.a2_check = (IF "v4" \in r.wan[w].active THEN 1 ELSE 0) + (IF "v6" \in r.wan[w].active THEN 1 ELSE 0)
        BY <2>3, <3>2, <1>1, <1>6, <1>7, <1>8
      <3>7. "Q6" \in r.consumer_up <=> r.wan[w].active # {} BY <3>2, <3>4, <3>5, <2>3, <1>6, <1>8
      <3>8. "USB" \notin r.consumer_up BY <3>2, <2>3, <1>6
      <3>9. "USB" \in r.consumer_up => w \in Stas /\ r.wan[w].active # {} BY <3>8
      <3>10. "Q6" \in r.consumer_up <=> w \notin Stas /\ r.wan[w].active # {} BY <3>7, <2>3
      <3>11. r.wan[w].gateway => Busy(r, w) BY <1>1
      <3> QED BY <2>3, <3>6, <3>9, <3>10, <3>11, <1>1, <1>2, <1>4, <1>5, SingleIf
    <2>4. Single(r) BY <2>2, <2>3
    <2>5. UsbKept(s) /\ (w \in Stas => s.wan[w].active \in {r.wan[w].active, {}} \/ r.wan[w].active = {}) => UsbKept(r)
      <3>1. \A v \in Stas : r.wan[v].active # {} => v = w BY <1>2
      <3>2. s.wan[w].active # r.wan[w].active /\ s.wan[w].active # {} BY <1>8, <1>1
      <3> QED BY <3>1, <3>2 DEF UsbKept
    <2>6. ActiveV4(r) = (IF f = "v4" THEN {} ELSE ActiveV4(s)) /\ ActiveV4(s) \subseteq {w} BY <1>1, <1>2 DEF ActiveV4
    <2>7. BusyOnes(r) \subseteq {w} BY <1>2 DEF BusyOnes
    <2> QED BY <2>4, <2>5, <2>6, <2>7
  <1>9. CASE f \notin s.wan[w].active
    <2>1. r.wan[w].active = s.wan[w].active /\ r.a2_check = s.a2_check /\ r.consumer_up = s.consumer_up BY <1>1, <1>9 DEF Ends
    <2>2. Single(r) BY <2>1, <1>1, <1>2, <1>4, <1>5, <1>6, SingleIf
    <2>3. UsbKept(s) => UsbKept(r) BY <2>1, <1>1 DEF UsbKept
    <2>4. ActiveV4(r) = (IF f = "v4" THEN {} ELSE ActiveV4(s)) /\ ActiveV4(s) \subseteq {w} BY <1>1, <1>2, <1>9 DEF ActiveV4
    <2>5. BusyOnes(r) \subseteq {w} BY <1>2 DEF BusyOnes
    <2> QED BY <2>2, <2>3, <2>4, <2>5
  <1> QED BY <1>8, <1>9

\* WAN_DOWN is posted exactly when the IPv4 upstream goes.
LEMMA EndSays ==
  ASSUME NEW s \in Upstreams, Single(s), NEW w \in Wans, BusyOnes(s) \subseteq {w}, NEW f \in Families, Stas \subseteq Wans,
         NEW r, Ends(r, s, w, f), NEW a, Says(s, a)
  PROVE  /\ Chain(EndTold(s, w, f), a, ActiveV4(r)) /\ Own(EndTold(s, w, f)) /\ EndTold(s, w, f) \in Seq(Events)
         /\ ActiveV4(r) \in SUBSET Wans
  <1>1. ActiveV4(r) = (IF f = "v4" THEN {} ELSE ActiveV4(s)) /\ ActiveV4(s) \subseteq {w} BY EndsSingle
  <1>2. s.posted \in Seq(Events) /\ Event("WAN_DOWN", w, "v4", None) \in Events BY DEF Event, Events, Upstreams
  <1>3. CASE f = "v4" /\ f \in s.wan[w].active
    <2>1. ActiveV4(s) = {w} /\ ActiveV4(r) = {} BY <1>1, <1>3 DEF ActiveV4
    <2>2. Leads(Event("WAN_DOWN", w, "v4", None), {w}, {}) BY DEF Event, Leads, Told
    <2>3. Chain(s.posted, a, {w}) BY <2>1 DEF Says
    <2>4. Chain(Append(s.posted, Event("WAN_DOWN", w, "v4", None)), a, {}) BY <1>2, <2>2, <2>3, AppendChain
    <2>5. EndTold(s, w, f) = Append(s.posted, Event("WAN_DOWN", w, "v4", None)) BY <1>3 DEF EndTold
    <2>6. ~Added(Event("WAN_DOWN", w, "v4", None)) BY DEF Event, Added
    <2>7. Own(EndTold(s, w, f)) BY <2>5, <2>6, <1>2, OwnGrows DEF Says
    <2> QED BY <2>1, <2>4, <2>5, <2>7, <1>2
  <1>4. CASE ~(f = "v4" /\ f \in s.wan[w].active)
    <2>1. ActiveV4(r) = ActiveV4(s) /\ ActiveV4(r) \subseteq {w} BY <1>1, <1>4 DEF ActiveV4
    <2>2. EndTold(s, w, f) = s.posted BY <1>4 DEF EndTold
    <2> QED BY <2>1, <2>2, <1>2 DEF Says
  <1> QED BY <1>3, <1>4
-----------------------------------------------------------------------------
(* The lists of the tethered interfaces                                    *)

Distinct(q) == \A i, j \in 1..Len(q) : q[i] = q[j] => i = j

\* A list that has each element once loses the one that is removed.
LEMMA RemoveFirstIs ==
  ASSUME NEW E, NEW q \in Seq(E), NEW x \in ToSet(q), NEW p, p = RemoveFirst(q, x)
  PROVE  /\ p \in Seq(E) /\ (Distinct(q) => Distinct(p) /\ ToSet(p) = ToSet(q) \ {x})
  <1> DEFINE n == Len(q)
             I == {i \in 1..n : q[i] = x}
             k == Min(I)
  <1>1. n \in Nat /\ q \in [1..n -> E] /\ I \in SUBSET Nat OBVIOUS
  <1>2. I # {} BY DEF ToSet
  <1>3. k \in I BY <1>1, <1>2, MinExists DEF Min
  <1>4. p = RemoveAt(q, k)
    <2>1. \E i \in 1..Len(q) : q[i] = x BY <1>2
    <2>2. p = RemoveAt(q, SelectInSeq(q, LAMBDA v : v = x)) BY <2>1 DEF RemoveFirst
    <2>3. SelectInSeq(q, LAMBDA v : v = x) = k BY <1>2 DEF SelectInSeq
    <2> QED BY <2>2, <2>3
  <1> DEFINE a == SubSeq(q, 1, k - 1)
             b == SubSeq(q, k + 1, n)
  <1>5. p = a \o b BY <1>4 DEF RemoveAt
  <1>6. k \in 1..n /\ q[k] = x BY <1>3
  <1> HIDE DEF k
  <1>7. a \in Seq(E) /\ Len(a) = k - 1 /\ \A i \in 1..(k - 1) : a[i] = q[i] BY <1>1, <1>6
  <1>8. b \in Seq(E) /\ Len(b) = n - k /\ \A i \in 1..(n - k) : b[i] = q[k + i]
    <2>1. k + 1 \in Nat /\ k + 1 <= n + 1 /\ n - (k + 1) + 1 = n - k BY <1>1, <1>6
    <2>2. \A i \in 1..(n - k) : (k + 1) + i - 1 = k + i BY <1>1, <1>6
    <2>3. b = [i \in 1..((n - (k + 1)) + 1) |-> q[(i + (k + 1)) - 1]] BY <1>1, <2>1
    <2>4. b = [i \in 1..(n - k) |-> q[k + i]]
      <3>1. \A i \in 1..(n - k) : (i + (k + 1)) - 1 = k + i /\ k + i \in 1..n BY <1>1, <1>6
      <3>2. (n - (k + 1)) + 1 = n - k BY <1>1, <1>6
      <3> QED BY <2>3, <3>1, <3>2
    <2>5. \A i \in 1..(n - k) : q[k + i] \in E BY <1>1, <1>6
    <2>6. n - k \in Nat BY <1>1, <1>6
    <2>7. b \in [1..(n - k) -> E] BY <2>4, <2>5
    <2> HIDE DEF b
    <2>8. b \in Seq(E) /\ Len(b) = n - k BY <2>6, <2>7
    <2> QED BY <2>4, <2>8
  <1> HIDE DEF a, b
  <1>9. p \in Seq(E) /\ Len(p) = n - 1 BY <1>5, <1>6, <1>7, <1>8
  <1>10. \A i \in 1..(n - 1) : p[i] = IF i < k THEN q[i] ELSE q[i + 1]
    <2> SUFFICES ASSUME NEW i \in 1..(n - 1) PROVE p[i] = IF i < k THEN q[i] ELSE q[i + 1] OBVIOUS
    <2>1. CASE i < k
      <3>1. i \in 1..(k - 1) BY <2>1, <1>6
      <3>2. p[i] = a[i] BY <3>1, <1>5, <1>7, <1>8
      <3> QED BY <3>1, <3>2, <1>7, <2>1
    <2>2. CASE ~(i < k)
      <3>1. i - (k - 1) \in 1..(n - k) /\ k + (i - (k - 1)) = i + 1 BY <2>2, <1>1, <1>6
      <3>2. p[i] = b[i - (k - 1)] BY <3>1, <1>1, <1>5, <1>6, <1>7, <1>8
      <3> QED BY <3>1, <3>2, <1>8, <2>2
    <2> QED BY <2>1, <2>2
  <1>11. ASSUME Distinct(q) PROVE Distinct(p)
    <2> SUFFICES ASSUME NEW i \in 1..(n - 1), NEW j \in 1..(n - 1), p[i] = p[j] PROVE i = j BY <1>9 DEF Distinct
    <2> QED BY <1>1, <1>6, <1>10, <1>11 DEF Distinct
  <1>12. ASSUME Distinct(q) PROVE ToSet(p) = ToSet(q) \ {x}
    <2>1. ToSet(p) = {p[i] : i \in 1..(n - 1)} /\ ToSet(q) = {q[i] : i \in 1..n} BY <1>1, <1>9 DEF ToSet
    <2>2. ASSUME NEW i \in 1..(n - 1) PROVE p[i] \in ToSet(q) \ {x}
      <3>1. i \in 1..n /\ i + 1 \in 1..n BY <1>1
      <3>2. CASE i < k BY <3>1, <3>2, <2>1, <1>6, <1>10, <1>12 DEF Distinct
      <3>3. CASE ~(i < k) BY <3>1, <3>3, <2>1, <1>6, <1>10, <1>12 DEF Distinct
      <3> QED BY <3>2, <3>3
    <2>3. ASSUME NEW i \in 1..n, q[i] # x PROVE q[i] \in ToSet(p)
      <3>1. i # k BY <2>3, <1>6
      <3>2. CASE i < k
        <4>1. i \in 1..(n - 1) /\ p[i] = q[i] BY <3>2, <1>1, <1>6, <1>10
        <4> QED BY <4>1, <2>1
      <3>3. CASE i > k
        <4>1. i - 1 \in 1..(n - 1) /\ ~(i - 1 < k) /\ (i - 1) + 1 = i BY <3>3, <1>1, <1>6
        <4>2. p[i - 1] = q[i] BY <4>1, <1>10
        <4> QED BY <4>1, <4>2, <2>1
      <3> QED BY <3>1, <3>2, <3>3, <1>6
    <2> QED BY <2>1, <2>2, <2>3
  <1>13. QED BY <1>9, <1>11, <1>12

LEMMA AppendIs ==
  ASSUME NEW E, NEW q \in Seq(E), NEW x \in E
  PROVE  /\ Append(q, x) \in Seq(E) /\ ToSet(Append(q, x)) = ToSet(q) \cup {x} /\ Append(q, x) # <<>>
         /\ Distinct(q) /\ x \notin ToSet(q) => Distinct(Append(q, x))
  <1> DEFINE n == Len(q)
             p == Append(q, x)
  <1>1. n \in Nat /\ p \in Seq(E) /\ Len(p) = n + 1 /\ p[n + 1] = x /\ \A i \in 1..n : p[i] = q[i] OBVIOUS
  <1> HIDE DEF p
  <1>2. ToSet(p) = {p[i] : i \in 1..(n + 1)} /\ ToSet(q) = {q[i] : i \in 1..n} BY <1>1 DEF ToSet
  <1>3. ToSet(p) = ToSet(q) \cup {x}
    <2>1. \A i \in 1..(n + 1) : i = n + 1 \/ i \in 1..n BY <1>1
    <2>2. \A i \in 1..n : i \in 1..(n + 1) BY <1>1
    <2>3. n + 1 \in 1..(n + 1) BY <1>1
    <2> QED BY <2>1, <2>2, <2>3, <1>1, <1>2
  <1>4. p # <<>> BY <1>1
  <1>5. Distinct(q) /\ x \notin ToSet(q) => Distinct(p)
    <2> SUFFICES ASSUME Distinct(q), x \notin ToSet(q), NEW i \in 1..(n + 1), NEW j \in 1..(n + 1), p[i] = p[j] PROVE i = j
      BY <1>1 DEF Distinct
    <2>1. CASE i \in 1..n /\ j \in 1..n BY <2>1, <1>1 DEF Distinct
    <2>2. CASE i = n + 1 /\ j \in 1..n BY <2>2, <1>1, <1>2
    <2>3. CASE i \in 1..n /\ j = n + 1 BY <2>3, <1>1, <1>2
    <2>4. CASE i = n + 1 /\ j = n + 1 BY <2>4
    <2> QED BY <2>1, <2>2, <2>3, <2>4, <1>1
  <1>6. QED BY <1>1, <1>3, <1>4, <1>5 DEF p

\* Only the list of `f' and what is posted change.
ListOnly(r, s, f) ==
  /\ r \in Upstreams /\ Keeps(r, s, {"tether", "posted"})
  /\ \A g \in Families \ {f} : r.tether[g] = s.tether[g]

\* post_wan_up_tether_evt()
LEMMA PostWanUpTetherIs ==
  ASSUME NEW s \in Upstreams, NEW w \in Wans, NEW f \in Families, NEW l \in Lans, NEW r, r = PostWanUpTether(s, w, f, l)
  PROVE  ListOnly(r, s, f) /\ r.tether[f] = Append(s.tether[f], l) /\ r.posted = Append(s.posted, Event("UP_TETHER", w, f, l))
  <1> DEFINE x == Append(s.tether[f], l)
             y == Append(s.posted, Event("UP_TETHER", w, f, l))
             t == [s EXCEPT !.tether[f] = x]
  <1>1. s.tether \in [Families -> Seq(Lans)] /\ s.posted \in Seq(Events) BY DEF Upstreams
  <1>2. x \in Seq(Lans) /\ y \in Seq(Events) BY <1>1, EventsMade
  <1>3. r = [t EXCEPT !.posted = y]
    <2>1. t.posted = s.posted BY DEF Upstreams
    <2>2. t = [s EXCEPT !.tether[f] = Append(@, l)] OBVIOUS
    <2> HIDE DEF t
    <2> QED BY <2>1, <2>2 DEF PostWanUpTether, Posted
  <1> HIDE DEF x, y
  <1>4. t \in Upstreams BY <1>2, FamilySet
  <1>5. t.tether = [s.tether EXCEPT ![f] = x] /\ Keeps(t, s, {"tether"}) BY DEF Upstreams, Keeps, Fields
  <1> HIDE DEF t
  <1>6. r \in Upstreams BY <1>2, <1>3, <1>4, FamilySet
  <1>7. r.posted = y /\ r.tether = t.tether /\ Keeps(r, t, {"posted"}) BY <1>3, <1>4 DEF Upstreams, Keeps, Fields
  <1>8. Keeps(r, s, {"tether", "posted"}) BY <1>5, <1>7 DEF Keeps
  <1> QED BY <1>1, <1>5, <1>6, <1>7, <1>8 DEF ListOnly, x, y

\* post_wan_down_tether_evt()
LEMMA PostWanDownTetherIs ==
  ASSUME NEW s \in Upstreams, NEW w \in Wans, NEW f \in Families, NEW l \in Lans, l \in ToSet(s.tether[f]),
         NEW r, r = PostWanDownTether(s, w, f, l)
  PROVE  /\ ListOnly(r, s, f) /\ r.tether[f] = RemoveFirst(s.tether[f], l)
         /\ r.posted = Append(s.posted, Event("DOWN_TETHER", w, f, l))
  <1> DEFINE x == RemoveFirst(s.tether[f], l)
             y == Append(s.posted, Event("DOWN_TETHER", w, f, l))
             t == [s EXCEPT !.tether[f] = x]
  <1>1. s.tether \in [Families -> Seq(Lans)] /\ s.posted \in Seq(Events) BY DEF Upstreams
  <1>2. x \in Seq(Lans) /\ y \in Seq(Events) BY <1>1, EventsMade, RemoveFirstIs
  <1>3. r = [t EXCEPT !.posted = y]
    <2>1. t.posted = s.posted BY DEF Upstreams
    <2>2. t = [s EXCEPT !.tether[f] = RemoveFirst(@, l)] OBVIOUS
    <2> HIDE DEF t
    <2> QED BY <2>1, <2>2 DEF PostWanDownTether, Posted
  <1> HIDE DEF x, y
  <1>4. t \in Upstreams BY <1>2, FamilySet
  <1>5. t.tether = [s.tether EXCEPT ![f] = x] /\ Keeps(t, s, {"tether"}) BY DEF Upstreams, Keeps, Fields
  <1> HIDE DEF t
  <1>6. r \in Upstreams BY <1>2, <1>3, <1>4, FamilySet
  <1>7. r.posted = y /\ r.tether = t.tether /\ Keeps(r, t, {"posted"}) BY <1>3, <1>4 DEF Upstreams, Keeps, Fields
  <1>8. Keeps(r, s, {"tether", "posted"}) BY <1>5, <1>7 DEF Keeps
  <1> QED BY <1>1, <1>5, <1>6, <1>7, <1>8 DEF ListOnly, x, y

\* A change of a list leaves the rest of the upstream as it was.
LEMMA ListOnlyKeeps ==
  ASSUME NEW s \in Upstreams, NEW f \in Families, NEW r, ListOnly(r, s, f)
  PROVE  /\ r \in Upstreams /\ r.wan = s.wan /\ r.producer_up = s.producer_up /\ ActiveV4(r) = ActiveV4(s) /\ BusyOnes(r) = BusyOnes(s)
         /\ Sound(s) => Sound(r)
         /\ Single(s) => Single(r)
         /\ UsbKept(s) => UsbKept(r)
  <1>1. /\ r.wan = s.wan /\ r.wan_up = s.wan_up /\ r.flt = s.flt /\ r.modem = s.modem /\ r.a2_check = s.a2_check
        /\ r.consumer_up = s.consumer_up /\ r.rm_set = s.rm_set /\ r.producer_up = s.producer_up
        /\ r.num_modem_pdn = s.num_modem_pdn /\ r \in Upstreams
    BY DEF ListOnly, Keeps, Fields
  <1>2. ActiveV4(r) = ActiveV4(s) /\ BusyOnes(r) = BusyOnes(s) BY <1>1 DEF ActiveV4, BusyOnes, Busy
  <1>3. Sound(s) => Sound(r) BY <1>1 DEF Sound, Made, PdnCounted, Having
  <1>4. Single(s) => Single(r) BY <1>1 DEF Single, Busy, Users
  <1>5. UsbKept(s) => UsbKept(r) BY <1>1 DEF UsbKept
  <1> QED BY <1>1, <1>2, <1>3, <1>4, <1>5
-----------------------------------------------------------------------------
(* One object handles one event                                            *)

LEMMA WaitsSound ==
  ASSUME NEW s, Sound(s), NEW w \in Wans, w \in Stas, ~s.wan[w].header, NEW f \in Families, f \in s.wan[w].ip,
         NEW r, Waits(r, s, w, f)
  PROVE  Sound(r) /\ r.producer_up = s.producer_up /\ r.tether = s.tether /\ Edits(r, s, w)
  <1>1. /\ r.num_modem_pdn = s.num_modem_pdn /\ r.rm_set = s.rm_set /\ r.producer_up = s.producer_up
        /\ r.consumer_up = s.consumer_up /\ r.modem = s.modem /\ r.flt = s.flt /\ r.tether = s.tether
    BY DEF Waits, Keeps, Fields
  <1>2. Fit(r.wan[w], w) BY DEF Waits, Edits, Fit, Sound, Made
  <1>3. Made(r) BY <1>1, <1>2, MadeKept DEF Waits, Crossed, Sound
  <1>4. PdnCounted(r) BY <1>1, EditsIp, CountedKept DEF Waits, Sound
  <1> QED BY <1>1, <1>3, <1>4 DEF Sound, Waits

LEMMA ServesSound ==
  ASSUME NEW s, Made(s), PdnCounted(s), s.modem = s.flt, NEW w \in Wans, NEW f \in Families, NEW r, Serves(r, s, w, f), Fit(r.wan[w], w)
  PROVE  Sound(r) /\ r.producer_up = s.producer_up /\ r.tether = s.tether /\ Edits(r, s, w)
  <1>1. r.num_modem_pdn = s.num_modem_pdn /\ r.producer_up = s.producer_up /\ r.tether = s.tether
    BY DEF Serves, Keeps, Fields
  <1>2. Made(r) BY MadeKept DEF Serves, Joined
  <1>3. PdnCounted(r) BY <1>1, EditsIp, CountedKept DEF Serves
  <1>4. r.modem = r.flt BY DEF Serves
  <1> QED BY <1>1, <1>2, <1>3, <1>4 DEF Sound, Serves

LEMMA EndsMade ==
  ASSUME NEW s, Made(s), PdnCounted(s), NEW w \in Wans, NEW f \in Families, NEW r, Ends(r, s, w, f)
  PROVE  Made(r) /\ PdnCounted(r) /\ r.producer_up = s.producer_up /\ Edits(r, s, w)
  <1>1. r.num_modem_pdn = s.num_modem_pdn /\ r.producer_up = s.producer_up
    BY DEF Ends, Keeps, Fields
  <1>2. Fit(r.wan[w], w) BY DEF Ends, Edits, Fit, Made
  <1>3. Crossed(s) => Crossed(r)
    <2>1. CASE f \in s.wan[w].active BY <2>1 DEF Ends, Left
    <2>2. CASE f \notin s.wan[w].active BY <2>2, <1>1 DEF Ends, Crossed
    <2> QED BY <2>1, <2>2
  <1>4. Made(r) BY <1>2, <1>3, MadeKept DEF Ends
  <1>5. PdnCounted(r) BY <1>1, EditsIp, CountedKept DEF Ends
  <1> QED BY <1>1, <1>4, <1>5 DEF Ends

\* What the handling of an event starts from and keeps, in any order of events.
Ok == {s \in Upstreams : Sound(s) /\ Present(s) /\ s.producer_up = upstream.producer_up}

LEMMA OkKept ==
  ASSUME NEW s \in Ok, NEW w \in ToSet(wans), w \in Wans, NEW r, Edits(r, s, w), Sound(r), r.producer_up = s.producer_up
  PROVE  r \in Ok
  <1>1. r \in Upstreams BY DEF Edits
  <1>2. Present(r) BY DEF Edits, Present, Ok
  <1> QED BY <1>1, <1>2 DEF Ok

LEMMA RouteAddEvtOk ==
  ASSUME NEW s \in Ok, NEW w \in ToSet(wans), w \in Wans, NEW f \in Families, f \in s.wan[w].ip, NEW r, r = RouteAddEvt(s, w, f)
  PROVE  r \in Ok
  <1>1. s \in Upstreams /\ Sound(s) /\ Fit(s.wan[w], w) BY DEF Ok, Sound, Made
  <1>2. CASE w \in Stas /\ ~s.wan[w].header BY <1>1, <1>2, RouteAddEvtIs, WaitsSound, OkKept
  <1>3. CASE ~(w \in Stas /\ ~s.wan[w].header)
    <2>1. Serves(r, s, w, f) BY <1>1, <1>3, RouteAddEvtIs
    <2>2. Fit(r.wan[w], w) BY <2>1, <1>1, <1>3 DEF Serves, Edits, Fit
    <2> QED BY <2>1, <2>2, <1>1, ServesSound, OkKept DEF Sound
  <1> QED BY <1>2, <1>3

LEMMA RouteWithdrawnOk ==
  ASSUME NEW s \in Ok, NEW w \in ToSet(wans), w \in Wans, NEW f \in Families, f \in s.wan[w].active, NEW r, r = RouteWithdrawn(s, w, f)
  PROVE  r \in Ok
  <1>1. s \in Upstreams /\ Sound(s) BY DEF Ok
  <1>2. Ends(r, s, w, f) /\ r.modem = r.flt BY <1>1, RouteWithdrawnIs DEF Sound
  <1>3. Sound(r) /\ r.producer_up = s.producer_up /\ Edits(r, s, w) BY <1>1, <1>2, EndsMade DEF Sound
  <1> QED BY <1>3, OkKept

LEMMA ListOnlyOk ==
  ASSUME NEW s \in Ok, NEW f \in Families, NEW r, ListOnly(r, s, f)
  PROVE  r \in Ok
  BY ListOnlyKeeps DEF Ok, Present

\* The objects stay sound in the turn of an upstream, whatever it is told.
LEMMA OnRouteAddOk ==
  ASSUME NEW s \in Ok, NEW w \in ToSet(wans), w \in Wans, NEW e \in Events, e.event = "ROUTE_ADD", NEW r, r = OnRouteAdd(s, w, e)
  PROVE  r \in Ok
  <1> DEFINE f == e.family
             t == IF f \in s.wan[w].active THEN s ELSE RouteAddEvt(s, w, f)
  <1>1. f \in Families /\ e.lan \in Lans BY DEF Events
  <1>2. CASE e.dev = w /\ f \in s.wan[w].ip
    <2>1. t \in Ok BY <1>1, <1>2, RouteAddEvtOk
    <2>2. r = PostWanUpTether(t, w, f, e.lan) BY <1>2 DEF OnRouteAdd
    <2> HIDE DEF t
    <2>3. ListOnly(r, t, f) BY <1>1, <2>1, <2>2, PostWanUpTetherIs DEF Ok
    <2> QED BY <1>1, <2>1, <2>3, ListOnlyOk
  <1>3. CASE e.dev = w /\ f \notin s.wan[w].ip BY <1>3 DEF OnRouteAdd
  <1>4. CASE e.dev # w /\ f \in s.wan[w].active BY <1>1, <1>4, RouteWithdrawnOk DEF OnRouteAdd
  <1>5. CASE e.dev # w /\ f \notin s.wan[w].active BY <1>5 DEF OnRouteAdd
  <1> QED BY <1>2, <1>3, <1>4, <1>5

LEMMA OnRouteDelOk ==
  ASSUME NEW s \in Ok, NEW w \in ToSet(wans), w \in Wans, NEW e \in Events, e.event = "ROUTE_DEL", NEW r, r = OnRouteDel(s, w, e)
  PROVE  r \in Ok
  <1> DEFINE f == e.family
             t == PostWanDownTether(s, w, f, e.lan)
  <1>1. f \in Families /\ e.lan \in Lans BY DEF Events
  <1>2. CASE e.dev = w /\ f \in s.wan[w].active
    <2>1. t \in Ok /\ t.wan = s.wan
      <3>1. CASE e.lan \in ToSet(s.tether[f])
        <4>1. ListOnly(t, s, f) BY <1>1, <3>1, PostWanDownTetherIs DEF Ok
        <4> HIDE DEF t
        <4> QED BY <1>1, <4>1, ListOnlyOk, ListOnlyKeeps DEF Ok
      <3>2. CASE e.lan \notin ToSet(s.tether[f]) BY <3>2 DEF PostWanDownTether
      <3> QED BY <3>1, <3>2
    <2>2. r = t \/ r = RouteWithdrawn(t, w, f) BY <1>2 DEF OnRouteDel
    <2> HIDE DEF t
    <2>3. f \in t.wan[w].active BY <2>1, <1>2
    <2> QED BY <1>1, <2>1, <2>2, <2>3, RouteWithdrawnOk
  <1>3. CASE ~(e.dev = w /\ f \in s.wan[w].active) BY <1>3 DEF OnRouteDel
  <1> QED BY <1>2, <1>3

LEMMA OnFirewallChangeIs ==
  ASSUME NEW s \in Ok, NEW w \in Wans, NEW r, r = OnFirewallChange(s, w)
  PROVE  /\ r \in Ok /\ Keeps(r, s, {"flt", "modem"})
         /\ \A f \in Families : s.flt[f] = "firewall" => r.flt[f] = "firewall"
  <1> DEFINE x == [f \in Families |-> IF f \in s.wan[w].ip THEN "firewall" ELSE s.flt[f]]
             t == [s EXCEPT !.flt = x]
  <1>1. s \in Upstreams /\ Sound(s) BY DEF Ok
  <1>2. CASE Sta(w) \/ ~s.wan[w].gateway BY <1>2, <1>1 DEF OnFirewallChange, Keeps
  <1>3. CASE ~(Sta(w) \/ ~s.wan[w].gateway)
    <2>1. r = [t EXCEPT !.modem = t.flt] BY <1>3 DEF OnFirewallChange, InstallWanFilteringRule
    <2>2. x \in [Families -> Modes] BY <1>1 DEF Upstreams, Modes
    <2>3. \A f \in Families : s.flt[f] = "firewall" => x[f] = "firewall" OBVIOUS
    <2> HIDE DEF x
    <2>4. t \in Upstreams BY <2>2, <1>1 DEF Upstreams
    <2>5. t.flt = x /\ Keeps(t, s, {"flt"}) BY <1>1 DEF Upstreams, Keeps, Fields
    <2> HIDE DEF t
    <2>6. r \in Upstreams BY <2>1, <2>4, FamilySet DEF Families
    <2>7. r.modem = t.flt /\ Keeps(r, t, {"modem"}) BY <2>1, <2>4 DEF Upstreams, Keeps, Fields
    <2>8. Keeps(r, s, {"flt", "modem"}) BY <2>5, <2>7 DEF Keeps
    <2>9. r.flt = x /\ r.modem = x BY <2>5, <2>7 DEF Keeps, Fields
    <2>10. r.wan = s.wan /\ r.rm_set = s.rm_set /\ r.producer_up = s.producer_up /\ r.consumer_up = s.consumer_up
           /\ r.num_modem_pdn = s.num_modem_pdn
      BY <2>8 DEF Keeps, Fields
    <2>11. Sound(r) BY <1>1, <2>6, <2>9, <2>10 DEF Sound, Made, PdnCounted, Having
    <2>12. r \in Ok BY <2>6, <2>10, <2>11 DEF Ok, Present
    <2> QED BY <2>3, <2>8, <2>9, <2>12
  <1> QED BY <1>2, <1>3
-----------------------------------------------------------------------------
(* One object handles one event while the events are in order              *)

Ordered(s, a) == Single(s) /\ Listed(s) /\ Says(s, a)

LEMMA SaysMore ==
  ASSUME NEW s \in Upstreams, NEW a, Says(s, a), NEW e \in Events, ~Told(e), ~Added(e),
         NEW r, r.posted = Append(s.posted, e), ActiveV4(r) = ActiveV4(s)
  PROVE  Says(r, a)
  <1>1. s.posted \in Seq(Events) /\ ActiveV4(s) \in SUBSET Wans BY DEF Upstreams, ActiveV4
  <1>2. Leads(e, ActiveV4(s), ActiveV4(s)) BY DEF Leads, Told
  <1>3. Chain(r.posted, a, ActiveV4(s)) BY <1>1, <1>2, AppendChain DEF Says
  <1>4. Own(r.posted) BY <1>1, OwnGrows DEF Says
  <1> QED BY <1>3, <1>4 DEF Says

LEMMA TetherTold ==
  ASSUME NEW w \in Wans, NEW f \in Families, NEW l \in Lans
  PROVE  /\ ~Told(Event("UP_TETHER", w, f, l)) /\ ~Added(Event("UP_TETHER", w, f, l))
         /\ ~Told(Event("DOWN_TETHER", w, f, l)) /\ ~Added(Event("DOWN_TETHER", w, f, l))
  BY DEF Event, Told, Added

\* The route of the only upstream is there, or waits for its header.
LEMMA OnRouteAddOrdered ==
  ASSUME NEW s \in Ok, NEW a, Ordered(s, a), NEW w \in ToSet(wans), w \in Wans, Stas \subseteq Wans, BusyOnes(s) \subseteq {w},
         NEW e \in Events, e.event = "ROUTE_ADD", e.dev = w, e.family \in s.wan[w].ip,
         <<e.family, e.lan>> \notin Tethered(s), NEW r, r = OnRouteAdd(s, w, e)
  PROVE  /\ Ordered(r, a) /\ BusyOnes(r) = {w} /\ Tethered(r) = Tethered(s) \cup {<<e.family, e.lan>>}
         /\ UsbKept(s) => UsbKept(r)
  <1> DEFINE f == e.family
             t == IF f \in s.wan[w].active THEN s ELSE RouteAddEvt(s, w, f)
  <1>1. f \in Families /\ e.lan \in Lans /\ s \in Upstreams BY DEF Events, Ok
  <1>2. /\ t \in Upstreams /\ Single(t) /\ Says(t, a) /\ BusyOnes(t) \subseteq {w} /\ t.tether = s.tether
        /\ UsbKept(s) => UsbKept(t)
        /\ t.wan[w].active \cup t.wan[w].partial = s.wan[w].active \cup s.wan[w].partial \cup {f}
    <2>1. CASE f \in s.wan[w].active BY <2>1, <1>1 DEF Ordered
    <2>2. CASE f \notin s.wan[w].active /\ w \in Stas /\ ~s.wan[w].header
      <3>1. Waits(t, s, w, f) BY <2>2, <1>1, RouteAddEvtIs
      <3> HIDE DEF t
      <3>2. Single(t) /\ BusyOnes(t) \subseteq {w} /\ ActiveV4(t) = ActiveV4(s) /\ (UsbKept(s) => UsbKept(t)) /\ t.posted = s.posted
        BY <2>2, <3>1, <1>1, WaitsSingle DEF Ordered
      <3>3. Says(t, a) BY <3>2 DEF Says, Ordered
      <3>4. t.tether = s.tether /\ t \in Upstreams BY <3>1 DEF Waits, Keeps, Fields, Edits
      <3>5. t.wan[w].active \cup t.wan[w].partial = s.wan[w].active \cup s.wan[w].partial \cup {f} BY <3>1 DEF Waits
      <3> QED BY <3>2, <3>3, <3>4, <3>5
    <2>3. CASE f \notin s.wan[w].active /\ ~(w \in Stas /\ ~s.wan[w].header)
      <3>1. Serves(t, s, w, f) BY <2>3, <1>1, RouteAddEvtIs
      <3> HIDE DEF t
      <3>2. Single(t) /\ BusyOnes(t) \subseteq {w} /\ Says(t, a) /\ UsbKept(t)
        BY <2>3, <3>1, <1>1, ServesSingle DEF Ordered
      <3>3. t.tether = s.tether /\ t \in Upstreams BY <3>1 DEF Serves, Keeps, Fields, Edits
      <3>4. t.wan[w].active \cup t.wan[w].partial = s.wan[w].active \cup s.wan[w].partial \cup {f} BY <3>1 DEF Serves
      <3> QED BY <3>2, <3>3, <3>4
    <2> QED BY <2>1, <2>2, <2>3
  <1>3. r = PostWanUpTether(t, w, f, e.lan) BY DEF OnRouteAdd
  <1> HIDE DEF t
  <1>4. ListOnly(r, t, f) /\ r.tether[f] = Append(t.tether[f], e.lan) /\ r.posted = Append(t.posted, Event("UP_TETHER", w, f, e.lan))
    <2>1. t \in Upstreams BY <1>2
    <2> QED BY ONLY <1>1, <2>1, <1>3, w \in Wans, PostWanUpTetherIs
  <1>5. /\ r \in Upstreams /\ r.wan = t.wan /\ ActiveV4(r) = ActiveV4(t) /\ BusyOnes(r) = BusyOnes(t) /\ Single(r)
        /\ UsbKept(t) => UsbKept(r)
    BY <1>1, <1>2, <1>4, ListOnlyKeeps
  <1>6. Says(r, a) BY <1>1, <1>2, <1>4, <1>5, EventsMade, TetherTold, SaysMore
  <1>7. BusyOnes(r) = {w}
    <2>1. Busy(t, w) BY <1>2 DEF Busy
    <2> QED BY <2>1, <1>2, <1>5 DEF BusyOnes
  <1>8. s.tether \in [Families -> Seq(Lans)] BY <1>1 DEF Upstreams
  <1>9. /\ r.tether[f] \in Seq(Lans) /\ ToSet(r.tether[f]) = ToSet(s.tether[f]) \cup {e.lan} /\ r.tether[f] # <<>>
        /\ Distinct(s.tether[f]) /\ e.lan \notin ToSet(s.tether[f]) => Distinct(r.tether[f])
    <2> DEFINE q == s.tether[f]
    <2>1. r.tether[f] = Append(q, e.lan) BY <1>2, <1>4
    <2>2. q \in Seq(Lans) /\ e.lan \in Lans BY <1>1, <1>8
    <2> HIDE DEF q
    <2>3. /\ Append(q, e.lan) \in Seq(Lans) /\ ToSet(Append(q, e.lan)) = ToSet(q) \cup {e.lan} /\ Append(q, e.lan) # <<>>
          /\ Distinct(q) /\ e.lan \notin ToSet(q) => Distinct(Append(q, e.lan))
      BY ONLY <2>2, AppendIs
    <2> QED BY <2>1, <2>3 DEF q
  <1>10. \A g \in Families \ {f} : r.tether[g] = s.tether[g] BY <1>2, <1>4 DEF ListOnly
  <1>11. Tethered(r) = Tethered(s) \cup {<<f, e.lan>>}
    <2>1. ASSUME NEW g \in Families, NEW k \in Lans
          PROVE  <<g, k>> \in Tethered(r) <=> <<g, k>> \in Tethered(s) \/ <<g, k>> = <<f, e.lan>>
      <3>1. <<g, k>> \in Tethered(r) <=> k \in ToSet(r.tether[g]) BY DEF Tethered
      <3>2. <<g, k>> \in Tethered(s) <=> k \in ToSet(s.tether[g]) BY DEF Tethered
      <3>3. CASE g = f BY <3>1, <3>2, <3>3, <1>9
      <3>4. CASE g # f BY <3>1, <3>2, <3>4, <1>10
      <3> QED BY <3>3, <3>4
    <2>2. Tethered(r) \subseteq Families \X Lans /\ Tethered(s) \subseteq Families \X Lans BY DEF Tethered
    <2> QED BY <2>1, <2>2, <1>1
  <1>12. Listed(r)
    <2>1. ASSUME NEW g \in Families
          PROVE  /\ r.tether[g] # <<>> <=> \E v \in Wans : g \in r.wan[v].active \cup r.wan[v].partial
                 /\ Distinct(r.tether[g])
      <3>1. \A v \in Wans \ {w} : r.wan[v].active \cup r.wan[v].partial = {} /\ s.wan[v].active \cup s.wan[v].partial = {}
        BY <1>7 DEF BusyOnes, Busy
      <3>2. s.tether[g] # <<>> <=> \E v \in Wans : g \in s.wan[v].active \cup s.wan[v].partial
        BY DEF Ordered, Listed
      <3>3. Distinct(s.tether[g]) BY DEF Ordered, Listed, Distinct
      <3>4. CASE g = f
        <4>1. e.lan \notin ToSet(s.tether[f]) BY <1>1 DEF Tethered
        <4>2. g \in r.wan[w].active \cup r.wan[w].partial BY <3>4, <1>2, <1>5
        <4> QED BY <4>1, <4>2, <3>3, <3>4, <1>9
      <3>5. CASE g # f
        <4>1. g \in r.wan[w].active \cup r.wan[w].partial <=> g \in s.wan[w].active \cup s.wan[w].partial BY <3>5, <1>2, <1>5
        <4> QED BY <4>1, <3>1, <3>2, <3>3, <3>5, <1>10
      <3> QED BY <3>4, <3>5
    <2> QED BY <2>1 DEF Listed, Distinct
  <1> QED BY <1>2, <1>5, <1>6, <1>7, <1>11, <1>12 DEF Ordered

\* The route of the only upstream goes.
LEMMA OnRouteDelOrdered ==
  ASSUME NEW s \in Ok, NEW a, Ordered(s, a), NEW w \in Wans, Stas \subseteq Wans,
         NEW e \in Events, e.event = "ROUTE_DEL", e.dev = w, e.family \in s.wan[w].active, NEW r, r = OnRouteDel(s, w, e)
  PROVE  /\ Ordered(r, a) /\ BusyOnes(r) \subseteq BusyOnes(s) /\ Tethered(r) = Tethered(s) \ {<<e.family, e.lan>>}
         /\ UsbKept(s) /\ (w \in Stas => r.wan[w].active \in {s.wan[w].active, {}}) => UsbKept(r)
  <1> DEFINE f == e.family
             t == PostWanDownTether(s, w, f, e.lan)
  <1>1. f \in Families /\ e.lan \in Lans /\ s \in Upstreams /\ Fit(s.wan[w], w) BY DEF Events, Ok, Sound, Made
  <1>2. Busy(s, w) BY DEF Busy
  <1>3. BusyOnes(s) = {w} BY <1>2 DEF BusyOnes, Ordered, Single
  <1>4. s.tether \in [Families -> Seq(Lans)] /\ \A g \in Families : Distinct(s.tether[g]) BY <1>1 DEF Upstreams, Ordered, Listed, Distinct
  <1>5. /\ t \in Upstreams /\ t.wan = s.wan /\ Single(t) /\ Says(t, a) /\ BusyOnes(t) = {w}
        /\ UsbKept(s) => UsbKept(t)
        /\ \A g \in Families \ {f} : t.tether[g] = s.tether[g]
        /\ t.tether[f] \in Seq(Lans) /\ Distinct(t.tether[f]) /\ ToSet(t.tether[f]) = ToSet(s.tether[f]) \ {e.lan}
    <2>1. CASE e.lan \in ToSet(s.tether[f])
      <3>1. ListOnly(t, s, f) /\ t.tether[f] = RemoveFirst(s.tether[f], e.lan) /\ t.posted = Append(s.posted, Event("DOWN_TETHER", w, f, e.lan))
        BY <2>1, <1>1, PostWanDownTetherIs
      <3> HIDE DEF t
      <3>2. /\ t \in Upstreams /\ t.wan = s.wan /\ ActiveV4(t) = ActiveV4(s) /\ BusyOnes(t) = BusyOnes(s) /\ Single(t)
            /\ UsbKept(s) => UsbKept(t)
        BY <1>1, <3>1, ListOnlyKeeps DEF Ordered
      <3>3. Says(t, a) BY <1>1, <3>1, <3>2, EventsMade, TetherTold, SaysMore DEF Ordered
      <3>4. s.tether[f] \in Seq(Lans) /\ Distinct(s.tether[f]) BY <1>1, <1>4
      <3>5. t.tether[f] \in Seq(Lans) /\ Distinct(t.tether[f]) /\ ToSet(t.tether[f]) = ToSet(s.tether[f]) \ {e.lan}
        BY <2>1, <3>1, <3>4, RemoveFirstIs
      <3> QED BY <3>1, <3>2, <3>3, <3>5, <1>3 DEF ListOnly
    <2>2. CASE e.lan \notin ToSet(s.tether[f])
      <3>1. t = s BY <2>2 DEF PostWanDownTether
      <3>2. s.tether[f] \in Seq(Lans) /\ Distinct(s.tether[f]) BY <1>1, <1>4
      <3> QED BY <2>2, <3>1, <3>2, <1>1, <1>3 DEF Ordered
    <2> QED BY <2>1, <2>2
  <1>6. r = IF t.tether[f] # <<>> THEN t ELSE RouteWithdrawn(t, w, f) BY DEF OnRouteDel
  <1> HIDE DEF t
  <1>7. Tethered(t) = Tethered(s) \ {<<f, e.lan>>}
    <2>1. ASSUME NEW g \in Families, NEW k \in Lans
          PROVE  <<g, k>> \in Tethered(t) <=> <<g, k>> \in Tethered(s) /\ <<g, k>> # <<f, e.lan>>
      <3>1. <<g, k>> \in Tethered(t) <=> k \in ToSet(t.tether[g]) BY DEF Tethered
      <3>2. <<g, k>> \in Tethered(s) <=> k \in ToSet(s.tether[g]) BY DEF Tethered
      <3>3. CASE g = f BY <3>1, <3>2, <3>3, <1>5
      <3>4. CASE g # f BY <3>1, <3>2, <3>4, <1>5
      <3> QED BY <3>3, <3>4
    <2>2. Tethered(t) \subseteq Families \X Lans /\ Tethered(s) \subseteq Families \X Lans BY DEF Tethered
    <2> QED BY <2>1, <2>2
  <1>8. \A g \in Families : Distinct(t.tether[g])
    <2> SUFFICES ASSUME NEW g \in Families PROVE Distinct(t.tether[g]) OBVIOUS
    <2>1. CASE g = f BY <2>1, <1>5
    <2>2. CASE g # f BY <2>2, <1>4, <1>5
    <2> QED BY <2>1, <2>2
  <1>9. \A v \in Wans \ {w} : s.wan[v].active \cup s.wan[v].partial = {} BY <1>3 DEF BusyOnes, Busy
  <1>10. \A g \in Families : s.tether[g] # <<>> <=> g \in s.wan[w].active \cup s.wan[w].partial
    BY <1>9 DEF Ordered, Listed
  <1>11. CASE t.tether[f] # <<>>
    <2>1. Listed(t)
      <3>1. \A g \in Families : t.tether[g] # <<>> <=> g \in t.wan[w].active \cup t.wan[w].partial
        BY <1>5, <1>10, <1>11
      <3>2. \A v \in Wans \ {w} : t.wan[v].active \cup t.wan[v].partial = {} BY <1>5, <1>9
      <3> QED BY <3>1, <3>2, <1>8 DEF Listed, Distinct
    <2> QED BY <2>1, <1>3, <1>5, <1>6, <1>7, <1>11 DEF Ordered
  <1>12. CASE t.tether[f] = <<>>
    <2>1. r = RouteWithdrawn(t, w, f) /\ f \in t.wan[w].active BY <1>5, <1>6, <1>12
    <2>2. Ends(r, t, w, f) /\ r.tether = t.tether /\ r.posted = EndTold(t, w, f) BY <2>1, <1>1, <1>5, RouteWithdrawnIs
    <2>3. BusyOnes(t) \subseteq {w} BY <1>5
    <2>4. Single(r) /\ BusyOnes(r) \subseteq {w} BY <2>2, <2>3, <1>1, <1>5, EndsSingle
    <2>5. UsbKept(t) /\ (w \in Stas => t.wan[w].active \in {r.wan[w].active, {}} \/ r.wan[w].active = {}) => UsbKept(r)
      BY <2>2, <2>3, <1>1, <1>5, EndsSingle
    <2>6. Chain(EndTold(t, w, f), a, ActiveV4(r)) /\ Own(EndTold(t, w, f)) BY <2>2, <2>3, <1>1, <1>5, EndSays
    <2>7. Says(r, a) BY <2>2, <2>6 DEF Says
    <2>8. Tethered(r) = Tethered(t) BY <2>2 DEF Tethered
    <2>9. r.wan[w].active = s.wan[w].active \ {f} /\ r.wan[w].partial = s.wan[w].partial /\ \A v \in Wans \ {w} : r.wan[v] = s.wan[v]
      BY <2>2, <1>5 DEF Ends, Edits
    <2>10. f \notin s.wan[w].partial BY <1>1 DEF Fit
    <2>11. Listed(r)
      <3>1. \A g \in Families : r.tether[g] # <<>> <=> g \in r.wan[w].active \cup r.wan[w].partial
        <4> SUFFICES ASSUME NEW g \in Families PROVE r.tether[g] # <<>> <=> g \in r.wan[w].active \cup r.wan[w].partial OBVIOUS
        <4>1. CASE g = f BY <4>1, <2>2, <2>9, <2>10, <1>12
        <4>2. CASE g # f BY <4>2, <2>2, <2>9, <1>5, <1>10
        <4> QED BY <4>1, <4>2
      <3>2. \A v \in Wans \ {w} : r.wan[v].active \cup r.wan[v].partial = {} BY <2>9, <1>9
      <3> QED BY <3>1, <3>2, <2>2, <1>8 DEF Listed, Distinct
    <2>12. UsbKept(s) /\ (w \in Stas => r.wan[w].active \in {s.wan[w].active, {}}) => UsbKept(r) BY <2>5, <1>5
    <2> QED BY <2>4, <2>7, <2>8, <2>11, <2>12, <1>3, <1>7 DEF Ordered
  <1> QED BY <1>11, <1>12
-----------------------------------------------------------------------------
(* The header, an address, and the end of a link                           *)

\* The header of a USB upstream arrives.
HeaderSet(s, w) == [s EXCEPT !.wan[w].header = TRUE]

LEMMA HeaderSetIs ==
  ASSUME NEW s \in Upstreams, NEW w \in Wans, NEW r, r = HeaderSet(s, w)
  PROVE  /\ r \in Upstreams /\ Keeps(r, s, {"wan"}) /\ \A v \in Wans \ {w} : r.wan[v] = s.wan[v]
         /\ r.wan[w].header /\ r.wan[w].ip = s.wan[w].ip /\ r.wan[w].addrs = s.wan[w].addrs /\ r.wan[w].gateway = s.wan[w].gateway
         /\ r.wan[w].active = s.wan[w].active /\ r.wan[w].partial = s.wan[w].partial
  <1> DEFINE o == [s.wan[w] EXCEPT !.header = TRUE]
  <1>1. s.wan[w] \in WanObjects BY DEF Upstreams
  <1>2. /\ o \in WanObjects /\ o.header /\ o.ip = s.wan[w].ip /\ o.addrs = s.wan[w].addrs /\ o.gateway = s.wan[w].gateway
        /\ o.active = s.wan[w].active /\ o.partial = s.wan[w].partial
    BY <1>1 DEF WanObjects
  <1>3. r = [s EXCEPT !.wan[w] = o] BY DEF HeaderSet
  <1> HIDE DEF o
  <1>4. r \in Upstreams /\ r.wan[w] = o /\ Keeps(r, s, {"wan"}) /\ \A v \in Wans \ {w} : r.wan[v] = s.wan[v]
    BY <1>2, <1>3, WanSet
  <1> QED BY <1>2, <1>4

\* A family that waits gets its route, once the header is there.
HeaderGives(r, s, w, f) ==
  /\ Edits(r, s, w)
  /\ r.wan[w].active = s.wan[w].active \cup (s.wan[w].partial \cap {f})
  /\ r.wan[w].partial = s.wan[w].partial \ {f}
  /\ Crossed(s) => Crossed(r)
  /\ s.modem = s.flt => r.modem = r.flt
  /\ r.num_modem_pdn = s.num_modem_pdn /\ r.producer_up = s.producer_up /\ r.tether = s.tether

LEMMA HeaderStep ==
  ASSUME NEW s \in Upstreams, NEW w \in Wans, s.wan[w].header, NEW f \in Families,
         NEW r, r = IF f \in s.wan[w].partial THEN RouteAddEvt(s, w, f) ELSE s
  PROVE  HeaderGives(r, s, w, f)
  <1>1. CASE f \in s.wan[w].partial
    <2>1. Serves(r, s, w, f) BY <1>1, RouteAddEvtIs
    <2>2. r.num_modem_pdn = s.num_modem_pdn /\ r.producer_up = s.producer_up /\ r.tether = s.tether
      BY <2>1 DEF Serves, Keeps, Fields
    <2> QED BY <1>1, <2>1, <2>2 DEF Serves, HeaderGives, Joined
  <1>2. CASE f \notin s.wan[w].partial BY <1>2 DEF HeaderGives, Edits
  <1> QED BY <1>1, <1>2

LEMMA HeaderStepOrdered ==
  ASSUME NEW s \in Upstreams, NEW w \in Wans, s.wan[w].header, NEW f \in Families,
         NEW r, r = IF f \in s.wan[w].partial THEN RouteAddEvt(s, w, f) ELSE s,
         Single(s), BusyOnes(s) \subseteq {w}, Stas \subseteq Wans, f \notin s.wan[w].active, NEW a, Says(s, a)
  PROVE  Single(r) /\ BusyOnes(r) \subseteq {w} /\ Says(r, a) /\ (UsbKept(s) => UsbKept(r))
  <1>1. CASE f \in s.wan[w].partial
    <2>1. Serves(r, s, w, f) BY <1>1, RouteAddEvtIs
    <2> QED BY <2>1, ServesSingle
  <1>2. CASE f \notin s.wan[w].partial BY <1>2
  <1> QED BY <1>1, <1>2

\* handle_header_add_evt() for the families that waited.
LEMMA OnHeaderIs ==
  ASSUME NEW s \in Ok, NEW w \in ToSet(wans), w \in Wans, Stas \subseteq Wans, NEW r, r = OnHeader(s, w)
  PROVE  /\ r \in Ok
         /\ \A a : Ordered(s, a) => Ordered(r, a) /\ BusyOnes(r) \subseteq BusyOnes(s) /\ Tethered(r) = Tethered(s)
         /\ \A a : Ordered(s, a) /\ UsbKept(s) => UsbKept(r)
  <1>1. s \in Upstreams /\ Sound(s) /\ Made(s) /\ Fit(s.wan[w], w) BY DEF Ok, Sound, Made
  <1>2. CASE s.wan[w].header BY <1>2 DEF OnHeader
  <1>3. CASE ~s.wan[w].header
    <2> DEFINE s1 == HeaderSet(s, w)
               s2 == IF "v4" \in s1.wan[w].partial THEN RouteAddEvt(s1, w, "v4") ELSE s1
    <2>1. /\ s1 \in Upstreams /\ Keeps(s1, s, {"wan"}) /\ \A v \in Wans \ {w} : s1.wan[v] = s.wan[v]
          /\ s1.wan[w].header /\ s1.wan[w].ip = s.wan[w].ip /\ s1.wan[w].addrs = s.wan[w].addrs /\ s1.wan[w].gateway = s.wan[w].gateway
          /\ s1.wan[w].active = s.wan[w].active /\ s1.wan[w].partial = s.wan[w].partial
      BY <1>1, HeaderSetIs
    <2>2. r = IF "v6" \in s.wan[w].partial THEN RouteAddEvt(s2, w, "v6") ELSE s2
      BY <2>1, <1>3 DEF OnHeader, HeaderSet
    <2> HIDE DEF s1
    <2>3. /\ s1.wan_up = s.wan_up /\ s1.flt = s.flt /\ s1.modem = s.modem /\ s1.a2_check = s.a2_check
          /\ s1.consumer_up = s.consumer_up /\ s1.rm_set = s.rm_set /\ s1.producer_up = s.producer_up
          /\ s1.num_modem_pdn = s.num_modem_pdn /\ s1.tether = s.tether /\ s1.posted = s.posted
      BY <2>1 DEF Keeps, Fields
    <2>a. "v4" \in Families /\ "v6" \in Families BY DEF Families
    <2>4. HeaderGives(s2, s1, w, "v4") BY <2>1, <2>a, HeaderStep
    <2>5. ASSUME NEW a, Single(s1), BusyOnes(s1) \subseteq {w}, "v4" \notin s1.wan[w].active, Says(s1, a)
          PROVE  Single(s2) /\ BusyOnes(s2) \subseteq {w} /\ Says(s2, a) /\ (UsbKept(s1) => UsbKept(s2))
      BY <2>1, <2>5, <2>a, HeaderStepOrdered
    <2> HIDE DEF s2
    <2>6. /\ s2 \in Upstreams /\ s2.wan[w].header /\ ("v6" \in s2.wan[w].partial <=> "v6" \in s.wan[w].partial)
      BY <2>1, <2>4 DEF HeaderGives, Edits
    <2>7. r = IF "v6" \in s2.wan[w].partial THEN RouteAddEvt(s2, w, "v6") ELSE s2 BY <2>2, <2>6
    <2>8. HeaderGives(r, s2, w, "v6") BY <2>6, <2>7, <2>a, HeaderStep
    <2>9. ASSUME NEW a, Single(s2), BusyOnes(s2) \subseteq {w}, "v6" \notin s2.wan[w].active, Says(s2, a)
          PROVE  Single(r) /\ BusyOnes(r) \subseteq {w} /\ Says(r, a) /\ (UsbKept(s2) => UsbKept(r))
      BY <2>6, <2>7, <2>9, <2>a, HeaderStepOrdered
    <2>10. s.wan[w].partial \subseteq {"v4", "v6"} BY <1>1 DEF Upstreams, WanObjects, Families
    <2>11. /\ r \in Upstreams /\ \A v \in Wans \ {w} : r.wan[v] = s.wan[v]
           /\ r.wan[w].partial = {} /\ r.wan[w].active = s.wan[w].active \cup s.wan[w].partial
           /\ r.wan[w].ip = s.wan[w].ip /\ r.wan[w].addrs = s.wan[w].addrs /\ r.wan[w].header
           /\ Crossed(s1) => Crossed(r)
           /\ s1.modem = s1.flt => r.modem = r.flt
           /\ r.num_modem_pdn = s.num_modem_pdn /\ r.producer_up = s.producer_up /\ r.tether = s.tether
      <3>1. r \in Upstreams /\ \A v \in Wans \ {w} : r.wan[v] = s.wan[v] BY <2>1, <2>4, <2>8 DEF HeaderGives, Edits
      <3>2. r.wan[w].partial = {} /\ r.wan[w].active = s.wan[w].active \cup s.wan[w].partial
        BY <2>1, <2>4, <2>8, <2>10 DEF HeaderGives
      <3>3. r.wan[w].ip = s.wan[w].ip /\ r.wan[w].addrs = s.wan[w].addrs /\ r.wan[w].header
        BY <2>1, <2>4, <2>8 DEF HeaderGives, Edits
      <3>4. /\ Crossed(s1) => Crossed(r)
            /\ s1.modem = s1.flt => r.modem = r.flt
            /\ r.num_modem_pdn = s.num_modem_pdn /\ r.producer_up = s.producer_up /\ r.tether = s.tether
        BY <2>3, <2>4, <2>8 DEF HeaderGives
      <3> QED BY <3>1, <3>2, <3>3, <3>4
    <2>12. r \in Ok
      <3>1. Fit(r.wan[w], w) BY <1>1, <2>11 DEF Fit
      <3>2. Crossed(r) BY <1>1, <2>3, <2>11 DEF Made, Crossed
      <3>3. Made(r) BY <1>1, <2>11, <3>1, <3>2 DEF Made, Crossed
      <3>4. \A v \in Wans : r.wan[v].ip = s.wan[v].ip BY <2>11
      <3>5. PdnCounted(r) BY <1>1, <2>11, <3>4, CountedKept DEF Sound
      <3>6. r.modem = r.flt BY <1>1, <2>3, <2>11 DEF Sound
      <3>7. Present(r) BY <2>11 DEF Ok, Present
      <3> QED BY <2>11, <3>3, <3>5, <3>6, <3>7 DEF Ok, Sound
    <2>13. ASSUME NEW a, Ordered(s, a)
           PROVE  /\ Ordered(r, a) /\ BusyOnes(r) \subseteq BusyOnes(s) /\ Tethered(r) = Tethered(s)
                  /\ UsbKept(s) => UsbKept(r)
      <3>1. BusyOnes(s1) = BusyOnes(s) /\ \A v \in Wans : Busy(s1, v) <=> Busy(s, v) BY <2>1 DEF BusyOnes, Busy
      <3>2. /\ \A v \in Wans : s1.wan[v].active = s.wan[v].active /\ s1.wan[v].gateway = s.wan[v].gateway
            /\ ActiveV4(s1) = ActiveV4(s)
        BY <2>1 DEF ActiveV4
      <3>3. \A f \in Families : Users(s1, f) = Users(s, f) BY <3>2 DEF Users, Modems
      <3>4. Users(s1, "v4") = Users(s, "v4") /\ Users(s1, "v6") = Users(s, "v6") BY <3>3, <2>a
      <3>5. Single(s1)
        <4>1. \A v \in Modems : v \in Wans BY DEF Modems
        <4>2. \A v \in Stas : v \in Wans OBVIOUS
        <4> QED BY <2>3, <3>1, <3>2, <3>4, <4>1, <4>2, <2>13 DEF Single, Ordered
      <3>6. Says(s1, a) BY <2>3, <3>2, <2>13 DEF Says, Ordered
      <3>7. UsbKept(s) => UsbKept(s1) BY <2>3, <3>2 DEF UsbKept
      <3>8. Tethered(r) = Tethered(s) BY <2>11 DEF Tethered
      <3>9. \A v \in Wans : r.wan[v].active \cup r.wan[v].partial = s.wan[v].active \cup s.wan[v].partial BY <2>11
      <3>10. BusyOnes(r) = BusyOnes(s) BY <3>9 DEF BusyOnes, Busy
      <3>11. Listed(r) BY <2>11, <3>9, <2>13 DEF Listed, Ordered
      <3>12. CASE s.wan[w].partial # {}
        <4>1. w \in Stas /\ s.wan[w].active = {} BY <1>1, <1>3, <3>12 DEF Fit
        <4>2. BusyOnes(s1) \subseteq {w}
          <5>1. Busy(s, w) BY <3>12 DEF Busy
          <5> QED BY <5>1, <3>1, <2>13 DEF BusyOnes, Single, Ordered
        <4>3. "v4" \notin s1.wan[w].active BY <4>1, <2>1
        <4>4. Single(s2) /\ BusyOnes(s2) \subseteq {w} /\ Says(s2, a) /\ (UsbKept(s1) => UsbKept(s2))
          BY <2>5, <3>5, <3>6, <4>2, <4>3
        <4>5. "v6" \notin s2.wan[w].active BY <4>1, <2>1, <2>4 DEF HeaderGives
        <4>6. Single(r) /\ Says(r, a) /\ (UsbKept(s2) => UsbKept(r)) BY <2>9, <4>4, <4>5
        <4> QED BY <3>7, <3>8, <3>10, <3>11, <4>4, <4>6 DEF Ordered
      <3>13. CASE s.wan[w].partial = {}
        <4>1. s2 = s1 BY <2>1, <3>13 DEF s2
        <4>2. r = s1 BY <2>2, <3>13, <4>1
        <4> QED BY <3>5, <3>6, <3>7, <3>8, <3>10, <3>11, <4>2 DEF Ordered
      <3> QED BY <3>12, <3>13
    <2> QED BY <2>12, <2>13
  <1> QED BY <1>2, <1>3
-----------------------------------------------------------------------------
(* An address, and the end of a link                                       *)

\* Nothing changes that the conditions on the one upstream speak of.
LEMMA SameOrder ==
  ASSUME NEW s \in Upstreams, NEW r \in Upstreams, Stas \subseteq Wans,
         \A v \in Wans : /\ r.wan[v].active = s.wan[v].active /\ r.wan[v].partial = s.wan[v].partial
                         /\ r.wan[v].gateway => s.wan[v].gateway,
         r.wan_up = s.wan_up, r.tether = s.tether, r.a2_check = s.a2_check, r.posted = s.posted,
         "Q6" \in r.consumer_up <=> "Q6" \in s.consumer_up,
         "USB" \in r.consumer_up => "USB" \in s.consumer_up,
         \A f \in Families, v \in Modems : f \in s.wan[v].active /\ s.flt[f] = "firewall" => r.flt[f] = "firewall"
  PROVE  /\ \A a : Ordered(s, a) => Ordered(r, a)
         /\ Single(s) => Single(r)
         /\ BusyOnes(r) = BusyOnes(s) /\ Tethered(r) = Tethered(s) /\ ActiveV4(r) = ActiveV4(s)
         /\ "USB" \in r.consumer_up /\ UsbKept(s) => UsbKept(r)
  <1>1. \A v \in Wans : Busy(r, v) <=> Busy(s, v) BY DEF Busy
  <1>2. BusyOnes(r) = BusyOnes(s) /\ Tethered(r) = Tethered(s) /\ ActiveV4(r) = ActiveV4(s) BY <1>1 DEF BusyOnes, Tethered, ActiveV4
  <1>3. ASSUME Single(s) PROVE Single(r)
    <2>1. \A v \in Modems : v \in Wans BY DEF Modems
    <2>2. \A f \in Families : Users(r, f) = Users(s, f) BY <2>1 DEF Users
    <2>3. "v4" \in Families /\ "v6" \in Families BY DEF Families
    <2>4. r.a2_check = Users(r, "v4") + Users(r, "v6") BY <2>2, <2>3, <1>3 DEF Single
    <2>5. \A w, v \in Wans : Busy(r, w) /\ Busy(r, v) => w = v BY <1>1, <1>3 DEF Single
    <2>6. \A w \in Wans : r.wan[w].gateway => Busy(r, w) BY <1>1, <1>3 DEF Single
    <2>7. \A f \in Families : r.wan_up[f] <=> \E w \in Wans : f \in r.wan[w].active BY <1>3 DEF Single
    <2>8. \A f \in Families, w \in Modems : f \in r.wan[w].active => r.flt[f] = "firewall" BY <2>1, <1>3 DEF Single
    <2>9. "Q6" \in r.consumer_up <=> \E w \in Modems : r.wan[w].active # {} BY <2>1, <1>3 DEF Single
    <2>10. "USB" \in r.consumer_up => \E w \in Stas : r.wan[w].active # {} BY <1>3 DEF Single
    <2> QED BY <2>4, <2>5, <2>6, <2>7, <2>8, <2>9, <2>10 DEF Single
  <1>4. ASSUME NEW a, Ordered(s, a) PROVE Ordered(r, a)
    <2>1. Listed(r) BY <1>4 DEF Listed, Ordered
    <2>2. Says(r, a) BY <1>2, <1>4 DEF Says, Ordered
    <2> QED BY <2>1, <2>2, <1>3, <1>4 DEF Ordered
  <1>5. "USB" \in r.consumer_up /\ UsbKept(s) => UsbKept(r) BY DEF UsbKept
  <1> QED BY <1>2, <1>3, <1>4, <1>5

\* As long as a modem has an address of a family, the family is counted.
LEMMA CountedSome ==
  ASSUME NEW s \in Upstreams, PdnCounted(s), NEW f \in Families, NEW v \in Modems, f \in s.wan[v].ip, IsFiniteSet(Wans)
  PROVE  s.num_modem_pdn[f] >= 1
  <1>1. v \in Having(s, f) BY DEF Having
  <1>2. IsFiniteSet(Having(s, f)) BY FS_Subset DEF Having, Modems
  <1>3. Cardinality(Having(s, f)) \in Nat /\ Cardinality(Having(s, f)) # 0 BY <1>1, <1>2, FS_CardinalityType, FS_EmptySet
  <1>4. s.num_modem_pdn[f] >= Cardinality(Having(s, f)) /\ s.num_modem_pdn[f] \in Int BY DEF PdnCounted, Upstreams
  <1> QED BY <1>3, <1>4

\* handle_addr_evt() disturbs no upstream in use.
LEMMA WanAddrAddIs ==
  ASSUME NEW s \in Ok, NEW w \in ToSet(wans), w \in Wans, NEW f \in Families, NEW r, r = WanAddrAdd(s, w, f),
         Stas \subseteq Wans, IsFiniteSet(Wans), MaxV6Addrs \in Nat, MaxV6Addrs > 0
  PROVE  /\ r \in Ok
         /\ \A a : Ordered(s, a) => Ordered(r, a)
         /\ BusyOnes(r) = BusyOnes(s) /\ Tethered(r) = Tethered(s)
         /\ UsbKept(s) => UsbKept(r)
  <1> DEFINE first == f \notin s.wan[w].ip
             o  == [s.wan[w] EXCEPT !.ip = @ \cup {f}, !.addrs = IF f = "v6" THEN @ + 1 ELSE @]
             s1 == [s EXCEPT !.wan[w] = o]
  <1>1. s \in Upstreams /\ Sound(s) /\ Made(s) /\ PdnCounted(s) /\ s.modem = s.flt /\ Fit(s.wan[w], w) BY DEF Ok, Sound, Made
  <1>2. s.wan[w] \in WanObjects BY <1>1 DEF Upstreams
  <1>3. CASE ~(first \/ (f = "v6" /\ s.wan[w].addrs < MaxV6Addrs))
    <2>1. r = s BY <1>3 DEF WanAddrAdd
    <2> QED BY <2>1
  <1>4. CASE first \/ (f = "v6" /\ s.wan[w].addrs < MaxV6Addrs)
    <2>1. f = "v6" => s.wan[w].addrs + 1 \in 0..MaxV6Addrs
      <3>1. s.wan[w].addrs \in 0..MaxV6Addrs BY <1>2 DEF WanObjects
      <3>2. first /\ f = "v6" => s.wan[w].addrs = 0 BY <1>1 DEF Fit
      <3> QED BY <3>1, <3>2, <1>4
    <2>2. /\ o \in WanObjects /\ o.ip = s.wan[w].ip \cup {f} /\ o.active = s.wan[w].active /\ o.partial = s.wan[w].partial
          /\ o.header = s.wan[w].header /\ o.gateway = s.wan[w].gateway
          /\ f # "v6" => o.addrs = s.wan[w].addrs
      BY <1>2, <2>1 DEF WanObjects
    <2>3. r = IF Sta(w) \/ ~first THEN s1 ELSE InstallWanFilteringRule([InitFlRuleEx(s1, f) EXCEPT !.num_modem_pdn[f] = @ + 1])
      <3>1. s1 = [s EXCEPT !.wan[w].ip = @ \cup {f}, !.wan[w].addrs = IF f = "v6" THEN @ + 1 ELSE @] BY <1>1 DEF Upstreams, WanObjects
      <3> HIDE DEF s1
      <3> QED BY <3>1, <1>4 DEF WanAddrAdd
    <2>4. Fit(o, w) BY <2>2, <1>1 DEF Fit
    <2> HIDE DEF o
    <2>5. s1 \in Upstreams /\ s1.wan[w] = o /\ Keeps(s1, s, {"wan"}) /\ \A v \in Wans \ {w} : s1.wan[v] = s.wan[v]
      BY <1>1, <2>2, WanSet
    <2> HIDE DEF s1
    <2>6. /\ s1.flt = s.flt /\ s1.modem = s.modem /\ s1.a2_check = s.a2_check /\ s1.consumer_up = s.consumer_up /\ s1.rm_set = s.rm_set
          /\ s1.producer_up = s.producer_up /\ s1.num_modem_pdn = s.num_modem_pdn /\ s1.tether = s.tether /\ s1.posted = s.posted
          /\ s1.wan_up = s.wan_up
      BY <2>5 DEF Keeps, Fields
    <2>7. /\ r \in Upstreams /\ r.wan = s1.wan /\ r.modem = r.flt /\ r.a2_check = s.a2_check /\ r.consumer_up = s.consumer_up /\ r.rm_set = s.rm_set
          /\ r.producer_up = s.producer_up /\ r.tether = s.tether /\ r.posted = s.posted /\ r.wan_up = s.wan_up
          /\ w \in Stas \/ ~first => r.num_modem_pdn = s.num_modem_pdn /\ r.flt = s.flt
          /\ w \notin Stas /\ first => /\ r.num_modem_pdn = [s.num_modem_pdn EXCEPT ![f] = @ + 1]
                                      /\ \A g \in Families : r.flt[g] = s.flt[g] \/ (g = f /\ s.num_modem_pdn[f] = 0)
      <3>1. CASE w \in Stas \/ ~first
        <4>1. r = s1 BY <2>3, <3>1 DEF Sta
        <4> QED BY <4>1, <3>1, <2>5, <2>6, <1>1
      <3>2. CASE w \notin Stas /\ first
        <4> DEFINE x == [s1.flt EXCEPT ![f] = IF s1.num_modem_pdn[f] = 0 THEN "default" ELSE @]
                   n == [s1.num_modem_pdn EXCEPT ![f] = @ + 1]
                   t == [s1 EXCEPT !.flt = x, !.num_modem_pdn = n]
        <4>1. s1.flt \in [Families -> Modes] /\ s1.num_modem_pdn \in [Families -> Int] BY <2>5 DEF Upstreams
        <4>2. x \in [Families -> Modes] /\ n \in [Families -> Int] BY <4>1 DEF Modes
        <4>3. [InitFlRuleEx(s1, f) EXCEPT !.num_modem_pdn[f] = @ + 1] = t BY <2>5 DEF InitFlRuleEx, Upstreams
        <4>4. \A g \in Families : x[g] = s.flt[g] \/ (g = f /\ s.num_modem_pdn[f] = 0) BY <4>1, <2>6
        <4>5. n = [s.num_modem_pdn EXCEPT ![f] = @ + 1] BY <2>6
        <4> HIDE DEF x, n
        <4>6. t \in Upstreams /\ t.flt = x /\ t.num_modem_pdn = n /\ Keeps(t, s1, {"flt", "num_modem_pdn"}) BY <2>5, <4>2 DEF Upstreams, Keeps, Fields
        <4> HIDE DEF t
        <4>7. r = [t EXCEPT !.modem = t.flt] BY <2>3, <3>2, <4>3 DEF InstallWanFilteringRule, Sta
        <4>8. r \in Upstreams BY <4>6, <4>7, FamilySet
        <4>9. r.modem = t.flt /\ Keeps(r, t, {"modem"}) BY <4>6, <4>7 DEF Upstreams, Keeps, Fields
        <4> QED BY <3>2, <4>4, <4>5, <4>6, <4>8, <4>9, <2>6 DEF Keeps, Fields
      <3> QED BY <3>1, <3>2
    <2>8. /\ \A v \in Wans : /\ r.wan[v].active = s.wan[v].active /\ r.wan[v].partial = s.wan[v].partial
                             /\ r.wan[v].gateway = s.wan[v].gateway /\ Fit(r.wan[v], v)
      BY <2>2, <2>4, <2>5, <2>7, <1>1 DEF Made
    <2>9. Made(r) BY <2>7, <2>8, <1>1 DEF Made
    <2>10. \A g \in Families : Having(r, g) = Having(s, g) \/ (g = f /\ w \notin Stas /\ first /\ Having(r, f) = Having(s, f) \cup {w})
      <3> SUFFICES ASSUME NEW g \in Families, Having(r, g) # Having(s, g)
                   PROVE g = f /\ w \notin Stas /\ first /\ Having(r, f) = Having(s, f) \cup {w}
        OBVIOUS
      <3>1. \A v \in Wans \ {w} : r.wan[v].ip = s.wan[v].ip BY <2>5, <2>7
      <3>2. r.wan[w].ip = s.wan[w].ip \cup {f} BY <2>2, <2>5, <2>7
      <3>3. g = f /\ w \notin Stas /\ first BY <3>1, <3>2 DEF Having, Modems
      <3> QED BY <3>1, <3>2, <3>3 DEF Having, Modems
    <2>11. PdnCounted(r)
      <3> SUFFICES ASSUME NEW g \in Families PROVE r.num_modem_pdn[g] >= Cardinality(Having(r, g)) BY DEF PdnCounted
      <3>1. IsFiniteSet(Having(s, g)) BY FS_Subset DEF Having, Modems
      <3>2. Cardinality(Having(s, g)) \in Nat BY <3>1, FS_CardinalityType
      <3>3. s.num_modem_pdn \in [Families -> Int] /\ s.num_modem_pdn[g] >= Cardinality(Having(s, g)) BY <1>1 DEF Upstreams, PdnCounted
      <3>4. CASE Having(r, g) = Having(s, g)
        <4>1. r.num_modem_pdn[g] = s.num_modem_pdn[g] \/ r.num_modem_pdn[g] = s.num_modem_pdn[g] + 1 BY <2>7, <3>3
        <4> QED BY <3>2, <3>3, <3>4, <4>1
      <3>5. CASE g = f /\ w \notin Stas /\ first /\ Having(r, f) = Having(s, f) \cup {w}
        <4>1. w \notin Having(s, f) BY <3>5 DEF Having
        <4>2. Cardinality(Having(r, g)) = Cardinality(Having(s, g)) + 1 BY <3>1, <3>5, <4>1, FS_AddElement
        <4>3. r.num_modem_pdn[g] = s.num_modem_pdn[g] + 1 BY <2>7, <3>3, <3>5
        <4> QED BY <3>2, <3>3, <4>2, <4>3
      <3> QED BY <3>4, <3>5, <2>10
    <2>12. Present(r) BY <2>5, <2>7 DEF Ok, Present
    <2>13. r \in Ok BY <2>7, <2>9, <2>11, <2>12 DEF Ok, Sound
    <2>14. \A g \in Families, v \in Modems : g \in s.wan[v].active /\ s.flt[g] = "firewall" => r.flt[g] = "firewall"
      <3> SUFFICES ASSUME NEW g \in Families, NEW v \in Modems, g \in s.wan[v].active PROVE r.flt[g] = s.flt[g] OBVIOUS
      <3>1. g \in s.wan[v].ip BY <1>1 DEF Made, Fit, Modems
      <3>2. s.num_modem_pdn[g] >= 1 BY <3>1, <1>1, CountedSome
      <3> QED BY <3>2, <2>7
    <2>15. /\ \A a : Ordered(s, a) => Ordered(r, a)
           /\ BusyOnes(r) = BusyOnes(s) /\ Tethered(r) = Tethered(s)
      BY <1>1, <2>7, <2>8, <2>14, SameOrder
    <2>16. UsbKept(s) => UsbKept(r) BY <2>7, <2>8 DEF UsbKept
    <2> QED BY <2>13, <2>15, <2>16
  <1> QED BY <1>3, <1>4
\* The lists of one family are emptied, and the others are told.
LEMMA FamilyDownOrdered ==
  ASSUME NEW s \in Upstreams, Single(s), NEW w \in Wans, BusyOnes(s) \subseteq {w}, NEW f \in Families, Stas \subseteq Wans,
         NEW a, Says(s, a), NEW r, r = FamilyDown(s, w, f)
  PROVE  Single(r) /\ BusyOnes(r) \subseteq {w} /\ Says(r, a)
  <1>1. Ends(r, s, w, f) /\ DownTold(r, s, w, f) /\ Downs(s, w, f) \in Seq(Events) BY FamilyDownIs
  <1>2. Single(r) /\ BusyOnes(r) \subseteq {w} BY <1>1, EndsSingle
  <1>3. /\ Chain(EndTold(s, w, f), a, ActiveV4(r)) /\ Own(EndTold(s, w, f)) /\ EndTold(s, w, f) \in Seq(Events) /\ ActiveV4(r) \in SUBSET Wans
    BY <1>1, EndSays
  <1>4. \A i \in 1..Len(Downs(s, w, f)) : ~Told(Downs(s, w, f)[i]) /\ ~Added(Downs(s, w, f)[i])
    <2>1. s.tether[f] \in Seq(Lans) BY DEF Upstreams
    <2>2. Len(Downs(s, w, f)) = Len(s.tether[f]) BY <2>1 DEF Downs
    <2> QED BY <2>1, <2>2 DEF Downs, Event, Told, Added
  <1>5. Chain(Downs(s, w, f), ActiveV4(r), ActiveV4(r)) BY <1>1, <1>3, <1>4, ChainSilent
  <1>6. Own(Downs(s, w, f)) BY <1>4 DEF Own
  <1>7. Says(r, a) BY <1>1, <1>3, <1>5, <1>6, ChainJoin, OwnGrows DEF Says, DownTold
  <1> QED BY <1>2, <1>7

\* One family of an object that goes down, `yes' if the object is the default gateway and has an address.
Goes(s, w, f, yes) == IF yes THEN FamilyDown(s, w, f) ELSE s

FamilyGoes(r, s, w, f, yes) ==
  /\ Made(r) /\ Edits(r, s, w) /\ r.producer_up = s.producer_up /\ r.num_modem_pdn = s.num_modem_pdn
  /\ r.wan[w].partial = s.wan[w].partial
  /\ yes => r.wan[w].active = s.wan[w].active \ {f} /\ r.tether = [s.tether EXCEPT ![f] = <<>>]
  /\ ~yes => r = s

LEMMA GoesIs ==
  ASSUME NEW s, Made(s), NEW w \in Wans, NEW f \in Families, NEW yes \in BOOLEAN, NEW r, r = Goes(s, w, f, yes)
  PROVE  FamilyGoes(r, s, w, f, yes)
  <1>1. s \in Upstreams BY DEF Made
  <1>2. CASE yes
    <2>1. Ends(r, s, w, f) /\ r.tether = [s.tether EXCEPT ![f] = <<>>] BY <1>1, <1>2, FamilyDownIs DEF Goes
    <2>2. r.num_modem_pdn = s.num_modem_pdn /\ r.producer_up = s.producer_up BY <2>1 DEF Ends, Keeps, Fields
    <2>3. Fit(r.wan[w], w) BY <2>1 DEF Ends, Edits, Fit, Made
    <2>4. Crossed(s) => Crossed(r)
      <3>1. CASE f \in s.wan[w].active BY <2>1, <3>1 DEF Ends, Left
      <3>2. CASE f \notin s.wan[w].active BY <2>1, <2>2, <3>2 DEF Ends, Crossed
      <3> QED BY <3>1, <3>2
    <2>5. Made(r) BY <2>1, <2>3, <2>4, MadeKept DEF Ends
    <2> QED BY <1>2, <2>1, <2>2, <2>5 DEF Ends, FamilyGoes
  <1>3. CASE ~yes BY <1>1, <1>3 DEF Goes, Edits, FamilyGoes
  <1> QED BY <1>2, <1>3

LEMMA NewWanIs ==
  ASSUME MaxV6Addrs \in Nat, NEW w
  PROVE  /\ NewWan \in WanObjects /\ Fit(NewWan, w) /\ NewWan.active = {} /\ NewWan.partial = {} /\ NewWan.ip = {}
         /\ ~NewWan.gateway /\ ~NewWan.header
  BY DEF NewWan, WanObjects, Fit

\* An object goes: `d' is what its end has made of `s'.
Others(r, s, w) == \A v \in Wans \ {w} : r.wan[v] = s.wan[v]

Ended(d, s, w) ==
  /\ Made(d) /\ d.modem = d.flt /\ d.producer_up = s.producer_up /\ Others(d, s, w)
  /\ \A f \in Families : d.num_modem_pdn[f] = s.num_modem_pdn[f]
                             \/ (w \notin Stas /\ f \in s.wan[w].ip /\ d.num_modem_pdn[f] = s.num_modem_pdn[f] - 1)

Renewed(r, d, s, w) == r \in Ok /\ r.wan[w] = NewWan /\ Keeps(r, d, {"wan"}) /\ Others(r, s, w)

\* The object of a link that went down begins anew.
LEMMA GoneIs ==
  ASSUME NEW s \in Ok, NEW d, NEW w \in Wans, MaxV6Addrs \in Nat, IsFiniteSet(Wans), Ended(d, s, w),
         NEW r, r = [d EXCEPT !.wan[w] = NewWan]
  PROVE  Renewed(r, d, s, w)
  <1>a. Made(d) /\ d.modem = d.flt /\ d.producer_up = s.producer_up /\ d \in Upstreams /\ \A v \in Wans \ {w} : d.wan[v] = s.wan[v]
    BY DEF Ended, Others, Made
  <1>b. \A f \in Families : d.num_modem_pdn[f] = s.num_modem_pdn[f]
                             \/ (w \notin Stas /\ f \in s.wan[w].ip /\ d.num_modem_pdn[f] = s.num_modem_pdn[f] - 1)
    BY DEF Ended
  <1>1. NewWan \in WanObjects /\ Fit(NewWan, w) /\ NewWan.ip = {} BY NewWanIs
  <1>2. r \in Upstreams /\ r.wan[w] = NewWan /\ Keeps(r, d, {"wan"}) /\ \A v \in Wans \ {w} : r.wan[v] = d.wan[v]
    BY <1>a, <1>1, WanSet
  <1>3. /\ r.rm_set = d.rm_set /\ r.producer_up = d.producer_up /\ r.consumer_up = d.consumer_up /\ r.modem = d.modem /\ r.flt = d.flt
        /\ r.num_modem_pdn = d.num_modem_pdn
    BY <1>2 DEF Keeps, Fields
  <1>4. Made(r) BY <1>a, <1>1, <1>2, <1>3 DEF Made
  <1>5. PdnCounted(r)
    <2> SUFFICES ASSUME NEW g \in Families PROVE r.num_modem_pdn[g] >= Cardinality(Having(r, g)) BY DEF PdnCounted
    <2>1. IsFiniteSet(Having(s, g)) BY FS_Subset DEF Having, Modems
    <2>2. Cardinality(Having(s, g)) \in Nat BY <2>1, FS_CardinalityType
    <2>3. s.num_modem_pdn[g] \in Int /\ s.num_modem_pdn[g] >= Cardinality(Having(s, g)) BY DEF Ok, Upstreams, Sound, PdnCounted
    <2>4. Having(r, g) = Having(s, g) \ {w} BY <1>a, <1>1, <1>2 DEF Having, Modems
    <2>5. CASE w \in Having(s, g)
      <3>1. Cardinality(Having(r, g)) = Cardinality(Having(s, g)) - 1 BY <2>1, <2>4, <2>5, FS_RemoveElement
      <3> QED BY <2>2, <2>3, <3>1, <1>3, <1>b
    <2>6. CASE w \notin Having(s, g)
      <3>1. Having(r, g) = Having(s, g) BY <2>4, <2>6
      <3>2. w \in Stas \/ g \notin s.wan[w].ip BY <2>6 DEF Having, Modems
      <3> QED BY <2>3, <3>1, <3>2, <1>3, <1>b
    <2> QED BY <2>5, <2>6
  <1>6. Present(r) BY <1>a, <1>2 DEF Ok, Present
  <1> QED BY <1>a, <1>2, <1>3, <1>4, <1>5, <1>6 DEF Ok, Sound, Renewed, Others

\* The end of a modem connection, before its object goes.
Uncounted(s, w) ==
  [f \in Families |-> IF f \in s.wan[w].ip /\ (f = "v6" => s.wan[w].addrs > 1) THEN s.num_modem_pdn[f] - 1 ELSE s.num_modem_pdn[f]]
Discounted(s, w) == [s EXCEPT !.num_modem_pdn = Uncounted(s, w)]
GoesV4(s, w)     == Goes(Discounted(s, w), w, "v4", s.wan[w].gateway /\ "v4" \in s.wan[w].ip)
GoesV6(s, w)     == Goes(GoesV4(s, w), w, "v6", s.wan[w].gateway /\ "v6" \in s.wan[w].ip)

LEMMA DiscountedIs ==
  ASSUME NEW s, Made(s), NEW w \in Wans, NEW r, r = Discounted(s, w)
  PROVE  /\ Made(r) /\ r.num_modem_pdn = Uncounted(s, w) /\ Keeps(r, s, {"num_modem_pdn"})
         /\ \A f \in Families : r.num_modem_pdn[f] = s.num_modem_pdn[f]
                                  \/ (f \in s.wan[w].ip /\ r.num_modem_pdn[f] = s.num_modem_pdn[f] - 1)
  <1>1. s \in Upstreams /\ s.num_modem_pdn \in [Families -> Int] BY DEF Made, Upstreams
  <1>2. Uncounted(s, w) \in [Families -> Int] BY <1>1 DEF Uncounted
  <1>3. \A f \in Families : Uncounted(s, w)[f] = s.num_modem_pdn[f]
                              \/ (f \in s.wan[w].ip /\ Uncounted(s, w)[f] = s.num_modem_pdn[f] - 1)
    BY DEF Uncounted
  <1>4. r \in Upstreams /\ r.num_modem_pdn = Uncounted(s, w) BY <1>1, <1>2 DEF Discounted, Upstreams
  <1>5. Keeps(r, s, {"num_modem_pdn"}) BY <1>1 DEF Discounted, Upstreams, Keeps, Fields
  <1>6. Made(r) BY <1>4, <1>5 DEF Made, Keeps, Fields
  <1> QED BY <1>3, <1>4, <1>5, <1>6

\* handle_down_evt_ex(), both families and the rules for the modem.
LEMMA DownEvtExIs ==
  ASSUME NEW s, Made(s), s.modem = s.flt, NEW w \in Wans, s.wan[w].ip # {}, NEW r, r = DownEvtEx(s, w)
  PROVE  /\ Made(GoesV4(s, w)) /\ Made(GoesV6(s, w))
         /\ Made(r) /\ r.modem = r.flt /\ r.producer_up = s.producer_up /\ Keeps(r, GoesV6(s, w), {"flt", "modem"})
         /\ r.num_modem_pdn = Uncounted(s, w) /\ \A v \in Wans \ {w} : r.wan[v] = s.wan[v]
         /\ \A f \in Families : r.flt[f] = GoesV6(s, w).flt[f] \/ (f \in s.wan[w].ip /\ r.num_modem_pdn[f] = 0)
  <1> DEFINE s1 == Discounted(s, w)
             s2 == GoesV4(s, w)
             s3 == GoesV6(s, w)
             x  == [f \in Families |-> IF f \in s.wan[w].ip /\ s3.num_modem_pdn[f] = 0 THEN "none" ELSE s3.flt[f]]
             s4 == [s3 EXCEPT !.flt = x]
             y4 == s.wan[w].gateway /\ "v4" \in s.wan[w].ip
             y6 == s.wan[w].gateway /\ "v6" \in s.wan[w].ip
  <1>1. Made(s1) /\ s1.num_modem_pdn = Uncounted(s, w) /\ Keeps(s1, s, {"num_modem_pdn"}) BY DiscountedIs
  <1>2. "v4" \in Families /\ "v6" \in Families BY DEF Families
  <1>3. y4 \in BOOLEAN /\ y6 \in BOOLEAN OBVIOUS
  <1>a. s2 = Goes(s1, w, "v4", y4) /\ s3 = Goes(s2, w, "v6", y6) BY DEF GoesV4, GoesV6
  <1> HIDE DEF y4, y6, s1, s2, s3
  <1>b. FamilyGoes(s2, s1, w, "v4", y4) BY <1>1, <1>2, <1>3, <1>a, GoesIs
  <1>4. Made(s2) /\ Edits(s2, s1, w) /\ s2.producer_up = s1.producer_up /\ s2.num_modem_pdn = s1.num_modem_pdn
    BY <1>b DEF FamilyGoes
  <1>c. FamilyGoes(s3, s2, w, "v6", y6) BY <1>2, <1>3, <1>4, <1>a, GoesIs
  <1>5. Made(s3) /\ Edits(s3, s2, w) /\ s3.producer_up = s2.producer_up /\ s3.num_modem_pdn = s2.num_modem_pdn
    BY <1>c DEF FamilyGoes
  <1>6. r = InstallWanFilteringRule(s4)
    <2>1. s3.flt \in [Families -> Modes] BY <1>5 DEF Made, Upstreams
    <2>2. r = InstallWanFilteringRule(
                [s3 EXCEPT !.flt = [f \in Families |-> IF f \in s.wan[w].ip /\ s3.num_modem_pdn[f] = 0 THEN "none" ELSE @[f]]])
      BY DEF DownEvtEx, GoesV6, GoesV4, Goes, Discounted, Uncounted, s3
    <2>3. [s3 EXCEPT !.flt = [f \in Families |-> IF f \in s.wan[w].ip /\ s3.num_modem_pdn[f] = 0 THEN "none" ELSE @[f]]] = s4
      BY <1>5 DEF Made, Upstreams
    <2> HIDE DEF s4
    <2> QED BY <2>2, <2>3
  <1>7. s3 \in Upstreams BY <1>5 DEF Made
  <1>8. x \in [Families -> Modes] BY <1>7 DEF Upstreams, Modes
  <1>9. \A f \in Families : x[f] = s3.flt[f] \/ (f \in s.wan[w].ip /\ s3.num_modem_pdn[f] = 0) OBVIOUS
  <1> HIDE DEF x
  <1>10. s4 \in Upstreams /\ s4.flt = x /\ Keeps(s4, s3, {"flt"}) BY <1>7, <1>8 DEF Upstreams, Keeps, Fields
  <1> HIDE DEF s4
  <1>11. r \in Upstreams /\ r.modem = s4.flt /\ Keeps(r, s4, {"modem"})
    <2>1. r = [s4 EXCEPT !.modem = s4.flt] BY <1>6 DEF InstallWanFilteringRule
    <2>2. r \in Upstreams BY <1>2, <1>10, <2>1, FamilySet
    <2> QED BY <1>10, <2>1, <2>2 DEF Upstreams, Keeps, Fields
  <1>12. Keeps(r, s3, {"flt", "modem"}) BY <1>10, <1>11 DEF Keeps
  <1>13. r.flt = x /\ r.modem = x BY <1>10, <1>11 DEF Keeps, Fields
  <1>14. /\ r.wan = s3.wan /\ r.rm_set = s3.rm_set /\ r.producer_up = s3.producer_up /\ r.consumer_up = s3.consumer_up
         /\ r.num_modem_pdn = s3.num_modem_pdn /\ s1.wan = s.wan /\ s1.producer_up = s.producer_up
    BY <1>1, <1>12 DEF Keeps, Fields
  <1>15. Made(r) BY <1>5, <1>11, <1>14 DEF Made
  <1>16. \A v \in Wans \ {w} : r.wan[v] = s.wan[v] BY <1>4, <1>5, <1>14 DEF Edits
  <1>17. Made(s2) /\ Made(s3) BY <1>4, <1>5
  <1>18. \A f \in Families : r.flt[f] = s3.flt[f] \/ (f \in s.wan[w].ip /\ r.num_modem_pdn[f] = 0) BY <1>9, <1>13, <1>14
  <1> QED BY <1>1, <1>4, <1>5, <1>12, <1>13, <1>14, <1>15, <1>16, <1>17, <1>18 DEF s1, s2, s3

\* The object of the modem goes, whatever came before.
LEMMA ModemGone ==
  ASSUME NEW s \in Ok, NEW w \in Wans, w \notin Stas, NEW r, r = WanDown(s, w), MaxV6Addrs \in Nat, IsFiniteSet(Wans)
  PROVE  Renewed(r, DownEvtEx(s, w), s, w)
  <1> DEFINE d == DownEvtEx(s, w)
  <1>1. r = [d EXCEPT !.wan[w] = NewWan] BY DEF WanDown, Sta
  <1>2. Made(s) /\ s.modem = s.flt /\ s \in Upstreams BY DEF Ok, Sound
  <1>3. /\ Made(d) /\ d.modem = d.flt /\ d.producer_up = s.producer_up /\ \A v \in Wans \ {w} : d.wan[v] = s.wan[v]
        /\ \A f \in Families : d.num_modem_pdn[f] = s.num_modem_pdn[f]
                                 \/ (f \in s.wan[w].ip /\ d.num_modem_pdn[f] = s.num_modem_pdn[f] - 1)
    <2>1. CASE s.wan[w].ip = {}
      <3>1. d = s BY <2>1 DEF DownEvtEx
      <3> QED BY <3>1, <1>2
    <2>2. CASE s.wan[w].ip # {}
      <3>1. Made(d) /\ d.modem = d.flt /\ d.producer_up = s.producer_up /\ d.num_modem_pdn = Uncounted(s, w)
            /\ \A v \in Wans \ {w} : d.wan[v] = s.wan[v]
        BY <2>2, <1>2, DownEvtExIs
      <3>2. \A f \in Families : Uncounted(s, w)[f] = s.num_modem_pdn[f]
                                  \/ (f \in s.wan[w].ip /\ Uncounted(s, w)[f] = s.num_modem_pdn[f] - 1)
        BY DEF Uncounted
      <3> HIDE DEF d
      <3> QED BY <3>1, <3>2
    <2> QED BY <2>1, <2>2
  <1> HIDE DEF d
  <1>4. Ended(d, s, w) BY <1>3 DEF Ended, Others
  <1>5. Renewed(r, d, s, w) BY <1>1, <1>4, GoneIs
  <1> QED BY <1>5 DEF d

\* In order, an upstream that goes leaves nothing behind.
LEMMA ModemGoneOrdered ==
  ASSUME NEW s \in Ok, NEW w \in Wans, w \notin Stas, NEW r, r = WanDown(s, w), MaxV6Addrs \in Nat, IsFiniteSet(Wans),
         Stas \subseteq Wans, NEW a, Ordered(s, a), s.wan[w].active # {} => s.wan[w].gateway
  PROVE  Ordered(r, a) /\ BusyOnes(r) \subseteq BusyOnes(s) \ {w} /\ Tethered(r) \subseteq Tethered(s)
  <1> DEFINE d  == DownEvtEx(s, w)
             s1 == Discounted(s, w)
             s2 == GoesV4(s, w)
             s3 == GoesV6(s, w)
             y4 == s.wan[w].gateway /\ "v4" \in s.wan[w].ip
             y6 == s.wan[w].gateway /\ "v6" \in s.wan[w].ip
  <1>1. Renewed(r, d, s, w) BY ModemGone
  <1>2. /\ s \in Upstreams /\ Made(s) /\ s.modem = s.flt /\ Fit(s.wan[w], w) /\ s.wan[w] \in WanObjects
        /\ Single(s) /\ Listed(s) /\ Says(s, a)
    BY DEF Ok, Sound, Made, Upstreams, Ordered
  <1>3. /\ r \in Ok /\ r \in Upstreams /\ r.wan[w] = NewWan /\ \A v \in Wans \ {w} : r.wan[v] = s.wan[v]
        /\ r.wan_up = d.wan_up /\ r.tether = d.tether /\ r.a2_check = d.a2_check /\ r.consumer_up = d.consumer_up
        /\ r.posted = d.posted /\ r.flt = d.flt /\ r.num_modem_pdn = d.num_modem_pdn
    BY <1>1 DEF Renewed, Others, Keeps, Fields, Ok
  <1>4. NewWan.active = {} /\ NewWan.partial = {} /\ NewWan.ip = {} /\ ~NewWan.gateway BY NewWanIs
  <1>5. s.wan[w].partial = {} /\ s.wan[w].active \subseteq s.wan[w].ip /\ s.wan[w].active \subseteq {"v4", "v6"}
    BY <1>2 DEF Fit, WanObjects, Families
  <1>6. ~Busy(r, w) BY <1>3, <1>4 DEF Busy
  <1>7. BusyOnes(r) \subseteq BusyOnes(s) \ {w} BY <1>3, <1>6 DEF BusyOnes, Busy
  <1>8. CASE s.wan[w].active = {}
    <2>1. ~s.wan[w].gateway BY <1>2, <1>5, <1>8 DEF Single, Busy
    <2>2. \A v \in Wans : /\ r.wan[v].active = s.wan[v].active /\ r.wan[v].partial = s.wan[v].partial
                          /\ r.wan[v].gateway => s.wan[v].gateway
      BY <1>3, <1>4, <1>5, <1>8
    <2>3. /\ d.wan_up = s.wan_up /\ d.tether = s.tether /\ d.a2_check = s.a2_check /\ d.consumer_up = s.consumer_up
          /\ d.posted = s.posted
          /\ \A f \in Families : d.flt[f] = s.flt[f] \/ d.num_modem_pdn[f] = 0
      <3>1. CASE s.wan[w].ip = {} BY <3>1 DEF DownEvtEx
      <3>2. CASE s.wan[w].ip # {}
        <4>1. s3 = s1 BY <2>1 DEF GoesV6, GoesV4, Goes
        <4>2. Keeps(s1, s, {"num_modem_pdn"}) BY <1>2, DiscountedIs
        <4>3. Keeps(d, s3, {"flt", "modem"}) /\ \A f \in Families : d.flt[f] = s3.flt[f] \/ d.num_modem_pdn[f] = 0
          BY <1>2, <3>2, DownEvtExIs
        <4> HIDE DEF d, s1, s3
        <4> QED BY <4>1, <4>2, <4>3 DEF Keeps, Fields
      <3> QED BY <3>1, <3>2
    <2> HIDE DEF d
    <2>4. \A f \in Families, v \in Modems : f \in s.wan[v].active /\ s.flt[f] = "firewall" => r.flt[f] = "firewall"
      <3> SUFFICES ASSUME NEW f \in Families, NEW v \in Modems, f \in s.wan[v].active PROVE r.flt[f] = s.flt[f] OBVIOUS
      <3>1. v \in Wans \ {w} BY <1>8 DEF Modems
      <3>2. f \in r.wan[v].ip BY <3>1, <1>2, <1>3 DEF Made, Fit
      <3>3. PdnCounted(r) BY <1>3 DEF Ok, Sound
      <3>4. r.num_modem_pdn[f] >= 1 BY <3>2, <3>3, <1>3, CountedSome
      <3>5. r.num_modem_pdn[f] # 0 BY <3>4
      <3> QED BY <3>5, <2>3, <1>3
    <2>5. Ordered(r, a) /\ Tethered(r) = Tethered(s) BY <1>2, <1>3, <2>2, <2>3, <2>4, SameOrder
    <2> QED BY <2>5, <1>7
  <1>9. CASE s.wan[w].active # {}
    <2>1. Busy(s, w) /\ s.wan[w].gateway BY <1>9 DEF Busy
    <2>2. BusyOnes(s) \subseteq {w} BY <2>1, <1>2 DEF BusyOnes, Single
    <2>3. s.wan[w].ip # {} BY <1>5, <1>9
    <2>4. "v4" \in Families /\ "v6" \in Families BY DEF Families
    <2>5. Made(s1) /\ Keeps(s1, s, {"num_modem_pdn"}) BY <1>2, DiscountedIs
    <2>6. y4 \in BOOLEAN /\ y6 \in BOOLEAN /\ (y4 <=> "v4" \in s.wan[w].ip) /\ (y6 <=> "v6" \in s.wan[w].ip) BY <2>1
    <2>7. s2 = Goes(s1, w, "v4", y4) /\ s3 = Goes(s2, w, "v6", y6) BY DEF GoesV4, GoesV6
    <2>8. Keeps(d, s3, {"flt", "modem"}) BY <1>2, <2>3, DownEvtExIs
    <2> HIDE DEF y4, y6, s1, s2, s3, d
    <2>9. FamilyGoes(s2, s1, w, "v4", y4) BY <2>4, <2>5, <2>6, <2>7, GoesIs
    <2>a. Made(s2) BY <2>9 DEF FamilyGoes
    <2>10. FamilyGoes(s3, s2, w, "v6", y6) BY <2>4, <2>6, <2>7, <2>a, GoesIs
    <2>11. Ordered(s1, a) /\ BusyOnes(s1) = BusyOnes(s) /\ s1 \in Upstreams /\ s1.wan = s.wan /\ s1.tether = s.tether
      <3>1. /\ s1.wan = s.wan /\ s1.wan_up = s.wan_up /\ s1.tether = s.tether /\ s1.a2_check = s.a2_check
            /\ s1.consumer_up = s.consumer_up /\ s1.posted = s.posted /\ s1.flt = s.flt /\ s1 \in Upstreams
        BY <2>5 DEF Keeps, Fields, Made
      <3> QED BY <3>1, <1>2, SameOrder
    <2>12. Single(s2) /\ BusyOnes(s2) \subseteq {w} /\ Says(s2, a)
      <3>1. CASE y4
        <4>1. s2 = FamilyDown(s1, w, "v4") BY <2>7, <3>1 DEF Goes
        <4> QED BY <4>1, <2>2, <2>4, <2>11, FamilyDownOrdered DEF Ordered
      <3>2. CASE ~y4
        <4>1. s2 = s1 BY <2>7, <3>2 DEF Goes
        <4> QED BY <4>1, <2>2, <2>11 DEF Ordered
      <3> QED BY <3>1, <3>2
    <2>13. Single(s3) /\ BusyOnes(s3) \subseteq {w} /\ Says(s3, a)
      <3>1. s2 \in Upstreams BY <2>9 DEF FamilyGoes, Made
      <3>2. CASE y6
        <4>1. s3 = FamilyDown(s2, w, "v6") BY <2>7, <3>2 DEF Goes
        <4> QED BY <4>1, <3>1, <2>4, <2>12, FamilyDownOrdered
      <3>3. CASE ~y6
        <4>1. s3 = s2 BY <2>7, <3>3 DEF Goes
        <4> QED BY <4>1, <2>12
      <3> QED BY <3>2, <3>3
    <2>14. s3.wan[w].partial = {} /\ s3.wan[w].active = {}
      <3>1. s3.wan[w].partial = s.wan[w].partial BY <2>9, <2>10, <2>11 DEF FamilyGoes
      <3>2. s2.wan[w].active = s.wan[w].active \ {"v4"} BY <1>5, <2>6, <2>9, <2>11 DEF FamilyGoes
      <3>3. s3.wan[w].active = s2.wan[w].active \ {"v6"} BY <1>5, <2>6, <2>10, <3>2 DEF FamilyGoes
      <3> QED BY <3>1, <3>2, <3>3, <1>5
    <2>15. \A f \in Families : s3.tether[f] = <<>>
      <3>1. ASSUME NEW f \in Families, f \notin s.wan[w].ip PROVE s.tether[f] = <<>>
        <4>1. f \notin s.wan[w].active \cup s.wan[w].partial BY <3>1, <1>5
        <4>2. \A v \in Wans \ {w} : s.wan[v].active \cup s.wan[v].partial = {} BY <2>2 DEF BusyOnes, Busy
        <4> QED BY <4>1, <4>2, <1>2 DEF Listed
      <3>2. s1.tether \in [Families -> Seq(Lans)] BY <2>11 DEF Upstreams
      <3>3. s2.tether["v4"] = <<>> /\ s2.tether["v6"] \in {s.tether["v6"], <<>>}
        <4>1. CASE y4 BY <4>1, <2>4, <2>9, <2>11, <3>2 DEF FamilyGoes
        <4>2. CASE ~y4
          <5>1. s2 = s1 BY <4>2, <2>9 DEF FamilyGoes
          <5> QED BY <4>2, <5>1, <3>1, <2>4, <2>6, <2>11
        <4> QED BY <4>1, <4>2
      <3>4. s2.tether \in [Families -> Seq(Lans)] BY <2>9 DEF FamilyGoes, Made, Upstreams
      <3>5. s3.tether["v4"] = <<>> /\ s3.tether["v6"] = <<>>
        <4>1. CASE y6 BY <4>1, <2>4, <2>10, <3>3, <3>4 DEF FamilyGoes
        <4>2. CASE ~y6
          <5>1. s3 = s2 BY <4>2, <2>10 DEF FamilyGoes
          <5> QED BY <4>2, <5>1, <3>1, <3>3, <2>4, <2>6
        <4> QED BY <4>1, <4>2
      <3> QED BY <3>5 DEF Families
    <2>16. \A v \in Wans : s3.wan[v].active = {} /\ s3.wan[v].partial = {}
      <3>1. \A v \in Wans \ {w} : ~Busy(s3, v) BY <2>13 DEF BusyOnes
      <3> QED BY <3>1, <2>14 DEF Busy
    <2>17. Listed(s3) /\ s3 \in Upstreams
      <3>1. Len(<<>>) = 0 OBVIOUS
      <3> QED BY <3>1, <2>10, <2>15, <2>16 DEF Listed, FamilyGoes, Made
    <2>18. Ordered(s3, a) BY <2>13, <2>17 DEF Ordered
    <2>19. Tethered(s3) = {}
      <3>1. ToSet(<<>>) = {} BY DEF ToSet
      <3> QED BY <3>1, <2>15 DEF Tethered
    <2>20. /\ r.wan_up = s3.wan_up /\ r.tether = s3.tether /\ r.a2_check = s3.a2_check /\ r.consumer_up = s3.consumer_up
           /\ r.posted = s3.posted
      BY <1>3, <2>8 DEF Keeps, Fields
    <2>21. \A v \in Wans : /\ r.wan[v].active = s3.wan[v].active /\ r.wan[v].partial = s3.wan[v].partial
                           /\ r.wan[v].gateway => s3.wan[v].gateway
      <3>1. \A v \in Wans \ {w} : ~Busy(s, v) /\ ~s.wan[v].gateway BY <2>2, <1>2 DEF BusyOnes, Single
      <3>2. ASSUME NEW v \in Wans \ {w}
            PROVE  /\ r.wan[v].active = s3.wan[v].active /\ r.wan[v].partial = s3.wan[v].partial
                   /\ r.wan[v].gateway => s3.wan[v].gateway
        <4>1. r.wan[v] = s.wan[v] BY <1>3
        <4>2. s.wan[v].active = {} /\ s.wan[v].partial = {} /\ ~s.wan[v].gateway BY <3>1 DEF Busy
        <4>3. s3.wan[v].active = {} /\ s3.wan[v].partial = {} BY <2>16
        <4> QED BY <4>1, <4>2, <4>3
      <3>3. r.wan[w].active = {} /\ r.wan[w].partial = {} /\ ~r.wan[w].gateway BY <1>3, <1>4
      <3>4. s3.wan[w].active = {} /\ s3.wan[w].partial = {} BY <2>16
      <3> QED BY <3>2, <3>3, <3>4
    <2>22. Ordered(r, a) /\ Tethered(r) = Tethered(s3) BY <1>3, <2>16, <2>17, <2>18, <2>20, <2>21, SameOrder DEF Modems
    <2> QED BY <2>19, <2>22, <1>7
  <1> QED BY <1>8, <1>9

\* The object of a USB upstream goes, whatever came before.
LEMMA StaGone ==
  ASSUME NEW s \in Ok, NEW w \in ToSet(wans), w \in Wans, w \in Stas, NEW r, r = WanDown(s, w), MaxV6Addrs \in Nat, IsFiniteSet(Wans)
  PROVE  Renewed(r, DownEvt(s, w), s, w)
  <1> DEFINE d  == DownEvt(s, w)
             s1 == DelRmDependConsumer(s, "USB")
             s2 == IF "v4" \in s.wan[w].active THEN RouteWithdrawn(s1, w, "v4") ELSE s1
  <1>1. r = [d EXCEPT !.wan[w] = NewWan] BY DEF WanDown, Sta
  <1>2. s \in Upstreams /\ Sound(s) /\ Made(s) /\ PdnCounted(s) /\ s.modem = s.flt BY DEF Ok, Sound
  <1>3. d = IF "v6" \in s.wan[w].active THEN RouteWithdrawn(s2, w, "v6") ELSE s2 BY DEF DownEvt, Consumer, Sta
  <1>4. s1 \in Upstreams /\ Left(s1, s, "USB") /\ Keeps(s1, s, {"a2_check", "consumer_up", "rm_set"}) BY <1>2, ConsumerLeaves
  <1> HIDE DEF s1, d
  <1>5. /\ s1.wan = s.wan /\ s1.flt = s.flt /\ s1.modem = s.modem /\ s1.producer_up = s.producer_up
        /\ s1.num_modem_pdn = s.num_modem_pdn
    BY <1>4 DEF Keeps, Fields
  <1>6. Crossed(s1) BY <1>2, <1>4 DEF Left, Made, Crossed
  <1>7. Made(s1) /\ PdnCounted(s1) BY <1>2, <1>4, <1>5, <1>6 DEF Made, PdnCounted, Having, Crossed
  <1>8. "v4" \in Families /\ "v6" \in Families BY DEF Families
  <1>9. Made(s2) /\ PdnCounted(s2) /\ s2.modem = s2.flt /\ s2.producer_up = s.producer_up /\ Edits(s2, s1, w) /\ s2.num_modem_pdn = s.num_modem_pdn
        /\ ("v6" \in s2.wan[w].active <=> "v6" \in s.wan[w].active)
    <2>1. CASE "v4" \in s.wan[w].active
      <3>1. s2 = RouteWithdrawn(s1, w, "v4") BY <2>1
      <3> HIDE DEF s2
      <3>2. Ends(s2, s1, w, "v4") /\ s2.modem = s2.flt BY <2>1, <3>1, <1>2, <1>4, <1>5, <1>8, RouteWithdrawnIs
      <3>3. Made(s2) /\ PdnCounted(s2) /\ s2.producer_up = s1.producer_up /\ Edits(s2, s1, w) BY <3>2, <1>7, <1>8, EndsMade
      <3>4. s2.num_modem_pdn = s1.num_modem_pdn BY <3>2 DEF Ends, Keeps, Fields
      <3>5. "v6" \in s2.wan[w].active <=> "v6" \in s.wan[w].active BY <3>2, <1>5 DEF Ends
      <3> QED BY <3>2, <3>3, <3>4, <3>5, <1>5
    <2>2. CASE "v4" \notin s.wan[w].active
      <3>1. s2 = s1 BY <2>2
      <3> QED BY <3>1, <1>2, <1>4, <1>5, <1>7 DEF Edits
    <2> QED BY <2>1, <2>2
  <1> HIDE DEF s2
  <1>10. Made(d) /\ d.modem = d.flt /\ d.producer_up = s.producer_up /\ Edits(d, s2, w) /\ d.num_modem_pdn = s.num_modem_pdn
    <2>1. CASE "v6" \in s.wan[w].active
      <3>1. d = RouteWithdrawn(s2, w, "v6") /\ s2 \in Upstreams BY <2>1, <1>3, <1>9 DEF Made
      <3>2. Ends(d, s2, w, "v6") /\ d.modem = d.flt BY <2>1, <3>1, <1>8, <1>9, RouteWithdrawnIs
      <3>3. Made(d) /\ d.producer_up = s2.producer_up /\ Edits(d, s2, w) BY <3>2, <1>8, <1>9, EndsMade
      <3>4. d.num_modem_pdn = s2.num_modem_pdn BY <3>2 DEF Ends, Keeps, Fields
      <3> QED BY <3>2, <3>3, <3>4, <1>9
    <2>2. CASE "v6" \notin s.wan[w].active
      <3>1. d = s2 BY <2>2, <1>3
      <3> QED BY <3>1, <1>9 DEF Edits, Made
    <2> QED BY <2>1, <2>2
  <1>11. \A v \in Wans \ {w} : d.wan[v] = s.wan[v] BY <1>5, <1>9, <1>10 DEF Edits
  <1>12. Ended(d, s, w) BY <1>10, <1>11 DEF Ended, Others
  <1>13. Renewed(r, d, s, w) BY <1>1, <1>12, GoneIs
  <1> QED BY <1>13 DEF d

\* handle_down_evt() of a USB upstream that is not in use.
LEMMA StaGoneOrdered ==
  ASSUME NEW s \in Ok, NEW w \in ToSet(wans), w \in Wans, w \in Stas, NEW r, r = WanDown(s, w), MaxV6Addrs \in Nat, IsFiniteSet(Wans),
         Stas \subseteq Wans, NEW a, Ordered(s, a), \A v \in Stas : ~Busy(s, v)
  PROVE  Ordered(r, a) /\ BusyOnes(r) \subseteq BusyOnes(s) \ {w} /\ Tethered(r) \subseteq Tethered(s)
  <1> DEFINE d == DownEvt(s, w)
  <1>1. Renewed(r, d, s, w) BY StaGone
  <1>2. s \in Upstreams /\ s.wan[w].active = {} /\ s.wan[w].partial = {} /\ Single(s) BY DEF Ok, Busy, Ordered
  <1>3. d = DelRmDependConsumer(s, "USB") BY <1>2 DEF DownEvt, Consumer, Sta
  <1>4. Left(d, s, "USB") /\ Keeps(d, s, {"a2_check", "consumer_up", "rm_set"}) BY <1>2, <1>3, ConsumerLeaves
  <1> HIDE DEF d
  <1>5. /\ r \in Upstreams /\ r.wan[w] = NewWan /\ \A v \in Wans \ {w} : r.wan[v] = s.wan[v]
        /\ r.wan_up = s.wan_up /\ r.tether = s.tether /\ r.posted = s.posted /\ r.flt = s.flt
        /\ r.a2_check = d.a2_check /\ r.consumer_up = d.consumer_up
    BY <1>1, <1>4 DEF Renewed, Others, Keeps, Fields, Ok
  <1>6. r.a2_check = s.a2_check /\ r.consumer_up = s.consumer_up \ {"USB"} BY <1>4, <1>5 DEF Left
  <1>7. NewWan.active = {} /\ NewWan.partial = {} /\ ~NewWan.gateway BY NewWanIs
  <1>8. \A v \in Wans : /\ r.wan[v].active = s.wan[v].active /\ r.wan[v].partial = s.wan[v].partial
                        /\ r.wan[v].gateway => s.wan[v].gateway
    BY <1>2, <1>5, <1>7
  <1>9. Ordered(r, a) /\ Tethered(r) = Tethered(s) /\ BusyOnes(r) = BusyOnes(s) BY <1>2, <1>5, <1>6, <1>8, SameOrder
  <1>10. w \notin BusyOnes(s) BY DEF BusyOnes
  <1> QED BY <1>9, <1>10
-----------------------------------------------------------------------------
(* All objects handle one event in their turn                              *)

\* The objects of the upstreams, each once.
LEMMA WansIs ==
  ASSUME WanTypeOK
  PROVE  /\ Len(wans) \in Nat /\ \A i \in 1..Len(wans) : wans[i] \in Wans /\ wans[i] \in ToSet(wans)
         /\ \A w \in ToSet(wans) : \E i \in 1..Len(wans) : wans[i] = w
         /\ \A i, j \in 1..Len(wans) : wans[i] = wans[j] => i = j
         /\ ToSet(wans) \subseteq Wans
  BY DEF WanTypeOK, ToSet

AddTurns(b, e) ==
  LET s[i \in 0..Len(wans)] == IF i = 0 THEN b ELSE OnRouteAdd(s[i - 1], wans[i], e) IN s[Len(wans)]

LEMMA AddTurnsIs ==
  HandleRouteAdd => Take(AddTurns(upstream, Head(queue)))
  BY DEF HandleRouteAdd, InTurn, AddTurns

LEMMA RouteAddTurns ==
  ASSUME WanTypeOK, NEW b \in Ok, NEW e \in Events, e.event = "ROUTE_ADD",
         NEW r, r = AddTurns(b, e)
  PROVE  \E h \in [0..Len(wans) -> Ok] :
           h[0] = b /\ h[Len(wans)] = r /\ \A i \in 1..Len(wans) : h[i] = OnRouteAdd(h[i - 1], wans[i], e)
  <1> DEFINE n == Len(wans)
             F == [p \in Ok \X (1..n) |-> OnRouteAdd(p[1], wans[p[2]], e)]
             h == CHOOSE s : s = [i \in 0..n |-> IF i = 0 THEN b ELSE OnRouteAdd(s[i - 1], wans[i], e)]
  <1>1. \A s \in Ok, i \in 1..n : OnRouteAdd(s, wans[i], e) \in Ok BY WansIs, OnRouteAddOk
  <1>2. \A s \in Ok, i \in 1..n : F[<<s, i>>] = OnRouteAdd(s, wans[i], e) OBVIOUS
  <1> HIDE DEF F
  <1>3. \A s \in Ok, i \in 1..n : F[<<s, i>>] \in Ok BY <1>1, <1>2
  <1>4. n \in Nat BY WansIs
  <1>5. PICK g \in Turns(Ok, n, b, F) : TRUE
    <2>1. Closed(Ok, n, F) BY <1>3 DEF Closed
    <2> HIDE DEF n, h
    <2> QED BY <1>4, <2>1, TurnsExist
  <1>b. g \in [0..n -> Ok] /\ g[0] = b /\ \A i \in 1..n : g[i] = F[<<g[i - 1], i>>] BY <1>5 DEF Turns
  <1>6. \A i \in 1..n : g[i] = OnRouteAdd(g[i - 1], wans[i], e)
    <2> HIDE DEF n, h
    <2>1. \A i \in 1..n : g[i - 1] \in Ok BY <1>4, <1>b
    <2> QED BY <1>2, <1>b, <2>1
  <1>7. g = [i \in 0..n |-> IF i = 0 THEN b ELSE OnRouteAdd(g[i - 1], wans[i], e)] BY <1>4, <1>b, <1>6
  <1>8. h = [i \in 0..n |-> IF i = 0 THEN b ELSE OnRouteAdd(h[i - 1], wans[i], e)] BY <1>7
  <1>9. r = h[n] BY DEF AddTurns
  <1> HIDE DEF h
  <1>10. h[0] = b /\ \A i \in 1..n : h[i] = OnRouteAdd(h[i - 1], wans[i], e) BY <1>4, <1>8
  <1> DEFINE B == {i \in 0..n : h[i] \in Ok}
  <1>11. 0 \in B /\ \A i \in 1..n : i - 1 \in B => i \in B BY <1>1, <1>4, <1>10
  <1>12. \A i \in 0..n : i \in B
    <2> HIDE DEF n, B
    <2> QED BY <1>4, <1>11, Upto
  <1>13. h \in [0..n -> Ok] BY <1>8, <1>12
  <1> QED BY <1>9, <1>10, <1>13

DelTurns(b, e) ==
  LET s[i \in 0..Len(wans)] == IF i = 0 THEN b ELSE OnRouteDel(s[i - 1], wans[i], e) IN s[Len(wans)]

LEMMA RouteDelTurns ==
  ASSUME WanTypeOK, NEW b \in Ok, NEW e \in Events, e.event = "ROUTE_DEL",
         NEW r, r = DelTurns(b, e)
  PROVE  \E h \in [0..Len(wans) -> Ok] :
           h[0] = b /\ h[Len(wans)] = r /\ \A i \in 1..Len(wans) : h[i] = OnRouteDel(h[i - 1], wans[i], e)
  <1> DEFINE n == Len(wans)
             F == [p \in Ok \X (1..n) |-> OnRouteDel(p[1], wans[p[2]], e)]
             h == CHOOSE s : s = [i \in 0..n |-> IF i = 0 THEN b ELSE OnRouteDel(s[i - 1], wans[i], e)]
  <1>1. \A s \in Ok, i \in 1..n : OnRouteDel(s, wans[i], e) \in Ok BY WansIs, OnRouteDelOk
  <1>2. \A s \in Ok, i \in 1..n : F[<<s, i>>] = OnRouteDel(s, wans[i], e) OBVIOUS
  <1> HIDE DEF F
  <1>3. \A s \in Ok, i \in 1..n : F[<<s, i>>] \in Ok BY <1>1, <1>2
  <1>4. n \in Nat /\ b \in Ok BY WansIs
  <1>5. PICK g \in Turns(Ok, n, b, F) : TRUE
    <2>1. Closed(Ok, n, F) BY <1>3 DEF Closed
    <2> HIDE DEF n, h
    <2> QED BY <1>4, <2>1, TurnsExist
  <1>b. g \in [0..n -> Ok] /\ g[0] = b /\ \A i \in 1..n : g[i] = F[<<g[i - 1], i>>] BY <1>5 DEF Turns
  <1>6. \A i \in 1..n : g[i] = OnRouteDel(g[i - 1], wans[i], e)
    <2> HIDE DEF n, h
    <2>1. \A i \in 1..n : g[i - 1] \in Ok BY <1>4, <1>b
    <2> QED BY <1>2, <1>b, <2>1
  <1>7. g = [i \in 0..n |-> IF i = 0 THEN b ELSE OnRouteDel(g[i - 1], wans[i], e)] BY <1>4, <1>b, <1>6
  <1>8. h = [i \in 0..n |-> IF i = 0 THEN b ELSE OnRouteDel(h[i - 1], wans[i], e)] BY <1>7
  <1>9. r = h[n] BY DEF DelTurns
  <1> HIDE DEF h
  <1>10. h[0] = b /\ \A i \in 1..n : h[i] = OnRouteDel(h[i - 1], wans[i], e) BY <1>4, <1>8
  <1> DEFINE B == {i \in 0..n : h[i] \in Ok}
  <1>11. 0 \in B /\ \A i \in 1..n : i - 1 \in B => i \in B
    <2>1. 0 \in B
      <3>1. h[0] = b BY <1>10
      <3>2. h[0] \in Ok BY ONLY <1>4, <3>1
      <3>3. 0 \in 0..n BY <1>4
      <3> HIDE DEF n
      <3> QED BY <3>2, <3>3
    <2>2. ASSUME NEW i \in 1..n, i - 1 \in B PROVE i \in B
      <3>1. h[i - 1] \in Ok BY <2>2
      <3>2. OnRouteDel(h[i - 1], wans[i], e) \in Ok BY <1>1, <3>1
      <3> QED BY <1>4, <1>10, <3>2
    <2> QED BY <2>1, <2>2
  <1>12. \A i \in 0..n : i \in B
    <2> HIDE DEF n, B
    <2> QED BY <1>4, <1>11, Upto
  <1>13. h \in [0..n -> Ok] BY <1>8, <1>12
  <1> QED BY <1>9, <1>10, <1>13

FirewallTurns(b) ==
  LET s[i \in 0..Len(wans)] == IF i = 0 THEN b ELSE OnFirewallChange(s[i - 1], wans[i]) IN s[Len(wans)]

LEMMA FirewallChangeTurns ==
  ASSUME WanTypeOK, NEW b \in Ok,
         NEW r, r = FirewallTurns(b)
  PROVE  \E h \in [0..Len(wans) -> Ok] :
           h[0] = b /\ h[Len(wans)] = r /\ \A i \in 1..Len(wans) : h[i] = OnFirewallChange(h[i - 1], wans[i])
  <1> DEFINE n == Len(wans)
             F == [p \in Ok \X (1..n) |-> OnFirewallChange(p[1], wans[p[2]])]
             h == CHOOSE s : s = [i \in 0..n |-> IF i = 0 THEN b ELSE OnFirewallChange(s[i - 1], wans[i])]
  <1>1. \A s \in Ok, i \in 1..n : OnFirewallChange(s, wans[i]) \in Ok BY WansIs, OnFirewallChangeIs
  <1>2. \A s \in Ok, i \in 1..n : F[<<s, i>>] = OnFirewallChange(s, wans[i]) OBVIOUS
  <1> HIDE DEF F
  <1>3. \A s \in Ok, i \in 1..n : F[<<s, i>>] \in Ok BY <1>1, <1>2
  <1>4. n \in Nat /\ b \in Ok BY WansIs
  <1>5. PICK g \in Turns(Ok, n, b, F) : TRUE
    <2>1. Closed(Ok, n, F) BY <1>3 DEF Closed
    <2> HIDE DEF n, h
    <2> QED BY <1>4, <2>1, TurnsExist
  <1>b. g \in [0..n -> Ok] /\ g[0] = b /\ \A i \in 1..n : g[i] = F[<<g[i - 1], i>>] BY <1>5 DEF Turns
  <1>6. \A i \in 1..n : g[i] = OnFirewallChange(g[i - 1], wans[i])
    <2> HIDE DEF n, h
    <2>1. \A i \in 1..n : g[i - 1] \in Ok BY <1>4, <1>b
    <2> QED BY <1>2, <1>b, <2>1
  <1>7. g = [i \in 0..n |-> IF i = 0 THEN b ELSE OnFirewallChange(g[i - 1], wans[i])] BY <1>4, <1>b, <1>6
  <1>8. h = [i \in 0..n |-> IF i = 0 THEN b ELSE OnFirewallChange(h[i - 1], wans[i])] BY <1>7
  <1>9. r = h[n] BY DEF FirewallTurns
  <1> HIDE DEF h
  <1>10. h[0] = b /\ \A i \in 1..n : h[i] = OnFirewallChange(h[i - 1], wans[i]) BY <1>4, <1>8
  <1> DEFINE B == {i \in 0..n : h[i] \in Ok}
  <1>11. 0 \in B /\ \A i \in 1..n : i - 1 \in B => i \in B
    <2>1. 0 \in B
      <3>1. h[0] = b BY <1>10
      <3>2. h[0] \in Ok BY ONLY <1>4, <3>1
      <3>3. 0 \in 0..n BY <1>4
      <3> HIDE DEF n
      <3> QED BY <3>2, <3>3
    <2>2. ASSUME NEW i \in 1..n, i - 1 \in B PROVE i \in B
      <3>1. h[i - 1] \in Ok BY <2>2
      <3>2. OnFirewallChange(h[i - 1], wans[i]) \in Ok BY <1>1, <3>1
      <3> QED BY <1>4, <1>10, <3>2
    <2> QED BY <2>1, <2>2
  <1>12. \A i \in 0..n : i \in B
    <2> HIDE DEF n, B
    <2> QED BY <1>4, <1>11, Upto
  <1>13. h \in [0..n -> Ok] BY <1>8, <1>12
  <1> QED BY <1>9, <1>10, <1>13

\* The objects in `G' go.
OnDown(s, w, G) == IF w \in G THEN WanDown(s, w) ELSE s

LEMMA OnDownOk ==
  ASSUME NEW s \in Ok, NEW w \in ToSet(wans), w \in Wans, NEW G, MaxV6Addrs \in Nat, IsFiniteSet(Wans)
  PROVE  OnDown(s, w, G) \in Ok
  <1>1. CASE w \in G /\ w \in Stas BY <1>1, StaGone DEF OnDown, Renewed
  <1>2. CASE w \in G /\ w \notin Stas BY <1>2, ModemGone DEF OnDown, Renewed
  <1>3. CASE w \notin G BY <1>3 DEF OnDown
  <1> QED BY <1>1, <1>2, <1>3

DownTurns(b, G) ==
  LET s[i \in 0..Len(wans)] == IF i = 0 THEN b ELSE OnDown(s[i - 1], wans[i], G) IN s[Len(wans)]

LEMMA LinkDownTurns ==
  ASSUME WanTypeOK, NEW b \in Ok, NEW G, MaxV6Addrs \in Nat, IsFiniteSet(Wans),
         NEW r, r = DownTurns(b, G)
  PROVE  \E h \in [0..Len(wans) -> Ok] :
           h[0] = b /\ h[Len(wans)] = r /\ \A i \in 1..Len(wans) : h[i] = OnDown(h[i - 1], wans[i], G)
  <1> DEFINE n == Len(wans)
             F == [p \in Ok \X (1..n) |-> OnDown(p[1], wans[p[2]], G)]
             h == CHOOSE s : s = [i \in 0..n |-> IF i = 0 THEN b ELSE OnDown(s[i - 1], wans[i], G)]
  <1>1. \A s \in Ok, i \in 1..n : OnDown(s, wans[i], G) \in Ok BY WansIs, OnDownOk
  <1>2. \A s \in Ok, i \in 1..n : F[<<s, i>>] = OnDown(s, wans[i], G) OBVIOUS
  <1> HIDE DEF F
  <1>3. \A s \in Ok, i \in 1..n : F[<<s, i>>] \in Ok BY <1>1, <1>2
  <1>4. n \in Nat /\ b \in Ok BY WansIs
  <1>5. PICK g \in Turns(Ok, n, b, F) : TRUE
    <2>1. Closed(Ok, n, F) BY <1>3 DEF Closed
    <2> HIDE DEF n, h
    <2> QED BY <1>4, <2>1, TurnsExist
  <1>b. g \in [0..n -> Ok] /\ g[0] = b /\ \A i \in 1..n : g[i] = F[<<g[i - 1], i>>] BY <1>5 DEF Turns
  <1>6. \A i \in 1..n : g[i] = OnDown(g[i - 1], wans[i], G)
    <2> HIDE DEF n, h
    <2>1. \A i \in 1..n : g[i - 1] \in Ok BY <1>4, <1>b
    <2> QED BY <1>2, <1>b, <2>1
  <1>7. g = [i \in 0..n |-> IF i = 0 THEN b ELSE OnDown(g[i - 1], wans[i], G)] BY <1>4, <1>b, <1>6
  <1>8. h = [i \in 0..n |-> IF i = 0 THEN b ELSE OnDown(h[i - 1], wans[i], G)] BY <1>7
  <1>9. r = h[n] BY DEF DownTurns
  <1> HIDE DEF h
  <1>10. h[0] = b /\ \A i \in 1..n : h[i] = OnDown(h[i - 1], wans[i], G) BY <1>4, <1>8
  <1> DEFINE B == {i \in 0..n : h[i] \in Ok}
  <1>11. 0 \in B /\ \A i \in 1..n : i - 1 \in B => i \in B
    <2>1. 0 \in B
      <3>1. h[0] = b BY <1>10
      <3>2. h[0] \in Ok BY ONLY <1>4, <3>1
      <3>3. 0 \in 0..n BY <1>4
      <3> HIDE DEF n
      <3> QED BY <3>2, <3>3
    <2>2. ASSUME NEW i \in 1..n, i - 1 \in B PROVE i \in B
      <3>1. h[i - 1] \in Ok BY <2>2
      <3>2. OnDown(h[i - 1], wans[i], G) \in Ok BY <1>1, <3>1
      <3> QED BY <1>4, <1>10, <3>2
    <2> QED BY <2>1, <2>2
  <1>12. \A i \in 0..n : i \in B
    <2> HIDE DEF n, B
    <2> QED BY <1>4, <1>11, Upto
  <1>13. h \in [0..n -> Ok] BY <1>8, <1>12
  <1> QED BY <1>9, <1>10, <1>13

OnLeft(s, w, G) == IF w \in G THEN s ELSE Append(s, w)

LEMMA OnLeftIs ==
  ASSUME NEW s \in Seq(Wans), NEW w \in Wans, NEW G
  PROVE  OnLeft(s, w, G) \in Seq(Wans)
  BY DEF OnLeft

LeftTurns(G) ==
  LET s[i \in 0..Len(wans)] == IF i = 0 THEN <<>> ELSE OnLeft(s[i - 1], wans[i], G) IN s[Len(wans)]

LEMMA LeftTurnsIs ==
  ASSUME WanTypeOK, NEW G,
         NEW r, r = LeftTurns(G)
  PROVE  \E h \in [0..Len(wans) -> Seq(Wans)] :
           h[0] = <<>> /\ h[Len(wans)] = r /\ \A i \in 1..Len(wans) : h[i] = OnLeft(h[i - 1], wans[i], G)
  <1> DEFINE n == Len(wans)
             F == [p \in Seq(Wans) \X (1..n) |-> OnLeft(p[1], wans[p[2]], G)]
             h == CHOOSE s : s = [i \in 0..n |-> IF i = 0 THEN <<>> ELSE OnLeft(s[i - 1], wans[i], G)]
  <1>1. \A s \in Seq(Wans), i \in 1..n : OnLeft(s, wans[i], G) \in Seq(Wans) BY WansIs, OnLeftIs
  <1>2. \A s \in Seq(Wans), i \in 1..n : F[<<s, i>>] = OnLeft(s, wans[i], G) OBVIOUS
  <1> HIDE DEF F
  <1>3. \A s \in Seq(Wans), i \in 1..n : F[<<s, i>>] \in Seq(Wans) BY <1>1, <1>2
  <1>4. n \in Nat /\ <<>> \in Seq(Wans) BY WansIs
  <1>5. PICK g \in Turns(Seq(Wans), n, <<>>, F) : TRUE
    <2>1. Closed(Seq(Wans), n, F) BY <1>3 DEF Closed
    <2> HIDE DEF n, h
    <2> QED BY <1>4, <2>1, TurnsExist
  <1>b. g \in [0..n -> Seq(Wans)] /\ g[0] = <<>> /\ \A i \in 1..n : g[i] = F[<<g[i - 1], i>>] BY <1>5 DEF Turns
  <1>6. \A i \in 1..n : g[i] = OnLeft(g[i - 1], wans[i], G)
    <2> HIDE DEF n, h
    <2>1. \A i \in 1..n : g[i - 1] \in Seq(Wans) BY <1>4, <1>b
    <2> QED BY <1>2, <1>b, <2>1
  <1>7. g = [i \in 0..n |-> IF i = 0 THEN <<>> ELSE OnLeft(g[i - 1], wans[i], G)] BY <1>4, <1>b, <1>6
  <1>8. h = [i \in 0..n |-> IF i = 0 THEN <<>> ELSE OnLeft(h[i - 1], wans[i], G)] BY <1>7
  <1>9. r = h[n] BY DEF LeftTurns
  <1> HIDE DEF h
  <1>10. h[0] = <<>> /\ \A i \in 1..n : h[i] = OnLeft(h[i - 1], wans[i], G) BY <1>4, <1>8
  <1> DEFINE B == {i \in 0..n : h[i] \in Seq(Wans)}
  <1>11. 0 \in B /\ \A i \in 1..n : i - 1 \in B => i \in B
    <2>1. 0 \in B
      <3>1. h[0] = <<>> BY <1>10
      <3>2. h[0] \in Seq(Wans) BY ONLY <1>4, <3>1
      <3>3. 0 \in 0..n BY <1>4
      <3> HIDE DEF n
      <3> QED BY <3>2, <3>3
    <2>2. ASSUME NEW i \in 1..n, i - 1 \in B PROVE i \in B
      <3>1. h[i - 1] \in Seq(Wans) BY <2>2
      <3>2. OnLeft(h[i - 1], wans[i], G) \in Seq(Wans) BY <1>1, <3>1
      <3> QED BY <1>4, <1>10, <3>2
    <2> QED BY <2>1, <2>2
  <1>12. \A i \in 0..n : i \in B
    <2> HIDE DEF n, B
    <2> QED BY <1>4, <1>11, Upto
  <1>13. h \in [0..n -> Seq(Wans)] BY <1>8, <1>12
  <1> QED BY <1>9, <1>10, <1>13

LEMMA HandlersTurn ==
  /\ HandleRouteDel => Take(DelTurns(upstream, Head(queue)))
  /\ HandleFirewallChange => Take(FirewallTurns(upstream))
  BY DEF HandleRouteDel, HandleFirewallChange, InTurn, DelTurns, FirewallTurns

Gone == {w \in ToSet(wans) : w = Head(queue).dev \/ Sta(w)}

LEMMA LinkDownTurn ==
  HandleLinkDown =>
    LET d == Head(queue).dev
        r == LanDown([o |-> lan[d], rules |-> rules, ok |-> TRUE], d)
        s == DownTurns(upstream, Gone) IN
    /\ wans' = LeftTurns(Gone)
    /\ IF d \in Lans /\ lan[d].up
       THEN /\ lan' = [lan EXCEPT ![d] = NewLan] /\ rules' = r.rules
            /\ Take(IF lan[d].ip = {} THEN s ELSE DelRmDependProducer(s, d))
       ELSE Take(s) /\ UNCHANGED <<lan, rules>>
  BY DEF HandleLinkDown, InTurn, DownTurns, LeftTurns, OnDown, OnLeft, Gone
-----------------------------------------------------------------------------
(* What the turns come to, if all is in order                              *)

\* The object that a route is for is the only one that does something.
LEMMA RouteAddInOrder ==
  ASSUME WanTypeOK, NEW b \in Ok, NEW a, Ordered(b, a), Stas \subseteq Wans,
         NEW e \in Events, e.event = "ROUTE_ADD", BusyOnes(b) \subseteq {e.dev}, <<e.family, e.lan>> \notin Tethered(b),
         NEW r, r = AddTurns(b, e)
  PROVE  \/ r = b
         \/ /\ e.dev \in ToSet(wans) /\ Ordered(r, a) /\ BusyOnes(r) = {e.dev}
            /\ Tethered(r) = Tethered(b) \cup {<<e.family, e.lan>>} /\ (UsbKept(b) => UsbKept(r))
  <1> DEFINE n == Len(wans)
             x == OnRouteAdd(b, e.dev, e)
  <1>1. PICK h \in [0..n -> Ok] : h[0] = b /\ h[n] = r /\ \A i \in 1..n : h[i] = OnRouteAdd(h[i - 1], wans[i], e)
    BY RouteAddTurns
  <1>2. n \in Nat /\ \A i \in 1..n : wans[i] \in Wans /\ wans[i] \in ToSet(wans) BY WansIs
  <1>3. e.family \in Families BY DEF Events
  <1>4. ASSUME e.dev \in ToSet(wans)
        PROVE  \/ x = b
               \/ /\ Ordered(x, a) /\ BusyOnes(x) = {e.dev}
                  /\ Tethered(x) = Tethered(b) \cup {<<e.family, e.lan>>} /\ (UsbKept(b) => UsbKept(x))
    <2>1. e.dev \in Wans BY <1>4, WansIs
    <2>2. CASE e.family \in b.wan[e.dev].ip BY <1>4, <2>1, <2>2, OnRouteAddOrdered
    <2>3. CASE e.family \notin b.wan[e.dev].ip
      <3>1. x = b BY <2>3 DEF OnRouteAdd
      <3> QED BY <3>1
    <2> QED BY <2>2, <2>3
  <1> HIDE DEF x
  <1>5. ASSUME NEW s, NEW w \in Wans, BusyOnes(s) \subseteq {e.dev}, w # e.dev PROVE OnRouteAdd(s, w, e) = s
    <2>1. s.wan[w].active = {} BY <1>5 DEF BusyOnes, Busy
    <2> QED BY <1>5, <2>1 DEF OnRouteAdd
  <1> DEFINE B == {i \in 0..n : h[i] = b \/ (h[i] = x /\ e.dev \in ToSet(wans) /\ \E j \in 1..i : wans[j] = e.dev)}
  <1>6. 0 \in B BY <1>1, <1>2
  <1>7. ASSUME NEW i \in 1..n, i - 1 \in B PROVE i \in B
    <2>1. wans[i] \in Wans /\ wans[i] \in ToSet(wans) /\ h[i] = OnRouteAdd(h[i - 1], wans[i], e) BY <1>1, <1>2
    <2>2. CASE wans[i] = e.dev
      <3>1. ~(\E j \in 1..(i - 1) : wans[j] = e.dev) BY <2>2, <1>2, WansIs
      <3>2. h[i - 1] = b BY <3>1, <1>7
      <3>3. h[i] = x BY <2>1, <2>2, <3>2 DEF x
      <3>4. e.dev \in ToSet(wans) /\ \E j \in 1..i : wans[j] = e.dev BY <2>1, <2>2, <1>2
      <3> QED BY <3>3, <3>4, <1>2
    <2>3. CASE wans[i] # e.dev
      <3>1. BusyOnes(h[i - 1]) \subseteq {e.dev} BY <1>4, <1>7
      <3>2. h[i] = h[i - 1] BY <2>1, <2>3, <3>1, <1>5
      <3>3. \A j \in 1..(i - 1) : j \in 1..i BY <1>2
      <3> QED BY <3>2, <3>3, <1>7, <1>2
    <2> QED BY <2>2, <2>3
  <1>8. n \in B
    <2>1. \A i \in 1..n : i - 1 \in B => i \in B BY <1>7
    <2> HIDE DEF B, n
    <2>2. \A i \in 0..n : i \in B BY <1>2, <1>6, <2>1, Upto
    <2> QED BY <1>2, <2>2
  <1> QED BY <1>1, <1>4, <1>8

\* Only the upstream that the event names does anything with it.
LEMMA RouteDelInOrder ==
  ASSUME WanTypeOK, NEW b \in Ok, NEW e \in Events, e.event = "ROUTE_DEL", NEW r, r = DelTurns(b, e), Present(b)
  PROVE  r = OnRouteDel(b, e.dev, e)
  <1> DEFINE n == Len(wans)
             x == OnRouteDel(b, e.dev, e)
  <1>1. PICK h \in [0..n -> Ok] : h[0] = b /\ h[n] = r /\ \A i \in 1..n : h[i] = OnRouteDel(h[i - 1], wans[i], e)
    BY RouteDelTurns
  <1>2. n \in Nat BY WansIs
  <1>3. \A s, w : w # e.dev => OnRouteDel(s, w, e) = s BY DEF OnRouteDel
  <1> HIDE DEF x
  <1> DEFINE B == {i \in 0..n : h[i] = IF \E j \in 1..i : wans[j] = e.dev THEN x ELSE b}
  <1>4. 0 \in B BY <1>1, <1>2
  <1>5. ASSUME NEW i \in 1..n, i - 1 \in B PROVE i \in B
    <2>1. h[i] = OnRouteDel(h[i - 1], wans[i], e) BY <1>1
    <2>2. CASE wans[i] = e.dev
      <3>1. ~(\E j \in 1..(i - 1) : wans[j] = e.dev) BY <2>2, <1>2, WansIs
      <3>2. h[i - 1] = b BY <3>1, <1>5
      <3>3. h[i] = x BY <2>1, <2>2, <3>2 DEF x
      <3>4. \E j \in 1..i : wans[j] = e.dev BY <2>2, <1>2
      <3> QED BY <3>3, <3>4, <1>2
    <2>3. CASE wans[i] # e.dev
      <3>1. h[i] = h[i - 1] BY <2>1, <2>3, <1>3
      <3>2. (\E j \in 1..(i - 1) : wans[j] = e.dev) <=> \E j \in 1..i : wans[j] = e.dev BY <2>3, <1>2
      <3> QED BY <3>1, <3>2, <1>5, <1>2
    <2> QED BY <2>2, <2>3
  <1>6. n \in B
    <2>1. \A i \in 1..n : i - 1 \in B => i \in B BY <1>5
    <2> HIDE DEF B, n
    <2>2. \A i \in 0..n : i \in B BY <1>2, <1>4, <2>1, Upto
    <2> QED BY <1>2, <2>2
  <1>7. CASE e.dev \in ToSet(wans)
    <2>1. \E j \in 1..n : wans[j] = e.dev BY <1>7, WansIs
    <2> QED BY <1>1, <1>6, <2>1 DEF x
  <1>8. CASE e.dev \notin ToSet(wans)
    <2>1. ~(\E j \in 1..n : wans[j] = e.dev) BY <1>8, WansIs
    <2>2. r = b BY <1>1, <1>6, <2>1
    <2>3. b.wan[e.dev].active = {}
      <3>1. e.dev \in Wans BY DEF Events
      <3> QED BY <3>1, <1>8 DEF Present, NewWan
    <2>4. x = b BY <2>3 DEF x, OnRouteDel
    <2> QED BY <2>2, <2>4 DEF x
  <1> QED BY <1>7, <1>8

\* A change of the firewall leaves the order of the upstreams.
LEMMA FirewallInOrder ==
  ASSUME WanTypeOK, NEW b \in Ok, NEW r, r = FirewallTurns(b), Stas \subseteq Wans
  PROVE  /\ r \in Ok /\ BusyOnes(r) = BusyOnes(b) /\ Tethered(r) = Tethered(b) /\ (UsbKept(b) => UsbKept(r))
         /\ \A a : Ordered(b, a) => Ordered(r, a)
  <1> DEFINE n == Len(wans)
  <1>1. PICK h \in [0..n -> Ok] : h[0] = b /\ h[n] = r /\ \A i \in 1..n : h[i] = OnFirewallChange(h[i - 1], wans[i])
    BY FirewallChangeTurns
  <1>2. n \in Nat /\ \A i \in 1..n : wans[i] \in Wans BY WansIs
  <1> DEFINE B == {i \in 0..n : /\ Keeps(h[i], b, {"flt", "modem"})
                                /\ \A f \in Families : b.flt[f] = "firewall" => h[i].flt[f] = "firewall"}
  <1>3. 0 \in B BY <1>1, <1>2 DEF Keeps
  <1>4. ASSUME NEW i \in 1..n, i - 1 \in B PROVE i \in B
    <2>1. h[i - 1] \in Ok /\ h[i] = OnFirewallChange(h[i - 1], wans[i]) /\ wans[i] \in Wans BY <1>1, <1>2
    <2>2. /\ Keeps(h[i], h[i - 1], {"flt", "modem"})
          /\ \A f \in Families : h[i - 1].flt[f] = "firewall" => h[i].flt[f] = "firewall"
      BY <2>1, OnFirewallChangeIs
    <2>3. Keeps(h[i], b, {"flt", "modem"}) BY <2>2, <1>4 DEF Keeps
    <2> QED BY <2>2, <2>3, <1>4, <1>2
  <1>5. n \in B
    <2>1. \A i \in 1..n : i - 1 \in B => i \in B BY <1>4
    <2> HIDE DEF B, n
    <2>2. \A i \in 0..n : i \in B BY <1>2, <1>3, <2>1, Upto
    <2> QED BY <1>2, <2>2
  <1>6. r \in Ok BY <1>1, <1>2
  <1>7. /\ r.wan = b.wan /\ r.wan_up = b.wan_up /\ r.tether = b.tether /\ r.a2_check = b.a2_check /\ r.consumer_up = b.consumer_up
        /\ r.posted = b.posted /\ \A f \in Families : b.flt[f] = "firewall" => r.flt[f] = "firewall"
    BY <1>1, <1>5 DEF Keeps, Fields
  <1>8. r \in Upstreams /\ b \in Upstreams BY <1>6 DEF Ok
  <1>9. /\ BusyOnes(r) = BusyOnes(b) /\ Tethered(r) = Tethered(b)
        /\ \A a : Ordered(b, a) => Ordered(r, a)
    BY <1>7, <1>8, SameOrder
  <1>10. UsbKept(b) => UsbKept(r) BY <1>7 DEF UsbKept
  <1> QED BY <1>6, <1>9, <1>10

LEMMA OnDownIs ==
  ASSUME NEW s \in Ok, NEW w \in ToSet(wans), w \in Wans, NEW G, MaxV6Addrs \in Nat, IsFiniteSet(Wans), NEW r, r = OnDown(s, w, G)
  PROVE  /\ w \in G => r.wan[w] = NewWan /\ \A v \in Wans \ {w} : r.wan[v] = s.wan[v]
         /\ w \notin G => r = s
  <1>1. CASE w \in G /\ w \in Stas
    <2>1. r = WanDown(s, w) BY <1>1 DEF OnDown
    <2>2. Renewed(r, DownEvt(s, w), s, w) BY <1>1, <2>1, StaGone
    <2> QED BY <1>1, <2>2 DEF Renewed, Others
  <1>2. CASE w \in G /\ w \notin Stas
    <2>1. r = WanDown(s, w) BY <1>2 DEF OnDown
    <2>2. Renewed(r, DownEvtEx(s, w), s, w) BY <1>2, <2>1, ModemGone
    <2> QED BY <1>2, <2>2 DEF Renewed, Others
  <1>3. CASE w \notin G BY <1>3 DEF OnDown
  <1> QED BY <1>1, <1>2, <1>3

\* Whose link went down is new, and the others are as they were.
LEMMA LinkDownIs ==
  ASSUME WanTypeOK, NEW b \in Ok, NEW G, MaxV6Addrs \in Nat, IsFiniteSet(Wans), NEW r, r = DownTurns(b, G)
  PROVE  /\ r \in Ok
         /\ \A w \in ToSet(wans) \cap G : r.wan[w] = NewWan
         /\ \A w \in Wans : r.wan[w] \in {b.wan[w], NewWan}
  <1> DEFINE n == Len(wans)
  <1>1. PICK h \in [0..n -> Ok] : h[0] = b /\ h[n] = r /\ \A i \in 1..n : h[i] = OnDown(h[i - 1], wans[i], G)
    BY LinkDownTurns
  <1>2. n \in Nat /\ \A i \in 1..n : wans[i] \in Wans /\ wans[i] \in ToSet(wans) BY WansIs
  <1> DEFINE B == {i \in 0..n : /\ \A j \in 1..i : wans[j] \in G => h[i].wan[wans[j]] = NewWan
                                /\ \A w \in Wans : h[i].wan[w] \in {b.wan[w], NewWan}}
  <1>3. 0 \in B BY <1>1, <1>2
  <1>4. ASSUME NEW i \in 1..n, i - 1 \in B PROVE i \in B
    <2>1. h[i - 1] \in Ok /\ h[i] = OnDown(h[i - 1], wans[i], G) /\ wans[i] \in Wans /\ wans[i] \in ToSet(wans) BY <1>1, <1>2
    <2>2. /\ wans[i] \in G => h[i].wan[wans[i]] = NewWan /\ \A v \in Wans \ {wans[i]} : h[i].wan[v] = h[i - 1].wan[v]
          /\ wans[i] \notin G => h[i] = h[i - 1]
      BY <2>1, OnDownIs
    <2>3. /\ \A j \in 1..(i - 1) : wans[j] \in G => h[i - 1].wan[wans[j]] = NewWan
          /\ \A w \in Wans : h[i - 1].wan[w] \in {b.wan[w], NewWan}
      BY <1>4
    <2>4. \A w \in Wans : h[i].wan[w] \in {b.wan[w], NewWan} BY <2>2, <2>3
    <2>5. ASSUME NEW j \in 1..i, wans[j] \in G PROVE h[i].wan[wans[j]] = NewWan
      <3>1. wans[j] \in Wans BY <1>2
      <3>2. CASE wans[j] = wans[i] BY <3>2, <2>2, <2>5
      <3>3. CASE wans[j] # wans[i]
        <4>1. j \in 1..(i - 1) BY <3>3, <1>2
        <4>2. h[i - 1].wan[wans[j]] = NewWan BY <4>1, <2>3, <2>5
        <4> QED BY <4>2, <3>1, <3>3, <2>2
      <3> QED BY <3>2, <3>3
    <2> QED BY <2>4, <2>5, <1>2
  <1>5. n \in B
    <2>1. \A i \in 1..n : i - 1 \in B => i \in B BY <1>4
    <2> HIDE DEF B, n
    <2>2. \A i \in 0..n : i \in B BY <1>2, <1>3, <2>1, Upto
    <2> QED BY <1>2, <2>2
  <1>6. r \in Ok BY <1>1, <1>2
  <1>7. ASSUME NEW w \in ToSet(wans) \cap G PROVE r.wan[w] = NewWan
    <2>1. PICK j \in 1..n : wans[j] = w BY WansIs
    <2> QED BY <2>1, <1>1, <1>5
  <1> QED BY <1>1, <1>5, <1>6, <1>7

\* A link that goes down leaves no trace of its upstream behind.
LEMMA LinkDownInOrder ==
  ASSUME WanTypeOK, NEW b \in Ok, NEW a, Ordered(b, a), NEW G, MaxV6Addrs \in Nat, IsFiniteSet(Wans), Stas \subseteq Wans,
         \A v \in Stas : ~Busy(b, v),
         \A w \in ToSet(wans) \cap G : b.wan[w].active # {} => b.wan[w].gateway,
         NEW r, r = DownTurns(b, G)
  PROVE  Ordered(r, a) /\ BusyOnes(r) \subseteq BusyOnes(b) /\ Tethered(r) \subseteq Tethered(b)
  <1> DEFINE n == Len(wans)
  <1>1. PICK h \in [0..n -> Ok] : h[0] = b /\ h[n] = r /\ \A i \in 1..n : h[i] = OnDown(h[i - 1], wans[i], G)
    BY LinkDownTurns
  <1>2. n \in Nat /\ \A i \in 1..n : wans[i] \in Wans /\ wans[i] \in ToSet(wans) BY WansIs
  <1>a. NewWan.active = {} /\ NewWan.partial = {} BY NewWanIs
  <1> DEFINE B == {i \in 0..n : /\ Ordered(h[i], a) /\ BusyOnes(h[i]) \subseteq BusyOnes(b) /\ Tethered(h[i]) \subseteq Tethered(b)
                                /\ \A w \in Wans : h[i].wan[w] \in {b.wan[w], NewWan}}
  <1>3. 0 \in B BY <1>1, <1>2
  <1>4. ASSUME NEW i \in 1..n, i - 1 \in B PROVE i \in B
    <2> DEFINE w == wans[i]
               s == h[i - 1]
    <2>1. s \in Ok /\ h[i] = OnDown(s, w, G) /\ w \in Wans /\ w \in ToSet(wans) BY <1>1, <1>2
    <2>2. /\ w \in G => h[i].wan[w] = NewWan /\ \A v \in Wans \ {w} : h[i].wan[v] = s.wan[v]
          /\ w \notin G => h[i] = s
      BY <2>1, OnDownIs
    <2>3. /\ Ordered(s, a) /\ BusyOnes(s) \subseteq BusyOnes(b) /\ Tethered(s) \subseteq Tethered(b)
          /\ \A v \in Wans : s.wan[v] \in {b.wan[v], NewWan}
      BY <1>4
    <2> HIDE DEF s
    <2>4. \A v \in Wans : h[i].wan[v] \in {b.wan[v], NewWan} BY <2>2, <2>3
    <2>5. \A v \in Stas : ~Busy(s, v) BY <2>3, <1>a DEF Busy
    <2>6. w \in G /\ s.wan[w].active # {} => s.wan[w].gateway BY <2>1, <2>3, <1>a
    <2>7. Ordered(h[i], a) /\ BusyOnes(h[i]) \subseteq BusyOnes(s) /\ Tethered(h[i]) \subseteq Tethered(s)
      <3> HIDE DEF w
      <3>1. CASE w \in G /\ w \in Stas
        <4>1. h[i] = WanDown(s, w) BY <2>1, <3>1 DEF OnDown
        <4> QED BY <4>1, <3>1, <2>1, <2>3, <2>5, StaGoneOrdered
      <3>2. CASE w \in G /\ w \notin Stas
        <4>1. h[i] = WanDown(s, w) BY <2>1, <3>2 DEF OnDown
        <4>2. s.wan[w].active # {} => s.wan[w].gateway BY <3>2, <2>6
        <4> QED BY <4>1, <4>2, <3>2, <2>1, <2>3, ModemGoneOrdered
      <3>3. CASE w \notin G BY <3>3, <2>2, <2>3
      <3> QED BY <3>1, <3>2, <3>3
    <2> QED BY <2>3, <2>4, <2>7, <1>2
  <1>5. n \in B
    <2>1. \A i \in 1..n : i - 1 \in B => i \in B BY <1>4
    <2> HIDE DEF B, n
    <2>2. \A i \in 0..n : i \in B BY <1>2, <1>3, <2>1, Upto
    <2> QED BY <1>2, <2>2
  <1> QED BY <1>1, <1>5

\* The objects that are left.
LEMMA LeftInOrder ==
  ASSUME WanTypeOK, NEW G, NEW r, r = LeftTurns(G)
  PROVE  r \in Seq(Wans) /\ Distinct(r) /\ ToSet(r) = ToSet(wans) \ G
  <1> DEFINE n == Len(wans)
  <1>1. PICK h \in [0..n -> Seq(Wans)] : h[0] = <<>> /\ h[n] = r /\ \A i \in 1..n : h[i] = OnLeft(h[i - 1], wans[i], G)
    BY LeftTurnsIs
  <1>2. n \in Nat /\ \A i \in 1..n : wans[i] \in Wans /\ wans[i] \in ToSet(wans) BY WansIs
  <1> DEFINE Past(i) == {wans[j] : j \in 1..i}
             P(i) == h[i] \in Seq(Wans) /\ Distinct(h[i]) /\ ToSet(h[i]) = Past(i) \ G
             B == {i \in 0..n : P(i)}
  <1>3. 0 \in B
    <2>1. Distinct(<<>>) /\ ToSet(<<>>) = {} /\ Past(0) = {} BY DEF Distinct, ToSet
    <2>2. <<>> \in Seq(Wans) OBVIOUS
    <2>3. P(0) BY <2>1, <2>2, <1>1
    <2> HIDE DEF P, n
    <2> QED BY <2>3, <1>2
  <1>4. ASSUME NEW i \in 1..n, i - 1 \in B PROVE i \in B
    <2> DEFINE s == h[i - 1]
               w == wans[i]
    <2>1. P(i - 1) /\ i \in 0..n BY <1>4, <1>2
    <2>2. s \in Seq(Wans) /\ Distinct(s) /\ ToSet(s) = Past(i - 1) \ G BY <2>1
    <2>3. w \in Wans /\ h[i] = OnLeft(s, w, G) BY <1>1, <1>2
    <2>4. Past(i) = Past(i - 1) \cup {w}
      <3>1. 1..i = 1..(i - 1) \cup {i} BY <1>2
      <3> QED BY <3>1
    <2>5. w \notin Past(i - 1) BY <1>2, WansIs
    <2> HIDE DEF s, w, Past
    <2>6. P(i)
      <3>1. CASE w \in G
        <4>1. h[i] = s BY <2>3, <3>1 DEF OnLeft
        <4> QED BY <4>1, <2>2, <2>4, <3>1
      <3>2. CASE w \notin G
        <4>1. h[i] = Append(s, w) BY <2>3, <3>2 DEF OnLeft
        <4>2. w \notin ToSet(s) BY <2>2, <2>5
        <4>3. Append(s, w) \in Seq(Wans) /\ ToSet(Append(s, w)) = ToSet(s) \cup {w} /\ Distinct(Append(s, w))
          BY <2>2, <2>3, <4>2, AppendIs
        <4>4. ToSet(Append(s, w)) = Past(i) \ G BY <4>3, <2>2, <2>4, <3>2
        <4> QED BY <4>1, <4>3, <4>4
      <3> QED BY <3>1, <3>2
    <2> HIDE DEF P
    <2> QED BY <2>1, <2>6
  <1>5. n \in B
    <2>1. \A i \in 1..n : i - 1 \in B => i \in B BY <1>4
    <2> HIDE DEF B, n
    <2>2. \A i \in 0..n : i \in B BY <1>2, <1>3, <2>1, Upto
    <2> QED BY <1>2, <2>2
  <1>6. P(n)
    <2> HIDE DEF P, n
    <2> QED BY <1>5
  <1>7. Past(n) = ToSet(wans) BY <1>2, WansIs
  <1> HIDE DEF Past, n
  <1> QED BY <1>1, <1>6, <1>7

-----------------------------------------------------------------------------
(* The producers of the resource dependencies                              *)

\* AddRmDependProducer()
LEMMA ProducerJoins ==
  ASSUME NEW s \in Upstreams, Sound(s), NEW l \in Lans, NEW r, r = AddRmDependProducer(s, l)
  PROVE  r \in Upstreams /\ Sound(r) /\ r.producer_up = s.producer_up \cup {l} /\ Keeps(r, s, {"producer_up", "rm_set"})
  <1>1. r.producer_up = s.producer_up \cup {l} /\ r.rm_set = s.rm_set \cup ({l} \X s.consumer_up) BY DEF AddRmDependProducer, Upstreams
  <1>2. Keeps(r, s, {"producer_up", "rm_set"}) BY DEF AddRmDependProducer, Upstreams, Keeps, Fields
  <1>3. r \in Upstreams
    <2>1. {l} \X s.consumer_up \subseteq Lans \X {"Q6", "USB"} BY DEF Upstreams
    <2> QED BY <2>1 DEF AddRmDependProducer, Upstreams
  <1>4. /\ r.wan = s.wan /\ r.consumer_up = s.consumer_up /\ r.modem = s.modem /\ r.flt = s.flt /\ r.num_modem_pdn = s.num_modem_pdn
    BY <1>2 DEF Keeps, Fields
  <1>5. s.rm_set = s.producer_up \X s.consumer_up BY DEF Sound, Made
  <1>6. r.rm_set = r.producer_up \X r.consumer_up BY <1>1, <1>4, <1>5
  <1>7. Made(r) BY <1>3, <1>4, <1>6 DEF Sound, Made
  <1>8. PdnCounted(r) BY <1>4 DEF Sound, PdnCounted, Having
  <1> QED BY <1>1, <1>2, <1>3, <1>4, <1>7, <1>8 DEF Sound

\* DelRmDependProducer()
LEMMA ProducerLeaves ==
  ASSUME NEW s \in Upstreams, Sound(s), NEW l \in Lans, NEW r, r = DelRmDependProducer(s, l)
  PROVE  r \in Upstreams /\ Sound(r) /\ r.producer_up = s.producer_up \ {l} /\ Keeps(r, s, {"producer_up", "rm_set"})
  <1>1. r.producer_up = s.producer_up \ {l} /\ r.rm_set = {p \in s.rm_set : p[1] # l} BY DEF DelRmDependProducer, Upstreams
  <1>2. Keeps(r, s, {"producer_up", "rm_set"}) BY DEF DelRmDependProducer, Upstreams, Keeps, Fields
  <1>3. r \in Upstreams BY DEF DelRmDependProducer, Upstreams
  <1>4. /\ r.wan = s.wan /\ r.consumer_up = s.consumer_up /\ r.modem = s.modem /\ r.flt = s.flt /\ r.num_modem_pdn = s.num_modem_pdn
    BY <1>2 DEF Keeps, Fields
  <1>5. s.rm_set = s.producer_up \X s.consumer_up BY DEF Sound, Made
  <1>6. r.rm_set = r.producer_up \X r.consumer_up BY <1>1, <1>4, <1>5
  <1>7. Made(r) BY <1>3, <1>4, <1>6 DEF Sound, Made
  <1>8. PdnCounted(r) BY <1>4 DEF Sound, PdnCounted, Having
  <1> QED BY <1>1, <1>2, <1>3, <1>4, <1>7, <1>8 DEF Sound

LEMMA ProducerOrdered ==
  ASSUME NEW s \in Upstreams, NEW r \in Upstreams, Keeps(r, s, {"producer_up", "rm_set"}), Stas \subseteq Wans
  PROVE  /\ \A a : Ordered(s, a) => Ordered(r, a)
         /\ BusyOnes(r) = BusyOnes(s) /\ Tethered(r) = Tethered(s) /\ (UsbKept(s) => UsbKept(r))
         /\ r.wan = s.wan /\ r.posted = s.posted
  <1>1. /\ r.wan = s.wan /\ r.wan_up = s.wan_up /\ r.tether = s.tether /\ r.a2_check = s.a2_check /\ r.consumer_up = s.consumer_up
        /\ r.posted = s.posted /\ r.flt = s.flt
    BY DEF Keeps, Fields
  <1>2. /\ \A a : Ordered(s, a) => Ordered(r, a)
        /\ BusyOnes(r) = BusyOnes(s) /\ Tethered(r) = Tethered(s)
    BY <1>1, SameOrder
  <1> QED BY <1>1, <1>2 DEF UsbKept
-----------------------------------------------------------------------------
(* The rules of the tethered interfaces                                    *)

FilterRules     == [Hdls -> [lan : Lans \cup {None}, what : What \cup {None}]]
LanStates == [o : LanObjects, rules : FilterRules, ok : BOOLEAN]
FreeHdls(rs)  == {h \in Hdls : rs[h] = NoRule}
Rooms(rs, n) == Cardinality(FreeHdls(rs)) >= n

\* The object keeps its addresses.
LanSame(r, s) == r \in LanStates /\ r.o.up = s.o.up /\ r.o.ip = s.o.ip /\ r.o.addrs = s.o.addrs

LEMMA LanObjectIs ==
  ASSUME NEW r \in LanStates, NEW k \in What, NEW h \in {0} \cup Hdls, NEW u \in SUBSET Families
  PROVE  /\ [r.o EXCEPT !.hdl[k] = h] \in LanObjects /\ [r.o EXCEPT !.ul_set = u] \in LanObjects
         /\ [r.o EXCEPT !.ul_set = u, !.hdl[k] = h] \in LanObjects
  <1>1. r.o \in LanObjects BY DEF LanStates
  <1>2. r.o.hdl \in [What -> {0} \cup Hdls] BY <1>1 DEF LanObjects
  <1> DEFINE g == [r.o.hdl EXCEPT ![k] = h]
  <1>3. g \in [What -> {0} \cup Hdls] BY <1>2
  <1>4. [r.o EXCEPT !.hdl[k] = h] = [r.o EXCEPT !.hdl = g] /\ [r.o EXCEPT !.ul_set = u, !.hdl[k] = h] = [r.o EXCEPT !.ul_set = u, !.hdl = g]
    BY <1>1 DEF LanObjects
  <1> HIDE DEF g
  <1> QED BY <1>1, <1>3, <1>4 DEF LanObjects

\* As long as a handle is free a rule is added, and takes one.
LEMMA AddRuleIs ==
  ASSUME NEW r \in LanStates, NEW l \in Lans, NEW k \in What, None \notin Lans, MaxRules \in Nat, NEW n \in Nat, Rooms(r.rules, n + 1),
         NEW s, s = AddRule(r, l, k)
  PROVE  LanSame(s, r) /\ Rooms(s.rules, n)
  <1> DEFINE F == FreeHdls(r.rules)
             h == Lowest(r.rules)
             x == [lan |-> l, what |-> k]
             o == [r.o EXCEPT !.hdl[k] = h]
             q == [r.rules EXCEPT ![h] = x]
  <1>1. r.rules \in FilterRules /\ r.o \in LanObjects BY DEF LanStates
  <1>2. IsFiniteSet(F) /\ F \in SUBSET Nat
    <2>1. IsFiniteSet(Hdls) BY FS_Interval DEF Hdls
    <2> QED BY <2>1, FS_Subset DEF FreeHdls, Hdls
  <1>3. F # {} /\ Cardinality(F) \in Nat /\ Cardinality(F) >= n + 1
    <2>1. Cardinality(F) >= n + 1 /\ Cardinality(F) \in Nat BY <1>2, FS_CardinalityType DEF Rooms
    <2>2. Cardinality(F) # 0 BY <2>1
    <2> QED BY <2>1, <2>2, FS_EmptySet
  <1>4. PICK m \in F : \A y \in F : m <= y BY <1>2, <1>3, MinExists
  <1>5. m \in Hdls /\ r.rules[m] = NoRule /\ \A g \in Hdls : r.rules[g] = NoRule => m <= g BY <1>4 DEF FreeHdls
  <1>6. h \in Hdls /\ h \in F BY <1>5 DEF Lowest, FreeHdls
  <1>7. s = [r EXCEPT !.o = o, !.rules = q]
    <2>1. s = [r EXCEPT !.o.hdl[k] = h, !.rules[h] = x] BY DEF AddRule
    <2> HIDE DEF h, x
    <2> QED BY <2>1, <1>1 DEF LanStates, LanObjects, FilterRules
  <1> HIDE DEF h
  <1>8. o \in LanObjects BY <1>6, LanObjectIs, Zenon
  <1>9. o.up = r.o.up /\ o.ip = r.o.ip /\ o.addrs = r.o.addrs BY <1>1 DEF LanObjects
  <1>10. x \in [lan : Lans \cup {None}, what : What \cup {None}] OBVIOUS
  <1>11. x # NoRule BY DEF NoRule
  <1> HIDE DEF o, x
  <1>12. q \in FilterRules BY <1>1, <1>6, <1>10 DEF FilterRules
  <1>13. FreeHdls(q) = F \ {h} BY <1>1, <1>6, <1>11 DEF FreeHdls, FilterRules
  <1> HIDE DEF q
  <1>14. s \in LanStates /\ s.o = o /\ s.rules = q BY <1>7, <1>8, <1>12 DEF LanStates
  <1>15. Cardinality(FreeHdls(q)) = Cardinality(F) - 1
    <2> HIDE DEF F
    <2> QED BY <1>2, <1>6, <1>13, FS_RemoveElement
  <1>16. Rooms(s.rules, n) BY <1>3, <1>14, <1>15 DEF Rooms
  <1> QED BY <1>9, <1>14, <1>16 DEF LanSame

\* DeleteFilteringHdls() leaves the address and the flags of the interface.
LEMMA DelRuleIs ==
  ASSUME NEW r \in LanStates, NEW k \in What, NEW s, s = DelRule(r, k)
  PROVE  LanSame(s, r)
  <1> DEFINE h == r.o.hdl[k]
             q == [r.rules EXCEPT ![h] = NoRule]
  <1>1. r.rules \in FilterRules /\ r.o \in LanObjects /\ h \in {0} \cup Hdls BY DEF LanStates, LanObjects
  <1>2. NoRule \in [lan : Lans \cup {None}, what : What \cup {None}] BY DEF NoRule
  <1> HIDE DEF h
  <1>3. q \in FilterRules BY <1>1, <1>2 DEF FilterRules
  <1>4. s \in {r, [r EXCEPT !.ok = FALSE], [r EXCEPT !.rules = q]}
    <2>1. [r EXCEPT !.rules = q] = [r EXCEPT !.rules[h] = NoRule] BY DEF LanStates
    <2> HIDE DEF q
    <2> QED BY <2>1 DEF DelRule, h
  <1> HIDE DEF q
  <1>5. CASE s = r BY <1>5 DEF LanSame
  <1>6. CASE s = [r EXCEPT !.ok = FALSE] BY <1>6 DEF LanSame, LanStates
  <1>7. CASE s = [r EXCEPT !.rules = q] BY <1>3, <1>7 DEF LanSame, LanStates
  <1> QED BY <1>4, <1>5, <1>6, <1>7

LEMMA LanSameTrans ==
  ASSUME NEW r, NEW s, NEW t, LanSame(r, s), LanSame(s, t)
  PROVE  LanSame(r, t)
  BY DEF LanSame

LEMMA LanSameSelf ==
  ASSUME NEW r \in LanStates
  PROVE  LanSame(r, r)
  BY DEF LanSame

LEMMA WhatIs ==
  ASSUME NEW f \in Families
  PROVE  V("dft", f) \in What /\ V("wan", f) \in What /\ V("ul", f) \in What /\ "icmp" \in What /\ "prefix" \in What
  BY DEF V, What, Families

LEMMA UplinkRulesIs ==
  ASSUME NEW r \in LanStates, NEW l \in Lans, NEW f \in Families, None \notin Lans, MaxRules \in Nat, NEW n \in Nat, Rooms(r.rules, n + 1),
         NEW s, s = UplinkRules(r, l, f)
  PROVE  LanSame(s, r)
  <1>1. CASE f \in r.o.ul_set
    <2>1. s = r BY <1>1 DEF UplinkRules
    <2> QED BY <2>1, LanSameSelf
  <1>2. CASE f \notin r.o.ul_set
    <2> DEFINE t == AddRule(r, l, V("ul", f))
    <2>1. s = [t EXCEPT !.o.ul_set = @ \cup {f}] BY <1>2 DEF UplinkRules
    <2>2. LanSame(t, r) BY WhatIs, AddRuleIs
    <2> HIDE DEF t
    <2> DEFINE u == t.o.ul_set \cup {f}
               o == [t.o EXCEPT !.ul_set = u]
    <2>3. t \in LanStates /\ u \in SUBSET Families BY <2>2 DEF LanSame, LanStates, LanObjects
    <2>4. o \in LanObjects /\ o.up = t.o.up /\ o.ip = t.o.ip /\ o.addrs = t.o.addrs BY <2>3 DEF LanStates, LanObjects
    <2>5. s = [t EXCEPT !.o = o] BY <2>1, <2>3 DEF LanStates
    <2> HIDE DEF o, u
    <2>6. s \in LanStates /\ s.o = o BY <2>3, <2>4, <2>5 DEF LanStates
    <2> QED BY <2>2, <2>4, <2>6 DEF LanSame
  <1> QED BY <1>1, <1>2

\* handle_wan_up(), handle_wan_up_ex(): filtering rules and their handles only.
LEMMA LanWanUpIs ==
  ASSUME NEW r \in LanStates, NEW l \in Lans, NEW f \in Families, NEW sta \in BOOLEAN, None \notin Lans, MaxRules \in Nat,
         Rooms(r.rules, 2), NEW s, s = LanWanUp(r, l, f, sta)
  PROVE  LanSame(s, r)
  <1> DEFINE r1 == IF f = "v6" THEN PrefixRule(r, l) ELSE r
  <1>1. LanSame(r1, r) /\ Rooms(r1.rules, 1)
    <2>1. 1 + 1 = 2 /\ 1 \in Nat OBVIOUS
    <2>2. CASE f = "v6"
      <3>1. r1 = AddRule(r, l, "prefix") BY <2>2 DEF PrefixRule
      <3>2. Rooms(r.rules, 1 + 1) BY <2>1
      <3> HIDE DEF r1
      <3> QED BY <3>1, <3>2, <2>1, WhatIs, AddRuleIs
    <2>3. CASE f # "v6"
      <3>1. Rooms(r.rules, 1)
        <4>1. IsFiniteSet(Hdls) BY FS_Interval DEF Hdls
        <4>2. IsFiniteSet(FreeHdls(r.rules)) BY <4>1, FS_Subset DEF FreeHdls
        <4>3. Cardinality(FreeHdls(r.rules)) \in Nat BY <4>2, FS_CardinalityType
        <4> QED BY <4>3 DEF Rooms
      <3> QED BY <3>1, <2>3, LanSameSelf
    <2> QED BY <2>2, <2>3
  <1>2. s = IF sta THEN AddRule(r1, l, V("wan", f)) ELSE LanWanUpEx(r1, l, f) BY DEF LanWanUp
  <1> HIDE DEF r1
  <1>3. r1 \in LanStates BY <1>1 DEF LanSame
  <1>4. Rooms(r1.rules, 0 + 1) /\ 0 \in Nat BY <1>1
  <1>5. LanSame(s, r1)
    <2>1. CASE sta
      <3>1. s = AddRule(r1, l, V("wan", f)) BY <2>1, <1>2
      <3> QED BY <3>1, <1>3, <1>4, WhatIs, AddRuleIs
    <2>2. CASE ~sta /\ f = "v6" /\ r1.o.addrs # 1
      <3>1. s = r1 BY <2>2, <1>2 DEF LanWanUpEx
      <3> QED BY <3>1, <1>3, LanSameSelf
    <2>3. CASE ~sta /\ ~(f = "v6" /\ r1.o.addrs # 1)
      <3>1. s = UplinkRules(r1, l, f) BY <2>3, <1>2 DEF LanWanUpEx
      <3> QED BY <3>1, <1>3, <1>4, UplinkRulesIs
    <2> QED BY <2>1, <2>2, <2>3
  <1> QED BY <1>1, <1>5, LanSameTrans

\* handle_wan_down(), handle_wan_down_v6(): filtering rules and their handles only.
LEMMA LanWanDownIs ==
  ASSUME NEW r \in LanStates, NEW f \in Families, NEW sta \in BOOLEAN, NEW s, s = LanWanDown(r, f, sta)
  PROVE  LanSame(s, r)
  <1> DEFINE r1 == IF f = "v6" THEN DelRule(r, "prefix") ELSE r
             k  == IF sta THEN V("wan", f) ELSE V("ul", f)
             r2 == DelRule(r1, k)
  <1>1. LanSame(r1, r)
    <2>1. CASE f = "v6"
      <3>1. r1 = DelRule(r, "prefix") BY <2>1
      <3> HIDE DEF r1
      <3> QED BY <3>1, WhatIs, DelRuleIs
    <2>2. CASE f # "v6" BY <2>2, LanSameSelf
    <2> QED BY <2>1, <2>2
  <1>2. k \in What BY WhatIs
  <1>3. s = IF sta \/ ~r2.ok THEN r2 ELSE [r2 EXCEPT !.o.ul_set = @ \ {f}, !.o.hdl[V("ul", f)] = 0] BY DEF LanWanDown
  <1> HIDE DEF r1, k
  <1>4. LanSame(r2, r1) BY <1>1, <1>2, DelRuleIs DEF LanSame
  <1> HIDE DEF r2
  <1>5. LanSame(s, r2)
    <2>1. r2 \in LanStates BY <1>4 DEF LanSame
    <2>2. CASE sta \/ ~r2.ok BY <2>1, <2>2, <1>3, LanSameSelf
    <2>3. CASE ~(sta \/ ~r2.ok)
      <3> DEFINE u == r2.o.ul_set \ {f}
                 m == V("ul", f)
                 o == [r2.o EXCEPT !.ul_set = u, !.hdl[m] = 0]
      <3>1. u \in SUBSET Families /\ m \in What /\ 0 \in {0} \cup Hdls BY <2>1, WhatIs DEF LanStates, LanObjects
      <3>2. s = [r2 EXCEPT !.o = o] BY <2>1, <2>3, <1>3 DEF LanStates, LanObjects
      <3> HIDE DEF u, m
      <3>3. o \in LanObjects BY <2>1, <3>1, LanObjectIs, Zenon
      <3>4. o.up = r2.o.up /\ o.ip = r2.o.ip /\ o.addrs = r2.o.addrs BY <2>1 DEF LanStates, LanObjects
      <3> HIDE DEF o
      <3>5. s \in LanStates /\ s.o = o BY <2>1, <3>2, <3>3 DEF LanStates
      <3> QED BY <3>4, <3>5 DEF LanSame
    <2> QED BY <2>2, <2>3
  <1> QED BY <1>1, <1>4, <1>5, LanSameTrans

LEMMA RoomsFewer ==
  ASSUME NEW rs, NEW n \in Nat, NEW m \in Nat, m <= n, MaxRules \in Nat, Rooms(rs, n)
  PROVE  Rooms(rs, m)
  <1>1. IsFiniteSet(Hdls) BY FS_Interval DEF Hdls
  <1>2. IsFiniteSet(FreeHdls(rs)) BY <1>1, FS_Subset DEF FreeHdls
  <1>3. Cardinality(FreeHdls(rs)) \in Nat BY <1>2, FS_CardinalityType
  <1> QED BY <1>3 DEF Rooms

\* handle_addr_evt() of a tethered interface.
LEMMA LanAddrAddIs ==
  ASSUME NEW r \in LanStates, NEW l \in Lans, NEW f \in Families, None \notin Lans, MaxRules \in Nat, MaxV6Addrs \in Nat, MaxV6Addrs > 0,
         Rooms(r.rules, 4), upstream \in Upstreams, f \notin r.o.ip \/ (f = "v6" /\ r.o.addrs < MaxV6Addrs),
         "v6" \notin r.o.ip => r.o.addrs = 0, NEW s, s = LanAddrAdd(r, l, f)
  PROVE  /\ s \in LanStates /\ s.o.up = r.o.up /\ s.o.ip = r.o.ip \cup {f}
         /\ "v6" \notin s.o.ip => s.o.addrs = 0
  <1> DEFINE r1 == IF f = "v6" /\ r.o.addrs = 0 THEN IcmpRule(r, l) ELSE r
             r2 == IF f \in r.o.ip THEN r1 ELSE InitFlRule(r1, l, f)
             n  == IF f = "v6" THEN r2.o.addrs + 1 ELSE r2.o.addrs
             r3 == [r2 EXCEPT !.o.ip = @ \cup {f}, !.o.addrs = n]
  <1>1. r3 = [r2 EXCEPT !.o.ip = @ \cup {f}, !.o.addrs = IF f = "v6" THEN @ + 1 ELSE @]
    OBVIOUS
  <1>2. s = IF isWanUP(l, f) /\ (f = "v6" => r3.o.addrs = 1) THEN LanWanUp(r3, l, f, upstream.backhaul_is_sta_mode) ELSE r3
    BY <1>1 DEF LanAddrAdd
  <1>3. LanSame(r1, r) /\ Rooms(r1.rules, 3)
    <2>1. 3 + 1 = 4 /\ 3 \in Nat /\ 4 \in Nat /\ 3 <= 4 OBVIOUS
    <2>2. CASE f = "v6" /\ r.o.addrs = 0
      <3>1. r1 = AddRule(r, l, "icmp") BY <2>2 DEF IcmpRule
      <3>2. Rooms(r.rules, 3 + 1) BY <2>1
      <3> HIDE DEF r1
      <3> QED BY <3>1, <3>2, <2>1, WhatIs, AddRuleIs
    <2>3. CASE ~(f = "v6" /\ r.o.addrs = 0)
      <3>1. r1 = r BY <2>3
      <3>2. Rooms(r.rules, 3) BY <2>1, RoomsFewer
      <3> HIDE DEF r1
      <3> QED BY <3>1, <3>2, LanSameSelf
    <2> QED BY <2>2, <2>3
  <1> HIDE DEF r1
  <1>4. r1 \in LanStates BY <1>3 DEF LanSame
  <1>5. LanSame(r2, r1) /\ Rooms(r2.rules, 2)
    <2>1. 2 + 1 = 3 /\ 3 \in Nat /\ 2 \in Nat /\ 2 <= 3 OBVIOUS
    <2>2. CASE f \notin r.o.ip
      <3>1. r2 = AddRule(r1, l, V("dft", f)) BY <2>2 DEF InitFlRule
      <3>2. Rooms(r1.rules, 2 + 1) BY <2>1, <1>3
      <3> HIDE DEF r2
      <3> QED BY <3>1, <3>2, <2>1, <1>4, WhatIs, AddRuleIs
    <2>3. CASE f \in r.o.ip
      <3>1. r2 = r1 BY <2>3
      <3>2. Rooms(r1.rules, 2) BY <2>1, <1>3, RoomsFewer
      <3> HIDE DEF r2
      <3> QED BY <3>1, <3>2, <1>4, LanSameSelf
    <2> QED BY <2>2, <2>3
  <1>6. LanSame(r2, r) BY <1>3, <1>5, LanSameTrans
  <1> HIDE DEF r2
  <1>7. /\ r3 \in LanStates /\ r3.o.up = r.o.up /\ r3.o.ip = r.o.ip \cup {f} /\ r3.rules = r2.rules
        /\ "v6" \notin r3.o.ip => r3.o.addrs = 0
    <2> DEFINE i == r2.o.ip \cup {f}
               o == [r2.o EXCEPT !.ip = i, !.addrs = n]
    <2>1. r2 \in LanStates /\ r2.o \in LanObjects /\ r.o \in LanObjects BY <1>6 DEF LanSame, LanStates
    <2>2. r2.o.up = r.o.up /\ r2.o.ip = r.o.ip /\ r2.o.addrs = r.o.addrs BY <1>6 DEF LanSame
    <2>3. n \in 0..MaxV6Addrs /\ ("v6" \notin r.o.ip \cup {f} => n = 0)
      BY <2>1, <2>2 DEF LanObjects, Families
    <2>4. i \in SUBSET Families BY <2>1 DEF LanObjects
    <2>5. r3 = [r2 EXCEPT !.o = o] BY <2>1 DEF LanStates
    <2> HIDE DEF n
    <2>6. o \in LanObjects /\ o.up = r2.o.up /\ o.ip = i /\ o.addrs = n BY <2>1, <2>3, <2>4 DEF LanObjects
    <2>7. i = r.o.ip \cup {f} BY <2>2
    <2> HIDE DEF o, i, r3
    <2>8. r3 \in LanStates /\ r3.o = o /\ r3.rules = r2.rules BY <2>1, <2>5, <2>6 DEF LanStates
    <2> QED BY <2>2, <2>3, <2>6, <2>7, <2>8
  <1>8. Rooms(r3.rules, 2) BY <1>5, <1>7
  <1> HIDE DEF r3
  <1>9. LanSame(s, r3)
    <2>1. CASE isWanUP(l, f) /\ (f = "v6" => r3.o.addrs = 1)
      <3>1. upstream.backhaul_is_sta_mode \in BOOLEAN BY DEF Upstreams
      <3>2. s = LanWanUp(r3, l, f, upstream.backhaul_is_sta_mode) BY <2>1, <1>2
      <3> QED BY <3>1, <3>2, <1>7, <1>8, LanWanUpIs
    <2>2. CASE ~(isWanUP(l, f) /\ (f = "v6" => r3.o.addrs = 1)) BY <2>2, <1>2, <1>7, LanSameSelf
    <2> QED BY <2>1, <2>2
  <1> QED BY <1>7, <1>9 DEF LanSame

LEMMA AgainIs ==
  ASSUME NEW r \in LanStates
  PROVE  LanSame([r EXCEPT !.ok = TRUE], r)
  BY DEF LanSame, LanStates

\* handle_down_evt() of a tethered interface.
LEMMA LanDownIs ==
  ASSUME NEW r \in LanStates, NEW l \in Lans, upstream \in Upstreams, NEW s, s = LanDown(r, l)
  PROVE  s \in LanStates
  <1> DEFINE sta == upstream.backhaul_is_sta_mode
             d1 == LanWanDown(r, "v4", sta)
             r1 == IF isWanUP(l, "v4") THEN [d1 EXCEPT !.ok = TRUE] ELSE r
             d2 == LanWanDown(r1, "v6", sta)
             r2 == IF isWanUP(l, "v6") THEN [d2 EXCEPT !.ok = TRUE] ELSE r1
             e3 == DelRule(r2, "dft_v4")
             f3 == DelRule(e3, "icmp")
             r3 == IF "v4" \in r.o.ip THEN f3 ELSE r2
             e4 == DelRule(r3, "dft_v6")
             f4 == DelRule(e4, "wan_v6")
             r4 == IF "v6" \in r.o.ip THEN f4 ELSE r3
  <1>1. s = IF r.o.ip = {} THEN r ELSE r4 BY DEF LanDown
  <1>2. sta \in BOOLEAN /\ "v4" \in Families /\ "v6" \in Families BY DEF Upstreams, Families
  <1>3. {"dft_v4", "icmp", "dft_v6", "wan_v6"} \subseteq What BY DEF What
  <1> HIDE DEF sta
  <1>4. d1 \in LanStates BY <1>2, LanWanDownIs DEF LanSame
  <1> HIDE DEF d1
  <1>5. r1 \in LanStates BY <1>4, AgainIs DEF LanSame
  <1> HIDE DEF r1
  <1>6. d2 \in LanStates BY <1>2, <1>5, LanWanDownIs DEF LanSame
  <1> HIDE DEF d2
  <1>7. r2 \in LanStates BY <1>5, <1>6, AgainIs DEF LanSame
  <1> HIDE DEF r2
  <1>8. e3 \in LanStates BY <1>3, <1>7, DelRuleIs DEF LanSame
  <1> HIDE DEF e3
  <1>9. f3 \in LanStates BY <1>3, <1>8, DelRuleIs DEF LanSame
  <1> HIDE DEF f3
  <1>10. r3 \in LanStates BY <1>7, <1>9
  <1> HIDE DEF r3
  <1>11. e4 \in LanStates BY <1>3, <1>10, DelRuleIs DEF LanSame
  <1> HIDE DEF e4
  <1>12. f4 \in LanStates BY <1>3, <1>11, DelRuleIs DEF LanSame
  <1> HIDE DEF f4
  <1> QED BY <1>1, <1>10, <1>12
-----------------------------------------------------------------------------
(* One event is handled                                                    *)

LEMMA EventIs ==
  ASSUME NEW e \in Events
  PROVE  /\ e.event \in {"ROUTE_ADD", "ROUTE_DEL", "UP_TETHER", "DOWN_TETHER"} =>
              e = Event(e.event, e.dev, e.family, e.lan) /\ e.dev \in Wans /\ e.family \in Families /\ e.lan \in Lans
         /\ e.event \in {"WAN_UP", "WAN_DOWN"} => e.dev \in Wans
         /\ e.event = "NEIGH_ADD" => e.dev \in Wans
         /\ e.event = "ADDR_ADD" => e.dev \in Wans \cup Lans /\ e.family \in Families
         /\ e.event = "LINK_DOWN" => e.dev \in Wans \cup Lans
  BY DEF Events, Event

\* What is left in the queue when an event is handled.
LEMMA TakeIs ==
  ASSUME NEW s \in Upstreams, Take(s), queue \in Seq(Events), queue # <<>>
  PROVE  /\ upstream' \in Upstreams /\ upstream'.posted = <<>> /\ Keeps(upstream', s, {"posted"})
         /\ queue' = Handled(queue, s.posted) /\ queue' \in Seq(Events)
  <1>1. Tail(queue) \in Seq(Events) BY TailIs
  <1>2. s.posted \in Seq(Events) /\ <<>> \in Seq(Events) BY DEF Upstreams
  <1>3. upstream' = [s EXCEPT !.posted = <<>>] /\ queue' = Tail(queue) \o s.posted BY DEF Take
  <1>4. queue' \in Seq(Events) BY <1>1, <1>2, <1>3
  <1>5. upstream' \in Upstreams /\ upstream'.posted = <<>> BY <1>2, <1>3 DEF Upstreams
  <1>6. Keeps(upstream', s, {"posted"}) BY <1>3 DEF Keeps, Fields, Upstreams
  <1> QED BY <1>3, <1>4, <1>5, <1>6 DEF Handled

LEMMA TakeSame ==
  ASSUME NEW s \in Upstreams, NEW r \in Upstreams, Keeps(r, s, {"posted"})
  PROVE  /\ Sound(s) => Sound(r)
         /\ r.wan = s.wan /\ r.producer_up = s.producer_up /\ r.tether = s.tether
         /\ BusyOnes(r) = BusyOnes(s) /\ Tethered(r) = Tethered(s) /\ ActiveV4(r) = ActiveV4(s)
         /\ Single(s) => Single(r)
         /\ Listed(s) => Listed(r)
         /\ UsbKept(s) => UsbKept(r)
  <1>1. /\ r.wan = s.wan /\ r.wan_up = s.wan_up /\ r.tether = s.tether /\ r.num_modem_pdn = s.num_modem_pdn /\ r.flt = s.flt
        /\ r.modem = s.modem /\ r.a2_check = s.a2_check /\ r.consumer_up = s.consumer_up /\ r.producer_up = s.producer_up
        /\ r.rm_set = s.rm_set
    BY DEF Keeps, Fields
  <1>2. Sound(s) => Sound(r) BY <1>1 DEF Sound, Made, PdnCounted, Having
  <1>3. BusyOnes(r) = BusyOnes(s) /\ Tethered(r) = Tethered(s) /\ ActiveV4(r) = ActiveV4(s) BY <1>1 DEF BusyOnes, Busy, Tethered, ActiveV4
  <1>4. Single(s) => Single(r) BY <1>1 DEF Single, Busy, Users
  <1>5. Listed(s) => Listed(r) BY <1>1 DEF Listed
  <1>6. UsbKept(s) => UsbKept(r) BY <1>1 DEF UsbKept
  <1> QED BY <1>1, <1>2, <1>3, <1>4, <1>5, <1>6

\* With nothing posted yet the upstream says what it is.
LEMMA StartOrdered ==
  ASSUME upstream \in Upstreams, upstream.posted = <<>>, Single(upstream), Listed(upstream)
  PROVE  Ordered(upstream, ActiveV4(upstream))
  <1>1. ActiveV4(upstream) \in SUBSET Wans BY DEF ActiveV4
  <1>2. <<>> \in Seq(Events) /\ Len(<<>>) = 0 OBVIOUS
  <1>3. \A i \in 1..0 : FALSE OBVIOUS
  <1>4. Chain(<<>>, ActiveV4(upstream), ActiveV4(upstream))
    <2>1. \A i \in 1..Len(<<>>) : ~Told(<<>>[i]) BY <1>2, <1>3
    <2> QED BY <1>1, <1>2, <2>1, ChainSilent
  <1>5. Own(<<>>) BY <1>2, <1>3 DEF Own
  <1> QED BY <1>4, <1>5 DEF Ordered, Says

LEMMA StartOk ==
  ASSUME ObjectsKnown
  PROVE  upstream \in Ok
  BY DEF ObjectsKnown, Ok, WanTypeOK

\* What the objects may be, whoever changes them.
LEMMA KnownIf ==
  ASSUME queue' \in Seq(Events), upstream' \in Upstreams, upstream'.posted = <<>>, Sound(upstream'),
         wans' \in Seq(Wans), Distinct(wans'), Present(upstream)', lan' \in [Lans -> LanObjects], rules' \in FilterRules,
         conntrack' \in [WanUp : BOOLEAN, table : Wans \cup {None}], chosen' \in [Families -> [Lans -> Wans \cup {None}]], LansRight'
  PROVE  ObjectsKnown'
  <1>1. \A w \in Wans : upstream'.wan[w].active \cup upstream'.wan[w].partial \subseteq upstream'.wan[w].ip
    BY DEF Sound, Made, Fit
  <1>2. WanTypeOK' BY <1>1 DEF WanTypeOK, Distinct, FilterRules
  <1> QED BY <1>2 DEF ObjectsKnown

LEMMA KnownIs ==
  ASSUME ObjectsKnown
  PROVE  /\ queue \in Seq(Events) /\ upstream \in Upstreams /\ upstream.posted = <<>> /\ Sound(upstream)
         /\ wans \in Seq(Wans) /\ Distinct(wans) /\ Present(upstream) /\ lan \in [Lans -> LanObjects] /\ rules \in FilterRules
         /\ conntrack \in [WanUp : BOOLEAN, table : Wans \cup {None}] /\ chosen \in [Families -> [Lans -> Wans \cup {None}]]
         /\ LansRight /\ WanTypeOK
  BY DEF ObjectsKnown, WanTypeOK, Distinct, FilterRules

\* Handling an event keeps the objects sound if its turns do.
LEMMA KnownThen ==
  ASSUME ObjectsKnown, queue # <<>>, NEW s \in Ok, Take(s), wans' = wans, lan' = lan, rules' = rules, conntrack' = conntrack, chosen' = chosen
  PROVE  ObjectsKnown'
  <1>1. s \in Upstreams /\ Sound(s) /\ Present(s) /\ s.producer_up = upstream.producer_up BY DEF Ok
  <1>2. queue \in Seq(Events) BY KnownIs
  <1>3. upstream' \in Upstreams /\ upstream'.posted = <<>> /\ Keeps(upstream', s, {"posted"}) /\ queue' \in Seq(Events)
    BY <1>1, <1>2, TakeIs
  <1>4. Sound(upstream') /\ upstream'.wan = s.wan /\ upstream'.producer_up = upstream.producer_up BY <1>1, <1>3, TakeSame
  <1>5. Present(upstream)' BY <1>1, <1>4 DEF Present
  <1>6. LansRight' BY <1>4, KnownIs DEF LansRight
  <1> QED BY <1>3, <1>4, <1>5, <1>6, KnownIs, KnownIf

\* What is posted tells how the upstreams changed.
LEMMA ToldThen ==
  ASSUME ObjectsKnown, ToldRight, queue # <<>>, ~Told(Head(queue)), NEW s \in Upstreams, Says(s, ActiveV4(upstream)), Take(s), conntrack' = conntrack
  PROVE  ToldRight'
  <1>1. queue \in Seq(Events) /\ Tail(queue) \in Seq(Events) BY KnownIs, TailIs
  <1>2. Chain(queue, At, ActiveV4(upstream)) /\ At' = At /\ (conntrack'.WanUp <=> conntrack'.table # None) BY DEF ToldRight, At
  <1>3. PICK c \in SUBSET Wans : Leads(Head(queue), At, c) /\ Chain(Tail(queue), c, ActiveV4(upstream))
    BY <1>1, <1>2, ChainTail
  <1>4. c = At BY <1>3 DEF Leads
  <1>5. s.posted \in Seq(Events) /\ Chain(s.posted, ActiveV4(upstream), ActiveV4(s)) BY DEF Says, Upstreams
  <1>6. Chain(Tail(queue) \o s.posted, At, ActiveV4(s)) BY <1>1, <1>3, <1>4, <1>5, ChainJoin
  <1>7. upstream' \in Upstreams /\ Keeps(upstream', s, {"posted"}) /\ queue' = Handled(queue, s.posted) BY <1>1, TakeIs
  <1>8. ActiveV4(upstream') = ActiveV4(s) BY <1>7, TakeSame
  <1>9. Chain(queue', At', ActiveV4(upstream')) BY <1>2, <1>6, <1>7, <1>8 DEF Handled
  <1> QED BY <1>2, <1>9 DEF ToldRight

\* Handling an event keeps the order if its turns do and the routes are right.
LEMMA OrderThen ==
  ASSUME ObjectsKnown, InOrder, queue # <<>>, ~Told(Head(queue)), NEW s \in Upstreams, Ordered(s, ActiveV4(upstream)), Take(s), conntrack' = conntrack,
         RoutesRight(Handled(queue, s.posted), ToSet(wans'), BusyOnes(s), Tethered(s), chosen')
  PROVE  InOrder' /\ (UsbKept(s) => UsbKept(upstream'))
  <1>1. Single(s) /\ Listed(s) /\ Says(s, ActiveV4(upstream)) BY DEF Ordered
  <1>2. ToldRight' BY <1>1, ToldThen DEF InOrder
  <1>3. upstream' \in Upstreams /\ Keeps(upstream', s, {"posted"}) /\ queue' = Handled(queue, s.posted) BY KnownIs, TakeIs
  <1>4. /\ Single(upstream') /\ Listed(upstream') /\ BusyOnes(upstream') = BusyOnes(s) /\ Tethered(upstream') = Tethered(s)
        /\ UsbKept(s) => UsbKept(upstream')
    BY <1>1, <1>3, TakeSame
  <1>5. Routed' BY <1>3, <1>4 DEF Routed
  <1> QED BY <1>2, <1>4, <1>5 DEF InOrder

\* The routes are right after another event than the end of a route.
LEMMA RoutesThen ==
  ASSUME ObjectsKnown, Routed, queue # <<>>, Head(queue).event # "ROUTE_DEL", NEW s \in Upstreams, Own(s.posted),
         NEW W \in SUBSET ToSet(wans), BusyOnes(s) \subseteq BusyOnes(upstream), Tethered(s) \subseteq Tethered(upstream)
  PROVE  RoutesRight(Handled(queue, s.posted), W, BusyOnes(s), Tethered(s), chosen)
  <1>1. queue \in Seq(Events) /\ s.posted \in Seq(Events) /\ \A i \in 1..Len(s.posted) : ~Added(s.posted[i]) BY KnownIs DEF Upstreams, Own
  <1>2. \A w, f, l : Head(queue) # Deleted(w, f, l) BY DEF Deleted, Event
  <1>3. RoutesRight(queue, ToSet(wans), BusyOnes(upstream), Tethered(upstream), chosen) BY DEF Routed
  <1> DEFINE B == BusyOnes(upstream)
             T == Tethered(upstream)
             B1 == BusyOnes(s)
             T1 == Tethered(s)
             D  == ToSet(wans)
  <1>4. B1 \in SUBSET B /\ T1 \in SUBSET T OBVIOUS
  <1>5. RoutesRight(queue, D, B, T, chosen) BY <1>3
  <1>6. W \in SUBSET D OBVIOUS
  <1> SUFFICES RoutesRight(Handled(queue, s.posted), W, B1, T1, chosen) OBVIOUS
  <1>7. \A w \in B1, t \in T1 : Head(queue) # Deleted(w, t[1], t[2]) BY <1>2
  <1> HIDE DEF B, T, B1, T1, D
  <1> QED BY ONLY <1>1, <1>4, <1>5, <1>6, <1>7, queue # <<>>, RoutesHandled

\* A sequence that was unusual stays so.
LEMMA OrderlyLess ==
  ASSUME unusual \subseteq unusual'
  PROVE  /\ Orderly' => Orderly
         /\ "usb family" \notin unusual' => "usb family" \notin unusual
  BY DEF Orderly

\* The invariant from its parts.
LEMMA WanInvIf ==
  ASSUME ObjectsKnown', unusual \subseteq unusual',
         Orderly /\ Orderly' => InOrder',
         Orderly /\ Orderly' /\ "usb family" \notin unusual' => UsbKept(upstream')
  PROVE  WanInv'
  <1>1. Orderly' => Orderly BY OrderlyLess
  <1> QED BY <1>1 DEF WanInv
-----------------------------------------------------------------------------
(* What is reported                                                        *)

LEMMA BusyPresent ==
  ASSUME ObjectsKnown
  PROVE  BusyOnes(upstream) \subseteq ToSet(wans)
  BY KnownIs DEF Present, BusyOnes, Busy, NewWan

LEMMA ReportKnown ==
  ASSUME ObjectsKnown, NEW e \in Events, queue' = Append(queue, e), UNCHANGED <<wans, upstream, lan, rules, conntrack>>,
         chosen' \in [Families -> [Lans -> Wans \cup {None}]]
  PROVE  ObjectsKnown'
  <1>1. queue' \in Seq(Events) BY KnownIs
  <1>2. Present(upstream)' BY KnownIs DEF Present
  <1>3. LansRight' BY KnownIs DEF LansRight
  <1> QED BY <1>1, <1>2, <1>3, KnownIs, KnownIf

LEMMA ReportTold ==
  ASSUME ObjectsKnown, ToldRight, NEW e \in Events, ~Told(e), queue' = Append(queue, e), upstream' = upstream, conntrack' = conntrack
  PROVE  ToldRight'
  <1>1. ActiveV4(upstream) \in SUBSET Wans BY DEF ActiveV4
  <1>2. Leads(e, ActiveV4(upstream), ActiveV4(upstream)) BY DEF Leads, Told
  <1>3. Chain(queue, At, ActiveV4(upstream)) /\ At' = At BY DEF ToldRight, At
  <1>4. Chain(Append(queue, e), At, ActiveV4(upstream)) BY <1>1, <1>2, <1>3, KnownIs, AppendChain
  <1> QED BY <1>3, <1>4 DEF ToldRight

LEMMA ReportOrder ==
  ASSUME ObjectsKnown, InOrder, NEW e \in Events, ~Told(e), queue' = Append(queue, e), UNCHANGED <<wans, upstream, conntrack>>,
         RoutesRight(queue', ToSet(wans), BusyOnes(upstream), Tethered(upstream), chosen')
  PROVE  InOrder'
  <1>1. ToldRight' BY ReportTold DEF InOrder
  <1>2. Routed' BY DEF Routed
  <1> QED BY <1>1, <1>2 DEF InOrder

\* A report that adds no route keeps the invariant.
LEMMA ReportOther ==
  ASSUME WanInv, NEW e \in Events, ~Told(e), ~Added(e), Report(e),
         UNCHANGED <<wans, upstream, lan, rules, conntrack, chosen, unusual>>
  PROVE  WanInv'
  <1>1. queue' = Append(queue, e) /\ ObjectsKnown BY DEF Report, WanInv
  <1>2. ObjectsKnown' BY <1>1, KnownIs, ReportKnown
  <1>3. ASSUME Orderly PROVE InOrder'
    <2>1. InOrder /\ Routed BY <1>3 DEF WanInv, InOrder
    <2>2. queue \in Seq(Events) /\ ToSet(wans) \subseteq ToSet(wans) BY <1>1, KnownIs
    <2>3. RoutesRight(Append(queue, e), ToSet(wans), BusyOnes(upstream), Tethered(upstream), chosen)
      BY <2>1, <2>2, RoutesOther DEF Routed
    <2> QED BY <1>1, <2>1, <2>3, ReportOrder
  <1> QED BY <1>2, <1>3 DEF WanInv, Orderly

LEMMA OtherEvents ==
  /\ \A d \in Wans \cup Lans : LET e == Event("LINK_DOWN", d, None, None) IN e \in Events /\ ~Told(e) /\ ~Added(e)
  /\ \A d \in Wans \cup Lans, f \in Families : LET e == Event("ADDR_ADD", d, f, None) IN e \in Events /\ ~Told(e) /\ ~Added(e)
  /\ \A w \in Wans : LET e == Event("NEIGH_ADD", w, None, None) IN e \in Events /\ ~Told(e) /\ ~Added(e)
  /\ LET e == Event("FIREWALL_CHANGE", None, None, None) IN e \in Events /\ ~Told(e) /\ ~Added(e)
  /\ \A w \in Wans, f \in Families, l \in Lans : LET e == Event("ROUTE_ADD", w, f, l) IN e \in Events /\ ~Told(e)
  /\ \A w \in Wans, f \in Families, l \in Lans : LET e == Event("ROUTE_DEL", w, f, l) IN e \in Events /\ ~Told(e)
  BY DEF Events, Event, Told, Added

LEMMA ReportsKeep ==
  ASSUME WanInv
  PROVE  /\ \A d \in Wans \cup Lans : ReportLinkDown(d) => WanInv'
         /\ \A d \in Wans \cup Lans, f \in Families : ReportAddr(d, f) => WanInv'
         /\ \A w \in Wans : ReportRouter(w) => WanInv'
         /\ ReportFirewall => WanInv'
  <1>1. ASSUME NEW d \in Wans \cup Lans, ReportLinkDown(d) PROVE WanInv'
    <2> DEFINE e == Event("LINK_DOWN", d, None, None)
    <2>1. e \in Events /\ ~Told(e) /\ ~Added(e) BY OtherEvents
    <2>2. Report(e) /\ UNCHANGED <<wans, upstream, lan, rules, conntrack, chosen, unusual>> BY <1>1 DEF ReportLinkDown
    <2> HIDE DEF e
    <2> QED BY <2>1, <2>2, ReportOther
  <1>2. ASSUME NEW d \in Wans \cup Lans, NEW f \in Families, ReportAddr(d, f) PROVE WanInv'
    <2> DEFINE e == Event("ADDR_ADD", d, f, None)
    <2>1. e \in Events /\ ~Told(e) /\ ~Added(e) BY OtherEvents
    <2>2. Report(e) /\ UNCHANGED <<wans, upstream, lan, rules, conntrack, chosen, unusual>> BY <1>2 DEF ReportAddr
    <2> HIDE DEF e
    <2> QED BY <2>1, <2>2, ReportOther
  <1>3. ASSUME NEW w \in Wans, ReportRouter(w) PROVE WanInv'
    <2> DEFINE e == Event("NEIGH_ADD", w, None, None)
    <2>1. e \in Events /\ ~Told(e) /\ ~Added(e) BY OtherEvents
    <2>2. Report(e) /\ UNCHANGED <<wans, upstream, lan, rules, conntrack, chosen, unusual>> BY <1>3 DEF ReportRouter
    <2> HIDE DEF e
    <2> QED BY <2>1, <2>2, ReportOther
  <1>4. ASSUME ReportFirewall PROVE WanInv'
    <2> DEFINE e == Event("FIREWALL_CHANGE", None, None, None)
    <2>1. e \in Events /\ ~Told(e) /\ ~Added(e) BY OtherEvents
    <2>2. Report(e) /\ UNCHANGED <<wans, upstream, lan, rules, conntrack, chosen, unusual>> BY <1>4 DEF ReportFirewall
    <2> HIDE DEF e
    <2> QED BY <2>1, <2>2, ReportOther
  <1> QED BY <1>1, <1>2, <1>3, <1>4

LEMMA SpaceIs ==
  ASSUME ObjectsKnown
  PROVE  ToSet(wans) \in SUBSET Wans /\ BusyOnes(upstream) \in SUBSET ToSet(wans) /\ Tethered(upstream) \in SUBSET (Families \X Lans)
  <1>1. ToSet(wans) \in SUBSET Wans BY KnownIs, WansIs
  <1> QED BY <1>1, BusyPresent DEF Tethered

\* The framework changes the upstream of an interface only when the other is gone.
LEMMA ReportRouteAddKeeps ==
  ASSUME WanInv, NEW w \in Wans, NEW f \in Families, NEW l \in Lans, ReportRouteAdd(w, f, l)
  PROVE  WanInv'
  <1> DEFINE e == Event("ROUTE_ADD", w, f, l)
  <1>1. e \in Events /\ ~Told(e) BY OtherEvents
  <1>2. ObjectsKnown BY DEF WanInv
  <1>3. queue' = Append(queue, e) /\ chosen[f][l] # w /\ chosen' = [chosen EXCEPT ![f][l] = w]
    BY DEF ReportRouteAdd, Report
  <1>4. /\ unusual' = unusual \cup (IF \E g \in Families, k \in Lans : chosen[g][k] \in ToSet(wans) \ {w} THEN {"handover"} ELSE {})
        /\ UNCHANGED <<wans, upstream, lan, rules, conntrack>>
    BY DEF ReportRouteAdd
  <1> HIDE DEF e
  <1>5. chosen \in [Families -> [Lans -> Wans \cup {None}]] BY <1>2, KnownIs
  <1>6. chosen' \in [Families -> [Lans -> Wans \cup {None}]] BY <1>3, <1>5
  <1>7. ObjectsKnown' BY <1>1, <1>2, <1>3, <1>4, <1>6, ReportKnown
  <1>8. unusual \subseteq unusual' BY <1>4
  <1>9. ASSUME Orderly, Orderly' PROVE InOrder'
    <2>1. InOrder /\ Routed BY <1>9 DEF WanInv, InOrder
    <2>2. \A g \in Families, k \in Lans : chosen[g][k] \notin ToSet(wans) \ {w} BY <1>4, <1>9 DEF Orderly
    <2> DEFINE W == ToSet(wans)
               B == BusyOnes(upstream)
               T == Tethered(upstream)
    <2>3. queue \in Seq(Events) BY <1>2, KnownIs
    <2>4. W \in SUBSET Wans /\ B \in SUBSET W /\ T \in SUBSET (Families \X Lans) BY <1>2, SpaceIs
    <2>5. RoutesRight(queue, W, B, T, chosen) BY <2>1 DEF Routed
    <2>6. \A g \in Families, k \in Lans : chosen[g][k] \notin W \ {w} BY <2>2
    <2>7. chosen[f][l] # w BY <1>3
    <2> SUFFICES RoutesRight(Append(queue, e), W, B, T, chosen') BY <1>1, <1>2, <1>3, <1>4, <2>1, ReportOrder
    <2> HIDE DEF W, B, T
    <2>8. RoutesRight(Append(queue, Event("ROUTE_ADD", w, f, l)), W, B, T, [chosen EXCEPT ![f][l] = w])
      BY ONLY w \in Wans, f \in Families, l \in Lans, <1>5, <2>3, <2>4, <2>5, <2>6, <2>7, RoutesAdd
    <2> QED BY <1>3, <2>8 DEF e
  <1>10. ASSUME Orderly, "usb family" \notin unusual' PROVE UsbKept(upstream')
    BY <1>4, <1>8, <1>10 DEF WanInv
  <1> QED BY <1>7, <1>8, <1>9, <1>10, WanInvIf

\* The framework takes a route back: its deletion comes behind its addition.
LEMMA ReportRouteDelKeeps ==
  ASSUME WanInv, NEW f \in Families, NEW l \in Lans, ReportRouteDel(f, l)
  PROVE  WanInv'
  <1> DEFINE e == Event("ROUTE_DEL", chosen[f][l], f, l)
  <1>1. ObjectsKnown BY DEF WanInv
  <1>2. chosen \in [Families -> [Lans -> Wans \cup {None}]] BY <1>1, KnownIs
  <1>3. queue' = Append(queue, e) /\ chosen[f][l] # None /\ chosen' = [chosen EXCEPT ![f][l] = None]
    BY DEF ReportRouteDel, Report
  <1>4. UNCHANGED <<wans, upstream, lan, rules, conntrack, unusual>> BY DEF ReportRouteDel
  <1>5. chosen[f][l] \in Wans BY <1>2, <1>3
  <1>6. e \in Events /\ ~Told(e) BY <1>5, OtherEvents
  <1> HIDE DEF e
  <1>7. chosen' \in [Families -> [Lans -> Wans \cup {None}]] BY <1>2, <1>3
  <1>8. ObjectsKnown' BY <1>1, <1>3, <1>4, <1>6, <1>7, ReportKnown
  <1>9. ASSUME Orderly, Orderly' PROVE InOrder'
    <2>1. InOrder /\ Routed BY <1>9 DEF WanInv, InOrder
    <2> DEFINE W == ToSet(wans)
               B == BusyOnes(upstream)
               T == Tethered(upstream)
    <2>3. queue \in Seq(Events) BY <1>1, KnownIs
    <2>4. W \in SUBSET Wans /\ B \in SUBSET W /\ T \in SUBSET (Families \X Lans) BY <1>1, SpaceIs
    <2>5. RoutesRight(queue, W, B, T, chosen) BY <2>1 DEF Routed
    <2>7. chosen[f][l] # None BY <1>3
    <2> SUFFICES RoutesRight(Append(queue, e), W, B, T, chosen') BY <1>1, <1>3, <1>4, <1>6, <2>1, ReportOrder
    <2> HIDE DEF W, B, T
    <2>8. RoutesRight(Append(queue, Event("ROUTE_DEL", chosen[f][l], f, l)), W, B, T, [chosen EXCEPT ![f][l] = None])
      BY ONLY f \in Families, l \in Lans, <1>2, <2>3, <2>4, <2>5, <2>7, RoutesDel
    <2> QED BY <1>3, <2>8 DEF e
  <1>10. ASSUME Orderly, "usb family" \notin unusual' PROVE UsbKept(upstream')
    BY <1>4, <1>10 DEF WanInv
  <1> QED BY <1>4, <1>8, <1>9, <1>10, WanInvIf

LEMMA RoutesNone ==
  ASSUME NEW q, q = <<>>, NEW W, NEW W1, NEW B, NEW T, NEW c, RoutesRight(q, W, B, T, c)
  PROVE  RoutesRight(q, W1, B, T, c)
  <1>1. 1..Len(q) = {} OBVIOUS
  <1> QED BY <1>1 DEF RoutesRight

\* A new object changes nothing that is in use.
LEMMA CreatedKeeps ==
  ASSUME WanInv
  PROVE  /\ \A w \in Wans : WanCreated(w) => WanInv'
         /\ \A l \in Lans : LanCreated(l) => WanInv'
  <1> ObjectsKnown BY DEF WanInv
  <1>1. ASSUME NEW w \in Wans, WanCreated(w) PROVE WanInv'
    <2>1. /\ w \notin ToSet(wans) /\ queue = <<>> /\ wans' = Append(wans, w)
          /\ UNCHANGED <<queue, upstream, lan, rules, conntrack, chosen, unusual>>
      BY <1>1 DEF WanCreated
    <2>2. wans' \in Seq(Wans) /\ ToSet(wans') = ToSet(wans) \cup {w} /\ Distinct(wans') BY <2>1, KnownIs, AppendIs
    <2>3. Present(upstream)' BY <2>1, <2>2, KnownIs DEF Present
    <2>4. LansRight' BY <2>1, KnownIs DEF LansRight
    <2>5. ObjectsKnown' BY <2>1, <2>2, <2>3, <2>4, KnownIs, KnownIf
    <2>6. ASSUME Orderly PROVE InOrder'
      <3>1. InOrder BY <2>6 DEF WanInv
      <3>2. RoutesRight(queue, ToSet(wans), BusyOnes(upstream), Tethered(upstream), chosen) BY <3>1 DEF InOrder, Routed
      <3>3. RoutesRight(queue, ToSet(wans'), BusyOnes(upstream), Tethered(upstream), chosen) BY <2>1, <3>2, RoutesNone
      <3>4. Routed' BY <2>1, <3>3 DEF Routed
      <3>5. ToldRight' BY <2>1, <3>1 DEF InOrder, ToldRight, At
      <3> QED BY <2>1, <3>1, <3>4, <3>5 DEF InOrder
    <2> QED BY <2>1, <2>5, <2>6 DEF WanInv, Orderly
  <1>2. ASSUME NEW l \in Lans, LanCreated(l) PROVE WanInv'
    <2>1. /\ lan' = [lan EXCEPT ![l].up = TRUE]
          /\ UNCHANGED <<queue, wans, upstream, rules, conntrack, chosen, unusual>>
      BY <1>2 DEF LanCreated
    <2>2. lan \in [Lans -> LanObjects] /\ LansRight BY KnownIs
    <2>3. /\ lan' \in [Lans -> LanObjects]
          /\ \A k \in Lans : lan'[k].ip = lan[k].ip /\ lan'[k].addrs = lan[k].addrs /\ (lan[k].up => lan'[k].up)
      <3>1. lan[l] \in LanObjects BY <2>2
      <3> DEFINE o == [lan[l] EXCEPT !.up = TRUE]
      <3>2. lan' = [lan EXCEPT ![l] = o] BY <2>1, <2>2
      <3>3. o \in LanObjects /\ o.ip = lan[l].ip /\ o.addrs = lan[l].addrs /\ o.up BY <3>1 DEF LanObjects
      <3> HIDE DEF o
      <3> QED BY <2>2, <3>2, <3>3
    <2>4. LansRight' BY <2>1, <2>2, <2>3 DEF LansRight
    <2>5. Present(upstream)' BY <2>1, KnownIs DEF Present
    <2>6. ObjectsKnown' BY <2>1, <2>3, <2>4, <2>5, KnownIs, KnownIf
    <2>7. InOrder => InOrder' BY <2>1 DEF InOrder, Routed, ToldRight, At
    <2> QED BY <2>1, <2>6, <2>7 DEF WanInv, Orderly
  <1> QED BY <1>1, <1>2
-----------------------------------------------------------------------------
(* The handlers of the upstreams                                           *)

\* The upstreams and the tethered interfaces get fewer at most.
LEMMA FewerKeeps ==
  ASSUME WanInv, ObjectsKnown', queue # <<>>, ~Told(Head(queue)), Head(queue).event # "ROUTE_DEL", NEW s \in Upstreams, Take(s),
         ToSet(wans') \subseteq ToSet(wans), conntrack' = conntrack, chosen' = chosen, unusual \subseteq unusual',
         \A a : Orderly' /\ Ordered(upstream, a) =>
           Ordered(s, a) /\ BusyOnes(s) \subseteq BusyOnes(upstream) /\ Tethered(s) \subseteq Tethered(upstream),
         \A a : Orderly' /\ Ordered(upstream, a) /\ UsbKept(upstream) => UsbKept(s)
  PROVE  WanInv'
  <1> DEFINE a == ActiveV4(upstream)
  <1>1. ObjectsKnown BY DEF WanInv
  <1>2. ASSUME Orderly PROVE Ordered(upstream, a) /\ InOrder
    <2>1. InOrder BY <1>2 DEF WanInv
    <2> QED BY <1>1, <2>1, KnownIs, StartOrdered DEF InOrder
  <1>3. ASSUME Orderly, Orderly' PROVE InOrder' /\ (UsbKept(s) => UsbKept(upstream'))
    <2>1. Ordered(upstream, a) /\ InOrder BY <1>2, <1>3
    <2>2. Ordered(s, a) /\ BusyOnes(s) \subseteq BusyOnes(upstream) /\ Tethered(s) \subseteq Tethered(upstream) BY <1>3, <2>1
    <2>3. Own(s.posted) BY <2>2 DEF Ordered, Says
    <2> DEFINE W == ToSet(wans')
    <2>4. W \in SUBSET ToSet(wans) OBVIOUS
    <2>5. Routed BY <2>1 DEF InOrder
    <2>6. RoutesRight(Handled(queue, s.posted), W, BusyOnes(s), Tethered(s), chosen)
      BY <1>1, <2>2, <2>3, <2>4, <2>5, RoutesThen
    <2>7. W = ToSet(wans') OBVIOUS
    <2>8. RoutesRight(Handled(queue, s.posted), ToSet(wans'), BusyOnes(s), Tethered(s), chosen') BY <2>6, <2>7
    <2>9. Ordered(s, ActiveV4(upstream)) BY <2>2
    <2> QED BY ONLY <1>1, <2>1, <2>8, <2>9, queue # <<>>, ~Told(Head(queue)), s \in Upstreams, Take(s), conntrack' = conntrack, OrderThen
  <1>4. ASSUME Orderly, Orderly', "usb family" \notin unusual' PROVE UsbKept(upstream')
    <2>1. UsbKept(upstream) BY <1>4 DEF WanInv
    <2>2. UsbKept(s) BY <1>2, <1>4, <2>1
    <2> QED BY <1>3, <1>4, <2>2
  <1> QED BY <1>3, <1>4, WanInvIf

\* Interfaces are tethered exactly while an upstream is in use.
LEMMA ListedBusy ==
  ASSUME NEW s \in Upstreams, Listed(s)
  PROVE  /\ BusyOnes(s) = {} <=> Tethered(s) = {}
         /\ \A f \in Families, l \in Lans : <<f, l>> \in Tethered(s) => \E w \in Wans : f \in s.wan[w].active \cup s.wan[w].partial
  <1>1. \A f \in Families : s.tether[f] \in Seq(Lans) BY DEF Upstreams
  <1>2. ASSUME NEW f \in Families, s.tether[f] # <<>> PROVE \E l \in Lans : <<f, l>> \in Tethered(s)
    <2> DEFINE q == s.tether[f]
    <2>1. q \in Seq(Lans) /\ q # <<>> BY <1>1, <1>2
    <2> HIDE DEF q
    <2>2. q[1] \in Lans /\ 1 \in 1..Len(q) BY <2>1
    <2>3. q[1] \in ToSet(q) BY <2>2 DEF ToSet
    <2> QED BY <2>2, <2>3 DEF Tethered, q
  <1>3. ASSUME NEW f \in Families, NEW l \in Lans, <<f, l>> \in Tethered(s) PROVE s.tether[f] # <<>>
    <2>1. l \in ToSet(s.tether[f]) BY <1>3 DEF Tethered
    <2> QED BY <2>1 DEF ToSet
  <1>4. \A f \in Families : s.tether[f] # <<>> <=> \E w \in Wans : f \in s.wan[w].active \cup s.wan[w].partial BY DEF Listed
  <1>5. \A w \in Wans : s.wan[w].active \cup s.wan[w].partial \subseteq Families BY DEF Upstreams, WanObjects
  <1>6. \A p \in Tethered(s) : p \in Families \X Lans BY DEF Tethered
  <1>7. ASSUME NEW w \in BusyOnes(s) PROVE Tethered(s) # {}
    <2>1. w \in Wans /\ s.wan[w].active \cup s.wan[w].partial # {} BY DEF BusyOnes, Busy
    <2>2. PICK f \in Families : f \in s.wan[w].active \cup s.wan[w].partial BY <2>1, <1>5
    <2> QED BY <2>1, <2>2, <1>4, <1>2
  <1>8. ASSUME NEW p \in Tethered(s) PROVE BusyOnes(s) # {}
    <2>1. PICK f \in Families, l \in Lans : p = <<f, l>> BY <1>6
    <2>2. s.tether[f] # <<>> BY <2>1, <1>3
    <2> QED BY <2>2, <1>4 DEF BusyOnes, Busy
  <1> QED BY <1>3, <1>4, <1>7, <1>8

\* A route is added only when the upstream before has been given up.
LEMMA HandleRouteAddKeeps ==
  ASSUME WanInv, HandleRouteAdd
  PROVE  WanInv'
  <1> DEFINE e == Head(queue)
             s == AddTurns(upstream, e)
             B == BusyOnes(upstream)
             T == Tethered(upstream)
             D == ToSet(wans)
  <1>1. ObjectsKnown BY DEF WanInv
  <1>2. /\ queue # <<>> /\ e.event = "ROUTE_ADD" /\ unusual \subseteq unusual' /\ "usb family" \notin unusual' => "usb family" \notin unusual
        /\ UNCHANGED <<wans, lan, rules, conntrack, chosen>>
    BY DEF HandleRouteAdd, Is
  <1>3. queue # <<>> /\ e.event = "ROUTE_ADD" /\ unusual \subseteq unusual' /\ UNCHANGED <<wans, lan, rules, conntrack, chosen>>
    BY DEF HandleRouteAdd, Is
  <1>4. Take(s) BY AddTurnsIs
  <1>5. queue \in Seq(Events) /\ e \in Events BY <1>1, <1>3, KnownIs, TailIs
  <1>6. e = Event("ROUTE_ADD", e.dev, e.family, e.lan) /\ e.dev \in Wans /\ e.family \in Families /\ e.lan \in Lans
    BY <1>3, <1>5, EventIs
  <1>7. upstream \in Ok /\ WanTypeOK /\ Stas \subseteq Wans BY <1>1, StartOk, KnownIs, WanAssumption
  <1> HIDE DEF e
  <1>8. s \in Ok
    <2>1. PICK h \in [0..Len(wans) -> Ok] :
           h[0] = upstream /\ h[Len(wans)] = s /\ \A i \in 1..Len(wans) : h[i] = OnRouteAdd(h[i - 1], wans[i], e)
      BY <1>3, <1>5, <1>7, RouteAddTurns
    <2>2. Len(wans) \in Nat BY <1>7, WansIs
    <2> QED BY <2>1, <2>2
  <1> HIDE DEF s
  <1>9. s \in Upstreams BY <1>8 DEF Ok
  <1>10. ObjectsKnown' BY <1>1, <1>3, <1>4, <1>8, KnownThen
  <1>11. ~Told(Head(queue)) /\ Head(queue).event # "ROUTE_DEL" BY <1>3 DEF e, Told
  <1>12. ASSUME Orderly, Orderly' PROVE InOrder' /\ (UsbKept(s) => UsbKept(upstream')) /\ (UsbKept(upstream) => UsbKept(s))
    <2>1. InOrder /\ Single(upstream) /\ Listed(upstream) /\ Routed BY <1>12 DEF WanInv, InOrder
    <2>2. Ordered(upstream, ActiveV4(upstream)) BY <1>1, <2>1, KnownIs, StartOrdered
    <2>3. B = {} <=> T = {} BY <1>1, <2>1, KnownIs, ListedBusy
    <2>4. RoutesRight(queue, D, B, T, chosen) BY <2>1 DEF Routed
    <2>5. T # {} => B \subseteq {e.dev} /\ (B # {} => <<e.family, e.lan>> \notin T)
      <3> HIDE DEF B, T, D
      <3>1. Head(queue) = Event("ROUTE_ADD", e.dev, e.family, e.lan) BY <1>6 DEF e
      <3>2. queue \in Seq(Events) BY <1>5
      <3>a. queue # <<>> BY <1>3
      <3>3. SUFFICES ASSUME T # {} PROVE B \subseteq {e.dev} /\ (B # {} => <<e.family, e.lan>> \notin T) OBVIOUS
      <3> DEFINE d == e.dev
                 f == e.family
                 l == e.lan
      <3>4. Head(queue) = Event("ROUTE_ADD", d, f, l) BY <3>1
      <3>5. RoutesRight(queue, D, B, T, chosen) BY <2>4
      <3> SUFFICES B \subseteq {d} /\ (B # {} => <<f, l>> \notin T) OBVIOUS
      <3> HIDE DEF d, f, l
      <3> QED BY ONLY <3>2, <3>a, <3>3, <3>4, <3>5, RouteHead, Zenon
    <2>6. BusyOnes(upstream) \subseteq {e.dev} /\ <<e.family, e.lan>> \notin Tethered(upstream) BY <2>3, <2>5
    <2>7. s = AddTurns(upstream, e) BY DEF s
    <2>8. \/ s = upstream
          \/ /\ e.dev \in ToSet(wans) /\ Ordered(s, ActiveV4(upstream)) /\ BusyOnes(s) = {e.dev}
             /\ Tethered(s) = Tethered(upstream) \cup {<<e.family, e.lan>>} /\ (UsbKept(upstream) => UsbKept(s))
      BY <1>3, <1>5, <1>7, <2>2, <2>6, <2>7, RouteAddInOrder
    <2>9. Ordered(s, ActiveV4(upstream)) /\ (UsbKept(upstream) => UsbKept(s)) BY <2>2, <2>8
    <2>10. Own(s.posted) /\ s.posted \in Seq(Events) BY <1>9, <2>9 DEF Ordered, Says, Upstreams
    <2>11. RoutesRight(Handled(queue, s.posted), D, BusyOnes(s), Tethered(s), chosen)
      <3>1. CASE s = upstream
        <4>1. BusyOnes(s) \subseteq BusyOnes(upstream) /\ Tethered(s) \subseteq Tethered(upstream) BY <3>1
        <4>2. D \in SUBSET ToSet(wans) OBVIOUS
        <4> QED BY <1>1, <1>3, <1>9, <1>11, <2>1, <2>10, <4>1, <4>2, RoutesThen
      <3>2. CASE s # upstream
        <4>1. e.dev \in D /\ BusyOnes(s) = {e.dev} /\ Tethered(s) = T \cup {<<e.family, e.lan>>} BY <2>8, <3>2
        <4>2. B \subseteq {e.dev} /\ (B = {} => T = {}) BY <2>3, <2>6
        <4>3. Head(queue) = Event("ROUTE_ADD", e.dev, e.family, e.lan) BY <1>6 DEF e
        <4>4. \A i \in 1..Len(s.posted) : ~Added(s.posted[i]) BY <2>10 DEF Own
        <4> DEFINE P == s.posted
        <4>5. P \in Seq(Events) /\ \A i \in 1..Len(P) : ~Added(P[i]) BY <2>10, <4>4
        <4> SUFFICES RoutesRight(Handled(queue, P), D, {e.dev}, T \cup {<<e.family, e.lan>>}, chosen) BY <4>1
        <4> HIDE DEF B, T, D, P
        <4> QED BY ONLY <1>3, <1>5, <2>4, <4>1, <4>2, <4>3, <4>5, RoutesServed
      <3> QED BY <3>1, <3>2
    <2>12. RoutesRight(Handled(queue, s.posted), ToSet(wans'), BusyOnes(s), Tethered(s), chosen') BY <1>3, <2>11
    <2>13. conntrack' = conntrack /\ queue # <<>> BY <1>3
    <2>14. InOrder' /\ (UsbKept(s) => UsbKept(upstream'))
      BY ONLY <1>1, <1>4, <1>9, <1>11, <2>1, <2>9, <2>12, <2>13, OrderThen
    <2> QED BY <2>9, <2>14
  <1>13. ASSUME Orderly, Orderly', "usb family" \notin unusual' PROVE UsbKept(upstream')
    BY <1>3, <1>12, <1>13 DEF WanInv
  <1> QED BY <1>3, <1>10, <1>12, <1>13, WanInvIf

\* The last route of a family takes its upstream with it.
LEMMA HandleRouteDelKeeps ==
  ASSUME WanInv, HandleRouteDel
  PROVE  WanInv'
  <1> DEFINE e == Head(queue)
             s == DelTurns(upstream, e)
             o == upstream.wan[e.dev]
             B == BusyOnes(upstream)
             T == Tethered(upstream)
             D == ToSet(wans)
  <1>1. ObjectsKnown BY DEF WanInv
  <1>2. queue # <<>> /\ e.event = "ROUTE_DEL" /\ UNCHANGED <<wans, lan, rules, conntrack, chosen>>
    BY DEF HandleRouteDel, Is
  <1>3. unusual' = unusual \cup (IF e.family \in o.partial THEN {"header awaited"} ELSE {})
                   \cup (IF Sta(e.dev) /\ upstream'.wan[e.dev].active \notin {o.active, {}} THEN {"usb family"} ELSE {})
    BY DEF HandleRouteDel
  <1>4. Take(s) BY HandlersTurn
  <1>5. queue \in Seq(Events) /\ e \in Events BY <1>1, <1>2, KnownIs, TailIs
  <1>6. e = Event("ROUTE_DEL", e.dev, e.family, e.lan) /\ e.dev \in Wans /\ e.family \in Families /\ e.lan \in Lans
    BY <1>2, <1>5, EventIs
  <1>7. upstream \in Ok /\ WanTypeOK /\ Stas \subseteq Wans /\ Present(upstream) BY <1>1, StartOk, KnownIs, WanAssumption
  <1>8. unusual \subseteq unusual' BY <1>3
  <1> HIDE DEF e
  <1>9. s \in Ok
    <2>1. PICK h \in [0..Len(wans) -> Ok] :
           h[0] = upstream /\ h[Len(wans)] = s /\ \A i \in 1..Len(wans) : h[i] = OnRouteDel(h[i - 1], wans[i], e)
      BY <1>2, <1>5, <1>7, RouteDelTurns
    <2>2. Len(wans) \in Nat BY <1>7, WansIs
    <2> QED BY <2>1, <2>2
  <1>10. s = OnRouteDel(upstream, e.dev, e) BY <1>2, <1>5, <1>7, RouteDelInOrder
  <1> HIDE DEF s
  <1>11. s \in Upstreams BY <1>9 DEF Ok
  <1>12. ObjectsKnown' BY <1>1, <1>2, <1>4, <1>9, KnownThen
  <1>13. ~Told(Head(queue)) BY <1>2 DEF e, Told
  <1>14. upstream'.wan = s.wan
    BY <1>2, <1>4, <1>5, <1>11, TakeIs, TakeSame
  <1>15. ASSUME Orderly, Orderly'
         PROVE  InOrder' /\ (UsbKept(s) => UsbKept(upstream')) /\ ("usb family" \notin unusual' /\ UsbKept(upstream) => UsbKept(s))
    <2>1. InOrder /\ Single(upstream) /\ Listed(upstream) /\ Routed BY <1>15 DEF WanInv, InOrder
    <2>2. Ordered(upstream, ActiveV4(upstream)) BY <1>1, <2>1, KnownIs, StartOrdered
    <2>3. e.family \notin o.partial BY <1>3, <1>15 DEF Orderly
    <2>4. RoutesRight(queue, D, B, T, chosen) BY <2>1 DEF Routed
    <2>5. /\ Ordered(s, ActiveV4(upstream)) /\ BusyOnes(s) \subseteq B /\ Tethered(s) \subseteq T
          /\ e.family \in o.active => <<e.family, e.lan>> \notin Tethered(s)
          /\ "usb family" \notin unusual' /\ UsbKept(upstream) => UsbKept(s)
      <3>1. CASE e.family \notin o.active
        <4>1. s = upstream BY <3>1, <1>10 DEF OnRouteDel
        <4> QED BY <4>1, <3>1, <2>2
      <3>2. CASE e.family \in o.active
        <4>1. /\ Ordered(s, ActiveV4(upstream)) /\ BusyOnes(s) \subseteq BusyOnes(upstream)
              /\ Tethered(s) = Tethered(upstream) \ {<<e.family, e.lan>>}
              /\ UsbKept(upstream) /\ (e.dev \in Stas => s.wan[e.dev].active \in {upstream.wan[e.dev].active, {}}) => UsbKept(s)
          BY <1>2, <1>5, <1>6, <1>7, <1>10, <2>2, <3>2, OnRouteDelOrdered
        <4>2. "usb family" \notin unusual' => (e.dev \in Stas => s.wan[e.dev].active \in {o.active, {}})
          BY <1>3, <1>14 DEF Sta
        <4> QED BY <4>1, <4>2
      <3> QED BY <3>1, <3>2
    <2>6. Own(s.posted) /\ s.posted \in Seq(Events) BY <1>11, <2>5 DEF Ordered, Says, Upstreams
    <2>7. ASSUME NEW w \in BusyOnes(s), NEW t \in Tethered(s), Head(queue) = Deleted(w, t[1], t[2]) PROVE FALSE
      <3>1. w = e.dev /\ t[1] = e.family /\ t[2] = e.lan BY <2>7 DEF e, Deleted, Event
      <3>2. t \in Families \X Lans BY DEF Tethered
      <3>3. t = <<e.family, e.lan>> BY <3>1, <3>2
      <3>4. e.family \notin o.active BY <2>5, <3>3
      <3>5. <<e.family, e.lan>> \in Tethered(upstream) /\ e.dev \in BusyOnes(upstream) BY <2>5, <3>1, <3>3
      <3>6. PICK v \in Wans : e.family \in upstream.wan[v].active \cup upstream.wan[v].partial
        BY <1>1, <1>6, <2>1, <3>5, KnownIs, ListedBusy
      <3>7. Busy(upstream, v) /\ Busy(upstream, e.dev) BY <3>5, <3>6 DEF BusyOnes, Busy
      <3>8. v = e.dev BY <1>6, <2>1, <3>7 DEF Single
      <3> QED BY <2>3, <3>4, <3>6, <3>8
    <2>8. RoutesRight(Handled(queue, s.posted), D, BusyOnes(s), Tethered(s), chosen)
      <3> DEFINE P == s.posted
                 B1 == BusyOnes(s)
                 T1 == Tethered(s)
      <3>1. P \in Seq(Events) /\ \A i \in 1..Len(P) : ~Added(P[i]) BY <2>6 DEF Own
      <3>2. B1 \in SUBSET B /\ T1 \in SUBSET T /\ D \in SUBSET D BY <2>5
      <3>3. \A w \in B1, t \in T1 : Head(queue) # Deleted(w, t[1], t[2]) BY <2>7
      <3> SUFFICES RoutesRight(Handled(queue, P), D, B1, T1, chosen) OBVIOUS
      <3> HIDE DEF B, T, D, P, B1, T1
      <3> QED BY ONLY <1>2, <1>5, <2>4, <3>1, <3>2, <3>3, RoutesHandled
    <2>9. RoutesRight(Handled(queue, s.posted), ToSet(wans'), BusyOnes(s), Tethered(s), chosen') BY <1>2, <2>8
    <2>10. conntrack' = conntrack /\ queue # <<>> BY <1>2
    <2>11. InOrder' /\ (UsbKept(s) => UsbKept(upstream'))
      BY ONLY <1>1, <1>4, <1>11, <1>13, <2>1, <2>5, <2>9, <2>10, OrderThen
    <2> QED BY <2>5, <2>11
  <1>16. ASSUME Orderly, Orderly', "usb family" \notin unusual' PROVE UsbKept(upstream')
    BY <1>8, <1>15, <1>16 DEF WanInv
  <1> QED BY <1>8, <1>12, <1>15, <1>16, WanInvIf

\* The families that waited for the header are served.
LEMMA HandleNeighAddKeeps ==
  ASSUME WanInv, HandleNeighAdd
  PROVE  WanInv'
  <1> DEFINE w == Head(queue).dev
             s == IF w \in ToSet(wans) THEN OnHeader(upstream, w) ELSE upstream
  <1>1. ObjectsKnown BY DEF WanInv
  <1>2. queue # <<>> /\ Head(queue).event = "NEIGH_ADD" /\ Take(s) /\ UNCHANGED <<wans, lan, rules, conntrack, chosen, unusual>>
    BY DEF HandleNeighAdd, Is
  <1>3. Head(queue) \in Events BY <1>1, <1>2, KnownIs, TailIs
  <1>4. w \in Wans /\ upstream \in Ok /\ Stas \subseteq Wans BY <1>1, <1>2, <1>3, EventIs, StartOk, WanAssumption
  <1>5. ~Told(Head(queue)) /\ Head(queue).event # "ROUTE_DEL" BY <1>2 DEF Told
  <1>6. /\ s \in Ok
        /\ \A a : Ordered(upstream, a) =>
             Ordered(s, a) /\ BusyOnes(s) \subseteq BusyOnes(upstream) /\ Tethered(s) \subseteq Tethered(upstream)
        /\ \A a : Ordered(upstream, a) /\ UsbKept(upstream) => UsbKept(s)
    <2>1. CASE w \in ToSet(wans)
      <3>1. s = OnHeader(upstream, w) BY <2>1
      <3> HIDE DEF s, w
      <3> QED BY <3>1, <2>1, <1>4, OnHeaderIs
    <2>2. CASE w \notin ToSet(wans)
      <3>1. s = upstream BY <2>2
      <3> HIDE DEF s, w
      <3> QED BY <3>1, <1>4
    <2> QED BY <2>1, <2>2
  <1> HIDE DEF s, w
  <1>7. s \in Upstreams BY <1>6 DEF Ok
  <1>8. ObjectsKnown' BY <1>1, <1>2, <1>6, KnownThen
  <1> QED BY <1>2, <1>5, <1>6, <1>7, <1>8, FewerKeeps

LEMMA HandleFirewallChangeKeeps ==
  ASSUME WanInv, HandleFirewallChange
  PROVE  WanInv'
  <1> DEFINE s == FirewallTurns(upstream)
  <1>1. ObjectsKnown BY DEF WanInv
  <1>2. queue # <<>> /\ Head(queue).event = "FIREWALL_CHANGE" /\ UNCHANGED <<wans, lan, rules, conntrack, chosen, unusual>>
    BY DEF HandleFirewallChange, Is
  <1>3. Take(s) BY HandlersTurn
  <1>4. upstream \in Ok /\ Stas \subseteq Wans /\ WanTypeOK BY <1>1, StartOk, KnownIs, WanAssumption
  <1>5. ~Told(Head(queue)) /\ Head(queue).event # "ROUTE_DEL" BY <1>2 DEF Told
  <1>6. /\ s \in Ok /\ BusyOnes(s) = BusyOnes(upstream) /\ Tethered(s) = Tethered(upstream) /\ (UsbKept(upstream) => UsbKept(s))
        /\ \A a : Ordered(upstream, a) => Ordered(s, a)
    BY <1>4, FirewallInOrder
  <1> HIDE DEF s
  <1>7. s \in Upstreams BY <1>6 DEF Ok
  <1>8. ObjectsKnown' BY <1>1, <1>2, <1>3, <1>6, KnownThen
  <1> QED BY <1>2, <1>3, <1>5, <1>6, <1>7, <1>8, FewerKeeps
-----------------------------------------------------------------------------
(* The handlers of the tethered interfaces                                 *)

NewOutside(s, q) == \A w \in Wans \ ToSet(q) : s.wan[w] = NewWan

\* Only one tethered interface changes, and what it depends on goes with its addresses.
LEMMA LanThen ==
  ASSUME ObjectsKnown, queue # <<>>, NEW s \in Upstreams, Sound(s), NewOutside(s, wans'), Take(s), wans' \in Seq(Wans), Distinct(wans'),
         NEW d \in Lans, NEW o \in LanObjects, lan' = [lan EXCEPT ![d] = o], rules' \in FilterRules, conntrack' = conntrack, chosen' = chosen,
         o.ip # {} => o.up, "v6" \notin o.ip => o.addrs = 0,
         s.producer_up = IF o.ip # {} THEN upstream.producer_up \cup {d} ELSE upstream.producer_up \ {d}
  PROVE  ObjectsKnown'
  <1>1. queue \in Seq(Events) /\ lan \in [Lans -> LanObjects] /\ LansRight BY KnownIs
  <1>2. upstream' \in Upstreams /\ upstream'.posted = <<>> /\ Keeps(upstream', s, {"posted"}) /\ queue' \in Seq(Events)
    BY <1>1, TakeIs
  <1>3. Sound(upstream') /\ upstream'.wan = s.wan /\ upstream'.producer_up = s.producer_up BY <1>2, TakeSame
  <1>4. Present(upstream)' BY <1>3 DEF Present, NewOutside
  <1>5. lan' \in [Lans -> LanObjects] /\ lan'[d] = o /\ \A l \in Lans \ {d} : lan'[l] = lan[l] BY <1>1
  <1>6. LansRight' BY <1>1, <1>3, <1>5 DEF LansRight
  <1> QED BY <1>2, <1>3, <1>4, <1>5, <1>6, KnownIs, KnownIf

LEMMA PresentStays ==
  ASSUME ObjectsKnown, wans' = wans, NEW s, s.wan = upstream.wan
  PROVE  NewOutside(s, wans')
  BY KnownIs DEF Present, NewOutside

LanMore(s, r, f) ==
  /\ s \in LanStates /\ s.o.up = r.o.up /\ s.o.ip = r.o.ip \cup {f}
  /\ "v6" \notin s.o.ip => s.o.addrs = 0

LEMMA LanAddrAddMore ==
  ASSUME NEW r \in LanStates, NEW l \in Lans, NEW f \in Families, None \notin Lans, MaxRules \in Nat, MaxV6Addrs \in Nat, MaxV6Addrs > 0,
         Rooms(r.rules, 4), upstream \in Upstreams, f \notin r.o.ip \/ (f = "v6" /\ r.o.addrs < MaxV6Addrs),
         "v6" \notin r.o.ip => r.o.addrs = 0
  PROVE  LanMore(LanAddrAdd(r, l, f), r, f)
  BY LanAddrAddIs DEF LanMore

\* An address of an upstream.
LEMMA WanAddrAddKeeps ==
  ASSUME WanInv, queue # <<>>, Head(queue).event = "ADDR_ADD", Head(queue).dev \in Wans,
         Take(IF Head(queue).dev \in ToSet(wans) THEN WanAddrAdd(upstream, Head(queue).dev, Head(queue).family) ELSE upstream),
         UNCHANGED <<wans, lan, rules, conntrack, chosen, unusual>>
  PROVE  WanInv'
  <1> DEFINE w == Head(queue).dev
             f == Head(queue).family
             s == IF w \in ToSet(wans) THEN WanAddrAdd(upstream, w, f) ELSE upstream
  <1>1. ObjectsKnown BY DEF WanInv
  <1>2. wans' = wans /\ lan' = lan /\ rules' = rules /\ conntrack' = conntrack /\ chosen' = chosen /\ unusual \subseteq unusual' OBVIOUS
  <1>3. Head(queue) \in Events BY <1>1, KnownIs, TailIs
  <1>4. f \in Families BY <1>3, EventIs
  <1>5. upstream \in Ok /\ Stas \subseteq Wans /\ IsFiniteSet(Wans) /\ MaxV6Addrs \in Nat /\ MaxV6Addrs > 0
    BY <1>1, StartOk, WanAssumption
  <1>6. ~Told(Head(queue)) /\ Head(queue).event # "ROUTE_DEL" BY DEF Told
  <1>7. w \in Wans /\ Take(s) OBVIOUS
  <1>8. /\ s \in Ok /\ BusyOnes(s) = BusyOnes(upstream) /\ Tethered(s) = Tethered(upstream) /\ (UsbKept(upstream) => UsbKept(s))
        /\ \A a : Ordered(upstream, a) => Ordered(s, a)
    <2>1. CASE w \in ToSet(wans)
      <3>1. s = WanAddrAdd(upstream, w, f) BY <2>1
      <3> HIDE DEF s, w, f
      <3> QED BY <3>1, <2>1, <1>4, <1>5, <1>7, WanAddrAddIs
    <2>2. CASE w \notin ToSet(wans)
      <3>1. s = upstream BY <2>2
      <3> HIDE DEF s, w
      <3> QED BY <3>1, <1>5
    <2> QED BY <2>1, <2>2
  <1> HIDE DEF s, w, f
  <1>9. s \in Upstreams BY <1>8 DEF Ok
  <1>10. ObjectsKnown' BY <1>1, <1>2, <1>7, <1>8, KnownThen
  <1> QED BY <1>2, <1>6, <1>7, <1>8, <1>9, <1>10, FewerKeeps

LEMMA StartLan ==
  ASSUME ObjectsKnown, NEW d \in Lans
  PROVE  [o |-> lan[d], rules |-> rules, ok |-> TRUE] \in LanStates
  BY KnownIs DEF LanStates

\* An address of a tethered interface.
LEMMA LanAddrAddKeeps ==
  ASSUME WanInv, queue # <<>>, Head(queue).event = "ADDR_ADD", NEW d \in Lans, d = Head(queue).dev, NEW f, f = Head(queue).family, Room,
         lan[d].up, f \notin lan[d].ip \/ (f = "v6" /\ lan[d].addrs < MaxV6Addrs),
         NEW r, r = LanAddrAdd([o |-> lan[d], rules |-> rules, ok |-> TRUE], d, f),
         lan' = [lan EXCEPT ![d] = r.o], rules' = r.rules,
         Take(IF f \in lan[d].ip THEN upstream ELSE AddRmDependProducer(upstream, d)),
         unusual \subseteq unusual', "usb family" \in unusual' => "usb family" \in unusual, UNCHANGED <<wans, conntrack, chosen>>
  PROVE  WanInv'
  <1> DEFINE s == IF f \in lan[d].ip THEN upstream ELSE AddRmDependProducer(upstream, d)
             b == [o |-> lan[d], rules |-> rules, ok |-> TRUE]
  <1>1. ObjectsKnown BY DEF WanInv
  <1>2. wans' = wans /\ conntrack' = conntrack /\ chosen' = chosen /\ Take(s) OBVIOUS
  <1>3. Head(queue) \in Events BY <1>1, KnownIs, TailIs
  <1>4. f \in Families BY <1>3, EventIs
  <1>5. /\ upstream \in Ok /\ Stas \subseteq Wans /\ MaxV6Addrs \in Nat /\ MaxV6Addrs > 0 /\ MaxRules \in Nat /\ None \notin Lans
        /\ upstream \in Upstreams /\ Sound(upstream) /\ LansRight
    BY <1>1, StartOk, KnownIs, WanAssumption
  <1>6. ~Told(Head(queue)) /\ Head(queue).event # "ROUTE_DEL" BY DEF Told
  <1>7. b \in LanStates BY <1>1, StartLan
  <1>8. b.o = lan[d] /\ b.rules = rules /\ r = LanAddrAdd(b, d, f) OBVIOUS
  <1> HIDE DEF b
  <1>9. /\ r \in LanStates /\ r.o.up = lan[d].up /\ r.o.ip = lan[d].ip \cup {f}
        /\ "v6" \notin r.o.ip => r.o.addrs = 0
    <2>1. Rooms(b.rules, 4) BY <1>8 DEF Room, Rooms, FreeHdls
    <2>2. f \notin b.o.ip \/ (f = "v6" /\ b.o.addrs < MaxV6Addrs) BY <1>8
    <2>3. "v6" \notin b.o.ip => b.o.addrs = 0 BY <1>5, <1>8 DEF LansRight
    <2>4. LanMore(LanAddrAdd(b, d, f), b, f) BY <1>4, <1>5, <1>7, <2>1, <2>2, <2>3, LanAddrAddMore
    <2>5. LanMore(r, b, f) BY <2>4, <1>8
    <2> QED BY <2>5, <1>8 DEF LanMore
  <1>10. r.o \in LanObjects /\ rules' \in FilterRules BY <1>9 DEF LanStates
  <1>11. /\ s \in Upstreams /\ Sound(s) /\ s.wan = upstream.wan
         /\ s.producer_up = upstream.producer_up \cup {d}
         /\ \A a : Ordered(upstream, a) => Ordered(s, a)
         /\ BusyOnes(s) = BusyOnes(upstream) /\ Tethered(s) = Tethered(upstream) /\ (UsbKept(upstream) => UsbKept(s))
    <2>1. CASE f \in lan[d].ip
      <3>1. s = upstream BY <2>1
      <3>2. d \in upstream.producer_up BY <1>5, <2>1 DEF LansRight
      <3> HIDE DEF s
      <3> QED BY <3>1, <3>2, <1>5
    <2>2. CASE f \notin lan[d].ip
      <3>1. s = AddRmDependProducer(upstream, d) BY <2>2
      <3> HIDE DEF s
      <3>2. s \in Upstreams /\ Sound(s) /\ s.producer_up = upstream.producer_up \cup {d} /\ Keeps(s, upstream, {"producer_up", "rm_set"})
        BY <3>1, <1>5, ProducerJoins
      <3> QED BY <3>2, <1>5, ProducerOrdered
    <2> QED BY <2>1, <2>2
  <1> HIDE DEF s
  <1>12. NewOutside(s, wans') BY <1>1, <1>2, <1>11, PresentStays
  <1>13. r.o.ip # {} /\ r.o.up BY <1>9
  <1>14. wans' \in Seq(Wans) /\ Distinct(wans') BY <1>1, <1>2, KnownIs
  <1>15. ObjectsKnown'
    <2> DEFINE o == r.o
    <2>1. o \in LanObjects /\ lan' = [lan EXCEPT ![d] = o] /\ o.ip # {} /\ o.up /\ ("v6" \notin o.ip => o.addrs = 0) BY <1>9, <1>10, <1>13
    <2>2. s.producer_up = IF o.ip # {} THEN upstream.producer_up \cup {d} ELSE upstream.producer_up \ {d} BY <1>11, <2>1
    <2>3. o.ip # {} => o.up BY <2>1
    <2> HIDE DEF o
    <2>4. lan' = [lan EXCEPT ![d] = o] /\ rules' \in FilterRules /\ conntrack' = conntrack /\ chosen' = chosen BY <1>2, <1>10, <2>1
    <2>5. queue # <<>> OBVIOUS
    <2>6. "v6" \notin o.ip => o.addrs = 0 BY <2>1
    <2>7. s \in Upstreams /\ Sound(s) /\ Take(s) /\ o \in LanObjects /\ d \in Lans BY <1>2, <1>11, <2>1
    <2> QED BY ONLY <1>1, <1>12, <1>14, <2>2, <2>3, <2>4, <2>5, <2>6, <2>7, LanThen
  <1> QED BY <1>2, <1>6, <1>11, <1>15, FewerKeeps

\* An address, whosever it is.
LEMMA HandleAddrAddKeeps ==
  ASSUME WanInv, HandleAddrAdd
  PROVE  WanInv'
  <1> DEFINE d == Head(queue).dev
             f == Head(queue).family
             r == LanAddrAdd([o |-> lan[d], rules |-> rules, ok |-> TRUE], d, f)
  <1>1. ObjectsKnown BY DEF WanInv
  <1>2. queue # <<>> /\ Head(queue).event = "ADDR_ADD" /\ UNCHANGED <<wans, conntrack, chosen>> BY DEF HandleAddrAdd, Is
  <1>3. CASE /\ d \in Wans
             /\ Take(IF d \in ToSet(wans) THEN WanAddrAdd(upstream, d, f) ELSE upstream)
             /\ UNCHANGED <<lan, rules, unusual>>
    BY <1>2, <1>3, WanAddrAddKeeps
  <1>4. CASE /\ d \in Lans /\ Room /\ lan[d].up /\ (f \notin lan[d].ip \/ (f = "v6" /\ lan[d].addrs < MaxV6Addrs))
             /\ lan' = [lan EXCEPT ![d] = r.o] /\ rules' = r.rules
             /\ Take(IF f \in lan[d].ip THEN upstream ELSE AddRmDependProducer(upstream, d))
             /\ unusual \subseteq unusual' /\ ("usb family" \in unusual' => "usb family" \in unusual)
    <2> DEFINE u == r
    <2>1. u = r OBVIOUS
    <2> HIDE DEF u
    <2> QED BY <1>2, <1>4, LanAddrAddKeeps
  <1>5. CASE Take(upstream) /\ UNCHANGED <<lan, rules, unusual>>
    <2>1. upstream \in Ok /\ upstream \in Upstreams BY <1>1, StartOk, KnownIs
    <2>2. wans' = wans /\ lan' = lan /\ rules' = rules /\ conntrack' = conntrack /\ chosen' = chosen /\ unusual \subseteq unusual' /\ queue # <<>>
      BY <1>2, <1>5
    <2>3. ~Told(Head(queue)) /\ Head(queue).event # "ROUTE_DEL" BY <1>2 DEF Told
    <2>4. ObjectsKnown' BY <1>1, <1>5, <2>1, <2>2, KnownThen
    <2> QED BY <1>5, <2>1, <2>2, <2>3, <2>4, FewerKeeps
  <1>6. \/ /\ d \in Wans
           /\ Take(IF d \in ToSet(wans) THEN WanAddrAdd(upstream, d, f) ELSE upstream)
           /\ UNCHANGED <<lan, rules, unusual>>
        \/ /\ d \in Lans /\ Room
           /\ IF lan[d].up /\ (f \notin lan[d].ip \/ (f = "v6" /\ lan[d].addrs < MaxV6Addrs))
              THEN /\ lan' = [lan EXCEPT ![d] = r.o] /\ rules' = r.rules
                   /\ Take(IF f \in lan[d].ip THEN upstream ELSE AddRmDependProducer(upstream, d))
                   /\ unusual' = unusual \cup
                        (IF \E i \in 1..Len(queue) : queue[i].event = "UP_TETHER" /\ queue[i].lan = d
                         THEN {"address between"} ELSE {})
              ELSE Take(upstream) /\ UNCHANGED <<lan, rules, unusual>>
    BY Zenon DEF HandleAddrAdd
  <1> DEFINE x == IF \E i \in 1..Len(queue) : queue[i].event = "UP_TETHER" /\ queue[i].lan = d
                   THEN {"address between"} ELSE {}
  <1>7. "usb family" \notin x OBVIOUS
  <1> HIDE DEF d, f, r, x
  <1>8. unusual' = unusual \cup x => unusual \subseteq unusual' /\ ("usb family" \in unusual' => "usb family" \in unusual) BY <1>7
  <1> QED BY <1>3, <1>4, <1>5, <1>6, <1>8 DEF x

LEMMA NewLanIs == NewLan \in LanObjects /\ NewLan.ip = {} /\ NewLan.addrs = 0
  <1>1. 0 \in 0..MaxV6Addrs BY WanAssumption
  <1>2. [k \in What |-> 0] \in [What -> {0} \cup Hdls] OBVIOUS
  <1> QED BY <1>1, <1>2 DEF NewLan, LanObjects

\* A link that goes down, of an upstream or of a tethered interface.
LEMMA HandleLinkDownKeeps ==
  ASSUME WanInv, HandleLinkDown
  PROVE  WanInv'
  <1> DEFINE d  == Head(queue).dev
             s  == DownTurns(upstream, Gone)
              there == d \in Lans /\ lan[d].up
             t  == IF there /\ lan[d].ip # {} THEN DelRmDependProducer(s, d) ELSE s
             b  == [o |-> lan[d], rules |-> rules, ok |-> TRUE]
             r  == LanDown(b, d)
  <1>1. ObjectsKnown BY DEF WanInv
  <1>2. queue # <<>> /\ Head(queue).event = "LINK_DOWN" /\ conntrack' = conntrack /\ chosen' = chosen BY DEF HandleLinkDown, Is
  <1>3. /\ wans' = LeftTurns(Gone)
        /\ IF there THEN /\ lan' = [lan EXCEPT ![d] = NewLan] /\ rules' = r.rules
                      /\ Take(IF lan[d].ip = {} THEN s ELSE DelRmDependProducer(s, d))
           ELSE Take(s) /\ UNCHANGED <<lan, rules>>
    BY LinkDownTurn
  <1>4. Take(t)
    <2>1. CASE there
      <3>1. CASE lan[d].ip = {}
        <4>1. t = s BY <3>1
        <4>2. Take(s) BY <1>3, <2>1, <3>1
        <4> QED BY <4>1, <4>2
      <3>2. CASE lan[d].ip # {}
        <4>1. t = DelRmDependProducer(s, d) BY <2>1, <3>2
        <4>2. Take(DelRmDependProducer(s, d)) BY <1>3, <2>1, <3>2
        <4> QED BY <4>1, <4>2
      <3> QED BY <3>1, <3>2
    <2>2. CASE ~there
      <3>1. t = s BY <2>2
      <3>2. Take(s) BY <1>3, <2>2
      <3> QED BY <3>1, <3>2
    <2> QED BY <2>1, <2>2
  <1>5. unusual \subseteq unusual' BY Zenon DEF HandleLinkDown
  <1>6. Orderly' => /\ ~ \E w \in Gone : upstream.wan[w].active # {} /\ (Sta(w) \/ ~upstream.wan[w].gateway)
                    /\ ~ \E w \in Gone : upstream.wan[w].partial # {}
    <2>1. /\ (\E w \in Gone : upstream.wan[w].active # {} /\ (Sta(w) \/ ~upstream.wan[w].gateway)) => "half down" \in unusual'
          /\ (\E w \in Gone : upstream.wan[w].partial # {}) => "header awaited" \in unusual'
      BY DEF HandleLinkDown, Gone
    <2> QED BY <2>1 DEF Orderly
  <1>7. /\ upstream \in Ok /\ Stas \subseteq Wans /\ MaxV6Addrs \in Nat /\ IsFiniteSet(Wans) /\ WanTypeOK
        /\ upstream \in Upstreams /\ Present(upstream) /\ LansRight /\ lan \in [Lans -> LanObjects] /\ rules \in FilterRules /\ ToSet(wans) \subseteq Wans
    BY <1>1, StartOk, KnownIs, WanAssumption, SpaceIs
  <1>8. ~Told(Head(queue)) /\ Head(queue).event # "ROUTE_DEL" BY <1>2 DEF Told
  <1>9. wans' \in Seq(Wans) /\ Distinct(wans') /\ ToSet(wans') = ToSet(wans) \ Gone BY <1>3, <1>7, LeftInOrder
  <1>10. /\ s \in Ok
         /\ \A w \in ToSet(wans) \cap Gone : s.wan[w] = NewWan
         /\ \A w \in Wans : s.wan[w] \in {upstream.wan[w], NewWan}
    BY <1>7, LinkDownIs
  <1>11. ASSUME Orderly', NEW a, Ordered(upstream, a)
         PROVE  /\ Ordered(s, a) /\ BusyOnes(s) \subseteq BusyOnes(upstream) /\ Tethered(s) \subseteq Tethered(upstream)
                /\ UsbKept(s)
    <2>1. \A v \in Stas : ~Busy(upstream, v)
      <3> SUFFICES ASSUME NEW v \in Stas PROVE ~Busy(upstream, v) OBVIOUS
      <3>1. CASE v \in ToSet(wans)
        <4>1. v \in Gone BY <3>1 DEF Gone, Sta
        <4> QED BY <4>1, <1>6, <1>11 DEF Busy, Sta
      <3>2. CASE v \notin ToSet(wans) BY <3>2, <1>7 DEF Present, Busy, NewWan
      <3> QED BY <3>1, <3>2
    <2>2. \A w \in ToSet(wans) \cap Gone : upstream.wan[w].active # {} => upstream.wan[w].gateway BY <1>6, <1>11
    <2>3. Ordered(s, a) /\ BusyOnes(s) \subseteq BusyOnes(upstream) /\ Tethered(s) \subseteq Tethered(upstream)
      BY <1>7, <1>11, <2>1, <2>2, LinkDownInOrder
    <2>4. UsbKept(s) BY <1>7, <2>1, <2>3 DEF UsbKept, BusyOnes, Busy
    <2> QED BY <2>3, <2>4
  <1> HIDE DEF s
  <1>12. s \in Upstreams /\ Sound(s) /\ s.producer_up = upstream.producer_up BY <1>10 DEF Ok
  <1>13. NewOutside(s, wans') BY <1>7, <1>9, <1>10 DEF NewOutside, Present
  <1>14. /\ t \in Upstreams /\ Sound(t) /\ t.wan = s.wan
         /\ t.producer_up = IF there THEN upstream.producer_up \ {d} ELSE upstream.producer_up
         /\ \A a : Ordered(s, a) => Ordered(t, a)
         /\ BusyOnes(t) = BusyOnes(s) /\ Tethered(t) = Tethered(s) /\ (UsbKept(s) => UsbKept(t))
    <2>1. CASE there /\ lan[d].ip # {}
      <3>1. t = DelRmDependProducer(s, d) /\ d \in Lans BY <2>1
      <3> HIDE DEF t, d
      <3>2. t \in Upstreams /\ Sound(t) /\ t.producer_up = s.producer_up \ {d} /\ Keeps(t, s, {"producer_up", "rm_set"})
        BY <3>1, <1>12, ProducerLeaves
      <3>3. /\ \A a : Ordered(s, a) => Ordered(t, a)
            /\ BusyOnes(t) = BusyOnes(s) /\ Tethered(t) = Tethered(s) /\ (UsbKept(s) => UsbKept(t)) /\ t.wan = s.wan
        BY <1>7, <1>12, <3>2, ProducerOrdered
      <3> QED BY <2>1, <3>2, <3>3, <1>12
    <2>2. CASE ~(there /\ lan[d].ip # {})
      <3>1. t = s BY <2>2
      <3>2. there => d \notin upstream.producer_up BY <2>2, <1>7 DEF LansRight
      <3> HIDE DEF t, d
      <3> QED BY <3>1, <3>2, <1>12
    <2> QED BY <2>1, <2>2
  <1> HIDE DEF t
  <1>15. NewOutside(t, wans') BY <1>13, <1>14 DEF NewOutside
  <1>16. ObjectsKnown'
    <2>1. CASE there
      <3> DEFINE o == NewLan
      <3>1. o \in LanObjects /\ o.ip = {} /\ o.addrs = 0 BY NewLanIs
      <3>2. d \in Lans /\ lan' = [lan EXCEPT ![d] = o] /\ rules' = r.rules BY <2>1, <1>3
      <3>3. b \in LanStates BY <1>1, <3>2, StartLan
      <3> HIDE DEF b
      <3>4. r \in LanStates BY <3>2, <3>3, <1>7, LanDownIs
      <3>5. rules' \in FilterRules BY <3>2, <3>4 DEF LanStates
      <3>6. t.producer_up = IF o.ip # {} THEN upstream.producer_up \cup {d} ELSE upstream.producer_up \ {d} BY <3>1, <2>1, <1>14
      <3>7. (o.ip # {} => o.up) /\ ("v6" \notin o.ip => o.addrs = 0) BY <3>1
      <3> HIDE DEF o, d
      <3> QED BY ONLY <1>1, <1>2, <1>4, <1>9, <1>14, <1>15, <3>1, <3>2, <3>5, <3>6, <3>7, LanThen
    <2>2. CASE ~there
      <3>1. lan' = lan /\ rules' = rules BY <1>3, <2>2
      <3>2. upstream' \in Upstreams /\ upstream'.posted = <<>> /\ Keeps(upstream', t, {"posted"}) /\ queue' \in Seq(Events)
        BY <1>1, <1>2, <1>4, <1>14, KnownIs, TakeIs
      <3>3. Sound(upstream') /\ upstream'.wan = t.wan /\ upstream'.producer_up = t.producer_up BY <1>14, <3>2, TakeSame
      <3>4. Present(upstream)' BY <1>15, <3>3 DEF Present, NewOutside
      <3>5. LansRight' BY <1>7, <1>14, <2>2, <3>1, <3>3 DEF LansRight
      <3> QED BY <1>1, <1>2, <1>7, <1>9, <3>1, <3>2, <3>3, <3>4, <3>5, KnownIs, KnownIf
    <2> QED BY <2>1, <2>2
  <1>17. ToSet(wans') \subseteq ToSet(wans) BY <1>9
  <1>18. /\ \A a : Orderly' /\ Ordered(upstream, a) =>
              Ordered(t, a) /\ BusyOnes(t) \subseteq BusyOnes(upstream) /\ Tethered(t) \subseteq Tethered(upstream)
         /\ \A a : Orderly' /\ Ordered(upstream, a) /\ UsbKept(upstream) => UsbKept(t)
    BY <1>11, <1>14
  <1> HIDE DEF d
  <1> QED BY <1>2, <1>4, <1>5, <1>8, <1>14, <1>16, <1>17, <1>18, FewerKeeps

-----------------------------------------------------------------------------
(* Connection tracking and the rules of the tethered interfaces            *)

LEMMA TailTakes ==
  ASSUME ObjectsKnown, queue # <<>>, queue' = Tail(queue), upstream' = upstream
  PROVE  Take(upstream)
  <1>1. upstream.posted = <<>> /\ upstream \in Upstreams /\ Tail(queue) \in Seq(Events) BY KnownIs, TailIs
  <1>2. upstream = [upstream EXCEPT !.posted = <<>>] BY <1>1 DEF Upstreams
  <1>3. Tail(queue) \o upstream.posted = Tail(queue) BY <1>1
  <1> QED BY <1>2, <1>3 DEF Take

\* The upstreams change only when connection tracking is told of it.
LEMMA TellKeeps ==
  ASSUME WanInv, queue # <<>>, queue' = Tail(queue), UNCHANGED <<wans, upstream, lan, rules, chosen, unusual>>,
         conntrack' \in [WanUp : BOOLEAN, table : Wans \cup {None}],
         Head(queue).event # "ROUTE_DEL",
         \A c \in SUBSET Wans : (conntrack.WanUp <=> conntrack.table # None) /\ Leads(Head(queue), At, c) =>
           At' = c /\ (conntrack'.WanUp <=> conntrack'.table # None)
  PROVE  WanInv'
  <1>1. ObjectsKnown BY DEF WanInv
  <1>2. queue \in Seq(Events) /\ queue' \in Seq(Events) BY <1>1, KnownIs, TailIs
  <1>3. Present(upstream)' /\ LansRight' BY <1>1, KnownIs DEF Present, LansRight
  <1>4. ObjectsKnown' BY <1>1, <1>2, <1>3, KnownIs, KnownIf
  <1>5. ASSUME Orderly PROVE InOrder'
    <2>1. InOrder /\ Routed /\ ToldRight BY <1>5 DEF WanInv, InOrder
    <2>2. PICK c \in SUBSET Wans : Leads(Head(queue), At, c) /\ Chain(Tail(queue), c, ActiveV4(upstream))
      BY <1>2, <2>1, ChainTail DEF ToldRight
    <2>3. At' = c /\ (conntrack'.WanUp <=> conntrack'.table # None) BY <2>1, <2>2 DEF ToldRight
    <2>4. ToldRight' BY <2>2, <2>3 DEF ToldRight
    <2>5. upstream \in Upstreams /\ upstream.posted = <<>> BY <1>1, KnownIs
    <2>6. Own(upstream.posted)
      <3>1. Len(<<>>) = 0 /\ \A i \in 1..0 : FALSE OBVIOUS
      <3> QED BY <3>1, <2>5 DEF Own
    <2> DEFINE W == ToSet(wans)
    <2>7. RoutesRight(Handled(queue, upstream.posted), W, BusyOnes(upstream), Tethered(upstream), chosen)
      <3>1. W \in SUBSET ToSet(wans) OBVIOUS
      <3> QED BY <1>1, <2>1, <2>5, <2>6, <3>1, RoutesThen
    <2>8. Handled(queue, upstream.posted) = queue'
      <3>1. Tail(queue) \in Seq(Events) BY <1>2
      <3> QED BY <3>1, <2>5 DEF Handled
    <2>9. Routed' BY <2>7, <2>8 DEF Routed
    <2> QED BY <2>1, <2>4, <2>9 DEF InOrder
  <1>6. ASSUME Orderly, "usb family" \notin unusual' PROVE UsbKept(upstream')
    BY <1>6 DEF WanInv
  <1> QED BY <1>4, <1>5, <1>6, WanInvIf

\* Connection tracking learns that the upstream is there.
LEMMA HandleWanUpKeeps ==
  ASSUME WanInv, HandleWanUp
  PROVE  WanInv'
  <1> DEFINE w == Head(queue).dev
  <1>1. queue # <<>> /\ Head(queue).event = "WAN_UP" /\ queue' = Tail(queue) /\ UNCHANGED <<wans, upstream, lan, rules, chosen, unusual>>
    BY DEF HandleWanUp, Is
  <1>2. conntrack' = IF conntrack.WanUp THEN conntrack
            ELSE [WanUp |-> TRUE, table |-> IF conntrack.table = None THEN w ELSE conntrack.table]
    BY DEF HandleWanUp
  <1>3. ObjectsKnown /\ Head(queue) \in Events BY <1>1, KnownIs, TailIs DEF WanInv
  <1>4. w \in Wans /\ w # None /\ conntrack \in [WanUp : BOOLEAN, table : Wans \cup {None}] BY <1>1, <1>3, EventIs, KnownIs, WanAssumption
  <1>5. conntrack' \in [WanUp : BOOLEAN, table : Wans \cup {None}] BY <1>2, <1>4
  <1>6. ASSUME NEW c \in SUBSET Wans, conntrack.WanUp <=> conntrack.table # None, Leads(Head(queue), At, c)
        PROVE  At' = c /\ (conntrack'.WanUp <=> conntrack'.table # None)
    <2>1. At = {} /\ c = {w} BY <1>1, <1>6 DEF Leads
    <2>2. ~conntrack.WanUp /\ conntrack.table = None BY <2>1, <1>6 DEF At
    <2>3. conntrack' = [WanUp |-> TRUE, table |-> w] BY <2>2, <1>2
    <2> QED BY <2>1, <2>3, <1>4 DEF At
  <1> QED BY <1>1, <1>5, <1>6, TellKeeps

\* Connection tracking learns that the upstream has gone.
LEMMA HandleWanDownKeeps ==
  ASSUME WanInv, HandleWanDown
  PROVE  WanInv'
  <1> DEFINE w == Head(queue).dev
  <1>1. queue # <<>> /\ Head(queue).event = "WAN_DOWN" /\ queue' = Tail(queue) /\ UNCHANGED <<wans, upstream, lan, rules, chosen, unusual>>
    BY DEF HandleWanDown, Is
  <1>2. conntrack' = IF ~conntrack.WanUp THEN conntrack
            ELSE [WanUp |-> FALSE, table |-> IF conntrack.table = w THEN None ELSE conntrack.table]
    BY DEF HandleWanDown
  <1>3. ObjectsKnown /\ Head(queue) \in Events BY <1>1, KnownIs, TailIs DEF WanInv
  <1>4. w \in Wans /\ w # None /\ conntrack \in [WanUp : BOOLEAN, table : Wans \cup {None}] BY <1>1, <1>3, EventIs, KnownIs, WanAssumption
  <1>5. conntrack' \in [WanUp : BOOLEAN, table : Wans \cup {None}] BY <1>2, <1>4
  <1>6. ASSUME NEW c \in SUBSET Wans, conntrack.WanUp <=> conntrack.table # None, Leads(Head(queue), At, c)
        PROVE  At' = c /\ (conntrack'.WanUp <=> conntrack'.table # None)
    <2>1. At = {w} /\ c = {} BY <1>1, <1>6 DEF Leads
    <2>2. conntrack.WanUp /\ conntrack.table = w BY <2>1 DEF At
    <2>3. conntrack' = [WanUp |-> FALSE, table |-> None] BY <2>2, <1>2
    <2> QED BY <2>1, <2>3 DEF At
  <1> QED BY <1>1, <1>5, <1>6, TellKeeps

\* The rules come and go, and the interface keeps its addresses.
LEMMA RulesKeep ==
  ASSUME WanInv, queue # <<>>, queue' = Tail(queue), UNCHANGED <<wans, upstream, conntrack, chosen, unusual>>,
         Head(queue).event \in {"UP_TETHER", "DOWN_TETHER"},
         lan' \in [Lans -> LanObjects], rules' \in FilterRules,
         \A l \in Lans : lan'[l].up = lan[l].up /\ lan'[l].ip = lan[l].ip /\ lan'[l].addrs = lan[l].addrs
  PROVE  WanInv'
  <1>1. ObjectsKnown BY DEF WanInv
  <1>2. queue' \in Seq(Events) BY <1>1, KnownIs, TailIs
  <1>3. Present(upstream)' /\ LansRight' BY <1>1, KnownIs DEF Present, LansRight
  <1>4. ObjectsKnown' BY <1>1, <1>2, <1>3, KnownIs, KnownIf
  <1>5. Take(upstream) BY <1>1, TailTakes
  <1>6. ~Told(Head(queue)) /\ Head(queue).event # "ROUTE_DEL" BY DEF Told
  <1>7. upstream \in Upstreams BY <1>1, KnownIs
  <1>8. ToSet(wans') \subseteq ToSet(wans) /\ conntrack' = conntrack /\ chosen' = chosen /\ unusual \subseteq unusual' OBVIOUS
  <1> QED BY <1>4, <1>5, <1>6, <1>7, <1>8, FewerKeeps

\* One object and the rules in the driver are replaced.
LEMMA LanReplaced ==
  ASSUME ObjectsKnown, NEW l \in Lans, NEW b, b = [o |-> lan[l], rules |-> rules, ok |-> TRUE], NEW r, LanSame(r, b),
         lan' = [lan EXCEPT ![l] = r.o], rules' = r.rules
  PROVE  /\ lan' \in [Lans -> LanObjects] /\ rules' \in FilterRules
         /\ \A k \in Lans : lan'[k].up = lan[k].up /\ lan'[k].ip = lan[k].ip /\ lan'[k].addrs = lan[k].addrs
  <1>1. lan \in [Lans -> LanObjects] BY KnownIs
  <1>2. r \in LanStates /\ r.o.up = lan[l].up /\ r.o.ip = lan[l].ip /\ r.o.addrs = lan[l].addrs BY DEF LanSame
  <1>3. r.o \in LanObjects /\ r.rules \in FilterRules BY <1>2 DEF LanStates
  <1> QED BY <1>1, <1>2, <1>3

LEMMA HandleUpTetherKeeps ==
  ASSUME WanInv, HandleUpTether
  PROVE  WanInv'
  <1> DEFINE e == Head(queue)
             l == e.lan
             b == [o |-> lan[l], rules |-> rules, ok |-> TRUE]
             r == LanWanUp(b, l, e.family, Sta(e.dev))
  <1>1. /\ queue # <<>> /\ e.event = "UP_TETHER" /\ Room /\ queue' = Tail(queue)
        /\ UNCHANGED <<wans, upstream, conntrack, chosen, unusual>>
    BY DEF HandleUpTether, Is
  <1>2. (lan' = [lan EXCEPT ![l] = r.o] /\ rules' = r.rules) \/ (lan' = lan /\ rules' = rules)
    BY DEF HandleUpTether
  <1>3. ObjectsKnown /\ e \in Events BY <1>1, KnownIs, TailIs DEF WanInv
  <1>4. l \in Lans /\ e.family \in Families /\ Sta(e.dev) \in BOOLEAN /\ None \notin Lans /\ MaxRules \in Nat
    BY <1>1, <1>3, EventIs, WanAssumption DEF Sta
  <1>5. b \in LanStates /\ b.rules = rules BY <1>3, <1>4, StartLan
  <1>6. Rooms(b.rules, 2)
    <2>1. Rooms(rules, 4) BY <1>1 DEF Room, Rooms, FreeHdls
    <2> QED BY <2>1, <1>4, <1>5, RoomsFewer
  <1>7. LanSame(r, b)
    <2> HIDE DEF b, l, e
    <2> QED BY <1>4, <1>5, <1>6, LanWanUpIs
  <1>8. /\ lan' \in [Lans -> LanObjects] /\ rules' \in FilterRules
        /\ \A k \in Lans : lan'[k].up = lan[k].up /\ lan'[k].ip = lan[k].ip /\ lan'[k].addrs = lan[k].addrs
    <2>1. CASE lan' = lan /\ rules' = rules BY <2>1, <1>3, KnownIs
    <2>2. CASE lan' = [lan EXCEPT ![l] = r.o] /\ rules' = r.rules
      <3> HIDE DEF r, l
      <3> QED BY <2>2, <1>3, <1>4, <1>7, LanReplaced
    <2> QED BY <2>1, <2>2, <1>2
  <1> QED BY <1>1, <1>8, RulesKeep

LEMMA HandleDownTetherKeeps ==
  ASSUME WanInv, HandleDownTether
  PROVE  WanInv'
  <1> DEFINE e == Head(queue)
             l == e.lan
             b == [o |-> lan[l], rules |-> rules, ok |-> TRUE]
             r == LanWanDown(b, e.family, Sta(e.dev))
  <1>1. /\ queue # <<>> /\ e.event = "DOWN_TETHER" /\ queue' = Tail(queue)
        /\ UNCHANGED <<wans, upstream, conntrack, chosen, unusual>>
    BY DEF HandleDownTether, Is
  <1>2. (lan' = [lan EXCEPT ![l] = r.o] /\ rules' = r.rules) \/ (lan' = lan /\ rules' = rules)
    BY DEF HandleDownTether
  <1>3. ObjectsKnown /\ e \in Events BY <1>1, KnownIs, TailIs DEF WanInv
  <1>4. l \in Lans /\ e.family \in Families /\ Sta(e.dev) \in BOOLEAN BY <1>1, <1>3, EventIs DEF Sta
  <1>5. b \in LanStates BY <1>3, <1>4, StartLan
  <1>6. LanSame(r, b)
    <2> HIDE DEF b, l, e
    <2> QED BY <1>4, <1>5, LanWanDownIs
  <1>7. /\ lan' \in [Lans -> LanObjects] /\ rules' \in FilterRules
        /\ \A k \in Lans : lan'[k].up = lan[k].up /\ lan'[k].ip = lan[k].ip /\ lan'[k].addrs = lan[k].addrs
    <2>1. CASE lan' = lan /\ rules' = rules BY <2>1, <1>3, KnownIs
    <2>2. CASE lan' = [lan EXCEPT ![l] = r.o] /\ rules' = r.rules
      <3> HIDE DEF r, l
      <3> QED BY <2>2, <1>3, <1>4, <1>6, LanReplaced
    <2> QED BY <2>1, <2>2, <1>2
  <1> QED BY <1>1, <1>7, RulesKeep
-----------------------------------------------------------------------------
(* The upstream and what follows it agree                                  *)

\* At first nothing is in use.
LEMMA WanInitInv == WanInit => WanInv
  <1> SUFFICES ASSUME WanInit PROVE WanInv OBVIOUS
  <1> DEFINE u == upstream
  <1>1. /\ queue = <<>> /\ wans = <<>>
        /\ u = [wan |-> [w \in Wans |-> NewWan], wan_up |-> Both(FALSE), backhaul_is_sta_mode |-> FALSE,
           tether |-> Both(<<>>), num_modem_pdn |-> Both(0), flt |-> Both("none"), modem |-> Both("none"),
           a2_check |-> 0, consumer_up |-> {}, producer_up |-> {}, rm_set |-> {}, posted |-> <<>>]
        /\ lan = [l \in Lans |-> NewLan] /\ rules = [h \in Hdls |-> NoRule]
        /\ conntrack = [WanUp |-> FALSE, table |-> None]
        /\ chosen = [f \in Families |-> [l \in Lans |-> None]]
        /\ unusual = {}
    BY DEF WanInit
  <1>2. /\ u.wan = [w \in Wans |-> NewWan] /\ u.wan_up = Both(FALSE) /\ u.tether = Both(<<>>) /\ u.num_modem_pdn = Both(0)
        /\ u.flt = Both("none") /\ u.modem = Both("none") /\ u.a2_check = 0 /\ u.consumer_up = {} /\ u.producer_up = {}
        /\ u.rm_set = {} /\ u.posted = <<>>
    BY <1>1
  <1>3. NewWan \in WanObjects /\ NewWan.ip = {} /\ NewWan.active = {} /\ NewWan.partial = {} /\ ~NewWan.gateway /\ NewWan.addrs = 0
        /\ ~NewWan.header
    <2>1. 0 \in 0..MaxV6Addrs BY WanAssumption
    <2> QED BY <2>1 DEF NewWan, WanObjects
  <1>4. \A w \in Wans : u.wan[w] = NewWan BY <1>2
  <1>5. u \in Upstreams
    <2>1. u.wan \in [Wans -> WanObjects] BY <1>2, <1>3
    <2>2. /\ Both(FALSE) \in [Families -> BOOLEAN] /\ Both(<<>>) \in [Families -> Seq(Lans)] /\ Both(0) \in [Families -> Int]
          /\ Both("none") \in [Families -> Modes] /\ <<>> \in Seq(Events)
      BY DEF Both, Modes
    <2>3. {} \in SUBSET {"Q6", "USB"} /\ {} \in SUBSET Lans /\ {} \in SUBSET (Lans \X {"Q6", "USB"}) /\ FALSE \in BOOLEAN /\ 0 \in Int OBVIOUS
    <2> DEFINE ws == [w \in Wans |-> NewWan]
               b0 == Both(FALSE)
               t0 == Both(<<>>)
               n0 == Both(0)
               m0 == Both("none")
               p0 == <<>>
    <2>4. u = [wan |-> ws, wan_up |-> b0, backhaul_is_sta_mode |-> FALSE,
           tether |-> t0, num_modem_pdn |-> n0, flt |-> m0, modem |-> m0,
           a2_check |-> 0, consumer_up |-> {}, producer_up |-> {}, rm_set |-> {}, posted |-> p0]
      BY <1>1
    <2>5. /\ ws \in [Wans -> WanObjects] /\ b0 \in [Families -> BOOLEAN] /\ t0 \in [Families -> Seq(Lans)] /\ n0 \in [Families -> Int]
          /\ m0 \in [Families -> Modes] /\ p0 \in Seq(Events)
      BY <1>3, <2>2
    <2> HIDE DEF ws, b0, t0, n0, m0, p0, u
    <2> QED BY <2>3, <2>4, <2>5 DEF Upstreams
  <1>6. Sound(u)
    <2>1. \A f \in Families : Having(u, f) = {} BY <1>3, <1>4 DEF Having, Modems
    <2>2. \A f \in Families : u.num_modem_pdn[f] = 0 BY <1>2 DEF Both
    <2>3. PdnCounted(u) BY <2>1, <2>2, FS_EmptySet DEF PdnCounted
    <2>4. \A w \in Wans : Fit(u.wan[w], w) BY <1>3, <1>4 DEF Fit
    <2>5. Made(u) BY <1>2, <1>5, <2>4 DEF Made
    <2> QED BY <1>2, <2>3, <2>5 DEF Sound
  <1>7. lan \in [Lans -> LanObjects] /\ LansRight
    <2>1. \A l \in Lans : lan[l] = NewLan BY <1>1
    <2> QED BY <1>1, <1>2, <2>1, NewLanIs DEF LansRight
  <1>8. ObjectsKnown
    <2>1. Present(u) BY <1>4 DEF Present
    <2>2. \A w \in Wans : u.wan[w].active \cup u.wan[w].partial \subseteq u.wan[w].ip BY <1>3, <1>4
    <2>3. queue \in Seq(Events) /\ wans \in Seq(Wans) /\ \A i, j \in 1..Len(wans) : wans[i] = wans[j] => i = j BY <1>1
    <2>4. /\ rules \in [Hdls -> [lan : Lans \cup {None}, what : What \cup {None}]]
          /\ conntrack \in [WanUp : BOOLEAN, table : Wans \cup {None}]
          /\ chosen \in [Families -> [Lans -> Wans \cup {None}]]
      BY <1>1 DEF NoRule
    <2>5. WanTypeOK BY <1>2, <1>5, <1>7, <2>2, <2>3, <2>4 DEF WanTypeOK
    <2> QED BY <1>6, <1>7, <2>1, <2>5 DEF ObjectsKnown
  <1>9. Single(u) /\ UsbKept(u)
    <2>1. \A w \in Wans : ~Busy(u, w) /\ u.wan[w].active = {} /\ ~u.wan[w].gateway BY <1>3, <1>4 DEF Busy
    <2>2. Users(u, "v4") = 0 /\ Users(u, "v6") = 0 BY <2>1 DEF Users, Modems
    <2>3. \A f \in Families : ~u.wan_up[f] BY <1>2 DEF Both
    <2>4. Stas \subseteq Wans BY WanAssumption
    <2>5. u.a2_check = 0 /\ u.consumer_up = {} BY <1>2
    <2> HIDE DEF u
    <2>6. \A f \in Families, w \in Wans : f \notin u.wan[w].active BY <2>1
    <2>7. u.a2_check = Users(u, "v4") + Users(u, "v6") BY <2>2, <2>5
    <2>8. UsbKept(u) BY <2>1, <2>4 DEF UsbKept
    <2>9. \A f \in Families, w \in Modems : f \notin u.wan[w].active BY <2>6 DEF Modems
    <2>10. \A w \in Modems : u.wan[w].active = {} BY <2>1 DEF Modems
    <2> QED BY <2>1, <2>3, <2>5, <2>6, <2>7, <2>8, <2>9, <2>10 DEF Single
  <1>10. Listed(u)
    <2>1. \A f \in Families : u.tether[f] = <<>> BY <1>2 DEF Both
    <2>2. \A w \in Wans : u.wan[w].active \cup u.wan[w].partial = {} BY <1>3, <1>4
    <2>3. Len(<<>>) = 0 /\ \A i \in 1..0 : FALSE OBVIOUS
    <2> QED BY <2>1, <2>2, <2>3 DEF Listed
  <1>11. Routed
    <2>1. BusyOnes(u) = {} BY <1>3, <1>4 DEF BusyOnes, Busy
    <2>2. Len(queue) = 0 /\ \A i \in 1..0 : FALSE BY <1>1
    <2> QED BY <2>1, <2>2 DEF Routed, RoutesRight
  <1>12. ToldRight
    <2>1. ActiveV4(u) = {} BY <1>3, <1>4 DEF ActiveV4
    <2>2. At = {} BY <1>1 DEF At
    <2>3. queue \in Seq(Events) /\ \A i \in 1..Len(queue) : ~Told(queue[i])
      <3>1. Len(<<>>) = 0 /\ \A i \in 1..0 : FALSE OBVIOUS
      <3> QED BY <1>1, <3>1
    <2>4. Chain(queue, {}, {}) BY <2>3, ChainSilent
    <2> QED BY <1>1, <2>1, <2>2, <2>4 DEF ToldRight
  <1> QED BY <1>8, <1>9, <1>10, <1>11, <1>12 DEF WanInv, InOrder

\* Every report and every handler keeps the invariant.
LEMMA WanInvStep == WanInv /\ [WanNext]_wanVars => WanInv'
  <1> SUFFICES ASSUME WanInv, [WanNext]_wanVars PROVE WanInv' OBVIOUS
  <1>1. CASE \E d \in Wans \cup Lans : ReportLinkDown(d) BY <1>1, ReportsKeep
  <1>2. CASE \E d \in Wans \cup Lans, f \in Families : ReportAddr(d, f) BY <1>2, ReportsKeep
  <1>3. CASE \E w \in Wans : ReportRouter(w) BY <1>3, ReportsKeep
  <1>4. CASE ReportFirewall BY <1>4, ReportsKeep
  <1>5. CASE \E w \in Wans, f \in Families, l \in Lans : ReportRouteAdd(w, f, l) BY <1>5, ReportRouteAddKeeps
  <1>6. CASE \E f \in Families, l \in Lans : ReportRouteDel(f, l) BY <1>6, ReportRouteDelKeeps
  <1>7. CASE \E w \in Wans : WanCreated(w) BY <1>7, CreatedKeeps
  <1>8. CASE \E l \in Lans : LanCreated(l) BY <1>8, CreatedKeeps
  <1>9. CASE HandleRouteAdd BY <1>9, HandleRouteAddKeeps
  <1>10. CASE HandleRouteDel BY <1>10, HandleRouteDelKeeps
  <1>11. CASE HandleNeighAdd BY <1>11, HandleNeighAddKeeps
  <1>12. CASE HandleFirewallChange BY <1>12, HandleFirewallChangeKeeps
  <1>13. CASE HandleAddrAdd BY <1>13, HandleAddrAddKeeps
  <1>14. CASE HandleLinkDown BY <1>14, HandleLinkDownKeeps
  <1>15. CASE HandleWanUp BY <1>15, HandleWanUpKeeps
  <1>16. CASE HandleWanDown BY <1>16, HandleWanDownKeeps
  <1>17. CASE HandleUpTether BY <1>17, HandleUpTetherKeeps
  <1>18. CASE HandleDownTether BY <1>18, HandleDownTetherKeeps
  <1>19. CASE UNCHANGED wanVars
    <2>1. UNCHANGED <<queue, wans, upstream, lan, rules, conntrack, chosen, unusual>> BY <1>19 DEF wanVars
    <2>2. ObjectsKnown => ObjectsKnown' BY <2>1 DEF ObjectsKnown, WanTypeOK, Present, LansRight
    <2>3. InOrder => InOrder' BY <2>1 DEF InOrder, Routed, ToldRight, At
    <2> QED BY <2>1, <2>2, <2>3 DEF WanInv, Orderly
  <1> QED
    BY <1>1, <1>2, <1>3, <1>4, <1>5, <1>6, <1>7, <1>8, <1>9, <1>10, <1>11, <1>12, <1>13, <1>14, <1>15, <1>16, <1>17, <1>18, <1>19
    DEF WanNext

\* The invariant gives the property.
LEMMA WanInvAgrees == WanInv => UpstreamAgrees
  <1> SUFFICES ASSUME WanInv PROVE UpstreamAgrees OBVIOUS
  <1>1. ObjectsKnown /\ WanTypeOK /\ ToSet(wans) \subseteq Wans /\ Stas \subseteq Wans /\ None \notin Wans
    BY KnownIs, SpaceIs, WanAssumption DEF WanInv
  <1>2. /\ Sound(upstream) /\ Present(upstream) /\ LansRight /\ queue \in Seq(Events)
        /\ conntrack \in [WanUp : BOOLEAN, table : Wans \cup {None}] /\ upstream \in Upstreams
    BY <1>1, KnownIs
  <1>3. \A w \in Wans : w \notin ToSet(wans) => upstream.wan[w].active = {} /\ upstream.wan[w].partial = {}
    BY <1>2 DEF Present, NewWan
  <1>4. ASSUME Orderly PROVE Single(upstream) /\ Listed(upstream) /\ ToldRight
    BY <1>4 DEF WanInv, InOrder
  <1>5. \A f \in Families : Active(f) = {w \in Wans : f \in upstream.wan[w].active} BY <1>1, <1>3 DEF Active
  <1>6. UpstreamFlag BY <1>4, <1>5 DEF UpstreamFlag, Single
  <1>7. TetheredServed BY <1>1, <1>3, <1>4 DEF TetheredServed, Listed
  <1>8. NatOfUpstream
    <2> SUFFICES ASSUME Orderly, ~Waiting({"WAN_UP", "WAN_DOWN"})
                 PROVE  /\ conntrack.WanUp <=> Active("v4") # {}
                        /\ \A w \in Active("v4") : conntrack.table = w
                        /\ Active("v4") = {} => conntrack.table = None
      BY DEF NatOfUpstream
    <2>1. \A i \in 1..Len(queue) : ~Told(queue[i]) BY DEF Waiting, Told
    <2>2. Chain(queue, At, ActiveV4(upstream)) /\ (conntrack.WanUp <=> conntrack.table # None) BY <1>4 DEF ToldRight
    <2>3. At = ActiveV4(upstream) BY <1>2, <2>1, <2>2, ChainQuiet
    <2>4. "v4" \in Families BY DEF Families
    <2>5. Active("v4") = ActiveV4(upstream) BY <1>5, <2>4 DEF ActiveV4
    <2> QED BY <2>2, <2>3, <2>5 DEF At
  <1>9. FirewallInstalled
    <2> SUFFICES ASSUME Orderly, NEW f \in Families, NEW w \in Active(f) \ Stas PROVE upstream.modem[f] = "firewall"
      BY DEF FirewallInstalled
    <2>1. w \in Modems /\ f \in upstream.wan[w].active BY <1>5 DEF Modems
    <2>2. upstream.flt[f] = "firewall" BY <1>4, <2>1 DEF Single
    <2> QED BY <1>2, <2>2 DEF Sound
  <1>10. RmDependKept
    <2> SUFFICES ASSUME Orderly, NEW l \in Lans, NEW w \in Wans
                 PROVE  LET served == /\ lan[l].up /\ lan[l].ip # {}
                                      /\ \E v \in ToSet(wans) : Consumer(v) = Consumer(w) /\ upstream.wan[v].active # {}
                            kept   == <<l, Consumer(w)>> \in upstream.rm_set
                        IN  (kept => served) /\ (served => kept \/ (Sta(w) /\ "usb family" \in unusual))
      BY DEF RmDependKept
    <2> DEFINE c == Consumer(w)
               some == \E v \in ToSet(wans) : Consumer(v) = c /\ upstream.wan[v].active # {}
    <2>1. <<l, c>> \in upstream.rm_set <=> l \in upstream.producer_up /\ c \in upstream.consumer_up
      <3>1. upstream.rm_set = upstream.producer_up \X upstream.consumer_up BY <1>2 DEF Sound, Made
      <3> QED BY <3>1
    <2>2. l \in upstream.producer_up <=> lan[l].ip # {} BY <1>2 DEF LansRight
    <2>3. lan[l].ip # {} => lan[l].up BY <1>2 DEF LansRight
    <2>4. some <=> \E v \in Wans : Consumer(v) = c /\ upstream.wan[v].active # {} BY <1>1, <1>3
    <2>5. /\ c \in upstream.consumer_up => some
          /\ some => c \in upstream.consumer_up \/ (Sta(w) /\ "usb family" \in unusual)
      <3>1. CASE w \in Stas
        <4>1. c = "USB" BY <3>1 DEF Consumer, Sta
        <4>2. some <=> \E v \in Stas : upstream.wan[v].active # {} BY <1>1, <2>4, <4>1 DEF Consumer, Sta
        <4>3. "USB" \in upstream.consumer_up => \E v \in Stas : upstream.wan[v].active # {} BY <1>4 DEF Single
        <4>4. "usb family" \notin unusual => UsbKept(upstream) BY DEF WanInv
        <4> QED BY <3>1, <4>1, <4>2, <4>3, <4>4 DEF UsbKept, Sta
      <3>2. CASE w \notin Stas
        <4>1. c = "Q6" BY <3>2 DEF Consumer, Sta
        <4>2. some <=> \E v \in Modems : upstream.wan[v].active # {} BY <2>4, <4>1 DEF Consumer, Sta, Modems
        <4>3. "Q6" \in upstream.consumer_up <=> \E v \in Modems : upstream.wan[v].active # {} BY <1>4 DEF Single
        <4> QED BY <4>1, <4>2, <4>3
      <3> QED BY <3>1, <3>2
    <2> QED BY <2>1, <2>2, <2>3, <2>5
  <1> QED BY <1>1, <1>6, <1>7, <1>8, <1>9, <1>10 DEF UpstreamAgrees

\* Whatever interfaces, addresses, links and routes the framework and netlink report, in whatever order they
\* are handled: the flags that the IPACM_Wan objects share, the lists of the tethered interfaces, the NAT table,
\* the firewall in the modem and the resource dependencies follow the upstream that is active.
THEOREM UpstreamAgreesHolds == WanSpec => []UpstreamAgrees
  <1>1. WanSpec => []WanInv BY WanInitInv, WanInvStep, PTL DEF WanSpec
  <1>2. WanInv => UpstreamAgrees BY WanInvAgrees
  <1> QED BY <1>1, <1>2, PTL
=============================================================================
