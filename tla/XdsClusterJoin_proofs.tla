------------------------ MODULE XdsClusterJoin_proofs -----------------------
(***************************************************************************)
(* Proofs about XdsClusterJoin, for any resources, ports and subchannels.  *)
(*                                                                         *)
(* A page on display is the join of the answers at hand: that, and the     *)
(* types, are all the induction needs.  The rest are lemmas about the join *)
(* itself, for any dump and any subchannels, and about the names of the    *)
(* nested load-balancing policies, for any nesting up to the limit.        *)
(***************************************************************************)
EXTENDS XdsClusterJoin, TLAPS

\* What is shown was joined from both answers.
ShownIsJoin ==
  pc = "shown" =>
    /\ waiting = {}
    /\ \E dump \in csds :
         request \in DOMAIN dump.clusters /\ page = ClusterPage(dump, request, live)

\* There is at most one dump, and answers come to a page being fetched only.
FetchInv ==
  /\ pc = "idle" \/ "csds" \in waiting => csds = {}
  /\ waiting # {} => pc = "fetching"

IInv == TypeOK /\ ShownIsJoin /\ FetchInv
-----------------------------------------------------------------------------
\* The subchannels at an address are those connected to it.
LEMMA IdsAtDef ==
  ASSUME NEW subs \in LiveSets, NEW a
  PROVE  IdsAt(subs, a) = {id \in DOMAIN subs : subs[id] = a}
  BY DEF IdsAt, ByAddr

\* Attribution goes by address alone: it takes all subchannels of an address
\* or none.
LEMMA MatchedByAddress ==
  ASSUME NEW dump \in Dumps, NEW c \in DOMAIN dump.clusters, NEW subs \in LiveSets,
         NEW id \in DOMAIN subs
  PROVE  id \in Matched(dump, c, subs) <=>
           \/ IsDNSCluster(dump, c) /\ Port[subs[id]] \in Ports(Assignment(dump, c))
           \/ subs[id] \in Assignment(dump, c)
  BY IdsAtDef DEF Matched

\* Only subchannels that are there are attributed.
LEMMA MatchedLive ==
  ASSUME NEW dump \in Dumps, NEW c \in DOMAIN dump.clusters, NEW subs \in LiveSets
  PROVE  Matched(dump, c, subs) \subseteq DOMAIN subs
  BY IdsAtDef DEF Matched

\* A pool has every subchannel of its address.
LEMMA PoolsWhole ==
  ASSUME NEW dump \in Dumps, NEW c \in DOMAIN dump.clusters, NEW subs \in LiveSets,
         NEW a \in DOMAIN Pools(dump, c, subs)
  PROVE  Pools(dump, c, subs)[a] = IdsAt(subs, a)
<1>1. PICK id \in Matched(dump, c, subs) : subs[id] = a
  BY DEF Pools
<1>2. id \in DOMAIN subs
  BY <1>1, MatchedLive
<1>3. \A other \in DOMAIN subs : subs[other] = a => other \in Matched(dump, c, subs)
  BY <1>1, <1>2, MatchedByAddress
<1>4. Pools(dump, c, subs)[a] = {other \in Matched(dump, c, subs) : subs[other] = a}
  BY DEF Pools
<1>5. Pools(dump, c, subs)[a] = {other \in DOMAIN subs : subs[other] = a}
  BY <1>3, <1>4, MatchedLive
<1> QED
  BY <1>5, IdsAtDef

\* A function belongs to the maps of its type.
LEMMA MapsToIntro ==
  ASSUME NEW K, NEW V, NEW D, D \subseteq K, NEW f \in [D -> V]
  PROVE  f \in MapsTo(K, V)
  BY DEF MapsTo

\* What a dump holds for one of its clusters.
LEMMA DumpTypes ==
  ASSUME NEW dump \in Dumps
  PROVE  /\ DOMAIN dump.clusters \subseteq Clusters
         /\ DOMAIN dump.endpoints \subseteq Services
         /\ \A c \in DOMAIN dump.clusters : Assignment(dump, c) \subseteq Addresses
<1> USE JoinAssumption
<1>1. dump.clusters \in MapsTo(Clusters, ClusterRes)
  BY DEF Dumps
<1>2. dump.endpoints \in MapsTo(Services, Endpoints)
  BY DEF Dumps
<1>3. PICK C \in SUBSET Clusters : dump.clusters \in [C -> ClusterRes]
  BY <1>1 DEF MapsTo
<1>4. PICK E \in SUBSET Services : dump.endpoints \in [E -> Endpoints]
  BY <1>2 DEF MapsTo
<1>5. ASSUME NEW c \in DOMAIN dump.clusters
      PROVE  Assignment(dump, c) \subseteq Addresses
  <2>1. IsDNSCluster(dump, c) => dump.clusters[c].inline \subseteq Addresses
    BY <1>3 DEF ClusterRes, IsDNSCluster
  <2>2. \A e \in DOMAIN dump.endpoints : dump.endpoints[e] \subseteq Addresses
    BY <1>4
  <2> QED
    BY <2>1, <2>2 DEF Assignment
<1> QED
  BY <1>3, <1>4, <1>5

\* The parts of the page have their types.
LEMMA PageType ==
  ASSUME NEW dump \in Dumps, NEW c \in DOMAIN dump.clusters, NEW subs \in LiveSets
  PROVE  ClusterPage(dump, c, subs) \in
           [rows : MapsTo(Addresses, SUBSET Subchannels),
            pools : MapsTo(Addresses, SUBSET Subchannels),
            unmatched : SUBSET Subchannels]
<1>1. PICK D \in SUBSET Subchannels : subs \in [D -> Addresses]
  BY DEF LiveSets, MapsTo
<1>2. \A a : IdsAt(subs, a) \in SUBSET Subchannels
  BY <1>1, IdsAtDef
<1>3. Rows(dump, c, subs) \in MapsTo(Addresses, SUBSET Subchannels)
  <2>1. Rows(dump, c, subs) \in [Assignment(dump, c) -> SUBSET Subchannels]
    BY <1>2 DEF Rows
  <2> QED
    BY <2>1, DumpTypes, MapsToIntro
<1>4. Pools(dump, c, subs) \in MapsTo(Addresses, SUBSET Subchannels)
  <2> DEFINE A == {subs[id] : id \in Matched(dump, c, subs)}
  <2>1. A \subseteq Addresses
    BY <1>1, MatchedLive
  <2>2. Pools(dump, c, subs) \in [A -> SUBSET Subchannels]
    BY <1>1, MatchedLive DEF Pools
  <2> HIDE DEF A
  <2> QED
    BY <2>1, <2>2, MapsToIntro
<1>5. Unmatched(dump, c, subs) \in SUBSET Subchannels
  BY <1>1 DEF Unmatched
<1> QED
  BY <1>3, <1>4, <1>5 DEF ClusterPage
-----------------------------------------------------------------------------
\* The empty map is a map of any type.
LEMMA EmptyTypes ==
  << >> \in LiveSets /\ << >> \in MapsTo(Addresses, SUBSET Subchannels)
<1>1. << >> \in [{} -> Addresses] /\ << >> \in [{} -> SUBSET Subchannels]
  OBVIOUS
<1> QED
  BY <1>1, MapsToIntro DEF LiveSets

\* The invariant holds before the first page ...
LEMMA InitIInv == Init => IInv
<1> SUFFICES ASSUME Init PROVE IInv
  OBVIOUS
<1> QED
  BY EmptyTypes DEF Init, IInv, TypeOK, ShownIsJoin, FetchInv, EmptyPage

\* ... and is kept by every step.
LEMMA StepIInv == IInv /\ [Next]_vars => IInv'
<1> SUFFICES ASSUME IInv, [Next]_vars PROVE IInv'
  OBVIOUS
<1> USE DEF IInv, TypeOK, FetchInv
<1>1. ASSUME NEW c \in Clusters, Request(c) PROVE IInv'
  BY <1>1 DEF Request, ShownIsJoin
<1>2. CASE CsdsAnswers
  BY <1>2 DEF CsdsAnswers, ShownIsJoin
<1>3. CASE CsdsFails
  BY <1>3 DEF CsdsFails, ShownIsJoin
<1>4. CASE SubsAnswered
  BY <1>4 DEF SubsAnswered, ShownIsJoin
<1>5. CASE Join
  <2>1. PICK dump \in csds : /\ request \in DOMAIN dump.clusters
                             /\ page' = ClusterPage(dump, request, live)
    BY <1>5 DEF Join
  <2>2. page' \in [rows : MapsTo(Addresses, SUBSET Subchannels),
                   pools : MapsTo(Addresses, SUBSET Subchannels),
                   unmatched : SUBSET Subchannels]
    BY <2>1, PageType
  <2> QED
    BY <1>5, <2>1, <2>2 DEF Join, ShownIsJoin
<1>6. CASE JoinFails
  BY <1>6 DEF JoinFails, ShownIsJoin
<1>7. CASE Close
  BY <1>7, EmptyTypes DEF Close, ShownIsJoin, EmptyPage
<1>8. CASE UNCHANGED vars
  BY <1>8 DEF vars, ShownIsJoin
<1> QED
  BY <1>1, <1>2, <1>3, <1>4, <1>5, <1>6, <1>7, <1>8 DEF Next
-----------------------------------------------------------------------------
\* The strengthened invariant holds in every reachable state.
LEMMA Invariance == Spec => []IInv
<1> QED
  BY InitIInv, StepIInv, PTL DEF Spec

\* Every variable keeps its type.
THEOREM TypeCorrect == Spec => []TypeOK
<1>1. IInv => TypeOK
  BY DEF IInv
<1> QED
  BY <1>1, Invariance, PTL

\* A pool shown on a cluster's page is the pool its link leads to, whatever the
\* dump holds and however many subchannels share an address.
THEOREM PoolsAlwaysMatch == Spec => []PoolsMatchPoolPage
<1>1. IInv => PoolsMatchPoolPage
  <2> SUFFICES ASSUME IInv, pc = "shown" PROVE PoolsMatchPoolPage
    BY DEF PoolsMatchPoolPage
  <2>1. PICK dump \in csds :
          request \in DOMAIN dump.clusters /\ page = ClusterPage(dump, request, live)
    BY DEF IInv, ShownIsJoin
  <2>2. page.pools = Pools(dump, request, live) /\ dump \in Dumps /\ live \in LiveSets
    BY <2>1 DEF ClusterPage, IInv, TypeOK
  <2> QED
    BY <2>1, <2>2, PoolsWhole DEF PoolsMatchPoolPage, PoolMembers
<1> QED
  BY <1>1, Invariance, PTL

\* The endpoint table counts whole pools, and for an EDS cluster all of them.
THEOREM RowsAlwaysPools == Spec => []RowsArePools
<1>1. IInv => RowsArePools
  <2> SUFFICES ASSUME IInv, pc = "shown", NEW dump \in csds
               PROVE  /\ \A a \in DOMAIN page.rows :
                           page.rows[a] # {} => /\ a \in DOMAIN page.pools
                                                /\ page.rows[a] = page.pools[a]
                      /\ ~IsDNSCluster(dump, request) =>
                           \A a \in DOMAIN page.pools : a \in DOMAIN page.rows
    BY DEF RowsArePools
  <2>1. request \in DOMAIN dump.clusters /\ page = ClusterPage(dump, request, live)
    BY DEF IInv, ShownIsJoin, TypeOK
  <2>2. dump \in Dumps /\ live \in LiveSets
    BY DEF IInv, TypeOK
  <2>3. page.rows = Rows(dump, request, live) /\ page.pools = Pools(dump, request, live)
    BY <2>1 DEF ClusterPage
  <2>4. DOMAIN page.pools = {live[id] : id \in Matched(dump, request, live)}
    BY <2>3 DEF Pools
  <2>5. DOMAIN page.rows = Assignment(dump, request)
    BY <2>3 DEF Rows
  <2>6. ASSUME NEW a \in DOMAIN page.rows, page.rows[a] # {}
        PROVE  a \in DOMAIN page.pools /\ page.rows[a] = page.pools[a]
    <3>1. page.rows[a] = IdsAt(live, a)
      BY <2>3, <2>5 DEF Rows
    <3>2. PICK id \in DOMAIN live : live[id] = a
      BY <2>2, <2>6, <3>1, IdsAtDef
    <3>3. id \in Matched(dump, request, live)
      BY <2>1, <2>2, <2>5, <3>2, MatchedByAddress
    <3>4. a \in DOMAIN page.pools
      BY <2>4, <3>2, <3>3
    <3> QED
      BY <2>1, <2>2, <2>3, <3>1, <3>4, PoolsWhole
  <2>7. ASSUME ~IsDNSCluster(dump, request), NEW a \in DOMAIN page.pools
        PROVE  a \in DOMAIN page.rows
    <3>1. PICK id \in Matched(dump, request, live) : live[id] = a
      BY <2>4
    <3>2. id \in DOMAIN live
      BY <2>1, <2>2, MatchedLive
    <3> QED
      BY <2>1, <2>2, <2>5, <2>7, <3>1, <3>2, MatchedByAddress
  <2> QED
    BY <2>6, <2>7
<1> QED
  BY <1>1, Invariance, PTL

\* No page reports as unmatched what another page of the same dump attributes
\* to its cluster, save for subchannels without a usable address.
THEOREM UnmatchedNowhere == Spec => []UnmatchedBelongsNowhere
<1>1. IInv => UnmatchedBelongsNowhere
  <2> SUFFICES ASSUME IInv, pc = "shown", NEW dump \in csds,
                      NEW c \in DOMAIN dump.clusters,
                      NEW id \in page.unmatched \cap Matched(dump, c, live)
               PROVE  Port[live[id]] = 0
    BY DEF UnmatchedBelongsNowhere
  <2> USE JoinAssumption
  <2>1. request \in DOMAIN dump.clusters /\ page = ClusterPage(dump, request, live)
    BY DEF IInv, ShownIsJoin, TypeOK
  <2>2. dump \in Dumps /\ live \in LiveSets
    BY DEF IInv, TypeOK
  <2>3. id \in Unmatched(dump, request, live)
    BY <2>1 DEF ClusterPage
  <2>4. id \in DOMAIN live /\ live[id] \notin SiblingAddrs(dump)
                          /\ Port[live[id]] \notin StrictDNSPorts(dump)
    BY <2>3 DEF Unmatched
  <2>5. CASE IsDNSCluster(dump, c)
    <3>1. Assignment(dump, c) = dump.clusters[c].inline
      BY <2>5 DEF Assignment
    <3>2. Ports(Assignment(dump, c)) \subseteq StrictDNSPorts(dump)
      BY <2>5, <3>1 DEF StrictDNSPorts, IsDNSCluster
    <3>3. live[id] \in Assignment(dump, c)
      BY <2>2, <2>4, <3>2, MatchedByAddress
    <3>4. Port[live[id]] \notin Ports(Assignment(dump, c))
      BY <2>4, <3>2
    <3>5. live[id] \in Addresses
      <4>1. PICK keys \in SUBSET Subchannels : live \in [keys -> Addresses]
        BY <2>2 DEF LiveSets, MapsTo
      <4> QED
        BY <2>4, <4>1
    <3> QED
      BY <3>3, <3>4, <3>5 DEF Ports
  <2>6. CASE ~IsDNSCluster(dump, c)
    <3>1. live[id] \in Assignment(dump, c)
      BY <2>2, <2>4, <2>6, MatchedByAddress
    <3>2. \E e \in DOMAIN dump.endpoints : live[id] \in dump.endpoints[e]
      BY <2>6, <3>1 DEF Assignment
    <3>3. live[id] = NoAddress
      BY <2>4, <3>2 DEF SiblingAddrs
    <3> QED
      BY <3>3
  <2> QED
    BY <2>5, <2>6
<1> QED
  BY <1>1, Invariance, PTL

\* No subchannel is missing from all pages of a dump whose EDS resources all
\* belong to clusters in it.
THEOREM NeverHidden == Spec => []NothingHidden
<1>1. IInv => NothingHidden
  <2> SUFFICES ASSUME IInv, pc = "shown", NEW dump \in csds,
                      \A e \in DOMAIN dump.endpoints :
                        \E c \in DOMAIN dump.clusters :
                          ~IsDNSCluster(dump, c) /\ dump.clusters[c].eds = e
               PROVE  DOMAIN live = page.unmatched
                        \cup UNION {Matched(dump, c, live) : c \in DOMAIN dump.clusters}
    BY DEF NothingHidden
  <2>1. request \in DOMAIN dump.clusters /\ page = ClusterPage(dump, request, live)
    BY DEF IInv, ShownIsJoin, TypeOK
  <2>2. dump \in Dumps /\ live \in LiveSets
    BY DEF IInv, TypeOK
  <2>3. page.unmatched = Unmatched(dump, request, live)
    BY <2>1 DEF ClusterPage
  <2>4. page.unmatched \subseteq DOMAIN live
    BY <2>3 DEF Unmatched
  <2>5. \A c \in DOMAIN dump.clusters : Matched(dump, c, live) \subseteq DOMAIN live
    BY <2>2, MatchedLive
  <2>6. ASSUME NEW id \in DOMAIN live, id \notin page.unmatched
        PROVE  \E c \in DOMAIN dump.clusters : id \in Matched(dump, c, live)
    <3>1. CASE id \in Matched(dump, request, live)
      BY <2>1, <3>1
    <3>2. CASE live[id] \in SiblingAddrs(dump)
      <4>1. PICK e \in DOMAIN dump.endpoints : live[id] \in dump.endpoints[e]
        BY <3>2 DEF SiblingAddrs
      <4>2. PICK c \in DOMAIN dump.clusters :
              ~IsDNSCluster(dump, c) /\ dump.clusters[c].eds = e
        BY <4>1
      <4>3. live[id] \in Assignment(dump, c)
        BY <4>1, <4>2 DEF Assignment
      <4> QED
        BY <2>2, <2>6, <4>3, MatchedByAddress
    <3>3. CASE Port[live[id]] \in StrictDNSPorts(dump)
      <4>1. PICK c \in DOMAIN dump.clusters :
              /\ IsDNSCluster(dump, c)
              /\ Port[live[id]] \in Ports(dump.clusters[c].inline)
        BY <3>3 DEF StrictDNSPorts
      <4> QED
        BY <2>2, <2>6, <4>1, MatchedByAddress DEF Assignment
    <3> QED
      BY <2>3, <2>6, <3>1, <3>2, <3>3 DEF Unmatched
  <2> QED
    BY <2>4, <2>5, <2>6
<1> QED
  BY <1>1, Invariance, PTL

-----------------------------------------------------------------------------
(* The name of the policy *)

Configs == DOMAIN ShortName \cup {Subset, Garbled}

\* What describeLbPolicy() makes of the innermost policy, if it gets that far ...
InnermostName(inner) == NameAt(inner, 0, NoName)

\* ... and what the call for depth d does, of n wrappers around it.
WrappedName(n, inner, d) ==
  IF d = n THEN InnermostName(inner)
  ELSE IF n > 5 \/ InnermostName(inner) = NoName THEN "SUBSET" ELSE InnermostName(inner)

\* "SUBSET" is not the empty name.
LEMMA SubsetIsName == NoName # "SUBSET"
  BY Zenon DEF NoName

\* A call returns one of the names if the next does.
LEMMA NameAtType ==
  ASSUME NEW cfg \in Seq(Configs), NEW d \in Nat, NEW inner \in Names
  PROVE  NameAt(cfg, d, inner) \in Names
<1>1. CASE d >= Len(cfg)
  BY <1>1 DEF NameAt, Names
<1>2. CASE d < Len(cfg)
  <2>1. cfg[d + 1] \in Configs
    BY <1>2
  <2> QED
    BY <1>2, <2>1, PolicyAssumption DEF NameAt, Names, Configs, NameOrSubset
<1> QED
  BY <1>1, <1>2

\* The recursion of describeLbPolicy() ends, for every config.
LEMMA DescriptionExists ==
  ASSUME NEW cfg \in Seq(Configs)
  PROVE  \E name \in [0 .. MaxDepth + 1 -> Names] : NamesAtDepths(cfg, name)
<1> DEFINE l6 == NoName
           l5 == NameAt(cfg, 5, l6)
           l4 == NameAt(cfg, 4, l5)
           l3 == NameAt(cfg, 3, l4)
           l2 == NameAt(cfg, 2, l3)
           l1 == NameAt(cfg, 1, l2)
           l0 == NameAt(cfg, 0, l1)
           name == [d \in 0 .. 6 |->
                      IF d = 0 THEN l0 ELSE IF d = 1 THEN l1 ELSE IF d = 2 THEN l2
                      ELSE IF d = 3 THEN l3 ELSE IF d = 4 THEN l4 ELSE IF d = 5 THEN l5
                      ELSE l6]
<1>1. /\ l6 \in Names /\ l6 = NoName
      /\ l5 \in Names /\ l5 = NameAt(cfg, 5, l6)
      /\ l4 \in Names /\ l4 = NameAt(cfg, 4, l5)
      /\ l3 \in Names /\ l3 = NameAt(cfg, 3, l4)
      /\ l2 \in Names /\ l2 = NameAt(cfg, 2, l3)
      /\ l1 \in Names /\ l1 = NameAt(cfg, 1, l2)
      /\ l0 \in Names /\ l0 = NameAt(cfg, 0, l1)
  <2>6. l6 \in Names
    BY DEF Names
  <2> HIDE DEF l6
  <2>5. l5 \in Names
    BY <2>6, NameAtType
  <2> HIDE DEF l5
  <2>4. l4 \in Names
    BY <2>5, NameAtType
  <2> HIDE DEF l4
  <2>3. l3 \in Names
    BY <2>4, NameAtType
  <2> HIDE DEF l3
  <2>2. l2 \in Names
    BY <2>3, NameAtType
  <2> HIDE DEF l2
  <2>1. l1 \in Names
    BY <2>2, NameAtType
  <2> HIDE DEF l1
  <2>0. l0 \in Names
    BY <2>1, NameAtType
  <2> HIDE DEF l0
  <2> QED
    BY <2>0, <2>1, <2>2, <2>3, <2>4, <2>5, <2>6 DEF l0, l1, l2, l3, l4, l5, l6
<1> HIDE DEF l0, l1, l2, l3, l4, l5, l6
<1>2. name \in [0 .. 6 -> Names]
  BY <1>1
<1>3. /\ name[0] = l0 /\ name[1] = l1 /\ name[2] = l2 /\ name[3] = l3
      /\ name[4] = l4 /\ name[5] = l5 /\ name[6] = l6
  OBVIOUS
<1> HIDE DEF name
<1>4. ASSUME NEW d \in 0 .. 5 PROVE name[d] = NameAt(cfg, d, name[d + 1])
  <2>0. CASE d = 0
    <3>1. d + 1 = 1
      BY <2>0
    <3> QED
      BY <2>0, <3>1, <1>1, <1>3, Zenon
  <2>1. CASE d = 1
    <3>1. d + 1 = 2
      BY <2>1
    <3> QED
      BY <2>1, <3>1, <1>1, <1>3, Zenon
  <2>2. CASE d = 2
    <3>1. d + 1 = 3
      BY <2>2
    <3> QED
      BY <2>2, <3>1, <1>1, <1>3, Zenon
  <2>3. CASE d = 3
    <3>1. d + 1 = 4
      BY <2>3
    <3> QED
      BY <2>3, <3>1, <1>1, <1>3, Zenon
  <2>4. CASE d = 4
    <3>1. d + 1 = 5
      BY <2>4
    <3> QED
      BY <2>4, <3>1, <1>1, <1>3, Zenon
  <2>5. CASE d = 5
    <3>1. d + 1 = 6
      BY <2>5
    <3> QED
      BY <2>5, <3>1, <1>1, <1>3, Zenon
  <2> QED
    BY <2>0, <2>1, <2>2, <2>3, <2>4, <2>5
<1>5. MaxDepth = 5 /\ MaxDepth + 1 = 6
  BY DEF MaxDepth
<1>6. NamesAtDepths(cfg, name)
  BY <1>1, <1>3, <1>4, <1>5 DEF NamesAtDepths
<1> QED
  BY <1>2, <1>5, <1>6

\* What stands at each depth of a wrapped policy.
LEMMA WrappedAt ==
  ASSUME NEW n \in Nat, NEW inner \in Innermost
  PROVE  /\ Wrapped(n, inner) \in Seq(Configs)
         /\ Len(Wrapped(n, inner)) = n + Len(inner)
         /\ \A d \in 0 .. n - 1 : Wrapped(n, inner)[d + 1] = Subset
         /\ inner # <<>> => Wrapped(n, inner)[n + 1] = inner[1]
<1> DEFINE outer == [i \in 1 .. n |-> Subset]
<1>1. outer \in Seq(Configs) /\ Len(outer) = n /\ \A d \in 0 .. n - 1 : outer[d + 1] = Subset
  BY DEF Configs
<1>2. inner \in Seq(Configs) /\ Len(inner) \in 0 .. 1 /\ (inner # <<>> => Len(inner) = 1)
  <2>1. CASE inner = <<>>
    BY <2>1
  <2>2. CASE inner = <<Garbled>>
    BY <2>2 DEF Configs
  <2>3. ASSUME NEW u \in DOMAIN ShortName, inner = <<u>>
        PROVE  inner \in Seq(Configs) /\ Len(inner) = 1
    BY <2>3 DEF Configs
  <2> QED
    BY <2>1, <2>2, <2>3 DEF Innermost
<1> HIDE DEF outer
<1>3. Wrapped(n, inner) = outer \o inner
  BY DEF Wrapped, outer
<1> QED
  BY <1>1, <1>2, <1>3

\* What the call for depth d returns, of n wrappers around a policy, if those
\* for the depths below d do as they should.
LEMMA NameOfWrapped ==
  ASSUME NEW n \in Nat, NEW inner \in Innermost, NEW d \in 0 .. 5, d <= n, NEW next,
         d = 5 => next = NoName,
         d < 5 /\ d < n => next = WrappedName(n, inner, d + 1)
  PROVE  NameAt(Wrapped(n, inner), d, next) = WrappedName(n, inner, d)
<1>1. CASE d = n
  <2>1. CASE inner = <<>>
    BY <1>1, <2>1, WrappedAt DEF NameAt, WrappedName, InnermostName
  <2>2. CASE inner # <<>>
    <3>1. Len(inner) = 1 /\ inner[1] # Subset
      BY <2>2, PolicyAssumption DEF Innermost
    <3>2. Wrapped(n, inner)[n + 1] = inner[0 + 1]
      BY <2>2, WrappedAt
    <3>3. ~ n >= Len(Wrapped(n, inner)) /\ ~ 0 >= Len(inner)
      <4>1. Len(Wrapped(n, inner)) = n + 1
        BY <3>1, WrappedAt
      <4> QED
        BY <3>1, <4>1
    <3> QED
      BY <1>1, <3>1, <3>2, <3>3 DEF NameAt, WrappedName, InnermostName
  <2> QED
    BY <2>1, <2>2
<1>2. CASE d < n
  <2>1. Wrapped(n, inner)[d + 1] = Subset /\ ~ d >= Len(Wrapped(n, inner))
    <3>1. Len(inner) \in Nat
      BY DEF Innermost
    <3>2. Len(Wrapped(n, inner)) = n + Len(inner)
      BY WrappedAt
    <3>3. d \in 0 .. n - 1
      BY <1>2
    <3>4. Wrapped(n, inner)[d + 1] = Subset
      BY <3>3, WrappedAt
    <3> HIDE DEF Wrapped
    <3> QED
      BY <1>2, <3>1, <3>2, <3>4
  <2>2. NameAt(Wrapped(n, inner), d, next) = NameOrSubset(next)
    BY <2>1, PolicyAssumption DEF NameAt
  <2>3. CASE d = 5
    BY <1>2, <2>2, <2>3 DEF NameOrSubset, WrappedName
  <2>4. CASE d # 5 /\ d + 1 = n
    BY <1>2, <2>2, <2>4 DEF NameOrSubset, WrappedName
  <2>5. CASE d # 5 /\ d + 1 < n
    BY <1>2, <2>2, <2>5 DEF NameOrSubset, WrappedName
  <2> QED
    BY <1>2, <2>3, <2>4, <2>5
<1> QED
  BY <1>1, <1>2

\* The name of a wrapped policy: the innermost one's, through up to five wrappers.
LEMMA DescribeWrapped ==
  ASSUME NEW n \in Nat, NEW inner \in Innermost
  PROVE  DescribeLbPolicy(Wrapped(n, inner)) = WrappedName(n, inner, 0)
<1> DEFINE cfg == Wrapped(n, inner)
<1>1. cfg \in Seq(Configs)
  BY WrappedAt
<1> HIDE DEF cfg
<1>2. PICK name \in [0 .. MaxDepth + 1 -> Names] :
        NamesAtDepths(cfg, name) /\ DescribeLbPolicy(cfg) = name[0]
  BY <1>1, DescriptionExists DEF DescribeLbPolicy
<1>3. name[6] = NoName /\ \A d \in 0 .. 5 : name[d] = NameAt(cfg, d, name[d + 1])
  <2>1. MaxDepth = 5 /\ MaxDepth + 1 = 6
    BY DEF MaxDepth
  <2> QED
    BY <1>2, <2>1 DEF NamesAtDepths
<1> DEFINE Right(d) == d <= n => name[d] = WrappedName(n, inner, d)
<1>4. Right(5)
  <2>1. name[5] = NameAt(cfg, 5, NoName)
    <3>1. 5 \in 0 .. 5 /\ 5 + 1 = 6
      OBVIOUS
    <3> QED
      BY <1>3, <3>1, Zenon
  <2>2. 5 <= n => NameAt(cfg, 5, NoName) = WrappedName(n, inner, 5)
    BY NameOfWrapped DEF cfg
  <2> QED
    BY <2>1, <2>2
<1>5. ASSUME NEW d \in 0 .. 4, Right(d + 1) PROVE Right(d)
  <2>0. d \in 0 .. 5
    OBVIOUS
  <2>1. name[d] = NameAt(cfg, d, name[d + 1])
    BY <1>3, <2>0, Zenon
  <2>2. d <= n => NameAt(cfg, d, name[d + 1]) = WrappedName(n, inner, d)
    BY <1>5, NameOfWrapped DEF cfg
  <2> QED
    BY <2>1, <2>2
<1> HIDE DEF Right
<1>6. Right(4) /\ Right(3) /\ Right(2) /\ Right(1) /\ Right(0)
  <2>1. Right(4)
    BY <1>4, <1>5
  <2>2. Right(3)
    BY <2>1, <1>5
  <2>3. Right(2)
    BY <2>2, <1>5
  <2>4. Right(1)
    BY <2>3, <1>5
  <2> QED
    BY <2>1, <2>2, <2>3, <2>4, <1>5
<1> QED
  BY <1>2, <1>6 DEF Right, cfg

\* formatLbPolicy() names the real policy, whatever wraps it.
LEMMA RealPolicyFormatted == FormatsRealPolicy
<1> SUFFICES ASSUME NEW n \in 0 .. MaxWrappers, NEW legacy \in LegacyNames, NEW inner \in Innermost
             PROVE  FormatLbPolicy(<<Wrapped(n, inner)>>, legacy) =
                      CASE inner \in {<<u>> : u \in Named} /\ n <= 5 -> ShortName[inner[1]]
                        [] n = 0 /\ inner \notin {<<u>> : u \in Named \cup {Garbled}} -> legacy
                        [] OTHER -> "SUBSET"
  BY DEF FormatsRealPolicy, FormatLbPolicy
<1>0. n \in Nat
  BY PolicyAssumption
<1> DEFINE base == InnermostName(inner)
           name == WrappedName(n, inner, 0)
<1>1. FormatLbPolicy(<<Wrapped(n, inner)>>, legacy) = IF name = NoName THEN legacy ELSE name
  <2>1. DescribeLbPolicy(<<Wrapped(n, inner)>>[1]) = name
    BY <1>0, DescribeWrapped
  <2> HIDE DEF name
  <2> QED
    BY <2>1 DEF FormatLbPolicy
<1>2. CASE inner = <<>>
  <2>1. base = NoName /\ \A u : inner # <<u>>
    BY <1>2 DEF InnermostName, NameAt
  <2> QED
    BY <1>0, <1>1, <2>1, SubsetIsName DEF WrappedName
<1>3. CASE inner = <<Garbled>>
  <2>1. base = "SUBSET" /\ \A u : inner = <<u>> => u = Garbled
    <3>1. inner[0 + 1] = Garbled /\ ~ 0 >= Len(inner)
      BY <1>3
    <3>2. base = "SUBSET"
      BY <3>1, PolicyAssumption DEF InnermostName, NameAt
    <3>3. \A u : inner = <<u>> => u = Garbled
      BY <1>3
    <3> QED
      BY <3>2, <3>3
  <2>2. inner \notin {<<u>> : u \in Named} /\ inner \in {<<u>> : u \in Named \cup {Garbled}}
    BY <1>3, <2>1, PolicyAssumption DEF Named
  <2> QED
    BY <1>0, <1>1, <2>1, <2>2, SubsetIsName DEF WrappedName
<1>4. ASSUME NEW u \in DOMAIN ShortName, inner = <<u>>
      PROVE  FormatLbPolicy(<<Wrapped(n, inner)>>, legacy) =
               CASE inner \in {<<v>> : v \in Named} /\ n <= 5 -> ShortName[inner[1]]
                 [] n = 0 /\ inner \notin {<<v>> : v \in Named \cup {Garbled}} -> legacy
                 [] OTHER -> "SUBSET"
  <2>1. base = ShortName[u] /\ inner[1] = u /\ \A v : inner = <<v>> => v = u
    BY <1>4, PolicyAssumption DEF InnermostName, NameAt
  <2>2. /\ inner \in {<<v>> : v \in Named} <=> ShortName[u] # NoName
        /\ inner \in {<<v>> : v \in Named \cup {Garbled}} <=> ShortName[u] # NoName
    BY <1>4, <2>1, PolicyAssumption DEF Named
  <2> QED
    BY <1>0, <1>1, <2>1, <2>2, SubsetIsName DEF WrappedName
<1> QED
  BY <1>2, <1>3, <1>4 DEF Innermost

\* The cluster page shows the policy within five subset wrappers, and the legacy
\* field only if there is no other name: for all configs and policy names.
THEOREM RealPolicyAlwaysShown == Spec => []RealPolicyShown
<1>1. RealPolicyShown
  BY RealPolicyFormatted DEF RealPolicyShown
<1> QED
  BY <1>1, PTL
=============================================================================
