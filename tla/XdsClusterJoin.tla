--------------------------- MODULE XdsClusterJoin ---------------------------
(***************************************************************************)
(* The cluster page of xds-cluster-page.go (getXdsCluster) and the pool    *)
(* pages of pool-page.go: the subchannels of a channel, joined by address  *)
(* with the endpoints xDS assigns to a cluster.                            *)
(*                                                                         *)
(* The cluster page asks for the CSDS dump and for the subchannels in two  *)
(* goroutines; the answers are of different moments, so any dump may meet  *)
(* any set of subchannels.  Maps are functions on the keys they have.      *)
(* What the page says of a cluster's policy is in module LbPolicy.         *)
(***************************************************************************)
EXTENDS FiniteSets, Integers, LbPolicy

CONSTANTS
  Clusters,     \* names of CDS resources
  Services,     \* names of EDS resources
  Addresses,    \* host:port of endpoints and of subchannels
  NoAddress,    \* "": of an endpoint or a subchannel without one
  Port,         \* Port[a]: the port that portFromHostPort() reads in a, or 0
  PortValue,    \* the port of the endpoint that formatSocketAddress() writes as a
  Subchannels,  \* subchannel IDs
  Endpoints,    \* the sets of endpoints an EDS resource may hold
  Inline        \* those a DNS cluster may hold inline

ASSUME JoinAssumption ==
  /\ NoAddress \in Addresses
  /\ Port \in [Addresses -> Nat] /\ Port[NoAddress] = 0
  /\ PortValue \in [Addresses -> Nat] /\ \A a \in Addresses : Port[a] \in {0, PortValue[a]}
  /\ Subchannels \subseteq Nat /\ IsFiniteSet(Subchannels)
  /\ Endpoints \subseteq SUBSET Addresses
  /\ Inline \subseteq SUBSET Addresses

VARIABLES
  pc,       \* "idle", "fetching", "failed" or "shown"
  request,  \* the cluster the page is about
  csds,     \* the answer of fetchClientStatus(): dumps, {} if it failed
  live,     \* the answer of subchannelsByAddress(): addresses by ID
  waiting,  \* which of the two goroutines have not finished
  page      \* what getXdsCluster() returned

vars == <<pc, request, csds, live, waiting, page>>

MapsTo(K, V) == UNION {[keys -> V] : keys \in SUBSET K}

\* CDS resources: resolved over EDS by the name eds, or STRICT_DNS and
\* LOGICAL_DNS ones, whose endpoints are inline.
ClusterRes ==
  [dns : {FALSE}, eds : Services] \cup [dns : {TRUE}, inline : Inline]

\* What newXdsResources() makes of a dump: resources that are missing or do
\* not unmarshal are not keys.
Dumps == [clusters : MapsTo(Clusters, ClusterRes), endpoints : MapsTo(Services, Endpoints)]

LiveSets == MapsTo(Subchannels, Addresses)

\* subByAddr, the other map subchannelsByAddress() returns.
ByAddr(subs) == [a \in {subs[id] : id \in DOMAIN subs} |-> {id \in DOMAIN subs : subs[id] = a}]

IdsAt(subs, a) == IF a \in DOMAIN ByAddr(subs) THEN ByAddr(subs)[a] ELSE {}
-----------------------------------------------------------------------------
(* The join, for cluster c of a dump and the subchannels subs.             *)

IsDNSCluster(dump, c) == dump.clusters[c].dns

Assignment(dump, c) ==
  IF IsDNSCluster(dump, c) THEN dump.clusters[c].inline
  ELSE UNION {dump.endpoints[e] : e \in DOMAIN dump.endpoints \cap {dump.clusters[c].eds}}

Ports(S) == {PortValue[a] : a \in S} \ {0}

\* Subchannels attributed by address, and for a DNS cluster by port as well.
MatchedFirstOnly(dump, c, subs) ==                \* mutant: ids[0] only
  {id \in DOMAIN subs :
     \/ IsDNSCluster(dump, c) /\ Port[subs[id]] \in Ports(Assignment(dump, c))
     \/ /\ subs[id] \in Assignment(dump, c)
        /\ \A other \in IdsAt(subs, subs[id]) : id <= other}

MatchedByPort(dump, c, subs) ==                   \* mutant: for EDS clusters, too
  {id \in DOMAIN subs : Port[subs[id]] \in Ports(Assignment(dump, c))}
  \cup UNION {IdsAt(subs, a) : a \in Assignment(dump, c)}

Matched(dump, c, subs) ==
  {id \in DOMAIN subs : IsDNSCluster(dump, c) /\ Port[subs[id]] \in Ports(Assignment(dump, c))}
  \cup UNION {IdsAt(subs, a) : a \in Assignment(dump, c)}

\* The endpoint table: each endpoint with the subchannels its calls sum up.
Rows(dump, c, subs) == [a \in Assignment(dump, c) |-> IdsAt(subs, a)]

\* Addresses in any EDS resource, and ports of any DNS cluster, of the dump.
SiblingAddrs(dump) ==
  (UNION {dump.endpoints[e] : e \in DOMAIN dump.endpoints}) \ {NoAddress}
StrictDNSPorts(dump) ==
  UNION {Ports(dump.clusters[c].inline) : c \in {k \in DOMAIN dump.clusters : IsDNSCluster(dump, k)}}

UnmatchedAll(dump, c, subs) ==                    \* mutant: siblings' ports ignored
  {id \in DOMAIN subs \ Matched(dump, c, subs) : subs[id] \notin SiblingAddrs(dump)}

Unmatched(dump, c, subs) ==
  {id \in DOMAIN subs \ Matched(dump, c, subs) :
     /\ subs[id] \notin SiblingAddrs(dump)
     /\ Port[subs[id]] \notin StrictDNSPorts(dump)}

\* The pools of the cluster: its subchannels by the address they connect to.
Pools(dump, c, subs) ==
  [a \in {subs[id] : id \in Matched(dump, c, subs)} |->
     {id \in Matched(dump, c, subs) : subs[id] = a}]

ClusterPage(dump, c, subs) ==
  [rows |-> Rows(dump, c, subs), pools |-> Pools(dump, c, subs),
   unmatched |-> Unmatched(dump, c, subs)]

EmptyPage == [rows |-> << >>, pools |-> << >>, unmatched |-> {}]

\* The members writeSubchannelPool() shows for an address, whatever cluster
\* the link to it came from.
PoolMembers(subs, a) == IdsAt(subs, a)
-----------------------------------------------------------------------------
Init ==
  /\ pc = "idle" /\ request \in Clusters
  /\ csds = {} /\ live = << >> /\ waiting = {}
  /\ page = EmptyPage

\* The page of a cluster is requested: both goroutines start.
Request(c) ==
  /\ pc = "idle"
  /\ pc' = "fetching"
  /\ request' = c
  /\ waiting' = {"csds", "subs"}
  /\ UNCHANGED <<csds, live, page>>

CsdsAnswers ==
  /\ "csds" \in waiting
  /\ waiting' = waiting \ {"csds"}
  /\ \E dump \in Dumps : csds' = {dump}
  /\ UNCHANGED <<pc, request, live, page>>

CsdsFails ==
  /\ "csds" \in waiting
  /\ waiting' = waiting \ {"csds"}
  /\ UNCHANGED <<pc, request, csds, live, page>>

SubsAnswered ==
  /\ "subs" \in waiting
  /\ waiting' = waiting \ {"subs"}
  /\ live' \in LiveSets
  /\ UNCHANGED <<pc, request, csds, page>>

JoinWithoutWaiting ==                             \* mutant: one Done() too many
  /\ pc = "fetching" /\ "csds" \notin waiting
  /\ \E dump \in csds :
       /\ request \in DOMAIN dump.clusters
       /\ pc' = "shown"
       /\ page' = ClusterPage(dump, request, live)
  /\ UNCHANGED <<request, csds, live, waiting>>

\* wg.Wait(), then the join.
Join ==
  /\ pc = "fetching" /\ waiting = {}
  /\ \E dump \in csds :
       /\ request \in DOMAIN dump.clusters
       /\ pc' = "shown"
       /\ page' = ClusterPage(dump, request, live)
  /\ UNCHANGED <<request, csds, live, waiting>>

\* No dump, or no such cluster in it: the page is an error message.
JoinFails ==
  /\ pc = "fetching" /\ waiting = {}
  /\ \A dump \in csds : request \notin DOMAIN dump.clusters
  /\ pc' = "failed"
  /\ UNCHANGED <<request, csds, live, waiting, page>>

\* The page is written; nothing of it is kept.
Close ==
  /\ pc \in {"shown", "failed"}
  /\ pc' = "idle"
  /\ csds' = {} /\ live' = << >> /\ waiting' = {} /\ page' = EmptyPage
  /\ UNCHANGED request

Next ==
  \/ \E c \in Clusters : Request(c)
  \/ CsdsAnswers \/ CsdsFails \/ SubsAnswered \/ Join \/ JoinFails \/ Close

Spec == Init /\ [][Next]_vars
-----------------------------------------------------------------------------
\* Every variable has its type.
TypeOK ==
  /\ pc \in {"idle", "fetching", "failed", "shown"}
  /\ request \in Clusters
  /\ csds \subseteq Dumps /\ \A d, e \in csds : d = e
  /\ live \in LiveSets
  /\ waiting \subseteq {"csds", "subs"}
  /\ page \in [rows : MapsTo(Addresses, SUBSET Subchannels),
               pools : MapsTo(Addresses, SUBSET Subchannels),
               unmatched : SUBSET Subchannels]

\* Each pool of the cluster page has exactly the subchannels that the pool page
\* it links to lists for the address: attribution, by address or by a DNS
\* cluster's port, never splits the subchannels of one address.
PoolsMatchPoolPage ==
  pc = "shown" =>
    \A a \in DOMAIN page.pools : page.pools[a] = PoolMembers(live, a)

\* The endpoint table and the pool table agree: what an endpoint's row counts
\* is the pool of its address, and for an EDS cluster there are no other pools,
\* so that the locality totals and the pools' add up to the same.
RowsArePools ==
  pc = "shown" => \A dump \in csds :
    /\ \A a \in DOMAIN page.rows :
         page.rows[a] # {} => a \in DOMAIN page.pools /\ page.rows[a] = page.pools[a]
    /\ ~IsDNSCluster(dump, request) =>
         \A a \in DOMAIN page.pools : a \in DOMAIN page.rows

\* A subchannel this page reports as unmatched is attributed to no cluster on
\* any other page of the same dump ("it just belongs to a sibling cluster"),
\* as long as it has an address with a port.
UnmatchedBelongsNowhere ==
  pc = "shown" => \A dump \in csds : \A c \in DOMAIN dump.clusters :
    \A id \in page.unmatched \cap Matched(dump, c, live) : Port[live[id]] = 0

\* No subchannel is hidden: what this page does not report as unmatched is in a
\* pool of this or of another cluster's page, if every EDS resource in the
\* dump is one that a cluster in the dump uses.
NothingHidden ==
  pc = "shown" => \A dump \in csds :
    (\A e \in DOMAIN dump.endpoints :
       \E c \in DOMAIN dump.clusters : ~IsDNSCluster(dump, c) /\ dump.clusters[c].eds = e)
    => DOMAIN live = page.unmatched
                     \cup UNION {Matched(dump, c, live) : c \in DOMAIN dump.clusters}

\* The cluster page shows the real policy, whatever config its cluster has:
\* formatLbPolicy() and describeLbPolicy() see through five subset wrappers,
\* and never show the legacy field's default in place of a wrapper.
RealPolicyShown == pc = "shown" => FormatsRealPolicy
=============================================================================
