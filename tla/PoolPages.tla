------------------------------ MODULE PoolPages -----------------------------
(***************************************************************************)
(* The pages of pool-page.go: the list of a channel's subchannels grouped  *)
(* by address, and the page of one address, which asks for the subchannels *)
(* anew and then, if a cluster is named, for the xDS dump.                 *)
(*                                                                         *)
(* subchannelsByAddress() is one step here (SubchannelFanout is its        *)
(* inside); it answers with nothing when its RPC fails, and without those  *)
(* subchannels whose own RPC fails.  Addresses are numbers, in the order   *)
(* of their strings.                                                       *)
(***************************************************************************)
EXTENDS Naturals, FiniteSets, Sequences, SequencesExt

CONSTANTS
  SubIDs, Addresses,
  Limits,    \* values of max_concurrent_streams
  Unset,
  NoCluster  \* there is none of that name in the dump, or none was named

\* A cluster's HTTP/2 options: in the typed extension, whose protocol config is
\* of some kind, and in the deprecated field.
Options ==
  {c \in [ext : {"absent", "garbled", "explicit", "downstream", "auto"},
          limit : Limits \cup {Unset}, deprecated : Limits \cup {Unset}] :
     c.ext \in {"absent", "garbled"} => c.limit = Unset}

ASSUME PoolAssumption ==
  /\ SubIDs \subseteq Nat /\ IsFiniteSet(SubIDs)
  /\ Addresses \subseteq Nat \ {0}
  /\ NoCluster \notin Options

VARIABLES
  subs,   \* the address of each open subchannel
  list,   \* the list last shown, and of which subchannels it was made
  poolPc, \* "idle", or "csds" while the pool page asks for the dump
  pool    \* the pool page being written or last shown; history: read is the
          \* cluster when the page asked, fetched whether it got an answer

poolVars == <<subs, list, poolPc, pool>>

None == [n \in {} |-> 0]

\* What subchannelsByAddress() may find of the subchannels s.
Found(s) == {[n \in ids |-> s[n]] : ids \in SUBSET DOMAIN s}

ByAddress(s, a) == {n \in DOMAIN s : s[n] = a}

\* Lowest first.
Sorted(ids) ==
  [i \in 1 .. Cardinality(ids) |->
     CHOOSE n \in ids : Cardinality({m \in ids : m < n}) = i - 1]

-----------------------------------------------------------------------------
DeprecatedFirst(c) ==  \* mutant: the deprecated field hides the extension
  IF c.deprecated # Unset THEN c.deprecated
  ELSE IF c.ext \in {"explicit", "downstream"} THEN c.limit ELSE Unset

MaxConcurrentStreams(c) ==
  IF c.ext \in {"explicit", "downstream"} /\ c.limit # Unset THEN c.limit ELSE c.deprecated

\* The rows as they come out of the Go map, in any order.
Rows(s) == {[addr |-> a, ids |-> Sorted(ByAddress(s, a))] : a \in {s[n] : n \in DOMAIN s}}

CountOnly(r, t) ==  \* mutant: no tie-break
  Len(r.ids) > Len(t.ids)

\* The comparison of sort.Slice, which is not stable.
Before(r, t) ==
  \/ Len(r.ids) > Len(t.ids)
  \/ Len(r.ids) = Len(t.ids) /\ r.addr < t.addr

Lists(s) ==
  {rows \in SetToSeqs(Rows(s)) : \A i, j \in DOMAIN rows : i < j => ~Before(rows[j], rows[i])}

Members(s, a) == Sorted(ByAddress(s, a))

-----------------------------------------------------------------------------
PoolInit ==
  /\ subs = None
  /\ list = [of |-> None, rows |-> <<>>]
  /\ poolPc = "idle"
  /\ pool = [of |-> None, addr |-> 0, named |-> FALSE, members |-> <<>>, max |-> Unset,
             read |-> NoCluster, fetched |-> FALSE]

OpenSubchannel(n, a) ==
  /\ n \notin DOMAIN subs
  /\ subs' = [k \in DOMAIN subs \cup {n} |-> IF k = n THEN a ELSE subs[k]]
  /\ UNCHANGED <<list, poolPc, pool>>

CloseSubchannel(n) ==
  /\ n \in DOMAIN subs
  /\ subs' = [k \in DOMAIN subs \ {n} |-> subs[k]]
  /\ UNCHANGED <<list, poolPc, pool>>

\* writeSubchannelPools()
WriteSubchannelPools ==
  /\ poolPc = "idle"
  /\ \E s \in Found(subs) : \E rows \in Lists(s) : list' = [of |-> s, rows |-> rows]
  /\ UNCHANGED <<subs, poolPc, pool>>

\* writeSubchannelPool(), up to the dump if it needs that.
PoolMembers(a, named) ==
  /\ poolPc = "idle"
  /\ \E s \in Found(subs) :
       pool' = [of |-> s, addr |-> a, named |-> named, members |-> Members(s, a),
                max |-> Unset, read |-> NoCluster, fetched |-> FALSE]
  /\ poolPc' = IF named THEN "csds" ELSE "idle"
  /\ UNCHANGED <<subs, list>>

\* The dump is of this later moment.  fetchClientStatus() may fail, and the
\* dump may lack the cluster.
PoolLimit ==
  /\ poolPc = "csds"
  /\ poolPc' = "idle"
  /\ \E c \in Options \cup {NoCluster} :
       \/ pool' = [pool EXCEPT !.read = c]
       \/ /\ c # NoCluster
          /\ pool' = [pool EXCEPT !.read = c, !.fetched = TRUE, !.max = MaxConcurrentStreams(c)]
  /\ UNCHANGED <<subs, list>>

PoolNext ==
  \/ \E n \in SubIDs : CloseSubchannel(n) \/ \E a \in Addresses : OpenSubchannel(n, a)
  \/ WriteSubchannelPools
  \/ \E a \in Addresses, named \in BOOLEAN : PoolMembers(a, named)
  \/ PoolLimit

PoolSpec == PoolInit /\ [][PoolNext]_poolVars

-----------------------------------------------------------------------------
(* Correctness *)

\* pool-page.go:99: the rows come in a stable order, out of a Go map and an
\* unstable sort: a list of the same subchannels is the same list.
ReloadShowsSame == [][list'.of = list.of => list'.rows = list.rows]_poolVars

\* pool-page.go:112: with a cluster's name "the page also surfaces the
\* cluster's configured max_concurrent_streams".  A limit shown is one of that
\* cluster, the extension's rather than the deprecated field's where it has
\* both; and a page that says "(unset on cluster ...)" is right, unless it could
\* not fetch the dump, or the extension is of the one kind that is not read.
LimitIsConfigured ==
  /\ pool.max # Unset =>
       /\ pool.named
       /\ pool.max \in {pool.read.limit, pool.read.deprecated}
       /\ pool.max # pool.read.limit =>
            pool.read.limit = Unset \/ pool.read.ext \notin {"explicit", "downstream"}
  /\ pool.fetched /\ pool.max = Unset =>
       /\ pool.read.deprecated = Unset
       /\ pool.read.limit = Unset \/ pool.read.ext = "auto"
=============================================================================
