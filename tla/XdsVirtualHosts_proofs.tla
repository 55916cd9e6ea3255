----------------------- MODULE XdsVirtualHosts_proofs -----------------------
(***************************************************************************)
(* Proofs about XdsVirtualHosts, for any resources, dumps and channels and *)
(* for pages of any size.                                                  *)
(*                                                                         *)
(* The roles of a page on display are those that the dump and the list at  *)
(* hand give; the dial-time virtual host is one found in that dump.        *)
(***************************************************************************)
EXTENDS XdsVirtualHosts, WellFoundedInduction, TLAPS

\* What findVirtualHostForChannel() returned, from the dump on.
FoundInv ==
  /\ pc \in {"csds", "list", "shown"} => resource \in Resources
  /\ pc \in {"list", "shown"} =>
       IF FindVirtualHost(vhosts, resource) = {} THEN dialTime = Unmatched
       ELSE dialTime \in FindVirtualHost(vhosts, resource)

\* What is shown was made of the dump and the list.
ShownInv ==
  pc = "shown" =>
    roles = [n \in DOMAIN vhosts |-> Role(n, dialTime, OtherChannels(listed, request))]

IInv == TypeOK /\ FoundInv /\ ShownInv
-----------------------------------------------------------------------------
\* A map's keys and values.
LEMMA MapsToElim ==
  ASSUME NEW K, NEW V, NEW f \in MapsTo(K, V)
  PROVE  DOMAIN f \subseteq K /\ f \in [DOMAIN f -> V]
<1>1. PICK D \in SUBSET K : f \in [D -> V]
  BY DEF MapsTo
<1> QED
  BY <1>1

\* A function belongs to the maps of its type.
LEMMA MapsToIntro ==
  ASSUME NEW K, NEW V, NEW D, D \subseteq K, NEW f \in [D -> V]
  PROVE  f \in MapsTo(K, V)
  BY DEF MapsTo

\* The first page of a set of channels has channels of that set.
LEMMA ListedType ==
  ASSUME NEW all \in Channels
  PROVE  [k \in Listed(DOMAIN all, 0) |-> all[k]] \in Channels
<1>1. Listed(DOMAIN all, 0) \subseteq DOMAIN all
  BY DEF Listed, From
<1>2. DOMAIN all \subseteq IDs /\ all \in [DOMAIN all -> Resources \cup {NoXds}]
  BY MapsToElim DEF Channels
<1> HIDE DEF Listed
<1>3. [k \in Listed(DOMAIN all, 0) |-> all[k]]
        \in [Listed(DOMAIN all, 0) -> Resources \cup {NoXds}]
  BY <1>1, <1>2
<1> QED
  BY <1>1, <1>2, <1>3, MapsToIntro DEF Channels

\* Virtual hosts that are found are in the dump.
LEMMA FoundInDump ==
  ASSUME NEW vh \in Dumps, NEW r \in Resources
  PROVE  FindVirtualHost(vh, r) \subseteq DOMAIN vh
  BY DEF FindVirtualHost

\* The least-number principle, for sets.
LEMMA LeastNatural ==
  ASSUME NEW S \in SUBSET Nat, S # {}
  PROVE  \E m \in S : \A k \in S : m <= k
<1> DEFINE R == OpToRel(<, Nat)
<1>1. PICK m \in S : \A k \in S : <<k, m>> \notin R
  <2> HIDE DEF R
  <2> QED
    BY NatLessThanWellFounded, WFMin DEF R
<1>2. \A k \in S : ~ k < m
  BY <1>1 DEF OpToRel
<1> QED
  BY <1>2

\* Of several channels with the same target the last is named, and it is one of
\* them: there are so many IDs.
LEMMA MaxIsIn ==
  ASSUME NEW S \in SUBSET IDs, S # {}
  PROVE  Max(S) \in S
<1> USE VhostAssumption DEF IDs
<1> DEFINE Below == {MaxID - k : k \in S}
<1>1. Below \subseteq Nat /\ Below # {}
  <2>1. \A k \in S : MaxID - k \in Nat
    OBVIOUS
  <2> QED
    BY <2>1
<1>2. PICK b \in Below : \A d \in Below : b <= d
  <2> HIDE DEF Below
  <2> QED
    BY <1>1, LeastNatural
<1>3. PICK m \in S : b = MaxID - m
  OBVIOUS
<1>4. ASSUME NEW k \in S PROVE m >= k
  <2>1. MaxID - k \in Below
    OBVIOUS
  <2>2. b <= MaxID - k
    BY <1>2, <2>1
  <2> QED
    BY <1>3, <2>2
<1> QED
  BY <1>4 DEF Max

\* The channel named for a virtual host is another one in the list, and its
\* prefixed name is that of the virtual host.
LEMMA OthersAreDialed ==
  ASSUME NEW list \in Channels, NEW c \in IDs, NEW n \in DOMAIN OtherChannels(list, c)
  PROVE  /\ OtherChannels(list, c)[n] \in OtherXds(list, c)
         /\ Sidecar[list[OtherChannels(list, c)[n]]] = n
<1> DEFINE S == {k \in OtherXds(list, c) : Sidecar[list[k]] = n}
<1>1. S \subseteq IDs /\ S # {}
  BY MapsToElim DEF Channels, OtherChannels, OtherXds
<1>2. OtherChannels(list, c)[n] = Max(S)
  BY DEF OtherChannels
<1>3. Max(S) \in S
  BY <1>1, MaxIsIn
<1> QED
  BY <1>2, <1>3

\* How a role is read.
LEMMA RoleReads ==
  ASSUME NEW n, NEW dialed, NEW others, NEW role, role = Role(n, dialed, others)
  PROVE  /\ role.kind = "dial-time-of-channel" => n \in DOMAIN others /\ role.id = others[n]
         /\ role.kind = "call-time" => n \notin DOMAIN others
<1>1. CASE n = dialed
  <2>1. role = [kind |-> "dial-time"]
    BY <1>1 DEF Role
  <2> QED
    BY <2>1
<1>2. CASE n # dialed /\ n \in DOMAIN others
  <2>1. PICK k : k = others[n]
    OBVIOUS
  <2>2. role = [kind |-> "dial-time-of-channel", id |-> k]
    BY <1>2, <2>1 DEF Role
  <2>3. role.kind = "dial-time-of-channel" /\ role.id = k
    BY <2>2
  <2> QED
    BY <1>2, <2>1, <2>3
<1>3. CASE n # dialed /\ n \notin DOMAIN others
  <2>1. role = [kind |-> "call-time"]
    BY <1>3 DEF Role
  <2> QED
    BY <1>3, <2>1
<1> QED
  BY <1>1, <1>2, <1>3

\* A role names a channel only from among the others.
LEMMA RoleType ==
  ASSUME NEW list \in Channels, NEW c \in IDs, NEW n \in Names, NEW dialed
  PROVE  Role(n, dialed, OtherChannels(list, c)) \in Roles
<1> DEFINE others == OtherChannels(list, c)
<1>1. n \in DOMAIN others => others[n] \in IDs
  BY OthersAreDialed, MapsToElim DEF OtherXds, Channels
<1> HIDE DEF others
<1> QED
  BY <1>1 DEF Role, Roles, others
-----------------------------------------------------------------------------
\* The empty map is a map of any type.
LEMMA EmptyTypes == << >> \in Dumps /\ << >> \in Channels /\ << >> \in MapsTo(Names, Roles)
<1>1. /\ << >> \in [{} -> Fields] /\ << >> \in [{} -> Resources \cup {NoXds}]
      /\ << >> \in [{} -> Roles]
  OBVIOUS
<1> QED
  BY <1>1, MapsToIntro DEF Dumps, Channels

\* The invariant holds before the first page ...
LEMMA InitIInv == Init => IInv
  BY EmptyTypes DEF Init, IInv, TypeOK, FoundInv, ShownInv

\* ... and the sections of a page keep their types whatever the list.
LEMMA ShowRolesIInv ==
  ASSUME IInv, pc = "list", NEW list \in Channels, top' \in Channels, ShowRoles(list)
  PROVE  IInv'
<1> USE DEF IInv, TypeOK, ShowRoles
<1>1. DOMAIN vhosts \subseteq Names
  BY MapsToElim DEF Dumps
<1>2. roles' \in [DOMAIN vhosts -> Roles]
  BY <1>1, RoleType
<1>3. roles' \in MapsTo(Names, Roles)
  BY <1>1, <1>2, MapsToIntro
<1>4. TypeOK'
  BY <1>3
<1>5. FoundInv' /\ ShownInv'
  BY DEF FoundInv, ShownInv
<1> QED
  BY <1>4, <1>5

\* ... and is kept by every step.
LEMMA StepIInv == IInv /\ [Next]_vars => IInv'
<1> SUFFICES ASSUME IInv, [Next]_vars PROVE IInv'
  OBVIOUS
<1> USE DEF IInv, TypeOK
<1>1. ASSUME NEW c \in IDs, Request(c) PROVE IInv'
  BY <1>1 DEF Request, FoundInv, ShownInv
<1>2. ASSUME NEW r \in Resources, ChannelAnswered(r) PROVE IInv'
  BY <1>2 DEF ChannelAnswered, FoundInv, ShownInv
<1>3. CASE ChannelUnusable
  BY <1>3 DEF ChannelUnusable, FoundInv, ShownInv
<1>4. CASE CsdsAnswered
  <2> DEFINE found == FindVirtualHost(vhosts', resource)
  <2>1. vhosts' \in Dumps /\ resource \in Resources
    BY <1>4 DEF CsdsAnswered, FoundInv
  <2>2. found \subseteq Names
    BY <2>1, FoundInDump, MapsToElim DEF Dumps
  <2>3. dialTime' \in IF found = {} THEN {Unmatched} ELSE found
    BY <1>4 DEF CsdsAnswered
  <2>4. TypeOK'
    BY <1>4, <2>1, <2>2, <2>3 DEF CsdsAnswered
  <2>5. FoundInv'
    BY <1>4, <2>1, <2>3 DEF CsdsAnswered, FoundInv
  <2>6. ShownInv'
    BY <1>4 DEF CsdsAnswered, ShownInv
  <2> QED
    BY <2>4, <2>5, <2>6
<1>5. CASE CsdsFails
  BY <1>5 DEF CsdsFails, FoundInv, ShownInv
<1>6. CASE ChannelsListed
  BY <1>6, ListedType, ShowRolesIInv DEF ChannelsListed
<1>7. CASE ChannelsUnavailable
  BY <1>7, EmptyTypes, ShowRolesIInv DEF ChannelsUnavailable
<1>8. CASE Close
  BY <1>8, EmptyTypes DEF Close, FoundInv, ShownInv
<1>9. CASE UNCHANGED vars
  BY <1>9 DEF vars, FoundInv, ShownInv
<1> QED
  BY <1>1, <1>2, <1>3, <1>4, <1>5, <1>6, <1>7, <1>8, <1>9 DEF Next
-----------------------------------------------------------------------------
\* The strengthened invariant holds in every reachable state.
LEMMA Invariance == Spec => []IInv
<1> QED
  BY InitIInv, StepIInv, PTL DEF Spec

\* Every variable keeps its type.
THEOREM TypeCorrect == Spec => []TypeOK
<1>1. IInv => TypeOK
  BY DEF IInv
<1> QED
  BY <1>1, Invariance, PTL

\* A page never names a channel whose own page disagrees.
THEOREM NamedChannelsAgree == Spec => []NamedChannelAgrees
<1>1. IInv => NamedChannelAgrees
  <2> SUFFICES ASSUME IInv, pc = "shown", NEW n \in DOMAIN roles,
                      roles[n].kind = "dial-time-of-channel"
               PROVE  /\ roles[n].id \in DOMAIN listed \ {request}
                      /\ FindVirtualHost(vhosts, listed[roles[n].id]) = {n}
    BY DEF NamedChannelAgrees
  <2> DEFINE others == OtherChannels(listed, request)
  <2>1. n \in DOMAIN vhosts /\ roles[n] = Role(n, dialTime, others)
    BY DEF IInv, ShownInv
  <2>2. listed \in Channels /\ request \in IDs
    BY DEF IInv, TypeOK
  <2>3. n \in DOMAIN others /\ roles[n].id = others[n]
    <3> HIDE DEF others
    <3> QED
      BY <2>1, RoleReads
  <2>4. others[n] \in OtherXds(listed, request) /\ Sidecar[listed[others[n]]] = n
    BY <2>2, <2>3, OthersAreDialed
  <2> QED
    BY <2>1, <2>3, <2>4 DEF OtherXds, FindVirtualHost
<1> QED
  BY <1>1, Invariance, PTL

\* What a page calls call-time is, on the pages of the listed channels, at most
\* a fallback.
THEOREM CallTimeOnlyFallback == Spec => []CallTimeUnlessFallback
<1>1. IInv => CallTimeUnlessFallback
  <2> SUFFICES ASSUME IInv, pc = "shown", NEW n \in DOMAIN roles,
                      NEW k \in DOMAIN listed \ {request}, roles[n].kind = "call-time",
                      listed[k] # NoXds, n \in FindVirtualHost(vhosts, listed[k]),
                      Sidecar[listed[k]] \in DOMAIN vhosts
               PROVE  FALSE
    BY DEF CallTimeUnlessFallback
  <2> DEFINE others == OtherChannels(listed, request)
  <2>1. roles[n] = Role(n, dialTime, others)
    BY DEF IInv, ShownInv
  <2>2. n = Sidecar[listed[k]]
    BY DEF FindVirtualHost
  <2>3. n \in DOMAIN others
    BY <2>2 DEF OtherChannels, OtherXds
  <2> HIDE DEF others
  <2> QED
    BY <2>1, <2>3, RoleReads
<1> QED
  BY <1>1, Invariance, PTL
=============================================================================
