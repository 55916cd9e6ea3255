---------------------------- MODULE Pages_proofs ----------------------------
(***************************************************************************)
(* Proofs about three parts of the UI that share no state, whose modules   *)
(* keep their names apart: ChannelPages, for any number of channels and    *)
(* any page size of at least two; PoolPages, for any subchannels and       *)
(* addresses; and Navigation, for any handlers, programs and names.        *)
(*                                                                         *)
(* What makes the walk through the channels complete is that a response    *)
(* leaves no channel out below one that it has; what makes it advance is   *)
(* that a response that is not the last is full.  What makes a list of     *)
(* pools the same each time is that of two rows one belongs before.  What  *)
(* makes a page of nothing tell the truth is that no ID is given out twice *)
(* and that every table links an entity to the page of its kind.           *)
(***************************************************************************)
EXTENDS ChannelPages, PoolPages, Navigation, FiniteSetTheorems,
        WellFoundedInduction, TLAPS

ChannelIDs == 1 .. MaxChannelID

\* What lies before the page requested has been seen, if it is still there ...
SeenInv == \A k \in stayed : k < start => k \in seen

\* ... and so has what lies within the page shown.
PageInv ==
  pc = "shown" =>
    /\ page \subseteq seen
    /\ \A k \in stayed :
         /\ start <= k
         /\ (~link /\ page \cap Untraced = {}) \/ \E j \in page : k <= j
         => k \in page

\* A page that links on is full.
FullInv == pc = "shown" /\ link => \E j \in page : j >= start + PageSize - 1

IInv == TypeOK /\ SeenInv /\ PageInv /\ FullInv
-----------------------------------------------------------------------------
\* The least-number principle, for sets ...
LEMMA LeastNatural ==
  ASSUME NEW S \in SUBSET Nat, S # {}
  PROVE  \E m \in S : \A k \in S : m <= k
<1> DEFINE R == OpToRel(<, Nat)
<1>1. PICK m \in S : \A k \in S : <<k, m>> \notin R
  <2> HIDE DEF R
  <2> QED
    BY NatLessThanWellFounded, WFMin DEF R
<1>2. \A k \in S : ~ k < m
  BY <1>1 DEF OpToRel
<1> QED
  BY <1>2

\* ... and its counterpart for bounded ones.
LEMMA MaxIsMax ==
  ASSUME NEW S \in SUBSET ChannelIDs, S # {}
  PROVE  Max(S) \in S /\ \A k \in S : k <= Max(S)
<1> USE MaxChannelIDAssumption DEF ChannelIDs
<1> DEFINE Distances == {MaxChannelID - k : k \in S}
<1>1. Distances \subseteq Nat /\ Distances # {}
  <2>1. \A k \in S : MaxChannelID - k \in Nat
    OBVIOUS
  <2> QED
    BY <2>1
<1>2. PICK b \in Distances : \A d \in Distances : b <= d
  <2> HIDE DEF Distances
  <2> QED
    BY <1>1, LeastNatural
<1>3. PICK m \in S : b = MaxChannelID - m
  OBVIOUS
<1>4. ASSUME NEW k \in S PROVE m >= k
  <2>1. MaxChannelID - k \in Distances
    OBVIOUS
  <2>2. b <= MaxChannelID - k
    BY <1>2, <2>1
  <2> QED
    BY <1>3, <2>2
<1>5. Max(S) \in S /\ \A k \in S : Max(S) >= k
  BY <1>4 DEF Max
<1> QED
  BY <1>5

\* Sets of ChannelIDs are finite.
LEMMA IDsFinite ==
  ASSUME NEW S \in SUBSET ChannelIDs
  PROVE  IsFiniteSet(S) /\ Cardinality(S) \in Nat
<1>1. IsFiniteSet(ChannelIDs)
  BY MaxChannelIDAssumption, FS_Interval DEF ChannelIDs
<1> QED
  BY <1>1, FS_Subset, FS_CardinalityType

\* A response leaves no channel out below one that it has.
LEMMA ListedIsPrefix ==
  ASSUME NEW ids \in SUBSET ChannelIDs, NEW from \in Nat, NEW j \in Listed(ids, from),
         NEW k \in ids, from <= k, k <= j
  PROVE  k \in Listed(ids, from)
<1> USE MaxChannelIDAssumption, PageAssumption DEF ChannelIDs
<1> DEFINE Upto(i) == {l \in From(ids, from) : l <= i}
<1>0. From(ids, from) \in SUBSET ChannelIDs /\ j \in ChannelIDs /\ k \in ChannelIDs
  BY DEF Listed, From
<1>1. Upto(k) \subseteq Upto(j) /\ Upto(j) \in SUBSET ChannelIDs
  <2>1. \A l \in From(ids, from) : l <= k => l <= j
    BY <1>0
  <2> QED
    BY <1>0, <2>1
<1>2. Cardinality(Upto(k)) <= Cardinality(Upto(j)) /\ Cardinality(Upto(k)) \in Nat
      /\ Cardinality(Upto(j)) \in Nat
  <2> HIDE DEF Upto
  <2> QED
    BY <1>1, IDsFinite, FS_Subset
<1>3. Cardinality(Upto(j)) <= PageSize
  BY DEF Listed
<1>4. Cardinality(Upto(k)) <= PageSize
  <2> HIDE DEF Upto
  <2> QED
    BY <1>2, <1>3
<1>5. k \in From(ids, from)
  BY DEF From
<1> QED
  BY <1>4, <1>5 DEF Listed

\* A page that is cut off shows the channel without a trace.
LEMMA CutShows ==
  ASSUME NEW ids \in SUBSET ChannelIDs, NEW from \in Nat, Cut(ids, from)
  PROVE  RowsWritten(ids, from) \cap Untraced # {}
<1> DEFINE U == Listed(ids, from) \cap Untraced
<1>1. U \in SUBSET Nat /\ U # {}
  <2>1. U \subseteq ids /\ ids \subseteq Nat
    BY DEF Listed, From, ChannelIDs
  <2> QED
    BY <2>1 DEF Cut
<1> HIDE DEF U
<1>2. PICK k \in U : \A j \in U : k <= j
  BY <1>1, LeastNatural
<1> QED
  BY <1>2 DEF RowsWritten, U

\* A response that is not the last reaches PageSize ChannelIDs far at least.
LEMMA ListedIsFull ==
  ASSUME NEW ids \in SUBSET ChannelIDs, NEW from \in Nat, ~Ended(ids, from)
  PROVE  \E j \in Listed(ids, from) : j >= from + PageSize - 1
<1> USE MaxChannelIDAssumption, PageAssumption DEF ChannelIDs
<1> DEFINE F == From(ids, from)
           L == Listed(ids, from)
           Extra == F \ L
<1>1. F \subseteq ids /\ L \subseteq F /\ \A l \in F : from <= l
  BY DEF Listed, From
<1>2. Extra # {} /\ Extra \in SUBSET Nat /\ F \in SUBSET Nat
  <2>1. L # F
    BY DEF Ended
  <2>2. ChannelIDs \in SUBSET Nat
    OBVIOUS
  <2> HIDE DEF F, L, ChannelIDs
  <2> QED
    BY <1>1, <2>1, <2>2
<1>3. PICK k \in Extra : \A e \in Extra : k <= e
  <2> HIDE DEF Extra
  <2> QED
    BY <1>2, LeastNatural
<1> DEFINE B == {l \in F : l < k}
           Upto == {l \in F : l <= k}
<1>4. B \subseteq L
  <2> SUFFICES ASSUME NEW l \in F, l < k PROVE l \in L
    OBVIOUS
  <2>1. l \in Nat /\ k \in Nat
    BY <1>2
  <2>2. ~(k <= l)
    BY <2>1
  <2>3. l \notin Extra
    BY <1>3, <2>2
  <2> QED
    BY <2>3
<1>5. Upto = B \cup {k} /\ k \notin B
  <2>1. k \in F /\ k \in Nat /\ \A l \in F : l \in Nat
    BY <1>2, <1>3
  <2> HIDE DEF F
  <2>2. \A l \in F : l <= k <=> l < k \/ l = k
    BY <2>1
  <2>3. ~(k < k) /\ k <= k
    BY <2>1
  <2> QED
    BY <2>1, <2>2, <2>3, Zenon
<1>6. Cardinality(Upto) > PageSize
  <2>1. ~(Cardinality(Upto) <= PageSize)
    BY <1>1, <1>3 DEF Listed
  <2>2. Upto \in SUBSET ChannelIDs
    BY <1>1
  <2>3. Cardinality(Upto) \in Nat
    <3> HIDE DEF Upto
    <3> QED
      BY <2>2, IDsFinite
  <2> HIDE DEF Upto
  <2> QED
    BY <2>1, <2>3
<1>7. B \in SUBSET ChannelIDs
  BY <1>1
<1>8. IsFiniteSet(B) /\ Cardinality(B) \in Nat
  <2> HIDE DEF B
  <2> QED
    BY <1>7, IDsFinite
<1>9. Cardinality(B) >= PageSize
  <2> HIDE DEF B, Upto
  <2>1. Cardinality(Upto) = Cardinality(B) + 1
    BY <1>5, <1>8, FS_AddElement
  <2> QED
    BY <1>6, <1>8, <2>1
<1>10. B # {}
  <2> HIDE DEF B
  <2> QED
    BY <1>9, FS_EmptySet
<1>11. Max(B) \in B /\ \A l \in B : l <= Max(B)
  <2> HIDE DEF B
  <2> QED
    BY <1>7, <1>10, MaxIsMax
<1>12. B \subseteq from .. Max(B) /\ Max(B) \in Nat /\ from <= Max(B)
  <2>1. \A l \in B : l \in Nat /\ from <= l
    BY <1>1, <1>2
  <2>2. Max(B) \in Nat /\ from <= Max(B)
    BY <1>11, <2>1
  <2>3. \A l \in B : l \in from .. Max(B)
    BY <1>11, <2>1, <2>2
  <2> QED
    BY <2>2, <2>3
<1>13. Cardinality(B) <= Max(B) - from + 1
  <2> HIDE DEF B
  <2>1. IsFiniteSet(from .. Max(B)) /\ Cardinality(from .. Max(B)) = Max(B) - from + 1
    BY <1>12, FS_Interval
  <2> QED
    BY <1>12, <2>1, FS_Subset
<1>14. Max(B) \in L /\ Max(B) >= from + PageSize - 1
  <2>1. Max(B) \in L
    BY <1>4, <1>11
  <2> HIDE DEF B
  <2> QED
    BY <1>8, <1>9, <1>12, <1>13, <2>1
<1> HIDE DEF B
<1> QED
  BY <1>14
-----------------------------------------------------------------------------
\* The invariant holds before the reader starts ...
LEMMA InitIInv == Init => IInv
<1> SUFFICES ASSUME Init PROVE IInv
  OBVIOUS
<1> USE MaxChannelIDAssumption DEF Init
<1>1. 1 .. MaxChannelID - 1 \subseteq 1 .. MaxChannelID /\ 1 .. MaxChannelID \subseteq 1 .. MaxChannelID + 1
      /\ 0 \in 0 .. MaxChannelID
  OBVIOUS
<1>2. TypeOK
  BY <1>1 DEF TypeOK
<1>3. SeenInv /\ PageInv /\ FullInv
  BY DEF SeenInv, PageInv, FullInv
<1> QED
  BY <1>2, <1>3 DEF IInv

\* ... and is kept by every step.
LEMMA StepIInv == IInv /\ [Next]_vars => IInv'
<1> SUFFICES ASSUME IInv, [Next]_vars PROVE IInv'
  OBVIOUS
<1> USE MaxChannelIDAssumption, PageAssumption DEF IInv, TypeOK
<1>1. ASSUME NEW k \in 1 .. MaxChannelID, OpenChannel(k) PROVE IInv'
  BY <1>1 DEF OpenChannel, readerVars, SeenInv, PageInv, FullInv
<1>2. ASSUME NEW k \in 1 .. MaxChannelID, CloseChannel(k) PROVE IInv'
  BY <1>2 DEF CloseChannel, readerVars, SeenInv, PageInv, FullInv
<1>3. CASE TopChannelsPage
  <2> USE <1>3 DEF TopChannelsPage
  <2>1. 0 \in 0 .. MaxChannelID /\ \A k \in channels : ~(k < 0)
    OBVIOUS
  <2>2. TypeOK'
    BY <2>1
  <2>3. SeenInv' /\ PageInv' /\ FullInv'
    BY <2>1 DEF SeenInv, PageInv, FullInv
  <2> QED
    BY <2>2, <2>3
<1>4. CASE WriteChannels
  <2> USE <1>4 DEF WriteChannels
  <2>1. /\ page' = RowsWritten(channels, start) /\ page' \subseteq channels
        /\ page' \subseteq Listed(channels, start)
    BY DEF RowsWritten, Listed, From
  <2>2. TypeOK'
    BY <2>1
  <2>3. SeenInv'
    BY DEF SeenInv
  <2>4. ASSUME NEW k \in stayed', start' <= k,
               (~link' /\ page' \cap Untraced = {}) \/ \E j \in page' : k <= j
        PROVE  k \in page'
    <3>1. k \in channels /\ start <= k /\ channels \in SUBSET ChannelIDs /\ start \in Nat
      BY <2>4 DEF ChannelIDs
    <3>2. CASE ~link' /\ page' \cap Untraced = {}
      <4>1. ~Cut(channels, start)
        BY <2>1, <3>2, CutShows DEF ChannelIDs
      <4>2. Ended(channels, start) /\ page' = Listed(channels, start)
        BY <3>2, <4>1 DEF RowsWritten, Cut
      <4> QED
        BY <3>1, <4>2 DEF Ended, From
    <3>3. CASE \E j \in page' : k <= j
      <4>1. PICK j \in page' : k <= j
        BY <3>3
      <4>2. k \in Listed(channels, start)
        BY <2>1, <3>1, <4>1, ListedIsPrefix
      <4>3. \A i \in Listed(channels, start) \cap Untraced : k <= i
        <5> SUFFICES ASSUME NEW i \in Listed(channels, start) \cap Untraced PROVE k <= i
          OBVIOUS
        <5>1. j <= i
          BY <2>1 DEF RowsWritten
        <5>2. i \in Nat /\ j \in Nat /\ k \in Nat
          BY <2>1, <3>1 DEF Listed, From, ChannelIDs
        <5> QED
          BY <4>1, <5>1, <5>2
      <4> QED
        BY <2>1, <4>2, <4>3 DEF RowsWritten
    <3> QED
      BY <2>4, <3>2, <3>3
  <2>5. PageInv'
    BY <2>4 DEF PageInv
  <2>6. FullInv'
    <3> SUFFICES ASSUME link' PROVE \E j \in page' : j >= start + PageSize - 1
      BY DEF FullInv
    <3>1. ~Ended(channels, start) /\ page' = Listed(channels, start)
      BY DEF RowsWritten, Cut
    <3> QED
      BY <3>1, ListedIsFull DEF ChannelIDs
  <2> QED
    BY <2>2, <2>3, <2>5, <2>6
<1>5. CASE WriteUnavailable
  BY <1>5 DEF WriteUnavailable, SeenInv, PageInv, FullInv
<1>6. CASE Reload
  BY <1>6 DEF Reload, SeenInv, PageInv, FullInv
<1>7. CASE FollowNext
  <2> USE <1>7 DEF FollowNext
  <2> DEFINE m == Max(page)
  <2>1. m \in page /\ m \in 1 .. MaxChannelID
    BY MaxIsMax DEF FullInv, ChannelIDs
  <2> HIDE DEF m
  <2>2. TypeOK'
    <3>1. m \in 0 .. MaxChannelID
      BY <2>1
    <3>2. start' = m
      BY DEF m
    <3> QED
      BY <3>1, <3>2
  <2>3. \A k \in stayed : k < m => k \in seen
    <3> SUFFICES ASSUME NEW k \in stayed, k < m PROVE k \in seen
      OBVIOUS
    <3>1. k \in Nat /\ m \in Nat /\ start \in Nat
      BY <2>1
    <3>2. CASE k < start
      BY <3>2 DEF SeenInv
    <3>3. CASE start <= k
      <4>1. k <= m
        BY <3>1
      <4>2. k \in page
        BY <2>1, <3>3, <4>1 DEF PageInv
      <4> QED
        BY <4>2 DEF PageInv
    <3> QED
      BY <3>1, <3>2, <3>3
  <2>4. SeenInv' /\ PageInv' /\ FullInv'
    BY <2>3 DEF SeenInv, PageInv, FullInv, m
  <2> QED
    BY <2>2, <2>4
<1>8. CASE UNCHANGED vars
  BY <1>8 DEF vars, SeenInv, PageInv, FullInv
<1> QED
  BY <1>1, <1>2, <1>3, <1>4, <1>5, <1>6, <1>7, <1>8 DEF Next
-----------------------------------------------------------------------------
\* The strengthened invariant holds in every reachable state.
LEMMA Invariance == Spec => []IInv
<1> QED
  BY InitIInv, StepIInv, PTL DEF Spec

\* Every variable keeps its type.
THEOREM TypeCorrect == Spec => []TypeOK
<1>1. IInv => TypeOK
  BY DEF IInv
<1> QED
  BY <1>1, Invariance, PTL

\* However many channels there are, and whichever have no trace, the walk leaves
\* none behind that was open all the time, and its last page none unseen, unless
\* the page was cut off.
THEOREM NoneMissed == Spec => []NoChannelMissed
<1>1. IInv => NoChannelMissed
  BY DEF IInv, TypeOK, SeenInv, PageInv, NoChannelMissed
<1> QED
  BY <1>1, Invariance, PTL

\* Each link leads on by all but one of a full page.
THEOREM AlwaysAdvances == Spec => NextAdvances
<1>1. IInv => (FollowNext => start' >= start + PageSize - 1)
  <2> SUFFICES ASSUME IInv, FollowNext PROVE start' >= start + PageSize - 1
    OBVIOUS
  <2> DEFINE m == Max(page)
             floor == start + PageSize - 1
  <2>1. PICK j \in page : j >= floor
    BY DEF IInv, FullInv, FollowNext
  <2>2. m \in page /\ j <= m
    BY <2>1, MaxIsMax DEF IInv, TypeOK, ChannelIDs
  <2>3. m \in Int /\ j \in Int /\ floor \in Int
    <3>1. page \subseteq 1 .. MaxChannelID /\ start \in 0 .. MaxChannelID
      BY DEF IInv, TypeOK
    <3>2. floor \in Int
      BY <3>1, PageAssumption, MaxChannelIDAssumption
    <3> HIDE DEF m, floor
    <3> QED
      BY <2>1, <2>2, <3>1, <3>2, MaxChannelIDAssumption
  <2>4. start' = m
    BY DEF FollowNext
  <2> HIDE DEF m, floor
  <2>5. start' >= floor
    BY <2>1, <2>2, <2>3, <2>4
  <2> QED
    BY <2>5 DEF floor
<1> QED
  BY <1>1, Invariance, PTL DEF NextAdvances
-----------------------------------------------------------------------------
(* The pool pages: proofs about PoolPages, for any number of subchannels and of
   addresses.  Its variables share nothing with those of the channel list. *)

Maps == UNION {[ids -> Addresses] : ids \in SUBSET SubIDs}

PoolsTyped ==
  /\ subs \in Maps
  /\ list \in [of : Maps, rows : Seq([addr : Addresses, ids : Seq(SubIDs)])]
  /\ poolPc \in {"idle", "csds"}
  /\ pool \in [of : Maps, addr : Addresses \cup {0}, named : BOOLEAN, members : Seq(SubIDs),
               max : Limits \cup {Unset}, read : Options \cup {NoCluster}, fetched : BOOLEAN]

\* A list is one of those its subchannels may give ...
ListInv == list.rows \in Lists(list.of)

\* ... and a page has the members that its subchannels give.
MembersInv ==
  IF pool.addr = 0 THEN pool.members = <<>>
  ELSE pool.members = Members(pool.of, pool.addr)

\* A limit is shown only if the dump was asked for and came.
LimitInv ==
  /\ poolPc = "csds" => pool.named /\ ~pool.fetched
  /\ ~pool.fetched => pool.max = Unset
  /\ pool.fetched =>
       pool.named /\ pool.read \in Options /\ pool.max = MaxConcurrentStreams(pool.read)

PoolsInv == PoolsTyped /\ ListInv /\ MembersInv /\ LimitInv

\* The values of a function.
LEMMA PoolsRange ==
  ASSUME NEW f
  PROVE  Range(f) = {f[i] : i \in DOMAIN f}
  BY DEF Range

\* The subchannels before n in the order of their IDs.
Lower(ids, n) == {m \in ids : m < n}

\* A subchannel has fewer before it than there are ...
LEMMA LowerCount ==
  ASSUME NEW ids \in SUBSET Nat, IsFiniteSet(ids), NEW n \in ids
  PROVE  IsFiniteSet(Lower(ids, n)) /\ Cardinality(Lower(ids, n)) \in 0 .. Cardinality(ids) - 1
<1>1. Lower(ids, n) \in SUBSET ids /\ n \notin Lower(ids, n)
  BY DEF Lower
<1>2. IsFiniteSet(Lower(ids, n)) /\ Cardinality(Lower(ids, n)) <= Cardinality(ids)
  BY <1>1, FS_Subset
<1>3. Cardinality(Lower(ids, n)) # Cardinality(ids)
  BY <1>1, FS_Subset
<1>4. Cardinality(Lower(ids, n)) \in Nat /\ Cardinality(ids) \in Nat
  BY <1>2, FS_CardinalityType
<1> QED
  BY <1>2, <1>3, <1>4

\* ... and one with a greater ID has more.
LEMMA LowerGrows ==
  ASSUME NEW ids \in SUBSET Nat, IsFiniteSet(ids), NEW m \in ids, NEW n \in ids, m < n
  PROVE  Cardinality(Lower(ids, m)) < Cardinality(Lower(ids, n))
<1>1. \A k \in ids : k \in Nat
  OBVIOUS
<1>2. Lower(ids, m) \in SUBSET Lower(ids, n) /\ m \in Lower(ids, n) /\ m \notin Lower(ids, m)
  <2>1. m \in Nat /\ n \in Nat
    OBVIOUS
  <2>2. \A k \in ids : k < m => k < n
    BY <1>1, <2>1
  <2>3. ~ m < m
    BY <2>1
  <2> QED
    BY <2>2, <2>3 DEF Lower
<1>3. Cardinality(Lower(ids, m)) <= Cardinality(Lower(ids, n))
  BY <1>2, LowerCount, FS_Subset
<1>4. Cardinality(Lower(ids, m)) # Cardinality(Lower(ids, n))
  BY <1>2, LowerCount, FS_Subset
<1>5. Cardinality(Lower(ids, m)) \in Int /\ Cardinality(Lower(ids, n)) \in Int
  BY LowerCount
<1> QED
  BY <1>3, <1>4, <1>5

\* So every place in the order is someone's.
LEMMA PlaceTaken ==
  ASSUME NEW ids \in SUBSET Nat, IsFiniteSet(ids), NEW i \in 1 .. Cardinality(ids)
  PROVE  \E n \in ids : Cardinality(Lower(ids, n)) = i - 1
<1> DEFINE last == Cardinality(ids) - 1
           place == [n \in ids |-> Cardinality(Lower(ids, n))]
<1>1. Cardinality(ids) \in Nat
  BY FS_CardinalityType
<1>2. place \in Injection(ids, 0 .. last)
  <2>1. place \in [ids -> 0 .. last]
    BY LowerCount
  <2>2. ASSUME NEW m \in ids, NEW n \in ids, place[m] = place[n] PROVE m = n
    <3>1. m < n \/ n < m \/ m = n
      OBVIOUS
    <3>2. place[m] \in Int
      BY LowerCount
    <3> QED
      BY <2>2, <3>1, <3>2, LowerGrows
  <2> QED
    BY <2>1, <2>2 DEF Injection, IsInjective
<1>3. IsFiniteSet(0 .. last) /\ Cardinality(0 .. last) = Cardinality(ids)
  <2>1. last \in Int /\ (IF 0 > last THEN 0 ELSE last - 0 + 1) = Cardinality(ids)
    BY <1>1
  <2> HIDE DEF last
  <2> QED
    BY <2>1, FS_Interval
<1>4. place \in Surjection(ids, 0 .. last)
  BY <1>2, <1>3, FS_Injection
<1>5. i - 1 \in 0 .. last
  BY <1>1
<1> HIDE DEF last
<1>6. PICK n \in ids : place[n] = i - 1
  <2> HIDE DEF place
  <2> QED
    BY <1>4, <1>5 DEF Surjection
<1> QED
  BY <1>6

\* What a sorted sequence of subchannels is: all of them, lowest first.
LEMMA SortedIs ==
  ASSUME NEW ids \in SUBSET Nat, IsFiniteSet(ids)
  PROVE  /\ Sorted(ids) \in [1 .. Cardinality(ids) -> ids]
         /\ Cardinality(ids) \in Nat /\ Len(Sorted(ids)) = Cardinality(ids)
         /\ \A i, j \in 1 .. Cardinality(ids) : i < j => Sorted(ids)[i] < Sorted(ids)[j]
         /\ \A n \in ids : \E i \in 1 .. Cardinality(ids) : Sorted(ids)[i] = n
<1> DEFINE N == Cardinality(ids)
           sorted == Sorted(ids)
<1>1. N \in Nat
  BY FS_CardinalityType
<1>2. sorted = [i \in 1 .. N |-> CHOOSE n \in ids : Cardinality(Lower(ids, n)) = i - 1]
  BY Zenon DEF Sorted, Lower, Cardinality, IsFiniteSet
<1> HIDE DEF N, sorted
<1>3. ASSUME NEW i \in 1 .. N
      PROVE  sorted[i] \in ids /\ Cardinality(Lower(ids, sorted[i])) = i - 1
  <2>1. \E n \in ids : Cardinality(Lower(ids, n)) = i - 1
    BY PlaceTaken DEF N
  <2>2. sorted[i] = CHOOSE n \in ids : Cardinality(Lower(ids, n)) = i - 1
    BY <1>2
  <2> QED
    BY <2>1, <2>2
<1>4. ASSUME NEW i \in 1 .. N, NEW j \in 1 .. N, i < j PROVE sorted[i] < sorted[j]
  <2>1. sorted[i] \in ids /\ sorted[j] \in ids /\ sorted[i] \in Nat /\ sorted[j] \in Nat
    BY <1>3
  <2>2. sorted[i] < sorted[j] \/ sorted[j] < sorted[i] \/ sorted[i] = sorted[j]
    BY <2>1
  <2>3. sorted[j] < sorted[i] => j - 1 < i - 1
    BY <1>3, <2>1, LowerGrows
  <2>4. sorted[i] = sorted[j] => j - 1 = i - 1
    BY <1>3
  <2> QED
    BY <1>4, <2>2, <2>3, <2>4
<1>5. ASSUME NEW n \in ids PROVE \E i \in 1 .. N : sorted[i] = n
  <2>1. PICK i \in 1 .. N : Cardinality(Lower(ids, n)) = i - 1
    <3>1. Cardinality(Lower(ids, n)) \in 0 .. N - 1
      BY LowerCount DEF N
    <3>2. Cardinality(Lower(ids, n)) + 1 \in 1 .. N
      BY <1>1, <3>1
    <3> QED
      BY <3>1, <3>2
  <2>2. /\ sorted[i] \in ids /\ sorted[i] \in Nat /\ n \in Nat
        /\ Cardinality(Lower(ids, sorted[i])) = i - 1
    BY <1>3
  <2>3. sorted[i] < n \/ n < sorted[i] \/ sorted[i] = n
    BY <2>2
  <2>4. sorted[i] < n => i - 1 < i - 1
    BY <2>1, <2>2, LowerGrows
  <2>5. n < sorted[i] => i - 1 < i - 1
    BY <2>1, <2>2, LowerGrows
  <2> QED
    BY <2>3, <2>4, <2>5
<1>6. sorted \in [1 .. N -> ids] /\ Len(sorted) = N
  <2>1. sorted \in [1 .. N -> ids]
    BY <1>2, <1>3
  <2> QED
    BY <1>1, <2>1
<1> QED
  BY <1>1, <1>4, <1>5, <1>6 DEF N, sorted

\* The subchannels of an address are some of those open.
LEMMA ByAddressType ==
  ASSUME NEW s \in Maps, NEW a
  PROVE  /\ ByAddress(s, a) = {n \in DOMAIN s : s[n] = a}
         /\ ByAddress(s, a) \in SUBSET Nat /\ IsFiniteSet(ByAddress(s, a))
         /\ DOMAIN s \in SUBSET SubIDs /\ s \in [DOMAIN s -> Addresses]
<1>1. PICK ids \in SUBSET SubIDs : s \in [ids -> Addresses]
  BY DEF Maps
<1>2. ByAddress(s, a) = {n \in DOMAIN s : s[n] = a}
  BY DEF ByAddress
<1>3. ByAddress(s, a) \in SUBSET SubIDs
  BY <1>1, <1>2
<1>4. SubIDs \in SUBSET Nat /\ IsFiniteSet(SubIDs)
  BY PoolAssumption
<1>5. IsFiniteSet(ByAddress(s, a))
  BY <1>3, <1>4, FS_Subset
<1> QED
  BY <1>1, <1>2, <1>3, <1>4, <1>5

\* A function of the first n numbers is a sequence of anything its values are in.
LEMMA FunctionIsSeq ==
  ASSUME NEW S, NEW T, S \subseteq T, NEW n \in Nat, NEW f \in [1 .. n -> S]
  PROVE  f \in Seq(T)
<1>1. f \in [1 .. n -> T]
  OBVIOUS
<1> QED
  BY <1>1

\* The members of an address are a sequence of subchannels.
LEMMA MembersType ==
  ASSUME NEW s \in Maps, NEW a
  PROVE  Members(s, a) \in Seq(SubIDs) /\ Len(Members(s, a)) \in Nat
<1> DEFINE ids == ByAddress(s, a)
<1>1. ids \in SUBSET SubIDs /\ ids \in SUBSET Nat /\ IsFiniteSet(ids)
  BY ByAddressType
<1> HIDE DEF ids
<1>2. Cardinality(ids) \in Nat /\ Sorted(ids) \in [1 .. Cardinality(ids) -> ids]
  BY <1>1, SortedIs
<1>3. Sorted(ids) \in Seq(SubIDs)
  BY <1>1, <1>2, FunctionIsSeq
<1> QED
  BY <1>3 DEF Members, ids

\* A row is its address's.
LEMMA RowIs ==
  ASSUME NEW s \in Maps, NEW r \in Rows(s)
  PROVE  /\ r.addr \in Nat \ {0} /\ r.addr \in {s[n] : n \in DOMAIN s}
         /\ r = [addr |-> r.addr, ids |-> Members(s, r.addr)]
         /\ r \in [addr : Addresses, ids : Seq(SubIDs)] /\ Len(r.ids) \in Nat
<1>1. PICK a \in {s[n] : n \in DOMAIN s} :
        r = [addr |-> a, ids |-> Sorted(ByAddress(s, a))]
  BY DEF Rows
<1>2. r.addr = a /\ r.ids = Members(s, a)
  BY <1>1 DEF Members
<1>3. a \in Addresses /\ a \in Nat \ {0}
  BY ByAddressType, PoolAssumption
<1>4. Members(s, a) \in Seq(SubIDs) /\ Len(Members(s, a)) \in Nat
  BY MembersType
<1> QED
  BY <1>1, <1>2, <1>3, <1>4 DEF Members

\* There are finitely many rows.
LEMMA RowsFinite ==
  ASSUME NEW s \in Maps
  PROVE  IsFiniteSet(Rows(s))
<1> DEFINE row(a) == [addr |-> a, ids |-> Sorted(ByAddress(s, a))]
           f == [n \in DOMAIN s |-> row(s[n])]
<1>1. IsFiniteSet(DOMAIN s)
  <2>1. DOMAIN s \in SUBSET SubIDs
    BY ByAddressType
  <2>2. IsFiniteSet(SubIDs)
    BY PoolAssumption
  <2> QED
    BY <2>1, <2>2, FS_Subset
<1>2. Rows(s) = {row(a) : a \in {s[n] : n \in DOMAIN s}}
  BY DEF Rows
<1> HIDE DEF row
<1>3. f \in Surjection(DOMAIN s, Rows(s))
  BY <1>2 DEF Surjection
<1> HIDE DEF f
<1> QED
  BY <1>1, <1>3, FS_Surjection

\* A list has every row once, none before a row that belongs before it.
LEMMA ListIs ==
  ASSUME NEW s \in Maps, NEW rows \in Lists(s)
  PROVE  /\ Cardinality(Rows(s)) \in Nat
         /\ rows \in [1 .. Cardinality(Rows(s)) -> Rows(s)]
         /\ rows \in Seq([addr : Addresses, ids : Seq(SubIDs)])
         /\ \A r \in Rows(s) : \E i \in DOMAIN rows : rows[i] = r
         /\ \A i, j \in DOMAIN rows : i # j => rows[i] # rows[j]
         /\ \A i, j \in DOMAIN rows : i < j => ~Before(rows[j], rows[i])
<1> DEFINE N == Cardinality(Rows(s))
<1>1. N \in Nat /\ IsFiniteSet(Rows(s))
  BY RowsFinite, FS_CardinalityType
<1>2. /\ rows \in [1 .. N -> Rows(s)]
      /\ \A i, j \in 1 .. N : i # j => rows[i] # rows[j]
      /\ \A i, j \in DOMAIN rows : i < j => ~Before(rows[j], rows[i])
  <2>1. Cardinality(Rows(s)) = N
    OBVIOUS
  <2> HIDE DEF N
  <2> QED
    BY <2>1 DEF Lists, SetToSeqs
<1> HIDE DEF N
<1>3. rows \in Injection(1 .. N, Rows(s))
  BY <1>2 DEF Injection, IsInjective
<1>4. Cardinality(1 .. N) = N
  BY <1>1, FS_Interval
<1>5. rows \in Surjection(1 .. N, Rows(s))
  BY <1>1, <1>3, <1>4, FS_Injection DEF N
<1>6. rows \in Seq([addr : Addresses, ids : Seq(SubIDs)])
  <2>1. Rows(s) \subseteq [addr : Addresses, ids : Seq(SubIDs)]
    BY RowIs
  <2> QED
    BY <1>1, <1>2, <2>1, FunctionIsSeq
<1> QED
  BY <1>1, <1>2, <1>5, <1>6 DEF N, Surjection

\* Two rows of which neither belongs before the other are one row.
LEMMA BeforeTotal ==
  ASSUME NEW s \in Maps, NEW r \in Rows(s), NEW t \in Rows(s),
         ~Before(r, t), ~Before(t, r)
  PROVE  r = t
<1>1. /\ r.addr \in Nat /\ t.addr \in Nat /\ Len(r.ids) \in Nat /\ Len(t.ids) \in Nat
      /\ r = [addr |-> r.addr, ids |-> Members(s, r.addr)]
      /\ t = [addr |-> t.addr, ids |-> Members(s, t.addr)]
  BY RowIs
<1>2. Len(r.ids) = Len(t.ids)
  BY <1>1 DEF Before
<1>3. r.addr = t.addr
  BY <1>1, <1>2 DEF Before
<1> QED
  BY <1>1, <1>3

\* So the same subchannels give one list, however the sort may treat equal rows.
LEMMA ListUnique ==
  ASSUME NEW s \in Maps, NEW f \in Lists(s), NEW g \in Lists(s)
  PROVE  f = g
<1> DEFINE N == Cardinality(Rows(s))
           Differ == {i \in 1 .. N : f[i] # g[i]}
<1>1. /\ N \in Nat
      /\ f \in [1 .. N -> Rows(s)] /\ g \in [1 .. N -> Rows(s)]
  BY ListIs
<1>2. /\ \A r \in Rows(s) : \E i \in 1 .. N : f[i] = r
      /\ \A r \in Rows(s) : \E i \in 1 .. N : g[i] = r
      /\ \A i, j \in 1 .. N : i # j => f[i] # f[j] /\ g[i] # g[j]
      /\ \A i, j \in 1 .. N : i < j => ~Before(f[j], f[i]) /\ ~Before(g[j], g[i])
  BY ListIs, <1>1
<1> HIDE DEF N
<1> SUFFICES ASSUME Differ # {} PROVE FALSE
  BY <1>1
<1>3. PICK i \in Differ : \A k \in Differ : i <= k
  <2>1. Differ \in SUBSET Nat
    BY <1>1
  <2> HIDE DEF Differ
  <2> QED
    BY <2>1, LeastNatural
<1>4. \A k \in 1 .. N : k < i => f[k] = g[k]
  BY <1>1, <1>3
<1>5. PICK j \in 1 .. N : g[j] = f[i]
  BY <1>1, <1>2
<1>6. PICK k \in 1 .. N : f[k] = g[i]
  BY <1>1, <1>2
<1>7. i < j /\ i < k
  <2>1. j # i /\ k # i
    BY <1>3, <1>5, <1>6
  <2>2. ~ j < i
    BY <1>2, <1>4, <1>5, <2>1
  <2>3. ~ k < i
    BY <1>2, <1>4, <1>6, <2>1
  <2> QED
    BY <1>1, <2>1, <2>2, <2>3
<1>8. ~Before(g[i], f[i]) /\ ~Before(f[i], g[i])
  BY <1>2, <1>5, <1>6, <1>7
<1> QED
  BY <1>1, <1>3, <1>8, BeforeTotal

\* With no subchannels there are no rows and no members.
LEMMA NoSubchannels == None \in Maps /\ <<>> \in Lists(None)
<1>1. None \in [{} -> Addresses]
  BY DEF None
<1>2. None \in Maps
  BY <1>1 DEF Maps
<1>3. Rows(None) = {}
  BY <1>1 DEF Rows
<1>4. Cardinality(Rows(None)) = 0
  BY <1>3, FS_EmptySet
<1>5. <<>> \in SetToSeqs(Rows(None))
  BY <1>3, <1>4 DEF SetToSeqs
<1> QED
  BY <1>2, <1>5 DEF Lists

\* What is found of the subchannels is some of them, at their addresses.
LEMMA FoundAreMaps ==
  ASSUME subs \in Maps
  PROVE  Found(subs) \subseteq Maps
<1>1. PICK ids \in SUBSET SubIDs : subs \in [ids -> Addresses]
  BY DEF Maps
<1>2. ASSUME NEW some \in SUBSET ids PROVE [n \in some |-> subs[n]] \in Maps
  <2>1. [n \in some |-> subs[n]] \in [some -> Addresses]
    BY <1>1
  <2> QED
    BY <1>1, <2>1 DEF Maps
<1> QED
  BY <1>1, <1>2 DEF Found

\* What PoolPages starts with.
LEMMA PoolsInit == PoolInit => PoolsInv
<1> SUFFICES ASSUME PoolInit PROVE PoolsInv
  OBVIOUS
<1> USE DEF PoolInit
<1>1. PoolsTyped
  <2>1. None \in Maps
    BY NoSubchannels
  <2>2. subs \in Maps /\ poolPc \in {"idle", "csds"}
    BY <2>1
  <2>3. list \in [of : Maps, rows : Seq([addr : Addresses, ids : Seq(SubIDs)])]
    BY <2>1
  <2>4. pool \in [of : Maps, addr : Addresses \cup {0}, named : BOOLEAN, members : Seq(SubIDs),
                 max : Limits \cup {Unset}, read : Options \cup {NoCluster}, fetched : BOOLEAN]
    BY <2>1
  <2> QED
    BY <2>2, <2>3, <2>4 DEF PoolsTyped
<1>2. ListInv
  BY NoSubchannels DEF ListInv
<1>3. MembersInv
  BY DEF MembersInv
<1>4. LimitInv
  BY DEF LimitInv
<1> QED
  BY <1>1, <1>2, <1>3, <1>4 DEF PoolsInv

\* The subchannels and the answer made of them keep their type.
LEMMA PoolsTypedStep ==
  ASSUME PoolsInv, PoolNext
  PROVE  PoolsTyped'
<1> USE DEF PoolsInv, PoolsTyped
<1>1. ASSUME NEW n \in SubIDs, NEW a \in Addresses, OpenSubchannel(n, a) PROVE PoolsTyped'
  <2>1. subs' \in [DOMAIN subs \cup {n} -> Addresses]
    BY <1>1, ByAddressType DEF OpenSubchannel
  <2>2. DOMAIN subs \cup {n} \in SUBSET SubIDs
    BY ByAddressType
  <2>3. subs' \in Maps
    BY <2>1, <2>2 DEF Maps
  <2> QED
    BY <1>1, <2>3 DEF OpenSubchannel
<1>2. ASSUME NEW n \in SubIDs, CloseSubchannel(n) PROVE PoolsTyped'
  <2>1. subs' \in [DOMAIN subs \ {n} -> Addresses]
    BY <1>2, ByAddressType DEF CloseSubchannel
  <2>2. DOMAIN subs \ {n} \in SUBSET SubIDs
    BY ByAddressType
  <2>3. subs' \in Maps
    BY <2>1, <2>2 DEF Maps
  <2> QED
    BY <1>2, <2>3 DEF CloseSubchannel
<1>3. CASE WriteSubchannelPools
  <2>0. PICK s \in Found(subs) :
          \E rows \in Lists(s) : list' = [of |-> s, rows |-> rows]
    BY <1>3 DEF WriteSubchannelPools
  <2>1. PICK rows \in Lists(s) : list' = [of |-> s, rows |-> rows]
    BY <2>0
  <2>2. s \in Maps
    BY FoundAreMaps
  <2>3. rows \in Seq([addr : Addresses, ids : Seq(SubIDs)])
    BY <2>2, ListIs
  <2> QED
    BY <1>3, <2>1, <2>2, <2>3 DEF WriteSubchannelPools
<1>4. ASSUME NEW a \in Addresses, NEW named \in BOOLEAN, PoolMembers(a, named) PROVE PoolsTyped'
  <2>1. PICK s \in Found(subs) :
          pool' = [of |-> s, addr |-> a, named |-> named, members |-> Members(s, a),
                   max |-> Unset, read |-> NoCluster, fetched |-> FALSE]
    BY <1>4 DEF PoolMembers
  <2>2. s \in Maps
    BY FoundAreMaps
  <2>3. Members(s, a) \in Seq(SubIDs)
    BY <2>2, MembersType
  <2> QED
    BY <1>4, <2>1, <2>2, <2>3 DEF PoolMembers
<1>5. CASE PoolLimit
  <2>1. PICK c \in Options \cup {NoCluster} :
          \/ pool' = [pool EXCEPT !.read = c]
          \/ /\ c # NoCluster
             /\ pool' = [pool EXCEPT !.read = c, !.fetched = TRUE, !.max = MaxConcurrentStreams(c)]
    BY <1>5 DEF PoolLimit
  <2>2. c # NoCluster => MaxConcurrentStreams(c) \in Limits \cup {Unset}
    BY DEF MaxConcurrentStreams, Options
  <2> QED
    BY <1>5, <2>1, <2>2 DEF PoolLimit
<1> QED
  BY <1>1, <1>2, <1>3, <1>4, <1>5 DEF PoolNext

\* A list stays as it was made.
LEMMA ListInvStep ==
  ASSUME PoolsInv, PoolNext
  PROVE  ListInv'
<1>1. CASE UNCHANGED list
  BY <1>1 DEF PoolsInv, ListInv
<1>2. CASE WriteSubchannelPools
  <2>0. PICK s \in Found(subs) :
          \E rows \in Lists(s) : list' = [of |-> s, rows |-> rows]
    BY <1>2 DEF WriteSubchannelPools
  <2>1. PICK rows \in Lists(s) : list' = [of |-> s, rows |-> rows]
    BY <2>0
  <2>2. list'.of = s /\ list'.rows = rows
    BY <2>1
  <2> QED
    BY <2>2 DEF ListInv
<1> QED
  BY <1>1, <1>2
     DEF PoolNext, OpenSubchannel, CloseSubchannel, PoolMembers, PoolLimit

\* Asking for the dump changes neither a page's address nor its members.
LEMMA MembersInvStep ==
  ASSUME PoolsInv, PoolNext
  PROVE  MembersInv'
<1>1. CASE UNCHANGED pool
  BY <1>1 DEF PoolsInv, MembersInv
<1>2. ASSUME NEW a \in Addresses, NEW named \in BOOLEAN, PoolMembers(a, named) PROVE MembersInv'
  <2>1. PICK s \in Found(subs) :
          pool' = [of |-> s, addr |-> a, named |-> named, members |-> Members(s, a),
                   max |-> Unset, read |-> NoCluster, fetched |-> FALSE]
    BY <1>2 DEF PoolMembers
  <2>2. pool'.of = s /\ pool'.addr = a /\ pool'.members = Members(s, a) /\ a # 0
    BY <2>1, PoolAssumption
  <2> QED
    BY <2>2 DEF MembersInv
<1>3. CASE PoolLimit
  <2>1. pool'.of = pool.of /\ pool'.addr = pool.addr /\ pool'.members = pool.members
    BY <1>3 DEF PoolLimit, PoolsInv, PoolsTyped
  <2> QED
    BY <2>1 DEF PoolsInv, MembersInv
<1> QED
  BY <1>1, <1>2, <1>3
     DEF PoolNext, OpenSubchannel, CloseSubchannel, WriteSubchannelPools

\* Only the answer to the question for the dump gives a limit.
LEMMA LimitInvStep ==
  ASSUME PoolsInv, PoolNext
  PROVE  LimitInv'
<1> USE DEF PoolsInv, LimitInv
<1>1. CASE UNCHANGED <<pool, poolPc>>
  BY <1>1
<1>2. ASSUME NEW a \in Addresses, NEW named \in BOOLEAN, PoolMembers(a, named) PROVE LimitInv'
  BY <1>2 DEF PoolMembers
<1>3. CASE PoolLimit
  <2>1. PICK c \in Options \cup {NoCluster} :
          \/ pool' = [pool EXCEPT !.read = c]
          \/ /\ c # NoCluster
             /\ pool' = [pool EXCEPT !.read = c, !.fetched = TRUE, !.max = MaxConcurrentStreams(c)]
    BY <1>3 DEF PoolLimit
  <2>2. poolPc' = "idle" /\ pool.named /\ ~pool.fetched /\ pool.max = Unset
    BY <1>3 DEF PoolLimit
  <2>3. CASE pool' = [pool EXCEPT !.read = c]
    BY <2>2, <2>3 DEF PoolsTyped
  <2>4. CASE /\ c # NoCluster
             /\ pool' = [pool EXCEPT !.read = c, !.fetched = TRUE, !.max = MaxConcurrentStreams(c)]
    <3>1. /\ pool'.named = pool.named /\ pool'.read = c /\ pool'.fetched = TRUE
          /\ pool'.max = MaxConcurrentStreams(c)
      BY <2>4 DEF PoolsTyped
    <3> QED
      BY <2>2, <2>4, <3>1
  <2> QED
    BY <2>1, <2>3, <2>4
<1> QED
  BY <1>1, <1>2, <1>3
     DEF PoolNext, OpenSubchannel, CloseSubchannel, WriteSubchannelPools

\* Every step keeps the invariant ...
LEMMA PoolsStep == PoolsInv /\ [PoolNext]_(poolVars) => PoolsInv'
<1>1. ASSUME PoolsInv, PoolNext PROVE PoolsInv'
  BY <1>1, PoolsTypedStep, ListInvStep, MembersInvStep, LimitInvStep DEF PoolsInv
<1>2. ASSUME PoolsInv, UNCHANGED poolVars PROVE PoolsInv'
  BY <1>2 DEF PoolsInv, PoolsTyped, ListInv, MembersInv, LimitInv, poolVars
<1> QED
  BY <1>1, <1>2

\* ... so it holds throughout.
LEMMA PoolsInvariance == PoolSpec => []PoolsInv
  BY PoolsInit, PoolsStep, PTL DEF PoolSpec

\* What the pages of PoolPages keep has its type.
THEOREM PoolsTypeCorrect == PoolSpec => []PoolsTyped
<1>1. PoolsInv => PoolsTyped
  BY DEF PoolsInv
<1> QED
  BY <1>1, PoolsInvariance, PTL

\* An address's page lists each of its subchannels once, lowest ID first.
THEOREM MembersAllInOrder == PoolSpec =>
           [](pool.addr # 0 =>
                /\ Range(pool.members) = ByAddress(pool.of, pool.addr)
                /\ \A i, j \in DOMAIN pool.members : i < j => pool.members[i] < pool.members[j])
<1>1. ASSUME PoolsInv, pool.addr # 0
      PROVE  /\ Range(pool.members) = ByAddress(pool.of, pool.addr)
             /\ \A i, j \in DOMAIN pool.members : i < j => pool.members[i] < pool.members[j]
  <2> DEFINE ids == ByAddress(pool.of, pool.addr)
  <2>1. ids \in SUBSET Nat /\ IsFiniteSet(ids)
    BY <1>1, ByAddressType DEF PoolsInv, PoolsTyped
  <2>2. pool.members = Sorted(ids)
    BY <1>1 DEF PoolsInv, MembersInv, Members
  <2> HIDE DEF ids
  <2>3. /\ Cardinality(ids) \in Nat /\ pool.members \in [1 .. Cardinality(ids) -> ids]
        /\ \A i, j \in 1 .. Cardinality(ids) : i < j => pool.members[i] < pool.members[j]
        /\ \A n \in ids : \E i \in 1 .. Cardinality(ids) : pool.members[i] = n
    BY <2>1, <2>2, SortedIs
  <2>4. Range(pool.members) = ids
    BY <2>3, PoolsRange
  <2> QED
    BY <2>3, <2>4 DEF ids
<1> QED
  BY <1>1, PoolsInvariance, PTL

\* A limit shown is the one configured, of the cluster the page asked for; and
\* none is shown only if there is none that is read.
THEOREM LimitAlwaysConfigured == PoolSpec => []LimitIsConfigured
<1>1. PoolsInv => LimitIsConfigured
  <2> SUFFICES ASSUME PoolsInv PROVE LimitIsConfigured
    OBVIOUS
  <2> USE DEF PoolsInv, LimitInv
  <2>1. CASE ~pool.fetched
    BY <2>1 DEF LimitIsConfigured
  <2>2. CASE pool.fetched
    <3>1. /\ pool.named /\ pool.max = MaxConcurrentStreams(pool.read)
          /\ pool.read.ext \in {"absent", "garbled", "explicit", "downstream", "auto"}
          /\ pool.read.ext \in {"absent", "garbled"} => pool.read.limit = Unset
      BY <2>2 DEF Options
    <3> QED
      BY <3>1 DEF LimitIsConfigured, MaxConcurrentStreams
  <2> QED
    BY <2>1, <2>2
<1> QED
  BY <1>1, PoolsInvariance, PTL

\* Loading the list again shows the same rows in the same order, if it is of the
\* same subchannels: though the rows come out of a map and the sort is not stable.
THEOREM ReloadAlwaysSame == PoolSpec => ReloadShowsSame
<1>1. PoolsInv /\ PoolsInv' => (list'.of = list.of => list'.rows = list.rows)
  <2> SUFFICES ASSUME PoolsInv, PoolsInv', list'.of = list.of PROVE list'.rows = list.rows
    OBVIOUS
  <2>1. /\ list.of \in Maps
        /\ list.rows \in Lists(list.of) /\ list'.rows \in Lists(list.of)
    BY DEF PoolsInv, PoolsTyped, ListInv
  <2> QED
    BY <2>1, ListUnique
<1> QED
  BY <1>1, PoolsInvariance, PTL DEF ReloadShowsSame
-----------------------------------------------------------------------------
(* The way through the pages: proofs about Navigation, for any handlers and any
   programs, given that paths lead where they say.  Its variables share nothing
   with those of the pages above either. *)

Kinds == {"channel", "subchannel", "server", "socket"}

\* An ID that was once given to an entity of that kind in h's program, if to any.
OfKind(h, n, kind) ==
  n \in 0 .. lastID[h] /\ (n \in DOMAIN graph[h] => graph[h][n].kind = kind)

\* What a pg is about is of the kind that the pg is about.
Sound(h, pg) ==
  /\ pg.view \in Kinds => OfKind(h, pg.id, pg.view)
  /\ pg.view \in {"vhosts", "vhost", "cluster", "pools", "pool"} => OfKind(h, pg.id, "channel")

\* No ID is given out twice.
GraphInv ==
  /\ DOMAIN graph = Handlers /\ lastID \in [Handlers -> Nat]
  /\ \A h \in Handlers : DOMAIN graph[h] \subseteq 1 .. lastID[h]

\* The link in hand is sound, on the pg of a reader who has not been led astray ...
NextInv ==
  ~reader.strayed /\ reader.next # NoLink =>
    reader.by \in Handlers /\ Sound(reader.by, reader.next.means)

\* ... and what is gone stays so.
GoneInv ==
  Followed /\ reader.data = "gone" /\ ~reader.strayed =>
    /\ reader.came.from \in Handlers
    /\ reader.came.means.id \in 0 .. lastID[reader.came.from] \ DOMAIN graph[reader.came.from]

NavInv == GraphInv /\ NextInv /\ GoneInv

\* A program that has nothing open, as a pg of a failed RPC is written of.
LEMMA NothingOpen == DOMAIN Nothing = {}
  BY DEF Nothing

\* Links to entities that belong to one are sound ...
LEMMA ToChildren ==
  ASSUME GraphInv, NEW h \in Handlers, NEW g \in {graph[h], Nothing}, NEW up,
         NEW kind \in Kinds, NEW l \in LinksTo(kind, Children(g, up, kind))
  PROVE  Sound(h, l.means)
<1>1. PICK k \in DOMAIN g : g[k].kind = kind /\ l = To(kind, k)
  BY DEF LinksTo, Children
<1>2. g = graph[h]
  BY NothingOpen, <1>1
<1>3. l.means = [view |-> kind, id |-> k, name |-> <<>>]
  BY <1>1 DEF To, Link, Page
<1>4. k \in 0 .. lastID[h]
  BY <1>1, <1>2 DEF GraphInv
<1> QED
  BY <1>1, <1>2, <1>3, <1>4 DEF Sound, OfKind, Kinds

\* ... and so are those to one that is known.
LEMMA ToKnown ==
  ASSUME NEW h, NEW n, NEW kind \in Kinds, OfKind(h, n, kind)
  PROVE  Sound(h, To(kind, n).means)
<1>1. To(kind, n).means = [view |-> kind, id |-> n, name |-> <<>>]
  BY DEF To, Link, Page
<1> QED
  BY <1>1 DEF Sound, Kinds

\* Links to the pages about a channel are, if it is one.
LEMMA ToChannelPages ==
  ASSUME NEW h, NEW c, OfKind(h, c, "channel")
  PROVE  /\ Sound(h, VhostsLink(c).means) /\ Sound(h, PoolsLink(c).means)
         /\ \A name : /\ Sound(h, VhostLink(c, name).means)
                      /\ Sound(h, ClusterLink(c, name).means)
         /\ \A addr, cluster : Sound(h, PoolLink(c, addr, cluster).means)
  BY DEF Sound, Kinds, VhostsLink, PoolsLink, VhostLink, ClusterLink, PoolLink,
         Link, Page

\* An entity that is open is known.
LEMMA OpenKnown ==
  ASSUME GraphInv, NEW h \in Handlers, NEW g \in {graph[h], Nothing}, NEW n, NEW kind,
         n \in DOMAIN g, g[n].kind = kind
  PROVE  OfKind(h, n, kind)
<1>1. g = graph[h]
  BY NothingOpen
<1> QED
  BY <1>1 DEF OfKind, GraphInv

\* Every link on the pg of the channels leads to an entity of its kind, ...
LEMMA ChannelsTableSound ==
  ASSUME GraphInv, NEW h \in Handlers, NEW g \in {graph[h], Nothing}, NEW first,
         NEW l \in ChannelsTable(g, first)
  PROVE  Sound(h, l.means)
<1> DEFINE tops == Children(g, 0, "channel")
           listed == Listed(tops, first)
           row(c) == {To("channel", c)} \cup LinksTo("channel", Children(g, c, "channel"))
                       \cup LinksTo("socket", Children(g, c, "socket"))
           rows == {c \in listed : \A d \in listed : d < c => g[d].traced}
           last == {c \in listed : /\ ~Ended(tops, first)
                                   /\ c = Max(listed)
                                   /\ \A d \in listed : g[d].traced}
<1>1. ChannelsTable(g, first) = (UNION {row(c) : c \in rows}) \cup {NextLink(c) : c \in last}
  BY DEF ChannelsTable
<1>2. \A c \in rows : c \in DOMAIN g /\ g[c].kind = "channel"
  BY DEF Listed, From, Children
<1> HIDE DEF rows, last
<1>3. ASSUME NEW c, l = NextLink(c) PROVE Sound(h, l.means)
  BY <1>3 DEF NextLink, Link, Page, Sound, Kinds
<1>4. ASSUME NEW c \in rows, l \in row(c) PROVE Sound(h, l.means)
  <2>1. CASE l = To("channel", c)
    BY <1>2, <2>1, OpenKnown, ToKnown DEF Kinds
  <2>2. CASE l \in LinksTo("channel", Children(g, c, "channel"))
    BY <2>2, ToChildren DEF Kinds
  <2>3. CASE l \in LinksTo("socket", Children(g, c, "socket"))
    BY <2>3, ToChildren DEF Kinds
  <2> QED
    BY <1>4, <2>1, <2>2, <2>3
<1> HIDE DEF row
<1>5. CASE l \in UNION {row(c) : c \in rows}
  <2>1. PICK links \in {row(c) : c \in rows} : l \in links
    BY <1>5
  <2>2. PICK c \in rows : links = row(c)
    BY <2>1
  <2> QED
    BY <1>4, <2>1, <2>2
<1>6. CASE l \in {NextLink(c) : c \in last}
  BY <1>3, <1>6
<1> QED
  BY <1>1, <1>5, <1>6

\* ... on the pg of the servers, ...
LEMMA ServersTableSound ==
  ASSUME GraphInv, NEW h \in Handlers, NEW g \in {graph[h], Nothing},
         NEW l \in ServersTable(g)
  PROVE  Sound(h, l.means)
<1> DEFINE listed == Listed(Children(g, 0, "server"), 0)
<1>1. \A v \in listed : v \in DOMAIN g /\ g[v].kind = "server"
  BY DEF Listed, From, Children
<1>2. \/ l \in LinksTo("server", listed)
      \/ \E v \in listed : l \in LinksTo("socket", Children(g, v, "socket"))
  BY DEF ServersTable
<1> HIDE DEF listed
<1>3. CASE l \in LinksTo("server", listed)
  <2>1. PICK v \in listed : l = To("server", v)
    BY <1>3 DEF LinksTo
  <2> QED
    BY <1>1, <2>1, OpenKnown, ToKnown DEF Kinds
<1>4. ASSUME NEW v \in listed, l \in LinksTo("socket", Children(g, v, "socket"))
      PROVE  Sound(h, l.means)
  BY <1>4, ToChildren DEF Kinds
<1> QED
  BY <1>2, <1>3, <1>4

\* ... of a channel, ...
LEMMA ChannelTableSound ==
  ASSUME GraphInv, NEW h \in Handlers, NEW g \in {graph[h], Nothing}, NEW c,
         NEW l \in ChannelTable(g, c)
  PROVE  Sound(h, l.means)
<1>1. c \in DOMAIN g /\ g[c].kind = "channel"
  BY DEF ChannelTable, Open
<1>2. \/ l = VhostsLink(c)
      \/ \E kind \in Kinds : l \in LinksTo(kind, Children(g, c, kind))
  BY DEF ChannelTable, Kinds
<1>3. CASE l = VhostsLink(c)
  BY <1>1, <1>3, OpenKnown, ToChannelPages
<1> QED
  BY <1>2, <1>3, ToChildren

\* ... of a subchannel ...
LEMMA SubchannelTableSound ==
  ASSUME GraphInv, NEW h \in Handlers, NEW g \in {graph[h], Nothing}, NEW s,
         NEW l \in SubchannelTable(g, s)
  PROVE  Sound(h, l.means)
<1>1. s \in DOMAIN g /\ g[s].kind = "subchannel"
  BY DEF SubchannelTable, Open
<1>2. \/ l = To("subchannel", s)
      \/ \E kind \in Kinds : \E n : l \in LinksTo(kind, Children(g, n, kind))
  BY DEF SubchannelTable, Kinds
<1>3. CASE l = To("subchannel", s)
  BY <1>1, <1>3, OpenKnown, ToKnown DEF Kinds
<1> QED
  BY <1>2, <1>3, ToChildren

\* ... and of a server.
LEMMA ServerTableSound ==
  ASSUME GraphInv, NEW h \in Handlers, NEW g \in {graph[h], Nothing}, NEW v,
         NEW l \in ServerTable(g, v)
  PROVE  Sound(h, l.means)
  BY ToChildren DEF ServerTable, Kinds

\* Links to other channels that dial xDS, ...
LEMMA DialersSound ==
  ASSUME GraphInv, NEW h \in Handlers, NEW g \in {graph[h], Nothing}, NEW c,
         NEW l \in LinksTo("channel", Dialers(g, c))
  PROVE  Sound(h, l.means)
<1>1. PICK d \in Dialers(g, c) : l = To("channel", d)
  BY DEF LinksTo
<1>2. d \in DOMAIN g /\ g[d].kind = "channel"
  BY DEF Dialers, Children
<1> QED
  BY <1>1, <1>2, OpenKnown, ToKnown DEF Kinds

\* ... and to a channel's subchannels are sound.
LEMMA ToSubchannel ==
  ASSUME GraphInv, NEW h \in Handlers, NEW g \in {graph[h], Nothing}, NEW c,
         NEW s \in Subchannels(g, c)
  PROVE  Sound(h, To("subchannel", s).means)
<1>1. s \in DOMAIN g /\ g[s].kind = "subchannel"
  BY DEF Subchannels, Children
<1> QED
  BY <1>1, OpenKnown, ToKnown DEF Kinds

\* The pages about a channel know it by its ID only, so their links are sound if
\* that is a channel's: the pg of its virtual hosts, ...
LEMMA VirtualHostsTableSound ==
  ASSUME GraphInv, NEW h \in Handlers, NEW g \in {graph[h], Nothing}, NEW c,
         OfKind(h, c, "channel"), NEW l \in VirtualHostsTable(g, c)
  PROVE  Sound(h, l.means)
<1>1. \/ l = To("channel", c)
      \/ \E name \in VHosts : l = VhostLink(c, name)
      \/ l \in LinksTo("channel", Dialers(g, c))
  BY DEF VirtualHostsTable, OfXds
<1>2. CASE l = To("channel", c)
  BY <1>2, ToKnown DEF Kinds
<1> QED
  BY <1>1, <1>2, ToChannelPages, DialersSound

\* ... of one of them, ...
LEMMA VirtualHostTableSound ==
  ASSUME GraphInv, NEW h \in Handlers, NEW g \in {graph[h], Nothing}, NEW c, NEW name,
         OfKind(h, c, "channel"), NEW l \in VirtualHostTable(g, c, name)
  PROVE  Sound(h, l.means)
<1>1. \/ l = To("channel", c)
      \/ l = VhostsLink(c)
      \/ \E k \in Clusters : l = ClusterLink(c, k)
      \/ l \in LinksTo("channel", Dialers(g, c))
  BY DEF VirtualHostTable
<1>2. CASE l = To("channel", c)
  BY <1>2, ToKnown DEF Kinds
<1> QED
  BY <1>1, <1>2, ToChannelPages, DialersSound

\* ... of a cluster, ...
LEMMA ClusterTableSound ==
  ASSUME GraphInv, NEW h \in Handlers, NEW g \in {graph[h], Nothing}, NEW c, NEW name,
         OfKind(h, c, "channel"), NEW l \in ClusterTable(g, c, name)
  PROVE  Sound(h, l.means)
<1>1. \/ l = To("channel", c)
      \/ l = PoolsLink(c)
      \/ \E s \in Subchannels(g, c) :
           l = PoolLink(c, AddressOf[s], name) \/ l = To("subchannel", s)
  BY DEF ClusterTable
<1>2. CASE l = To("channel", c)
  BY <1>2, ToKnown DEF Kinds
<1> QED
  BY <1>1, <1>2, ToChannelPages, ToSubchannel

\* ... of its pools ...
LEMMA PoolsTableSound ==
  ASSUME GraphInv, NEW h \in Handlers, NEW g \in {graph[h], Nothing}, NEW c,
         OfKind(h, c, "channel"), NEW l \in PoolsTable(g, c)
  PROVE  Sound(h, l.means)
<1>1. \/ l = To("channel", c)
      \/ \E s \in Subchannels(g, c) :
           l = PoolLink(c, AddressOf[s], <<>>) \/ l = To("subchannel", s)
  BY DEF PoolsTable
<1>2. CASE l = To("channel", c)
  BY <1>2, ToKnown DEF Kinds
<1> QED
  BY <1>1, <1>2, ToChannelPages, ToSubchannel

\* ... and of one of them.
LEMMA PoolTableSound ==
  ASSUME GraphInv, NEW h \in Handlers, NEW g \in {graph[h], Nothing}, NEW c, NEW addr,
         OfKind(h, c, "channel"), NEW l \in PoolTable(g, c, addr)
  PROVE  Sound(h, l.means)
<1>1. \/ l = To("channel", c)
      \/ l = PoolsLink(c)
      \/ \E s \in Subchannels(g, c) :
           l = To("subchannel", s) \/ l \in LinksTo("socket", Children(g, s, "socket"))
  BY DEF PoolTable
<1>2. CASE l = To("channel", c)
  BY <1>2, ToKnown DEF Kinds
<1> QED
  BY <1>1, <1>2, ToChannelPages, ToSubchannel, ToChildren DEF Kinds

\* So every link on a sound pg is sound.
LEMMA LinksSound ==
  ASSUME GraphInv, NEW h \in Handlers, NEW g \in {graph[h], Nothing}, NEW pg, Sound(h, pg),
         NEW l \in Links(g, pg)
  PROVE  Sound(h, l.means)
<1>1. CASE pg.view = "top"
  BY <1>1, ChannelsTableSound, ServersTableSound DEF Links
<1>2. CASE pg.view = "channels"
  BY <1>2, ChannelsTableSound DEF Links
<1>3. CASE pg.view = "channel"
  BY <1>3, ChannelTableSound DEF Links
<1>4. CASE pg.view = "subchannel"
  BY <1>4, SubchannelTableSound DEF Links
<1>5. CASE pg.view = "server"
  BY <1>5, ServerTableSound DEF Links
<1>6. pg.view \in {"vhosts", "vhost", "cluster", "pools", "pool"} => OfKind(h, pg.id, "channel")
  BY DEF Sound
<1>7. CASE pg.view = "vhosts"
  BY <1>6, <1>7, VirtualHostsTableSound DEF Links
<1>8. CASE pg.view = "vhost"
  BY <1>6, <1>8, VirtualHostTableSound DEF Links
<1>9. CASE pg.view = "cluster"
  BY <1>6, <1>9, ClusterTableSound DEF Links
<1>10. CASE pg.view = "pools"
  BY <1>6, <1>10, PoolsTableSound DEF Links
<1>11. CASE pg.view = "pool"
  BY <1>6, <1>11, PoolTableSound DEF Links
<1>12. pg.view \in {"top", "channels", "channel", "subchannel", "server", "vhosts", "vhost",
                      "cluster", "pools", "pool"}
  BY DEF Links
<1> QED
  BY <1>1, <1>2, <1>3, <1>4, <1>5, <1>7, <1>8, <1>9, <1>10, <1>11, <1>12

\* What programs do: IDs go on being given out in increasing order, and an entity
\* stays what it is.
Grows ==
  \A h \in Handlers :
    /\ lastID[h] <= lastID'[h]
    /\ \A n \in DOMAIN graph'[h] : \/ n \in DOMAIN graph[h] /\ graph'[h][n] = graph[h][n]
                                   \/ lastID[h] < n

\* What is sound, and what is gone, remains so.
LEMMA StillSound ==
  ASSUME GraphInv, GraphInv', Grows, NEW h \in Handlers, NEW pg, Sound(h, pg)
  PROVE  Sound(h, pg)'
<1>1. lastID[h] \in Nat /\ lastID'[h] \in Nat /\ lastID[h] <= lastID'[h]
  BY DEF GraphInv, Grows
<1>2. ASSUME NEW n, NEW kind, OfKind(h, n, kind) PROVE OfKind(h, n, kind)'
  <2>1. n \in 0 .. lastID[h] /\ n \in 0 .. lastID'[h]
    BY <1>1, <1>2 DEF OfKind
  <2>2. ASSUME n \in DOMAIN graph'[h] PROVE n \in DOMAIN graph[h] /\ graph'[h][n] = graph[h][n]
    BY <1>1, <2>1, <2>2 DEF Grows
  <2> QED
    BY <1>2, <2>1, <2>2 DEF OfKind
<1> QED
  BY <1>2 DEF Sound

LEMMA StillGone ==
  ASSUME GraphInv, GraphInv', Grows, NEW h \in Handlers, NEW n \in 0 .. lastID[h] \ DOMAIN graph[h]
  PROVE  n \in 0 .. lastID'[h] \ DOMAIN graph'[h]
<1>1. lastID[h] \in Nat /\ lastID'[h] \in Nat /\ lastID[h] <= lastID'[h]
  BY DEF GraphInv, Grows
<1> QED
  BY <1>1 DEF Grows

\* Programs, and handlers created, leave the reader's pg as it is.
LEMMA ProgramStep ==
  ASSUME NavInv, NEW h \in Handlers, CreateHandler(h) \/ ProgramMoves(h)
  PROVE  NavInv'
<1> USE DEF NavInv
<1>1. reader' = reader
  BY DEF CreateHandler, ProgramMoves, OpenEntity, CloseEntity
<1>2. GraphInv' /\ Grows
  <2>1. CASE CreateHandler(h)
    BY <2>1 DEF CreateHandler, GraphInv, Grows
  <2>2. ASSUME NEW kind, NEW up, NEW traced, NEW xds, OpenEntity(h, kind, up, traced, xds)
        PROVE  GraphInv' /\ Grows
    <3> DEFINE n == lastID[h] + 1
    <3>1. /\ lastID' = [lastID EXCEPT ![h] = n] /\ n \in Nat /\ lastID[h] \in Nat
          /\ lastID' \in [Handlers -> Nat]
      BY <2>2 DEF OpenEntity, GraphInv
    <3>2. /\ DOMAIN graph' = Handlers
          /\ \A k \in Handlers \ {h} : graph'[k] = graph[k]
      BY <2>2 DEF OpenEntity, GraphInv
    <3>3. /\ DOMAIN graph'[h] = DOMAIN graph[h] \cup {n}
          /\ \A m \in DOMAIN graph[h] : graph'[h][m] = graph[h][m]
      BY <2>2 DEF OpenEntity, GraphInv
    <3>4. DOMAIN graph'[h] \subseteq 1 .. lastID'[h]
      BY <3>1, <3>3 DEF GraphInv
    <3>5. \A k \in Handlers \ {h} : lastID'[k] = lastID[k] /\ lastID[k] \in Nat
      BY <3>1 DEF GraphInv
    <3>6. GraphInv'
      BY <3>1, <3>2, <3>4, <3>5 DEF GraphInv
    <3>7. lastID[h] <= lastID'[h] /\ lastID[h] < n
      BY <3>1 DEF GraphInv
    <3> QED
      BY <3>2, <3>3, <3>5, <3>6, <3>7 DEF Grows
  <2>3. ASSUME NEW n, CloseEntity(h, n) PROVE GraphInv' /\ Grows
    <3>1. /\ lastID' = lastID /\ DOMAIN graph' = Handlers
          /\ \A k \in Handlers \ {h} : graph'[k] = graph[k]
          /\ graph'[h] = [k \in DOMAIN graph[h] \ {n} |-> graph[h][k]]
      BY <2>3 DEF CloseEntity, GraphInv
    <3>2. \A k \in Handlers : lastID[k] \in Nat
      BY DEF GraphInv
    <3> QED
      BY <3>1, <3>2 DEF GraphInv, Grows
  <2> QED
    BY <2>1, <2>2, <2>3 DEF ProgramMoves
<1>3. NextInv'
  <2> SUFFICES ASSUME ~reader.strayed, reader.next # NoLink
               PROVE  reader.by \in Handlers /\ Sound(reader.by, reader.next.means)'
    BY <1>1 DEF NextInv, Sound, OfKind
  <2>1. PICK by, pg : by = reader.by /\ pg = reader.next.means
    OBVIOUS
  <2>2. by \in Handlers /\ Sound(by, pg)
    BY <2>1 DEF NextInv
  <2>3. Sound(by, pg)'
    BY <1>2, <2>2, StillSound
  <2> QED
    BY <1>1, <2>1, <2>2, <2>3 DEF Sound, OfKind
<1>4. GoneInv'
  BY <1>1, <1>2, StillGone DEF GoneInv, Followed
<1> QED
  BY <1>2, <1>3, <1>4

\* A pg asked for, if whatever is asked without being led astray is sound.
LEMMA RequestStep ==
  ASSUME GraphInv, NEW path, NEW query, NEW came, NEW strayed \in BOOLEAN,
         Request(path, query, came, strayed), LeadsWhereItSays',
         Astray(came) => strayed,
         ~strayed => came.from \in Handlers /\ Sound(came.from, came.means)
  PROVE  NavInv'
<1>1. GraphInv' /\ graph' = graph /\ lastID' = lastID
  BY DEF Request, GraphInv
<1>2. reader'.strayed = strayed /\ reader'.came = came
  <2>1. CASE reader' = [Idle EXCEPT !.came = came, !.data = "404", !.strayed = strayed]
    BY <2>1 DEF Idle
  <2>2. ASSUME NEW h, NEW pg, NEW next, NEW data,
               reader' = [by |-> h, page |-> pg, came |-> came, next |-> next,
                          strayed |-> strayed, data |-> data]
        PROVE  reader'.strayed = strayed /\ reader'.came = came
    BY <2>2
  <2> QED
    BY <2>1, <2>2 DEF Request
<1>3. CASE strayed
  BY <1>1, <1>2, <1>3 DEF NavInv, NextInv, GoneInv
<1>4. CASE reader' = [Idle EXCEPT !.came = came, !.data = "404", !.strayed = strayed]
  <2>1. reader'.next = NoLink /\ reader'.data = "404"
    BY <1>4 DEF Idle
  <2> QED
    BY <1>1, <2>1 DEF NavInv, NextInv, GoneInv
<1>5. ASSUME NEW h \in Handlers, NEW pg, NEW g \in {graph[h], Nothing},
             NEW next \in {NoLink} \cup Links(g, pg), ~strayed,
             reader' = [by |-> h, page |-> pg, came |-> came, next |-> next,
                        strayed |-> strayed,
                        data |-> CASE Answered(g, pg) -> "shown"
                                   [] ~Answered(g, pg) /\ g = graph[h] -> "gone"
                                   [] OTHER -> "failed"]
      PROVE  NavInv'
  <2> DEFINE data == CASE Answered(g, pg) -> "shown"
                       [] ~Answered(g, pg) /\ g = graph[h] -> "gone"
                       [] OTHER -> "failed"
  <2>0. data = "gone" => ~Answered(g, pg)
    OBVIOUS
  <2>8. data \in {"shown", "gone", "failed"}
    OBVIOUS
  <2>9. reader' = [by |-> h, page |-> pg, came |-> came, next |-> next,
                   strayed |-> strayed, data |-> data]
    BY <1>5
  <2> HIDE DEF data
  <2>1. /\ reader'.by = h /\ reader'.page = pg /\ reader'.next = next
        /\ reader'.data \in {"shown", "gone", "failed"}
        /\ reader'.data = "gone" => ~Answered(g, pg)
    BY <2>0, <2>8, <2>9
  <2>2. h = came.from /\ pg = came.means
    BY <1>2, <1>5, <2>1 DEF LeadsWhereItSays, Followed, Astray
  <2>3. Sound(h, pg)
    BY <1>5, <2>2
  <2>4. ASSUME next # NoLink PROVE Sound(h, next.means)
    BY <2>3, <2>4, LinksSound
  <2>5. NextInv'
    BY <1>1, <2>1, <2>4 DEF NextInv, Sound, OfKind
  <2>6. ASSUME reader'.data = "gone" PROVE pg.id \in 0 .. lastID[h] \ DOMAIN graph[h]
    <3>1. g = graph[h]
      BY <1>5, <2>6
    <3>2. pg.view \in Kinds /\ ~Open(g, pg.view, pg.id)
      BY <2>1, <2>6 DEF Answered, Kinds
    <3> QED
      BY <2>3, <3>1, <3>2 DEF Open, Sound, OfKind
  <2>7. GoneInv'
    BY <1>1, <1>2, <2>2, <2>6 DEF GoneInv
  <2> QED
    BY <1>1, <2>5, <2>7 DEF NavInv
<1> QED
  BY <1>3, <1>4, <1>5 DEF Request, ServedBy

LEMMA NavInvStep ==
  ASSUME NavInv, [NavNext]_(navVars), LeadsWhereItSays'
  PROVE  NavInv'
<1>1. ASSUME NEW h \in Handlers, CreateHandler(h) \/ ProgramMoves(h) PROVE NavInv'
  BY <1>1, ProgramStep
<1>2. ASSUME NEW h \in Handlers, Visit(h) PROVE NavInv'
  <2> DEFINE came(path) == Came(path, <<"">>, h, Page("top", 0, <<>>),
                                    HandlerPrefix(RawPrefix[h]))
  <2>1. PICK path : Request(path, <<"">>, came(path), Astray(came(path)))
    BY <1>2 DEF Visit
  <2>2. came(path).from = h /\ came(path).means.view = "top"
    BY DEF Came, Page
  <2>3. Sound(h, came(path).means)
    BY <2>2 DEF Sound, Kinds
  <2>4. Astray(came(path)) \in BOOLEAN
    BY DEF Astray
  <2> HIDE DEF came
  <2> QED
    BY <2>1, <2>2, <2>3, <2>4, RequestStep DEF NavInv
<1>3. CASE Follow
  <2> DEFINE l == reader.next
             came == Came(l.path, l.query, reader.by, l.means, l.under)
             strayed == reader.strayed \/ Astray(came)
  <2>1. l # NoLink /\ Request(l.path, l.query, came, strayed)
    BY <1>3 DEF Follow
  <2>2. came.from = reader.by /\ came.means = l.means
    BY DEF Came
  <2>3. ~strayed => came.from \in Handlers /\ Sound(came.from, came.means)
    BY <2>1, <2>2 DEF NavInv, NextInv
  <2>4. strayed \in BOOLEAN /\ (Astray(came) => strayed)
    OBVIOUS
  <2>5. PICK path, query, k, s : path = l.path /\ query = l.query /\ k = came /\ s = strayed
    OBVIOUS
  <2> HIDE DEF l, came, strayed
  <2> QED
    BY <2>1, <2>3, <2>4, <2>5, RequestStep DEF NavInv
<1>4. CASE UNCHANGED navVars
  BY <1>4 DEF navVars, NavInv, GraphInv, NextInv, GoneInv, Sound, OfKind, Followed
<1> QED
  BY <1>1, <1>2, <1>3, <1>4 DEF NavNext

\* An entity's pg says it cannot get its data, although its RPC was answered,
\* only of an entity that has been closed since the link was written, for any
\* handlers, programs and pages: GetChannelDataTemplate and its like link every
\* entity to the pg of its own kind, and no ID is given out twice.  What links
\* are as strings stays with TLC: that createRouter() takes them apart as
\* createHyperlink() joined them is the hypothesis.
THEOREM GoneAlwaysClosed == NavSpec /\ []LeadsWhereItSays => []GoneIsClosed
<1>1. NavInit => NavInv
  <2> SUFFICES ASSUME NavInit PROVE NavInv
    OBVIOUS
  <2>1. DOMAIN graph = Handlers /\ lastID \in [Handlers -> Nat]
    BY DEF NavInit
  <2>2. \A h \in Handlers : DOMAIN graph[h] = {}
    BY NothingOpen DEF NavInit
  <2>3. reader.next = NoLink /\ reader.data = "none"
    BY DEF NavInit, Idle
  <2> QED
    BY <2>1, <2>2, <2>3 DEF NavInv, GraphInv, NextInv, GoneInv, Followed
<1>2. NavInv /\ [NavNext]_(navVars) /\ LeadsWhereItSays' => NavInv'
  BY NavInvStep
<1>3. NavInv => GoneIsClosed
  BY DEF NavInv, GoneInv, GoneIsClosed
<1> QED
  BY <1>1, <1>2, <1>3, PTL DEF NavSpec
=============================================================================
