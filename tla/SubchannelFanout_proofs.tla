----------------------- MODULE SubchannelFanout_proofs -----------------------
(***************************************************************************)
(* Proofs about the fan-out of GetSubchannel RPCs, for any channel and any *)
(* size of the pool: that a result always finds room in `out' is a matter  *)
(* of counting, as each result and each busy worker stands for a reference *)
(* that was handed out; the pool is shown to implement the sequential loop *)
(* of module SubchannelSnapshot, step by step; and its goroutines never    *)
(* all wait for each other, and have only so many steps to take.           *)
(***************************************************************************)
EXTENDS SubchannelFanout, FiniteSetTheorems, SequenceTheorems, TLAPS

\* The workers that have an ID in hand.
Busy == {w \in Pool : job[w] # 0}

Distinct(s) == \A i, j \in DOMAIN s : s[i] = s[j] => i = j

\* A worker has an ID that was handed out from Receive to the end of its turn.
JobInv ==
  \A w \in Pool :
    /\ job[w] # 0 <=> wpc[w] \in {"call", "send"}
    /\ job[w] <= taken
    /\ wpc[w] = "send" => reply[w] \in Addresses

\* Results and IDs in hand are no more than were handed out.
CountInv == Len(out) + Cardinality(Busy) <= taken

\* Results are for references that were handed out.
OutInv == \A k \in 1..Len(out) : \E i \in 1..taken : out[k].id = refs[i]

\* Where the goroutines are when the channels are closed.
PhaseInv ==
  /\ main = "start" =>
       /\ refs = << >> /\ ~closer
       /\ \A w \in Pool : wpc[w] = "unborn"
       /\ byAddr = [a \in Addresses |-> << >>]
  /\ closer \/ outClosed => inClosed
  /\ inClosed => main \in {"collect", "returned"} /\ sent = Len(refs)
  /\ main \in {"feed", "collect"} =>
       \A w \in Pool : wpc[w] = "unborn" <=> w > Len(refs)
  /\ \A w \in Pool : wpc[w] = "exited" => inClosed /\ taken = sent
  /\ outClosed => \A w \in Pool : wpc[w] \in {"exited", "unborn"}

\* What main has made of the results it has collected.
CollectedInv ==
  /\ \A id \in Subchannels :
       info[id] # NoAddr => \E k \in 1..collected : out[k].id = id
  /\ \A a \in Addresses : /\ Distinct(byAddr[a])
                          /\ Range(byAddr[a]) = {id \in Subchannels : info[id] = a}

IInv ==
  /\ TypeOK /\ Distinct(refs) /\ JobInv /\ CountInv /\ OutInv /\ PhaseInv
  /\ EachRefOnce /\ CollectedInv
-----------------------------------------------------------------------------
\* Distinct numbers can be put in increasing order: number i goes where the
\* count of smaller ones says.
LEMMA SortingPermutation ==
  ASSUME NEW n \in Nat, NEW s \in [1..n -> Nat], Distinct(s)
  PROVE  \E p \in Bijection(1..n, 1..n) :
           \A i, j \in 1..n : i < j => s[p[i]] < s[p[j]]
<1> DEFINE Below(i) == {j \in 1..n : s[j] < s[i]}
           rank == [i \in 1..n |-> Cardinality(Below(i)) + 1]
<1>1. IsFiniteSet(1..n) /\ Cardinality(1..n) = n
  BY FS_Interval
<1>2. ASSUME NEW i \in 1..n
      PROVE  IsFiniteSet(Below(i)) /\ Cardinality(Below(i)) \in Nat
  BY <1>1, FS_Subset, FS_CardinalityType
<1>3. \A i, k \in 1..n :
        s[i] < s[k] => Below(i) \cup {i} \subseteq Below(k) /\ i \notin Below(i)
  OBVIOUS
<1>4. \A i \in 1..n : Below(i) \subseteq (1..n) \ {i}
  OBVIOUS
<1> HIDE DEF Below
<1>5. ASSUME NEW i \in 1..n, NEW k \in 1..n, s[i] < s[k]
      PROVE  Cardinality(Below(i)) < Cardinality(Below(k))
  <2>1. Below(i) \cup {i} \subseteq Below(k) /\ i \notin Below(i)
    BY <1>3, <1>5
  <2>2. Cardinality(Below(i) \cup {i}) = Cardinality(Below(i)) + 1
    BY <1>2, <2>1, FS_AddElement
  <2>3. Cardinality(Below(i) \cup {i}) <= Cardinality(Below(k))
    BY <1>2, <2>1, FS_Subset
  <2> QED
    BY <1>2, <2>2, <2>3
<1>6. ASSUME NEW i \in 1..n PROVE Cardinality(Below(i)) < n
  <2>1. IsFiniteSet((1..n) \ {i}) /\ Cardinality((1..n) \ {i}) = n - 1
    BY <1>1, FS_RemoveElement
  <2>2. Cardinality(Below(i)) <= n - 1
    BY <1>4, <2>1, FS_Subset
  <2> QED
    BY <1>2, <2>2
<1>7. rank \in [1..n -> 1..n]
  BY <1>2, <1>6
<1>8. \A i, k \in 1..n : s[i] < s[k] => rank[i] < rank[k]
  BY <1>2, <1>5
<1> HIDE DEF rank
<1>9. ASSUME NEW i \in 1..n, NEW k \in 1..n, rank[i] = rank[k] PROVE i = k
  <2>1. rank[i] \in 1..n /\ rank[i] = rank[k]
    BY <1>7, <1>9
  <2>2. ~(s[i] < s[k]) /\ ~(s[k] < s[i])
    BY <1>8, <2>1
  <2>3. s[i] = s[k]
    BY <2>2
  <2> QED
    BY <2>3 DEF Distinct
<1>10. rank \in Injection(1..n, 1..n)
  BY <1>7, <1>9 DEF Injection, IsInjective
<1>11. rank \in Surjection(1..n, 1..n)
  BY <1>1, <1>10, FS_Injection
<1> DEFINE p == [r \in 1..n |-> CHOOSE i \in 1..n : rank[i] = r]
<1>12. \A r \in 1..n : p[r] \in 1..n /\ rank[p[r]] = r
  BY <1>11 DEF Surjection
<1>13. p \in [1..n -> 1..n]
  BY <1>12
<1>14. \A i \in 1..n : p[rank[i]] = i
  BY <1>7, <1>9, <1>12
<1> HIDE DEF p
<1>15. p \in Bijection(1..n, 1..n)
  BY <1>7, <1>12, <1>13, <1>14 DEF Bijection, Injection, IsInjective, Surjection
<1>16. ASSUME NEW i \in 1..n, NEW j \in 1..n, i < j PROVE s[p[i]] < s[p[j]]
  <2>1. p[i] # p[j] /\ ~(rank[p[j]] < rank[p[i]])
    BY <1>12, <1>16
  <2>2. s[p[i]] # s[p[j]] /\ ~(s[p[j]] < s[p[i]])
    BY <1>8, <1>12, <2>1 DEF Distinct
  <2> QED
    BY <1>12, <2>2
<1> QED
  BY <1>15, <1>16

\* Sorting a list of distinct IDs gives the same IDs in increasing order.
LEMMA SortedLists ==
  ASSUME NEW s \in Seq(Subchannels), Distinct(s)
  PROVE  /\ Sorted(s) \in Seq(Subchannels)
         /\ Distinct(Sorted(s))
         /\ Range(Sorted(s)) = Range(s)
         /\ \A i, j \in DOMAIN Sorted(s) : i < j => Sorted(s)[i] < Sorted(s)[j]
<1> DEFINE n == Len(s)
           Orders(p) == \A i, j \in DOMAIN s : i < j => s[p[i]] <= s[p[j]]
           p == CHOOSE p \in Bijection(DOMAIN s, DOMAIN s) : Orders(p)
           t == [i \in DOMAIN s |-> s[p[i]]]
<1>1. n \in Nat /\ s \in [1..n -> Subchannels] /\ DOMAIN s = 1..n
  BY LenProperties
<1>2. s \in [1..n -> Nat]
  BY <1>1, FanoutAssumption
<1>3. PICK q \in Bijection(1..n, 1..n) : \A i, j \in 1..n : i < j => s[q[i]] < s[q[j]]
  BY <1>1, <1>2, SortingPermutation
<1>4. q \in [1..n -> 1..n]
  BY DEF Bijection, Injection
<1>5. \A i, j \in 1..n : i < j => s[q[i]] <= s[q[j]]
  BY <1>2, <1>3, <1>4
<1>6. Orders(q)
  BY <1>1, <1>5
<1>7. p \in Bijection(1..n, 1..n) /\ Orders(p)
  BY <1>1, <1>6
<1>8. Sorted(s) = t
  BY DEF Sorted
<1> HIDE DEF p
<1>9. /\ p \in [1..n -> 1..n]
      /\ \A i, j \in 1..n : p[i] = p[j] => i = j
      /\ \A k \in 1..n : \E i \in 1..n : p[i] = k
  BY <1>7 DEF Bijection, Injection, IsInjective, Surjection
<1>10. t \in [1..n -> Subchannels] /\ \A i \in 1..n : t[i] = s[p[i]]
  BY <1>1, <1>9
<1>11. Distinct(t)
  BY <1>1, <1>9, <1>10 DEF Distinct
<1>12. Range(t) = Range(s)
  BY <1>1, <1>9, <1>10 DEF Range
<1>13. t \in Seq(Subchannels)
  BY <1>1, <1>10, SeqDef
<1>14. ASSUME NEW i \in 1..n, NEW j \in 1..n, i < j PROVE t[i] < t[j]
  <2>1. s[p[i]] <= s[p[j]]
    BY <1>1, <1>7, <1>14
  <2>2. p[i] # p[j]
    BY <1>9, <1>14
  <2>3. s[p[i]] # s[p[j]] /\ s[p[i]] \in Nat /\ s[p[j]] \in Nat
    BY <1>1, <1>2, <1>9, <2>2 DEF Distinct
  <2> QED
    BY <1>10, <2>1, <2>3
<1> HIDE DEF t
<1>15. DOMAIN t = 1..n
  BY <1>10
<1> QED
  BY <1>8, <1>11, <1>12, <1>13, <1>14, <1>15
-----------------------------------------------------------------------------
\* What GetChannel lists.
LEMMA RefListsDistinct ==
  ASSUME NEW r \in RefLists
  PROVE  r \in Seq(Subchannels) /\ Distinct(r)
<1>1. PICK S \in SUBSET Subchannels : r \in Bijection(1..Cardinality(S), S)
  BY DEF RefLists
<1>2. Cardinality(S) \in Nat
  BY FanoutAssumption, FS_Subset, FS_CardinalityType
<1>3. /\ r \in [1..Cardinality(S) -> Subchannels]
      /\ \A i, j \in 1..Cardinality(S) : r[i] = r[j] => i = j
  BY <1>1 DEF Bijection, Injection, IsInjective
<1>4. r \in Seq(Subchannels)
  BY <1>2, <1>3, SeqDef
<1> QED
  BY <1>3, <1>4 DEF Distinct

\* Busy workers can be counted, and the count goes up with Receive and down
\* at the end of a turn.
LEMMA BusyCounted == IsFiniteSet(Busy) /\ Cardinality(Busy) \in Nat
<1>1. Busy \in SUBSET Pool
  BY DEF Busy
<1>2. IsFiniteSet(Pool)
  BY FanoutAssumption, FS_Interval DEF Pool
<1> QED
  BY <1>1, <1>2, FS_Subset, FS_CardinalityType

LEMMA BusyAdded ==
  ASSUME job \in [Pool -> Nat], NEW w \in Pool, job[w] = 0,
         NEW i \in Nat \ {0}, job' = [job EXCEPT ![w] = i]
  PROVE  Cardinality(Busy)' = Cardinality(Busy) + 1
<1>1. Busy' = Busy \cup {w} /\ w \notin Busy
  BY DEF Busy
<1> QED
  BY <1>1, BusyCounted, FS_AddElement

LEMMA BusyRemoved ==
  ASSUME job \in [Pool -> Nat], NEW w \in Pool, job[w] # 0,
         job' = [job EXCEPT ![w] = 0]
  PROVE  Cardinality(Busy)' = Cardinality(Busy) - 1
<1>1. Busy' = Busy \ {w} /\ w \in Busy
  BY DEF Busy
<1> QED
  BY <1>1, BusyCounted, FS_RemoveElement

\* A list stays without repetitions when something new is appended.
LEMMA AppendDistinct ==
  ASSUME NEW s \in Seq(Subchannels), Distinct(s),
         NEW id \in Subchannels, id \notin Range(s)
  PROVE  Distinct(Append(s, id)) /\ Range(Append(s, id)) = Range(s) \cup {id}
<1> DEFINE n == Len(s)
           t == Append(s, id)
<1>1. n \in Nat /\ DOMAIN s = 1..n
  BY LenProperties
<1>2. /\ DOMAIN t = 1..n + 1 /\ t[n + 1] = id
      /\ \A i \in 1..n : t[i] = s[i]
  BY <1>1, AppendProperties, LenProperties
<1>3. \A i \in 1..n : s[i] # id
  BY <1>1 DEF Range
<1> HIDE DEF n, t
<1>4. \A i \in 1..n + 1 : i \in 1..n \/ i = n + 1
  BY <1>1
<1>5. Distinct(t)
  BY <1>1, <1>2, <1>3, <1>4 DEF Distinct
<1>6. Range(t) = Range(s) \cup {id}
  BY <1>1, <1>2, <1>4 DEF Range
<1> QED
  BY <1>5, <1>6 DEF t

\* What a worker that has an ID has, and what it sends.
LEMMA JobTyped ==
  ASSUME TypeOK, JobInv, NEW w \in Pool, wpc[w] \in {"call", "send"}
  PROVE  /\ job[w] \in 1..Len(refs) /\ job[w] \in 1..taken
         /\ refs[job[w]] \in Subchannels
<1>1. job[w] \in 1..Len(refs) /\ job[w] \in 1..taken
  BY DEF TypeOK, JobInv
<1> QED
  BY <1>1, ElementOfSeq DEF TypeOK

LEMMA SendEffect ==
  ASSUME TypeOK, JobInv, NEW w \in Pool, Send(w)
  PROVE  /\ out' \in Seq(Results) /\ Len(out') = Len(out) + 1
         /\ \A k \in 1..Len(out) : out'[k] = out[k]
         /\ out'[Len(out) + 1].id = refs[job[w]]
<1> DEFINE r == [id |-> refs[job[w]], target |-> reply[w]]
<1>1. r \in Results /\ r.id = refs[job[w]]
  BY JobTyped DEF Send, JobInv, Results
<1>2. out' = Append(out, r) /\ out \in Seq(Results)
  BY DEF Send, TypeOK
<1> HIDE DEF r
<1> QED
  BY <1>1, <1>2, AppendProperties

\* A collected result.
LEMMA CollectEffect ==
  ASSUME TypeOK, Collect
  PROVE  LET r == out[collected + 1]
         IN  /\ r \in Results /\ r.id \in Subchannels /\ r.target \in Addresses
             /\ collected + 1 \in 1..Len(out) /\ collected' = collected + 1
             /\ info' = [info EXCEPT ![r.id] = r.target]
             /\ byAddr' = [byAddr EXCEPT ![r.target] = Append(@, r.id)]
<1>1. collected + 1 \in 1..Len(out) /\ out \in Seq(Results)
  BY LenProperties DEF Collect, TypeOK
<1>2. out[collected + 1] \in Results
  BY <1>1, ElementOfSeq
<1> QED
  BY <1>1, <1>2 DEF Collect, Results

\* Before the first goroutine is started.
LEMMA InitIInv == Init => IInv
<1> SUFFICES ASSUME Init PROVE IInv
  OBVIOUS
<1> USE FanoutAssumption DEF Init
<1>1. Len(refs) = 0 /\ Len(out) = 0 /\ DOMAIN refs = {} /\ DOMAIN out = {}
  OBVIOUS
<1>2. {inClosed, outClosed, closer} \subseteq BOOLEAN
  BY Zenon
<1>3. /\ refs \in Seq(Subchannels) /\ out \in Seq(Results)
      /\ byAddr \in [Addresses -> Seq(Subchannels)]
  OBVIOUS
<1>4. TypeOK
  BY <1>1, <1>2, <1>3 DEF TypeOK
<1>5. Busy = {}
  BY DEF Busy
<1>6. CountInv
  BY <1>1, <1>5, FS_EmptySet DEF CountInv
<1>7. Distinct(refs) /\ JobInv /\ OutInv /\ EachRefOnce
  BY <1>1 DEF Distinct, JobInv, OutInv, EachRefOnce
<1>8. PhaseInv
  BY DEF PhaseInv
<1>9. \A a \in Addresses : Distinct(byAddr[a]) /\ Range(byAddr[a]) = {}
  BY DEF Distinct, Range
<1>10. CollectedInv
  BY <1>9 DEF CollectedInv
<1> QED
  BY <1>4, <1>6, <1>7, <1>8, <1>10 DEF IInv

\* Each step preserves the types.
LEMMA StepTypeOK == IInv /\ [Next]_vars => TypeOK'
<1> SUFFICES ASSUME IInv, [Next]_vars PROVE TypeOK'
  OBVIOUS
<1> USE FanoutAssumption DEF IInv, TypeOK, Pool
<1>1. CASE NoChannel
  BY <1>1 DEF NoChannel, inVars, outVars, workerVars, resultVars
<1>2. CASE StartWorkers
  <2>1. refs = << >> /\ Len(refs) = 0
    BY <1>2 DEF StartWorkers, PhaseInv
  <2>2. refs' \in Seq(Subchannels) /\ Len(refs') \in Nat
    BY <1>2, RefListsDistinct, LenProperties DEF StartWorkers
  <2> QED
    BY <1>2, <2>1, <2>2 DEF StartWorkers, inVars, outVars, resultVars
<1>3. CASE Feed
  BY <1>3 DEF Feed, inVars, outVars, workerVars, resultVars
<1>4. CASE CloseIn
  BY <1>4 DEF CloseIn, inVars, outVars, workerVars, resultVars
<1>5. ASSUME NEW w \in Pool, Receive(w) PROVE TypeOK'
  <2>1. Len(refs) \in Nat /\ taken' \in 0..sent' /\ taken' \in 0..Len(refs)
    BY <1>5, LenProperties DEF Receive
  <2> QED
    BY <1>5, <2>1 DEF Receive, outVars, resultVars
<1>6. ASSUME NEW w \in Pool, CallAnswered(w) PROVE TypeOK'
  BY <1>6 DEF CallAnswered, inVars, outVars, workerVars, resultVars
<1>7. ASSUME NEW w \in Pool, CallFailed(w) PROVE TypeOK'
  BY <1>7 DEF CallFailed, inVars, outVars, workerVars, resultVars
<1>8. ASSUME NEW w \in Pool, Send(w) PROVE TypeOK'
  <2>1. out' \in Seq(Results) /\ Len(out') = Len(out) + 1 /\ Len(out) \in Nat
    BY <1>8, SendEffect, LenProperties
  <2> QED
    BY <1>8, <2>1 DEF Send, inVars, resultVars
<1>9. ASSUME NEW w \in Pool, Exit(w) PROVE TypeOK'
  BY <1>9 DEF Exit, inVars, outVars, workerVars, resultVars
<1>10. CASE CloseOut
  BY <1>10 DEF CloseOut, inVars, outVars, workerVars, resultVars
<1>11. CASE Collect
  <2> DEFINE r == out[collected + 1]
  <2>1. /\ r.id \in Subchannels /\ r.target \in Addresses
        /\ collected + 1 \in 1..Len(out) /\ collected' = collected + 1
        /\ info' = [info EXCEPT ![r.id] = r.target]
        /\ byAddr' = [byAddr EXCEPT ![r.target] = Append(@, r.id)]
    BY <1>11, CollectEffect
  <2> HIDE DEF r
  <2>2. Append(byAddr[r.target], r.id) \in Seq(Subchannels)
    BY <2>1, AppendProperties
  <2>3. collected' \in 0..Len(out)
    BY <2>1, LenProperties
  <2> QED
    BY <1>11, <2>1, <2>2, <2>3 DEF Collect, inVars, workerVars, outVars
<1>12. CASE SortAndReturn
  <2>1. \A a \in Addresses : Sorted(byAddr[a]) \in Seq(Subchannels)
    BY SortedLists DEF CollectedInv
  <2> QED
    BY <1>12, <2>1 DEF SortAndReturn, inVars, workerVars, outVars
<1>13. CASE UNCHANGED vars
  BY <1>13 DEF vars, inVars, outVars, workerVars, resultVars
<1> QED
  BY <1>1, <1>2, <1>3, <1>4, <1>5, <1>6, <1>7, <1>8, <1>9, <1>10, <1>11, <1>12, <1>13 DEF Next, MainNext, WorkerNext, Done

\* Each step keeps IDs in hand within what was handed out.
LEMMA StepJobInv == IInv /\ [Next]_vars => Distinct(refs') /\ JobInv'
<1> SUFFICES ASSUME IInv, [Next]_vars PROVE Distinct(refs') /\ JobInv'
  OBVIOUS
<1>0. Len(refs) \in Nat /\ taken \in Nat /\ \A w \in Pool : job[w] \in Nat
  BY LenProperties DEF IInv, TypeOK
<1> USE <1>0 DEF IInv, TypeOK, JobInv
<1>1. CASE StartWorkers
  <2>1. Distinct(refs')
    BY <1>1, RefListsDistinct DEF StartWorkers
  <2>2. \A w \in Pool : job[w] = 0 /\ wpc'[w] \in {"recv", "unborn"}
    BY <1>1 DEF StartWorkers, PhaseInv
  <2> QED
    BY <1>1, <2>1, <2>2 DEF StartWorkers, inVars
<1>2. ASSUME NEW w \in Pool, Receive(w) PROVE Distinct(refs') /\ JobInv'
  BY <1>2 DEF Receive
<1>3. ASSUME NEW w \in Pool, CallAnswered(w) PROVE Distinct(refs') /\ JobInv'
  BY <1>3 DEF CallAnswered, inVars
<1>4. ASSUME NEW w \in Pool, CallFailed(w) PROVE Distinct(refs') /\ JobInv'
  BY <1>4 DEF CallFailed, inVars
<1>5. ASSUME NEW w \in Pool, Send(w) PROVE Distinct(refs') /\ JobInv'
  BY <1>5 DEF Send, inVars
<1>6. ASSUME NEW w \in Pool, Exit(w) PROVE Distinct(refs') /\ JobInv'
  BY <1>6 DEF Exit, inVars
<1>7. CASE UNCHANGED <<refs, wpc, job, reply, taken>>
  BY <1>7
<1> QED
  BY <1>1, <1>2, <1>3, <1>4, <1>5, <1>6, <1>7 DEF Next, MainNext, WorkerNext, Done, vars, inVars, outVars, workerVars, resultVars,
     NoChannel, Feed, CloseIn, CloseOut, Collect, SortAndReturn

\* Each step counts.
LEMMA StepCountInv == IInv /\ [Next]_vars => CountInv'
<1> SUFFICES ASSUME IInv, [Next]_vars PROVE CountInv'
  OBVIOUS
<1>0. /\ Len(out) \in Nat /\ taken \in Nat /\ Cardinality(Busy) \in Nat
      /\ job \in [Pool -> Nat]
  BY BusyCounted, LenProperties DEF IInv, TypeOK
<1>1. ASSUME NEW w \in Pool, Receive(w) PROVE CountInv'
  <2>1. job[w] = 0 /\ job' = [job EXCEPT ![w] = taken + 1] /\ taken' = taken + 1
    BY <1>1 DEF Receive, IInv, JobInv
  <2>2. taken + 1 \in Nat \ {0}
    BY <1>0
  <2>3. Cardinality(Busy)' = Cardinality(Busy) + 1
    BY <1>0, <2>1, <2>2, BusyAdded
  <2> QED
    BY <1>1, <1>0, <2>1, <2>3 DEF Receive, outVars, IInv, CountInv
<1>2. ASSUME NEW w \in Pool, CallFailed(w) PROVE CountInv'
  <2>1. job[w] # 0 /\ job' = [job EXCEPT ![w] = 0]
    BY <1>2 DEF CallFailed, IInv, JobInv
  <2>2. Cardinality(Busy)' = Cardinality(Busy) - 1
    BY <1>0, <2>1, BusyRemoved
  <2> QED
    BY <1>2, <1>0, <2>2 DEF CallFailed, inVars, outVars, IInv, CountInv
<1>3. ASSUME NEW w \in Pool, Send(w) PROVE CountInv'
  <2>1. job[w] # 0 /\ job' = [job EXCEPT ![w] = 0]
    BY <1>3 DEF Send, IInv, JobInv
  <2>2. Cardinality(Busy)' = Cardinality(Busy) - 1
    BY <1>0, <2>1, BusyRemoved
  <2>3. Len(out') = Len(out) + 1
    BY <1>3, SendEffect DEF IInv
  <2> QED
    BY <1>3, <1>0, <2>2, <2>3 DEF Send, inVars, IInv, CountInv
<1>4. CASE UNCHANGED <<out, job, taken>>
  BY <1>4 DEF IInv, CountInv, Busy
<1> QED
  BY <1>1, <1>2, <1>3, <1>4 DEF Next, MainNext, WorkerNext, Done, vars, inVars, outVars, workerVars, resultVars,
     NoChannel, StartWorkers, Feed, CloseIn, CallAnswered, Exit, CloseOut, Collect, SortAndReturn

\* Each step leaves every reference in one place.
LEMMA StepEachRefOnce == IInv /\ [Next]_vars => OutInv' /\ EachRefOnce'
<1> SUFFICES ASSUME IInv, [Next]_vars PROVE OutInv' /\ EachRefOnce'
  OBVIOUS
<1>0. /\ Len(out) \in Nat /\ DOMAIN out = 1..Len(out)
      /\ Len(refs) \in Nat /\ DOMAIN refs = 1..Len(refs)
      /\ taken \in 0..Len(refs) /\ job \in [Pool -> 0..Len(refs)]
  BY LenProperties DEF IInv, TypeOK
<1> USE <1>0
<1>1. CASE StartWorkers
  <2>1. Len(refs) = 0 /\ taken = 0 /\ \A w \in Pool : job[w] = 0
    BY <1>1 DEF StartWorkers, IInv, PhaseInv, JobInv
  <2>2. Len(out) = 0
    BY <2>1, BusyCounted DEF IInv, CountInv
  <2> QED
    BY <1>1, <2>1, <2>2 DEF StartWorkers, OutInv, EachRefOnce, inVars, outVars
<1>2. ASSUME NEW w \in Pool, Receive(w) PROVE OutInv' /\ EachRefOnce'
  <2>1. /\ job' = [job EXCEPT ![w] = taken + 1] /\ taken' = taken + 1
        /\ UNCHANGED <<refs, out>>
    BY <1>2 DEF Receive, outVars
  <2>2. taken + 1 \in 1..Len(refs)
    BY <1>2 DEF Receive, IInv, TypeOK
  <2>3. \A v \in Pool : job[v] # taken + 1
    BY DEF IInv, JobInv
  <2>4. ASSUME NEW k \in 1..Len(out) PROVE out[k].id # refs[taken + 1]
    <3>1. PICK i \in 1..taken : out[k].id = refs[i]
      BY DEF IInv, OutInv
    <3>2. i \in 1..Len(refs) /\ i # taken + 1
      OBVIOUS
    <3> QED
      BY <2>2, <3>1, <3>2 DEF IInv, Distinct
  <2>5. OutInv'
    BY <2>1 DEF IInv, OutInv
  <2> QED
    BY <2>1, <2>3, <2>4, <2>5 DEF IInv, EachRefOnce
<1>3. ASSUME NEW w \in Pool, CallFailed(w) PROVE OutInv' /\ EachRefOnce'
  BY <1>3 DEF CallFailed, IInv, OutInv, EachRefOnce, inVars, outVars
<1>4. ASSUME NEW w \in Pool, Send(w) PROVE OutInv' /\ EachRefOnce'
  <2>1. /\ job[w] \in 1..Len(refs) /\ job[w] \in 1..taken
        /\ job' = [job EXCEPT ![w] = 0] /\ UNCHANGED <<refs, taken>>
    BY <1>4, JobTyped DEF Send, IInv, inVars
  <2>2. /\ Len(out') = Len(out) + 1 /\ DOMAIN out' = 1..Len(out) + 1
        /\ \A k \in 1..Len(out) : out'[k] = out[k]
        /\ out'[Len(out) + 1].id = refs[job[w]]
    BY <1>4, SendEffect, LenProperties DEF IInv
  <2>3. \A k \in 1..Len(out) : out[k].id # refs[job[w]]
    BY <2>1 DEF IInv, EachRefOnce
  <2>4. \A v \in Pool : job'[v] # 0 => refs[job[v]] # refs[job[w]] /\ job'[v] = job[v]
    BY <2>1 DEF IInv, EachRefOnce, Distinct
  <2>5. OutInv'
    BY <2>1, <2>2 DEF IInv, OutInv
  <2>6. \A i, j \in 1..Len(out) + 1 : out'[i].id = out'[j].id => i = j
    BY <2>2, <2>3 DEF IInv, EachRefOnce
  <2>7. \A i \in 1..Len(out) + 1, v \in Pool : job'[v] # 0 => refs[job'[v]] # out'[i].id
    BY <2>1, <2>2, <2>4 DEF IInv, EachRefOnce
  <2>8. \A v, u \in Pool : job'[v] # 0 /\ job'[v] = job'[u] => v = u
    BY <2>1 DEF IInv, EachRefOnce
  <2> QED
    BY <2>1, <2>2, <2>5, <2>6, <2>7, <2>8 DEF EachRefOnce
<1>5. CASE UNCHANGED <<refs, out, job, taken>>
  BY <1>5 DEF IInv, OutInv, EachRefOnce
<1> QED
  BY <1>1, <1>2, <1>3, <1>4, <1>5 DEF Next, MainNext, WorkerNext, Done, vars, inVars, outVars, workerVars, resultVars,
     NoChannel, Feed, CloseIn, CallAnswered, Exit, CloseOut, Collect, SortAndReturn

\* Each step leaves the goroutines where the state of the channels says.
LEMMA StepPhaseInv == IInv /\ [Next]_vars => PhaseInv'
<1> SUFFICES ASSUME IInv, [Next]_vars PROVE PhaseInv'
  OBVIOUS
<1>0. /\ Len(refs) \in Nat /\ sent \in Nat /\ taken \in Nat /\ taken <= sent
      /\ wpc \in [Pool -> {"unborn", "recv", "call", "send", "exited"}]
      /\ {inClosed, outClosed, closer} \subseteq BOOLEAN
      /\ PhaseInv
  BY LenProperties DEF IInv, TypeOK
<1> USE <1>0 DEF PhaseInv
<1>1. CASE NoChannel
  BY <1>1 DEF NoChannel, inVars, outVars, workerVars, resultVars
<1>2. CASE StartWorkers
  <2>1. Len(refs') \in Nat
    BY <1>2, RefListsDistinct, LenProperties DEF StartWorkers
  <2>2. ~inClosed /\ ~outClosed /\ ~closer
    BY <1>2 DEF StartWorkers
  <2>3. \A w \in Pool : /\ wpc'[w] \in {"recv", "unborn"}
                        /\ wpc'[w] = "unborn" <=> w > Len(refs')
    BY <1>2, <2>1 DEF StartWorkers, Pool
  <2> QED
    BY <1>2, <2>2, <2>3 DEF StartWorkers, inVars, outVars, resultVars
<1>3. CASE Feed
  BY <1>3 DEF Feed, workerVars, outVars, resultVars
<1>4. CASE CloseIn
  BY <1>4 DEF CloseIn, workerVars, outVars, resultVars
<1>5. ASSUME NEW w \in Pool, Receive(w) PROVE PhaseInv'
  BY <1>5 DEF Receive, outVars, resultVars
<1>6. ASSUME NEW w \in Pool, CallAnswered(w) \/ CallFailed(w) PROVE PhaseInv'
  BY <1>6 DEF CallAnswered, CallFailed, inVars, outVars, resultVars
<1>7. ASSUME NEW w \in Pool, Send(w) PROVE PhaseInv'
  BY <1>7 DEF Send, inVars, resultVars
<1>8. ASSUME NEW w \in Pool, Exit(w) PROVE PhaseInv'
  BY <1>8 DEF Exit, inVars, outVars, resultVars
<1>9. CASE CloseOut
  BY <1>9 DEF CloseOut, inVars, workerVars, resultVars
<1>10. CASE Collect
  BY <1>10 DEF Collect, inVars, workerVars, outVars
<1>11. CASE SortAndReturn
  BY <1>11 DEF SortAndReturn, inVars, workerVars, outVars
<1>12. CASE UNCHANGED vars
  BY <1>12 DEF vars
<1> QED
  BY <1>1, <1>2, <1>3, <1>4, <1>5, <1>6, <1>7, <1>8, <1>9, <1>10, <1>11, <1>12
     DEF Next, MainNext, WorkerNext, Done

\* Each step keeps what main has collected in step with its tables.
LEMMA StepCollectedInv == IInv /\ [Next]_vars => CollectedInv'
<1> SUFFICES ASSUME IInv, [Next]_vars PROVE CollectedInv'
  OBVIOUS
<1>0. /\ Len(out) \in Nat /\ DOMAIN out = 1..Len(out) /\ collected \in 0..Len(out)
      /\ info \in [Subchannels -> Addresses \cup {NoAddr}]
      /\ byAddr \in [Addresses -> Seq(Subchannels)]
  BY LenProperties DEF IInv, TypeOK
<1> USE <1>0
<1>1. CASE Collect
  <2> DEFINE r == out[collected + 1]
             s == byAddr[r.target]
  <2>1. /\ r.id \in Subchannels /\ r.target \in Addresses
        /\ collected + 1 \in 1..Len(out) /\ collected' = collected + 1
        /\ info' = [info EXCEPT ![r.id] = r.target]
        /\ byAddr' = [byAddr EXCEPT ![r.target] = Append(s, r.id)]
        /\ out' = out
    BY <1>1, CollectEffect DEF IInv, Collect, outVars
  <2>2. info[r.id] = NoAddr
    <3> SUFFICES ASSUME info[r.id] # NoAddr PROVE FALSE
      OBVIOUS
    <3>1. PICK k \in 1..collected : out[k].id = r.id
      BY <2>1 DEF IInv, CollectedInv
    <3>2. k \in 1..Len(out) /\ k # collected + 1
      BY <2>1
    <3> QED
      BY <2>1, <3>1, <3>2 DEF IInv, EachRefOnce
  <2>3. \A id \in Subchannels :
          info'[id] # NoAddr => \E k \in 1..collected' : out'[k].id = id
    <3> SUFFICES ASSUME NEW id \in Subchannels, info'[id] # NoAddr
                 PROVE  \E k \in 1..collected' : out'[k].id = id
      OBVIOUS
    <3>1. CASE id = r.id
      BY <2>1, <3>1
    <3>2. CASE id # r.id
      <4>1. PICK k \in 1..collected : out[k].id = id
        BY <2>1, <3>2 DEF IInv, CollectedInv
      <4>2. k \in 1..collected'
        BY <2>1
      <4> QED
        BY <2>1, <4>1, <4>2
    <3> QED
      BY <3>1, <3>2
  <2> HIDE DEF r
  <2>4. s \in Seq(Subchannels) /\ Distinct(s) /\ r.id \notin Range(s)
    BY <2>1, <2>2, FanoutAssumption DEF IInv, CollectedInv
  <2>5. Distinct(Append(s, r.id)) /\ Range(Append(s, r.id)) = Range(s) \cup {r.id}
    BY <2>1, <2>4, AppendDistinct
  <2>6. ASSUME NEW a \in Addresses
        PROVE  /\ Distinct(byAddr'[a])
               /\ Range(byAddr'[a]) = {id \in Subchannels : info'[id] = a}
    <3>1. Distinct(byAddr[a]) /\ Range(byAddr[a]) = {id \in Subchannels : info[id] = a}
      BY DEF IInv, CollectedInv
    <3>2. CASE a = r.target
      <4>1. byAddr'[a] = Append(s, r.id) /\ s = byAddr[a]
        BY <2>1, <3>2
      <4>2. {id \in Subchannels : info'[id] = a}
              = {id \in Subchannels : info[id] = a} \cup {r.id}
        BY <2>1, <3>2
      <4> HIDE DEF s
      <4> QED
        BY <2>5, <3>1, <4>1, <4>2
    <3>3. CASE a # r.target
      <4>1. byAddr'[a] = byAddr[a]
        BY <2>1, <3>3
      <4>2. {id \in Subchannels : info'[id] = a} = {id \in Subchannels : info[id] = a}
        BY <2>1, <2>2, <3>3, FanoutAssumption
      <4> QED
        BY <3>1, <4>1, <4>2
    <3> QED
      BY <3>2, <3>3
  <2> QED
    BY <2>3, <2>6 DEF CollectedInv
<1>2. CASE SortAndReturn
  <2>1. \A a \in Addresses :
          Distinct(Sorted(byAddr[a])) /\ Range(Sorted(byAddr[a])) = Range(byAddr[a])
    BY SortedLists DEF IInv, CollectedInv
  <2> QED
    BY <1>2, <2>1 DEF SortAndReturn, outVars, IInv, CollectedInv
<1>3. ASSUME NEW w \in Pool, Send(w) PROVE CollectedInv'
  <2>1. \A k \in 1..Len(out) : out'[k] = out[k]
    BY <1>3, SendEffect DEF IInv
  <2> QED
    BY <1>3, <2>1 DEF Send, resultVars, IInv, CollectedInv
<1>4. CASE UNCHANGED <<out, collected, info, byAddr>>
  BY <1>4 DEF IInv, CollectedInv
<1> QED
  BY <1>1, <1>2, <1>3, <1>4
     DEF Next, MainNext, WorkerNext, Done, vars, inVars, outVars, workerVars, resultVars,
         NoChannel, StartWorkers, Feed, CloseIn, Receive, CallAnswered, CallFailed,
         Exit, CloseOut

\* The invariant.
LEMMA Invariance == Spec => []IInv
<1>1. IInv /\ [Next]_vars => IInv'
  BY StepTypeOK, StepJobInv, StepCountInv, StepEachRefOnce, StepPhaseInv, StepCollectedInv DEF IInv
<1> QED
  BY <1>1, InitIInv, PTL DEF Spec
-----------------------------------------------------------------------------
\* A worker that sends has an ID in hand, which was handed out and which no
\* result is for: the results are fewer than the references.
LEMMA RoomForEach == IInv => SendGoesThrough
<1> SUFFICES ASSUME IInv, NEW w \in Pool
             PROVE  /\ outClosed => wpc[w] \in {"exited", "unborn"}
                    /\ wpc[w] = "send" => Len(out) - collected < OutCapacity
  BY DEF SendGoesThrough
<1>1. outClosed => wpc[w] \in {"exited", "unborn"}
  BY DEF IInv, PhaseInv
<1>2. ASSUME wpc[w] = "send" PROVE Len(out) - collected < OutCapacity
  <2>1. w \in Busy
    BY <1>2 DEF Busy, IInv, JobInv
  <2>2. Cardinality(Busy) >= 1
    BY <2>1, BusyCounted, FS_EmptySet
  <2>3. /\ Len(out) \in Nat /\ Len(refs) \in Nat
        /\ taken \in 0..Len(refs) /\ collected \in 0..Len(out)
    BY LenProperties DEF IInv, TypeOK
  <2> QED
    BY <2>2, <2>3, BusyCounted DEF IInv, CountInv, OutCapacity
<1> QED
  BY <1>1, <1>2

\* The goroutines of a page stay within their types, whatever their order.
THEOREM TypeCorrect == Spec => []TypeOK
<1>1. IInv => TypeOK
  BY DEF IInv
<1> QED
  BY <1>1, Invariance, PTL

\* No send on `out' panics or waits for main, for any number of subchannels
\* and any size of the pool (xds-cluster-page.go:399-420).
THEOREM SendAlwaysGoesThrough == Spec => []SendGoesThrough
<1> QED
  BY RoomForEach, Invariance, PTL

\* Each reference is always in one place: no two workers ask about the same
\* subchannel, and none is answered for twice.
THEOREM EachRefAlwaysOnce == Spec => []EachRefOnce
<1>1. IInv => EachRefOnce
  BY DEF IInv
<1> QED
  BY <1>1, Invariance, PTL
-----------------------------------------------------------------------------
\* The references nothing has come of, by where they are.
Unhanded    == {refs[i] : i \in taken + 1 .. Len(refs)}
InHand      == {refs[job[w]] : w \in {v \in Pool : job[v] # 0}}
Uncollected == {out[i].id : i \in collected + 1 .. Len(out)}

\* No reference is in two of these places, nor twice in one.
LEMMA Apart ==
  ASSUME IInv
  PROVE  /\ \A w \in Pool : job[w] # 0 =>
              /\ refs[job[w]] \notin Unhanded \cup Uncollected
              /\ \A v \in Pool : job[v] # 0 /\ v # w => refs[job[v]] # refs[job[w]]
         /\ \A k \in 1..Len(out) :
              /\ out[k].id \notin Unhanded \cup InHand
              /\ \A i \in 1..Len(out) : i # k => out[i].id # out[k].id
<1>0. /\ Len(out) \in Nat /\ DOMAIN out = 1..Len(out) /\ collected \in 0..Len(out)
      /\ Len(refs) \in Nat /\ DOMAIN refs = 1..Len(refs)
      /\ taken \in 0..Len(refs) /\ job \in [Pool -> 0..Len(refs)]
  BY LenProperties DEF IInv, TypeOK
<1> USE <1>0
<1>1. ASSUME NEW j \in 1..taken PROVE refs[j] \notin Unhanded
  <2>1. \A i \in taken + 1 .. Len(refs) : refs[i] # refs[j]
    BY <1>1 DEF IInv, Distinct
  <2> QED
    BY <2>1 DEF Unhanded
<1>2. ASSUME NEW w \in Pool, job[w] # 0
      PROVE  /\ refs[job[w]] \notin Unhanded \cup Uncollected
             /\ \A v \in Pool : job[v] # 0 /\ v # w => refs[job[v]] # refs[job[w]]
  <2>1. job[w] \in 1..taken /\ job[w] \in 1..Len(refs)
    BY <1>2 DEF IInv, JobInv
  <2>2. refs[job[w]] \notin Unhanded
    BY <1>1, <2>1
  <2>3. \A i \in collected + 1 .. Len(out) : refs[job[w]] # out[i].id
    BY <1>2 DEF IInv, EachRefOnce
  <2>4. ASSUME NEW v \in Pool, job[v] # 0, v # w PROVE refs[job[v]] # refs[job[w]]
    <3>1. job[v] \in 1..Len(refs) /\ job[v] # job[w]
      BY <1>2, <2>4 DEF IInv, EachRefOnce
    <3> QED
      BY <2>1, <3>1 DEF IInv, Distinct
  <2> QED
    BY <2>2, <2>3, <2>4 DEF Uncollected
<1>3. ASSUME NEW k \in 1..Len(out)
      PROVE  /\ out[k].id \notin Unhanded \cup InHand
             /\ \A i \in 1..Len(out) : i # k => out[i].id # out[k].id
  <2>1. PICK j \in 1..taken : out[k].id = refs[j]
    BY <1>3 DEF IInv, OutInv
  <2>2. out[k].id \notin Unhanded
    BY <1>1, <2>1
  <2>3. out[k].id \notin InHand
    BY <1>3 DEF InHand, IInv, EachRefOnce
  <2>4. \A i \in 1..Len(out) : i # k => out[i].id # out[k].id
    BY <1>3 DEF IInv, EachRefOnce
  <2> QED
    BY <2>2, <2>3, <2>4
<1> QED
  BY <1>2, <1>3

\* Receive moves a reference from `in' to a worker.
LEMMA ReceiveMoves ==
  ASSUME IInv, NEW w \in Pool, Receive(w)
  PROVE  Outstanding' = Outstanding
<1>1. /\ Len(refs) \in Nat /\ taken \in Nat /\ taken + 1 <= Len(refs)
      /\ job \in [Pool -> 0..Len(refs)] /\ job[w] = 0
      /\ job' = [job EXCEPT ![w] = taken + 1] /\ taken' = taken + 1
      /\ UNCHANGED <<refs, out, collected>>
  BY LenProperties DEF Receive, outVars, resultVars, IInv, JobInv, TypeOK
<1>2. Unhanded = Unhanded' \cup {refs[taken + 1]}
  <2>1. \A i : i \in taken + 1 .. Len(refs)
                 <=> i = taken + 1 \/ i \in taken + 1 + 1 .. Len(refs)
    BY <1>1
  <2> QED
    BY <1>1, <2>1 DEF Unhanded
<1>3. InHand' = InHand \cup {refs[taken + 1]}
  BY <1>1 DEF InHand
<1>4. Uncollected' = Uncollected
  BY <1>1 DEF Uncollected
<1>5. /\ Outstanding = (Unhanded \cup InHand) \cup Uncollected
      /\ Outstanding' = (Unhanded' \cup InHand') \cup Uncollected'
  BY DEF Outstanding, Unhanded, InHand, Uncollected
<1> QED
  BY <1>2, <1>3, <1>4, <1>5

\* Send moves one from a worker to `out'.
LEMMA SendMoves ==
  ASSUME IInv, NEW w \in Pool, Send(w)
  PROVE  Outstanding' = Outstanding
<1>1. /\ job \in [Pool -> 0..Len(refs)] /\ job[w] # 0
      /\ job' = [job EXCEPT ![w] = 0]
      /\ UNCHANGED <<refs, taken, collected>>
  BY DEF Send, inVars, resultVars, IInv, JobInv, TypeOK
<1>2. /\ Len(out) \in Nat /\ collected \in 0..Len(out)
      /\ Len(out') = Len(out) + 1 /\ \A k \in 1..Len(out) : out'[k] = out[k]
      /\ out'[Len(out) + 1].id = refs[job[w]]
  BY SendEffect, LenProperties DEF IInv, TypeOK
<1>3. InHand = InHand' \cup {refs[job[w]]}
  BY <1>1 DEF InHand
<1>4. Uncollected' = Uncollected \cup {refs[job[w]]}
  <2>1. \A i : i \in collected + 1 .. Len(out) + 1
                 <=> i = Len(out) + 1 \/ i \in collected + 1 .. Len(out)
    BY <1>2
  <2>2. \A i \in collected + 1 .. Len(out) : out'[i] = out[i]
    BY <1>2
  <2> QED
    BY <1>1, <1>2, <2>1, <2>2 DEF Uncollected
<1>5. Unhanded' = Unhanded
  BY <1>1 DEF Unhanded
<1>6. /\ Outstanding = (Unhanded \cup InHand) \cup Uncollected
      /\ Outstanding' = (Unhanded' \cup InHand') \cup Uncollected'
  BY DEF Outstanding, Unhanded, InHand, Uncollected
<1> QED
  BY <1>3, <1>4, <1>5, <1>6

\* A failed call drops one from a worker.
LEMMA CallFailedDrops ==
  ASSUME IInv, NEW w \in Pool, CallFailed(w)
  PROVE  refs[job[w]] \in Outstanding /\ Outstanding' = Outstanding \ {refs[job[w]]}
<1>1. /\ job \in [Pool -> 0..Len(refs)] /\ job[w] # 0
      /\ job' = [job EXCEPT ![w] = 0]
      /\ UNCHANGED <<refs, taken, out, collected>>
  BY DEF CallFailed, inVars, outVars, resultVars, IInv, JobInv, TypeOK
<1>2. /\ refs[job[w]] \notin Unhanded \cup Uncollected
      /\ \A v \in Pool : job[v] # 0 /\ v # w => refs[job[v]] # refs[job[w]]
  BY <1>1, Apart
<1>3. InHand' = InHand \ {refs[job[w]]} /\ refs[job[w]] \in InHand
  BY <1>1, <1>2 DEF InHand
<1>4. Unhanded' = Unhanded /\ Uncollected' = Uncollected
  BY <1>1 DEF Unhanded, Uncollected
<1>5. /\ Outstanding = (Unhanded \cup InHand) \cup Uncollected
      /\ Outstanding' = (Unhanded' \cup InHand') \cup Uncollected'
  BY DEF Outstanding, Unhanded, InHand, Uncollected
<1> QED
  BY <1>2, <1>3, <1>4, <1>5

\* Collect takes one from `out'.
LEMMA CollectTakes ==
  ASSUME IInv, Collect
  PROVE  LET id == out[collected + 1].id
         IN  id \in Outstanding /\ Outstanding' = Outstanding \ {id}
<1> DEFINE id == out[collected + 1].id
<1>1. /\ Len(out) \in Nat /\ collected \in 0..Len(out)
      /\ collected + 1 \in 1..Len(out) /\ collected' = collected + 1
      /\ UNCHANGED <<refs, taken, out, job>>
  BY CollectEffect, LenProperties DEF Collect, inVars, outVars, workerVars, IInv, TypeOK
<1>2. /\ id \notin Unhanded \cup InHand
      /\ \A i \in 1..Len(out) : i # collected + 1 => out[i].id # id
  BY <1>1, Apart
<1>3. Uncollected' = Uncollected \ {id} /\ id \in Uncollected
  <2>1. \A i : i \in collected + 1 .. Len(out)
                 <=> i = collected + 1 \/ i \in collected + 1 + 1 .. Len(out)
    BY <1>1
  <2>2. \A i \in collected + 1 + 1 .. Len(out) : out[i].id # id
    BY <1>1, <1>2
  <2> HIDE DEF id
  <2>3. id = out[collected + 1].id
    BY DEF id
  <2> QED
    BY <1>1, <2>1, <2>2, <2>3 DEF Uncollected
<1>4. Unhanded' = Unhanded /\ InHand' = InHand
  BY <1>1 DEF Unhanded, InHand
<1>5. /\ Outstanding = (Unhanded \cup InHand) \cup Uncollected
      /\ Outstanding' = (Unhanded' \cup InHand') \cup Uncollected'
  BY DEF Outstanding, Unhanded, InHand, Uncollected
<1> HIDE DEF id
<1>6. id \in Outstanding /\ Outstanding' = Outstanding \ {id}
  BY <1>2, <1>3, <1>4, <1>5
<1> QED
  BY <1>6 DEF id

\* When `out' is closed and drained, something has come of every reference.
LEMMA DrainedIsAll ==
  ASSUME IInv, main = "collect", collected = Len(out), outClosed
  PROVE  Outstanding = {}
<1>1. /\ Len(refs) \in Nat /\ sent = Len(refs) /\ taken \in 0..sent
      /\ \A w \in Pool : job[w] = 0 /\ wpc[w] \in {"exited", "unborn"}
      /\ \A w \in Pool : wpc[w] = "unborn" <=> w > Len(refs)
      /\ \A w \in Pool : wpc[w] = "exited" => taken = sent
  BY LenProperties DEF IInv, TypeOK, PhaseInv, JobInv
<1>2. 1 \in Pool
  BY FanoutAssumption DEF Pool
<1>3. taken = Len(refs)
  BY <1>1, <1>2
<1>4. Unhanded = {} /\ InHand = {}
  BY <1>1, <1>3 DEF Unhanded, InHand
<1>5. Uncollected = {}
  BY LenProperties DEF Uncollected, IInv, TypeOK
<1> QED
  BY <1>4, <1>5 DEF Outstanding, Unhanded, InHand, Uncollected
-----------------------------------------------------------------------------
\* Nothing is asked before GetChannel has answered.
LEMMA InitRefines == Init => Snapshot!Init
<1> SUFFICES ASSUME Init PROVE Snapshot!Init
  OBVIOUS
<1>1. Outstanding = {}
  BY DEF Init, Outstanding
<1> QED
  BY <1>1 DEF Init, Snapshot!Init, Snapshot!Empty

\* Each step is a step of the loop over the references or changes nothing the
\* loop knows of.
LEMMA StepRefines == IInv /\ [Next]_vars => [Snapshot!Next]_(Snapshot!vars)
<1> SUFFICES ASSUME IInv, [Next]_vars PROVE [Snapshot!Next]_(Snapshot!vars)
  OBVIOUS
<1> DEFINE stage == IF main \in {"feed", "collect"} THEN "asking" ELSE main
           table == IF main = "returned" THEN byAddr ELSE [a \in Addresses |-> << >>]
<1>0. stage' = (IF main' \in {"feed", "collect"} THEN "asking" ELSE main')
  OBVIOUS
<1>a. ASSUME stage' = stage, table' = table, info' = info, Outstanding' = Outstanding
      PROVE  UNCHANGED Snapshot!vars
  BY <1>a DEF Snapshot!vars
<1>b. ASSUME UNCHANGED <<main, byAddr>> PROVE stage' = stage /\ table' = table
  BY <1>b
<1>c. ASSUME UNCHANGED <<refs, taken, job, out, collected>>
      PROVE  Outstanding' = Outstanding
  BY <1>c DEF Outstanding
<1>1. CASE NoChannel
  <2>1. main = "start" /\ byAddr = [a \in Addresses |-> << >>]
    BY <1>1 DEF NoChannel, IInv, PhaseInv
  <2>2. Outstanding' = Outstanding
    BY <1>1, <1>c DEF NoChannel, inVars, workerVars, outVars, resultVars
  <2>3. Snapshot!NoChannel
    BY <1>1, <2>1, <2>2 DEF NoChannel, resultVars, Snapshot!NoChannel
  <2> QED
    BY <2>3 DEF Snapshot!Next
<1>2. CASE StartWorkers
  <2>1. main = "start" /\ main' = "feed" /\ UNCHANGED <<info, byAddr>>
    BY <1>2 DEF StartWorkers, resultVars
  <2>2. Outstanding' \in SUBSET Subchannels
    <3>1. /\ refs' \in Seq(Subchannels) /\ Len(refs') \in Nat
          /\ refs' \in [1..Len(refs') -> Subchannels]
      BY <1>2, RefListsDistinct, LenProperties DEF StartWorkers
    <3>2. /\ taken' = 0 /\ Len(out') = 0 /\ collected' = 0
          /\ \A w \in Pool : job'[w] = 0
      <4>1. Len(refs) = 0 /\ \A w \in Pool : job[w] = 0
        BY <1>2 DEF StartWorkers, IInv, PhaseInv, JobInv
      <4>2. taken = 0 /\ Len(out) = 0 /\ collected = 0
        BY <4>1, BusyCounted, LenProperties DEF IInv, TypeOK, CountInv
      <4> QED
        BY <1>2, <4>1, <4>2 DEF StartWorkers, inVars, outVars, resultVars
    <3>3. Outstanding' = {refs'[i] : i \in 1..Len(refs')}
      BY <3>1, <3>2 DEF Outstanding
    <3> QED
      BY <3>1, <3>3
  <2>3. Snapshot!Begin
    BY <2>1, <2>2 DEF Snapshot!Begin
  <2> QED
    BY <2>3 DEF Snapshot!Next
<1>3. CASE Feed
  BY <1>3, <1>a, <1>b, <1>c DEF Feed, workerVars, outVars, resultVars
<1>4. CASE CloseIn
  <2>1. main = "feed" /\ main' = "collect"
    BY <1>4 DEF CloseIn
  <2>2. stage' = stage /\ table' = table
    BY <2>1
  <2> QED
    BY <1>4, <1>a, <1>c, <2>2 DEF CloseIn, workerVars, outVars, resultVars
<1>5. ASSUME NEW w \in Pool, Receive(w) PROVE UNCHANGED Snapshot!vars
  BY <1>5, <1>a, <1>b, ReceiveMoves DEF Receive, resultVars
<1>6. ASSUME NEW w \in Pool, CallAnswered(w) \/ Exit(w) PROVE UNCHANGED Snapshot!vars
  BY <1>6, <1>a, <1>b, <1>c DEF CallAnswered, Exit, inVars, outVars, resultVars
<1>7. ASSUME NEW w \in Pool, CallFailed(w)
      PROVE  refs[job[w]] \in Subchannels /\ Snapshot!Vanish(refs[job[w]])
  <2>1. refs[job[w]] \in Subchannels
    BY <1>7, JobTyped DEF CallFailed, IInv
  <2>2. stage' = stage /\ table' = table /\ info' = info
    BY <1>7, <1>b DEF CallFailed, resultVars
  <2>3. /\ refs[job[w]] \in Outstanding
        /\ Outstanding' = Outstanding \ {refs[job[w]]}
    BY <1>7, CallFailedDrops
  <2> QED
    BY <2>1, <2>2, <2>3 DEF Snapshot!Vanish
<1>8. ASSUME NEW w \in Pool, Send(w) PROVE UNCHANGED Snapshot!vars
  BY <1>8, <1>a, <1>b, SendMoves DEF Send, resultVars
<1>9. CASE CloseOut
  BY <1>9, <1>a, <1>b, <1>c DEF CloseOut, inVars, workerVars, resultVars
<1>10. CASE Collect
  <2> DEFINE r == out[collected + 1]
  <2>1. /\ r.id \in Subchannels /\ r.target \in Addresses
        /\ info' = [info EXCEPT ![r.id] = r.target]
    BY <1>10, CollectEffect DEF IInv
  <2>2. r.id \in Outstanding /\ Outstanding' = Outstanding \ {r.id}
    BY <1>10, CollectTakes
  <2>3. main = "collect" /\ main' = main
    BY <1>10 DEF Collect
  <2>4. stage' = stage /\ table' = table
    BY <2>3
  <2> HIDE DEF r
  <2>5. Snapshot!Answer(r.id, r.target)
    BY <2>1, <2>2, <2>4 DEF Snapshot!Answer
  <2> QED
    BY <2>1, <2>5 DEF Snapshot!Next
<1>11. CASE SortAndReturn
  <2>1. /\ main = "collect" /\ main' = "returned" /\ info' = info
        /\ byAddr' = [a \in Addresses |-> Sorted(byAddr[a])]
    BY <1>11 DEF SortAndReturn
  <2>2. Outstanding = {} /\ Outstanding' = Outstanding
    BY <1>11, <1>c, DrainedIsAll DEF SortAndReturn, inVars, workerVars, outVars
  <2>3. ASSUME NEW a \in Addresses
        PROVE  Snapshot!Lists(byAddr'[a], {id \in Subchannels : info[id] = a})
    <3>1. /\ byAddr[a] \in Seq(Subchannels) /\ Distinct(byAddr[a])
          /\ Range(byAddr[a]) = {id \in Subchannels : info[id] = a}
      BY DEF IInv, TypeOK, CollectedInv
    <3>2. byAddr'[a] = Sorted(byAddr[a])
      BY <2>1
    <3> QED
      BY <3>1, <3>2, SortedLists DEF Snapshot!Lists, Range, Snapshot!Range
  <2>4. Snapshot!Return
    BY <2>1, <2>2, <2>3 DEF Snapshot!Return
  <2> QED
    BY <2>4 DEF Snapshot!Next
<1>12. CASE UNCHANGED vars
  BY <1>12, <1>a, <1>b, <1>c DEF vars
<1> QED
  BY <1>1, <1>2, <1>3, <1>4, <1>5, <1>6, <1>7, <1>8, <1>9, <1>10, <1>11, <1>12
     DEF Next, MainNext, WorkerNext, Done, Snapshot!Next

\* The pool gives the page what a sequential loop over the references would,
\* however its goroutines and the answers to its RPCs interleave.
THEOREM PoolIsSequentialLoop == Spec => IsSnapshot
<1> QED
  BY InitRefines, StepRefines, Invariance, PTL DEF Spec, IsSnapshot, Snapshot!Spec
-----------------------------------------------------------------------------
(* That the page returns is a matter of fairness, which stays with TLC; what
   it rests on does not: that as long as it has not returned some goroutine can
   go on, and that there are only so many steps to take. *)

\* While main ranges over `out', there is one who will close it, or it is closed.
ClosingInv ==
  /\ closer => ~outClosed
  /\ main = "collect" => closer \/ outClosed

LEMMA StepClosingInv == IInv /\ ClosingInv /\ [Next]_vars => ClosingInv'
<1> SUFFICES ASSUME IInv, ClosingInv, [Next]_vars PROVE ClosingInv'
  OBVIOUS
<1> USE DEF ClosingInv
<1>1. ASSUME main = "feed" \/ main = "start" PROVE ~outClosed /\ ~closer
  BY <1>1 DEF IInv, PhaseInv
<1>2. CASE NoChannel \/ StartWorkers \/ Feed
  BY <1>2 DEF NoChannel, StartWorkers, Feed, outVars
<1>3. CASE CloseIn
  BY <1>1, <1>3 DEF CloseIn, outVars
<1>4. CASE CloseOut
  BY <1>4 DEF CloseOut
<1>5. ASSUME NEW w \in Pool, WorkerNext(w) PROVE ClosingInv'
  BY <1>5 DEF WorkerNext, Receive, CallAnswered, CallFailed, Send, Exit, outVars
<1>6. CASE Collect \/ SortAndReturn
  BY <1>6 DEF Collect, SortAndReturn, outVars
<1>7. CASE UNCHANGED vars
  BY <1>7 DEF vars
<1> QED
  BY <1>2, <1>3, <1>4, <1>5, <1>6, <1>7 DEF Next, MainNext, Done

LEMMA ClosingInvariance == Spec => [](IInv /\ ClosingInv)
<1>1. Init => ClosingInv
  BY DEF Init, ClosingInv
<1>2. IInv /\ [Next]_vars => IInv'
  BY StepTypeOK, StepJobInv, StepCountInv, StepEachRefOnce, StepPhaseInv, StepCollectedInv DEF IInv
<1> QED
  BY <1>1, <1>2, InitIInv, StepClosingInv, PTL DEF Spec

\* A worker that its channels do not make wait.
CanGoOn(w) ==
  \/ wpc[w] = "recv" /\ (taken < sent \/ inClosed)
  \/ wpc[w] = "call"
  \/ wpc[w] = "send" /\ Len(out) - collected < OutCapacity

\* No deadlock: as long as main waits for `out', a worker goes on, or the closer.
NeverStuck ==
  main = "collect" =>
    \/ collected < Len(out) \/ outClosed
    \/ closer /\ \A w \in Pool : wpc[w] \in {"exited", "unborn"}
    \/ \E w \in Pool : CanGoOn(w)

\* The goroutines never all wait for each other: while the page waits for a
\* result there is one in `out', or a worker can go on, or the closer can.
THEOREM FanoutNeverStuck == Spec => []NeverStuck
<1>1. IInv /\ ClosingInv => NeverStuck
  <2> SUFFICES ASSUME IInv, ClosingInv, main = "collect", ~outClosed
               PROVE  \/ closer /\ \A w \in Pool : wpc[w] \in {"exited", "unborn"}
                      \/ \E w \in Pool : CanGoOn(w)
    BY DEF NeverStuck
  <2>1. closer /\ inClosed
    BY DEF ClosingInv, IInv, PhaseInv
  <2>2. ASSUME NEW w \in Pool, wpc[w] \notin {"exited", "unborn"} PROVE CanGoOn(w)
    <3>1. wpc[w] \in {"recv", "call", "send"}
      BY <2>2 DEF IInv, TypeOK
    <3>2. wpc[w] = "send" => Len(out) - collected < OutCapacity
      BY RoomForEach DEF SendGoesThrough
    <3> QED
      BY <2>1, <3>1, <3>2 DEF CanGoOn
  <2> QED
    BY <2>1, <2>2
<1> QED
  BY <1>1, ClosingInvariance, PTL

-----------------------------------------------------------------------------
\* What is left to do: each reference counts for the steps it has before it.
Points == {"recv", "call", "send", "exited"}
At == [point \in Points |-> Cardinality({w \in Pool : wpc[w] = point})]

ToHandOut == (Len(refs) - sent) + 4 * (Len(refs) - taken)
ToWork    == 4 * At["call"] + 3 * At["send"] + At["recv"]
ToCollect == (Len(out) - collected) + (IF outClosed THEN 0 ELSE 1)
ToReturn  == CASE main = "feed" -> 2 [] main = "collect" -> 1 [] OTHER -> 0

Effort == ToHandOut + ToWork + ToCollect + ToReturn

LEMMA AtCounted ==
  ASSUME NEW point
  PROVE  LET workers == {w \in Pool : wpc[w] = point}
         IN  IsFiniteSet(workers) /\ Cardinality(workers) \in Nat
<1> DEFINE workers == {w \in Pool : wpc[w] = point}
<1>1. workers \in SUBSET Pool
  OBVIOUS
<1>2. IsFiniteSet(Pool)
  BY FanoutAssumption, FS_Interval DEF Pool
<1> HIDE DEF workers
<1>3. IsFiniteSet(workers) /\ Cardinality(workers) \in Nat
  BY <1>1, <1>2, FS_Subset, FS_CardinalityType
<1> QED
  BY <1>3 DEF workers

LEMMA AtTyped == At["call"] \in Nat /\ At["send"] \in Nat /\ At["recv"] \in Nat
  BY AtCounted DEF At, Points

\* A worker that goes from one point to another.
LEMMA Moved ==
  ASSUME TypeOK, NEW w \in Pool, NEW from \in Points, NEW to \in Points,
         wpc[w] = from, from # to, wpc' = [wpc EXCEPT ![w] = to]
  PROVE  /\ At'[from] = At[from] - 1
         /\ At'[to] = At[to] + 1
         /\ \A point \in Points \ {from, to} : At'[point] = At[point]
<1>1. /\ wpc'[w] = to
      /\ \A v \in Pool \ {w} : wpc'[v] = wpc[v]
  BY DEF TypeOK
<1> DEFINE before(point) == {v \in Pool : wpc[v] = point}
           after(point)  == {v \in Pool : wpc'[v] = point}
<1>2. after(from) = before(from) \ {w} /\ w \in before(from)
  BY <1>1
<1>3. after(to) = before(to) \cup {w} /\ w \notin before(to)
  BY <1>1
<1>4. ASSUME NEW point \in Points \ {from, to} PROVE after(point) = before(point)
  BY <1>1, <1>4
<1>5. \A point : IsFiniteSet(before(point))
  BY AtCounted
<1>6. \A point \in Points : /\ At[point] = Cardinality(before(point))
                            /\ At'[point] = Cardinality(after(point))
  BY DEF At
<1> HIDE DEF before, after
<1>7. Cardinality(before(from) \ {w}) = Cardinality(before(from)) - 1
  BY <1>2, <1>5, FS_RemoveElement
<1>8. Cardinality(before(to) \cup {w}) = Cardinality(before(to)) + 1
  BY <1>3, <1>5, FS_AddElement
<1> QED
  BY <1>2, <1>3, <1>4, <1>6, <1>7, <1>8

\* What is left is a natural number ...
LEMMA EffortTyped ==
  ASSUME TypeOK
  PROVE  ToHandOut \in Nat /\ ToWork \in Nat /\ ToCollect \in Nat /\ ToReturn \in Nat
<1>1. /\ Len(refs) \in Nat /\ Len(out) \in Nat
      /\ sent \in 0 .. Len(refs) /\ taken \in 0 .. sent /\ collected \in 0 .. Len(out)
  BY LenProperties DEF TypeOK
<1>2. ToWork \in Nat
  BY AtTyped DEF ToWork
<1>3. ToReturn \in Nat
  BY DEF ToReturn, TypeOK
<1> QED
  BY <1>1, <1>2, <1>3 DEF ToHandOut, ToCollect

LEMMA WorkUnmoved ==
  ASSUME wpc' = wpc
  PROVE  ToWork' = ToWork
  BY DEF ToWork, At, Points

\* ... that the steps of the workers make smaller, ...
LEMMA WorkerEffort ==
  ASSUME IInv, NEW w \in Pool, WorkerNext(w)
  PROVE  Effort' < Effort
<1>0. /\ Len(refs) \in Nat /\ Len(out) \in Nat
      /\ sent \in 0 .. Len(refs) /\ taken \in 0 .. sent /\ collected \in 0 .. Len(out)
  BY LenProperties DEF IInv, TypeOK
<1>c. At["call"] \in Nat /\ At["send"] \in Nat /\ At["recv"] \in Nat
  BY AtTyped
<1>e. ToHandOut \in Nat /\ ToWork \in Nat /\ ToCollect \in Nat /\ ToReturn \in Nat
  BY EffortTyped DEF IInv
<1>1. CASE Receive(w)
  <2>1. ToWork' = ToWork + 3
    <3>1. /\ At'["recv"] = At["recv"] - 1
          /\ At'["call"] = At["call"] + 1
          /\ At'["send"] = At["send"]
      BY <1>1, Moved DEF Receive, IInv, Points
    <3>2. ToWork = 4 * At["call"] + (3 * At["send"] + At["recv"])
      BY <1>c DEF ToWork
    <3>3. ToWork' = 4 * (At["call"] + 1) + (3 * At["send"] + (At["recv"] - 1))
      BY <1>c, <3>1 DEF ToWork
    <3> QED
      BY <1>c, <3>2, <3>3
  <2>2. ToHandOut' = ToHandOut - 4
    BY <1>0, <1>1 DEF Receive, ToHandOut
  <2>3. ToCollect' = ToCollect /\ ToReturn' = ToReturn
    BY <1>1 DEF Receive, ToCollect, ToReturn, outVars, resultVars
  <2> QED
    BY <1>e, <2>1, <2>2, <2>3 DEF Effort
<1>2. CASE CallAnswered(w)
  <2>1. ToWork' = ToWork - 1
    <3>1. /\ At'["call"] = At["call"] - 1
          /\ At'["send"] = At["send"] + 1
          /\ At'["recv"] = At["recv"]
      BY <1>2, Moved DEF CallAnswered, IInv, Points
    <3>2. ToWork = 4 * At["call"] + (3 * At["send"] + At["recv"])
      BY <1>c DEF ToWork
    <3>3. ToWork' = 4 * (At["call"] - 1) + (3 * (At["send"] + 1) + At["recv"])
      BY <1>c, <3>1 DEF ToWork
    <3> QED
      BY <1>c, <3>2, <3>3
  <2>2. ToHandOut' = ToHandOut /\ ToCollect' = ToCollect /\ ToReturn' = ToReturn
    BY <1>2 DEF CallAnswered, ToHandOut, ToCollect, ToReturn, inVars, outVars, resultVars
  <2> QED
    BY <1>e, <2>1, <2>2 DEF Effort
<1>3. CASE CallFailed(w)
  <2>1. ToWork' = ToWork - 3
    <3>1. /\ At'["call"] = At["call"] - 1
          /\ At'["recv"] = At["recv"] + 1
          /\ At'["send"] = At["send"]
      BY <1>3, Moved DEF CallFailed, IInv, Points
    <3>2. ToWork = 4 * At["call"] + (3 * At["send"] + At["recv"])
      BY <1>c DEF ToWork
    <3>3. ToWork' = 4 * (At["call"] - 1) + (3 * At["send"] + (At["recv"] + 1))
      BY <1>c, <3>1 DEF ToWork
    <3> QED
      BY <1>c, <3>2, <3>3
  <2>2. ToHandOut' = ToHandOut /\ ToCollect' = ToCollect /\ ToReturn' = ToReturn
    BY <1>3 DEF CallFailed, ToHandOut, ToCollect, ToReturn, inVars, outVars, resultVars
  <2> QED
    BY <1>e, <2>1, <2>2 DEF Effort
<1>4. CASE Send(w)
  <2>1. ToWork' = ToWork - 2
    <3>1. /\ At'["send"] = At["send"] - 1
          /\ At'["recv"] = At["recv"] + 1
          /\ At'["call"] = At["call"]
      BY <1>4, Moved DEF Send, IInv, Points
    <3>2. ToWork = 4 * At["call"] + (3 * At["send"] + At["recv"])
      BY <1>c DEF ToWork
    <3>3. ToWork' = 4 * At["call"] + (3 * (At["send"] - 1) + (At["recv"] + 1))
      BY <1>c, <3>1 DEF ToWork
    <3> QED
      BY <1>c, <3>2, <3>3
  <2>2. Len(out') = Len(out) + 1
    BY <1>4, SendEffect DEF IInv
  <2>3. ToCollect' = ToCollect + 1
    BY <1>0, <1>4, <2>2 DEF Send, ToCollect, resultVars
  <2>4. ToHandOut' = ToHandOut /\ ToReturn' = ToReturn
    BY <1>4 DEF Send, ToHandOut, ToReturn, inVars
  <2> QED
    BY <1>e, <2>1, <2>3, <2>4 DEF Effort
<1>5. CASE Exit(w)
  <2>1. ToWork' = ToWork - 1
    <3>1. /\ At'["recv"] = At["recv"] - 1
          /\ At'["send"] = At["send"]
          /\ At'["call"] = At["call"]
      BY <1>5, Moved DEF Exit, IInv, Points
    <3>2. ToWork = 4 * At["call"] + (3 * At["send"] + At["recv"])
      BY <1>c DEF ToWork
    <3>3. ToWork' = 4 * At["call"] + (3 * At["send"] + (At["recv"] - 1))
      BY <1>c, <3>1 DEF ToWork
    <3> QED
      BY <1>c, <3>2, <3>3
  <2>2. ToHandOut' = ToHandOut /\ ToCollect' = ToCollect /\ ToReturn' = ToReturn
    BY <1>5 DEF Exit, ToHandOut, ToCollect, ToReturn, inVars, outVars, resultVars
  <2> QED
    BY <1>e, <2>1, <2>2 DEF Effort
<1> QED
  BY <1>1, <1>2, <1>3, <1>4, <1>5 DEF WorkerNext

\* ... and so do those of main and of the closer.
LEMMA MainEffort ==
  ASSUME IInv, ClosingInv, Feed \/ CloseIn \/ Collect \/ SortAndReturn \/ CloseOut
  PROVE  Effort' < Effort
<1>0. /\ Len(refs) \in Nat /\ Len(out) \in Nat
      /\ sent \in 0 .. Len(refs) /\ taken \in 0 .. sent /\ collected \in 0 .. Len(out)
  BY LenProperties DEF IInv, TypeOK
<1>e. ToHandOut \in Nat /\ ToWork \in Nat /\ ToCollect \in Nat /\ ToReturn \in Nat
  BY EffortTyped DEF IInv
<1>w. ToWork' = ToWork
  BY WorkUnmoved DEF Feed, CloseIn, Collect, SortAndReturn, CloseOut, workerVars
<1>1. CASE Feed
  <2>1. ToHandOut' = ToHandOut - 1
    BY <1>0, <1>1 DEF Feed, ToHandOut
  <2>2. ToCollect' = ToCollect /\ ToReturn' = ToReturn
    BY <1>1 DEF Feed, ToCollect, ToReturn, outVars, resultVars
  <2> QED
    BY <1>e, <1>w, <2>1, <2>2 DEF Effort
<1>2. CASE CloseIn
  <2>1. ToReturn = 2 /\ ToReturn' = 1
    BY <1>2 DEF CloseIn, ToReturn
  <2>2. ToHandOut' = ToHandOut /\ ToCollect' = ToCollect
    BY <1>2 DEF CloseIn, ToHandOut, ToCollect, outVars, resultVars
  <2> QED
    BY <1>e, <1>w, <2>1, <2>2 DEF Effort
<1>3. CASE Collect
  <2>1. ToCollect' = ToCollect - 1
    BY <1>0, <1>3 DEF Collect, ToCollect, outVars
  <2>2. ToHandOut' = ToHandOut /\ ToReturn' = ToReturn
    BY <1>3 DEF Collect, ToHandOut, ToReturn, inVars
  <2> QED
    BY <1>e, <1>w, <2>1, <2>2 DEF Effort
<1>4. CASE SortAndReturn
  <2>1. ToReturn = 1 /\ ToReturn' = 0
    BY <1>4 DEF SortAndReturn, ToReturn
  <2>2. ToHandOut' = ToHandOut /\ ToCollect' = ToCollect
    BY <1>4 DEF SortAndReturn, ToHandOut, ToCollect, inVars, outVars
  <2> QED
    BY <1>e, <1>w, <2>1, <2>2 DEF Effort
<1>5. CASE CloseOut
  <2>1. ~outClosed /\ outClosed'
    BY <1>5 DEF CloseOut, ClosingInv
  <2>2. ToCollect' = ToCollect - 1
    BY <1>0, <1>5, <2>1 DEF CloseOut, ToCollect, resultVars
  <2>3. ToHandOut' = ToHandOut /\ ToReturn' = ToReturn
    BY <1>5 DEF CloseOut, ToHandOut, ToReturn, inVars
  <2> QED
    BY <1>e, <1>w, <2>2, <2>3 DEF Effort
<1> QED
  BY <1>1, <1>2, <1>3, <1>4, <1>5

\* Once GetChannel has answered, every step of any goroutine leaves less to do.
\* So there is no schedule of the goroutines under which they run on forever,
\* and they can only stop, by FanoutNeverStuck, once the page has returned.
THEOREM FanoutEnds == Spec => [][main # "start" => Effort \in Nat /\ Effort' < Effort]_vars
<1>1. IInv /\ ClosingInv /\ [Next]_vars => [main # "start" => Effort \in Nat /\ Effort' < Effort]_vars
  <2> SUFFICES ASSUME IInv, ClosingInv, Next, main # "start", vars' # vars
               PROVE  Effort \in Nat /\ Effort' < Effort
    OBVIOUS
  <2>1. Effort \in Nat
    BY EffortTyped DEF IInv, Effort
  <2>2. ASSUME NEW w \in Pool, WorkerNext(w) PROVE Effort' < Effort
    BY <2>2, WorkerEffort
  <2>3. CASE Feed \/ CloseIn \/ Collect \/ SortAndReturn \/ CloseOut
    BY <2>1, <2>3, MainEffort
  <2>4. ~NoChannel /\ ~StartWorkers /\ ~Done
    BY DEF NoChannel, StartWorkers, Done
  <2> QED
    BY <2>1, <2>2, <2>3, <2>4 DEF Next, MainNext
<1> QED
  BY <1>1, ClosingInvariance, PTL DEF Spec
=============================================================================
