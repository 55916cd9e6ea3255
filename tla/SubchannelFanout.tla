-------------------------- MODULE SubchannelFanout --------------------------
(***************************************************************************)
(* subchannelsByAddress() of xds-cluster-page.go: the GetSubchannel RPCs   *)
(* for every subchannel of a channel, spread over a pool of goroutines.    *)
(*                                                                         *)
(* The goroutine that renders the page (main) starts the workers, feeds    *)
(* the IDs into channel `in', closes it, starts a goroutine (the closer)   *)
(* that closes channel `out' after the workers are done, and collects from *)
(* `out' until that happens.  Channels are kept whole: `in' holds what     *)
(* lies between taken and sent in refs, `out' what follows its first       *)
(* `collected' results.                                                    *)
(***************************************************************************)
EXTENDS FiniteSets, Functions, Naturals, Sequences

CONSTANTS
  Subchannels,  \* subchannel IDs
  Addresses,    \* the targets subchannels report
  NoAddr,       \* no answer (the zero value of a map)
  Parallelism   \* size of the worker pool, 32 in the code

ASSUME FanoutAssumption ==
  /\ Subchannels \subseteq Nat
  /\ IsFiniteSet(Subchannels)
  /\ NoAddr \notin Addresses
  /\ Parallelism \in Nat \ {0}

VARIABLES
  main,         \* control point of the rendering goroutine
  refs,         \* the channel's subchannel references, in the order listed
  sent, taken,  \* how many of refs went into `in', and came out of it
  inClosed,
  wpc, job,     \* each worker's control point, and the index into refs it has
  reply,        \* the address in the response a worker is about to send on
  out,          \* every result sent to `out', in order
  collected,    \* how many of them main has received
  outClosed,
  closer,       \* whether the closing goroutine is waiting for the workers
  info,         \* info[id]: the address collected for id, or NoAddr
  byAddr        \* byAddr[a]: the IDs collected for address a

inVars     == <<sent, taken, inClosed>>
outVars    == <<out, outClosed>>
workerVars == <<wpc, job, reply>>
resultVars == <<collected, info, byAddr>>
vars == <<main, refs, sent, taken, inClosed, wpc, job, reply, out, collected,
          outClosed, closer, info, byAddr>>

Pool    == 1..Parallelism
Results == [id : Subchannels, target : Addresses]

\* How GetChannel can list (some) subchannels: in any order, none twice.
RefLists == UNION {Bijection(1..Cardinality(S), S) : S \in SUBSET Subchannels}

Init ==
  /\ main = "start" /\ refs = << >>
  /\ sent = 0 /\ taken = 0 /\ inClosed = FALSE
  /\ wpc = [w \in Pool |-> "unborn"]
  /\ job = [w \in Pool |-> 0]
  /\ reply = [w \in Pool |-> NoAddr]
  /\ out = << >> /\ outClosed = FALSE /\ closer = FALSE
  /\ collected = 0
  /\ info = [id \in Subchannels |-> NoAddr]
  /\ byAddr = [a \in Addresses |-> << >>]
-----------------------------------------------------------------------------
\* GetChannel fails, or the channel is gone: the page shows no subchannel.
NoChannel ==
  /\ main = "start"
  /\ main' = "returned"
  /\ UNCHANGED <<refs, inVars, workerVars, outVars, closer, resultVars>>

\* GetChannel answers; as many workers are started as there is work for.
StartWorkers ==
  /\ main = "start"
  /\ refs' \in RefLists
  /\ wpc' = [w \in Pool |-> IF w <= Len(refs') THEN "recv" ELSE "unborn"]
  /\ main' = "feed"
  /\ UNCHANGED <<inVars, job, reply, outVars, closer, resultVars>>

Feed ==
  /\ main = "feed" /\ sent < Len(refs)
  /\ sent' = sent + 1
  /\ UNCHANGED <<main, refs, taken, inClosed, workerVars, outVars, closer, resultVars>>

CloseInForgotten ==           \* mutant: close(in) missing
  /\ main = "feed" /\ sent = Len(refs)
  /\ closer' = TRUE
  /\ main' = "collect"
  /\ UNCHANGED <<refs, inVars, workerVars, outVars, resultVars>>

\* close(in), and the closer is started.
CloseIn ==
  /\ main = "feed" /\ sent = Len(refs)
  /\ inClosed' = TRUE
  /\ closer' = TRUE
  /\ main' = "collect"
  /\ UNCHANGED <<refs, sent, taken, workerVars, outVars, resultVars>>
-----------------------------------------------------------------------------
ReceiveUnchecked(w) ==        \* mutant: <-in without asking if `in' is closed
  /\ wpc[w] = "recv" /\ (inClosed \/ taken < sent)
  /\ taken' = taken + 1
  /\ job' = [job EXCEPT ![w] = taken']
  /\ wpc' = [wpc EXCEPT ![w] = "call"]
  /\ UNCHANGED <<main, refs, sent, inClosed, reply, outVars, closer, resultVars>>

\* One turn of a worker's loop over `in'.
Receive(w) ==
  /\ wpc[w] = "recv" /\ taken < sent
  /\ taken' = taken + 1
  /\ job' = [job EXCEPT ![w] = taken']
  /\ wpc' = [wpc EXCEPT ![w] = "call"]
  /\ UNCHANGED <<main, refs, sent, inClosed, reply, outVars, closer, resultVars>>

\* The subchannel, and its address, in the response of GetSubchannel.
CallAnswered(w) ==
  /\ wpc[w] = "call"
  /\ \E a \in Addresses : reply' = [reply EXCEPT ![w] = a]
  /\ wpc' = [wpc EXCEPT ![w] = "send"]
  /\ UNCHANGED <<main, refs, inVars, job, outVars, closer, resultVars>>

\* The subchannel is gone since GetChannel listed it, or the RPC failed.
CallFailed(w) ==
  /\ wpc[w] = "call"
  /\ wpc' = [wpc EXCEPT ![w] = "recv"]
  /\ job' = [job EXCEPT ![w] = 0]
  /\ UNCHANGED <<main, refs, inVars, reply, outVars, closer, resultVars>>

\* Capacity of `out'.
OutCapacity == Len(refs)

SendKeepsJob(w) ==            \* mutant: the result is sent, the ID not dropped
  /\ wpc[w] = "send" /\ Len(out) - collected < OutCapacity
  /\ out' = Append(out, [id |-> refs[job[w]], target |-> reply[w]])
  /\ wpc' = [wpc EXCEPT ![w] = "call"]
  /\ UNCHANGED <<main, refs, inVars, job, reply, outClosed, closer, resultVars>>

Send(w) ==
  /\ wpc[w] = "send" /\ Len(out) - collected < OutCapacity
  /\ out' = Append(out, [id |-> refs[job[w]], target |-> reply[w]])
  /\ wpc' = [wpc EXCEPT ![w] = "recv"]
  /\ job' = [job EXCEPT ![w] = 0]
  /\ reply' = [reply EXCEPT ![w] = NoAddr]
  /\ UNCHANGED <<main, refs, inVars, outClosed, closer, resultVars>>

\* `in' is closed and drained: wg.Done().
Exit(w) ==
  /\ wpc[w] = "recv" /\ inClosed /\ taken = sent
  /\ wpc' = [wpc EXCEPT ![w] = "exited"]
  /\ UNCHANGED <<main, refs, inVars, job, reply, outVars, closer, resultVars>>

CloseOutEarly ==              \* mutant: `out' is closed once all is handed out
  /\ closer /\ taken = sent
  /\ outClosed' = TRUE
  /\ closer' = FALSE
  /\ UNCHANGED <<main, refs, inVars, workerVars, out, resultVars>>

\* The closer: wg.Wait(), then close(out).
CloseOut ==
  /\ closer
  /\ \A w \in Pool : wpc[w] \in {"exited", "unborn"}
  /\ outClosed' = TRUE
  /\ closer' = FALSE
  /\ UNCHANGED <<main, refs, inVars, workerVars, out, resultVars>>
-----------------------------------------------------------------------------
\* main ranges over `out' ...
Collect ==
  /\ main = "collect" /\ collected < Len(out)
  /\ LET r == out[collected + 1]
     IN  /\ info' = [info EXCEPT ![r.id] = r.target]
         /\ byAddr' = [byAddr EXCEPT ![r.target] = Append(@, r.id)]
  /\ collected' = collected + 1
  /\ UNCHANGED <<main, refs, inVars, workerVars, outVars, closer>>

ReturnUnsorted ==             \* mutant: results left in order of arrival
  /\ main = "collect" /\ collected = Len(out) /\ outClosed
  /\ main' = "returned"
  /\ UNCHANGED <<refs, inVars, workerVars, outVars, closer, resultVars>>

\* sort.Slice() in increasing order.
Sorted(ids) ==
  LET p == CHOOSE p \in Bijection(DOMAIN ids, DOMAIN ids) :
             \A i, j \in DOMAIN ids : i < j => ids[p[i]] <= ids[p[j]]
  IN  [i \in DOMAIN ids |-> ids[p[i]]]

\* ... until it is closed and drained, sorts each list and returns.
SortAndReturn ==
  /\ main = "collect" /\ collected = Len(out) /\ outClosed
  /\ byAddr' = [a \in Addresses |-> Sorted(byAddr[a])]
  /\ main' = "returned"
  /\ UNCHANGED <<refs, inVars, workerVars, outVars, closer, collected, info>>

WorkerNext(w) ==
  \/ Receive(w) \/ CallAnswered(w) \/ CallFailed(w) \/ Send(w) \/ Exit(w)

MainNext ==
  NoChannel \/ StartWorkers \/ Feed \/ CloseIn \/ Collect \/ SortAndReturn

\* The page has what it asked for; the goroutines are gone.
Done == main = "returned" /\ UNCHANGED vars

Next == MainNext \/ CloseOut \/ Done \/ \E w \in Pool : WorkerNext(w)

\* Goroutines run, and every GetChannel and GetSubchannel RPC ends somehow.
Fairness ==
  /\ WF_vars(MainNext)
  /\ WF_vars(CloseOut)
  /\ \A w \in Pool : WF_vars(WorkerNext(w))

Spec == Init /\ [][Next]_vars
FairSpec == Spec /\ Fairness
-----------------------------------------------------------------------------
\* Every variable has its type, and the counters of the channels stay in order.
TypeOK ==
  /\ main \in {"start", "feed", "collect", "returned"}
  /\ refs \in Seq(Subchannels)
  /\ sent \in 0..Len(refs) /\ taken \in 0..sent
  /\ {inClosed, outClosed, closer} \subseteq BOOLEAN
  /\ wpc \in [Pool -> {"unborn", "recv", "call", "send", "exited"}]
  /\ job \in [Pool -> 0..Len(refs)]
  /\ reply \in [Pool -> Addresses \cup {NoAddr}]
  /\ out \in Seq(Results)
  /\ collected \in 0..Len(out)
  /\ info \in [Subchannels -> Addresses \cup {NoAddr}]
  /\ byAddr \in [Addresses -> Seq(Subchannels)]

\* A send on `out' always goes through.  It cannot panic, as the closer waits
\* for every worker, also for one still in its RPC; and it never waits for
\* main, which itself first feeds all IDs, as there is room for every result.
SendGoesThrough ==
  \A w \in Pool :
    /\ outClosed => wpc[w] \in {"exited", "unborn"}
    /\ wpc[w] = "send" => Len(out) - collected < OutCapacity

\* At any moment, each reference is in one place: still to be handed out, with
\* exactly one worker, or answered for at most once.
EachRefOnce ==
  /\ \A w, v \in Pool : job[w] # 0 /\ job[w] = job[v] => w = v
  /\ \A i, j \in DOMAIN out : out[i].id = out[j].id => i = j
  /\ \A i \in DOMAIN out, w \in Pool : job[w] # 0 => refs[job[w]] # out[i].id

\* The page's goroutine returns, and leaves no goroutine behind.
PageReturns ==
  <>[](main = "returned" /\ \A w \in Pool : wpc[w] \in {"exited", "unborn"})

\* References nothing has come of yet.
Outstanding ==
  {refs[i] : i \in taken + 1 .. Len(refs)}
  \cup {refs[job[w]] : w \in {v \in Pool : job[v] # 0}}
  \cup {out[i].id : i \in collected + 1 .. Len(out)}

Snapshot == INSTANCE SubchannelSnapshot WITH
  stage   <- IF main \in {"feed", "collect"} THEN "asking" ELSE main,
  pending <- Outstanding,
  found   <- info,
  table   <- IF main = "returned" THEN byAddr ELSE [a \in Addresses |-> << >>]

\* The pool does what a sequential loop over the references would do.
IsSnapshot == Snapshot!Spec
=============================================================================
