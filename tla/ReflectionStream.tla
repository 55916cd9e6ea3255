-------------------------- MODULE ReflectionStream --------------------------
(***************************************************************************)
(* reflectionResolver.call() and reflectionV1Transport.roundTrip() of      *)
(* xds_reflection_resolver.go: pages that render at the same time share    *)
(* one resolver, and ask the target for file descriptors over one          *)
(* bidirectional stream, which the first successful call leaves behind.    *)
(*                                                                         *)
(* call() takes the resolver's mutex r.mu once to read, and once more to   *)
(* store what it learned; roundTrip() holds the stream's own mutex t.mu    *)
(* from Send to the end of Recv.                                           *)
(***************************************************************************)
EXTENDS FiniteSets, Naturals, Sequences

CONSTANTS
  Callers,  \* goroutines rendering Any payloads
  Streams,  \* identities of streams; their number stands for the target's
            \* limit on concurrent streams, at which creating one blocks
  Symbols,  \* what is asked for: message types, files
  Known,    \* those the target has descriptors for
  Refused,  \* those it answers with an error response of code Unimplemented,
            \* rather than NotFound or any other code
  Nil

ASSUME ReflectionAssumption ==
  /\ Nil \notin Callers \cup Streams \cup Symbols
  /\ Known \subseteq Symbols
  /\ Refused \subseteq Symbols \ Known

VARIABLES
  transport, unusable,  \* the resolver's fields
  tmu,        \* tmu[s]: the caller inside roundTrip() on stream s, or Nil
  stream,     \* the state of each stream
  requests,   \* what the target has yet to answer on each stream
  responses,  \* what it answered and nobody has read
  reflects,   \* whether the target implements the reflection service
  refused,    \* history: whether it has answered a request with Unimplemented
  pc,         \* each caller's control point
  symbol,     \* what it asks for
  using,      \* the stream it has in hand
  got,        \* the symbol whose descriptors it was given
  last        \* how its latest call ended

resolverVars == <<transport, unusable>>
wireVars     == <<stream, requests, responses>>
targetVars   == <<reflects, refused>>
vars == <<resolverVars, tmu, wireVars, targetVars, pc, symbol, using, got, last>>

PCs == {"idle", "read", "open", "lock", "send", "recv", "store", "giveup"}
StreamStates == {"none", "open", "lost", "unimplemented"}

OpenStreams == {s \in Streams : stream[s] = "open"}

Goto(c, from, to) == pc[c] = from /\ pc' = [pc EXCEPT ![c] = to]

\* Caller c's call() returns.
Return(c, from, outcome) ==
  /\ Goto(c, from, "idle")
  /\ using' = [using EXCEPT ![c] = Nil]
  /\ got' = [got EXCEPT ![c] = Nil]
  /\ last' = [last EXCEPT ![c] = outcome]

\* newReflectionResolver(): neither a stream nor a verdict yet.
Init ==
  /\ transport = Nil /\ unusable = FALSE
  /\ tmu = [s \in Streams |-> Nil]
  /\ stream = [s \in Streams |-> "none"]
  /\ requests = [s \in Streams |-> << >>]
  /\ responses = [s \in Streams |-> << >>]
  /\ reflects \in BOOLEAN /\ refused = FALSE
  /\ pc = [c \in Callers |-> "idle"]
  /\ symbol \in [Callers -> Symbols]
  /\ using = [c \in Callers |-> Nil]
  /\ got = [c \in Callers |-> Nil]
  /\ last = [c \in Callers |-> "none"]

BeginCall(c, sym) ==
  /\ Goto(c, "idle", "read")
  /\ symbol' = [symbol EXCEPT ![c] = sym]
  /\ last' = [last EXCEPT ![c] = "none"]
  /\ UNCHANGED <<resolverVars, tmu, wireVars, targetVars, using, got>>

\* The first critical section of call(): a resolver that has given up fails at
\* once; otherwise the caller takes the stream there is.
ReadGivenUp(c) ==
  /\ unusable
  /\ Return(c, "read", "failed")
  /\ UNCHANGED <<resolverVars, tmu, wireVars, targetVars, symbol>>

ReadTransport(c) ==
  /\ ~unusable
  /\ Goto(c, "read", IF transport = Nil THEN "open" ELSE "lock")
  /\ using' = [using EXCEPT ![c] = transport]
  /\ UNCHANGED <<resolverVars, tmu, wireVars, targetVars, symbol, got, last>>

\* There was no stream: the caller makes one, whatever others do meanwhile.
\* (An identity is used again once its stream is over and forgotten.)
OpenStream(c) ==
  \E s \in Streams \ OpenStreams :
    /\ s # transport /\ \A d \in Callers : using[d] # s
    /\ Goto(c, "open", "lock")
    /\ stream' = [stream EXCEPT ![s] = "open"]
    /\ requests' = [requests EXCEPT ![s] = << >>]
    /\ responses' = [responses EXCEPT ![s] = << >>]
    /\ using' = [using EXCEPT ![c] = s]
    /\ UNCHANGED <<resolverVars, tmu, targetVars, symbol, got, last>>

\* The connection is down: no stream.
OpenFails(c) ==
  /\ Return(c, "open", "failed")
  /\ UNCHANGED <<resolverVars, tmu, wireVars, targetVars, symbol>>
-----------------------------------------------------------------------------
LockStreamSkipped(c) ==        \* mutant: roundTrip() without t.mu
  /\ Goto(c, "lock", "send")
  /\ UNCHANGED <<resolverVars, tmu, wireVars, targetVars, symbol, using, got, last>>

\* roundTrip() waits for its turn on the stream.
LockStream(c) ==
  /\ Goto(c, "lock", "send")
  /\ tmu[using[c]] = Nil
  /\ tmu' = [tmu EXCEPT ![using[c]] = c]
  /\ UNCHANGED <<resolverVars, wireVars, targetVars, symbol, using, got, last>>

\* Send() on a live stream.  A stream the target has just ended looks alive
\* until its end is noticed.
Send(c) ==
  /\ Goto(c, "send", "recv")
  /\ stream[using[c]] = "open"
  /\ requests' = [requests EXCEPT ![using[c]] = Append(@, symbol[c])]
  /\ UNCHANGED <<resolverVars, tmu, stream, responses, targetVars, symbol, using, got,
                 last>>

SendFailsLocked(c) ==          \* mutant: this way out keeps the mutex
  /\ Return(c, "send", "failed")
  /\ stream[using[c]] \in {"lost", "unimplemented"}
  /\ UNCHANGED <<resolverVars, tmu, wireVars, targetVars, symbol>>

\* Send() on a stream that is over gives io.EOF, not the stream's status.
SendFails(c) ==
  /\ Return(c, "send", "failed")
  /\ stream[using[c]] \in {"lost", "unimplemented"}
  /\ tmu' = [tmu EXCEPT ![using[c]] = Nil]
  /\ UNCHANGED <<resolverVars, wireVars, targetVars, symbol>>

\* Recv() gives the next response on the stream: descriptors ...
RecvFiles(c) ==
  LET s == using[c] IN
  /\ Goto(c, "recv", "store")
  /\ responses[s] # << >> /\ Head(responses[s]) \in Known
  /\ got' = [got EXCEPT ![c] = Head(responses[s])]
  /\ responses' = [responses EXCEPT ![s] = Tail(@)]
  /\ tmu' = [tmu EXCEPT ![s] = Nil]
  /\ UNCHANGED <<resolverVars, stream, requests, targetVars, symbol, using, last>>

\* ... or an error response, whose code becomes the status of call()'s error.
\* Unimplemented is taken for the verdict that there is no reflection, although
\* it may be about this request only.
RecvError(c) ==
  LET s == using[c] IN
  /\ pc[c] = "recv"
  /\ responses[s] # << >> /\ Head(responses[s]) \notin Known
  /\ responses' = [responses EXCEPT ![s] = Tail(@)]
  /\ tmu' = [tmu EXCEPT ![s] = Nil]
  /\ \/ /\ Head(responses[s]) \in Refused
        /\ pc' = [pc EXCEPT ![c] = "giveup"]
        /\ UNCHANGED <<using, got, last>>
     \/ /\ Head(responses[s]) \notin Refused
        /\ Return(c, "recv", "notFound")
  /\ UNCHANGED <<resolverVars, stream, requests, targetVars, symbol>>

\* Which ends of a stream make call() give the resolver up.
GivesUpOnAnyEnd == {"lost", "unimplemented"}   \* mutant: no look at the code
GivesUpOn == {"unimplemented"}

\* Recv() gives the status with which the stream ended.
RecvEnd(c) ==
  LET s == using[c] IN
  /\ pc[c] = "recv"
  /\ responses[s] = << >> /\ stream[s] \in {"lost", "unimplemented"}
  /\ tmu' = [tmu EXCEPT ![s] = Nil]
  /\ \/ /\ stream[s] \in GivesUpOn
        /\ pc' = [pc EXCEPT ![c] = "giveup"]
        /\ UNCHANGED <<using, got, last>>
     \/ /\ stream[s] \notin GivesUpOn
        /\ Return(c, "recv", "failed")
  /\ UNCHANGED <<resolverVars, wireVars, targetVars, symbol>>

\* The second critical section of call().
GiveUp(c) ==
  /\ unusable' = TRUE
  /\ Return(c, "giveup", "failed")
  /\ UNCHANGED <<transport, tmu, wireVars, targetVars, symbol>>

StoreTransport(c) ==
  /\ transport' = using[c]
  /\ Return(c, "store", "ok")
  /\ UNCHANGED <<unusable, tmu, wireVars, targetVars, symbol>>
-----------------------------------------------------------------------------
\* The target answers the requests of a stream in order.
TargetAnswers(s) ==
  /\ reflects /\ stream[s] = "open" /\ requests[s] # << >>
  /\ responses' = [responses EXCEPT ![s] = Append(@, Head(requests[s]))]
  /\ requests' = [requests EXCEPT ![s] = Tail(@)]
  /\ refused' = (refused \/ Head(requests[s]) \in Refused)
  /\ UNCHANGED <<resolverVars, tmu, stream, reflects, pc, symbol, using, got, last>>

\* A target without the service ends the stream.
TargetRejects(s) ==
  /\ ~reflects /\ stream[s] = "open"
  /\ stream' = [stream EXCEPT ![s] = "unimplemented"]
  /\ UNCHANGED <<resolverVars, tmu, requests, responses, targetVars, pc, symbol, using,
                 got, last>>

\* The transport under the stream is lost: the target restarts, the connection
\* goes idle or is closed by dial(), the connection's age limit is reached.
StreamLost(s) ==
  /\ stream[s] = "open"
  /\ stream' = [stream EXCEPT ![s] = "lost"]
  /\ requests' = [requests EXCEPT ![s] = << >>]
  /\ UNCHANGED <<resolverVars, tmu, responses, targetVars, pc, symbol, using, got, last>>

CallStep(c) ==
  \/ ReadGivenUp(c) \/ ReadTransport(c) \/ OpenStream(c)
  \/ LockStream(c) \/ Send(c) \/ SendFails(c)
  \/ RecvFiles(c) \/ RecvError(c) \/ RecvEnd(c)
  \/ GiveUp(c) \/ StoreTransport(c)

TargetStep(s) == TargetAnswers(s) \/ TargetRejects(s)

Next ==
  \/ \E c \in Callers : \/ CallStep(c) \/ OpenFails(c)
                        \/ \E sym \in Symbols : BeginCall(c, sym)
  \/ \E s \in Streams : TargetStep(s) \/ StreamLost(s)

\* Goroutines run (a mutex is handed to each waiter in the end), and the target
\* answers on a stream that stays open.
Fairness ==
  /\ \A c \in Callers : WF_vars(CallStep(c)) /\ SF_vars(LockStream(c))
  /\ \A s \in Streams : WF_vars(TargetStep(s))

Spec == Init /\ [][Next]_vars
FairSpec == Spec /\ Fairness
-----------------------------------------------------------------------------
\* Every variable has its type.
TypeOK ==
  /\ transport \in Streams \cup {Nil}
  /\ {unusable, reflects, refused} \subseteq BOOLEAN
  /\ tmu \in [Streams -> Callers \cup {Nil}]
  /\ stream \in [Streams -> StreamStates]
  /\ requests \in [Streams -> Seq(Symbols)]
  /\ responses \in [Streams -> Seq(Symbols)]
  /\ pc \in [Callers -> PCs]
  /\ symbol \in [Callers -> Symbols]
  /\ using \in [Callers -> Streams \cup {Nil}]
  /\ got \in [Callers -> Symbols \cup {Nil}]
  /\ last \in [Callers -> {"none", "ok", "notFound", "failed"}]

\* However many pages share the stream, whoever gets descriptors gets those it
\* asked for, and only what the target lacks is reported missing (a response
\* carries nothing call() could compare with its request).
RepliesMatch ==
  \A c \in Callers :
    /\ pc[c] = "store" => got[c] = symbol[c]
    /\ last[c] = "notFound" => symbol[c] \notin Known

\* No way out of roundTrip() leaves the stream's mutex behind, at which all other
\* renderers would wait for ever: whoever holds it is at Send or Recv, of that
\* stream.
MutexReleased ==
  \A s \in Streams : tmu[s] # Nil => pc[tmu[s]] \in {"send", "recv"} /\ using[tmu[s]] = s

\* The resolver is given up only after the target has answered Unimplemented, to
\* the call as a whole or to one request, never for a lost connection or a
\* missing symbol, which would turn every payload into its bare @type until the
\* next redial.  (That is more often than the field's comment says: "true once
\* we've given up (target has no reflection)".)
GivenUpOnlyIfRefused == unusable => ~reflects \/ refused

\* There is one stream, made lazily and reused (comment of call()).
OneStream == Cardinality(OpenStreams) <= 1

\* Once streams break no more, a target with reflection is reflected upon: a
\* caller that goes on asking for a symbol it has is answered ("its reflection
\* response is comprehensive", comment of reflectionResolver).
ReflectionRecovers ==
  reflects /\ <>[][\A s \in Streams : ~StreamLost(s)]_vars =>
    \A c \in Callers :
      []<>(pc[c] = "lock") /\ <>[](symbol[c] \in Known) => []<>(last[c] = "ok")
=============================================================================
