----------------------- MODULE ReflectionStream_proofs -----------------------
(***************************************************************************)
(* Proofs about the shared reflection stream, for any number of callers,   *)
(* streams and symbols.  Responses carry nothing to match them by: that a  *)
(* caller reads the answer to its own request rests on what the stream's   *)
(* mutex leaves behind on the wire, which is the invariant below.          *)
(***************************************************************************)
EXTENDS ReflectionStream, SequenceTheorems, TLAPS

\* Caller c is between Send and the end of Recv.
Inside(c) == pc[c] \in {"send", "recv"}

\* Past the choice of a stream, a caller has one; before it, none.
UsingInv ==
  \A c \in Callers :
    using[c] \in Streams <=> pc[c] \in {"lock", "send", "recv", "store", "giveup"}

\* A stream's mutex is held by the caller inside roundTrip() on it.
MutexInv ==
  /\ \A c \in Callers : Inside(c) => tmu[using[c]] = c
  /\ \A s \in Streams : tmu[s] # Nil => Inside(tmu[s]) /\ using[tmu[s]] = s

\* What was sent on s and has no reader yet.
Unread(s) ==
  IF tmu[s] # Nil /\ pc[tmu[s]] = "recv" THEN <<symbol[tmu[s]]>> ELSE << >>

\* All that is under way on an open stream is the request of the caller that
\* waits for its response, or that response; on one that is over, nothing but
\* the response can still be read.
WireInv ==
  \A s \in Streams :
    /\ responses[s] \in {<< >>, Unread(s)}
    /\ stream[s] = "open" => \/ requests[s] = Unread(s) /\ responses[s] = << >>
                             \/ requests[s] = << >> /\ responses[s] = Unread(s)

\* Whoever saw a verdict saw it from a target without reflection, or from one
\* that answered a request with that code.
VerdictInv ==
  /\ \A s \in Streams :
       /\ stream[s] = "unimplemented" => ~reflects
       /\ responses[s] # << >> /\ Head(responses[s]) \in Refused => refused
  /\ \A c \in Callers : pc[c] = "giveup" => ~reflects \/ refused
  /\ GivenUpOnlyIfRefused

IInv == TypeOK /\ UsingInv /\ MutexInv /\ WireInv /\ RepliesMatch /\ VerdictInv
-----------------------------------------------------------------------------
\* The resolver starts with neither a stream nor a verdict, and nobody calls.
LEMMA InitIInv == Init => IInv
<1> SUFFICES ASSUME Init PROVE IInv
  OBVIOUS
<1> USE ReflectionAssumption DEF Init
<1>1. TypeOK
  <2>1. {unusable, reflects, refused} \subseteq BOOLEAN
    BY Zenon
  <2>2. /\ requests \in [Streams -> Seq(Symbols)]
        /\ responses \in [Streams -> Seq(Symbols)]
    OBVIOUS
  <2> QED
    BY <2>1, <2>2 DEF TypeOK, PCs, StreamStates
<1>2. UsingInv /\ MutexInv /\ RepliesMatch /\ VerdictInv
  BY DEF UsingInv, MutexInv, Inside, RepliesMatch, VerdictInv,
         GivenUpOnlyIfRefused
<1>3. WireInv
  BY DEF WireInv, Unread
<1> QED
  BY <1>1, <1>2, <1>3 DEF IInv

\* Each step of a caller or the target preserves the types.
LEMMA StepTypeOK == TypeOK /\ UsingInv /\ [Next]_vars => TypeOK'
<1> SUFFICES ASSUME TypeOK, UsingInv, [Next]_vars PROVE TypeOK'
  OBVIOUS
<1> USE ReflectionAssumption DEF TypeOK, PCs, StreamStates, UsingInv
<1>1. ASSUME NEW c \in Callers, NEW sym \in Symbols, BeginCall(c, sym) PROVE TypeOK'
  BY <1>1 DEF BeginCall, resolverVars, wireVars, targetVars, Goto, Return
<1>2. ASSUME NEW c \in Callers, ReadGivenUp(c) PROVE TypeOK'
  BY <1>2 DEF ReadGivenUp, resolverVars, wireVars, targetVars, Goto, Return
<1>3. ASSUME NEW c \in Callers, ReadTransport(c) PROVE TypeOK'
  BY <1>3 DEF ReadTransport, resolverVars, wireVars, targetVars, Goto, Return
<1>4. ASSUME NEW c \in Callers, OpenStream(c) PROVE TypeOK'
  BY <1>4 DEF OpenStream, resolverVars, wireVars, targetVars, Goto, Return
<1>5. ASSUME NEW c \in Callers, OpenFails(c) PROVE TypeOK'
  BY <1>5 DEF OpenFails, resolverVars, wireVars, targetVars, Goto, Return
<1>6. ASSUME NEW c \in Callers, LockStream(c) PROVE TypeOK'
  BY <1>6 DEF LockStream, resolverVars, wireVars, targetVars, Goto, Return
<1>7. ASSUME NEW c \in Callers, Send(c) PROVE TypeOK'
  BY <1>7 DEF Send, resolverVars, wireVars, targetVars, Goto, Return
<1>8. ASSUME NEW c \in Callers, SendFails(c) PROVE TypeOK'
  BY <1>8 DEF SendFails, resolverVars, wireVars, targetVars, Goto, Return
<1>9. ASSUME NEW c \in Callers, RecvFiles(c) PROVE TypeOK'
  BY <1>9, HeadTailProperties DEF RecvFiles, resolverVars, wireVars, targetVars, Goto, Return
<1>10. ASSUME NEW c \in Callers, RecvError(c) PROVE TypeOK'
  <2>1. responses' \in [Streams -> Seq(Symbols)]
    BY <1>10, HeadTailProperties DEF RecvError
  <2>2. CASE pc' = [pc EXCEPT ![c] = "giveup"] /\ UNCHANGED <<using, got, last>>
    BY <1>10, <2>1, <2>2 DEF RecvError, resolverVars, targetVars
  <2>3. CASE Return(c, "recv", "notFound")
    BY <1>10, <2>1, <2>3 DEF RecvError, resolverVars, targetVars, Goto, Return
  <2> QED
    BY <1>10, <2>2, <2>3 DEF RecvError
<1>11. ASSUME NEW c \in Callers, RecvEnd(c) PROVE TypeOK'
  BY <1>11 DEF RecvEnd, resolverVars, wireVars, targetVars, Goto, Return, GivesUpOn
<1>12. ASSUME NEW c \in Callers, GiveUp(c) PROVE TypeOK'
  BY <1>12 DEF GiveUp, resolverVars, wireVars, targetVars, Goto, Return
<1>13. ASSUME NEW c \in Callers, StoreTransport(c) PROVE TypeOK'
  BY <1>13 DEF StoreTransport, resolverVars, wireVars, targetVars, Goto, Return
<1>14. ASSUME NEW s \in Streams, TargetAnswers(s) PROVE TypeOK'
  BY <1>14, HeadTailProperties DEF TargetAnswers, resolverVars, wireVars, targetVars
<1>15. ASSUME NEW s \in Streams, TargetRejects(s) PROVE TypeOK'
  BY <1>15 DEF TargetRejects, resolverVars, wireVars, targetVars
<1>16. ASSUME NEW s \in Streams, StreamLost(s) PROVE TypeOK'
  BY <1>16 DEF StreamLost, resolverVars, wireVars, targetVars
<1>17. CASE UNCHANGED vars
  BY <1>17 DEF vars, resolverVars, wireVars, targetVars
<1> QED
  BY <1>1, <1>2, <1>3, <1>4, <1>5, <1>6, <1>7, <1>8, <1>9, <1>10, <1>11, <1>12, <1>13, <1>14, <1>15, <1>16, <1>17 DEF Next, CallStep, TargetStep

\* Each step keeps streams in hand, and their mutexes, with those inside.
LEMMA StepMutexInv ==
  TypeOK /\ UsingInv /\ MutexInv /\ [Next]_vars => UsingInv' /\ MutexInv'
<1> SUFFICES ASSUME TypeOK, UsingInv, MutexInv, [Next]_vars
             PROVE  UsingInv' /\ MutexInv'
  OBVIOUS
<1> USE ReflectionAssumption DEF TypeOK, UsingInv, MutexInv, Inside
<1>1. ASSUME NEW c \in Callers, NEW sym \in Symbols, BeginCall(c, sym) PROVE UsingInv' /\ MutexInv'
  BY <1>1 DEF BeginCall, resolverVars, wireVars, targetVars, Goto, Return
<1>2. ASSUME NEW c \in Callers, ReadGivenUp(c) PROVE UsingInv' /\ MutexInv'
  BY <1>2 DEF ReadGivenUp, resolverVars, wireVars, targetVars, Goto, Return
<1>3. ASSUME NEW c \in Callers, ReadTransport(c) PROVE UsingInv' /\ MutexInv'
  BY <1>3 DEF ReadTransport, resolverVars, wireVars, targetVars, Goto, Return
<1>4. ASSUME NEW c \in Callers, OpenStream(c) PROVE UsingInv' /\ MutexInv'
  BY <1>4 DEF OpenStream, resolverVars, wireVars, targetVars, Goto, Return
<1>5. ASSUME NEW c \in Callers, OpenFails(c) PROVE UsingInv' /\ MutexInv'
  BY <1>5 DEF OpenFails, resolverVars, wireVars, targetVars, Goto, Return
<1>6. ASSUME NEW c \in Callers, LockStream(c) PROVE UsingInv' /\ MutexInv'
  BY <1>6 DEF LockStream, resolverVars, wireVars, targetVars, Goto, Return
<1>7. ASSUME NEW c \in Callers, Send(c) PROVE UsingInv' /\ MutexInv'
  BY <1>7 DEF Send, resolverVars, wireVars, targetVars, Goto, Return
<1>8. ASSUME NEW c \in Callers, SendFails(c) PROVE UsingInv' /\ MutexInv'
  BY <1>8 DEF SendFails, resolverVars, wireVars, targetVars, Goto, Return
<1>9. ASSUME NEW c \in Callers, RecvFiles(c) PROVE UsingInv' /\ MutexInv'
  BY <1>9 DEF RecvFiles, resolverVars, wireVars, targetVars, Goto, Return
<1>10. ASSUME NEW c \in Callers, RecvError(c) PROVE UsingInv' /\ MutexInv'
  <2>1. CASE pc' = [pc EXCEPT ![c] = "giveup"] /\ UNCHANGED <<using, got, last>>
    BY <1>10, <2>1 DEF RecvError
  <2>2. CASE Return(c, "recv", "notFound")
    BY <1>10, <2>2 DEF RecvError, Return, Goto
  <2> QED
    BY <1>10, <2>1, <2>2 DEF RecvError
<1>11. ASSUME NEW c \in Callers, RecvEnd(c) PROVE UsingInv' /\ MutexInv'
  <2>1. CASE pc' = [pc EXCEPT ![c] = "giveup"] /\ UNCHANGED <<using, got, last>>
    BY <1>11, <2>1 DEF RecvEnd
  <2>2. CASE Return(c, "recv", "failed")
    BY <1>11, <2>2, SMTT(30) DEF RecvEnd, Return, Goto
  <2> QED
    BY <1>11, <2>1, <2>2 DEF RecvEnd
<1>12. ASSUME NEW c \in Callers, GiveUp(c) PROVE UsingInv' /\ MutexInv'
  BY <1>12 DEF GiveUp, resolverVars, wireVars, targetVars, Goto, Return
<1>13. ASSUME NEW c \in Callers, StoreTransport(c) PROVE UsingInv' /\ MutexInv'
  BY <1>13 DEF StoreTransport, resolverVars, wireVars, targetVars, Goto, Return
<1>14. ASSUME NEW s \in Streams, TargetAnswers(s) PROVE UsingInv' /\ MutexInv'
  BY <1>14 DEF TargetAnswers, resolverVars, wireVars, targetVars
<1>15. ASSUME NEW s \in Streams, TargetRejects(s) PROVE UsingInv' /\ MutexInv'
  BY <1>15 DEF TargetRejects, resolverVars, wireVars, targetVars
<1>16. ASSUME NEW s \in Streams, StreamLost(s) PROVE UsingInv' /\ MutexInv'
  BY <1>16 DEF StreamLost, resolverVars, wireVars, targetVars
<1>17. CASE UNCHANGED vars
  BY <1>17 DEF vars, resolverVars, wireVars, targetVars
<1> QED
  BY <1>1, <1>2, <1>3, <1>4, <1>5, <1>6, <1>7, <1>8, <1>9, <1>10, <1>11, <1>12, <1>13, <1>14, <1>15, <1>16, <1>17 DEF Next, CallStep, TargetStep

\* The response a caller finds is the answer to its request, and nothing of
\* anybody's is left once it has read it.
LEMMA ReadsOwnAnswer ==
  ASSUME TypeOK, UsingInv, MutexInv, WireInv,
         NEW c \in Callers, pc[c] = "recv", responses[using[c]] # << >>
  PROVE  /\ Head(responses[using[c]]) = symbol[c]
         /\ Tail(responses[using[c]]) = << >>
         /\ stream[using[c]] = "open" => requests[using[c]] = << >>
<1>1. using[c] \in Streams /\ tmu[using[c]] = c /\ c # Nil /\ symbol[c] \in Symbols
  BY ReflectionAssumption DEF TypeOK, UsingInv, MutexInv, Inside
<1>2. Unread(using[c]) = <<symbol[c]>>
  BY <1>1 DEF Unread
<1>3. responses[using[c]] = <<symbol[c]>>
  BY <1>1, <1>2 DEF WireInv
<1>4. stream[using[c]] = "open" => requests[using[c]] = << >>
  BY <1>1, <1>2, <1>3 DEF WireInv
<1> QED
  BY <1>1, <1>3, <1>4

\* Each step leaves on the wire what the holder of the mutex is to read.
LEMMA StepWireInv ==
  TypeOK /\ UsingInv /\ MutexInv /\ WireInv /\ [Next]_vars => WireInv'
<1> SUFFICES ASSUME TypeOK, UsingInv, MutexInv, WireInv, [Next]_vars
             PROVE  WireInv'
  OBVIOUS
<1> USE ReflectionAssumption DEF TypeOK, UsingInv, MutexInv, Inside, WireInv, Unread
<1>1. ASSUME NEW c \in Callers, NEW sym \in Symbols, BeginCall(c, sym) PROVE WireInv'
  BY <1>1 DEF BeginCall, resolverVars, wireVars, targetVars, Goto, Return
<1>2. ASSUME NEW c \in Callers, ReadGivenUp(c) PROVE WireInv'
  BY <1>2 DEF ReadGivenUp, resolverVars, wireVars, targetVars, Goto, Return
<1>3. ASSUME NEW c \in Callers, ReadTransport(c) PROVE WireInv'
  BY <1>3 DEF ReadTransport, resolverVars, wireVars, targetVars, Goto, Return
<1>4. ASSUME NEW c \in Callers, OpenStream(c) PROVE WireInv'
  BY <1>4 DEF OpenStream, resolverVars, wireVars, targetVars, Goto, Return
<1>5. ASSUME NEW c \in Callers, OpenFails(c) PROVE WireInv'
  BY <1>5 DEF OpenFails, resolverVars, wireVars, targetVars, Goto, Return
<1>6. ASSUME NEW c \in Callers, LockStream(c) PROVE WireInv'
  BY <1>6 DEF LockStream, resolverVars, wireVars, targetVars, Goto, Return
<1>7. ASSUME NEW c \in Callers, Send(c) PROVE WireInv'
  <2>1. using[c] \in Streams /\ tmu[using[c]] = c /\ c # Nil
    BY <1>7 DEF Send, Goto
  <2>2. /\ requests[using[c]] = << >> /\ responses[using[c]] = << >>
        /\ Unread(using[c])' = <<symbol[c]>>
    BY <1>7, <2>1 DEF Send, Goto
  <2>3. requests'[using[c]] = <<symbol[c]>>
    BY <1>7, <2>1, <2>2 DEF Send
  <2>4. \A s \in Streams \ {using[c]} : /\ Unread(s)' = Unread(s)
                                       /\ requests'[s] = requests[s]
    BY <1>7, <2>1 DEF Send, Goto
  <2> QED
    BY <1>7, <2>1, <2>2, <2>3, <2>4 DEF Send
<1>8. ASSUME NEW c \in Callers, SendFails(c) PROVE WireInv'
  BY <1>8 DEF SendFails, resolverVars, wireVars, targetVars, Goto, Return
<1>9. ASSUME NEW c \in Callers, RecvFiles(c) PROVE WireInv'
  <2>1. PICK s \in Streams : s = using[c] /\ tmu[s] = c
    BY <1>9 DEF RecvFiles, Goto, Return
  <2>2. /\ Tail(responses[s]) = << >>
        /\ stream[s] = "open" => requests[s] = << >>
    BY <1>9, <2>1, ReadsOwnAnswer DEF RecvFiles, Goto, Return
  <2>3. Unread(s)' = << >>
    BY <1>9, <2>1 DEF RecvFiles
  <2>4. \A t \in Streams \ {s} : Unread(t)' = Unread(t)
    BY <1>9, <2>1 DEF RecvFiles, Goto, Return
  <2> QED
    BY <1>9, <2>1, <2>2, <2>3, <2>4 DEF RecvFiles
<1>10. ASSUME NEW c \in Callers, RecvError(c) PROVE WireInv'
  <2>1. PICK s \in Streams : s = using[c] /\ tmu[s] = c
    BY <1>10 DEF RecvError, Goto, Return
  <2>2. /\ Tail(responses[s]) = << >>
        /\ stream[s] = "open" => requests[s] = << >>
    BY <1>10, <2>1, ReadsOwnAnswer DEF RecvError, Goto, Return
  <2>3. Unread(s)' = << >>
    BY <1>10, <2>1 DEF RecvError
  <2>4. \A t \in Streams \ {s} : Unread(t)' = Unread(t)
    BY <1>10, <2>1 DEF RecvError, Goto, Return
  <2> QED
    BY <1>10, <2>1, <2>2, <2>3, <2>4 DEF RecvError
<1>11. ASSUME NEW c \in Callers, RecvEnd(c) PROVE WireInv'
  BY <1>11 DEF RecvEnd, resolverVars, wireVars, targetVars, Goto, Return, GivesUpOn
<1>12. ASSUME NEW c \in Callers, GiveUp(c) PROVE WireInv'
  BY <1>12 DEF GiveUp, resolverVars, wireVars, targetVars, Goto, Return
<1>13. ASSUME NEW c \in Callers, StoreTransport(c) PROVE WireInv'
  BY <1>13 DEF StoreTransport, resolverVars, wireVars, targetVars, Goto, Return
<1>14. ASSUME NEW s \in Streams, TargetAnswers(s) PROVE WireInv'
  <2>1. requests[s] = Unread(s) /\ responses[s] = << >> /\ Unread(s) # << >>
    BY <1>14 DEF TargetAnswers
  <2>2. PICK sym \in Symbols : requests[s] = <<sym>>
    BY <2>1
  <2>3. responses'[s] = <<sym>> /\ requests'[s] = << >>
    BY <1>14, <2>1, <2>2 DEF TargetAnswers
  <2>4. \A t \in Streams : Unread(t)' = Unread(t)
    BY <1>14 DEF TargetAnswers
  <2> QED
    BY <1>14, <2>1, <2>2, <2>3, <2>4 DEF TargetAnswers
<1>15. ASSUME NEW s \in Streams, TargetRejects(s) PROVE WireInv'
  BY <1>15 DEF TargetRejects, resolverVars, wireVars, targetVars
<1>16. ASSUME NEW s \in Streams, StreamLost(s) PROVE WireInv'
  BY <1>16 DEF StreamLost, resolverVars, wireVars, targetVars
<1>17. CASE UNCHANGED vars
  BY <1>17 DEF vars, resolverVars, wireVars, targetVars
<1> QED
  BY <1>1, <1>2, <1>3, <1>4, <1>5, <1>6, <1>7, <1>8, <1>9, <1>10, <1>11, <1>12, <1>13, <1>14, <1>15, <1>16, <1>17 DEF Next, CallStep, TargetStep

\* Each step gives a caller its own answer, and a verdict only where due.
LEMMA StepOutcome ==
  IInv /\ [Next]_vars => RepliesMatch' /\ VerdictInv'
<1> SUFFICES ASSUME IInv, [Next]_vars PROVE RepliesMatch' /\ VerdictInv'
  OBVIOUS
<1> USE ReflectionAssumption DEF IInv, TypeOK, UsingInv, RepliesMatch, VerdictInv,
                                 GivenUpOnlyIfRefused
<1>1. ASSUME NEW c \in Callers, NEW sym \in Symbols, BeginCall(c, sym) PROVE RepliesMatch' /\ VerdictInv'
  BY <1>1 DEF BeginCall, resolverVars, wireVars, targetVars, Goto, Return
<1>2. ASSUME NEW c \in Callers, ReadGivenUp(c) PROVE RepliesMatch' /\ VerdictInv'
  BY <1>2 DEF ReadGivenUp, resolverVars, wireVars, targetVars, Goto, Return
<1>3. ASSUME NEW c \in Callers, ReadTransport(c) PROVE RepliesMatch' /\ VerdictInv'
  BY <1>3 DEF ReadTransport, resolverVars, wireVars, targetVars, Goto, Return
<1>4. ASSUME NEW c \in Callers, OpenStream(c) PROVE RepliesMatch' /\ VerdictInv'
  BY <1>4 DEF OpenStream, resolverVars, wireVars, targetVars, Goto, Return
<1>5. ASSUME NEW c \in Callers, OpenFails(c) PROVE RepliesMatch' /\ VerdictInv'
  BY <1>5 DEF OpenFails, resolverVars, wireVars, targetVars, Goto, Return
<1>6. ASSUME NEW c \in Callers, LockStream(c) PROVE RepliesMatch' /\ VerdictInv'
  BY <1>6 DEF LockStream, resolverVars, wireVars, targetVars, Goto, Return
<1>7. ASSUME NEW c \in Callers, Send(c) PROVE RepliesMatch' /\ VerdictInv'
  BY <1>7 DEF Send, resolverVars, wireVars, targetVars, Goto, Return
<1>8. ASSUME NEW c \in Callers, SendFails(c) PROVE RepliesMatch' /\ VerdictInv'
  BY <1>8 DEF SendFails, resolverVars, wireVars, targetVars, Goto, Return
<1>9. ASSUME NEW c \in Callers, RecvFiles(c) PROVE RepliesMatch' /\ VerdictInv'
  <2>1. /\ Head(responses[using[c]]) = symbol[c]
        /\ Tail(responses[using[c]]) = << >>
    BY <1>9, ReadsOwnAnswer DEF RecvFiles, Goto, Return
  <2>2. \A s \in Streams : responses'[s] \in {<< >>, responses[s]}
    BY <1>9, <2>1 DEF RecvFiles
  <2>3. RepliesMatch'
    BY <1>9, <2>1 DEF RecvFiles, Goto
  <2>4. VerdictInv'
    BY <1>9, <2>2 DEF RecvFiles, resolverVars, targetVars, Goto
  <2> QED
    BY <2>3, <2>4
<1>10. ASSUME NEW c \in Callers, RecvError(c) PROVE RepliesMatch' /\ VerdictInv'
  <2>1. /\ Head(responses[using[c]]) = symbol[c]
        /\ Tail(responses[using[c]]) = << >>
        /\ Head(responses[using[c]]) \in Refused => refused
    BY <1>10, ReadsOwnAnswer DEF RecvError, Goto, Return
  <2>2. \A s \in Streams : responses'[s] \in {<< >>, responses[s]}
    BY <1>10, <2>1 DEF RecvError
  <2>3. CASE /\ pc' = [pc EXCEPT ![c] = "giveup"] /\ UNCHANGED <<using, got, last>>
             /\ Head(responses[using[c]]) \in Refused
    <3>1. RepliesMatch'
      BY <1>10, <2>3 DEF RecvError
    <3>2. VerdictInv'
      BY <1>10, <2>1, <2>2, <2>3 DEF RecvError, resolverVars, targetVars
    <3> QED
      BY <3>1, <3>2
  <2>4. CASE Return(c, "recv", "notFound")
    <3>1. RepliesMatch'
      BY <1>10, <2>1, <2>4 DEF RecvError, Goto, Return
    <3>2. VerdictInv'
      BY <1>10, <2>2, <2>4 DEF RecvError, resolverVars, targetVars, Goto, Return
    <3> QED
      BY <3>1, <3>2
  <2> QED
    BY <1>10, <2>3, <2>4 DEF RecvError
<1>11. ASSUME NEW c \in Callers, RecvEnd(c) PROVE RepliesMatch' /\ VerdictInv'
  BY <1>11 DEF RecvEnd, resolverVars, wireVars, targetVars, Goto, Return, GivesUpOn
<1>12. ASSUME NEW c \in Callers, GiveUp(c) PROVE RepliesMatch' /\ VerdictInv'
  BY <1>12 DEF GiveUp, resolverVars, wireVars, targetVars, Goto, Return
<1>13. ASSUME NEW c \in Callers, StoreTransport(c) PROVE RepliesMatch' /\ VerdictInv'
  BY <1>13 DEF StoreTransport, resolverVars, wireVars, targetVars, Goto, Return
<1>14. ASSUME NEW s \in Streams, TargetAnswers(s) PROVE RepliesMatch' /\ VerdictInv'
  <2>1. responses[s] = << >>
    BY <1>14 DEF TargetAnswers, WireInv
  <2>2. responses' = [responses EXCEPT ![s] = <<Head(requests[s])>>]
    BY <1>14, <2>1 DEF TargetAnswers
  <2>3. \A t \in Streams :
          responses'[t] # << >> /\ Head(responses'[t]) \in Refused => refused'
    <3>1. Head(responses'[s]) = Head(requests[s]) /\ Head(requests[s]) \in Symbols
      BY <1>14, <2>2 DEF TargetAnswers
    <3>2. \A t \in Streams \ {s} : responses'[t] = responses[t]
      BY <2>2
    <3> QED
      BY <1>14, <3>1, <3>2, refused \in BOOLEAN DEF TargetAnswers
  <2>4. VerdictInv'
    BY <1>14, <2>3 DEF TargetAnswers, resolverVars
  <2>5. RepliesMatch'
    BY <1>14 DEF TargetAnswers
  <2> QED
    BY <2>4, <2>5
<1>15. ASSUME NEW s \in Streams, TargetRejects(s) PROVE RepliesMatch' /\ VerdictInv'
  BY <1>15 DEF TargetRejects, resolverVars, wireVars, targetVars
<1>16. ASSUME NEW s \in Streams, StreamLost(s) PROVE RepliesMatch' /\ VerdictInv'
  BY <1>16 DEF StreamLost, resolverVars, wireVars, targetVars
<1>17. CASE UNCHANGED vars
  BY <1>17 DEF vars, resolverVars, wireVars, targetVars
<1> QED
  BY <1>1, <1>2, <1>3, <1>4, <1>5, <1>6, <1>7, <1>8, <1>9, <1>10, <1>11, <1>12, <1>13, <1>14, <1>15, <1>16, <1>17 DEF Next, CallStep, TargetStep

LEMMA Invariance == Spec => []IInv
<1>1. IInv /\ [Next]_vars => IInv'
  BY StepTypeOK, StepMutexInv, StepWireInv, StepOutcome DEF IInv
<1> QED
  BY InitIInv, <1>1, PTL DEF Spec

\* Every variable keeps its type, however many callers and streams there are.
THEOREM TypeCorrect == Spec => []TypeOK
<1>1. IInv => TypeOK
  BY DEF IInv
<1> QED
  BY <1>1, Invariance, PTL

\* Callers that share one stream are never handed each other's descriptors,
\* and are told of no missing symbol the target has.
THEOREM RepliesAlwaysMatch == Spec => []RepliesMatch
<1>1. IInv => RepliesMatch
  BY DEF IInv
<1> QED
  BY <1>1, Invariance, PTL

\* However its streams come and go, the resolver gives up only on a target
\* that answered Unimplemented, for the service or for one request.
THEOREM VerdictAlwaysDue == Spec => []GivenUpOnlyIfRefused
<1>1. IInv => GivenUpOnlyIfRefused
  BY DEF IInv, VerdictInv
<1> QED
  BY <1>1, Invariance, PTL

\* No way out of roundTrip() leaves a stream's mutex locked behind it.
THEOREM MutexAlwaysReleased == Spec => []MutexReleased
<1>1. IInv => MutexReleased
  BY DEF IInv, MutexInv, Inside, MutexReleased
<1> QED
  BY <1>1, Invariance, PTL
=============================================================================
