------------------------ MODULE ChannelzConn_proofs -------------------------
(***************************************************************************)
(* Proofs about ChannelzConn, for any sets of callers and connections.     *)
(*                                                                         *)
(* The inductive invariant adds to the checked invariants what the code    *)
(* relies on without saying it: the mutex is held exactly during teardown  *)
(* and dialing, a caller between dial() and reading the stub always leaves *)
(* either a connection or a dialing caller behind, and a caller refers to  *)
(* a connection only between Fetch and the end of its RPC.                 *)
(***************************************************************************)
EXTENDS ChannelzConn, TLAPS

\* The mutex is held across steps exactly by the caller inside dial().
LockInv ==
  \A c \in Callers :
    /\ pc[c] \in {"teardown", "dialing"} <=> mu = c
    /\ pc[c] = "teardown" => conn # Nil /\ conn \in failed
    /\ pc[c] = "dialing" => conn = Nil

\* A handler with an injected stub has no caller in or before dial().
InjectedInv ==
  InjectedHandler =>
    conn = Nil /\ \A c \in Callers : pc[c] \notin {"dial", "teardown", "dialing"}

\* A caller past a dial() that cannot fail finds a connection, once it gets
\* the mutex.
FetchInv ==
  \A c \in Callers :
    pc[c] = "fetch" /\ conn = Nil /\ mu = Nil =>
      dialOpts = "blocking" \/ InjectedHandler

\* Only an RPC or a rendering caller holds a stub.
HeldInv == \A c \in Callers : pc[c] \notin {"rpc", "render"} => held[c] = Nil

\* Connections in transient failure, and closed ones, have failed.
FailedInv ==
  \A k \in Conns : connState[k] \in {"transientFailure", "shutdown"} => k \in failed

IInv ==
  /\ TypeOK
  /\ LockInv
  /\ InjectedInv
  /\ FetchInv
  /\ HeldInv
  /\ FailedInv
  /\ StubsMatchConn
  /\ ResolverFresh
  /\ NoConnLeak
  /\ NoNilStub
-----------------------------------------------------------------------------
\* The handler as CreateHandlerWithDialOpts makes it satisfies the invariant.
LEMMA InitIInv == Init => IInv
<1> SUFFICES ASSUME Init PROVE IInv
  OBVIOUS
<1> USE ConnAssumption
<1>1. TypeOK
  BY DEF Init, TypeOK, ConnStates, LiveStates, PCs, Ops
<1>2. LockInv /\ FetchInv /\ HeldInv /\ NoNilStub
  BY DEF Init, LockInv, FetchInv, HeldInv, NoNilStub
<1>3. InjectedInv /\ StubsMatchConn /\ ResolverFresh
  BY DEF Init, InjectedInv, StubsMatchConn, ResolverFresh
<1>4. FailedInv /\ NoConnLeak
  BY DEF Init, FailedInv, NoConnLeak, OpenConns, LiveStates
<1> QED
  BY <1>1, <1>2, <1>3, <1>4 DEF IInv

\* Each step of the handler, its callers and grpc-go keeps the invariant.
LEMMA StepIInv == IInv /\ [Next]_vars => IInv'
<1> SUFFICES ASSUME IInv, [Next]_vars PROVE IInv'
  OBVIOUS
<1> USE ConnAssumption
<1> USE DEF IInv, TypeOK, Goto, handlerVars, envVars, callerVars
<1>1. ASSUME NEW c \in Callers, NEW call \in Ops, BeginCall(c, call) PROVE IInv'
  BY <1>1 DEF BeginCall, LockInv, InjectedInv, InjectedHandler, FetchInv, HeldInv,
     FailedInv, StubsMatchConn, ResolverFresh, NoConnLeak, NoNilStub, OpenConns, PCs, Ops
<1>2. ASSUME NEW c \in Callers, InjectedClient(c) PROVE IInv'
  BY <1>2 DEF InjectedClient, LockInv, InjectedInv, InjectedHandler, FetchInv, HeldInv,
     FailedInv, StubsMatchConn, ResolverFresh, NoConnLeak, NoNilStub, OpenConns, PCs
<1>3. ASSUME NEW c \in Callers, DialInspect(c) PROVE IInv'
  BY <1>3 DEF DialInspect, BrokenStates, LockInv, InjectedInv, InjectedHandler, FetchInv,
     HeldInv, FailedInv, StubsMatchConn, ResolverFresh, NoConnLeak, NoNilStub, OpenConns, PCs
<1>4. ASSUME NEW c \in Callers, DialTeardown(c) PROVE IInv'
  BY <1>4 DEF DialTeardown, LockInv, InjectedInv, InjectedHandler, FetchInv, HeldInv,
     FailedInv, StubsMatchConn, ResolverFresh, NoConnLeak, NoNilStub, OpenConns, PCs,
     LiveStates, ConnStates
<1>5. ASSUME NEW c \in Callers, DialReturns(c) PROVE IInv'
  BY <1>5 DEF DialReturns, Unreferenced, LockInv, InjectedInv, InjectedHandler, FetchInv,
     HeldInv, FailedInv, StubsMatchConn, ResolverFresh, NoConnLeak, NoNilStub, OpenConns,
     PCs, LiveStates, ConnStates
<1>6. ASSUME NEW c \in Callers, DialFails(c) PROVE IInv'
  BY <1>6 DEF DialFails, LockInv, InjectedInv, InjectedHandler, FetchInv, HeldInv,
     FailedInv, StubsMatchConn, ResolverFresh, NoConnLeak, NoNilStub, OpenConns, PCs, Ops
<1>7. ASSUME NEW c \in Callers, Fetch(c) PROVE IInv'
  BY <1>7 DEF Fetch, LockInv, InjectedInv, InjectedHandler, FetchInv, HeldInv,
     FailedInv, StubsMatchConn, ResolverFresh, NoConnLeak, NoNilStub, OpenConns, PCs
<1>8. ASSUME NEW c \in Callers, ChannelzRpcReturns(c) \/ CsdsRpcReturns(c) PROVE IInv'
  BY <1>8 DEF ChannelzRpcReturns, CsdsRpcReturns, LockInv, InjectedInv, InjectedHandler,
     FetchInv, HeldInv, FailedInv, StubsMatchConn, ResolverFresh, NoConnLeak, NoNilStub,
     OpenConns, PCs, Ops
<1>9. ASSUME NEW c \in Callers, RpcPanics(c) PROVE IInv'
  BY <1>9 DEF RpcPanics, LockInv, InjectedInv, InjectedHandler, FetchInv, HeldInv,
     FailedInv, StubsMatchConn, ResolverFresh, NoConnLeak, NoNilStub, OpenConns, PCs
<1>10. ASSUME NEW c \in Callers, BeginRender(c) \/ RenderDone(c) PROVE IInv'
  BY <1>10 DEF BeginRender, RenderDone, LockInv, InjectedInv, InjectedHandler, FetchInv,
     HeldInv, FailedInv, StubsMatchConn, ResolverFresh, NoConnLeak, NoNilStub, OpenConns, PCs
<1>11. ASSUME NEW c \in Callers, ReflectionResolver(c) PROVE IInv'
  BY <1>11 DEF ReflectionResolver, LockInv, InjectedInv, InjectedHandler, FetchInv, HeldInv,
     FailedInv, StubsMatchConn, ResolverFresh, NoConnLeak, NoNilStub, OpenConns, PCs
<1>12. ASSUME NEW k \in Conns, ConnStateChanges(k) PROVE IInv'
  BY <1>12 DEF ConnStateChanges, GrpcTransitions, LockInv, InjectedInv, InjectedHandler,
     FetchInv, HeldInv, FailedInv, StubsMatchConn, ResolverFresh, NoConnLeak, NoNilStub,
     OpenConns, LiveStates, ConnStates
<1>13. CASE ServerStopsOrStarts
  BY <1>13 DEF ServerStopsOrStarts, LockInv, InjectedInv, InjectedHandler, FetchInv, HeldInv,
     FailedInv, StubsMatchConn, ResolverFresh, NoConnLeak, NoNilStub, OpenConns
<1>14. CASE UNCHANGED vars
  BY <1>14 DEF vars, LockInv, InjectedInv, InjectedHandler, FetchInv, HeldInv,
     FailedInv, StubsMatchConn, ResolverFresh, NoConnLeak, NoNilStub, OpenConns
<1> QED
  BY <1>1, <1>2, <1>3, <1>4, <1>5, <1>6, <1>7, <1>8, <1>9, <1>10, <1>11, <1>12, <1>13,
     <1>14 DEF Next, CallerNext
-----------------------------------------------------------------------------
\* The strengthened invariant holds in every reachable state.
LEMMA Invariance == Spec => []IInv
<1> QED
  BY InitIInv, StepIInv, PTL DEF Spec

\* Every variable keeps its type.
THEOREM TypeCorrect == Spec => []TypeOK
<1>1. IInv => TypeOK
  BY DEF IInv
<1> QED
  BY <1>1, Invariance, PTL

\* Between two critical sections of client.go, the stubs are those of the
\* connection, or gone with it.
THEOREM StubsAlwaysMatch == Spec => []StubsMatchConn
<1>1. IInv => StubsMatchConn
  BY DEF IInv
<1> QED
  BY <1>1, Invariance, PTL

\* The cached reflection resolver is never one of a closed connection.
THEOREM ResolverAlwaysFresh == Spec => []ResolverFresh
<1>1. IInv => ResolverFresh
  BY DEF IInv
<1> QED
  BY <1>1, Invariance, PTL

\* No number of concurrent redials leaves a connection open behind.
THEOREM NeverLeaks == Spec => []NoConnLeak
<1>1. IInv => NoConnLeak
  BY DEF IInv
<1> QED
  BY <1>1, Invariance, PTL

\* dial() closes only connections that were seen to fail.
THEOREM ClosesOnlyFailed == Spec => []OnlyFailedConnClosed
<1>1. IInv => OnlyFailedConnClosed
  BY DEF IInv, FailedInv, OnlyFailedConnClosed
<1> QED
  BY <1>1, Invariance, PTL

\* While grpc.Dial cannot fail, connect() and connectCSDS() hand out a stub.
THEOREM AlwaysAStub == Spec => []NoNilStub
<1>1. IInv => NoNilStub
  BY DEF IInv
<1> QED
  BY <1>1, Invariance, PTL

\* A stub written into the handler is never replaced by dial(): by InjectedInv
\* no caller of such a handler gets as far as dial().
THEOREM InjectedStaysInjected == Spec => InjectedStubKept
<1>1. IInv /\ [Next]_vars => [KeepInjected]_vars
  <2> SUFFICES ASSUME IInv, [Next]_vars, InjectedHandler PROVE KeepInjected
    BY DEF InjectedHandler, KeepInjected
  <2>1. \A c \in Callers : pc[c] \notin {"dial", "teardown", "dialing"}
    BY DEF IInv, InjectedInv
  <2>2. UNCHANGED <<client, csdsClient>>
    BY <2>1 DEF Next, CallerNext, BeginCall, InjectedClient, DialInspect, DialTeardown,
       DialReturns, DialFails, Fetch, ChannelzRpcReturns, CsdsRpcReturns, RpcPanics,
       BeginRender, ReflectionResolver, RenderDone, ConnStateChanges,
       ServerStopsOrStarts, Goto, handlerVars, vars
  <2> QED
    BY <2>2 DEF KeepInjected
<1> QED
  BY <1>1, Invariance, PTL DEF Spec, InjectedStubKept
-----------------------------------------------------------------------------
\* A handler that has just been made is a shared connection not yet dialed.
LEMMA InitRefines == Init => Abstract!Init
<1> SUFFICES ASSUME Init PROVE Abstract!Init
  OBVIOUS
<1>1. OpenConns = {}
  BY DEF Init, OpenConns, LiveStates
<1>2. [c \in Callers |-> IF held[c] = Injected THEN Nil ELSE held[c]]
        = [c \in Callers |-> Nil]
  BY DEF Init
<1> QED
  BY <1>1, <1>2 DEF Init, Abstract!Init

\* Each step of the code is a step of the shared connection or changes nothing
\* it sees.
LEMMA StepRefines == IInv /\ [Next]_vars => [Abstract!Next]_(Abstract!vars)
<1> SUFFICES ASSUME IInv, [Next]_vars PROVE [Abstract!Next]_(Abstract!vars)
  OBVIOUS
<1> USE ConnAssumption
<1> DEFINE given(h) == [c \in Callers |-> IF h[c] = Injected THEN Nil ELSE h[c]]
<1>1. ASSUME UNCHANGED <<conn, connState, held>> PROVE UNCHANGED Abstract!vars
  BY <1>1 DEF Abstract!vars, OpenConns
<1>2. ASSUME NEW c \in Callers, DialTeardown(c) PROVE Abstract!Retire
  <2>1. conn \in Conns /\ conn # Nil /\ conn' = Nil
    BY <1>2 DEF DialTeardown, Goto, IInv, LockInv, TypeOK
  <2>2. OpenConns' = OpenConns \ {conn}
    BY <1>2, <2>1 DEF DialTeardown, OpenConns, LiveStates, IInv, TypeOK
  <2> QED
    BY <1>2, <2>1, <2>2 DEF DialTeardown, Abstract!Retire
<1>3. ASSUME NEW c \in Callers, DialReturns(c)
      PROVE  \E k \in Conns : Abstract!Open(k)
  <2>1. PICK k \in Conns : /\ Unreferenced(k)
                           /\ conn' = k
                           /\ connState' = [connState EXCEPT ![k] = "idle"]
                           /\ held' = held
    BY <1>3 DEF DialReturns
  <2>2. conn = Nil
    BY <1>3 DEF DialReturns, Goto, IInv, LockInv
  <2>3. OpenConns' = OpenConns \cup {k}
    BY <2>1 DEF OpenConns, LiveStates, IInv, TypeOK
  <2>4. \A d \in Callers : held[d] # k
    BY <2>1 DEF Unreferenced
  <2>5. Abstract!Open(k)
    BY <2>1, <2>2, <2>3, <2>4 DEF Abstract!Open
  <2> QED
    BY <2>5
<1>4. ASSUME NEW c \in Callers, NEW h, held' = [held EXCEPT ![c] = h],
             h = conn, conn # Nil, held[c] = Nil,
             UNCHANGED <<conn, connState>>
      PROVE  Abstract!Take(c)
  <2>1. given(held') = [given(held) EXCEPT ![c] = conn]
    BY <1>4 DEF IInv, TypeOK
  <2>2. OpenConns' = OpenConns
    BY <1>4 DEF OpenConns
  <2> QED
    BY <1>4, <2>1, <2>2 DEF Abstract!Take
<1>5. ASSUME NEW c \in Callers, held' = [held EXCEPT ![c] = Nil],
             UNCHANGED <<conn, connState>>
      PROVE  Abstract!Return(c)
  <2>1. given(held') = [given(held) EXCEPT ![c] = Nil]
    BY <1>5 DEF IInv, TypeOK
  <2>2. OpenConns' = OpenConns
    BY <1>5 DEF OpenConns
  <2> QED
    BY <1>5, <2>1, <2>2 DEF Abstract!Return
<1>6. ASSUME NEW c \in Callers, Fetch(c) \/ ReflectionResolver(c)
      PROVE  Abstract!Take(c) \/ Abstract!Return(c)
  <2>1. held[c] = Nil /\ UNCHANGED <<conn, connState>>
    BY <1>6 DEF Fetch, ReflectionResolver, Goto, IInv, HeldInv, handlerVars, envVars
  <2>2. PICK h : held' = [held EXCEPT ![c] = h] /\ h \in {conn, Nil, Injected}
    <3>1. CASE Fetch(c)
      BY <3>1 DEF Fetch, IInv, StubsMatchConn
    <3>2. CASE ReflectionResolver(c)
      BY <3>2 DEF ReflectionResolver, IInv, ResolverFresh
    <3> QED
      BY <1>6, <3>1, <3>2
  <2>3. CASE h = conn /\ conn # Nil
    BY <1>4, <2>1, <2>2, <2>3
  <2>4. CASE h = Nil
    BY <1>5, <2>1, <2>2, <2>4
  <2>5. CASE h = Injected
    <3>1. given(held') = [given(held) EXCEPT ![c] = Nil]
      BY <2>2, <2>5 DEF IInv, TypeOK
    <3>2. OpenConns' = OpenConns
      BY <2>1 DEF OpenConns
    <3> QED
      BY <2>1, <3>1, <3>2 DEF Abstract!Return
  <2> QED
    BY <2>2, <2>3, <2>4, <2>5
<1>7. ASSUME NEW c \in Callers,
             ChannelzRpcReturns(c) \/ CsdsRpcReturns(c) \/ RenderDone(c)
      PROVE  Abstract!Return(c)
  BY <1>5, <1>7 DEF ChannelzRpcReturns, CsdsRpcReturns, RenderDone, handlerVars, envVars
<1>8. ASSUME NEW k \in Conns, ConnStateChanges(k) PROVE UNCHANGED Abstract!vars
  <2>1. OpenConns' = OpenConns
    BY <1>8 DEF ConnStateChanges, GrpcTransitions, OpenConns, LiveStates, IInv, TypeOK
  <2> QED
    BY <1>8, <2>1 DEF ConnStateChanges, handlerVars, callerVars, Abstract!vars
<1>9. ASSUME NEW c \in Callers,
             \/ \E call \in Ops : BeginCall(c, call)
             \/ InjectedClient(c) \/ DialInspect(c) \/ DialFails(c)
             \/ RpcPanics(c) \/ BeginRender(c)
      PROVE  UNCHANGED Abstract!vars
  BY <1>1, <1>9 DEF BeginCall, InjectedClient, DialInspect, DialFails, RpcPanics,
     BeginRender, handlerVars, envVars
<1>10. CASE ServerStopsOrStarts \/ UNCHANGED vars
  BY <1>1, <1>10 DEF ServerStopsOrStarts, vars, handlerVars, callerVars
<1> QED
  BY <1>2, <1>3, <1>6, <1>7, <1>8, <1>9, <1>10 DEF Next, CallerNext, Abstract!Next

\* client.go implements the shared connection of module SharedConnection, for
\* any number of pages and any behaviour of grpc-go and the server.
THEOREM Refinement == Spec => SharesOneConnection
<1> QED
  BY InitRefines, StepRefines, Invariance, PTL
  DEF Spec, SharesOneConnection, Abstract!Spec
=============================================================================
