---------------------------- MODULE ChannelzConn ----------------------------
(***************************************************************************)
(* The connection every page of the channelz UI shares: the fields conn,   *)
(* client, csdsClient and reflResolver of grpcChannelzHandler (handler.go) *)
(* and the methods of client.go that fill, hand out and replace them.      *)
(*                                                                         *)
(* A caller is a goroutine that serves (part of) a page.  connect() and    *)
(* connectCSDS() take the mutex three times: in injectedClient(), in       *)
(* dial() and to read the stub; anything may happen in between.  dial()    *)
(* keeps the mutex while it closes the old connection and dials, so it is  *)
(* split into steps; meanwhile grpc-go moves the connection's state on its *)
(* own.                                                                    *)
(***************************************************************************)
CONSTANTS
  Callers,     \* goroutines serving pages
  Conns,       \* identities of *grpc.ClientConn; a closed one that nothing
               \* refers to any more may be used again for a new connection
  Nil,         \* Go's nil: no connection, no stub, a free mutex
  Injected,    \* a stub that was written into the struct, as the tests do
  Injections   \* the sets of fields ("client", "csdsClient") so written

ASSUME ConnAssumption ==
  /\ Nil \notin Callers \cup Conns
  /\ Injected \notin Conns \cup {Nil}
  /\ Injections \subseteq SUBSET {"client", "csdsClient"}

VARIABLES
  conn, client, csdsClient, reflResolver,  \* fields of the handler; a stub and
                                           \* a resolver are named by their conn
  mu,          \* the caller holding h.mu across steps, or Nil
  dialOpts,    \* "lazy": grpc.Dial returns at once and never fails;
               \* "blocking": options (WithBlock, ...) that let it fail
  connState,   \* grpc-go's connectivity state of each connection
  up,          \* whether the target server can be reached
  pc, op,      \* each caller's control point, the call it is making or "none"
  held,        \* the stub (or resolver) each caller was handed
  failed       \* history: connections that were in transient failure

handlerVars == <<conn, client, csdsClient, reflResolver>>
envVars     == <<connState, up, failed>>
callerVars  == <<pc, op, held>>
vars == <<conn, client, csdsClient, reflResolver, mu, dialOpts, connState, up,
          pc, op, held, failed>>

Ops  == {"connect", "connectCSDS"}
PCs  == {"idle", "probe", "dial", "teardown", "dialing", "fetch", "rpc",
         "resolve", "render", "panicked"}
LiveStates == {"idle", "connecting", "ready", "transientFailure"}
ConnStates == LiveStates \cup {"undialed", "shutdown"}

OpenConns == {k \in Conns : connState[k] \in LiveStates}
InjectedHandler == client = Injected \/ csdsClient = Injected

\* Nothing refers to k: it can stand for a connection yet to be dialed.
Unreferenced(k) ==
  /\ k \notin OpenConns
  /\ k \notin {conn, client, csdsClient, reflResolver}
  /\ \A c \in Callers : held[c] # k

Goto(c, from, to) == pc[c] = from /\ pc' = [pc EXCEPT ![c] = to]
-----------------------------------------------------------------------------
\* CreateHandlerWithDialOpts leaves every stub nil; a test writes some.
Init ==
  /\ \E fields \in Injections :
       /\ client = IF "client" \in fields THEN Injected ELSE Nil
       /\ csdsClient = IF "csdsClient" \in fields THEN Injected ELSE Nil
  /\ dialOpts \in {"lazy", "blocking"}
  /\ conn = Nil /\ reflResolver = Nil /\ mu = Nil
  /\ connState = [k \in Conns |-> "undialed"]
  /\ up \in BOOLEAN
  /\ pc = [c \in Callers |-> "idle"]
  /\ op = [c \in Callers |-> "none"]
  /\ held = [c \in Callers |-> Nil]
  /\ failed = {}

\* A page getter calls connect() or connectCSDS().
BeginCall(c, call) ==
  /\ Goto(c, "idle", "probe")
  /\ op' = [op EXCEPT ![c] = call]
  /\ UNCHANGED <<handlerVars, envVars, mu, dialOpts, held>>

InjectedClientIgnored(c) ==    \* mutant: connect() dials whatever is injected
  /\ mu = Nil
  /\ Goto(c, "probe", "dial")
  /\ UNCHANGED <<handlerVars, envVars, mu, dialOpts, op, held>>

\* injectedClient(): a critical section of its own.
InjectedClient(c) ==
  /\ mu = Nil
  /\ pc[c] = "probe"
  /\ LET injected == conn = Nil /\ (client # Nil \/ csdsClient # Nil)
     IN  pc' = [pc EXCEPT ![c] = IF injected THEN "fetch" ELSE "dial"]
  /\ UNCHANGED <<handlerVars, envVars, mu, dialOpts, op, held>>
-----------------------------------------------------------------------------
\* The connectivity states in which dial() gives a connection up.
BrokenStatesEager == {"transientFailure", "shutdown", "connecting"} \* mutant
BrokenStatesShutdownOnly == {"shutdown"}                            \* mutant
BrokenStates == {"transientFailure", "shutdown"}

\* dial() takes the mutex and looks at the connection's state, once.
DialInspect(c) ==
  /\ mu = Nil
  /\ \/ /\ conn = Nil
        /\ Goto(c, "dial", "dialing")
        /\ mu' = c
     \/ /\ conn # Nil /\ connState[conn] \in BrokenStates
        /\ Goto(c, "dial", "teardown")
        /\ mu' = c
     \/ /\ conn # Nil /\ connState[conn] \notin BrokenStates
        /\ Goto(c, "dial", "fetch")
        /\ UNCHANGED mu
  /\ UNCHANGED <<handlerVars, envVars, dialOpts, op, held>>

DialTeardownNoClose(c) ==      \* mutant: Close() forgotten
  /\ Goto(c, "teardown", "dialing")
  /\ conn' = Nil /\ client' = Nil /\ csdsClient' = Nil /\ reflResolver' = Nil
  /\ UNCHANGED <<connState, up, failed, mu, dialOpts, op, held>>

DialTeardownKeepsResolver(c) == \* mutant: reflResolver = nil forgotten
  /\ Goto(c, "teardown", "dialing")
  /\ connState' = [connState EXCEPT ![conn] = "shutdown"]
  /\ conn' = Nil /\ client' = Nil /\ csdsClient' = Nil
  /\ UNCHANGED <<reflResolver, up, failed, mu, dialOpts, op, held>>

DialTeardownKeepsCsds(c) ==    \* mutant: csdsClient = nil forgotten
  /\ Goto(c, "teardown", "dialing")
  /\ connState' = [connState EXCEPT ![conn] = "shutdown"]
  /\ conn' = Nil /\ client' = Nil /\ reflResolver' = Nil
  /\ UNCHANGED <<csdsClient, up, failed, mu, dialOpts, op, held>>

DialTeardownUnlocks(c) ==      \* mutant: the mutex is not held across Dial
  /\ Goto(c, "teardown", "dialing")
  /\ connState' = [connState EXCEPT ![conn] = "shutdown"]
  /\ conn' = Nil /\ client' = Nil /\ csdsClient' = Nil /\ reflResolver' = Nil
  /\ mu' = Nil
  /\ UNCHANGED <<up, failed, dialOpts, op, held>>

\* ... closes it and forgets all that was derived from it.  The state that was
\* inspected may be out of date by now: grpc-go does not know about h.mu.
DialTeardown(c) ==
  /\ Goto(c, "teardown", "dialing")
  /\ connState' = [connState EXCEPT ![conn] = "shutdown"]
  /\ conn' = Nil /\ client' = Nil /\ csdsClient' = Nil /\ reflResolver' = Nil
  /\ UNCHANGED <<up, failed, mu, dialOpts, op, held>>

\* grpc.Dial returns a new connection: it is stored with its stubs.
DialReturns(c) ==
  \E k \in Conns :
    /\ Unreferenced(k)
    /\ Goto(c, "dialing", "fetch")
    /\ conn' = k /\ client' = k /\ csdsClient' = k
    /\ connState' = [connState EXCEPT ![k] = "idle"]
    /\ failed' = failed \ {k}
    /\ mu' = Nil
    /\ UNCHANGED <<reflResolver, up, dialOpts, op, held>>

DialFailsLocked(c) ==          \* mutant: an unlock missing on the error path
  /\ dialOpts = "blocking"
  /\ Goto(c, "dialing", "idle")
  /\ op' = [op EXCEPT ![c] = "none"]
  /\ UNCHANGED <<handlerVars, envVars, mu, dialOpts, held>>

\* grpc.Dial returns an error: connect() fails and the page says so.
DialFails(c) ==
  /\ dialOpts = "blocking"
  /\ Goto(c, "dialing", "idle")
  /\ mu' = Nil
  /\ op' = [op EXCEPT ![c] = "none"]
  /\ UNCHANGED <<handlerVars, envVars, dialOpts, held>>
-----------------------------------------------------------------------------
\* connect() and connectCSDS() lock a third time and return whatever stub the
\* handler has by then.
Fetch(c) ==
  /\ mu = Nil
  /\ Goto(c, "fetch", "rpc")
  /\ held' = [held EXCEPT ![c] = IF op[c] = "connect" THEN client ELSE csdsClient]
  /\ UNCHANGED <<handlerVars, envVars, mu, dialOpts, op>>

\* A channelz getter's RPC comes back, with a response or an error.
ChannelzRpcReturns(c) ==
  /\ op[c] = "connect" /\ held[c] # Nil
  /\ Goto(c, "rpc", "idle")
  /\ held' = [held EXCEPT ![c] = Nil]
  /\ op' = [op EXCEPT ![c] = "none"]
  /\ UNCHANGED <<handlerVars, envVars, mu, dialOpts>>

\* fetchClientStatus()'s RPC comes back, with a response or an error.
CsdsRpcReturns(c) ==
  /\ op[c] = "connectCSDS" /\ held[c] # Nil
  /\ Goto(c, "rpc", "idle")
  /\ held' = [held EXCEPT ![c] = Nil]
  /\ op' = [op EXCEPT ![c] = "none"]
  /\ UNCHANGED <<handlerVars, envVars, mu, dialOpts>>

\* A method call on a nil stub: the goroutine panics.  net/http recovers that of
\* a page's own goroutine, which is what the others going on stands for; in the
\* goroutines of the cluster page (xds-cluster-page.go:190 and 395) nothing
\* does, and it would end the program.  No property depends on which it is.
RpcPanics(c) ==
  /\ held[c] = Nil
  /\ Goto(c, "rpc", "panicked")
  /\ UNCHANGED <<handlerVars, envVars, mu, dialOpts, op, held>>

\* reflectionResolver(): the resolver is made on first use of the connection.
BeginRender(c) ==
  /\ Goto(c, "idle", "resolve")
  /\ UNCHANGED <<handlerVars, envVars, mu, dialOpts, op, held>>

ReflectionResolver(c) ==
  /\ mu = Nil
  /\ Goto(c, "resolve", "render")
  /\ reflResolver' = IF conn # Nil /\ reflResolver = Nil THEN conn
                                                         ELSE reflResolver
  /\ held' = [held EXCEPT ![c] = IF conn = Nil THEN Nil ELSE reflResolver']
  /\ UNCHANGED <<conn, client, csdsClient, envVars, mu, dialOpts, op>>

RenderDone(c) ==
  /\ Goto(c, "render", "idle")
  /\ held' = [held EXCEPT ![c] = Nil]
  /\ UNCHANGED <<handlerVars, envVars, mu, dialOpts, op>>
-----------------------------------------------------------------------------
\* What grpc-go may do to an open connection on its own.
GrpcTransitions ==
  {<<"idle", "connecting">>, <<"ready", "idle">>,
   <<"transientFailure", "connecting">>}
  \cup IF up THEN {<<"connecting", "ready">>}
             ELSE {<<"connecting", "transientFailure">>,
                   <<"ready", "transientFailure">>}

ConnStateChanges(k) ==
  \E s \in LiveStates :
    /\ <<connState[k], s>> \in GrpcTransitions
    /\ connState' = [connState EXCEPT ![k] = s]
    /\ failed' = IF s = "transientFailure" THEN failed \cup {k} ELSE failed
    /\ UNCHANGED <<handlerVars, callerVars, mu, dialOpts, up>>

ServerStopsOrStarts ==
  /\ up' = ~up
  /\ UNCHANGED <<handlerVars, callerVars, mu, dialOpts, connState, failed>>

CallerNext(c) ==
  \/ \E call \in Ops : BeginCall(c, call)
  \/ InjectedClient(c)
  \/ DialInspect(c) \/ DialTeardown(c) \/ DialReturns(c) \/ DialFails(c)
  \/ Fetch(c)
  \/ ChannelzRpcReturns(c) \/ CsdsRpcReturns(c) \/ RpcPanics(c)
  \/ BeginRender(c) \/ ReflectionResolver(c) \/ RenderDone(c)

Next ==
  \/ \E c \in Callers : CallerNext(c)
  \/ \E k \in Conns : ConnStateChanges(k)
  \/ ServerStopsOrStarts

\* sync.Mutex hands itself to every waiter in the end (its starvation mode),
\* goroutines run, and grpc.Dial returns.  Nothing is assumed of RPCs, of the
\* server, or of grpc-go's reconnection attempts.
Fairness ==
  \A c \in Callers :
    /\ SF_vars(InjectedClient(c))
    /\ SF_vars(DialInspect(c))
    /\ SF_vars(Fetch(c))
    /\ WF_vars(DialTeardown(c))
    /\ WF_vars(DialReturns(c) \/ DialFails(c))

Spec == Init /\ [][Next]_vars
FairSpec == Spec /\ Fairness
-----------------------------------------------------------------------------
\* Every variable has its type (the fields of the handler, the mutex, the
\* states of the connections and of the callers).
TypeOK ==
  /\ conn \in Conns \cup {Nil}
  /\ reflResolver \in Conns \cup {Nil}
  /\ client \in Conns \cup {Nil, Injected}
  /\ csdsClient \in Conns \cup {Nil, Injected}
  /\ mu \in Callers \cup {Nil}
  /\ dialOpts \in {"lazy", "blocking"}
  /\ connState \in [Conns -> ConnStates]
  /\ up \in BOOLEAN
  /\ pc \in [Callers -> PCs]
  /\ op \in [Callers -> Ops \cup {"none"}]
  /\ held \in [Callers -> Conns \cup {Nil, Injected}]
  /\ failed \subseteq Conns

\* Whoever reads the fields between two critical sections finds both stubs
\* bound to the connection, or both gone with it: dial() resets and sets them
\* together, so a half-reset handler is never taken for an injected one.
StubsMatchConn ==
  IF conn = Nil THEN {client, csdsClient} \subseteq {Nil, Injected}
                ELSE client = conn /\ csdsClient = conn

\* A resolver never outlives the connection its reflection stream runs on
\* (dial() drops it together with the connection).
ResolverFresh == reflResolver \in {Nil, conn}

\* However many pages find the connection broken at once, every connection
\* that is not the handler's current one has been closed.
NoConnLeak == OpenConns \subseteq {conn}

\* A connection is closed only if it did fail since it was dialed: a caller
\* never tears down the fresh connection another caller has just made, nor one
\* that is still connecting.
OnlyFailedConnClosed ==
  \A k \in Conns : connState[k] = "shutdown" => k \in failed

\* With dial options under which grpc.Dial cannot fail, a connect() or
\* connectCSDS() that returns no error returns a stub, although it reads the
\* field after dial() has let go of the mutex.
NoNilStub ==
  \A c \in Callers :
    pc[c] = "rpc" /\ held[c] = Nil => dialOpts = "blocking" \/ InjectedHandler

\* The action that leaves the injected stubs alone.
KeepInjected ==
  /\ client = Injected => client' = Injected
  /\ csdsClient = Injected => csdsClient' = Injected

\* An injected stub is used as it is: no interleaving makes connect() dial
\* over it (comments of connect() and injectedClient()).
InjectedStubKept == [][KeepInjected]_vars

\* Every call of connect() or connectCSDS() returns.
CallReturns ==
  \A c \in Callers : pc[c] = "probe" ~> pc[c] \in {"rpc", "idle"}

\* Once the server is back for good and pages keep being requested, the shared
\* connection does not stay in transient failure, even if grpc-go's own
\* backoff never retries (the purpose of the comment at client.go:73-76).
RecoversWithoutBackoff ==
  <>[]up /\ []<>(\E c \in Callers : pc[c] = "probe")
    => <>[](conn # Nil => connState[conn] # "transientFailure")

\* The promise of module SharedConnection, read off the handler's fields.
Abstract == INSTANCE SharedConnection WITH
  current <- conn,
  open    <- OpenConns,
  given   <- [c \in Callers |-> IF held[c] = Injected THEN Nil ELSE held[c]]

\* The handler implements the shared connection: at most one is open, every
\* stub and resolver handed out belongs to the connection current at that
\* moment, and retiring a connection closes it.
SharesOneConnection == Abstract!Spec
=============================================================================
