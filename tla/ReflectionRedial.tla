-------------------------- MODULE ReflectionRedial --------------------------
(***************************************************************************)
(* Reflection across redials: client.go's connection and the resolvers     *)
(* made from it (ChannelzConn), with what each resolver remembers of its   *)
(* target (ReflectionStream), while targets restart, perhaps with another  *)
(* version, and pages still work with the resolver of a connection that    *)
(* has been replaced.                                                      *)
(*                                                                         *)
(* dial() and an exchange on a stream are one step each here.  A resolver  *)
(* goes by the connection it was made from.  A stream is "live" until the  *)
(* transport under it is lost or the target ends it, then "dead" for good. *)
(***************************************************************************)
EXTENDS Naturals

CONSTANTS Pages, Conns, Nil

ASSUME RedialAssumption == Nil \notin Conns \cup {"live", "dead"}

VARIABLES
  conn,       \* the handler's connection
  resolver,   \* the connection its reflResolver was made from
  up,         \* each connection: "ok", "broken" (TransientFailure) or "closed"
  tainted,    \* history: since it was dialed, it was broken, a stream on it ended,
              \* or the target answered a request on it with Unimplemented
  transport, unusable,  \* the fields of each connection's resolver
  reflects,   \* whether the target implements reflection, as it runs now
  pc,         \* each page: "idle", "dialed", "resolve", "exchange", "store", "giveup"
  held,       \* the resolver a page works with
  using,      \* the stream it has in hand
  last        \* how its resolution ended, until it begins another

connVars == <<conn, resolver, up, tainted>>
fieldVars == <<transport, unusable>>
pageVars == <<pc, held, using, last>>
vars == <<connVars, fieldVars, reflects, pageVars>>

Init ==
  /\ conn = Nil /\ resolver = Nil
  /\ up = [k \in Conns |-> "closed"] /\ tainted = [k \in Conns |-> FALSE]
  /\ transport = [k \in Conns |-> Nil] /\ unusable = [k \in Conns |-> FALSE]
  /\ reflects \in BOOLEAN
  /\ pc = [p \in Pages |-> "idle"] /\ held = [p \in Pages |-> Nil]
  /\ using = [p \in Pages |-> Nil] /\ last = [p \in Pages |-> "none"]

Goto(p, from, to) == pc[p] = from /\ pc' = [pc EXCEPT ![p] = to]

Done(p, from, outcome) ==
  /\ Goto(p, from, "idle")
  /\ held' = [held EXCEPT ![p] = Nil] /\ using' = [using EXCEPT ![p] = Nil]
  /\ last' = [last EXCEPT ![p] = outcome]

\* Streams of k are dead from now on: those in the hands of users, and perhaps
\* the one stored.
StreamsDie(k, users, stored) ==
  /\ transport' = [transport EXCEPT ![k] = IF stored /\ @ = "live" THEN "dead" ELSE @]
  /\ using' = [p \in Pages |-> IF p \in users /\ held[p] = k /\ using[p] = "live"
                               THEN "dead" ELSE using[p]]

-----------------------------------------------------------------------------
(* A page. *)

\* There is no connection, or it is in TransientFailure.
Undialed == conn \notin {k \in Conns : up[k] = "ok"}

\* dial() finds a connection that is not broken.
DialReuses(p) ==
  /\ Goto(p, "idle", "dialed")
  /\ ~Undialed
  /\ last' = [last EXCEPT ![p] = "none"]
  /\ UNCHANGED <<connVars, fieldVars, reflects, held, using>>

RedialKeepsResolver(p, k) ==   \* mutant: reflResolver is not reset
  /\ Goto(p, "idle", "dialed")
  /\ Undialed /\ k # conn /\ \A q \in Pages : held[q] # k
  /\ conn' = k /\ UNCHANGED <<resolver, using>>
  /\ up' = [x \in Conns |-> CASE x = k -> "ok" [] x = conn -> "closed" [] OTHER -> up[x]]
  /\ tainted' = [tainted EXCEPT ![k] = FALSE]
  /\ unusable' = [unusable EXCEPT ![k] = FALSE]
  /\ transport' = [transport EXCEPT ![k] = Nil]
  /\ last' = [last EXCEPT ![p] = "none"]
  /\ UNCHANGED <<reflects, held>>

\* It closes a broken connection and dials a fresh one, whose resolver is yet
\* to be made.  (The streams of a broken connection are dead already.)
Redial(p, k) ==
  /\ Goto(p, "idle", "dialed")
  /\ Undialed /\ k # conn /\ \A q \in Pages : held[q] # k
  /\ conn' = k /\ resolver' = Nil
  /\ up' = [x \in Conns |-> CASE x = k -> "ok" [] x = conn -> "closed" [] OTHER -> up[x]]
  /\ tainted' = [tainted EXCEPT ![k] = FALSE]
  /\ unusable' = [unusable EXCEPT ![k] = FALSE]
  /\ transport' = [transport EXCEPT ![k] = Nil]
  /\ last' = [last EXCEPT ![p] = "none"]
  /\ UNCHANGED <<reflects, held, using>>

\* reflectionResolver(), at the time the page is rendered.
ReflectionResolver(p) ==
  /\ Goto(p, "dialed", "resolve")
  /\ resolver' = IF resolver = Nil THEN conn ELSE resolver
  /\ held' = [held EXCEPT ![p] = resolver']
  /\ UNCHANGED <<conn, up, tainted, fieldVars, reflects, using, last>>

\* call(), up to the exchange: the stream there is, or a new one.
TakeStream(p) ==
  /\ Goto(p, "resolve", "exchange")
  /\ ~unusable[held[p]]
  /\ transport[held[p]] # Nil \/ up[held[p]] = "ok"
  /\ using' = [using EXCEPT ![p] = IF transport[held[p]] # Nil THEN transport[held[p]] ELSE "live"]
  /\ UNCHANGED <<connVars, fieldVars, reflects, held, last>>

\* The resolver has given up, or there is no stream to be had.
NoStream(p) ==
  /\ Done(p, "resolve", "failed")
  /\ unusable[held[p]] \/ (transport[held[p]] = Nil /\ up[held[p]] # "ok")
  /\ UNCHANGED <<connVars, fieldVars, reflects>>

\* The target answers, with descriptors or with its lack of the service.
Exchange(p) ==
  /\ using[p] = "live"
  /\ Goto(p, "exchange", IF reflects THEN "store" ELSE "giveup")
  /\ UNCHANGED <<connVars, fieldVars, reflects, held, using, last>>

\* It answers with an error, which may have any code: Unimplemented makes the
\* page give the resolver up, like the lack of the service.
ErrorResponse(p) ==
  /\ using[p] = "live" /\ reflects
  /\ \/ /\ Goto(p, "exchange", "giveup")
        /\ tainted' = [tainted EXCEPT ![held[p]] = TRUE]
        /\ UNCHANGED <<held, using, last>>
     \/ /\ Done(p, "exchange", "notFound")
        /\ UNCHANGED tainted
  /\ UNCHANGED <<conn, resolver, up, fieldVars, reflects>>

ExchangeFails(p) ==
  /\ using[p] = "dead"
  /\ Done(p, "exchange", "failed")
  /\ UNCHANGED <<connVars, fieldVars, reflects>>

StoreInCurrent(p) ==   \* mutant: into the handler's resolver of that moment
  /\ transport' = [k \in Conns |-> IF k = resolver THEN using[p] ELSE transport[k]]
  /\ Done(p, "store", "ok")
  /\ UNCHANGED <<connVars, unusable, reflects>>

\* The stream stored may have died since it answered.
StoreTransport(p) ==
  /\ Done(p, "store", "ok")
  /\ transport' = [transport EXCEPT ![held[p]] = using[p]]
  /\ UNCHANGED <<connVars, unusable, reflects>>

GiveUp(p) ==
  /\ Done(p, "giveup", "failed")
  /\ unusable' = [unusable EXCEPT ![held[p]] = TRUE]
  /\ UNCHANGED <<connVars, transport, reflects>>

-----------------------------------------------------------------------------
(* The target and grpc-go. *)

\* The target stops, and may come back as another version.
TargetRestarts ==
  /\ conn # Nil
  /\ StreamsDie(conn, Pages, TRUE)
  /\ up' = [up EXCEPT ![conn] = "broken"] /\ tainted' = [tainted EXCEPT ![conn] = TRUE]
  /\ reflects' \in BOOLEAN
  /\ UNCHANGED <<conn, resolver, unusable, pc, held, last>>

\* It ends streams of a connection that stays up, as it may at any time.
StreamsEnd ==
  /\ conn # Nil
  /\ \E users \in SUBSET Pages, stored \in BOOLEAN : StreamsDie(conn, users, stored)
  /\ <<transport', using'>> # <<transport, using>>
  /\ tainted' = [tainted EXCEPT ![conn] = TRUE]
  /\ UNCHANGED <<conn, resolver, up, unusable, reflects, pc, held, last>>

\* grpc-go reconnects before a page has seen the connection broken.
Reconnects ==
  /\ conn # Nil /\ Undialed
  /\ up' = [up EXCEPT ![conn] = "ok"]
  /\ UNCHANGED <<conn, resolver, tainted, fieldVars, reflects, pageVars>>

PageStep(p) ==
  \/ ReflectionResolver(p) \/ TakeStream(p) \/ NoStream(p)
  \/ Exchange(p) \/ ErrorResponse(p) \/ ExchangeFails(p) \/ StoreTransport(p) \/ GiveUp(p)
Opened(p) == DialReuses(p) \/ \E k \in Conns : Redial(p, k)

Next == (\E p \in Pages : PageStep(p) \/ Opened(p))
        \/ TargetRestarts \/ StreamsEnd \/ Reconnects

\* Goroutines run; nothing is assumed of readers, the target and grpc-go.
Spec == Init /\ [][Next]_vars /\ \A p \in Pages : WF_vars(PageStep(p))
-----------------------------------------------------------------------------
(* Correctness *)

\* Every variable has a value of its kind, a page in a call a resolver,
\* and one past dial() a connection.
TypeOK ==
  /\ {conn, resolver} \subseteq Conns \cup {Nil}
  /\ up \in [Conns -> {"ok", "broken", "closed"}] /\ tainted \in [Conns -> BOOLEAN]
  /\ transport \in [Conns -> {Nil, "live", "dead"}] /\ unusable \in [Conns -> BOOLEAN]
  /\ reflects \in BOOLEAN
  /\ pc \in [Pages -> {"idle", "dialed", "resolve", "exchange", "store", "giveup"}]
  /\ held \in [Pages -> Conns \cup {Nil}] /\ using \in [Pages -> {Nil, "live", "dead"}]
  /\ \A p \in Pages :
       /\ pc[p] # "idle" => conn # Nil
       /\ pc[p] \in {"resolve", "exchange", "store", "giveup"} => held[p] # Nil

\* As long as its own connection has not broken, nor its own streams ended, nor
\* the target answered Unimplemented on them, the handler's resolver keeps no
\* dead stream and no verdict that the target refutes, whatever pages that work
\* with the resolver of an earlier connection store when they are done.
FreshIsClean ==
  resolver # Nil =>
    /\ resolver = conn
    /\ tainted[resolver] \/ (transport[resolver] # "dead" /\ (unusable[resolver] => ~reflects))

\* A redial heals: on a connection to which none of that happens any more, to a
\* target that reflects, a reader who keeps loading a page has its types looked
\* up there (the target may not have them), whatever went before.
RedialHeals ==
  \A p \in Pages :
    <>[](conn # Nil /\ ~tainted[conn] /\ reflects) /\ []<>(pc[p] = "dialed") =>
      []<>(last[p] \in {"ok", "notFound"})
=============================================================================
