----------------------- MODULE ReflectionRedial_proofs -----------------------
(***************************************************************************)
(* Proof that a fresh connection's resolver is clean, for any number of    *)
(* pages and connections.  FreshIsClean alone is not inductive: what       *)
(* becomes of the resolver's fields is still in the hands of pages, and    *)
(* they are fields of the connection before it has a resolver.             *)
(***************************************************************************)
EXTENDS ReflectionRedial, TLAPS

\* The handler has a connection to which nothing has happened since it was
\* dialed that would leave its resolver with a dead stream or a wrong verdict.
Fresh == conn # Nil /\ ~tainted[conn]

\* There is a resolver only of the current connection, which is there then.
ResolverInv == resolver # Nil => resolver = conn

\* The fields of a fresh connection's resolver, made or not.
FieldsInv == Fresh => transport[conn] # "dead" /\ (unusable[conn] => ~reflects)

\* What pages with a fresh connection's resolver are about to write into it.
PagesInv ==
  Fresh => \A p \in Pages : held[p] = conn =>
    /\ pc[p] \in {"exchange", "store"} => using[p] # "dead"
    /\ pc[p] = "giveup" => ~reflects

IInv == TypeOK /\ ResolverInv /\ FieldsInv /\ PagesInv
-----------------------------------------------------------------------------
\* The handler starts without a connection.
LEMMA InitIInv == Init => IInv
<1> QED
  BY RedialAssumption DEF Init, IInv, TypeOK, Fresh, ResolverInv, FieldsInv, PagesInv

\* Each step of a page, the target or grpc-go preserves the types.
LEMMA StepTypeOK == TypeOK /\ [Next]_vars => TypeOK'
<1> SUFFICES ASSUME TypeOK, [Next]_vars PROVE TypeOK'
  OBVIOUS
<1> USE RedialAssumption DEF TypeOK
<1>1. ASSUME NEW p \in Pages, DialReuses(p) PROVE TypeOK'
  BY <1>1 DEF DialReuses, Undialed, Goto, connVars, fieldVars
<1>2. ASSUME NEW p \in Pages, NEW k \in Conns, Redial(p, k) PROVE TypeOK'
  BY <1>2 DEF Redial, Goto
<1>3. ASSUME NEW p \in Pages, ReflectionResolver(p) PROVE TypeOK'
  BY <1>3 DEF ReflectionResolver, Goto, fieldVars
<1>4. ASSUME NEW p \in Pages, TakeStream(p) PROVE TypeOK'
  BY <1>4 DEF TakeStream, Goto, connVars, fieldVars
<1>5. ASSUME NEW p \in Pages, NoStream(p) \/ ExchangeFails(p) PROVE TypeOK'
  BY <1>5 DEF NoStream, ExchangeFails, Done, Goto, connVars, fieldVars
<1>6. ASSUME NEW p \in Pages, Exchange(p) PROVE TypeOK'
  BY <1>6 DEF Exchange, Goto, connVars, fieldVars
<1>7. ASSUME NEW p \in Pages, StoreTransport(p) PROVE TypeOK'
  BY <1>7 DEF StoreTransport, Done, Goto, connVars
<1>8. ASSUME NEW p \in Pages, GiveUp(p) PROVE TypeOK'
  BY <1>8 DEF GiveUp, Done, Goto, connVars
<1>9. CASE TargetRestarts
  BY <1>9 DEF TargetRestarts, StreamsDie
<1>10. CASE Reconnects
  BY <1>10 DEF Reconnects, fieldVars, pageVars
<1>11. CASE UNCHANGED vars
  BY <1>11 DEF vars, connVars, fieldVars, pageVars
<1>12. ASSUME NEW p \in Pages, ErrorResponse(p) PROVE TypeOK'
  <2>1. CASE Goto(p, "exchange", "giveup") /\ UNCHANGED <<held, using, last>>
    BY <1>12, <2>1 DEF ErrorResponse, Goto, fieldVars
  <2>2. CASE Done(p, "exchange", "notFound")
    BY <1>12, <2>2 DEF ErrorResponse, Done, Goto, fieldVars
  <2> QED
    BY <1>12, <2>1, <2>2 DEF ErrorResponse
<1>13. CASE StreamsEnd
  BY <1>13 DEF StreamsEnd, StreamsDie
<1> QED
  BY <1>1, <1>2, <1>3, <1>4, <1>5, <1>6, <1>7, <1>8, <1>9, <1>10, <1>11, <1>12, <1>13
     DEF Next, PageStep, Opened

\* A connection's resolver stays the current one's, or goes with it.
LEMMA StepResolverInv == TypeOK /\ ResolverInv /\ [Next]_vars => ResolverInv'
<1> SUFFICES ASSUME TypeOK, ResolverInv, [Next]_vars PROVE ResolverInv'
  OBVIOUS
<1> USE DEF ResolverInv
<1>1. ASSUME NEW p \in Pages, NEW k \in Conns, Redial(p, k) PROVE ResolverInv'
  BY <1>1 DEF Redial
<1>2. ASSUME NEW p \in Pages, ReflectionResolver(p) PROVE ResolverInv'
  BY <1>2 DEF ReflectionResolver
<1>3. CASE UNCHANGED <<conn, resolver>>
  BY <1>3
<1>4. ASSUME NEW p \in Pages, PageStep(p), ~ReflectionResolver(p)
      PROVE  UNCHANGED <<conn, resolver>>
  BY <1>4 DEF PageStep, TakeStream, NoStream, Exchange, ErrorResponse, ExchangeFails,
     StoreTransport, GiveUp, connVars
<1> QED
  BY <1>1, <1>2, <1>3, <1>4 DEF Next, Opened, DialReuses, TargetRestarts, StreamsEnd, Reconnects, vars, connVars

\* A step on the fields of a fresh connection's resolver writes what PagesInv
\* says; a step that breaks or replaces the connection leaves nothing to say.
LEMMA StepClean ==
  IInv /\ [Next]_vars => FieldsInv' /\ PagesInv'
<1> SUFFICES ASSUME IInv, [Next]_vars PROVE FieldsInv' /\ PagesInv'
  OBVIOUS
<1> USE RedialAssumption DEF IInv, TypeOK, Fresh, FieldsInv, PagesInv
<1>1. ASSUME NEW p \in Pages, DialReuses(p) PROVE FieldsInv' /\ PagesInv'
  BY <1>1 DEF DialReuses, Goto, connVars, fieldVars
<1>2. ASSUME NEW p \in Pages, NEW k \in Conns, Redial(p, k) PROVE FieldsInv' /\ PagesInv'
  BY <1>2 DEF Redial, Goto
<1>3. ASSUME NEW p \in Pages, ReflectionResolver(p) PROVE FieldsInv' /\ PagesInv'
  BY <1>3 DEF ReflectionResolver, Goto, fieldVars
<1>4. ASSUME NEW p \in Pages, TakeStream(p) PROVE FieldsInv' /\ PagesInv'
  BY <1>4 DEF TakeStream, Goto, connVars, fieldVars
<1>5. ASSUME NEW p \in Pages, NoStream(p) \/ ExchangeFails(p) PROVE FieldsInv' /\ PagesInv'
  BY <1>5 DEF NoStream, ExchangeFails, Done, Goto, connVars, fieldVars
<1>6. ASSUME NEW p \in Pages, Exchange(p) PROVE FieldsInv' /\ PagesInv'
  BY <1>6 DEF Exchange, Goto, connVars, fieldVars
<1>7. ASSUME NEW p \in Pages, StoreTransport(p) PROVE FieldsInv' /\ PagesInv'
  BY <1>7 DEF StoreTransport, Done, Goto, connVars
<1>8. ASSUME NEW p \in Pages, GiveUp(p) PROVE FieldsInv' /\ PagesInv'
  BY <1>8 DEF GiveUp, Done, Goto, connVars
<1>9. CASE TargetRestarts
  BY <1>9 DEF TargetRestarts, StreamsDie
<1>10. CASE Reconnects
  BY <1>10 DEF Reconnects, fieldVars, pageVars
<1>11. CASE UNCHANGED vars
  BY <1>11 DEF vars, connVars, fieldVars, pageVars
<1>12. ASSUME NEW p \in Pages, ErrorResponse(p) PROVE FieldsInv' /\ PagesInv'
  <2>1. CASE /\ Goto(p, "exchange", "giveup") /\ UNCHANGED <<held, using, last>>
             /\ tainted' = [tainted EXCEPT ![held[p]] = TRUE]
    BY <1>12, <2>1 DEF ErrorResponse, Goto, fieldVars
  <2>2. CASE Done(p, "exchange", "notFound")
    BY <1>12, <2>2 DEF ErrorResponse, Done, Goto, fieldVars
  <2> QED
    BY <1>12, <2>1, <2>2 DEF ErrorResponse
<1>13. CASE StreamsEnd
  BY <1>13 DEF StreamsEnd, StreamsDie
<1> QED
  BY <1>1, <1>2, <1>3, <1>4, <1>5, <1>6, <1>7, <1>8, <1>9, <1>10, <1>11, <1>12, <1>13
     DEF Next, PageStep, Opened

LEMMA Invariance == Spec => []IInv
<1>1. IInv /\ [Next]_vars => IInv'
  BY StepTypeOK, StepResolverInv, StepClean DEF IInv
<1> QED
  BY InitIInv, <1>1, PTL DEF Spec

\* Every variable keeps its type, whatever pages and connections there are.
THEOREM TypeCorrect == Spec => []TypeOK
<1>1. IInv => TypeOK
  BY DEF IInv
<1> QED
  BY <1>1, Invariance, PTL

\* Until something happens to its own connection or streams, the handler's
\* resolver keeps no dead stream and no verdict that the target refutes, however
\* many pages are still at work with the resolvers of earlier connections.
THEOREM FreshAlwaysClean == Spec => []FreshIsClean
<1>1. IInv => FreshIsClean
  BY DEF IInv, TypeOK, ResolverInv, FieldsInv, Fresh, FreshIsClean
<1> QED
  BY <1>1, Invariance, PTL
=============================================================================
