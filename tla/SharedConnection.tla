-------------------------- MODULE SharedConnection --------------------------
(***************************************************************************)
(* What the channelz handler promises about its lazily dialed gRPC         *)
(* connection, free of locks, retries and fields.                          *)
(*                                                                         *)
(* At every instant there is at most one open connection.  A page request  *)
(* that asks for a stub (or for a reflection resolver) is given one bound  *)
(* to the connection that is current at that very instant; it may go on    *)
(* using it after the connection has been retired.  A connection is closed *)
(* in the same step in which it stops being current.                       *)
(***************************************************************************)
CONSTANTS
  Callers,   \* goroutines that serve pages
  Conns,     \* identities of gRPC connections
  Nil        \* no connection

VARIABLES
  current,   \* the connection every new request shares, or Nil
  open,      \* the connections that have been dialed and not closed
  given      \* given[c]: the connection caller c's stub is bound to, or Nil

vars == <<current, open, given>>

Init ==
  /\ current = Nil
  /\ open = {}
  /\ given = [c \in Callers |-> Nil]

\* A connection is dialed only when there is none, under an identity that no
\* caller still refers to.
Open(k) ==
  /\ current = Nil
  /\ \A c \in Callers : given[c] # k
  /\ current' = k
  /\ open' = open \cup {k}
  /\ UNCHANGED given

\* The current connection is given up, and closed.
Retire ==
  /\ current # Nil
  /\ current' = Nil
  /\ open' = open \ {current}
  /\ UNCHANGED given

\* Caller c obtains a stub.
Take(c) ==
  /\ current # Nil
  /\ given[c] = Nil
  /\ given' = [given EXCEPT ![c] = current]
  /\ UNCHANGED <<current, open>>

\* Caller c is done with its stub.
Return(c) ==
  /\ given' = [given EXCEPT ![c] = Nil]
  /\ UNCHANGED <<current, open>>

Next ==
  \/ \E k \in Conns : Open(k)
  \/ Retire
  \/ \E c \in Callers : Take(c) \/ Return(c)

Spec == Init /\ [][Next]_vars
=============================================================================
