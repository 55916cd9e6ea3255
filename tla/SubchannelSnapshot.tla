------------------------- MODULE SubchannelSnapshot -------------------------
(***************************************************************************)
(* What the cluster page expects of subchannelsByAddress(): ask about each *)
(* subchannel of the channel once, in any order; skip those that are gone  *)
(* by then; return the others by address, each list in increasing order.   *)
(***************************************************************************)
EXTENDS Naturals, Sequences, Functions

CONSTANTS
  Subchannels,  \* subchannel IDs, naturals
  Addresses,    \* the addresses (channelz targets) subchannels connect to
  NoAddr        \* of a subchannel nothing is known about

VARIABLES
  stage,        \* "start", "asking", "returned"
  pending,      \* subchannels not heard of yet
  found,        \* found[id]: the address id answered with, or NoAddr
  table         \* the result: a sequence of IDs for each address

vars == <<stage, pending, found, table>>

\* s lists the members of S once each, in increasing order.
Lists(s, S) ==
  /\ Range(s) = S
  /\ \A i, j \in DOMAIN s : i < j => s[i] < s[j]

Empty == [a \in Addresses |-> << >>]

Init ==
  /\ stage = "start"
  /\ pending = {}
  /\ found = [id \in Subchannels |-> NoAddr]
  /\ table = Empty

Begin ==
  /\ stage = "start"
  /\ stage' = "asking"
  /\ pending' \in SUBSET Subchannels
  /\ UNCHANGED <<found, table>>

\* The channel itself is gone.
NoChannel ==
  /\ stage = "start"
  /\ stage' = "returned"
  /\ UNCHANGED <<pending, found, table>>

Answer(id, a) ==
  /\ id \in pending
  /\ pending' = pending \ {id}
  /\ found' = [found EXCEPT ![id] = a]
  /\ UNCHANGED <<stage, table>>

Vanish(id) ==
  /\ id \in pending
  /\ pending' = pending \ {id}
  /\ UNCHANGED <<stage, found, table>>

Return ==
  /\ stage = "asking"
  /\ pending = {}
  /\ stage' = "returned"
  /\ DOMAIN table' = Addresses
  /\ \A a \in Addresses : Lists(table'[a], {id \in Subchannels : found[id] = a})
  /\ UNCHANGED <<pending, found>>

Next ==
  \/ Begin \/ NoChannel \/ Return
  \/ \E id \in Subchannels : Vanish(id) \/ \E a \in Addresses : Answer(id, a)

Spec == Init /\ [][Next]_vars
=============================================================================
