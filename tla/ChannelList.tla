----------------------------- MODULE ChannelList ----------------------------
(***************************************************************************)
(* What the pages that list top-level channels know of the channelz        *)
(* service's GetTopChannels: it lists channels by increasing ID, from a    *)
(* start ID on, and no more than a page of them.                           *)
(***************************************************************************)
EXTENDS FiniteSets, Naturals

CONSTANT PageSize   \* channels in a response, 50 in grpc-go

ASSUME PageAssumption == PageSize \in Nat \ {0, 1}

From(ids, start) == {k \in ids : start <= k}

\* The channels in the response, and whether it says that they are the last.
Listed(ids, start) ==
  {k \in From(ids, start) : Cardinality({j \in From(ids, start) : j <= k}) <= PageSize}
Ended(ids, start) == Listed(ids, start) = From(ids, start)
=============================================================================
