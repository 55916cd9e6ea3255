---------------------------- MODULE ChannelPages ----------------------------
(***************************************************************************)
(* Going through all channels page by page: the list of channels-page.go,  *)
(* which links to the page that starts at the last channel shown, while    *)
(* the program under inspection opens and closes channels.                 *)
(*                                                                         *)
(* The handler keeps nothing between two pages: what the reader has seen   *)
(* and which channels were there all along are history.                    *)
(***************************************************************************)
EXTENDS ChannelList, FiniteSetsExt

CONSTANTS
  MaxChannelID,   \* a bound on the IDs given out, for model checking
  Untraced        \* IDs whose channels the target sends without a trace

ASSUME MaxChannelIDAssumption == MaxChannelID \in Nat

VARIABLES
  channels,  \* the IDs of the channels that are open
  nextID,    \* every ID given out is below it
  pc,        \* "idle", "requested", "unavailable" or "shown"
  start,     \* the parameter of the page requested
  page,      \* the channels whose rows are on it
  link,      \* whether it has a link to the next page
  seen,      \* history: channels on any page since the reader started
  stayed     \* history: channels that have been open all that time

readerVars == <<pc, start, page, link>>
vars == <<channels, nextID, pc, start, page, link, seen, stayed>>

Init ==
  /\ channels \in SUBSET (1 .. MaxChannelID - 1)
  /\ nextID \in 1 .. MaxChannelID /\ \A k \in channels : k < nextID
  /\ pc = "idle" /\ start = 0 /\ page = {} /\ link = FALSE
  /\ seen = {} /\ stayed = {}

\* Sockets, servers and subchannels take IDs from the same sequence.
OpenChannel(k) ==
  /\ k >= nextID
  /\ channels' = channels \cup {k}
  /\ nextID' = k + 1
  /\ UNCHANGED <<readerVars, seen, stayed>>

CloseChannel(k) ==
  /\ k \in channels
  /\ channels' = channels \ {k}
  /\ stayed' = stayed \ {k}
  /\ UNCHANGED <<nextID, readerVars, seen>>

\* WriteTopChannelsPage() lists from 0.
TopChannelsPage ==
  /\ pc \in {"idle", "shown"}
  /\ pc' = "requested"
  /\ start' = 0 /\ page' = {} /\ link' = FALSE
  /\ seen' = {} /\ stayed' = channels
  /\ UNCHANGED <<channels, nextID>>

\* The rows the template writes: it fails on a channel without a trace, in its
\* row, and writes nothing after it.
RowsWritten(ids, from) ==
  {k \in Listed(ids, from) : \A j \in Listed(ids, from) \cap Untraced : k <= j}

Cut(ids, from) == Listed(ids, from) \cap Untraced # {}

\* getTopChannels() is answered and the page written, with its link if the
\* template gets that far and there are more channels.
WriteChannels ==
  /\ pc = "requested"
  /\ pc' = "shown"
  /\ page' = RowsWritten(channels, start)
  /\ link' = (~Cut(channels, start) /\ ~Ended(channels, start))
  /\ seen' = seen \cup page'
  /\ UNCHANGED <<channels, nextID, start, stayed>>

WriteEmptyPage ==            \* mutant: no look at whether data is nil
  /\ pc = "requested"
  /\ pc' = "shown"
  /\ page' = {} /\ link' = FALSE
  /\ UNCHANGED <<channels, nextID, start, seen, stayed>>

\* No connection, or no answer: writeUnavailable().
WriteUnavailable ==
  /\ pc = "requested"
  /\ pc' = "unavailable"
  /\ page' = {} /\ link' = FALSE
  /\ UNCHANGED <<channels, nextID, start, seen, stayed>>

\* "reload this page": the same start.
Reload ==
  /\ pc \in {"unavailable", "shown"}
  /\ pc' = "requested"
  /\ page' = {} /\ link' = FALSE
  /\ UNCHANGED <<channels, nextID, start, seen, stayed>>

NextFromFirst ==             \* mutant: $last never assigned in the range
  /\ pc = "shown" /\ link
  /\ pc' = "requested"
  /\ start' = Min(page)
  /\ page' = {} /\ link' = FALSE
  /\ UNCHANGED <<channels, nextID, seen, stayed>>

\* The link to the next page, ?start= the ID of the last channel shown.
FollowNext ==
  /\ pc = "shown" /\ link
  /\ pc' = "requested"
  /\ start' = Max(page)
  /\ page' = {} /\ link' = FALSE
  /\ UNCHANGED <<channels, nextID, seen, stayed>>

Next ==
  \/ \E k \in 1 .. MaxChannelID : OpenChannel(k) \/ CloseChannel(k)
  \/ TopChannelsPage \/ WriteChannels \/ WriteUnavailable \/ Reload \/ FollowNext

Spec == Init /\ [][Next]_vars
-----------------------------------------------------------------------------
\* Every variable has its type.
TypeOK ==
  /\ channels \subseteq 1 .. MaxChannelID
  /\ nextID \in 1 .. MaxChannelID + 1
  /\ pc \in {"idle", "requested", "unavailable", "shown"}
  /\ start \in 0 .. MaxChannelID
  /\ page \subseteq 1 .. MaxChannelID
  /\ link \in BOOLEAN
  /\ seen \subseteq 1 .. MaxChannelID
  /\ stayed \subseteq channels

\* Whoever follows the links leaves no channel behind that was open all the
\* time, although others, among them the one the next page starts at, were
\* closed in between, and pages were reloaded, failed or were cut off; on a page
\* without a link, he has seen all of them.  The exception is a page that ends
\* with a channel without a trace: it has no link either, and passes for the
\* last one, whatever comes after it.
NoChannelMissed ==
  /\ \A k \in stayed : k < start => k \in seen
  /\ pc = "shown" /\ ~link /\ page \cap Untraced = {} => stayed \subseteq seen

\* Each link leads on, by as many channels as a page has beside the one that is
\* repeated: there is no page from which the reader comes back to it.
NextAdvances == [][FollowNext => start' >= start + PageSize - 1]_vars
=============================================================================
