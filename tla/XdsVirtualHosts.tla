-------------------------- MODULE XdsVirtualHosts ---------------------------
(***************************************************************************)
(* The virtual-host pages of xds-vhost-page.go (getXdsVirtualHost): which  *)
(* VHDS resource of the CSDS dump a channel was dialed with, and what the  *)
(* page calls the others.                                                  *)
(*                                                                         *)
(* The page asks for the channel, for the dump and for the list of         *)
(* channels, one after the other; the program under inspection goes on     *)
(* meanwhile, so any answer may follow any other.  Maps are functions on   *)
(* the keys they have.                                                     *)
(***************************************************************************)
EXTENDS ChannelList, FiniteSetsExt

CONSTANTS
  Resources,  \* what parseXdsTarget() makes of xds: targets
  NoXds,      \* of a target that is none
  Names,      \* names of VHDS resources, raw resources among them
  Sidecar,    \* Sidecar[r]: the name vhdsResourceName() gives resource r
  Fields,     \* values of a VirtualHost's own name field
  Unmatched,  \* the name of no VHDS resource
  MaxID       \* a bound on channel IDs, for model checking

ASSUME VhostAssumption ==
  /\ Resources \subseteq Names /\ NoXds \notin Resources
  /\ Sidecar \in [Resources -> Names]
  /\ \A r, s \in Resources : Sidecar[r] = Sidecar[s] => r = s
  /\ Unmatched \notin Names
  /\ MaxID \in Nat

VARIABLES
  pc,        \* "idle", "channel", "csds", "list", "failed" or "shown"
  request,   \* the channel the page is about
  resource,  \* what its target resolves to
  vhosts,    \* the dump: the name field of each VHDS resource
  top,       \* the top-level channels when they were listed: their resources
  listed,    \* those in the response
  dialTime,  \* the VHDS resource the channel was dialed with, or Unmatched
  roles      \* the role the page gives each VHDS resource

vars == <<pc, request, resource, vhosts, top, listed, dialTime, roles>>

MapsTo(K, V) == UNION {[keys -> V] : keys \in SUBSET K}
IDs      == 1 .. MaxID
Dumps    == MapsTo(Names, Fields)
Channels == MapsTo(IDs, Resources \cup {NoXds})
Roles    == [kind : {"dial-time", "call-time"}] \cup [kind : {"dial-time-of-channel"}, id : IDs]

\* findVirtualHostForChannel(): the last resort ranges over a map, so any of
\* the name-field matches may win.
FindVirtualHostRawFirst(vh, r) ==     \* mutant: the raw resource first
  IF r \in DOMAIN vh THEN {r}
  ELSE IF Sidecar[r] \in DOMAIN vh THEN {Sidecar[r]}
  ELSE {n \in DOMAIN vh : vh[n] = r}

FindVirtualHost(vh, r) ==
  IF Sidecar[r] \in DOMAIN vh THEN {Sidecar[r]}
  ELSE IF r \in DOMAIN vh THEN {r}
  ELSE {n \in DOMAIN vh : vh[n] = r}

\* otherChannels: the other xds channels by the name they were dialed with;
\* the last in the list wins.
OtherXds(list, c) == {k \in DOMAIN list \ {c} : list[k] # NoXds}

OtherChannelsRaw(list, c) ==          \* mutant: the key is the raw resource
  [n \in {list[k] : k \in OtherXds(list, c)} |-> Max({k \in OtherXds(list, c) : list[k] = n})]

OtherChannels(list, c) ==
  [n \in {Sidecar[list[k]] : k \in OtherXds(list, c)} |->
     Max({k \in OtherXds(list, c) : Sidecar[list[k]] = n})]

Role(n, dialed, others) ==
  IF n = dialed THEN [kind |-> "dial-time"]
  ELSE IF n \in DOMAIN others THEN [kind |-> "dial-time-of-channel", id |-> others[n]]
  ELSE [kind |-> "call-time"]
-----------------------------------------------------------------------------
Init ==
  /\ pc = "idle" /\ request \in IDs /\ resource = NoXds
  /\ vhosts = << >> /\ top = << >> /\ listed = << >>
  /\ dialTime = Unmatched /\ roles = << >>

Request(c) ==
  /\ pc = "idle"
  /\ pc' = "channel"
  /\ request' = c
  /\ UNCHANGED <<resource, vhosts, top, listed, dialTime, roles>>

\* getChannel(): an xds channel ...
ChannelAnswered(r) ==
  /\ pc = "channel"
  /\ pc' = "csds"
  /\ resource' = r
  /\ UNCHANGED <<request, vhosts, top, listed, dialTime, roles>>

\* ... another one, none of that ID, or no answer: an error message.
ChannelUnusable ==
  /\ pc = "channel"
  /\ pc' = "failed"
  /\ UNCHANGED <<request, resource, vhosts, top, listed, dialTime, roles>>

\* fetchClientStatus(), and findVirtualHostForChannel() in what it returned.
CsdsAnswered ==
  /\ pc = "csds"
  /\ pc' = "list"
  /\ vhosts' \in Dumps
  /\ LET found == FindVirtualHost(vhosts', resource)
     IN  dialTime' \in IF found = {} THEN {Unmatched} ELSE found
  /\ UNCHANGED <<request, resource, top, listed, roles>>

CsdsFails ==
  /\ pc = "csds"
  /\ pc' = "failed"
  /\ UNCHANGED <<request, resource, vhosts, top, listed, dialTime, roles>>

\* The section of each VHDS resource, given the channels in the list.
ShowRoles(list) ==
  /\ pc' = "shown"
  /\ listed' = list
  /\ roles' = [n \in DOMAIN vhosts |-> Role(n, dialTime, OtherChannels(list, request))]
  /\ UNCHANGED <<request, resource, vhosts, dialTime>>

\* getTopChannels(0): its first page only ...
ChannelsListed ==
  /\ pc = "list"
  /\ top' \in Channels
  /\ ShowRoles([k \in Listed(DOMAIN top', 0) |-> top'[k]])

\* ... or nil, whose GetChannel() is empty.
ChannelsUnavailable ==
  /\ pc = "list"
  /\ top' \in Channels
  /\ ShowRoles(<< >>)

\* The page is written; nothing of it is kept.
Close ==
  /\ pc \in {"shown", "failed"}
  /\ pc' = "idle"
  /\ resource' = NoXds /\ vhosts' = << >> /\ top' = << >> /\ listed' = << >>
  /\ dialTime' = Unmatched /\ roles' = << >>
  /\ UNCHANGED request

Next ==
  \/ \E c \in IDs : Request(c)
  \/ \E r \in Resources : ChannelAnswered(r)
  \/ ChannelUnusable \/ CsdsAnswered \/ CsdsFails
  \/ ChannelsListed \/ ChannelsUnavailable \/ Close

Spec == Init /\ [][Next]_vars
-----------------------------------------------------------------------------
\* Every variable has its type.
TypeOK ==
  /\ pc \in {"idle", "channel", "csds", "list", "failed", "shown"}
  /\ request \in IDs
  /\ resource \in Resources \cup {NoXds}
  /\ vhosts \in Dumps
  /\ top \in Channels /\ listed \in Channels
  /\ dialTime \in Names \cup {Unmatched}
  /\ roles \in MapsTo(Names, Roles)

\* If the page says that a virtual host is the dial-time one of channel N, the
\* page of N says so too, for the same dump: the prefixed name that is looked
\* up here is what findVirtualHostForChannel() prefers there.
NamedChannelAgrees ==
  pc = "shown" => \A n \in DOMAIN roles : roles[n].kind = "dial-time-of-channel" =>
    /\ roles[n].id \in DOMAIN listed \ {request}
    /\ FindVirtualHost(vhosts, listed[roles[n].id]) = {n}

\* A virtual host is called call-time although it is the dial-time one on the
\* page of another channel in the list only if that page had to fall back on
\* the raw resource or the name field.
CallTimeUnlessFallback ==
  pc = "shown" => \A n \in DOMAIN roles, k \in DOMAIN listed \ {request} :
    roles[n].kind = "call-time" /\ listed[k] # NoXds /\ n \in FindVirtualHost(vhosts, listed[k])
    => Sidecar[listed[k]] \notin DOMAIN vhosts
=============================================================================
