----------------------------- MODULE Navigation -----------------------------
(***************************************************************************)
(* A reader finds the way through the UI by its links.  Handlers are       *)
(* created at their prefixes, each for a program of its own, whose         *)
(* channels, subchannels, sockets and servers come and go between the      *)
(* moment a page is written and the moment one of its links is followed.   *)
(*                                                                         *)
(* The templates are the operators ...Table: the links they write, for the *)
(* program as the page's RPCs found it.  A handler whose RPCs fail writes  *)
(* what it would write of a program that has nothing open.                 *)
(***************************************************************************)
EXTENDS LinkPaths, ChannelList, FiniteSetsExt

CONSTANTS
  Handlers,    \* calls of CreateHandler in this process
  RawPrefix,   \* its argument pathPrefix, for each
  Size,        \* a bound on the IDs given out in its program, for model checking
  VHosts,      \* names of the virtual hosts in a program's xDS dump
  Clusters,    \* and of the clusters its routes lead to
  AddressOf,   \* the address a subchannel with this ID targets
  NoLink

VARIABLES
  state,       \* "none", "serving" or "panicked", for each handler
  pathPrefix,  \* the package variable that all handlers write links with
  graph,       \* what is open in each handler's program, by ID
  lastID,      \* the last ID given out there
  reader       \* the page the reader has before him, and the link in hand;
               \* history: strayed is whether this link or one before led astray

navVars == <<state, pathPrefix, graph, lastID, reader>>

\* An entity: up is the one it belongs to, 0 for top channels and servers.
Entity(kind, up, traced, xds) == [kind |-> kind, up |-> up, traced |-> traced, xds |-> xds]
Nothing == [n \in {} |-> Entity("channel", 0, TRUE, FALSE)]

Children(g, n, kind) == {k \in DOMAIN g : g[k].up = n /\ g[k].kind = kind}
Open(g, kind, n) == n \in DOMAIN g /\ g[n].kind = kind

-----------------------------------------------------------------------------
(* The links on each page. *)

Link(parts, query, page) ==
  [path |-> Hyperlink(pathPrefix, parts), query |-> query, means |-> page, under |-> pathPrefix]

To(view, n) == Link(<<view, ToString(n)>>, <<"">>, Page(view, n, <<>>))
LinksTo(view, ids) == {To(view, n) : n \in ids}

NextLink(last) == Link(<<"channels">>, <<ToString(last)>>, Page("channels", last, <<>>))
VhostsLink(c) == Link(<<"xds", "vhost", ToString(c)>>, <<"">>, Page("vhosts", c, <<>>))
VhostLink(c, name) == Link(<<"xds", "vhost", ToString(c)>> \o name, <<"">>, Page("vhost", c, name))
ClusterLink(c, name) ==
  Link(<<"xds", "cluster", ToString(c)>> \o name, <<"">>, Page("cluster", c, name))
PoolsLink(c) == Link(<<"channel", ToString(c), "pools">>, <<"">>, Page("pools", c, <<>>))
PoolLink(c, addr, cluster) ==
  Link(<<"channel", ToString(c), "pool">>, <<addr>> \o cluster, Page("pool", c, <<addr>> \o cluster))

NextByCount(g, start) ==  \* mutant: the next page starts at the number of rows
  LET tops == Children(g, 0, "channel")
      listed == Listed(tops, start)
  IN  (UNION {{To("channel", c)} \cup LinksTo("channel", Children(g, c, "channel"))
                \cup LinksTo("socket", Children(g, c, "socket")) : c \in listed})
      \cup {NextLink(Cardinality(listed)) : c \in {c \in listed : ~Ended(tops, start)}}

\* A row ends the table where its channel has no trace: the template fails
\* on its timestamp, after the row's links and before the next row.
ChannelsTable(g, start) ==
  LET tops == Children(g, 0, "channel")
      listed == Listed(tops, start)
      rows == {c \in listed : \A d \in listed : d < c => g[d].traced}
  IN  (UNION {{To("channel", c)} \cup LinksTo("channel", Children(g, c, "channel"))
                \cup LinksTo("socket", Children(g, c, "socket")) : c \in rows})
      \cup {NextLink(c) : c \in {c \in listed : /\ ~Ended(tops, start)
                                                /\ c = Max(listed)
                                                /\ \A d \in listed : g[d].traced}}

ServersTable(g) ==
  LET listed == Listed(Children(g, 0, "server"), 0)
  IN  LinksTo("server", listed)
      \cup UNION {LinksTo("socket", Children(g, v, "socket")) : v \in listed}

ChannelTable(g, c) ==
  IF ~Open(g, "channel", c) THEN {}
  ELSE {VhostsLink(x) : x \in {x \in {c} : g[x].xds}}
       \cup LinksTo("subchannel", Children(g, c, "subchannel"))
       \cup LinksTo("channel", Children(g, c, "channel"))
       \cup LinksTo("socket", Children(g, c, "socket"))

SubchannelTableMixed(g, s) ==  \* mutant: subchannels linked as channels
  IF ~Open(g, "subchannel", s) THEN {}
  ELSE {To("subchannel", s)} \cup LinksTo("channel", Children(g, s, "subchannel"))

\* Here the timestamp comes before what belongs to the subchannel.
SubchannelTable(g, s) ==
  IF ~Open(g, "subchannel", s) THEN {}
  ELSE {To("subchannel", s)}
       \cup UNION {LinksTo(kind, Children(g, n, kind)) :
                     kind \in {"channel", "subchannel", "socket"}, n \in {n \in {s} : g[n].traced}}

ServerTable(g, v) == LinksTo("socket", Children(g, v, "socket"))

\* subchannelsByAddress()
Subchannels(g, c) == {s \in Children(g, c, "subchannel") : Open(g, "channel", c)}
Dialers(g, c) == {d \in Children(g, 0, "channel") \ {c} : g[d].xds}
OfXds(g, c) == {c} \cap {d \in DOMAIN g : Open(g, "channel", d) /\ g[d].xds}

VirtualHostsTable(g, c) ==
  {To("channel", c)}
  \cup UNION {{VhostLink(x, name) : name \in VHosts} \cup LinksTo("channel", Dialers(g, x)) :
                x \in OfXds(g, c)}

\* WriteXdsVirtualHostPage() picks the virtual host out of all of them.
VirtualHost(g, c, name) == {v \in VHosts : v = name /\ OfXds(g, c) # {}}

VirtualHostTable(g, c, name) ==
  {To("channel", c), VhostsLink(c)}
  \cup UNION {{ClusterLink(c, k) : k \in Clusters} \cup LinksTo("channel", Dialers(g, c)) :
                v \in VirtualHost(g, c, name)}

\* A subchannel may be in a pool or a row, or unmatched (XdsClusterJoin).
ClusterTable(g, c, name) ==
  {To("channel", c), PoolsLink(c)}
  \cup UNION {{PoolLink(c, AddressOf[s], name), To("subchannel", s)} :
                s \in {s \in Subchannels(g, c) : name \in Clusters}}

PoolsTable(g, c) ==
  {To("channel", c)}
  \cup UNION {{PoolLink(c, AddressOf[s], <<>>), To("subchannel", s)} : s \in Subchannels(g, c)}

PoolTable(g, c, addr) ==
  {To("channel", c), PoolsLink(c)}
  \cup UNION {{To("subchannel", s)} \cup LinksTo("socket", Children(g, s, "socket")) :
                s \in {s \in Subchannels(g, c) : AddressOf[s] = addr}}

Links(g, p) ==
  CASE p.view = "top" -> ChannelsTable(g, 0) \cup ServersTable(g)
    [] p.view = "channels" -> ChannelsTable(g, p.id)
    [] p.view = "channel" -> ChannelTable(g, p.id)
    [] p.view = "subchannel" -> SubchannelTable(g, p.id)
    [] p.view = "server" -> ServerTable(g, p.id)
    [] p.view = "vhosts" -> VirtualHostsTable(g, p.id)
    [] p.view = "vhost" -> VirtualHostTable(g, p.id, p.name)
    [] p.view = "cluster" -> ClusterTable(g, p.id, p.name)
    [] p.view = "pools" -> PoolsTable(g, p.id)
    [] p.view = "pool" -> PoolTable(g, p.id, p.name[1])
    [] OTHER -> {}   \* sockets link nowhere, nor does a 404

\* getChannel(), getSubchannel(), getServer(), getSocket(): not nil.
Answered(g, p) ==
  p.view \in {"channel", "subchannel", "server", "socket"} => Open(g, p.view, p.id)

-----------------------------------------------------------------------------
(* Handlers, programs and the reader. *)

Idle == [by |-> NoLink, page |-> Nowhere, data |-> "none", came |-> NoLink, next |-> NoLink,
         strayed |-> FALSE]

NavInit ==
  /\ state = [h \in Handlers |-> "none"]
  /\ pathPrefix = <<>>
  /\ graph = [h \in Handlers |-> Nothing]
  /\ lastID = [h \in Handlers |-> 0]
  /\ reader = Idle

\* CreateHandler() and createRouter().  chi panics on a pattern without a
\* slash at the front, after pathPrefix has been written.
CreateHandler(h) ==
  /\ state[h] = "none"
  /\ pathPrefix' = HandlerPrefix(RawPrefix[h])
  /\ state' = [state EXCEPT ![h] = IF Rooted(RawPrefix[h]) THEN "serving" ELSE "panicked"]
  /\ UNCHANGED <<graph, lastID, reader>>

Belongs(g, kind, up) ==
  \/ up = 0 /\ kind \in {"channel", "server"}
  \/ up \in DOMAIN g /\ g[up].kind \in {"channel", "subchannel"} /\ kind \in {"channel", "subchannel", "socket"}
  \/ up \in DOMAIN g /\ g[up].kind = "server" /\ kind = "socket"

OpenEntity(h, kind, up, traced, xds) ==
  /\ lastID[h] < Size[h]
  /\ Belongs(graph[h], kind, up)
  /\ xds => kind = "channel" /\ up = 0
  /\ ~traced => kind \in {"channel", "subchannel"}
  /\ lastID' = [lastID EXCEPT ![h] = @ + 1]
  /\ graph' = [graph EXCEPT ![h] = [n \in DOMAIN @ \cup {lastID[h] + 1} |->
                   IF n \in DOMAIN @ THEN @[n] ELSE Entity(kind, up, traced, xds)]]
  /\ UNCHANGED <<state, pathPrefix, reader>>

CloseEntity(h, n) ==
  /\ n \in DOMAIN graph[h] /\ \A k \in DOMAIN graph[h] : graph[h][k].up # n
  /\ graph' = [graph EXCEPT ![h] = [k \in DOMAIN @ \ {n} |-> @[k]]]
  /\ UNCHANGED <<state, pathPrefix, lastID, reader>>

ServedBy(path) ==
  {h \in Handlers : state[h] = "serving" /\ Mounted(HandlerPrefix(RawPrefix[h]), path)}

\* What can lead a reader astray: another handler created since this one, whose
\* prefix is then in this one's links; a name with slashes in a row; an address
\* typed in without the last slash, or of a prefix with slashes in a row.
Astray(came) ==
  \/ came.under # HandlerPrefix(RawPrefix[came.from])
  \/ Clean(came.means.name) # came.means.name
  \/ came.means.view = "top" /\ came.path # came.under

\* The request is routed, the page written, of what is open or, if its RPCs
\* fail, of nothing, and the reader picks one of its links.
Request(path, query, came, strayed) ==
  /\ \/ \E h \in ServedBy(path) :
          LET page == Route(Below(HandlerPrefix(RawPrefix[h]), path), query)
          IN  \E g \in {graph[h], Nothing} :
                \E next \in {NoLink} \cup Links(g, page) :
                  reader' = [by |-> h, page |-> page, came |-> came, next |-> next,
                             strayed |-> strayed,
                             data |-> CASE Answered(g, page) -> "shown"
                                        [] ~Answered(g, page) /\ g = graph[h] -> "gone"
                                        [] OTHER -> "failed"]
     \/ /\ ServedBy(path) = {}
        /\ reader' = [Idle EXCEPT !.came = came, !.data = "404", !.strayed = strayed]
  /\ UNCHANGED <<state, pathPrefix, graph, lastID>>

\* The address of the UI is typed in: as the command prints it, or as the
\* package's README gives it, the prefix and /channelz.
UIAddresses(h) == {PrintedURL(RawPrefix[h]), Append(Clean(RawPrefix[h]), "channelz")}

Came(path, query, h, page, under) ==
  [path |-> path, query |-> query, from |-> h, means |-> page, under |-> under]

Visit(h) ==
  /\ state[h] = "serving"
  /\ \E path \in UIAddresses(h) :
       LET came == Came(path, <<"">>, h, Page("top", 0, <<>>), HandlerPrefix(RawPrefix[h]))
       IN  Request(path, <<"">>, came, Astray(came))

Follow ==
  /\ reader.next # NoLink
  /\ LET l == reader.next
         came == Came(l.path, l.query, reader.by, l.means, l.under)
     IN  Request(l.path, l.query, came, reader.strayed \/ Astray(came))

ProgramMoves(h) ==
  \/ \E kind \in {"channel", "subchannel", "server", "socket"}, up \in 0 .. MaxID,
        traced, xds \in BOOLEAN : OpenEntity(h, kind, up, traced, xds)
  \/ \E n \in IDs : CloseEntity(h, n)

NavNext ==
  \/ \E h \in Handlers : CreateHandler(h) \/ ProgramMoves(h) \/ Visit(h)
  \/ Follow
NavSpec == NavInit /\ [][NavNext]_navVars
-----------------------------------------------------------------------------
(* Correctness *)

Followed == reader.data # "none"

\* A link opens the page it was written for, of the same program, and so does
\* the address of the UI, except exactly when something leads astray: what
\* createHyperlink() joins, createRouter() takes apart again, whatever is a path
\* parameter, a wildcard or in the query.
LeadsWhereItSays ==
  Followed =>
    (reader.by = reader.came.from /\ reader.page = reader.came.means) = ~Astray(reader.came)

\* A page that says it cannot get its data after its RPC was answered is that
\* of an entity which has been closed since the link was written: no
\* template links an entity to the page of another kind.  That is so as long as
\* nothing has led the reader astray: the page of another program's channel
\* still writes links with that channel's ID.
GoneIsClosed ==
  Followed /\ reader.data = "gone" /\ ~reader.strayed =>
    reader.came.means.id \notin DOMAIN graph[reader.came.from]
=============================================================================
