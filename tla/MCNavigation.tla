---------------------------- MODULE MCNavigation ----------------------------
(***************************************************************************)
(* A small instance of Navigation for TLC.                                 *)
(***************************************************************************)
EXTENDS Navigation

\* The second handler's program is there to be led to.
RawPrefixes == "foo" :> <<"", "foo">> @@ "bar" :> <<"", "", "bar">> @@ "bare" :> <<"bare">>
Sizes == "foo" :> 4 @@ "bar" :> 1 @@ "bare" :> 0

\* Beside the second handler a smaller program will do, beside the third, the
\* second program, or of a reader led astray one entity; and of entities without
\* a trace one at a time.
SmallPrograms ==
  /\ lastID["foo"] < 3 \/ state["bar"] = "none"
  /\ lastID["foo"] < 2 \/ (state["bare"] = "none" /\ lastID["bar"] = 0 /\ ~reader.strayed)
  /\ \A m, n \in DOMAIN graph["foo"] : m = n \/ graph["foo"][m].traced \/ graph["foo"][n].traced

SomeVHosts == {<<"sidecar", "http2", "users:443">>, <<"xdstp:", "", "users">>}
SomeClusters == {<<"users">>}
TwoAddresses == [n \in IDs |-> IF n % 2 = 0 THEN "10.0.0.1:80" ELSE "10.0.0.2:80"]

RECURSIVE Reached(_, _)
Reached(h, pages) ==
  LET prefix == HandlerPrefix(RawPrefix[h])
      more == UNION {{Route(Below(prefix, l.path), l.query) :
                        l \in {l \in Links(graph[h], p) : Mounted(prefix, l.path)}} : p \in pages}
  IN  IF more \subseteq pages THEN pages ELSE Reached(h, pages \cup more)

RECURSIVE Above(_, _)
Above(g, n) == {n} \cup IF g[n].up = 0 THEN {} ELSE Above(g, g[n].up)

\* What the pages do not list: servers beyond the first page, rows after a
\* channel without a trace, and what belongs to a subchannel without one.
Unlisted(g, n) ==
  \E k \in Above(g, n) :
    \/ k \in Children(g, 0, "server") \ Listed(Children(g, 0, "server"), 0)
    \/ k \in Children(g, 0, "channel") /\ \E d \in Children(g, 0, "channel") : d < k /\ ~g[d].traced
    \/ k # n /\ g[k].kind = "subchannel" /\ ~g[k].traced

\* All else that is open is a few links away from the top page.  (Programs
\* move on whatever the reader does, so it is enough to look while he is idle.)
AllReachable ==
  reader = Idle =>
    \A h \in {h \in Handlers : state[h] = "serving" /\ pathPrefix = HandlerPrefix(RawPrefix[h])} :
      LET found == Reached(h, {Page("top", 0, <<>>)})
      IN  \A n \in DOMAIN graph[h] :
            Unlisted(graph[h], n) \/ Page(graph[h][n].kind, n, <<>>) \in found
=============================================================================
