----------------------------- MODULE LinkPaths ------------------------------
(***************************************************************************)
(* Paths, links and routes of the web UI: handler.go, routes.go, and how   *)
(* the command composes the address it prints.                             *)
(*                                                                         *)
(* A URL path is the sequence of what stands between its slashes after the *)
(* first one: /a/b is <<"a", "b">>, /a/b/ is <<"a", "b", "">>.  A prefix   *)
(* given by a user is raw, so /a is <<"", "a">>, and "a" is <<"a">>.       *)
(* Names in links are taken to need no escaping, except for slashes.       *)
(***************************************************************************)
EXTENDS Naturals, Sequences, SequencesExt, TLC

CONSTANTS MaxID, NoPage

IDs == 1 .. MaxID

\* path.Clean of a rooted path, and so path.Join.
Clean(path) ==
  LET Step(done, s) == CASE s \in {"", "."} -> done
                         [] s = ".." -> IF done = <<>> THEN done ELSE Front(done)
                         [] OTHER -> Append(done, s)
  IN  FoldLeft(Step, <<>>, path)

Rooted(raw) == Len(raw) > 1 /\ raw[1] = ""

\* The prefix CreateHandler mounts the routes at.  It ends in a slash.
HandlerPrefix(raw) == Append(Clean(Append(raw, "channelz")), "")

\* The address that the command prints: normalizePrefix(), "channelz/".
PrintedURL(raw) ==
  LET led == IF Rooted(raw) THEN Tail(raw) ELSE raw
  IN  (IF Last(led) = "" THEN Front(led) ELSE led) \o <<"channelz", "">>

-----------------------------------------------------------------------------
(* A page is what a Write...Page method is called with. *)

Page(view, id, name) == [view |-> view, id |-> id, name |-> name]
Nowhere == Page(NoPage, 0, <<>>)

IsInt(s) == \E n \in 0 .. MaxID : ToString(n) = s
ParseInt(s) == CHOOSE n \in 0 .. MaxID : ToString(n) = s

\* createRouter(): the handler method for a path below the prefix.  Without a
\* route that is chi's 404, with an ID that is no number an empty page.
Route(rest, query) ==
  LET n == Len(rest)
      Under(i) == n >= i /\ IsInt(rest[i])
  IN  CASE rest = <<"">> -> Page("top", 0, <<>>)
        [] rest = <<"channels">> /\ IsInt(query[1]) -> Page("channels", ParseInt(query[1]), <<>>)
        [] Under(2) /\ n = 2 /\ rest[1] \in {"channel", "subchannel", "server", "socket"} ->
             Page(rest[1], ParseInt(rest[2]), <<>>)
        [] Under(2) /\ n = 3 /\ rest[1] = "channel" /\ rest[3] = "pools" ->
             Page("pools", ParseInt(rest[2]), <<>>)
        [] Under(2) /\ n = 3 /\ rest[1] = "channel" /\ rest[3] = "pool" ->
             Page("pool", ParseInt(rest[2]), query)
        [] Under(3) /\ n = 3 /\ rest[1] = "xds" /\ rest[2] = "vhost" ->
             Page("vhosts", ParseInt(rest[3]), <<>>)
        [] Under(3) /\ n > 3 /\ rest[1] = "xds" /\ rest[2] \in {"vhost", "cluster"} ->
             Page(rest[2], ParseInt(rest[3]), SubSeq(rest, 4, n))
        [] OTHER -> Nowhere

\* chi's Mount: a pattern that ends in a slash serves nothing without it.
Mounted(prefix, path) == Len(path) >= Len(prefix) /\ IsPrefix(Front(prefix), path)
Below(prefix, path) == SubSeq(path, Len(prefix), Len(path))

HyperlinkUnrooted(prefix, parts) ==  \* mutant: without the prefix
  Clean(parts)

\* createHyperlink(): the parts after the prefix, joined.
Hyperlink(prefix, parts) == Clean(prefix \o parts)
=============================================================================
