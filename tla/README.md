# A specification of go-grpc-channelz

go-grpc-channelz is an HTTP handler that shows the channelz data of a gRPC
program: its channels, subchannels, sockets and servers, and, for programs
configured over xDS, their clusters, endpoints, virtual hosts and
load-balancing pools. It asks the program over gRPC (the channelz service, the
client status discovery service CSDS, and server reflection) whenever a page is
requested. Between two pages it keeps very little: one connection with what
was derived from it. What is hard about it is therefore that many page requests
share that connection at once, and that each page puts together the answers of
several RPCs which a running program gives at different moments.

This directory holds TLA+ modules for those parts, configurations with which
TLC checks them on small instances, and proofs that TLAPS checks for every
value of the constants. `PROJECT.json` maps each definition to the lines it
models, lists the runs and, for every property of a passing run, a mutant of
the code that violates it.

- [1. The system](#1-the-system)
- [2. The modules](#2-the-modules)
- [3. What is checked](#3-what-is-checked)
- [4. What is proved](#4-what-is-proved)
- [5. What the checks found](#5-what-the-checks-found)
- [6. What is not modelled](#6-what-is-not-modelled)
- [7. Plan](#7-plan)

## 1. The system

| Component | State | Operations | Source |
|---|---|---|---|
| Shared connection and stubs | `conn`, `client`, `csdsClient`, `reflResolver`, under `h.mu` | `connect`, `connectCSDS`, `injectedClient`, `dial`, `reflectionResolver` | client.go, handler.go |
| Reflection stream | `transport`, `unusable`, under `r.mu`; a stream under `t.mu` | `call`, `roundTrip` | xds_reflection_resolver.go 41-139 |
| Descriptor registry | `files`, `types`, under `r.mu` | `resolveMessageType`, `registerFileDescriptors`, `registerFileDescriptor`, `registerMessageTypes`, `FindMessageByURL` | xds_reflection_resolver.go 141-269 |
| Subchannel fan-out | two Go channels, a worker pool, the collected tables, for one page | `subchannelsByAddress` | xds-cluster-page.go 363-438 |
| xDS cluster page | two answers and their join, for one page | `getXdsCluster` | xds-cluster-page.go, xds.go |
| Load-balancing pool page | one answer, for one page | `writeSubchannelPools`, `writeSubchannelPool` | pool-page.go |
| xDS virtual host pages | three answers, for one page | `getXdsVirtualHost`, `findVirtualHostForChannel` | xds-vhost-page.go, xds.go |
| CSDS client | none | `fetchClientStatus`, `newXdsResources`, `parseXdsTarget` | xds.go |
| Channelz entity pages | none; `?start=` in the links | `getTopChannels`, `getChannel`, `getSubchannel`, `getServers`, `getSocket` and their templates | channel(s)-page.go, top-channels-page.go, sub-channel-page.go, server(s)-page.go, socket-page.go |
| Routing and links | the package variable `pathPrefix` | `createRouter`, `createHyperlink` | routes.go, templates.go |
| Command | - | the prefix and the address it prints (`normalizePrefix`) | cmd/ |
| Demo, generated code | - | - | internal/, channelz.go |

**How they interact.** `net/http` runs every page in a goroutine of its own. A
page gets a stub from `connect()` or `connectCSDS()`, and makes its RPCs with it
after `h.mu` has been let go. The cluster page starts two goroutines (the dump
and the subchannels), the second of which starts up to 32 workers and a closing
goroutine. A page that renders `Any` payloads of the dump asks the shared
reflection resolver for types that are not compiled in; the registry asks the
stream, over `call()`. When `dial()` finds the connection broken it closes it
under the feet of whoever still uses a stub, a stream or a resolver of it.

**What is hard, and what makes each part right.** `PROJECT.json` lists each
hazard at its line. In short:

- *Shared connection.* The mutex is taken three times in `connect()`, and other
  pages may redial in between; the state of the connection is read once and may
  be out of date when it is acted upon; `dial()` resets four fields and sets
  three. Right means: stubs, connection and resolver belong together at every
  instant the mutex is free; no connection is leaked; only connections that did
  fail are closed; no error means a stub; an injected stub is left alone; nobody
  waits for ever; the UI recovers without waiting for gRPC's backoff.
- *Reflection stream.* A response names no request, so exchanges must not
  overlap; the stream may end at any moment; two first callers both find none.
  Right means: each caller gets what it asked for; the stream's mutex is let go
  on every way out; only an answer of Unimplemented disables the resolver; a
  broken stream is replaced.
- *Descriptor registry.* Look-ups, fetches and the registration are separate
  critical sections, other pages register the same files in between, replies
  leave out files sent before, a range loop is extended while it runs. Right
  means: the recursion has the descriptors of the files it works on, and their
  imports when it registers them; no page makes another one's resolution
  fail; a type that is found is complete; the recursion descends and ends.
- *Fan-out.* A send on a closed Go channel panics, a forgotten close hangs, a
  small buffer deadlocks; subchannels vanish between two RPCs. Right means: it
  returns, with each surviving subchannel once, in order, as a sequential loop
  would, and leaves no goroutine behind.
- *Cluster and pool pages.* Attribution goes by address for EDS, by port as well
  for DNS clusters, with `""` and `0` for what is unknown; dump and subchannels
  are of different moments. Right means: the endpoint table, the pools, the list
  of unmatched subchannels, the pool page and the other clusters' pages tell
  one story.
- *Virtual hosts.* A channel's virtual host is looked up by three rules, other
  channels' by one; the list of channels is one page long and may be missing.
  Right means: the pages of two channels agree on who dialed what.
- *Reflection across redials.* A broken stream and the verdict that a target has
  no reflection are kept until the next redial, while pages still work with
  resolvers of connections that are gone. Right means: a fresh connection's
  resolver knows only of its own target, and a redial heals.
- *Links.* Names and IDs become paths, are joined and cleaned under a prefix that
  all handlers share, and taken apart again by the router, for a program that
  has changed meanwhile. Right means: a link opens the page it was written for,
  and everything listed can be reached.
- *Channel list.* The next page starts at the last ID shown, although channels
  come and go, and a page may end in its middle. Right means: none that stays is
  left behind, and every link leads on.

## 2. The modules

```
SharedConnection     <--refines--  ChannelzConn   <- MCChannelzConn, ChannelzConn_proofs
SubchannelSnapshot   <--refines--  SubchannelFanout  <- MCSubchannelFanout, SubchannelFanout_proofs
                                   ReflectionStream  <- MCReflectionStream, ReflectionStream_proofs
                                   DescriptorRegistry <- MCDescriptorRegistry, DescriptorRegistry_proofs
                                   ReflectionRedial  <- ReflectionRedial_proofs
LbPolicy             <--extends--  XdsClusterJoin    <- MCXdsClusterJoin, XdsClusterJoin_proofs
                                   PoolPages         <- Pages_proofs
ChannelList          <--extends--  ChannelPages      <- Pages_proofs
                     <--extends--  XdsVirtualHosts   <- MCXdsVirtualHosts, XdsVirtualHosts_proofs
ChannelList, LinkPaths  <-extends- Navigation        <- MCNavigation, Pages_proofs
```

MC modules hold constants for TLC only (MCNavigation also `AllReachable`, which
needs RECURSIVE operators), `_proofs` modules theorems only. Pages_proofs is about
three modules that share no state and keep their names apart. The
mutated operators sit before the ones they stand in for, marked "mutant"; no
specification uses them.

**ChannelzConn** - client.go. The handler's four fields are variables; a stub
or resolver is named by the connection it was made from. `mu` is the caller that
keeps `h.mu` across steps, which only `dial()` does: `DialInspect` takes it,
`DialTeardown` closes and resets, `DialReturns` or `DialFails` lets go. Critical
sections that contain nothing slow (`InjectedClient`, `Fetch`,
`ReflectionResolver`) are one step guarded by `mu = Nil`. `connState` is
grpc-go's connectivity state of each connection, which moves on its own
(`ConnStateChanges`), also while `dial()` holds the mutex. `dialOpts` says
whether `grpc.Dial` may fail, which it does only with options such as
`WithBlock`. A method call on a nil stub is the step `RpcPanics`. Which address is
dialed does not matter to any property. `failed` is history.

**SharedConnection** - the same without locks and fields: there is at most one
open connection, a stub belongs to the connection that is current when it is
taken, retiring closes.

**ReflectionStream** - `call()` and `roundTrip()`. `transport` and `unusable`
are the resolver's fields, `tmu[s]` the mutex of stream `s`, held from
`LockStream` to the end of Recv. The target, on the other end, answers requests
in order, or ends the stream if it lacks the service; a stream may be lost in
any state. A response is the symbol it answers: with descriptors for a symbol in
`Known`, with an error response for any other. The code of that response becomes
the status of `call()`'s error; it is Unimplemented for the symbols in `Refused`,
which makes `call()` give up, and anything else for the rest. `refused` is
history. One resolver is modelled, for the life of one connection.

**ReflectionRedial** - what spans both: the resolvers of successive connections,
pages that took the resolver of a connection which has since been replaced, and
a target that restarts, with or without reflection. `dial()` and the exchange on
a stream are one step each, so the module is smaller than a product of
ChannelzConn and ReflectionStream would be; a resolver goes by the connection it
was made from, and a stream is `"live"` until its transport is lost
(`TargetRestarts`) or the target ends it alone (`StreamsEnd`, any of the streams,
in hand or stored). A live stream answers with descriptors, with the lack of the
service (`Exchange`), or with an error response of any code (`ErrorResponse`).
grpc-go may reconnect by itself (`Reconnects`) before a page finds the connection
broken. `tainted` is history: what has happened to a connection since it was
dialed that its resolver may remember wrongly.

**DescriptorRegistry** - what becomes of the replies. The recursion of
`registerFileDescriptor` is a stack of frames; `batch` is the map of files
received and `visit` what the range over it is still going to produce: Go leaves
open whether entries added meanwhile are visited, so `DepServed` does, too. A
reply to a file is the file with any part of what it needs. `call()` is
atomic here (ReflectionStream is its inside) and may fail, or be answered with
something useless, a descriptor that does not parse or files without the one
asked for: `CallFails` is all of these, since the code does the same in each.

**SubchannelFanout** - `subchannelsByAddress()`, with every operation on a Go
channel, every RPC and the WaitGroup as steps. `in` and `out` are kept whole,
with counters for how far they were sent and received, which keeps the order
visible. `Sorted` is `sort.Slice()` by what it does: a permutation after which
the IDs ascend. **SubchannelSnapshot** is what the page expects of it: ask about
each subchannel once, skip those that are gone, return sorted lists.

**XdsClusterJoin** - `getXdsCluster()` and the members of `writeSubchannelPool()`.
The dump is a function from names to resources (a CDS resource is an EDS cluster
with its service name, or a DNS one with inline endpoints); a resource that does
not unmarshal is not in its domain. `Matched`, `Rows`, `Unmatched` and `Pools`
are the four loops of the function, as sets. Addresses are host:port strings;
`Port` says what `portFromHostPort` makes of them, 0 for none, `PortValue` the
number an endpoint carries. An IPv6 endpoint and a subchannel to it have
different addresses: gRPC writes brackets around the host, which
`formatSocketAddress()` leaves out.

**LbPolicy** - `formatLbPolicy()` and `describeLbPolicy()`: pure functions, of a
policy as the sequence of what wraps what. `describeLbPolicy`'s recursion is a
recursive function of the depth, written as the CHOOSE that it stands for
because tlapm 1.4.5 misreads recursive functions of a module it extends.

**XdsVirtualHosts** - `getXdsVirtualHost()`: the channel, the dump, the list, in
this order, each of its own moment. `FindVirtualHost` is a set, because the last
rule ranges over a Go map and any match may win. `Sidecar` is
`vhdsResourceName()`, an injection because it only puts a prefix before the name.

**PoolPages** - the list of pools and the page of one pool, each of its own
moment, and the dump the latter asks for afterwards. `Found` is what
`subchannelsByAddress()` may return of the open subchannels: any part of them, as
each has an RPC of its own that may fail. `Lists` is the set of all
orders that Go's map iteration and the unstable sort may leave; `Options` are the
ways in which a cluster may configure its HTTP/2 limit. `Sorted` puts each ID where
the count of the lower ones says. `read`, `fetched` and `of` are history: what the
page was made of.

**ChannelList** - the part of the channelz service both pages rely on: by
increasing ID, from a start, at most a page, and whether that was all.

**ChannelPages** - the channel list as a reader walks it, while the program
opens and closes channels (`OpenChannel`, `CloseChannel`), pages fail
(`WriteUnavailable`) and are reloaded. Channels in `Untraced` come without a
trace; the template fails on the first of them, so that a page has the rows up to
that one and no link (`RowsWritten`, `Cut`). `seen` and `stayed` are history.

**LinkPaths** - paths as sequences of what stands between the slashes:
`path.Join`'s cleaning, the handler's prefix, `createHyperlink`, the router's
patterns, and the address the command prints.

**Navigation** - a reader who follows links. Handlers are created at any time
(`CreateHandler` writes the package variable `pathPrefix`, and panics inside chi
if the pattern has no slash in front), each for a program whose entities come
and go. The `...Table` operators are the templates of all pages: the links they
write, in terms of what the page's RPCs found; `Route` is the table of
`createRouter()`. `Request` routes a path, writes the page, and leaves the reader
with one of its links in hand. A page's answer may be the entity, nothing
because it has been closed, or nothing because the RPC failed, which look the
same. A link carries what it was written for (`means`) and under which prefix,
so that the properties can say where it ought to lead; `strayed` is history:
whether a link has ever led this reader astray.

## 3. What is checked

| Run | States | What it shows |
|---|---|---|
| conn | 56 162 | stubs and resolver match the connection, nothing is leaked, only failed connections are closed, no nil stub, injected stubs stay; ChannelzConn implements SharedConnection; `connect()` returns; a failed connection is replaced without backoff |
| fanout | 19 710 | no panic, no blocked worker, each subchannel once, implements SubchannelSnapshot, ends |
| reflection | 24 618 | responses are not mixed up; the stream's mutex is always let go; given up only after an answer of Unimplemented |
| reflection_reuse, reflection_lost | violations | see section 5 |
| reflection_redial | 248 903 | a fresh connection's resolver is untouched by pages that still use an old one; a redial heals |
| registry | 220 597 | what is registered has its imports and a free path, the recursion has the descriptors it needs, descends and ends; no mutual failure |
| cluster_join | 551 664 | rows, pools, pool pages, unmatched lists and the other clusters' pages agree; no subchannel is on none of them; the policy shown is the real one |
| channel_pages | 7 827 | no channel left behind, the last page is the last one unless it was cut off, each link leads on |
| vhosts | 62 613 | roles agree between the pages of channels |
| navigation | 319 931 | a link opens the page it was written for, except exactly where `Astray` says; "unavailable" means closed; all that is listed can be reached |
| pool_pages | 2 716 983 | the list has one order, the limit shown is the configured one |

The modules whose runs check no `TypeOK` have it proved (section 4), except
Navigation, which states none.

**Bounds.**

- *conn*: two callers, two connections, without symmetry, as liveness requires.
  Each race here is between a caller that redials and one that still holds the
  old stub. An identity is used again once nothing refers to it, so the number
  of redials is not bounded; when no identity is free dialing waits for a caller
  to finish, which is why there are as many as callers. The safety properties
  and the refinement are proved for any number of both (section 4). Handlers as
  `CreateHandler` makes them, and with an injected `client` as the repository's
  tests do.
- *fanout*: any list of up to three of three subchannels, two workers. So there
  are lists shorter than the pool (zero workers for the empty one), equal to it,
  and longer, where a worker comes back for another ID.
- *reflection*: two callers, three streams, a symbol the target has, one it lacks
  and one it refuses with Unimplemented. Two callers hold two streams and the resolver stores a third. One
  caller is enough for *reflection_lost*.
- *reflection_redial*: two pages, three connections: the current one, and one
  for each page to be left behind with. Identities are used again, and restarts
  are not bounded.
- *registry*: a file that imports a second one both directly and through a
  third: the smallest graph where an import is registered by the recursion
  before it is its turn; two types in two files, two callers that start
  anywhere, any partial replies and failures.
- *cluster_join*: two clusters, EDS or DNS, two EDS resources, six addresses
  (none; one of its own; an IPv6 endpoint, as the dump and as gRPC writes it;
  two that share a port, one of them only inline in a DNS cluster), three
  subchannels that may share addresses. A violation needs one subchannel and two
  clusters; three subchannels make a pool of two beside another. Policies have
  up to `MaxWrappers` = 7 wrappers, two beyond the limit.
- *navigation*: three handlers: one with up to four entities (`Size`), which is
  enough for a second page of channels whose first one has been closed, and for
  a socket below a subchannel below a channel beside a server; one whose raw
  prefix has two slashes in a row, with one entity, which is enough for a reader
  led there to meet another program's IDs; and one whose prefix has none in front,
  with an empty program. Beside these the first program has up to three
  entities, and one entity at a time has no trace (`SmallPrograms`, a state
  constraint). One virtual host name is
  plain, one (`xdstp://users`) has slashes in a row.
- *pool_pages*: three subchannels and two addresses, so that pools tie and
  differ in size, and any of them may be missing from an answer; two limits, so that the extension's and the deprecated one
  differ.
- *channel_pages*: `PageSize` 2 and IDs up to `MaxChannelID` = 5, so that a walk
  has up to four pages and the channel a page starts at may be gone by then.
  Channel 3 has no trace: a page may be cut at its first row or at its last, or,
  while 3 is not open, at none.
  `MaxChannelID` is the only bound on a counter; the proofs are for any.
- *vhosts*: two targets, each with its prefixed and its raw name, three
  channels and a page of two, so that the list may be incomplete.

**Deadlock** is checked in every run: no module stops, except that the fan-out
ends in `Done`. A panicked page goroutine is left where it is; the others go on.
That is so where `net/http` recovers the panic; in a goroutine that the cluster
page has started (xds-cluster-page.go:190, 395) a nil stub would end the program.
No property depends on the difference.

**Fairness**, and why the code justifies it:

- *ChannelzConn*: strong fairness for the three critical sections of a call,
  because `sync.Mutex` goes into starvation mode and hands itself to whoever has
  waited for a millisecond; weak fairness for what the holder does, because
  goroutines run and `grpc.Dial` returns. Nothing is assumed of RPCs, which run
  under `context.Background()`, of the server, or of grpc-go's reconnection
  attempts: `RecoversWithoutBackoff` shows that those are not needed.
- *SubchannelFanout*: goroutines run, and each RPC ends. The latter is not the
  code's doing (it sets no deadline): `PageReturns` says that the
  pool adds no way of hanging of its own.
- *ReflectionStream*: a mutex reaches its waiters and a target answers on a
  stream that stays open; `ReflectionRecovers` is refuted even so.
- *ReflectionRedial*: goroutines run, and an exchange ends. Nothing is assumed of
  readers, of the target and of grpc-go: `RedialHeals` is about readers who keep
  loading a page of a target that stays up and reflects.
- *DescriptorRegistry*: goroutines run, and `call()` ends, with success or
  failure.

## 4. What is proved

TLAPS checks the following for every value of the constants, under the named
assumptions of the modules (`ConnAssumption`, `JoinAssumption`,
`VhostAssumption`, `PageAssumption`, `MaxChannelIDAssumption`, `RedialAssumption`,
`ReflectionAssumption`, `RegistryAssumption`, `FanoutAssumption`,
`PolicyAssumption`, `PoolAssumption`), which say no
more than that a nil is none of the things it is nil instead of, that ports are
naturals and those of endpoints known, that the prefix of a name keeps names
apart, that a page holds two channels at least, that a target has none but the
symbols there are, that files do not import each other in circles (the Protobuf
compiler allows none), that subchannel IDs are naturals and finitely many, that
a pool has a worker, and that neither the subset wrapper nor one that does not
unmarshal is any other policy. The invariants are all proved by Init => IInv,
IInv /\ [Next]_vars => IInv', with one step per action, and IInv => Inv.

**ChannelzConn_proofs**: `TypeCorrect`, `StubsAlwaysMatch`,
`ResolverAlwaysFresh`, `NeverLeaks`, `ClosesOnlyFailed`, `AlwaysAStub`,
`InjectedStaysInjected`, and `Refinement` (every step of the handler is a step
or a stutter of SharedConnection). None of the invariants is inductive alone.
The strengthening says what the code relies on silently:
`LockInv` (the mutex is held across steps exactly in teardown and dialing, when
there is, respectively is not, a connection), `InjectedInv` (a handler with an
injected stub never has a caller in `dial()`), `FetchInv` (between `dial()` and
reading the stub, with the mutex free, there is a connection: the one argument
that needs `grpc.Dial` not to fail), `HeldInv` (stubs are held during RPCs and
rendering only, which the refinement's Take needs) and `FailedInv` (a broken
connection has failed).

**XdsClusterJoin_proofs**: `TypeCorrect`, `PoolsAlwaysMatch`, `RowsAlwaysPools`,
`UnmatchedNowhere`, `NeverHidden`, `RealPolicyAlwaysShown`. The induction only carries that a page on
display is the join of the answers at hand (`ShownIsJoin`, `FetchInv`). The
weight is in lemmas on the join for any dump and subchannels:
`MatchedByAddress` (attribution takes all of an address or nothing) and
`PoolsWhole`. For the policy's name, what the calls for the depths below return is
fixed from the deepest one outwards (`DescriptionExists`), and gives the wrapped
policy's name through five wrappers and none through more (`NameOfWrapped`).

**XdsVirtualHosts_proofs**: `TypeCorrect`, `NamedChannelsAgree`,
`CallTimeOnlyFallback`. The invariant says that the dial-time virtual host was
found in the dump at hand (`FoundInv`) and the roles made of it and the list
(`ShownInv`); the lemmas say that a channel a role names is in the list and is
looked up under just that name (`MaxIsIn`, `RoleReads`), and that a missing
entry means that no listed channel has that name (`OthersAreDialed`).

**Pages_proofs**, of three modules, which share no state.

*ChannelPages*: `TypeCorrect`, `NoneMissed`, `AlwaysAdvances`. The
invariant: what lies before the page requested and is still there has been seen
(`SeenInv`), so has what lies within the page shown (`PageInv`), and a page
that links on reaches `PageSize` IDs far (`FullInv`). It rests on two facts
about a response, `ListedIsPrefix` (it leaves out nothing below one that it has)
and `ListedIsFull` (one that is not the last has `PageSize` channels, and so
many distinct IDs reach so far), the second by counting an interval; and on one
about the template, `CutShows` (a page that is cut off shows the channel it was
cut off at).

*PoolPages*: `PoolsTypeCorrect`, `MembersAllInOrder`, `LimitAlwaysConfigured`, `ReloadAlwaysSame`. The invariant
says that the list is one of the orders its subchannels allow, that the page's
members are those of the subchannels it read, and that a limit fetched is what
`MaxConcurrentStreams` makes of the cluster read. That the list has one order,
whatever the map iteration and the unstable sort do, is that of two rows
one belongs before the other (`Before` compares sizes, then addresses), so that
two orders of the same rows cannot differ first anywhere. `MembersAllInOrder`
says what no run does: each member once, lowest ID first.

*Navigation*: `GoneAlwaysClosed`, of the form
NavSpec /\ []LeadsWhereItSays => []GoneIsClosed. What paths and strings do stays
with TLC (that is what LeadsWhereItSays says, and folds are out of reach); the
rest is for any handlers, programs and names. The invariant: the link in hand is
about an entity of the kind its page is for, or one that was (`NextInv`, `Sound`), since
every table, one lemma each (`ChannelsTableSound` to `PoolTableSound`), links only
such; IDs are given out in increasing order (`GraphInv`), so that what
is sound, and what is gone, remains so (`StillSound`, `StillGone`).

**ReflectionRedial_proofs**: `TypeCorrect`, `FreshAlwaysClean`. What a page is
about to store in a resolver is in that page's hands, and the fields of a
connection's resolver are there before it is made; so the invariant speaks of
the connection rather than of its resolver (`FieldsInv`), and of what each page
that works with it holds (`PagesInv`).

**ReflectionStream_proofs**: `TypeCorrect`, `RepliesAlwaysMatch`,
`VerdictAlwaysDue`, `MutexAlwaysReleased`. A reply names no request, so `RepliesMatch` has to follow
from what may be on the wire: on an open stream there is exactly the unread
request, or its response, of the caller that holds the stream's mutex and waits
in Recv, and nothing if there is no such caller (`WireInv`, over `Unread`); once
the stream is over only that response is left to be read. `MutexInv` ties the
mutex to the two steps inside `roundTrip()`, and `MutexReleased` is one half of it.
`VerdictInv` follows the verdict from the target, over the end of the stream or
an error response on it, and the caller to the field.

**DescriptorRegistry_proofs**: `TypeCorrect`, `RegistrationAlwaysSucceeds`,
`DescriptorsAlwaysAtHand`, `FailsOnlyWhenUnserved`, `StackAlwaysDescends`, and two
that no run checks: `NeverFileTwice` (the recursion is never deeper than there are
files) and `FoundAlwaysComplete` (all that a found type's
file reaches is registered). The heart is `Sound(s, fs)`, of the stack of a
resolution: an import that a frame has ticked off is registered, or is the file
of the frame above. That other pages register files meanwhile can only help,
because registered files stay (`SoundGrows`); each way in which a stack changes
has a lemma of its own (`SoundEntered`, `SoundTickedOff`, `SoundRecursed`,
`SoundPopped`). `DescriptorsAtHand` is carried beside it, because a batch only
grows and a frame is only pushed for a file in it (`AtHandKept`, `AtHandStays`).
Only `NeverFileTwice` needs that imports have no cycles.
`TransDeps` is defined as the least closed
set, so that no induction over the import graph is needed.

**SubchannelFanout_proofs**: `TypeCorrect`, `SendAlwaysGoesThrough`,
`EachRefAlwaysOnce`, `PoolIsSequentialLoop`, `FanoutNeverStuck` and `FanoutEnds`. That a send finds room in `out`
is a matter of counting (`CountInv`): the results and the workers that have an ID
in hand (`Busy`) together are no more than the IDs handed out, so that whoever
is about to send finds fewer results than references. That `out` is not closed
under its feet is `PhaseInv`, which says where the goroutines are once the
channels are closed. For the refinement every reference nothing has come of is
in one of three places, still in `in`, in a worker's hand, or in `out`
(`Unhanded`, `InHand`, `Uncollected`), and in no two of them (`Apart`): a step
that moves one from place to place is a stutter of the loop (`ReceiveMoves`,
`SendMoves`), a failed call and a collected result take one away
(`CallFailedDrops`, `CollectTakes`), and when `out` is closed and drained nothing
is left (`DrainedIsAll`, which needs a worker to have been started for any list
but the empty one). That what `Sorted` chooses exists is
`SortingPermutation`: number i goes where the count of smaller ones says.
The last two theorems are what `PageReturns` rests on besides fairness, for any
channel and any pool: while the page waits somebody can go on (`ClosingInv`: there
is one who will close `out`, until it is closed), and each step of any goroutine
decreases `Effort`, in which a reference counts for the steps it has before it, so
that no schedule runs on forever.

**Only model-checked.** Liveness (`CallReturns`, `RecoversWithoutBackoff`,
`PageReturns`, `ResolutionEnds`, `RedialHeals`) and the refutation of
`ReflectionRecovers` rest on fairness and ENABLED, which are out of this prover's
reach. So is induction over data: `LeadsWhereItSays` is about paths that LinkPaths
folds, and `AllReachable` about reachability, a RECURSIVE operator. All other
invariants and action properties that the runs check are proved.

## 5. What the checks found

Two runs expect a violation, where the code and what it says of itself part:

1. **More than one reflection stream** (reflection_reuse,
   xds_reflection_resolver.go:117). Two first callers open one each, and a call
   whose response is an error leaves its stream behind; neither is closed.
2. **A broken reflection stream is kept** (reflection_lost,
   xds_reflection_resolver.go:125). Once stored it is used by all later calls,
   which fail until the connection itself is redialed, although the target
   answers on a new stream.

Elsewhere a passing property names the exception, and is exact about it:

- `NoNilStub`: with dial options under which `grpc.Dial` may fail (`WithBlock` and
  `FailOnNonTempDialError`), `connect()` may return a nil stub and no error,
  because it reads the stub in a third critical section (client.go:25). So may
  `connectCSDS()` of a handler with only `client` injected: it was set up so.
- `CallTimeUnlessFallback`: a virtual host may be called call-time although
  another channel dials it, if that channel finds it by its raw name or name
  field, or is beyond the first page (xds-vhost-page.go:139).
- `GivenUpOnlyIfRefused`: an error response of code Unimplemented to a single
  request (xds_reflection_resolver.go:97) disables the resolver for the rest of
  the connection (127), like the lack of the service, although the field's comment
  (46) knows of a "target has no reflection" only.
- `UnmatchedBelongsNowhere`: a subchannel without an address, or with one whose port
  `portFromHostPort()` cannot read, may be unmatched on one page and attributed on
  another (xds-cluster-page.go:261, 291).
- `NoChannelMissed`: a page that the template left at a channel without a trace
  (channels-page.go:27, 82) has no link and passes for the last one, whatever comes
  after it.
- `LeadsWhereItSays`, whose exceptions `Astray` lists and which says that a reader
  is led astray exactly by them: a second handler, whose prefix then is in the
  first one's links (routes.go:30); a name with slashes in a row, such as
  `xdstp://users`, which `path.Join` cleans (routes.go:146); the address given in
  src/README.md:56, `/foo/channelz`, which chi does not serve without a last
  slash; and the address the command prints for a prefix with slashes in a row.
  A prefix without a slash in front makes chi panic in `CreateHandler`, after
  `pathPrefix` has been written.
- `LimitIsConfigured`: a pool's page says "(unset on cluster ...)" also when it
  could not fetch the dump, and of limits under `auto_config`
  (pool-page.go:124, 25).
- `GoneIsClosed`, which holds of readers who have not been led astray: the page
  another program's handler writes of a channel links with that channel's
  ID, and where such a link leads by its own prefix the ID may be open as something else.
  (The first statement of it looked at the last link only; the proof failed at
  the links of a page that the reader had been led to.)
- `FreshIsClean`: the verdict that a target has no reflection outlives the target
  if grpc-go reconnects to an upgraded one before a page redials
  (xds_reflection_resolver.go:130); it is wrong from the start after an error
  response as above; and a stream that ended is kept as in finding 2. `RedialHeals`
  is therefore about connections to which none of this happens any more.
- `AllReachable`, whose exceptions are `Unlisted`: servers beyond the first page
  (servers-page.go:32), and what the templates would write after a channel or
  subchannel without a trace, where they fail on its timestamp
  (channels-page.go:82, sub-channel-page.go:70).

One thing is plain in the model and no property is about it:
`formatSocketAddress()` writes an IPv6 endpoint without brackets (xds.go:116), gRPC
with them, so that its subchannels are listed as unmatched, "whose address is not in
the current EDS dump" (xds-cluster-page.go:580), although it is in there.
`NothingHidden` says that they are at least listed somewhere. Nor does any property
speak of two loads of a virtual host's page: when several have the name looked for,
the choice among them (xds-vhost-page.go:194) may change from one to the next.

## 6. What is not modelled

- *Layout*: formatting of times, options and trace events, text and YAML of
  protobuf messages, `formatLocality`, `lbPolicyShortName`'s string surgery (a
  constant of LbPolicy). No property is about them. Of the templates, the links
  are modelled.
- *Call counters, weights and health* of endpoints and pools are sums over the
  sets that are modelled; the sums themselves are left out.
- *Cyclic imports*: no Protobuf compiler makes such files, and on a target that
  reported some the recursion would not end (`RegistryAssumption`).
- *Names that need escaping* other than for slashes: names in LinkPaths are plain.
- *Listening sockets and sockets of servers* are one kind of socket.
- *Deadlines*: RPCs run under `context.Background()`, so there is nothing to check
  of a server that accepts and never answers.
- *The write of `pathPrefix` itself*, which races with rendering pages:
  `CreateHandler` is one step.
- *The command's flags and listener, internal/*: flag parsing, a demo server and
  generated code.

## 7. Plan

Done: all modules of section 2, and the proofs of section 4. What is left:

1. *LinkPaths*: `LeadsWhereItSays` for any prefix and names, which would free
   `GoneAlwaysClosed` of its hypothesis, needs that `Clean` leaves a clean path as
   it is and works from left to right: an induction over the path.
2. *Liveness*: the two halves that are proved of the fan-out (somebody can go on,
   every step leads on) for a resolution as well; the rest is fairness.
