# A verification development for clipp

clipp shares the clipboard and a small store of named *registers* between the
devices of one person.  Every device runs the same daemon; the daemons find
each other by mDNS, connect pairwise over TCP, encrypt with a key derived from
the shared password, and replicate without a server.  This directory holds
TLA+ models of that daemon, of the command line and of the popup, the TLC
configurations that check them, and TLAPS proofs of every safety property the
runs check: about the register store, the daemon around it, the mesh, a
connection, the persistence, the peer manager, discovery, the command line, the
popup, the history and the shared clipboard.

`PROJECT.json` is the index: components, runs, the mutants that show each
property can fail, the source lines behind every definition, the findings, the
hazards, and the theorems.  Source paths below are relative to `src/` of the
repository root (`src/Peer.cpp` is `src/src/Peer.cpp` in the index).

## 1. Inventory

### 1.1 Components

| component | state | operations | talks to |
|---|---|---|---|
| Hybrid logical clock (`Hlc.*`) | high-water stamp | `Now`, `Witness`, `SeedFloor` | owned by the register store |
| Register store (`RegisterStore.*`) | map name -> record, the clock, limits, a change listener | `Upsert`, `Read`, `Delete`, `List`, `ListNames`, `Digest`, `RecordsToPush`, `ApplyRemote`, `MirrorDefault`, `SnapshotForSync`, `GetForBroadcast` | everyone, under one mutex |
| Register wire format (`RegisterWire.*`) | none | encode and decode RSYN, REGW, RLST, RGET, RPUT, RDEL | peers |
| Peer (`Peer.*`) | socket, thread, outbound queue, wake event, host id, flags for stop, running, pending authentication | `Start`, `Stop`, the dialling thread `ThreadProcSend`, the serving thread `ThreadProcRecv`, one handler per frame | peer manager, register and activity stores |
| Peer manager (`PeerManager.*`, `PeerLimits.h`) | list of peers, count of established incoming peers | `AddPeer`, `AddIncomingPeer`, `TryEstablishIncomingPeer`, `OnIncomingPeerLeft`, `RemoveOutgoingPeer`, `CullPeers`, `ClearPeers`, the broadcasts | network runtime, listener, peers |
| Peer display (`PeerDisplay.*`) | connections per remote device, by direction | `NotifyPeerAdded`, `NotifyPeerRemoved` | user interface |
| Network runtime and reconciler (`NetworkRuntime.*`) | discovered hosts, whether each was admitted, when each is to be removed, interface snapshot | `OnDiscoveryEvent`, `ProcessWake`, `Sweep`, `Start`, `Stop`, `Restart`, `OnClipboardReceived` | discovery, listener, peer manager, clipboard |
| Discovery (`MDNSDiscovery_*`, `MDNSProtocol.*`) | live instances and the hosts they resolve to | browse and resolve callbacks, `Start`, `Stop` | network runtime |
| Listener (`Listener.*`), interfaces (`NetworkInterfaces.*`, `NetworkChangeMonitor.*`) | a listening socket; the address list | accept; change callbacks | peer manager, network runtime |
| Durable clock floor (`Settings.*`) | `registerHlcFloorMs` in the settings file | `noteRegisterHlcWallMs`, `SeedClockFloor` at startup | every path that writes a register |
| Register persistence (`RegisterPersistence*`, `SealedSnapshot.*`) | dirty flag, file path, key, writer thread, save mutex, sealed file | writer loop, `SaveNow`, key change, start, stop | register store, key manager |
| Activity store (`ClipboardActivityStore.*`) | list of clips by stamp, next id, limits, watchers | `Add`, `RemoveItem`, `RemoveGuid`, `SetLimits`, `Snapshot`, `ItemsSince`, watch and unwatch | peers, the pages that show it |
| Activity display (`ClipboardActivityDisplay.*`, `ClippPage.cpp`) | ids of the rows on show | add, move and remove a row | activity store's updates |
| Clipboard and echo guard (`platform/*/Clipboard.*`, `main.cpp`, `ClipboardHashGuard.*`, `ClipboardWire.*`) | the system clipboard, the hash of the current clip | read, set, `IsCurrent`, `RememberCurrent`, `AcceptCurrent` | activity store, peers |
| Register and activity actions (`ClipboardActions.*`) | one undo slot | save, delete, rename, mark private, undo; re-share, delete everywhere | register and activity store, peer manager |
| Command line, one-shot peer (`Cli.*`, `OneShotPeer.*`) | a connection to one gateway, targets left | copy, paste, put, touch, rm, ls; relay and acknowledge | a peer's serving thread |
| Visual-paste popup (`PopupModel.*`, `platform/win32/PopupWindow.cpp`) | two lists, filter, highlight, mode; rename, confirmation, pending injection | summon, dismiss, navigate, filter, rename, delete, save, undo, paste, type | both stores, the windows of the desktop |
| Encrypted channel (`CryptoChannel.*`, `utils_socket.h`) | session keys, sequence numbers | handshake, seal, open, whole transfers with idle timeouts | peers |
| Key manager (`KeyManager.*`) | the network key | set, clear, fingerprint | persistence, channel |
| Other user interfaces, iOS application | windows | call the above | everything |

### 1.2 How they interact

A daemon has a user-interface thread, a thread that watches the clipboard, one
for the network runtime, one for the listener, one per peer object, one that
writes the register snapshot, and short-lived detached threads that cull peers.
They share the stores and the list of peers, each behind its own mutex;
`peersMutex_` is the only one held while waiting for another thread.

A *write* of a register goes: store (new stamp, under the store's mutex), then
the durable floor in the settings, then a REGW queued on every connection.  A
*connection* starts with a digest (RSYN) from both ends; each end answers with
the records the digest shows missing or older.  A received record is merged and
never forwarded: every daemon is connected to every other.  A one-shot client
has no connection of its own to the mesh: it hands its write to one gateway,
which stamps and broadcasts it.

A *clip* goes: the clipboard thread reads it, the echo guard decides whether it
is new, the event is stamped, listed and broadcast; a receiver lists it and puts
it on its clipboard through the guard, unless it is a replay. A peer that comes in
when no other is counted is asked for its history (SYNC). The activity store
tells its *watchers* after the unlock; a page or the popup queues the update for
its own thread.

### 1.3 What is hard

* Clocks: stamps from clocks that run apart, are set back, or jump; a restart.
* Two replication mechanisms (broadcast and digest) that overlap in time, on
  connections that break with frames in flight and whose buffers fill.
* Expiry by wall clock inside a merge that otherwise depends on stamps only.
* Three threads and two mutexes around one snapshot file whose identity changes
  with the network key.
* Peer objects owned by a list, run by their own threads, and destroyed by
  three different walks.
* Connections whose two ends go at different times: a dialler is back after a
  second, the thread that served it may read on, or be counted, for 90 more.
* A wake event that is set from any thread and consumed at several places.
* An echo guard that remembers one hash, on platforms that mark their own
  writes and platforms that do not.
* Retries of a client at another gateway when an acknowledgement is lost.
* A popup whose lists are copies, whose highlight is a place in a list, and
  whose paste happens later, in a window that may be gone.
* Everything in the `hazards` list of `PROJECT.json`, each at its line.

### 1.4 What makes each component correct

* *Clock*: a new stamp is above everything this device has issued or seen, in
  this session and in earlier ones.
* *Merge*: the order and the repetition of arrivals do not matter.
* *Store*: nothing live is replaced by something older; nothing dead is revived.
* *Replication*: when nothing is left to send, all hold the latest write.
* *Connection*: a message pushed is sent without waiting for the next ping, never
  handled twice, and in order until a connection fails; each end gets the records
  that fit a frame.
* *Persistence*: a change gets to the file of the group it belongs to and stays.
* *Peer manager*: no thread outlives its object; limits are never exceeded and
  slots never leak; the dead are removed; stopping ends.
* *Discovery and reconciler*: who is dialled is who is announced, where it was
  last announced, after the grace; a healthy dial is left alone.
* *Activity store*: one item per event, in the order of the stamps, the oldest
  lost first; what is shown is what is there.
* *Sharing*: users who take turns see one clipboard and one history, whatever a
  host publishes again; what a failure lost is replayed by who is asked for it.
* *Command line*: success means done, a fault-free command does exactly what it
  says, every command ends.
* *Popup*: it lists the clips there are; it sends what was chosen, where it was asked
  to, and nothing that needs a confirmation without one.

## 2. The modules

```
Hlc -- RegisterRecord -- RegisterStore -- RegisterHost -- RegisterMesh

ActivityItems -- ActivityStore (implements ActivityHistory)    PopupModel -- Popup
         \------ ClipSharing                          OutgoingReconciler -- Discovery

RegisterGateway     Link     RegisterPersistence     PeerManager
```

The proofs about module `M` are in `M_proofs`, which extends it: there are eight,
for `RegisterMesh` (with those of the record, the store and the daemon it
extends), `Link`, `RegisterPersistence`, `PeerManager`, `Discovery`, `Popup`,
`RegisterGateway`, and `Clipboard_proofs` for `ActivityStore` and `ClipSharing`,
which share what is proved about lists.

Each `MC...` module fixes the model values and small sets for TLC; the
specifications themselves have no bound but those named in their CONSTANTS.
There are two refinements: `RegisterMesh` implements `RegisterHost` for each of
its hosts (`HostsImplemented`), and `ActivityStore` implements `ActivityHistory`
(`ImplementsHistory`).

**Hlc** — stamps, their order, and the three operations of the clock as pure
operators.  A stamp is a pair of naturals; the 64-bit fields cannot be reached.

**RegisterRecord** — a record, `ValueLess`, `MergeRecords`, `IsExpired` and the
flag byte.  Host ids and values are naturals, because the code only compares
them.

**RegisterStore** — `now`, `clock` and `store` of each host, one action per
operation of the class.  `UpsertLocked` and its callers are `Upsert`; the walks
that only drop dead records are `PruneExpired`; an access that finds a dead
record is `DropOnAccess`; `Read`, `Delete`, `MirrorDefault` and `ApplyRemote`
are the functions of those names.  The wall clock moves by `Tick` and
`StepBack`, so it may be ahead of, behind or set back against any peer.

**RegisterHost** — the daemon around the store: the sealed file, the durable
floor, and the work a writing thread still has to do.  A write takes three
steps (`WriteValue`/`WriteTombstone`, `NoteFloor`, `Announce`), because the
code takes no lock across them.  `Restart` is a crash at any point followed by
startup as `main.cpp` orders it: seed the clock from the floor, witness every
stamp of the snapshot, load the records that are still alive.  `noted` is a
history variable.

**RegisterMesh** — several hosts, the connections between them and the frames on
them.  `outbox` is a dialling peer's `messageQueue_`, `wire` what has been sent
and not yet handled.  `Greet` is the digest each end sends first; `AnswerDigest`
and `ReceiveRecord` are the handlers; `Drain` takes a frame from the queue
before it is sent, so a break loses it.  Faults: `Disconnect`, `RemovePeer`
(the peer object and its queue go), `Crash`.

**Link** — the connections of one dialler from close by: the outgoing thread
from its connect through the loop of drain, select and receive to its backoff,
the wake event that the queue's `Push` and the socket share, and sockets whose
buffers hold a number of *parts*.  Each accepted socket gets a thread of
`Serving`, and nothing tells the thread of an earlier one that the dialler is
back: it goes on reading and handling what its own connection still holds
(`line` is the thread of the last one).  The two ends of a connection leave one
after the other (`Leave`), for their own reasons: the socket of one end fails
(`SocketFails`), the network is cut without a word (`Cut`), a send or receive
fails, a server has heard nothing (`Idle`).  A frame is sent part by part, a
thread that is sending does not read, a transfer that stays idle fails and
leaves the stream *spoiled*, and a frame above `MaxFrame` is refused before
anything of it is sent, which ends the answer it is part of.  `Push` and `Signal`
are two steps, as the code signals after its unlock.

**ActivityItems** — the list of a history as operators: insertion by stamp, an
event told again, the limits, `ItemsSince`.  Used by the next two.  They are
written without recursion, so that they can be reasoned about: where an item
goes is the number of the items before it, what the age leaves (`Keep`) is the
places that stay, in order, and the bytes of a list are counted one by one.

**ActivityStore** — the store with its watchers and the Windows page.  An
operation changes the list in one step under the mutex and leaves the updates
it has to tell in `posting`; `Notify` tells one; the page only queues it
(`dispatched`), and `Dispatch` handles it, reading the store again as
`ClippPage.cpp` does.  **ActivityHistory** is what the store promises, as a set
of items without order or rows: a limit takes the oldest, no more of them than it
must, and leaves open which of two items with one stamp goes first.

**ClipSharing** — hosts with a system clipboard, a clipboard thread that
notices a change, reads it, and then compares it with the guard and publishes
it, a receiving thread that lists an event, sets the clipboard and tells the
guard, the actions of the user interface, a one-shot relay, and connections
with SYNC.  On hosts in `Marks` the platform marks what the program writes; on
the others the write, the poll that may find it and the mark are three steps, so
a host may read its own write and publish it.
A connection has two ends that go separately.  `line[d]` is the serving thread
the dialler `d` is connected to, as far as it knows, and `serving` holds the
incoming peers that are established and counted.  `Break` is the dialling end,
`OnIncomingPeerLeft` the serving one, and a dialler may be back (`Connect`) while
its earlier connection is still counted: then it is *accepted* but not *first*,
no SYNC is sent, and `unasked` has the dial.
`Restart` forgets the history and the guard but not the clipboard of the
system; what the host had sent unread is `adrift`.  A clip's value is one of a
few contents; `Secret` ones are not shared, `Blank` is a placeholder,
`Unreadable` ones leave the guard as it was.  `calm`, `shared`, `unasked` and
`adrift` are history variables.  `calm` says that every user waited for the mesh
to come to rest, that connections failed only then, that no clipboard write
failed and that no host started again; nothing else ends it.

**RegisterGateway** — a command line against several daemons: browse, dial, ask,
take the next frame of the tag it waits for, go on to the next target or
gateway, close behind the fence.  `orphans` are connections the client has left
and the daemons still read.  Meanwhile records spread between the daemons in
any order, and the users of `Users` save, delete, rename, mark and undo, each
as the separate operations of the store that `ClipboardActions.cpp` makes of it.
Stamps and merge are reduced to "a later write has a later stamp", which
`MintAdvances` and the merge theorems justify.

**RegisterPersistence** — the writer thread, the user interface's thread in a key
change, start, stop and crash.  The store appears as a set of record versions:
it only joins versions, and a file load is a union.  `pc` names where each
thread is; `dirty`, `path`, `saver` are the variables of those mutexes.

**PeerManager** — peer objects, their threads' life cycle, admission, the counts,
and the three walks.  A walk holds the mutex from `Begin` to `EndWalk`, one
`Visit` and one `Join` per peer it removes; all other operations need the mutex
free (`MutexFree`) when the code takes it, and do not when it does not.

**OutgoingReconciler** — the map of discovered hosts (`active`, `admitted`), the
deferred departures (`pendingRemoval`; `due` when the grace is over), the dials
they led to, and the runtime's thread.  `OnAdded`, `OnRemoved` and `Sweep` hold
the reconciler's mutex and are one step each; the wake that `OnRemoved` gives
after the release is part of it, as nothing but the next sleep reads it.  Of
the thread the model has what `armed` needs: the deadline is computed before
the sleep, so a departure reported after that must wake it.  `PeerManager`
appears as `AddPeer` and `RemoveOutgoingPeers`, atomic under its own mutex.

**Discovery** — the Windows implementation and the system of the two.  A report
is taken under discovery's mutex and made after it is released, so `reports`
is a list from which `MakeReport` takes any; a browse callback makes its report
before it reads on (`BrowseIdle`).  `Stop` clears the maps and leaves alone the
reports taken, the resolves under way and a browse callback among its records
(`StopBrowse(late)`).  Two histories say which hosts something known to go
wrong has happened to: `stray`, whose arrival or departure was overtaken or
missed, and `disowned`, whose dial ended, or began, behind the reconciler's
back.

**PopupModel** — the platform-independent state of the popup as operators on a
record: two lists, the filter, one highlight, the mode.

**Popup** — the Windows popup around it.  `store` is what the actions work on,
`win` the window, `tasks` what the watcher has queued on the window's thread,
`paste` the injection that waits for its target, `desk` the windows of the user.
Keys, clicks, the toolbar, the timers and the hooks are actions; an action that
meets a rename first ends it (`Settled`).  `asked`, `sent` and `quoted` are
history variables: what was highlighted when the user asked, what was sent for
it, and what a confirmation had shown.

## 3. The runs

| run | question | size |
|---|---|---|
| `host` | Can peers, crashes and clock changes make a daemon issue a stamp twice, regress, or take in the dead? | 1 host, 1 name, wall 1..3, a time to live of 2, floor batch 1, records of both kinds with stamps on a 2x2 grid of write and touch |
| `mesh` | Do writes, breaks and crashes ever leave two hosts at rest apart? | 2 hosts dialling each other, 2 uses (write, delete, read) by either, 1 fault |
| `mesh_one_way` | Do they come to rest? Is each a `RegisterHost`? | 1 dial, 2 uses by the dialling host, 1 fault, fairness |
| `link` | Is a message ever stranded, doubled or dropped, and do the stores get what they may expect? | 2 serving threads, records of 2 parts and one that is too long, frames up to 2 parts, buffers of 3, both ends' stores either way round, 2 messages, 1 fault, fairness |
| `persistence` | Is a change ever forgotten, or a file taken back? | 2 record versions, 2 groups, 2 key changes, 1 fault, fairness |
| `peers` | Do objects, threads, counts and slots agree, and do the dead leave? | 2 peer objects, 2 hosts, 1 address, limits of 1 or 2, 1 outstanding cull, fairness |
| `discovery` | Is the reconciler ever wrong about who is dialled, and does it ever drop a healthy dial? | 2 instances of 1 or 2 hosts, room for 1 dial, 2 reports on their way, 1 fault |
| `activity` | Is the list what it promises, and the page what the list is? | 3 ids, 2 stamped events of sizes 1 and 2 and an unstamped one, 2 stamps, 2 threads, 3 settings of the limits, time 0..1 |
| `sharing` | Do hosts that share end with one clipboard and one history, and without losses? | 2 hosts, one with an own mark and one without, dialling each other, 2 serving threads for each dial, 3 contents of which one is secret, 2 copies, 3 events, 2 actions, 1 fault |
| `gateway` | Is a command done when it says so, exact when nothing fails, and does it end? | 2 daemons, 2 names, every verb, 2 edits or failures together, a cap of 1 or 2, fairness |
| `popup` | Does the popup show what is there, and send what was asked, where it was asked? | 2 names, 3 values of which two are long, 2 windows, 3 inputs, 2 changes from outside, 3 tries of the injection |
| `persistence_rejoin` | a finding, section 5 | 2 versions, 2 groups, 2 key changes |

Why these sizes are enough.  The rules of a store concern one name at a time,
except the cap, which counts names; it is reached in `gateway`, with two names,
not in `host`.  The merge compares stamps only, so two readings give earlier,
equal and later, each way round for write and touch.  A `TtlMs` of 2 makes
records die within the wall's range; in the mesh runs it is out of reach,
because two clocks that disagree about what is dead make "at rest"
meaningless - expiry is the subject of `host`.  A floor batch of 1 puts the
reserved floor and the clock next to each other, where an off-by-one shows.
One fault at any point of a two-host run reaches every state a single loss can
leave; a second repeats the first from a state the first leads back to.  Two
uses are the least that make an old and a new record, or two concurrent ones.
The `mesh` run leaves the history variable out of the fingerprint (`MCView`):
it guards nothing.

In `link` an answer of two records of two parts is longer than a buffer of
three, and the other end's answer fits: the shortest case of a thread that
blocks in a send while its peer sends too. The other end has the record that is
too long, so its answer ends there; the second start has this the other way
round. A start with one more record beside that one, before or behind which the
answer ends (`{a, b}` against `{c, long}`, with `c` of one part), TLC has gone
through without a violation, but it takes more time than the run has. Two
serving threads are one of a broken connection and one of the next: with two
messages the first may still be read by the earlier thread when the second has
been handled. In `persistence` two key changes allow leaving a group and coming
back, the shortest way two saves of one file can be in the wrong order. In
`peers` two objects are one that a walk joins and one that works meanwhile, and
limits of one are hit by the second object. In `discovery` two instances are two
devices that compete for the one dial, or one device that comes back under a new
name at the same or another endpoint; two reports can overtake each other.
Devices come and go without bound. A fault is a failed resolve or start, a
change of interfaces, a stop of the network, or a dialler that gives up.

In `activity` two items reach the limits and the third shows what a limit drops;
two threads are one that tells late and one that overtakes it. Of the settings
one is by bytes, which one item of each size fits; one by bytes too, but fewer
than the bigger item has, which may exceed it alone; one by number and age. In
`sharing` two copies are a clip and its successor, three events leave room for
an echo that is published as a third, and two actions are a delete and its undo
or a re-share. Two serving threads are an earlier connection that is still
counted and the one after it. A behaviour has user actions or failures, not both
(`Fault`), as the properties ask for the one or the other. `MCFollowed` leaves
out what follows a state in which users have not waited and a history was
changed: both properties hold of every such state by their preconditions, and
these never come back. A third copy is the least that brings contents back after
others were in between, which the guard of a host that has not let go of them
drops. Without actions and faults TLC has gone through three copies, too, and
the theorem is for any number. In `gateway` two edits or failures are, for
instance, a lost answer and a rename meanwhile; wild arguments match both names.
In `popup` three inputs are enough for: move, begin a rename, paste; arm a
confirmation, move, confirm; or arm it, dismiss and confirm in the next opening;
three tries let a paste's target be away, back and gone.

`CHECK_DEADLOCK FALSE` is set where a run may stop: the daemon of
`RegisterPersistence` may be down with all bounds used up; the peers of
`PeerManager` can really be deadlocked (section 5); in `Link`, `ClipSharing`,
`RegisterGateway`, `ActivityStore` and `Popup` there is nothing left to do when
the users' inputs are used up and all has been delivered.  Elsewhere a clock, a
user or a device can always move, and a deadlock would be reported.

### Properties that deserve a word

* `ClockCoversStore` is the fact `UpsertLocked` and `DeleteLocked` rely on when
  they overwrite without a merge.
* `NotedSurvivesRestart` says what the floor gives: no *noted* stamp is ever
  issued twice.  `OnlyRestartsRegress` compares records by the code's whole
  order, so it also covers writes with equal stamps.
* `QuietMeansCaughtUp` is about write stamps, of two hosts: see section 4 for what
  goes wrong with three.  Values can differ under equal
  stamps (section 5), and touches under equal writes: a read is not broadcast.
* `HostsImplemented` carries over what the proofs say of one host: in a mesh,
  too, only a restart regresses.
* `QueueNotStranded` speaks of a thread about to sleep in `select` with a
  message queued: the wake is set, or the pusher is between its push and its
  signal.  Other waits of the same thread consume wakes as well, which is where
  it could go wrong.
* `Accounted` has the connections of a dialler overlap.  What is under way over
  each is in the order of the pushes, nothing is handled twice or under way over
  two, and until a connection fails nothing is missing or out of order.  After
  that a message may be lost, or handled after a later one, because the thread
  of the earlier connection reads on (section 5); the property says no more.
* `Converges` says that the queue empties, and that a store gets all it lacks if
  each record it lacks fits a frame, also when an answer of the other direction
  ends at a record that does not, and when one of the two answers is longer than
  the buffers.  A store that lacks a record too long for a frame is promised
  nothing, not even the names behind it.  When both answers are longer than the
  buffers it is the queue alone, see section 5.
* `NothingForgotten` says of every record where it is: in the file, about to be
  notified, marked dirty, or in a save that includes it.  A failed save is
  excepted, because the code does not try again.
* `DeadPeersAreCulled` and `OnlyRelaysHoldUpStop` name the one deadlock the code
  has and say that nothing else stops the walks.
* `EndpointFollows` is what the comment in `OnEvent` claims of racing resolves.
  It holds but for a dialler that ends by itself and a report made after `Stop`.
* `KeepsHealthy` is judged by what discovery lists, not by what is announced:
  a lost goodbye keeps a host, a report that is overtaken (`stray`) loses it.
* `SettledIsRight` is what liveness would say, as an invariant of the states in
  which nothing is left to do, with faults and overtaking reports in the run.
  It does not exclude a system that never comes to rest.  Hosts that are
  `stray` are excepted, for cause: see the hazard at `MDNSDiscovery_Win32.cpp`
  291.
* `PageShowsStore` holds although updates can arrive in any order, because the
  page looks an item up in the store, and among its rows, before it adds one.
* `CalmUseAgrees` is about users who wait until all is at rest; with two clips
  under way the guard, which remembers one hash, can let an echo pass.  It does
  not assume that nothing is published twice.  A host without an own mark may
  take what it wrote for its user's and publish it again, and a one-shot client
  may hand over contents that guards hold already; both stay in calm use, and
  what they may not do is change a clipboard, or the contents of a history.  The
  histories need not list the same *events*: a host whose guard holds the contents
  of an event drops it without listing it, and the event that was published again
  may reach a third host before the first one does.  So an event may be missing
  from a history only if another event has the same contents.
* `LossesAreReplayed` is about failures instead, and excludes deletes, which
  leave no tombstone.  It is about two hosts whose one incoming peer is the other.
  In a ring of three a host that comes back asks the first peer that comes in
  only, and what another lost with its connection nobody asks for again.  Nor is
  anybody asked who comes back while the earlier connection is counted (`unasked`):
  there what was lost stays lost.  TLC finds a violation if that exception, or
  `adrift`, is left out.
* `SuccessLasts` excuses no failure the run has: after lost acknowledgements,
  repetitions, resets and restarts a command that reports success has done its
  work, and nothing undoes it.  A daemon that restarts keeps its store there; that
  a write is lost which was neither saved nor broadcast when its process ended is
  not in this model (`RegisterHost` has the saves).
* `ListsTheHistory` is about the list of clips.
  `ListsTheHistory`, `SendsWhatWasAsked` and `TypesConfirmed` each name their
  exceptions; TLC finds a violation when any one of them is left out, so they
  are behaviours of the code (section 5).

### Fairness

* *Mesh*: a writing thread goes on (`Note`, `Broadcast`), a dialling thread
  retries for ever (`ThreadProcSend` loops until stopped), and a standing
  connection's two ends go on reading and sending.  Users, reads, saves,
  clocks and faults are not fair; faults are bounded.
* *Link*: the outgoing thread and each serving thread takes some step when it can,
  its timeouts included, a push ends with its signal, and a handshake whose
  other end has left comes to its end.  Failures of a socket and of the network
  are not fair, and bounded.
* *Persistence*: the writer's wait has a timeout, so `Wake` and `EndDebounce`
  are weakly fair; the save mutex is contended by two threads that hold it for
  one save, so `Seal` is strongly fair.
* *Peer manager*: each thread leaves what it waits in when its stop event is
  set; a handshake ends by success, failure or timeout; `Relay`, `ClearPeers`
  and `CullPeers` wait for a mutex that others hold for short, so they are
  strongly fair, which asks that a mutex does not starve a waiter for ever.
  A stopped server is strongly fair to leave, since it may be in a relay in
  between.
* *Gateway*: the client reads what arrives and its daemon handles what
  it asked; the browse delivers the daemons there are; nothing makes a
  connection fail, so `CommandEnds` does not lean on the idle timeout.

The other runs check safety only and state no fairness.

## 4. The proofs

`tlapm` checks all of it with SMT, Zenon and PTL.  The proofs are for every set
of hosts, names, values, origins, records, peers and instances, every cap, limit,
time to live, batch, size and bound; they assume only the named ASSUMEs of the
modules, all of which the code satisfies, and TLC evaluates them in every run.
Four of these say that a set is finite, where a count or an enumeration of it
has to exist: peer objects (a list in memory), register names and records (a map
in memory), hosts.  `Theorems` in `PROJECT.json` is the list of results.

**RegisterMesh_proofs, of the record.**  `HlcLess` is a strict total order on stamps and
`HlcMax` its least upper bound; `ValueLess` is a strict total order on value
identities.  From these, `MergeCommutes`, `MergeIdempotent`, `MergeAssociates`:
the merge is a join, so a store is determined by the set of records that
reached it alive, not by their order or number.  `MintAdvances`: a stamp issued
is strictly above the clock, whatever the wall reads.

**RegisterMesh_proofs, of the store.**  The inductive invariant is
`StoreTypeOK /\ ClockCoversStore`.  Neither half is inductive alone: the types
are needed to compare stamps, and the cover is what makes a fresh stamp later
than the record it replaces.  Every action is first shown to change the cells of
one host in one of five ways - kept, dropped when dead, rewritten by a fresh
record, refreshed by a read, merged - (`CellStep`), and each theorem is then an
argument about the five.  `StoreNeverRegresses` uses the invariant for the fresh
case and the merge lemmas for the merged one; `StoreNoDeadOnArrival` is about
the same cells.

**RegisterMesh_proofs, of the daemon.**  The invariant adds `ClockCoversFile`,
`NotedSurvivesRestart` and `FloorCoversNoted`, the strengthening that carries
`noted` through a restart: the stamp seeded from the persisted floor is at or
above every noted one.  Without it `NotedSurvivesRestart` is not
inductive, because `Restart` replaces the clock by what the disk holds.
`HostOnlyRestartsRegress` and `HostNoDeadOnArrival` carry the two action
properties of the store over to the daemon: a step of a thread is a step of the
store or leaves it alone (`StepOfAStore`, `StillNewest`), and a restart touches
one host and loads the living only (`RestartIsLocal`).

**RegisterMesh_proofs, of the mesh.**  `MeshInv` is the invariant of a daemon, for each host,
and that the connections carry well-formed frames; each step of the mesh is
shown to be a step of one daemon, a break or a move on a connection, and the
daemon's theorems are reused: `MeshNotedSurvives`, `MeshOnlyRestartsRegress`.
`MeshImplementsHosts` is the refinement `HostsImplemented`.  Its two hypotheses
say that the abstract daemon is ready for every record a peer may hold and that a
relayed write is attributed to a host of the mesh; the run `mesh_one_way`
satisfies both.

`QuietCoupleCaughtUp` proves `QuietMeansCaughtUp` for any two daemons.  The
property speaks of quiet states only; what makes it inductive is a statement
about all the others: whenever one daemon is ahead of the other on a name
(`PairsCaughtUp`), the mesh still *owes* the other something - a connection, the
digest that will ask, the answer to it, or a frame with that write in a queue or
on a wire - and no digest or record on its way promises more than its sender
holds (`HonestFrames`), as an answer is judged against the digest.  The
hypothesis `Couple` asks for two hosts with a dial between them, users where
there is a dial, and a wall that does not reach the time to live (section 3).
Two is not a convenience: with three hosts the property is false, as TLC shows
for dials 1->2, 3->1, 3->2.  Daemon 3 writes, and 1 has it from a digest; 3
crashes before the write is saved or reaches 2, comes back, greets 2 first and
then 1, and gets its own write back.  Received records are not passed on, so 2
is without it until some later connection.

**Link_proofs.**  `LinkInv` has three parts.  Types.  The control of the threads
(`ControlInv`): the outgoing thread waits and reads with nothing in hand, a
message is in hand alone and not begun, a serving thread never sends one, until
a connection fails there is one only, and a thread that waits in `select` with a
message queued has a wake or a push to come; every wake is consumed at a place
from which the thread goes through a drain before it waits again, which is
`QueueNeverStranded`.  And the messages, with any number of connections served
at once.  Over one connection a message lies at a place of a stage - on the wire,
in hand, queued - of which the last two are those of the dialler's present
connection only; a later place or stage holds a later message (`EachInOrder`).
Across the connections and what was handled it is sets that count (`Tally`): each
message is in at most one of them and, while no connection has failed, in one.
Every step leaves messages where they are, loses some with a connection, adds one
at the end of the queue, moves the first of a stage to the end of the stage before
it (`FirstMovesOn`: the drain, the send), or takes the first of one connection to
the messages handled (`TallyRead`), whichever thread that is.  A new connection
parts what an earlier one still holds from the queue (`TallyConnect`), which is
sound because nothing is in hand then.  That a message moves whole rests on
`OneInHand`: its frame is one part, and the answer to a digest never contains one.

**RegisterPersistence_proofs.**  `NothingForgotten`, `StopFlushesAll` and
`SavedStays` together are not inductive.  `PersistenceInv` adds which thread can
be where in which phase (`PhaseInv`), which file each save goes to, and that a
writer about to save to a file that is no longer current has left the dirty
flag set (`TargetInv`), and that an image holds all that was ever saved and
lacks only what is still to be notified, marked dirty or in the other thread's
save (`ImageInv`).

**PeerManager_proofs.**  `ManagerInv` is the checked properties, with three
strengthenings: what kinds of thread a peer of each direction can have, that a
walk's three sets are disjoint parts of the list, and that what the display
counts is the peers *told of and not yet doomed by the walk under way*
(`ShownIsCounted`), of which `ShownIsExact` is the case without a walk.  The
counts are cardinalities; each step adds or removes one peer of the counted set.

**Discovery_proofs.**  `SettledIsRight` speaks of states at rest; `DiscoveryInv`
says for every state what each stage has passed to the next: a record of the
browse is live, a live instance is resolved or being resolved, what is resolved
is listed (`InstancePart`); the last report under way about a host is the truth,
and without one the reconciler has the truth (`ReportPart`); a tracked host is
dialled where the reconciler has it, and one waits only when the cap is reached
(`DialPart`, by counting dials).  All of it is for hosts that are not `stray`.
`HealthyDialsAreKept` is an action property from the same invariant.

**Popup_proofs.** The three properties speak of the clips a popup at rest lists,
of a thing sent and of a text about to be typed. `PopupInv` says for the moments
between what these come from: while the popup opens, its list is the history or
a change is noted as missed, and once shown, a list that is behind has a task
waiting or a rename under way (`ListInv`); from the request to the injection
what will be sent is what was asked for, or an excuse of the property is on
record (`RequestInv`); and the confirmation on show quotes the armed item's text
unless it was written since (`QuoteInv`). The state is records of records that
many actions update through `PopupModel`; the first section shows, once for each
operation, which parts it leaves alone.

**RegisterGateway_proofs.**  `GatewayInv` has three strands.  *The stores*: a write
has a stamp above all there were (`StoreInv`), and whatever one daemon holds, every
other holds at least as late or has on its way (`SpreadInv`, `Covered`); each step
is one write, one arrival or nothing (`StoreStep`).  *The command* (`ExchangeInv`):
there is one frame in hand between client and daemon - a question the daemon has
not read, or its one answer - and an acknowledgement on its way already stands
for something that no later step undoes: a write in the history (`Copied`), a clip
handed over, a register of the beginning that has been replaced somewhere
(`Dealt`).  At rest nothing is on its way, so `Covered` carries that to every
daemon, which is `SuccessLasts`.  `ExactInv` bounds what the command's frames may
have written while nothing failed by what it has no more to ask about
(`Touched`); names that are still to be asked about are not in it, so the next
write is of a new name, which is `FaultFreeIsExact`.  *The rename* (`RenameInv`):
before the write its value is under the old name, after it under the new one, and
whatever else writes one of the two is recorded as a disturbance.  The constants'
assumption says that `Absent` and `None` are none of the values they stand apart
from.

**Clipboard_proofs, of the list.**  The operators of `ActivityItems` come first,
each with what it does to a list that is in order (`Ordered`): an insertion keeps
it in order and adds one item, what is thinned out (`Thinned`) stays in order,
and the limits leave a tail of what is fresh, the longest that fits.  None of this
needs induction over the list: the place of an item is a count, a selection in
order exists because a finite set of places has a least one, and the bytes of a
list are in bijection with those of its items, so two lists of the same items
have the same size.

**Clipboard_proofs, of the store and its page.**  `PageShowsStore` speaks of a page
that has handled every update.  `PageInv` says of every moment what the rows still
lack: an id that was removed stays out of the list, and a removal is still to be
told while a row has it (`GoneIsGone`); an item without a row has an update of its
own, or a refresh, on its way (`DifferenceIsPending`).  Updates may overtake each
other because each is handled against the list as it is then.  `ListIsHistory`
is the refinement: the abstract set is `HeldOf(items)`, an `Add` is an addition
followed by the least loss that meets the limits, and that the front of the list
is such a loss is where the order and the byte count are needed.

**Clipboard_proofs, of the losses.**  `LossesAreReplayed` speaks of rest; while no
user has changed a history, `ReplayInv` says of every state: what is under way is
of events there were (`SharingBase`); a host lists what its guard holds and may
be shared, what it is about to put on its clipboard and, unless it is adrift, what
it tells others of (`Listed`), as otherwise a drop by the guard would lose it; a
dial that was asked for its history has no earlier connection that is still
counted (`Alone`), so that nothing an old thread reads can pass for the answer; and
of two hosts that have only each other, what one lists the other lists, or it is
in a queue or on the wire between them, or an answer is still due - one end of the
connection is gone, or SYNC was asked - or the host did not ask (`Delivered`).  A
failure of either end that loses a frame makes an answer due or the dial unasked.
That one answer holds all the history takes the pigeonhole principle: a list in
which each event stands once is no longer than there are events.

**Clipboard_proofs, of calm use.**  `CalmUse` is for any hosts that all dial each
other (`Mesh`), with histories without a limit (`Unlimited`; a limit makes hosts
forget at different times).  `CalmInv` has, in calm use, a `Phase`, a relation of
the histories, that nothing is left to read but from the ends the diallers are
connected to (`Drained`), and that nothing is adrift.  Between two states of rest
one of four things goes on: a user has copied, and only that host's clipboard
thread has work (`Copying`); a delete is on its way (`Deleting`); the serving end
of a connection has gone and its dialler has yet to notice, with all at rest
(`Severed`; when the dialling end goes first, or a host is asked for its history,
that is a `Spreading` of replays only); or contents are on their way to the
clipboards, as one event or another of the same contents (`Spreading`).  In the
last one a clipboard thread finds nothing but what the program itself wrote: if it
takes that for its user's it publishes one more event of those contents, and the
phase goes on.  Each step ends its phase or stays in it, and a user's step or a
failure starts one from rest.  The histories are in a relation of their own
(`Histories`).  An event that is alone with its contents (`Sole`) is in every
history, or on its way to those that lack it, or being deleted where it still is
(`SolesSpread`), and a host lists it when it tells of it (`FramesRight`); without
deletes that is so of the contents of every event (`ContentsSpread`).  That is what
makes a drop by the guard harmless: a guard holds contents of an event there was
(`GuardsKnown`), so an event it drops is alone with its contents only if it is
listed already (`Shares`).  Left out are a clipboard write that fails, a restart,
and a user's change of a history together with a failed connection.
`ClipAssumption` says, as the other modules' assumptions do, that `None` is none of
the records it stands apart from.

Where an invariant is stronger than the run's properties, TLC checked it on the
instance of the run before it was proved.

**Only model-checked**:

* Liveness under fairness (`CatchesUp`, `Converges`, `ChangesReachDisk`,
  `DeadPeersAreCulled`, `OnlyRelaysHoldUpStop`, `CommandEnds`), and whatever needs
  ENABLED: out of the prover's reach.
* `QuietMeansCaughtUp` of two hosts is proved; nothing is claimed for more.
* The refinement of the register hosts is proved for the safety part; that the
  mesh comes to rest is not.

Four statements that TLC had found no fault with turned out too strong, and say
now what the code does: the abstract history had to lose *the* oldest items, which
of two of equal stamp the list does not tell; `CalmUseAgrees` had the histories
list the same events, which a third copy refutes, and then the first event of any
contents, which a host that publishes its own write again refutes, as that event
can reach a third host first; `LossesAreReplayed` was about any two
hosts, which a ring of three refutes, and about any reconnect, which one end that
is still counted refutes; and `Accounted` had all messages handled in order, which
two threads that serve one dialler refute.

## 5. Findings

`persistence_rejoin` is a run: on a key change the writer can save memory to the
new group's file before that file has been read, so what an earlier session of
that group left is replaced instead of merged.

The following differences between the code and its documents or comments were
met while modelling.  No run is kept for them; the models have the code's
behaviour, and where a property would say otherwise it names the exception.

* Two gateways that stamp writes of one client in the same millisecond produce
  different values under equal stamps.  The digest carries stamps only
  (`RegisterStore.cpp:359`), so two hosts whose broadcasts were lost can stay
  at rest with different values; `docs/REGISTERS-PLAN.md:29-31` has the merge
  converge.
* `Settings.h:30-32` says that a restart resumes strictly above the last
  emission.  The floor is noted after the write is in the store
  (`ClipboardActions.cpp:85-86`), and a peer thread may push it in between.
* `README.md:194` says that Exit shuts the program down.  The walk that stops
  the network holds the mutex a relaying peer thread waits for, and joins that
  thread (`PeerManager.cpp:207-215`).
* `docs/REGISTERS-PLAN.md:192-193` has a read's touch propagate; it goes with
  the next digest only (`Peer.cpp:484`).
* A record above the frame limit ends every answer it is part of
  (`CryptoChannel.cpp:358-367`): names after it are not pushed, on this
  connection or the next.
* A dialler is back a second after its socket failed (`Peer.cpp:827-834`), and
  the thread that served it is still counted until its receive fails or it has
  heard nothing for 90 seconds.  The new connection is then not the first
  (`PeerManager.cpp:261-266`), no SYNC is sent (`Peer.cpp:877-899`), and the clips
  lost with the old one stay lost until a connection that is the first.
* Such a thread also goes on handling what its connection still holds: a clip
  that was sent before the break can be handled after one that was sent over the
  next connection.  Nothing orders two connections of one dialler.
* On a platform without an own mark the poll may fall between the write of a
  received clip and the mark (`platform/macos/Clipboard.mm:226-277`).  The host
  then publishes it as its own, under a new guid and stamp; at a third host that
  event can be handled before the original, which its guard then drops.
* Two answers that are both longer than the socket buffers block each other
  until both give up, and the next connection starts the same way.
* RPUT has a handler and no sender.
* An action of the popup during a rename first ends the rename, which rebuilds
  the list without moving the highlight (`PopupWindow.cpp:3117`); the action
  ("supersedes an in-flight rename", line 2823) then works on whatever is at
  that place.
* A change between the rebuild of a summons and the registration of the
  watcher is not seen until the next one, although "any store change
  re-snapshots while visible" (`PopupWindow.cpp:3155`).
* The name editor compares with the list of the last rebuild
  (`PopupWindow.cpp:3063`): a register of that name that arrived meanwhile is
  overwritten, which that check is there to prevent.
* The confirmation of a typed text is keyed by the item's name: a register that
  changes in between is typed with another text than was quoted.
* Escape that reaches the filter box during a rename leaves the model's edit
  mode but keeps the window's editing flag (`PopupWindow.cpp:1745`), and updates
  of the history are dropped until the next rename, action or summons.
* A re-share "relocates" the item on new peers (`ClipboardActions.h:26-27`,
  `ClippPage.cpp:922-924`).  A host whose guard still holds the contents drops it
  before it gets to the history (`NetworkRuntime.cpp:501-506`): when a clip is
  shared, then something private is copied, and the clip is shared again by that
  user, the first host keeps the placeholder above it.
* The chord of a paste is sent also when the clipboard could not be opened
  (`ClipboardActions.cpp:70`): it pastes what was there.

## 6. Not modelled

* Bytes: encodings, the sealing of files and channels, hashes.  A frame is a
  value, or a number of parts, and a file is replaced or not.
* The digest's limit of 1024 entries: beyond it records are pushed again, which
  the merge makes harmless.  Counters at their maximum and far-future clocks.
* RCNT and RPUT; paste of the clipboard and the key commands of the command
  line; `PeerManager::RemovePeer` and `ClipboardActivityStore::Clear`, which
  have no caller.
* Of discovery: the local registration, the wrappers of Linux and Apple, the
  fingerprint of the addresses (whether it moved is a choice), a monitor that
  cannot be armed.
* The snapshot of the history on disk and the iOS application with its inbox;
  the listener; the key manager; settings other than the floor.
* Of the user interfaces: everything but the Windows popup and the Windows page
  of the history.  In the popup: drawing, context menus, the typing itself.

About 15% of the implementation's lines are mapped.  Most of the rest draws
windows, handles resources and themes of a platform (vendored dark-mode code
alone is a quarter of all lines), parses options or formats text: it has no
state that the properties of section 1.4 are about, and a model of it would
repeat the code.

## 7. Plan

1. *(done)* clock, record, store, host, mesh; their proofs up to the host, with
   the action properties through a restart.
2. *(done)* persistence, peer manager, reconciler and discovery.
3. *(done)* the connection from close by (`Link`), the history and its page, the
   echo guard and sharing, the command line and the register actions, the popup;
   the abstract history and both refinements.
4. Models left: the history's persistence and the iOS inbox (a crash between
   taking an item from the inbox and saving it), the listener, the baseline of
   the address fingerprint after a failed start, discovery on Apple and Linux.
5. *(done)* proofs of the mesh and its refinement, of the link, the persistence,
   the peer manager, discovery, the popup, the gateway, the history and its
   refinement, and the sharing: all their safety properties.
6. Proofs left: a statement about meshes of more than two hosts that holds
   in place of `QuietMeansCaughtUp`, and one about limited histories in place of
   `CalmUseAgrees`.  Both first need a property that is true of the code.

To run: `tlc -config MCRegisterHost.cfg MCRegisterHost` for a run,
`tlapm RegisterMesh_proofs.tla` for the proofs of a module.
