---------------------------- MODULE ClipSharing ----------------------------
(***************************************************************************)
(* One shared clipboard (main.cpp, NetworkRuntime.cpp, ClipboardActions.cpp,*)
(* ClipboardHashGuard.cpp, Peer.cpp).  On each host a thread notices what  *)
(* the user copies, stamps it as an event and broadcasts it; a receiving   *)
(* thread puts the events of the others into the history and onto the      *)
(* clipboard; the user interface shares an old item again, deletes one     *)
(* everywhere, and takes a delete back; a one-shot client (OneShotPeer.cpp)*)
(* hands a clip to one host, which passes it on.  A guard that remembers   *)
(* the last contents keeps a host from publishing what it was sent.        *)
(***************************************************************************)
EXTENDS ActivityItems

CONSTANTS
    Host,
    Dials,        \* the outgoing connections: pairs of a host and the host it dials
    Content,      \* what a user can copy
    Secret,       \* contents their application marks as private
    Blank,        \* the contents of a placeholder
    Unreadable,   \* what cannot be read as text or image: files, nothing at all
    None,
    Marks,        \* hosts whose platform marks the clipboard as written by the program
    Serving,      \* bound: the threads a host can have for the connections of one dialler
    ListLimits, SyncItems,
    MaxCopies, MaxEvents, MaxActions, MaxFaults

ASSUME ClipAssumption ==
    /\ Dials \subseteq Host \X Host /\ Secret \subseteq Content /\ Marks \subseteq Host
    /\ {Blank, Unreadable, None} \cap Content = {} /\ Blank # Unreadable
    /\ NoGuid \notin Nat \ {0} /\ None \notin [what : Content, ours : BOOLEAN]
    /\ None \notin [guid : Nat, put : BOOLEAN] /\ None \notin [guid : Nat, stamp : Nat]
    /\ None \notin [guid : Nat, stamp : Nat, tried : SUBSET Host]
    /\ None \notin Serving /\ ListLimits.maxItems \in Nat /\ SyncItems \in Nat
    /\ MaxCopies \in Nat /\ MaxEvents \in Nat /\ MaxActions \in Nat /\ MaxFaults \in Nat

VARIABLES
    clock,      \* the time, as far as stamps show it
    event,      \* event[g]: the contents of event g
    os,         \* os[h]: the clipboard of the operating system: what, and ours
    changed,    \* hosts whose clipboard thread has a change to look at
    guard,      \* guard[h]: the contents the hash guard holds as current, or None
    read,       \* read[h]: what the clipboard thread has read and not yet compared
    writing,    \* writing[h]: the event its receiving thread puts on the clipboard
    acting,     \* acting[h]: the item its user interface makes current
    store,      \* store[h]: the history
    undo,       \* undo[h]: the item of the undo slot, or None
    queue,      \* queue[d]: messageQueue_ of the outgoing peer d
    line,       \* line[d]: the serving thread the outgoing peer d is connected to, or None
    serving,    \* the established incoming peers: pairs of a dial and a serving thread
    wire,       \* wire[e]: what was sent to the incoming peer e and not yet handled
    asked,      \* dials on which a SYNC request is on its way back
    unasked,    \* dials that came in when their host counted an incoming peer already
    adrift,     \* events that were on their way when their sender started again
    relay,      \* the clip a one-shot client has to hand over, or None
    copies,     \* how often users copied
    actions,    \* how often users changed the history
    faults,     \* how many failures there were
    calm,       \* users waited for the mesh to come to rest, connections that failed too,
                \* no clipboard write failed and no host started again
    shared      \* what was last shared, in calm use

clipVars == <<os, changed, guard, read, writing>>
lossVars == <<unasked, adrift>>
linkVars == <<line, serving, wire, asked, lossVars>>
meshVars == <<queue, linkVars>>
userVars == <<acting, undo, relay, copies, actions>>
calmVars == <<calm, shared>>
sharingVars == <<clock, event, clipVars, store, userVars, meshVars, faults, calmVars>>

From(h) == {d \in Dials : d[1] = h}
To(h)   == {d \in Dials : d[2] = h}

(* The incoming peer an outgoing one is connected to, as far as it knows; the
   incoming peers a host counts (establishedIncomingCount_).                 *)
Ends        == Dials \X Serving
End(d)      == <<d, line[d]>>
Incoming(h) == {e \in serving : e[1] \in To(h)}

SharingInit ==
    /\ clock = 0 /\ event = <<>>
    /\ os = [h \in Host |-> [what |-> Unreadable, ours |-> FALSE]]
    /\ changed = {} /\ guard = [h \in Host |-> None] /\ read = [h \in Host |-> None]
    /\ writing = [h \in Host |-> None] /\ acting = [h \in Host |-> None]
    /\ store = [h \in Host |-> <<>>] /\ undo = [h \in Host |-> None]
    /\ queue = [d \in Dials |-> <<>>] /\ wire = [e \in Ends |-> <<>>]
    /\ \E n \in Serving : line = [d \in Dials |-> n] /\ serving = Dials \X {n}
    /\ asked = {} /\ unasked = {} /\ adrift = {} /\ relay = None
    /\ copies = 0 /\ actions = 0 /\ faults = 0 /\ calm = TRUE /\ shared = Unreadable

(* Nothing is under way anywhere, and everybody is connected.               *)
Quiet ==
    /\ changed = {} /\ asked = {} /\ relay = None
    /\ \A h \in Host : read[h] = None /\ writing[h] = None /\ acting[h] = None
    /\ \A d \in Dials : End(d) \in serving /\ queue[d] = <<>>
    /\ \A e \in Ends : wire[e] = <<>>

ItemOf(g, stamp) == [id |-> g, guid |-> g, stamp |-> stamp, learned |-> 0, bytes |-> 1]
Added(list, g, stamp) == ApplyLimits(AddItem(list, ItemOf(g, stamp)), ListLimits, 0)

Clip(g, stamp, replay) == [tag |-> "CLIP", guid |-> g, stamp |-> stamp, replay |-> replay]
Cdel(g) == [tag |-> "CDEL", guid |-> g]

(* PushMessage for every peer.  The queues of incoming peers are left out:
   nobody takes from them.                                                  *)
Broadcast(h, frame) ==
    queue' = [d \in Dials |-> IF d \in From(h) THEN Append(queue[d], frame) ELSE queue[d]]

Time == clock' = clock + 1

(***************************************************************************)
(* A user copies (external), and the clipboard thread.                     *)
(***************************************************************************)
(* Bound: a behaviour has user actions or failures, not both.  CalmUseAgrees is
   about the first and LossesAreReplayed about the second.                  *)
Fault == faults < MaxFaults /\ faults' = faults + 1 /\ actions = 0

Put(h, what, ours) ==
    /\ os' = [os EXCEPT ![h] = [what |-> what, ours |-> ours]]
    /\ changed' = changed \cup {h}

Copy(h, c) ==
    /\ copies < MaxCopies /\ copies' = copies + 1
    /\ Put(h, c, FALSE)
    /\ calm' = (calm /\ Quiet)
    /\ shared' = IF c \in Secret \cup {Unreadable} THEN shared ELSE c
    /\ UNCHANGED <<clock, event, guard, read, writing, store, acting, undo, relay, actions, meshVars, faults>>

(* ReadClipboardData up to AcceptCurrent.  Where the platform marks what the
   program wrote, that is not even read; nor is what has no format we know.  *)
ReadClipboardData(h) ==
    /\ h \in changed /\ read[h] = None
    /\ changed' = changed \ {h}
    /\ read' = IF (h \in Marks /\ os[h].ours) \/ os[h].what = Unreadable THEN read
               ELSE [read EXCEPT ![h] = os[h]]
    /\ UNCHANGED <<clock, event, os, guard, writing, store, userVars, meshVars, faults, calmVars>>

(* AcceptCurrent, and the rest of OnClipboardNotification: the contents are
   stamped as a new event of this host, stored and broadcast; private ones as
   an empty placeholder.                                                    *)
OnClipboardNotification(h) ==
    /\ read[h] # None /\ read' = [read EXCEPT ![h] = None]
    /\ IF guard[h] = read[h].what
       THEN UNCHANGED <<clock, event, guard, store, queue>>
       ELSE LET c == read[h].what
                g == Len(event) + 1
            IN  /\ g <= MaxEvents /\ Time
                /\ guard' = [guard EXCEPT ![h] = c]
                /\ event' = Append(event, IF c \in Secret THEN Blank ELSE c)
                /\ store' = [store EXCEPT ![h] = Added(@, g, clock')]
                /\ Broadcast(h, Clip(g, clock', FALSE))
    /\ UNCHANGED <<os, changed, writing, userVars, linkVars, faults, calmVars>>

(***************************************************************************)
(* The receiving thread.                                                   *)
(***************************************************************************)
(* Mutant of OnClipboardReceived: a replay goes onto the clipboard too.    *)
ReplayAsLive(h, clip) ==
    LET c    == event[clip.guid]
        live == c # Blank
    IN  IF live /\ guard[h] = c THEN UNCHANGED <<store, writing>>
        ELSE /\ store' = [store EXCEPT ![h] = Added(@, clip.guid, clip.stamp)]
             /\ writing' = IF live THEN [writing EXCEPT ![h] = [guid |-> clip.guid, put |-> FALSE]]
                           ELSE writing

(* OnClipboardReceived up to the write: what is current already is dropped, and
   not even stored; a replayed event or a placeholder goes to the history only. *)
OnClipboardReceived(h, clip) ==
    LET c    == event[clip.guid]
        live == ~clip.replay /\ c # Blank
    IN  IF live /\ guard[h] = c THEN UNCHANGED <<store, writing>>
        ELSE /\ store' = [store EXCEPT ![h] = Added(@, clip.guid, clip.stamp)]
             /\ writing' = IF live THEN [writing EXCEPT ![h] = [guid |-> clip.guid, put |-> FALSE]]
                           ELSE writing

Receive(e) ==
    /\ e \in serving /\ wire[e] # <<>>
    /\ LET h     == e[1][2]
           frame == Head(wire[e])
       IN  /\ writing[h] = None
           /\ \/ frame.tag = "CLIP" /\ OnClipboardReceived(h, frame)
              \/ /\ frame.tag = "CDEL" /\ UNCHANGED writing
                 /\ store' = [store EXCEPT ![h] = RemoveByEventGuid(@, frame.guid)]
    /\ wire' = [wire EXCEPT ![e] = Tail(@)]
    /\ UNCHANGED <<clock, event, os, changed, guard, read, userVars, queue, line, serving, asked, lossVars,
                   faults, calmVars>>

(* SetClipboardData of a received payload.  Marked platforms hold the clipboard
   open until the guard is set; the others change the clipboard first, and
   declare the change as seen when the guard is set.                        *)
SetClipboardData(h) ==
    /\ writing[h] # None /\ ~writing[h].put
    /\ LET c == event[writing[h].guid]
       IN  \/ /\ guard[h] = c
              /\ writing' = [writing EXCEPT ![h] = None]
              /\ UNCHANGED <<os, changed, guard, faults, calm>>
           \/ /\ guard[h] # c /\ Put(h, c, TRUE) /\ UNCHANGED <<faults, calm>>
              /\ IF h \in Marks
                 THEN /\ guard' = [guard EXCEPT ![h] = c]
                      /\ writing' = [writing EXCEPT ![h] = None]
                 ELSE /\ writing' = [writing EXCEPT ![h].put = TRUE] /\ UNCHANGED guard
           \/ /\ guard[h] # c /\ Fault   \* cleared, and the write failed
              /\ Put(h, Unreadable, FALSE) /\ calm' = FALSE
              /\ writing' = [writing EXCEPT ![h] = None] /\ UNCHANGED guard
    /\ UNCHANGED <<clock, event, read, store, userVars, meshVars, shared>>

RememberCurrent(h) ==
    /\ writing[h] # None /\ writing[h].put
    /\ guard' = [guard EXCEPT ![h] = event[writing[h].guid]]
    /\ changed' = changed \ {h}
    /\ writing' = [writing EXCEPT ![h] = None]
    /\ UNCHANGED <<clock, event, os, read, store, userVars, meshVars, faults, calmVars>>

(***************************************************************************)
(* A one-shot client: the clip is stamped once and handed to one host after*)
(* the other until one acknowledges it.                                    *)
(***************************************************************************)
RelayPayloads(c) ==
    /\ relay = None /\ copies < MaxCopies /\ copies' = copies + 1
    /\ Len(event) < MaxEvents /\ Time
    /\ event' = Append(event, c)
    /\ relay' = [guid |-> Len(event'), stamp |-> clock', tried |-> {}]
    /\ calm' = (calm /\ Quiet)
    /\ shared' = c
    /\ UNCHANGED <<clipVars, store, acting, undo, actions, meshVars, faults>>

(* The gateway passes the clip on, whatever it does with it itself.  When the
   acknowledgement is lost the client tries the next host.                  *)
RelayVia(h) ==
    /\ relay # None /\ h \notin relay.tried /\ writing[h] = None
    /\ LET clip == Clip(relay.guid, relay.stamp, FALSE)
       IN  OnClipboardReceived(h, clip) /\ Broadcast(h, clip)
    /\ \/ relay' = None /\ UNCHANGED <<faults, calm>>
       \/ /\ Fault
          /\ relay' = IF relay.tried \cup {h} = Host THEN None ELSE [relay EXCEPT !.tried = @ \cup {h}]
          /\ UNCHANGED calm
    /\ UNCHANGED <<clock, event, os, changed, guard, read, acting, undo, copies, actions, linkVars, shared>>

(***************************************************************************)
(* The user interface.                                                     *)
(***************************************************************************)
UserActs ==
    /\ actions < MaxActions /\ actions' = actions + 1 /\ faults = 0
    /\ calm' = (calm /\ Quiet)

(* ReshareActivityItem as far as the forced write of the clipboard; the new
   stamp is above the stored one.  Placeholders have nothing to share.      *)
ReshareActivityItem(h, i) ==
    LET item  == store[h][i]
        c     == event[item.guid]
        stamp == IF clock' > item.stamp THEN clock' ELSE item.stamp + 1
    IN  /\ acting[h] = None /\ c # Blank /\ UserActs /\ Time
        /\ Put(h, c, TRUE)
        /\ guard' = IF h \in Marks THEN [guard EXCEPT ![h] = c] ELSE guard
        /\ acting' = [acting EXCEPT ![h] = [guid |-> item.guid, stamp |-> stamp]]
        /\ shared' = c
        /\ UNCHANGED <<event, read, writing, store, undo, relay, copies, meshVars, faults>>

(* The rest of ApplyAndBroadcastPayload.                                    *)
ApplyAndBroadcastPayload(h) ==
    /\ acting[h] # None
    /\ LET item == acting[h]
       IN  /\ store' = [store EXCEPT ![h] = Added(@, item.guid, item.stamp)]
           /\ Broadcast(h, Clip(item.guid, item.stamp, FALSE))
           /\ IF h \in Marks THEN UNCHANGED <<guard, changed>>
              ELSE /\ guard' = [guard EXCEPT ![h] = event[item.guid]]
                   /\ changed' = changed \ {h}
    /\ acting' = [acting EXCEPT ![h] = None]
    /\ undo' = [undo EXCEPT ![h] = None]
    /\ UNCHANGED <<clock, event, os, read, writing, relay, copies, actions, linkVars, faults, calmVars>>

DeleteActivityItemEverywhere(h, i) ==
    /\ acting[h] = None /\ UserActs
    /\ undo' = [undo EXCEPT ![h] = store[h][i]]
    /\ store' = [store EXCEPT ![h] = RemoveAt(@, i)]
    /\ Broadcast(h, Cdel(store[h][i].guid))
    /\ UNCHANGED <<clock, event, clipVars, acting, relay, copies, linkVars, faults, shared>>

(* TryUndoDelete: back into every history, and onto no clipboard.           *)
TryUndoDelete(h) ==
    /\ acting[h] = None /\ undo[h] # None /\ UserActs
    /\ store' = [store EXCEPT ![h] = Added(@, undo[h].guid, undo[h].stamp)]
    /\ Broadcast(h, Clip(undo[h].guid, undo[h].stamp, TRUE))
    /\ undo' = [undo EXCEPT ![h] = None]
    /\ UNCHANGED <<clock, event, clipVars, acting, relay, copies, linkVars, faults, shared>>

(***************************************************************************)
(* The connections.                                                        *)
(***************************************************************************)
(* The host asks a peer that comes in for its history when it counts no other
   incoming peer (TryEstablishIncomingPeer).                                 *)
Connect(d) ==
    /\ line[d] = None
    /\ \E n \in Serving :
         /\ <<d, n>> \notin serving
         /\ line' = [line EXCEPT ![d] = n] /\ serving' = serving \cup {<<d, n>>}
    /\ IF Incoming(d[2]) = {} THEN asked' = asked \cup {d} /\ unasked' = unasked \ {d}
       ELSE unasked' = unasked \cup {d} /\ UNCHANGED asked
    /\ UNCHANGED <<clock, event, clipVars, store, userVars, queue, wire, adrift, faults, calmVars>>

(* What an outgoing peer sends goes nowhere when the other end has gone.    *)
Send(d, frames) ==
    wire' = [e \in Ends |-> IF e = End(d) /\ e \in serving THEN wire[e] \o frames ELSE wire[e]]

(* DrainOutboundMessages: a message leaves the queue when it is sent.       *)
DrainOutboundMessages(d) ==
    /\ line[d] # None /\ queue[d] # <<>>
    /\ Send(d, <<Head(queue[d])>>)
    /\ queue' = [queue EXCEPT ![d] = Tail(@)]
    /\ UNCHANGED <<clock, event, clipVars, store, userVars, line, serving, asked, lossVars, faults, calmVars>>

Replays(items) == [n \in DOMAIN items |-> Clip(items[n].guid, items[n].stamp, TRUE)]

(* Mutant of AnswerSync: what follows the newest item the other host has.  *)
AnswerSyncFromTail(d) ==
    /\ d \in asked /\ asked' = asked \ {d}
    /\ LET theirs == store[d[2]]
           anchor == IF theirs = <<>> THEN NoGuid ELSE Last(theirs).guid
       IN  Send(d, Replays(ItemsSince(store[d[1]], anchor, SyncItems)))
    /\ UNCHANGED <<clock, event, clipVars, store, userVars, queue, line, serving, lossVars, faults, calmVars>>

(* The answer to SYNC: the newest items, as replays, straight onto the wire. *)
AnswerSync(d) ==
    /\ d \in asked /\ asked' = asked \ {d}
    /\ Send(d, Replays(ItemsSince(store[d[1]], NoGuid, SyncItems)))
    /\ UNCHANGED <<clock, event, clipVars, store, userVars, queue, line, serving, lossVars, faults, calmVars>>

(* A connection fails at one of its ends.  That the other end notices, when it
   next sends or has heard nothing for long enough, is no failure more.      *)
Goes(otherGone) ==
    IF otherGone THEN UNCHANGED <<faults, calm>> ELSE Fault /\ calm' = (calm /\ Quiet)

(* The dialling end goes.  What is queued stays with the peer object, unless that
   goes too; what was sent the other end may still read.                     *)
Break(d) ==
    /\ line[d] # None /\ Goes(End(d) \notin serving)
    /\ line' = [line EXCEPT ![d] = None] /\ asked' = asked \ {d}
    /\ queue' \in {queue, [queue EXCEPT ![d] = <<>>]}
    /\ UNCHANGED <<clock, event, clipVars, store, userVars, serving, wire, lossVars, shared>>

(* The serving end goes, with what it has not read, and is counted no more.  *)
OnIncomingPeerLeft(e) ==
    /\ e \in serving /\ Goes(e # End(e[1]))
    /\ serving' = serving \ {e} /\ wire' = [wire EXCEPT ![e] = <<>>]
    /\ UNCHANGED <<clock, event, clipVars, store, userVars, queue, line, asked, lossVars, shared>>

(* The program ends and starts again: all it knew is gone, the clipboard of the
   operating system is not.  The other ends of its connections have yet to
   notice.                                                                   *)
Restart(h) ==
    /\ Fault /\ calm' = FALSE
    /\ changed' = changed \ {h}
    /\ guard' = [guard EXCEPT ![h] = None] /\ read' = [read EXCEPT ![h] = None]
    /\ writing' = [writing EXCEPT ![h] = None] /\ acting' = [acting EXCEPT ![h] = None]
    /\ store' = [store EXCEPT ![h] = <<>>] /\ undo' = [undo EXCEPT ![h] = None]
    /\ line' = [d \in Dials |-> IF d \in From(h) THEN None ELSE line[d]]
    /\ queue' = [d \in Dials |-> IF d \in From(h) THEN <<>> ELSE queue[d]]
    /\ serving' = serving \ Incoming(h) /\ asked' = asked \ From(h)
    /\ wire' = [e \in Ends |-> IF e \in Incoming(h) THEN <<>> ELSE wire[e]]
    /\ adrift' = adrift \cup {f.guid : f \in UNION {ToSet(wire[e]) : e \in From(h) \X Serving}}
    /\ UNCHANGED <<clock, event, os, relay, copies, actions, unasked, shared>>

SharingNext ==
    \/ \E h \in Host :
         \/ \E c \in Content \cup {Unreadable} : Copy(h, c)
         \/ ReadClipboardData(h) \/ OnClipboardNotification(h)
         \/ SetClipboardData(h) \/ RememberCurrent(h)
         \/ \E i \in DOMAIN store[h] :
              ReshareActivityItem(h, i) \/ DeleteActivityItemEverywhere(h, i)
         \/ ApplyAndBroadcastPayload(h) \/ TryUndoDelete(h) \/ RelayVia(h) \/ Restart(h)
    \/ \E c \in Content \ Secret : RelayPayloads(c)
    \/ \E d \in Dials :
         Connect(d) \/ DrainOutboundMessages(d) \/ AnswerSync(d) \/ Break(d)
    \/ \E e \in Ends : Receive(e) \/ OnIncomingPeerLeft(e)

SharingSpec == SharingInit /\ [][SharingNext]_sharingVars

-----------------------------------------------------------------------------
Contents(h) == {event[g] : g \in Guids(store[h])}

Unlimited == ListLimits.maxItems = 0 /\ ListLimits.maxBytes = 0 /\ ~ListLimits.aged

(* Users who wait for each other share one clipboard and one history: when all
   is at rest, what was shared last is what a paste gives on every host, except
   where the host's own user has since copied something that cannot or must not
   be shared.  Connections may fail while all is at rest; no clipboard write
   fails and no host starts again (calm).  As long as nobody deletes, the
   histories list the same contents.  They list the same events too, except those
   that share their contents with another event: a host does not store an event
   whose contents its guard holds, and one that does not mark its writes may take
   one for its user's and publish it again, as a second event that can even
   overtake the first.                                                       *)
CalmUseAgrees ==
    calm /\ Quiet => \A h, p \in Host :
        /\ os[h].what \in {shared, Unreadable} \cup Secret
        /\ \A g \in Guids(store[h]) \ Guids(store[p]) : \E e \in DOMAIN event \ {g} : event[e] = event[g]
        /\ actions = 0 => Contents(h) = Contents(p)

(* Without deletes nothing that was shared stays missing: of two hosts at rest
   that dial each other, each lists what the other does, whatever was lost with a
   broken connection, a dropped peer or a restart, for each asks the other for
   its history when that comes back.  It does not ask one that comes back before
   the end of its earlier connection was noticed, and so counted no more: then
   what was lost stays lost (unasked).  Nor does it help what a host had sent,
   and the other not read, when the host started again (adrift).  Only the first
   incoming peer is asked, so this is about hosts whose one incoming peer is the
   other, with a history that neither its limits nor the length of an answer
   cuts short.                                                               *)
LossesAreReplayed ==
    actions = 0 /\ Quiet /\ Unlimited /\ Len(event) <= SyncItems =>
        \A h, p \in Host :
            To(h) = {<<p, h>>} /\ To(p) = {<<h, p>>} /\ <<p, h>> \notin unasked =>
                Contents(p) \subseteq Contents(h) \cup {event[g] : g \in adrift}

=============================================================================
