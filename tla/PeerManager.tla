----------------------------- MODULE PeerManager -----------------------------
(***************************************************************************)
(* The peer objects of one daemon and the threads that run them            *)
(* (PeerManager.cpp, the life cycle of Peer.cpp, the connection counts of  *)
(* PeerDisplay.cpp).  A short critical section under peersMutex_ is one    *)
(* step.  The walks that remove peers are not: they hold the mutex while   *)
(* they stop a peer, and stopping a peer joins its thread.                 *)
(***************************************************************************)
EXTENDS Naturals, FiniteSets

CONSTANTS
    Peers,                 \* storage for peer objects, used again once free
    HostIds,               \* remote devices
    NoHost,                \* the host id of a peer not yet authenticated
    Addresses,             \* remote addresses
    MaxOutgoing,           \* PeerLimits::MaxOutgoingPeers
    MaxEstablished,        \* PeerLimits::MaxAuthenticatedIncomingPeers
    MaxPending,            \* PeerLimits::MaxPendingIncomingAuthentications
    MaxPendingPerAddress,  \* PeerLimits::MaxPendingIncomingAuthenticationsPerIp
    MaxCulls               \* bound: culls still to run when a peer is added

ASSUME PeerManagerAssumption ==
    /\ IsFiniteSet(Peers)
    /\ NoHost \notin HostIds
    /\ {MaxOutgoing, MaxEstablished, MaxPending, MaxPendingPerAddress, MaxCulls} \subseteq Nat

VARIABLES
    phase,        \* NetworkRuntime: "running", "stopping" or "stopped"
    list,         \* peers_
    kind,         \* kind[p]: "outgoing" or "incoming"
    host,         \* host[p]: hostID_
    address,      \* address[p]: ip_
    thread,       \* thread[p]: where p's thread is
    stopped,      \* peers with stopRequested_
    running,      \* peers with running_
    pending,      \* peers with incomingAuthenticationPending_
    established,  \* establishedIncomingCount_
    shown,        \* shown[k][h]: the connections PeerDisplay counts
    culls,        \* detached threads about to call CullPeers
    walk          \* the removing walk that holds peersMutex_, or NoWalk

peerVars  == <<list, kind, host, address, thread, stopped, running, pending>>
countVars == <<established, shown, culls>>
vars == <<phase, peerVars, countVars, walk>>

Kinds == {"outgoing", "incoming"}

NoWalk == [op |-> "none"]

Init ==
    /\ phase = "running"
    /\ list = {}
    /\ kind = [p \in Peers |-> "outgoing"]
    /\ host = [p \in Peers |-> NoHost]
    /\ address \in {[p \in Peers |-> a] : a \in Addresses}
    /\ thread = [p \in Peers |-> "none"]
    /\ stopped = {} /\ running = {} /\ pending = {}
    /\ established = 0
    /\ shown = [k \in Kinds |-> [h \in HostIds |-> 0]]
    /\ culls = 0
    /\ walk = NoWalk

MutexFree == walk = NoWalk

Of(k) == {p \in list : kind[p] = k}

At(p, place) == thread' = [thread EXCEPT ![p] = place]

Show(k, h) == shown' = [shown EXCEPT ![k][h] = @ + 1]

(* Faulty variant: every removal is told as that of a dial.                 *)
UnshowDial(p) ==
    shown' = IF host[p] = NoHost \/ shown["outgoing"][host[p]] = 0 THEN shown
             ELSE [shown EXCEPT !["outgoing"][host[p]] = @ - 1]

(* NotifyPeerRemoved: a host without an entry is left alone.                *)
Unshow(p) ==
    shown' = IF host[p] = NoHost \/ shown[kind[p]][host[p]] = 0 THEN shown
             ELSE [shown EXCEPT ![kind[p]][host[p]] = @ - 1]

(***************************************************************************)
(* Admission.                                                              *)
(***************************************************************************)
Construct(p, k, h, a) ==
    /\ p \notin list
    /\ culls < MaxCulls
    /\ list' = list \cup {p}
    /\ kind' = [kind EXCEPT ![p] = k]
    /\ host' = [host EXCEPT ![p] = h]
    /\ address' = [address EXCEPT ![p] = a]
    /\ stopped' = stopped \ {p}

(* Peer::Start: without a wake event there is no thread, and the object is
   left to a cull.                                                          *)
Launch(p, place) ==
    \/ /\ running' = running \cup {p}
       /\ At(p, place)
       /\ UNCHANGED culls
    \/ /\ running' = running \ {p}
       /\ At(p, "exited")
       /\ culls' = culls + 1

AddPeer(p, h, a) ==
    /\ phase = "running" /\ MutexFree
    /\ \A q \in Of("outgoing") : host[q] # h
    /\ Cardinality(Of("outgoing")) < MaxOutgoing
    /\ Construct(p, "outgoing", h, a)
    /\ Show("outgoing", h)
    /\ Launch(p, "dialling")
    /\ UNCHANGED <<phase, pending, established, walk>>

PendingFrom(a) == {q \in list \cap pending : address[q] = a}

(* Faulty variant: the connection that exceeds the limits is let in.        *)
AddIncomingPeerLate(p, a) ==
    /\ phase = "running" /\ MutexFree
    /\ Cardinality(list \cap pending) <= MaxPending
    /\ Cardinality(PendingFrom(a)) <= MaxPendingPerAddress
    /\ Construct(p, "incoming", NoHost, a)
    /\ Launch(p, "handshake")
    /\ pending' = IF p \in running' THEN pending \cup {p} ELSE pending \ {p}
    /\ UNCHANGED <<phase, established, shown, walk>>

AddIncomingPeer(p, a) ==
    /\ phase = "running" /\ MutexFree
    /\ Cardinality(list \cap pending) < MaxPending
    /\ Cardinality(PendingFrom(a)) < MaxPendingPerAddress
    /\ Construct(p, "incoming", NoHost, a)
    /\ Launch(p, "handshake")
    /\ pending' = IF p \in running' THEN pending \cup {p} ELSE pending \ {p}
    /\ UNCHANGED <<phase, established, shown, walk>>

(***************************************************************************)
(* The threads of the peers.                                               *)
(***************************************************************************)
(* Faulty variant: a thread that ends asks for no cull.                     *)
ExitSilently(p) ==
    /\ At(p, "exited")
    /\ running' = running \ {p}
    /\ pending' = pending \ {p}
    /\ UNCHANGED <<phase, list, kind, host, address, stopped, shown, culls, walk>>

Exit(p) ==
    /\ At(p, "exited")
    /\ running' = running \ {p}
    /\ pending' = pending \ {p}
    /\ culls' = culls + 1
    /\ UNCHANGED <<phase, list, kind, host, address, stopped, shown, walk>>

(* ThreadProcSend: dial, back off and dial again until stopped.             *)
DialSucceeds(p) ==
    /\ thread[p] = "dialling" /\ p \notin stopped
    /\ At(p, "connected")
    /\ UNCHANGED <<phase, list, kind, host, address, stopped, running, pending,
                   countVars, walk>>

ConnectionBreaks(p) ==
    /\ thread[p] = "connected" /\ p \notin stopped
    /\ At(p, "dialling")
    /\ UNCHANGED <<phase, list, kind, host, address, stopped, running, pending,
                   countVars, walk>>

DialerExits(p) ==
    /\ thread[p] \in {"dialling", "connected"} /\ p \in stopped
    /\ Exit(p)
    /\ UNCHANGED established

(* The device's own host id cannot be read: nobody stopped this dialer, and
   nobody dials the host again until discovery reports it anew.             *)
DialerGivesUp(p) ==
    /\ thread[p] = "dialling" /\ p \notin stopped
    /\ Exit(p)
    /\ UNCHANGED established

(* ThreadProcRecv: the handshake fails by itself or is cut by a stop.       *)
HandshakeFails(p) ==
    /\ thread[p] = "handshake"
    /\ Exit(p)
    /\ UNCHANGED established

HandshakeSucceeds(p) ==
    /\ thread[p] = "handshake"
    /\ At(p, "authenticated")
    /\ pending' = pending \ {p}
    /\ UNCHANGED <<phase, list, kind, host, address, stopped, running,
                   countVars, walk>>

(* TryEstablishIncomingPeer, under a mutex of its own.                      *)
Establish(p) ==
    /\ thread[p] = "authenticated"
    /\ established < MaxEstablished
    /\ established' = established + 1
    /\ At(p, "introducing")
    /\ UNCHANGED <<phase, list, kind, host, address, stopped, running, pending,
                   shown, culls, walk>>

(* Faulty variant: a rejected connection gives back a slot it never had.    *)
EstablishRejectedLeaving(p) ==
    /\ thread[p] = "authenticated"
    /\ established >= MaxEstablished
    /\ Exit(p)
    /\ established' = IF established > 0 THEN established - 1 ELSE 0

EstablishRejected(p) ==
    /\ thread[p] = "authenticated"
    /\ established >= MaxEstablished
    /\ Exit(p)
    /\ UNCHANGED established

(* hostID_ is set and the display told.                                     *)
Introduce(p, h) ==
    /\ thread[p] = "introducing"
    /\ host' = [host EXCEPT ![p] = h]
    /\ Show("incoming", h)
    /\ At(p, "serving")
    /\ UNCHANGED <<phase, list, kind, address, stopped, running, pending,
                   established, culls, walk>>

(* A frame whose handler broadcasts: a relayed clip, REGW or RPUT.          *)
RelayArrives(p) ==
    /\ thread[p] = "serving" /\ p \notin stopped
    /\ At(p, "relaying")
    /\ UNCHANGED <<phase, list, kind, host, address, stopped, running, pending,
                   countVars, walk>>

(* BroadcastClipboard or BroadcastRegisterFrame on the peer's own thread.   *)
Relay(p) ==
    /\ thread[p] = "relaying" /\ MutexFree
    /\ At(p, "serving")
    /\ UNCHANGED <<phase, list, kind, host, address, stopped, running, pending,
                   countVars, walk>>

(* The client leaves, falls silent or is stopped: OnIncomingPeerLeft.       *)
ServerLeaves(p) ==
    /\ thread[p] = "serving"
    /\ established' = IF established > 0 THEN established - 1 ELSE 0
    /\ Exit(p)

(***************************************************************************)
(* The walks that remove peers: ClearPeers, RemoveOutgoingPeer, CullPeers. *)
(***************************************************************************)
(* Faulty variant: the walk visits objects that are no longer listed.       *)
BeginEverywhere(op, h) ==
    /\ MutexFree
    /\ walk' = [op |-> op, host |-> h, todo |-> Peers, joining |-> {}, doomed |-> {}]

Begin(op, h) ==
    /\ MutexFree
    /\ walk' = [op |-> op, host |-> h, todo |-> list, joining |-> {}, doomed |-> {}]

(* The last thing the thread of the network does.                           *)
ClearPeers ==
    /\ phase = "stopping"
    /\ Begin("clear", NoHost)
    /\ UNCHANGED <<phase, peerVars, countVars>>

RemoveOutgoingPeer(h) ==
    /\ phase = "running"
    /\ Begin("remove", h)
    /\ UNCHANGED <<phase, peerVars, countVars>>

CullPeers ==
    /\ culls > 0
    /\ culls' = culls - 1
    /\ Begin("cull", NoHost)
    /\ UNCHANGED <<phase, peerVars, established, shown>>

(* What a walk removes; an incoming peer may have been silent long enough.  *)
Wanted(p, silent) ==
    CASE walk.op = "clear"  -> TRUE
      [] walk.op = "remove" -> kind[p] = "outgoing" /\ host[p] = walk.host
      [] walk.op = "cull"   -> p \notin running \/ (kind[p] = "incoming" /\ silent)

(* Faulty variant: the thread is joined and not told to stop.               *)
VisitUnasked(p, silent) ==
    /\ ~MutexFree
    /\ walk.joining = {} /\ p \in walk.todo
    /\ walk' = [walk EXCEPT !.todo = @ \ {p}, !.joining = IF Wanted(p, silent) THEN {p} ELSE {}]
    /\ UNCHANGED <<phase, peerVars, countVars>>

Visit(p, silent) ==
    /\ ~MutexFree
    /\ walk.joining = {} /\ p \in walk.todo
    /\ IF Wanted(p, silent)
       THEN /\ walk' = [walk EXCEPT !.todo = @ \ {p}, !.joining = {p}]
            /\ stopped' = stopped \cup {p}
       ELSE /\ walk' = [walk EXCEPT !.todo = @ \ {p}]
            /\ UNCHANGED stopped
    /\ UNCHANGED <<phase, list, kind, host, address, thread, running, pending,
                   countVars>>

(* Faulty variant: the thread is not waited for.                            *)
JoinNobody(p) ==
    /\ ~MutexFree
    /\ p \in walk.joining
    /\ walk' = [walk EXCEPT !.joining = {}, !.doomed = @ \cup {p}]
    /\ Unshow(p)
    /\ UNCHANGED <<phase, peerVars, established, culls>>

(* Peer::Stop returns when the thread has ended.                            *)
Join(p) ==
    /\ ~MutexFree
    /\ p \in walk.joining /\ thread[p] = "exited"
    /\ walk' = [walk EXCEPT !.joining = {}, !.doomed = @ \cup {p}]
    /\ Unshow(p)
    /\ UNCHANGED <<phase, peerVars, established, culls>>

(* The removed objects are destroyed, and the mutex released.               *)
EndWalk ==
    /\ ~MutexFree
    /\ walk.todo = {} /\ walk.joining = {}
    /\ list' = list \ walk.doomed
    /\ kind' = [p \in Peers |-> IF p \in walk.doomed THEN "outgoing" ELSE kind[p]]
    /\ host' = [p \in Peers |-> IF p \in walk.doomed THEN NoHost ELSE host[p]]
    /\ stopped' = stopped \ walk.doomed
    /\ walk' = NoWalk
    /\ phase' = IF walk.op = "clear" THEN "stopped" ELSE phase
    /\ UNCHANGED <<address, thread, running, pending, countVars>>

(***************************************************************************)
(* The user's side.                                                        *)
(***************************************************************************)
(* Exit, or a change of the network key, which starts the network again: the
   listener and discovery have been stopped, so no peer is added any more.  *)
StopNetwork ==
    /\ phase = "running"
    /\ phase' = "stopping"
    /\ UNCHANGED <<peerVars, countVars, walk>>

StartNetwork ==
    /\ phase = "stopped"
    /\ phase' = "running"
    /\ UNCHANGED <<peerVars, countVars, walk>>

-----------------------------------------------------------------------------
ThreadStep(p) ==
    \/ DialerExits(p) \/ HandshakeSucceeds(p) \/ HandshakeFails(p)
    \/ Establish(p) \/ EstablishRejected(p)
    \/ (\E h \in HostIds : Introduce(p, h))
    \/ Relay(p)

Next ==
    \/ \E p \in Peers, a \in Addresses :
          AddIncomingPeer(p, a) \/ (\E h \in HostIds : AddPeer(p, h, a))
    \/ \E p \in Peers : ThreadStep(p)
    \/ \E p \in Peers : DialSucceeds(p) \/ ConnectionBreaks(p) \/ DialerGivesUp(p)
    \/ \E p \in Peers : RelayArrives(p) \/ ServerLeaves(p)
    \/ ClearPeers \/ CullPeers \/ EndWalk
    \/ \E h \in HostIds : RemoveOutgoingPeer(h)
    \/ \E p \in Peers : Join(p) \/ (\E silent \in BOOLEAN : Visit(p, silent))
    \/ StopNetwork \/ StartNetwork

Spec == Init /\ [][Next]_vars

(* Threads run.  A stopped peer leaves what it waits in, a handshake ends
   one way or the other, and a thread that keeps asking for the mutex, which
   is held for short, gets it.  Nobody has to connect, break or copy.       *)
Fairness ==
    /\ \A p \in Peers :
          /\ WF_vars(DialerExits(p))
          /\ WF_vars(HandshakeSucceeds(p) \/ HandshakeFails(p))
          /\ WF_vars(Establish(p) \/ EstablishRejected(p))
          /\ WF_vars(\E h \in HostIds : Introduce(p, h))
          /\ SF_vars(Relay(p))
          /\ SF_vars(p \in stopped /\ ServerLeaves(p))
          /\ WF_vars(\E silent \in BOOLEAN : Visit(p, silent))
          /\ WF_vars(Join(p))
    /\ WF_vars(EndWalk)
    /\ SF_vars(ClearPeers) /\ SF_vars(CullPeers)

FairSpec == Spec /\ Fairness

-----------------------------------------------------------------------------
Serving == {"introducing", "serving", "relaying"}

TypeOK ==
    /\ phase \in {"running", "stopping", "stopped"}
    /\ list \subseteq Peers
    /\ kind \in [Peers -> Kinds]
    /\ host \in [Peers -> HostIds \cup {NoHost}]
    /\ address \in [Peers -> Addresses]
    /\ thread \in [Peers -> {"none", "dialling", "connected", "handshake",
                             "authenticated", "exited"} \cup Serving]
    /\ stopped \subseteq Peers /\ running \subseteq Peers /\ pending \subseteq Peers
    /\ established \in Nat /\ culls \in Nat
    /\ shown \in [Kinds -> [HostIds -> Nat]]
    /\ MutexFree \/ (walk.todo \cup walk.joining \cup walk.doomed) \subseteq list

(* Nothing outlives the object it works on: once a peer is out of the list
   its thread has ended, whatever the order of stops, exits and culls.      *)
NoThreadOutlivesItsPeer ==
    \A p \in Peers \ list : thread[p] \in {"none", "exited"}

(* "Every accepted result must be paired with one OnIncomingPeerLeft call"
   (PeerManager.h): on every path out of a connection the slot comes back,
   so the limit never counts a connection that is gone.                     *)
EstablishedIsExact ==
    established = Cardinality({p \in Peers : thread[p] \in Serving})

(* The peers shown to the user are the peers there are: each connection is
   added once and taken away once, by whichever walk removes it.            *)
Told(p, k, h) == kind[p] = k /\ host[p] = h /\ p \in list

ShownIsExact ==
    MutexFree =>
        \A k \in Kinds, h \in HostIds :
            shown[k][h] = Cardinality({p \in Peers : Told(p, k, h)})

(* Neither the dials nor the handshakes in progress exceed their limits, and
   no host is dialled twice.                                                *)
AdmissionBounded ==
    /\ Cardinality(Of("outgoing")) <= MaxOutgoing
    /\ \A p, q \in Of("outgoing") : host[p] = host[q] => p = q
    /\ \A a \in Addresses :
          Cardinality({p \in list : thread[p] = "handshake" /\ address[p] = a})
              <= MaxPendingPerAddress
    /\ Cardinality({p \in list : thread[p] = "handshake"}) <= MaxPending

(* A peer waits for the mutex to relay, and a walk that has the mutex waits
   for that peer.                                                           *)
WalkStuck ==
    /\ ~MutexFree
    /\ \E p \in walk.joining : thread[p] = "relaying"

(* A peer whose thread has ended is taken out of the list in the end.       *)
DeadPeersAreCulled ==
    \A p \in Peers :
        p \in list /\ p \notin running
            ~> p \notin list \/ p \in running \/ []WalkStuck

(* Nothing else keeps the network from stopping: no lost wake, no slot, no
   cull and no other thread's walk.                                         *)
OnlyRelaysHoldUpStop == phase = "stopping" ~> phase = "stopped" \/ []WalkStuck

=============================================================================
