------------------------- MODULE OutgoingReconciler -------------------------
(***************************************************************************)
(* Which discovered devices a daemon dials (NetworkRuntime.cpp).  The      *)
(* reconciler stands between discovery's events and the peer manager: a    *)
(* departure becomes real only after a grace, a new announcement in        *)
(* between takes it back, a moved endpoint is dialled anew, and a device   *)
(* the cap refuses waits for a slot.  The thread of the network runtime    *)
(* sleeps until it is signalled or the next deadline, then starts          *)
(* discovery again if the interfaces changed, and sweeps.                  *)
(***************************************************************************)
EXTENDS Naturals, FiniteSets

CONSTANTS
    Hosts,          \* the other devices, by host id
    Endpoints,      \* the addresses and ports they listen at
    None,           \* no endpoint
    MaxOutgoing     \* PeerLimits::MaxOutgoingPeers

ASSUME ReconcilerAssumption ==
    /\ Hosts \subseteq Nat /\ IsFiniteSet(Hosts)
    /\ None \notin Endpoints /\ MaxOutgoing \in Nat

VARIABLES
    active,            \* active[h]: the endpoint tracked for h, or None
    admitted,          \* tracked hosts with the admitted flag
    pendingRemoval,    \* hosts whose departure is deferred
    due,               \* those whose grace has run out
    dialled,           \* dialled[h]: the endpoint of the outgoing peer object of h
    thread,            \* where the thread of the network runtime is
    wanted,            \* the user wants the network up (~stopRequested_)
    wakePending,       \* wakePending_
    interfacesChanged, \* interfacesChanged_
    republishPending,  \* republishPending_
    armed              \* the removals the sleeping thread's deadline was computed from

trackVars   == <<active, admitted, pendingRemoval, due, dialled>>
runtimeVars == <<thread, wanted, wakePending, interfacesChanged, republishPending, armed>>

Nobody == [h \in Hosts |-> None]

ReconcilerInit ==
    /\ active = Nobody /\ dialled = Nobody
    /\ admitted = {} /\ pendingRemoval = {} /\ due = {}
    /\ thread = "off" /\ wanted = FALSE
    /\ wakePending = FALSE /\ interfacesChanged = FALSE
    /\ republishPending = FALSE /\ armed = {}

Tracked == {h \in Hosts : active[h] # None}

Dialled(dials) == {h \in Hosts : dials[h] # None}

(* wake_ is set from the start of the thread to the final Reset.            *)
WakeSet == thread # "off"

(***************************************************************************)
(* PeerManager, as the reconciler sees it.                                 *)
(***************************************************************************)
(* AddPeer: a host that is dialled already keeps its peer object and its
   endpoint; otherwise the cap decides.                                     *)
Fits(dials, h) == dials[h] # None \/ Cardinality(Dialled(dials)) < MaxOutgoing

AddPeer(dials, h, e) ==
    IF dials[h] = None /\ Fits(dials, h) THEN [dials EXCEPT ![h] = e] ELSE dials

RemoveOutgoingPeers(dials, gone) == [h \in Hosts |-> IF h \in gone THEN None ELSE dials[h]]

(***************************************************************************)
(* OutgoingReconciler::OnEvent.                                            *)
(***************************************************************************)
(* Faulty variants: the runtime is not told of the new deadline; a host that
   is not tracked gets a grace as well.                                     *)
OnRemovedUntold(h) ==
    /\ IF h \in Tracked
       THEN pendingRemoval' = pendingRemoval \cup {h} /\ due' = due \ {h}
       ELSE UNCHANGED <<pendingRemoval, due>>
    /\ UNCHANGED <<wakePending, active, admitted, dialled, thread, wanted,
                   interfacesChanged, republishPending, armed>>

OnRemovedUntracked(h) ==
    /\ pendingRemoval' = pendingRemoval \cup {h} /\ due' = due \ {h}
    /\ wakePending' = (wakePending \/ WakeSet)
    /\ UNCHANGED <<active, admitted, dialled, thread, wanted,
                   interfacesChanged, republishPending, armed>>

(* A departure starts, or starts again, its grace.                          *)
OnRemoved(h) ==
    /\ IF h \in Tracked
       THEN /\ pendingRemoval' = pendingRemoval \cup {h}
            /\ due' = due \ {h}
            /\ wakePending' = (wakePending \/ WakeSet)
       ELSE UNCHANGED <<pendingRemoval, due, wakePending>>
    /\ UNCHANGED <<active, admitted, dialled, thread, wanted,
                   interfacesChanged, republishPending, armed>>

(* Faulty variants: a moved endpoint is recorded and not dialled; the grace
   runs on.                                                                 *)
OnAddedInPlace(h, e) ==
    /\ pendingRemoval' = pendingRemoval \ {h} /\ due' = due \ {h}
    /\ active' = [active EXCEPT ![h] = e]
    /\ dialled' = AddPeer(dialled, h, e)
    /\ admitted' = IF Fits(dialled, h) THEN admitted \cup {h} ELSE admitted \ {h}
    /\ UNCHANGED runtimeVars

OnAddedGraceRuns(h, e) ==
    /\ active' = [active EXCEPT ![h] = e]
    /\ dialled' = AddPeer(RemoveOutgoingPeers(dialled, {h}), h, e)
    /\ admitted' = IF h \in Dialled(dialled') THEN admitted \cup {h} ELSE admitted \ {h}
    /\ UNCHANGED <<pendingRemoval, due, runtimeVars>>

(* An announcement takes a deferred departure back.  A new host is dialled,
   an admitted one at its old endpoint left alone, a moved one dialled anew
   and a refused one tried again.                                           *)
OnAdded(h, e) ==
    LET moved == h \in Tracked /\ active[h] # e
        kept  == IF moved /\ h \in admitted THEN RemoveOutgoingPeers(dialled, {h})
                 ELSE dialled
    IN  /\ pendingRemoval' = pendingRemoval \ {h}
        /\ due' = due \ {h}
        /\ active' = [active EXCEPT ![h] = e]
        /\ IF h \in Tracked /\ ~moved /\ h \in admitted
           THEN UNCHANGED <<admitted, dialled>>
           ELSE /\ dialled' = AddPeer(kept, h, e)
                /\ admitted' = IF Fits(kept, h) THEN admitted \cup {h} ELSE admitted \ {h}
        /\ UNCHANGED runtimeVars

(***************************************************************************)
(* OutgoingReconciler::Sweep and what it calls.                            *)
(***************************************************************************)
(* AdmitPendingPeers: in host id order, until one does not fit.  A host
   that has a peer object already only gets its flag.                       *)
AdmitPendingPeers(candidates, dials) ==
    {h \in candidates :
        \A g \in {k \in candidates : k <= h} :
            \/ dials[g] # None
            \/ Cardinality(Dialled(dials) \cup {k \in candidates : k < g}) < MaxOutgoing}

(* Faulty variant: the freed slots are left empty.                          *)
SweepOnly ==
    LET kept == RemoveOutgoingPeers(dialled, due \cap admitted)
    IN  /\ active' = [h \in Hosts |-> IF h \in due THEN None ELSE active[h]]
        /\ pendingRemoval' = pendingRemoval \ due
        /\ due' = {}
        /\ dialled' = kept /\ admitted' = admitted \ due

Sweep ==
    LET kept   == RemoveOutgoingPeers(dialled, due \cap admitted)
        chosen == IF due \cap admitted = {} THEN {}
                  ELSE AdmitPendingPeers(Tracked \ (admitted \cup pendingRemoval), kept)
    IN  /\ active' = [h \in Hosts |-> IF h \in due THEN None ELSE active[h]]
        /\ pendingRemoval' = pendingRemoval \ due
        /\ due' = {}
        /\ dialled' = [h \in Hosts |-> IF h \in chosen /\ kept[h] = None THEN active[h]
                                       ELSE kept[h]]
        /\ admitted' = (admitted \ due) \cup chosen

(* Four seconds after the departure.                                        *)
GraceEnds(h) ==
    /\ h \in pendingRemoval \ due
    /\ due' = due \cup {h}
    /\ UNCHANGED <<active, admitted, pendingRemoval, dialled, runtimeVars>>

(***************************************************************************)
(* The thread of the network runtime.                                      *)
(***************************************************************************)
GoTo(place) == thread' = place

(* Out of stopCV_.wait, and into ProcessWake: the hash of the addresses may
   have moved, and the cooldown may be over.  One of the two deadlines of the
   sleep is republishPending itself, which no other thread writes.          *)
Wake ==
    /\ thread = "asleep" /\ wanted
    /\ wakePending \/ republishPending \/ armed \cap due # {}
    /\ wakePending' = FALSE /\ interfacesChanged' = FALSE
    /\ \/ republishPending' = TRUE /\ interfacesChanged
       \/ UNCHANGED republishPending
    /\ \/ GoTo("restart") /\ republishPending'
       \/ GoTo("sweep")
    /\ UNCHANGED <<trackVars, wanted, armed>>

(* The end of ProcessWake, and ComputeNextWake: what is signalled from here
   on is not in the deadline.                                               *)
SweepExpired ==
    /\ thread = "sweep"
    /\ Sweep
    /\ armed' = pendingRemoval'
    /\ GoTo("asleep")
    /\ UNCHANGED <<wanted, wakePending, interfacesChanged, republishPending>>

(* NetworkChangeMonitor: SignalWake(true).                                  *)
SignalInterfaces ==
    /\ thread # "off" /\ wanted
    /\ interfacesChanged' = TRUE /\ wakePending' = TRUE
    /\ UNCHANGED <<trackVars, thread, wanted, republishPending, armed>>

(* NetworkRuntime::Stop: the thread sees the request when it next sleeps.   *)
RequestStop ==
    /\ thread # "off" /\ wanted
    /\ wanted' = FALSE
    /\ UNCHANGED <<trackVars, thread, wakePending, interfacesChanged, republishPending, armed>>

Break ==
    /\ thread = "asleep" /\ ~wanted
    /\ GoTo("leaving")
    /\ UNCHANGED <<trackVars, wanted, wakePending, interfacesChanged, republishPending, armed>>

(* ClearPeers, then Reset: two mutexes, one after the other.                *)
ClearPeers ==
    /\ thread = "clearing"
    /\ dialled' = Nobody
    /\ GoTo("resetting")
    /\ UNCHANGED <<active, admitted, pendingRemoval, due, wanted, wakePending,
                   interfacesChanged, republishPending, armed>>

Forget == active' = Nobody /\ admitted' = {} /\ pendingRemoval' = {} /\ due' = {}

Reset ==
    /\ thread = "resetting"
    /\ Forget
    /\ GoTo("off")
    /\ UNCHANGED <<dialled, wanted, wakePending, interfacesChanged, republishPending, armed>>

(* NetworkRuntime::Start: the thread's first act is a Reset of its own.     *)
StartRuntime ==
    /\ thread = "off"
    /\ wanted' = TRUE
    /\ Forget
    /\ GoTo("starting")
    /\ UNCHANGED <<dialled, wakePending, interfacesChanged, republishPending, armed>>

=============================================================================
