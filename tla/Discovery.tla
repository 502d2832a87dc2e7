------------------------------ MODULE Discovery ------------------------------
(***************************************************************************)
(* Peer discovery on Windows (MDNSDiscovery_Win32.cpp) and the reconciler  *)
(* it drives.  A device announces itself under an instance name, a new one *)
(* each time.  The resolver of the operating system reports instances to a *)
(* browse callback, one record after another, and resolves each on a       *)
(* thread of its own; both take what to report under a mutex and report it *)
(* after they have released it, so reports may overtake each other and may *)
(* outlive the browse.                                                     *)
(***************************************************************************)
EXTENDS OutgoingReconciler, SequencesExt

CONSTANTS
    Instances,      \* the instance names
    Announcers,     \* who may announce which instance, and where it listens
    MaxReports,     \* bound: reports on their way at once
    MaxFaults       \* bound: failures of the resolver and changes of the network

ASSUME DiscoveryAssumption ==
    /\ Announcers \subseteq [Instances -> [host : Hosts, endpoint : Endpoints]]
    /\ MaxReports \in Nat /\ MaxFaults \in Nat

VARIABLES
    announcer,  \* who announces which instance: never changes
    announced,  \* the network: the instances that are there
    started,    \* s.started, and with it s.callback
    live,       \* the keys of s.liveInstances: what the browse has reported
    resolved,   \* those of them that are resolved
    listed,     \* the instances in s.liveByHostId, under whichever host
    resolving,  \* instances with a resolve under way
    reports,    \* callbacks taken under the mutex and not yet made, in order
    stray,      \* history: hosts for which something known to go wrong did
    disowned,   \* history: those whose dial the reconciler may be wrong about
    faults      \* how many faults have happened

discoveryVars == <<started, live, resolved, listed>>
resolverVars  == <<announcer, announced, resolving>>
vars == <<trackVars, runtimeVars, discoveryVars, resolverVars, reports, stray, disowned, faults>>

HostOf(i) == announcer[i].host

Of(h) == {i \in Instances : HostOf(i) = h}

Init ==
    /\ ReconcilerInit
    /\ announcer \in Announcers
    /\ announced = {} /\ resolving = {}
    /\ started = FALSE /\ live = {} /\ resolved = {} /\ listed = {}
    /\ reports = <<>>
    /\ stray = {} /\ disowned = {}
    /\ faults = 0

Fault == faults < MaxFaults /\ faults' = faults + 1

(***************************************************************************)
(* The network and the resolver (external).                                *)
(***************************************************************************)
Announce(i) ==
    /\ i \notin announced
    /\ announced' = announced \cup {i}
    /\ UNCHANGED <<announcer, trackVars, runtimeVars, discoveryVars, resolving,
                   reports, stray, faults, disowned>>

(* By a goodbye, or by silence until its records expire.                    *)
Withdraw(i) ==
    /\ i \in announced
    /\ announced' = announced \ {i}
    /\ UNCHANGED <<announcer, trackVars, runtimeVars, discoveryVars, resolving,
                   reports, stray, faults, disowned>>

(***************************************************************************)
(* Reports.                                                                *)
(***************************************************************************)
Added(i) == [event |-> "added", host |-> HostOf(i), endpoint |-> announcer[i].endpoint,
             browse |-> TRUE]

Removed(h) == [event |-> "removed", host |-> h, endpoint |-> None, browse |-> TRUE]

Report(r) == Len(reports) < MaxReports /\ reports' = Append(reports, r)

(* The browse callback makes a report before it looks at the next record.   *)
BrowseIdle ==
    \A k \in DOMAIN reports : reports[k].browse => reports[k].event = "added"

(* OnBrowseCallback on a record that is not a goodbye.                      *)
BrowseFound(i) ==
    /\ started /\ BrowseIdle
    /\ i \in announced \ live
    /\ live' = live \cup {i}
    /\ resolving' = resolving \cup {i}
    /\ UNCHANGED <<announcer, trackVars, runtimeVars, started, resolved, listed, announced,
                   reports, stray, faults, disowned>>

(* OnBrowseCallback on a goodbye: only the last instance of a host counts.  *)
BrowseGone(i) ==
    /\ started /\ BrowseIdle
    /\ i \in live \ announced
    /\ live' = live \ {i} /\ resolved' = resolved \ {i}
    /\ listed' = IF i \in resolved THEN listed \ {i} ELSE listed
    /\ IF i \in resolved \cap listed /\ listed \cap Of(HostOf(i)) = {i}
       THEN Report(Removed(HostOf(i)))
       ELSE UNCHANGED reports
    /\ UNCHANGED <<announcer, trackVars, runtimeVars, started, announced, resolving, stray, faults, disowned>>

(* Faulty variant: nobody looks whether discovery has stopped.              *)
HandleResolvedAnyway(i) ==
    /\ i \in resolving
    /\ resolving' = resolving \ {i}
    /\ resolved' = resolved \cup ({i} \cap live)
    /\ listed' = listed \cup {i}
    /\ Report(Added(i))
    /\ UNCHANGED <<announcer, trackVars, runtimeVars, started, live, announced, stray, faults, disowned>>

(* HandleResolved; once discovery has stopped, the answer is dropped.  An
   instance that is no longer live is listed all the same.                  *)
HandleResolved(i) ==
    /\ i \in resolving
    /\ resolving' = resolving \ {i}
    /\ IF ~started
       THEN UNCHANGED <<resolved, listed, reports, stray>>
       ELSE /\ resolved' = resolved \cup ({i} \cap live)
            /\ listed' = listed \cup {i}
            /\ Report(Added(i))
            /\ stray' = IF i \in live THEN stray ELSE stray \cup {HostOf(i)}
    /\ UNCHANGED <<announcer, trackVars, runtimeVars, started, live, announced, faults, disowned>>

(* A resolve that fails, or whose answer does not decrypt or has no address,
   is logged; the instance stays live and is not resolved again.            *)
ResolveFails(i) ==
    /\ i \in resolving
    /\ Fault
    /\ resolving' = resolving \ {i}
    /\ stray' = stray \cup {HostOf(i)}
    /\ UNCHANGED <<announcer, trackVars, runtimeVars, discoveryVars, announced, reports, disowned>>

(* The k-th report is made: it may overtake those before it.                *)
MakeReport(k) ==
    LET r == reports[k] IN
    /\ IF r.event = "added" THEN OnAdded(r.host, r.endpoint) ELSE OnRemoved(r.host)
    /\ reports' = RemoveAt(reports, k)
    /\ disowned' = IF r.browse THEN disowned ELSE disowned \cup {r.host}
    /\ stray' = IF ~r.browse \/ \E j \in 1 .. (k - 1) : reports[j].host = r.host
                THEN stray \cup {r.host} ELSE stray
    /\ UNCHANGED <<discoveryVars, resolverVars, faults>>

(***************************************************************************)
(* MDNSDiscovery::Start and Stop, and the network runtime around them.     *)
(***************************************************************************)
(* A browse callback that Stop cuts in on has found discovery started and does
   not look again: the instances it comes to after the maps are cleared count
   as live, and as known to the next browse.                                *)
StopBrowse(late) ==
    IF ~started THEN late = {} /\ UNCHANGED <<discoveryVars, resolving, reports>>
    ELSE /\ started' = FALSE
         /\ live' = late /\ resolving' = resolving \cup late
         /\ resolved' = {} /\ listed' = {}
         /\ reports' = [k \in DOMAIN reports |-> [reports[k] EXCEPT !.browse = FALSE]]

(* It may fail, for want of a network.                                      *)
StartBrowse ==
    \/ started' = TRUE /\ UNCHANGED faults
    \/ started' = FALSE /\ Fault

(* ThreadProc up to its loop.  Discovery that fails to start here waits for
   the interfaces to change.                                                *)
StartUp ==
    /\ thread = "starting"
    /\ StartBrowse
    /\ stray' = IF started' THEN stray ELSE Hosts
    /\ wakePending' = FALSE /\ interfacesChanged' = FALSE /\ republishPending' = FALSE
    /\ armed' = pendingRemoval
    /\ GoTo("asleep")
    /\ UNCHANGED <<trackVars, wanted, live, resolved, listed, resolverVars, reports, disowned>>

(* ProcessWake, on new addresses: hosts that leave before the new browse has
   seen them are not reported gone.                                         *)
StopForRestart ==
    /\ thread = "restart"
    /\ \E late \in SUBSET announced :
          /\ StopBrowse(late)
          /\ stray' = stray \cup Tracked \cup {HostOf(i) : i \in late}
    /\ GoTo("restarting")
    /\ UNCHANGED <<announcer, trackVars, wanted, wakePending, interfacesChanged, republishPending,
                   armed, announced, faults, disowned>>

StartAgain ==
    /\ thread = "restarting"
    /\ StartBrowse
    /\ republishPending' = ~started'
    /\ GoTo("sweep")
    /\ UNCHANGED <<trackVars, wanted, wakePending, interfacesChanged, armed,
                   live, resolved, listed, resolverVars, reports, stray, disowned>>

StopForGood ==
    /\ thread = "leaving"
    /\ \E late \in SUBSET announced :
          StopBrowse(late) /\ stray' = stray \cup {HostOf(i) : i \in late}
    /\ GoTo("clearing")
    /\ UNCHANGED <<announcer, trackVars, wanted, wakePending, interfacesChanged, republishPending,
                   armed, announced, faults, disowned>>

(* A dialler whose own host id cannot be read ends, and a cull takes it; the
   reconciler does not hear of it.                                          *)
DialerGivesUp(h) ==
    /\ dialled[h] # None
    /\ Fault
    /\ dialled' = [dialled EXCEPT ![h] = None]
    /\ stray' = Hosts /\ disowned' = disowned \cup {h}
    /\ UNCHANGED <<active, admitted, pendingRemoval, due, runtimeVars, discoveryVars,
                   resolverVars, reports>>

RuntimeStep ==
    /\ \/ Wake \/ SweepExpired \/ Break \/ ClearPeers \/ Reset
    /\ UNCHANGED <<discoveryVars, resolverVars, reports, stray, faults, disowned>>

(* The user stops the network, or starts it; the interfaces change.         *)
Disturb ==
    /\ Fault
    /\ RequestStop \/ SignalInterfaces
    /\ UNCHANGED <<discoveryVars, resolverVars, reports, stray, disowned>>

SwitchOn ==
    /\ StartRuntime
    /\ UNCHANGED <<discoveryVars, resolverVars, reports, stray, faults, disowned>>

GraceRunsOut(h) ==
    /\ GraceEnds(h)
    /\ UNCHANGED <<discoveryVars, resolverVars, reports, stray, faults, disowned>>

-----------------------------------------------------------------------------
Next ==
    \/ \E i \in Instances : Announce(i) \/ Withdraw(i)
    \/ \E i \in Instances : BrowseFound(i) \/ BrowseGone(i)
    \/ \E i \in Instances : HandleResolved(i) \/ ResolveFails(i)
    \/ \E k \in DOMAIN reports : MakeReport(k)
    \/ StartUp \/ StopForRestart \/ StartAgain \/ StopForGood
    \/ RuntimeStep \/ Disturb \/ SwitchOn
    \/ \E h \in Hosts : GraceRunsOut(h) \/ DialerGivesUp(h)

Spec == Init /\ [][Next]_vars

-----------------------------------------------------------------------------
Reports ==
    [event : {"added", "removed"}, host : Hosts, endpoint : Endpoints \cup {None},
     browse : BOOLEAN]

TypeOK ==
    /\ active \in [Hosts -> Endpoints \cup {None}]
    /\ dialled \in [Hosts -> Endpoints \cup {None}]
    /\ Cardinality(Dialled(dialled)) <= MaxOutgoing
    /\ admitted \subseteq Tracked /\ pendingRemoval \subseteq Tracked
    /\ due \subseteq pendingRemoval /\ armed \subseteq Hosts
    /\ thread \in {"off", "starting", "asleep", "restart",
                   "restarting", "sweep", "leaving", "clearing", "resetting"}
    /\ {wanted, wakePending, interfacesChanged, republishPending, started} \subseteq BOOLEAN
    /\ announcer \in Announcers /\ announced \subseteq Instances
    /\ resolved \subseteq live /\ live \subseteq Instances
    /\ listed \subseteq Instances /\ resolving \subseteq Instances
    /\ reports \in Seq(Reports)
    /\ stray \subseteq Hosts /\ disowned \subseteq Hosts /\ faults \in 0 .. MaxFaults

Running == thread \notin {"off", "starting", "resetting"}

Present(h) == announced \cap Of(h) # {}

(* "each tracked peer's admitted flag can't disagree with PeerManager", but
   for what strays: exactly the admitted hosts are dialled, each where it was
   last announced.                                                          *)
EndpointFollows ==
    Running => \A h \in Hosts \ disowned :
        dialled[h] = IF h \in admitted THEN active[h] ELSE None

(* "doesn't needlessly tear down and rebuild a healthy outgoing connection":
   a dial is dropped only if the network stops, if it moves, or if no
   instance of the host is listed, or only one whose report is on its way.   *)
KeepsHealthy ==
    [][\A h \in Hosts :
          dialled[h] # None /\ dialled'[h] # dialled[h] =>
             \/ h \in stray' \/ thread = "clearing"
             \/ dialled'[h] # None /\ dialled'[h] = active'[h]
             \/ listed \cap Of(h) = {}
             \/ \E k \in DOMAIN reports :
                   reports[k].host = h /\ reports[k].event = "added"]_vars

(* Nothing is left to do until a device comes or goes or something fails.   *)
Settled ==
    /\ thread = "asleep" /\ wanted /\ started
    /\ ~wakePending /\ ~republishPending /\ armed \cap due = {}
    /\ pendingRemoval = due /\ reports = <<>> /\ resolving = {} /\ live = announced

(* When everything has come to rest, a device that is there is dialled, as long
   as the cap leaves room, and one that is not there is not ("abandon outgoing
   connection attempts"): no departure, slot that came free, wake or report is
   lost between the browse, the reconciler and the sleeping thread.          *)
SettledIsRight ==
    Settled => \A h \in Hosts \ stray :
        IF Present(h) THEN dialled[h] # None \/ Cardinality(Dialled(dialled)) = MaxOutgoing
        ELSE dialled[h] = None

(* HandleResolved looks whether discovery is started "to avoid ... firing a
   callback after the consumer detached": once the network has stopped nobody
   is dialled, unless a report was on its way when discovery stopped.       *)
StoppedDialsNobody == thread = "off" => \A h \in Hosts \ disowned : dialled[h] = None

=============================================================================
