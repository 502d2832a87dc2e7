-------------------------- MODULE Discovery_proofs --------------------------
(***************************************************************************)
(* Discovery and the reconciler, for any devices, instances, endpoints and *)
(* any cap.  What the run checks when everything has come to rest is the   *)
(* end of a chain: a record of the browse becomes a live instance, a live  *)
(* instance a listed one, a listed one a report, a report a tracked host,  *)
(* and a tracked host a dial.  DiscoveryInv states each link of it at every *)
(* moment, for the hosts nothing has gone wrong for.                       *)
(***************************************************************************)
EXTENDS Discovery, FiniteSetTheorems, WellFoundedInduction, TLAPS

Sound == Hosts \ stray

(***************************************************************************)
(* From the browse to the list.                                            *)
(***************************************************************************)
(* Outside the loop of the thread, and while the browse is started again,
   discovery is stopped.                                                    *)
StoppedThreads ==
    thread \in {"off", "starting", "restarting", "clearing", "resetting"} => ~started

(* A stopped browse has nothing resolved, and what is live came late.       *)
StoppedIsEmpty ==
    ~started => listed = {} /\ resolved = {} /\ \A i \in live : HostOf(i) \in stray

(* An instance that is live is being resolved or is resolved, and what is
   listed is what is resolved.                                              *)
InstancesFollow ==
    /\ resolved \subseteq listed
    /\ \A i \in Instances : HostOf(i) \in Sound =>
          /\ i \in listed => i \in resolved
          /\ i \in live => i \in resolving \cup resolved

(***************************************************************************)
(* From the list to the reports, and from there to the tracked hosts.      *)
(***************************************************************************)
ReportsTyped ==
    \A k \in DOMAIN reports : reports[k].event = "added" => reports[k].endpoint # None

(* The reports of the present browse come after those of an earlier one,
   and there are none when it is stopped.                                   *)
BrowseOrdered ==
    /\ \A j, k \in DOMAIN reports : j < k /\ reports[j].browse => reports[k].browse
    /\ ~started => \A k \in DOMAIN reports : ~reports[k].browse

LastOf(h, k) ==
    /\ k \in DOMAIN reports /\ reports[k].host = h /\ reports[k].browse
    /\ \A j \in DOMAIN reports : k < j => reports[j].host # h

(* The present browse has no report of h on its way.                        *)
Silent(h) == \A k \in DOMAIN reports : reports[k].host = h => ~reports[k].browse

Listed(h) == listed \cap Of(h) # {}

(* The last word about a host that is under way is the truth, and so is what
   the reconciler has when none is.                                         *)
LastWordIsTrue ==
    \A h \in Sound, k \in DOMAIN reports :
        LastOf(h, k) => (reports[k].event = "added" <=> Listed(h))

TrackedIsListed ==
    thread \notin {"clearing", "resetting"} =>
        \A h \in Sound : Silent(h) => (Listed(h) <=> h \in Tracked \ pendingRemoval)

(***************************************************************************)
(* From the tracked hosts to the dials.                                    *)
(***************************************************************************)
(* A sleeping thread knows of every departure, or has been signalled.       *)
DeparturesArmed == thread = "asleep" => pendingRemoval \subseteq armed \/ wakePending

DialsStop ==
    thread \in {"off", "starting", "resetting"} =>
        \A h \in Hosts \ disowned :
            dialled[h] = None /\ (thread # "resetting" => h \notin admitted)

DisownedStray == disowned \subseteq stray

Waiting == Tracked \ (admitted \cup pendingRemoval)

(* A host waits only when the cap is reached.                               *)
WaitingMeansFull ==
    Sound # {} /\ thread # "resetting" /\ Waiting # {} =>
        Cardinality(Dialled(dialled)) = MaxOutgoing

-----------------------------------------------------------------------------
(***************************************************************************)
(* Sets of hosts.                                                          *)
(***************************************************************************)
LEMMA HostsFinite ==
    ASSUME NEW S \in SUBSET Hosts
    PROVE  IsFiniteSet(S) /\ Cardinality(S) \in Nat
BY FS_Subset, FS_CardinalityType, ReconcilerAssumption DEF ReconcilerAssumption

LEMMA FewerHosts ==
    ASSUME NEW S \in SUBSET Hosts, NEW T \in SUBSET S
    PROVE  Cardinality(T) <= Cardinality(S)
BY HostsFinite, FS_Subset

LEMMA OneMoreHost ==
    ASSUME NEW S \in SUBSET Hosts, NEW h \in Hosts, h \notin S
    PROVE  Cardinality(S \cup {h}) = Cardinality(S) + 1
BY HostsFinite, FS_AddElement

(* Host ids are natural numbers: some are the smallest of theirs, ...        *)
LEMMA SmallestOf ==
    ASSUME NEW S \in SUBSET Nat, S # {}
    PROVE  \E g \in S : \A k \in S : g <= k
<1>1. PICK g \in S : \A k \in S : ~(<<k, g>> \in OpToRel(<, Nat))
  BY NatLessThanWellFounded, WFMin, Zenon
<1>2. ASSUME NEW k \in S PROVE g <= k
  <2>1. k \in Nat /\ g \in Nat /\ ~(k < g)
    BY <1>1 DEF OpToRel
  <2> QED BY <2>1
<1> QED BY <1>2

(* ... and of finitely many, one is the largest: the one with the fewest
   above it.                                                                *)
LEMMA LargestOf ==
    ASSUME NEW S \in SUBSET Nat, IsFiniteSet(S), S # {}
    PROVE  \E g \in S : \A k \in S : k <= g
<1> DEFINE Above(g) == {k \in S : g < k}
           Counts == {Cardinality(Above(g)) : g \in S}
<1>1. ASSUME NEW g \in S PROVE IsFiniteSet(Above(g)) /\ Cardinality(Above(g)) \in Nat
  BY FS_Subset, FS_CardinalityType
<1>2. PICK c \in Counts : \A m \in Counts : c <= m
  <2>1. Counts \in SUBSET Nat /\ Counts # {}
    BY <1>1
  <2> HIDE DEF Counts
  <2> QED BY <2>1, SmallestOf
<1>3. PICK g \in S : c = Cardinality(Above(g))
  BY <1>2
<1>4. ASSUME NEW k \in S PROVE k <= g
  <2> SUFFICES ASSUME g < k PROVE FALSE
    OBVIOUS
  <2>1. Above(k) \in SUBSET Above(g) /\ k \in Above(g) /\ k \notin Above(k)
    <3>1. k \in Nat /\ g \in Nat /\ ~(k < k)
      BY <1>3
    <3>2. \A j \in S : k < j => g < j
      BY <3>1
    <3> QED BY <3>1, <3>2, Zenon
  <2>2. Cardinality(Above(k)) <= Cardinality(Above(g)) /\ Cardinality(Above(k)) # Cardinality(Above(g))
    <3> HIDE DEF Above
    <3> QED BY <1>1, <2>1, FS_Subset
  <2>3. c <= Cardinality(Above(k))
    BY <1>2
  <2> QED BY <1>1, <1>3, <2>2, <2>3
<1> QED BY <1>4

(***************************************************************************)
(* The dials of the peer manager.                                          *)
(***************************************************************************)
DialTable == [Hosts -> Endpoints \cup {None}]

LEMMA DialledTyped ==
    ASSUME NEW dials
    PROVE  /\ Dialled(dials) \in SUBSET Hosts
           /\ IsFiniteSet(Dialled(dials)) /\ Cardinality(Dialled(dials)) \in Nat
<1>1. Dialled(dials) \in SUBSET Hosts
  BY DEF Dialled
<1> QED BY <1>1, HostsFinite

(* A dial keeps to the cap, and costs no other host its own.                *)
LEMMA AddPeerKeepsCap ==
    ASSUME NEW dials \in DialTable, NEW h \in Hosts, NEW e \in Endpoints,
           Cardinality(Dialled(dials)) <= MaxOutgoing
    PROVE  /\ AddPeer(dials, h, e) \in DialTable
           /\ Cardinality(Dialled(AddPeer(dials, h, e))) <= MaxOutgoing
           /\ Cardinality(Dialled(dials)) <= Cardinality(Dialled(AddPeer(dials, h, e)))
           /\ ~Fits(dials, h) => Cardinality(Dialled(dials)) = MaxOutgoing
           /\ dials[h] = None /\ Fits(dials, h) =>
                 /\ AddPeer(dials, h, e)[h] = e
                 /\ Cardinality(Dialled(AddPeer(dials, h, e))) = Cardinality(Dialled(dials)) + 1
           /\ dials[h] # None \/ ~Fits(dials, h) => AddPeer(dials, h, e) = dials
           /\ \A g \in Hosts \ {h} : AddPeer(dials, h, e)[g] = dials[g]
<1>0. MaxOutgoing \in Nat /\ None \notin Endpoints
  BY ReconcilerAssumption DEF ReconcilerAssumption
<1>1. Cardinality(Dialled(dials)) \in Nat /\ Dialled(dials) \in SUBSET Hosts
  BY DialledTyped
<1>2. CASE dials[h] = None /\ Fits(dials, h)
  <2>1. AddPeer(dials, h, e) = [dials EXCEPT ![h] = e]
    BY <1>2 DEF AddPeer
  <2>2. /\ Dialled(AddPeer(dials, h, e)) = Dialled(dials) \cup {h} /\ h \notin Dialled(dials)
        /\ AddPeer(dials, h, e) \in DialTable /\ AddPeer(dials, h, e)[h] = e
        /\ \A g \in Hosts \ {h} : AddPeer(dials, h, e)[g] = dials[g]
    BY <1>0, <1>2, <2>1 DEF DialTable, Dialled
  <2>3. Cardinality(Dialled(AddPeer(dials, h, e))) = Cardinality(Dialled(dials)) + 1
    BY <1>1, <2>2, OneMoreHost
  <2>4. Cardinality(Dialled(dials)) < MaxOutgoing
    BY <1>2 DEF Fits
  <2> QED BY <1>0, <1>1, <1>2, <2>2, <2>3, <2>4
<1>3. CASE ~(dials[h] = None /\ Fits(dials, h))
  <2>1. AddPeer(dials, h, e) = dials
    BY <1>3 DEF AddPeer
  <2>2. ~Fits(dials, h) => Cardinality(Dialled(dials)) = MaxOutgoing
    BY <1>0, <1>1 DEF Fits
  <2> QED BY <1>0, <1>1, <1>3, <2>1, <2>2
<1> QED BY <1>2, <1>3

LEMMA RemoveKeepsCap ==
    ASSUME NEW dials \in DialTable, NEW gone
    PROVE  /\ RemoveOutgoingPeers(dials, gone) \in DialTable
           /\ Dialled(RemoveOutgoingPeers(dials, gone)) = Dialled(dials) \ gone
           /\ Cardinality(Dialled(RemoveOutgoingPeers(dials, gone))) <= Cardinality(Dialled(dials))
<1>1. /\ RemoveOutgoingPeers(dials, gone) \in DialTable
      /\ Dialled(RemoveOutgoingPeers(dials, gone)) = Dialled(dials) \ gone
  BY DEF RemoveOutgoingPeers, DialTable, Dialled
<1> QED BY <1>1, DialledTyped, FewerHosts

(***************************************************************************)
(* AdmitPendingPeers.                                                      *)
(***************************************************************************)
Admit(dials, chosen, where) ==
    [h \in Hosts |-> IF h \in chosen /\ dials[h] = None THEN where[h] ELSE dials[h]]

LEMMA AdmitDials ==
    ASSUME NEW dials \in DialTable, NEW where \in DialTable, NEW chosen \in SUBSET Hosts,
           \A h \in chosen : where[h] # None
    PROVE  /\ Admit(dials, chosen, where) \in DialTable
           /\ Dialled(Admit(dials, chosen, where)) = Dialled(dials) \cup chosen
BY DEF Admit, DialTable, Dialled

(* No more are admitted than the cap allows: the last of them had room.     *)
LEMMA AdmitKeepsCap ==
    ASSUME NEW dials \in DialTable, NEW candidates \in SUBSET Hosts,
           Cardinality(Dialled(dials)) <= MaxOutgoing
    PROVE  Cardinality(Dialled(dials) \cup AdmitPendingPeers(candidates, dials)) <= MaxOutgoing
<1> DEFINE chosen == AdmitPendingPeers(candidates, dials)
           fresh  == chosen \ Dialled(dials)
<1>0. MaxOutgoing \in Nat /\ Hosts \subseteq Nat
  BY ReconcilerAssumption DEF ReconcilerAssumption
<1>1. chosen \in SUBSET candidates /\ Dialled(dials) \in SUBSET Hosts
  BY DialledTyped DEF AdmitPendingPeers
<1>2. CASE fresh = {}
  <2>1. Dialled(dials) \cup chosen = Dialled(dials)
    BY <1>2
  <2> QED BY <2>1
<1>3. CASE fresh # {}
  <2>1. fresh \in SUBSET Nat /\ IsFiniteSet(fresh)
    BY <1>0, <1>1, HostsFinite
  <2> HIDE DEF fresh
  <2>2. PICK g \in fresh : \A k \in fresh : k <= g
    BY <1>3, <2>1, LargestOf
  <2> USE DEF fresh
  <2> DEFINE before == Dialled(dials) \cup {k \in candidates : k < g}
  <2>3. g \in candidates /\ g \in Hosts /\ g \in Nat /\ dials[g] = None /\ g \in chosen
    BY <1>0, <1>1, <2>2 DEF Dialled
  <2>4. Cardinality(before) < MaxOutgoing
    <3>1. g \in {k \in candidates : k <= g}
      BY <2>3
    <3> QED BY <2>3, <3>1 DEF AdmitPendingPeers
  <2>5. before \in SUBSET Hosts /\ g \notin before
    <3>1. ~(g < g) /\ g \notin Dialled(dials)
      BY <2>3 DEF Dialled
    <3> QED BY <1>1, <3>1
  <2>6. Dialled(dials) \cup chosen \in SUBSET (before \cup {g})
    <3>1. ASSUME NEW k \in fresh PROVE k \in before \cup {g}
      <4>1. k \in candidates /\ k \in Nat /\ k <= g
        BY <1>0, <1>1, <2>2
      <4>2. k < g \/ k = g
        BY <2>3, <4>1
      <4> QED BY <4>1, <4>2
    <3> QED BY <3>1
  <2> HIDE DEF before, chosen
  <2>7. Cardinality(before \cup {g}) = Cardinality(before) + 1
    BY <2>3, <2>5, OneMoreHost
  <2>8. Cardinality(Dialled(dials) \cup chosen) <= Cardinality(before \cup {g})
    BY <2>3, <2>5, <2>6, FewerHosts
  <2>9. /\ Cardinality(before) \in Nat
        /\ Cardinality(Dialled(dials) \cup chosen) \in Nat
    BY <1>1, <2>3, <2>5, <2>6, HostsFinite
  <2>10. Cardinality(Dialled(dials) \cup chosen) <= MaxOutgoing
    BY <1>0, <2>4, <2>7, <2>8, <2>9
  <2> QED BY <2>10 DEF chosen
<1> QED BY <1>2, <1>3

(* A candidate is left out only when the cap is reached: all before the first
   that did not fit are dialled.                                            *)
LEMMA AdmitFillsUp ==
    ASSUME NEW dials \in DialTable, NEW candidates \in SUBSET Hosts,
           Cardinality(Dialled(dials)) <= MaxOutgoing,
           candidates \ AdmitPendingPeers(candidates, dials) # {}
    PROVE  Cardinality(Dialled(dials) \cup AdmitPendingPeers(candidates, dials)) = MaxOutgoing
<1> DEFINE chosen == AdmitPendingPeers(candidates, dials)
           Room(g) == \/ dials[g] # None
                      \/ Cardinality(Dialled(dials) \cup {k \in candidates : k < g}) < MaxOutgoing
           refused == {g \in candidates : ~Room(g)}
<1>0. MaxOutgoing \in Nat /\ Hosts \subseteq Nat
  BY ReconcilerAssumption DEF ReconcilerAssumption
<1>1. Dialled(dials) \in SUBSET Hosts /\ chosen \in SUBSET candidates
  BY DialledTyped DEF AdmitPendingPeers
<1>2. \A h \in candidates : h \in chosen <=> \A g \in candidates : g <= h => Room(g)
  BY DEF AdmitPendingPeers
<1> HIDE DEF chosen, Room
<1>3. refused \in SUBSET Nat /\ refused # {}
  BY <1>0, <1>2 DEF chosen
<1> HIDE DEF refused
<1>4. PICK g \in refused : \A k \in refused : g <= k
  BY <1>3, SmallestOf
<1> USE DEF refused
<1>5. g \in candidates /\ ~Room(g) /\ g \in Nat
  BY <1>0, <1>4
<1> DEFINE before == Dialled(dials) \cup {k \in candidates : k < g}
<1>6. {k \in candidates : k < g} \subseteq chosen
  <2> SUFFICES ASSUME NEW k \in candidates, k < g, NEW j \in candidates, j <= k PROVE Room(j)
    BY <1>2
  <2>1. k \in Nat /\ j \in Nat /\ ~(g <= j)
    BY <1>0, <1>5
  <2> QED BY <1>4, <2>1
<1>7. before \in SUBSET (Dialled(dials) \cup chosen)
  BY <1>6
<1>8. ~(Cardinality(before) < MaxOutgoing)
  BY <1>5 DEF Room
<1>9. Dialled(dials) \cup chosen \in SUBSET Hosts
  BY <1>1
<1> HIDE DEF before
<1>10. Cardinality(before) <= Cardinality(Dialled(dials) \cup chosen)
  BY <1>7, <1>9, FewerHosts
<1>11. Cardinality(before) \in Nat /\ Cardinality(Dialled(dials) \cup chosen) \in Nat
  BY <1>7, <1>9, HostsFinite
<1>12. Cardinality(Dialled(dials) \cup chosen) <= MaxOutgoing
  BY AdmitKeepsCap DEF chosen
<1>13. Cardinality(Dialled(dials) \cup chosen) = MaxOutgoing
  BY <1>0, <1>8, <1>10, <1>11, <1>12
<1> QED BY <1>13 DEF chosen

-----------------------------------------------------------------------------
(***************************************************************************)
(* The type invariant, in the parts that steps disturb separately.         *)
(***************************************************************************)
TrackTypes ==
    /\ active \in DialTable /\ dialled \in DialTable
    /\ Cardinality(Dialled(dialled)) <= MaxOutgoing
    /\ admitted \subseteq Tracked /\ pendingRemoval \subseteq Tracked /\ due \subseteq pendingRemoval

RuntimeTypes ==
    /\ armed \subseteq Hosts
    /\ thread \in {"off", "starting", "asleep", "restart",
                   "restarting", "sweep", "leaving", "clearing", "resetting"}
    /\ wanted \in BOOLEAN /\ wakePending \in BOOLEAN
    /\ interfacesChanged \in BOOLEAN /\ republishPending \in BOOLEAN

BrowseTypes ==
    /\ started \in BOOLEAN
    /\ announcer \in Announcers /\ announced \subseteq Instances
    /\ resolved \subseteq live /\ live \subseteq Instances
    /\ listed \subseteq Instances /\ resolving \subseteq Instances

HistoryTypes == stray \subseteq Hosts /\ disowned \subseteq Hosts /\ faults \in 0 .. MaxFaults

ReportsInOrder == reports \in Seq(Reports)

Types == TrackTypes /\ RuntimeTypes /\ BrowseTypes /\ HistoryTypes /\ ReportsInOrder

LEMMA TypesAreTypeOK == TypeOK <=> Types
BY DEF TypeOK, Types, TrackTypes, RuntimeTypes, BrowseTypes, HistoryTypes, ReportsInOrder,
       DialTable

LEMMA HostOfTyped ==
    ASSUME Types, NEW i \in Instances
    PROVE  HostOf(i) \in Hosts /\ announcer[i].endpoint \in Endpoints
BY DiscoveryAssumption DEF Types, BrowseTypes, DiscoveryAssumption, HostOf

LEMMA ConstantFacts ==
    /\ MaxOutgoing \in Nat /\ None \notin Endpoints /\ Hosts \subseteq Nat
    /\ MaxReports \in Nat /\ MaxFaults \in Nat
BY ReconcilerAssumption, DiscoveryAssumption DEF ReconcilerAssumption, DiscoveryAssumption

(***************************************************************************)
(* What an announcement does to the dials.                                 *)
(***************************************************************************)
LEMMA OnAddedEffect ==
    ASSUME Types, NEW h \in Hosts, NEW e \in Endpoints, OnAdded(h, e)
    PROVE  /\ TrackTypes'
           /\ active' = [active EXCEPT ![h] = e]
           /\ Tracked' = Tracked \cup {h}
           /\ pendingRemoval' = pendingRemoval \ {h} /\ due' = due \ {h}
           /\ \A g \in Hosts \ {h} : /\ dialled'[g] = dialled[g]
                                     /\ g \in admitted' <=> g \in admitted
           /\ dialled[h] = (IF h \in admitted THEN active[h] ELSE None) =>
                 dialled'[h] = IF h \in admitted' THEN active'[h] ELSE None
           /\ Cardinality(Dialled(dialled)) <= Cardinality(Dialled(dialled'))
           /\ h \notin admitted' => Cardinality(Dialled(dialled')) = MaxOutgoing
<1> USE DEF Types, TrackTypes
<1> DEFINE moved == h \in Tracked /\ active[h] # e
           kept  == IF moved /\ h \in admitted THEN RemoveOutgoingPeers(dialled, {h})
                    ELSE dialled
<1>0. MaxOutgoing \in Nat /\ None \notin Endpoints
  BY ConstantFacts
<1>1. /\ pendingRemoval' = pendingRemoval \ {h} /\ due' = due \ {h}
      /\ active' = [active EXCEPT ![h] = e]
  BY DEF OnAdded
<1>2. active' \in DialTable /\ active'[h] = e /\ Tracked' = Tracked \cup {h}
  BY <1>0, <1>1 DEF DialTable, Tracked
<1>3. pendingRemoval' \subseteq Tracked' /\ due' \subseteq pendingRemoval'
  BY <1>1, <1>2
<1>4. CASE h \in Tracked /\ ~moved /\ h \in admitted
  <2>1. UNCHANGED <<admitted, dialled>>
    BY <1>4 DEF OnAdded
  <2>2. active[h] = e /\ TrackTypes' /\ Cardinality(Dialled(dialled)) \in Nat
    BY <1>2, <1>3, <1>4, <2>1, DialledTyped
  <2> QED BY <1>1, <1>2, <1>4, <2>1, <2>2
<1>5. CASE ~(h \in Tracked /\ ~moved /\ h \in admitted)
  <2>1. /\ dialled' = AddPeer(kept, h, e)
        /\ admitted' = IF Fits(kept, h) THEN admitted \cup {h} ELSE admitted \ {h}
    BY <1>5 DEF OnAdded
  <2>2. /\ kept \in DialTable /\ Cardinality(Dialled(kept)) <= MaxOutgoing
        /\ \A g \in Hosts \ {h} : kept[g] = dialled[g]
    <3>1. CASE moved /\ h \in admitted
      <4>1. kept = RemoveOutgoingPeers(dialled, {h})
        BY <3>1
      <4>2. \A g \in Hosts \ {h} : kept[g] = dialled[g]
        BY <4>1 DEF RemoveOutgoingPeers
      <4>3. kept \in DialTable /\ Cardinality(Dialled(kept)) <= Cardinality(Dialled(dialled))
        BY <4>1, RemoveKeepsCap
      <4> QED BY <1>0, <4>2, <4>3, DialledTyped
    <3>2. CASE ~(moved /\ h \in admitted)
      BY <3>2
    <3> QED BY <3>1, <3>2
  <2> HIDE DEF kept
  <2>3. /\ dialled' \in DialTable /\ Cardinality(Dialled(dialled')) <= MaxOutgoing
        /\ Cardinality(Dialled(kept)) <= Cardinality(Dialled(dialled'))
        /\ ~Fits(kept, h) => Cardinality(Dialled(kept)) = MaxOutgoing /\ dialled' = kept
        /\ kept[h] = None /\ Fits(kept, h) =>
              /\ dialled'[h] = e
              /\ Cardinality(Dialled(dialled')) = Cardinality(Dialled(kept)) + 1
        /\ kept[h] # None => dialled' = kept
        /\ \A g \in Hosts \ {h} : dialled'[g] = dialled[g]
    BY <2>1, <2>2, AddPeerKeepsCap
  <2>4. TrackTypes'
    BY <1>2, <1>3, <2>1, <2>3
  <2>5. h \notin admitted' => Cardinality(Dialled(dialled')) = MaxOutgoing
    BY <2>1, <2>3
  <2>6. Cardinality(Dialled(dialled)) <= Cardinality(Dialled(dialled'))
    <3>1. CASE moved /\ h \in admitted
      <4>1. /\ Dialled(kept) = Dialled(dialled) \ {h} /\ kept[h] = None
            /\ Dialled(dialled) \in SUBSET Hosts
        BY <3>1, RemoveKeepsCap, DialledTyped DEF kept, RemoveOutgoingPeers
      <4>2. /\ Cardinality(Dialled(dialled)) \in Nat /\ Cardinality(Dialled(kept)) \in Nat
            /\ Cardinality(Dialled(dialled')) \in Nat
        BY DialledTyped
      <4>3. CASE h \in Dialled(dialled)
        <5>1. Cardinality(Dialled(kept)) = Cardinality(Dialled(dialled)) - 1
          BY <4>1, <4>3, HostsFinite, FS_RemoveElement
        <5>2. Fits(kept, h)
          BY <1>0, <4>2, <5>1 DEF Fits
        <5> QED BY <2>3, <4>1, <4>2, <5>1, <5>2
      <4>4. CASE h \notin Dialled(dialled)
        <5>1. Dialled(kept) = Dialled(dialled)
          BY <4>1, <4>4
        <5> QED BY <2>3, <5>1
      <4> QED BY <4>3, <4>4
    <3>2. CASE ~(moved /\ h \in admitted)
      <4>1. kept = dialled
        BY <3>2 DEF kept
      <4> QED BY <2>3, <4>1
    <3> QED BY <3>1, <3>2
  <2>7. ASSUME dialled[h] = IF h \in admitted THEN active[h] ELSE None
        PROVE  dialled'[h] = IF h \in admitted' THEN active'[h] ELSE None
    <3>1. kept[h] = None
      <4>1. CASE moved /\ h \in admitted
        BY <4>1 DEF kept, RemoveOutgoingPeers
      <4>2. CASE ~(moved /\ h \in admitted)
        <5>1. h \notin admitted
          BY <1>5, <4>2
        <5> QED BY <2>7, <4>2, <5>1 DEF kept
      <4> QED BY <4>1, <4>2
    <3>2. h \in admitted' <=> Fits(kept, h)
      BY <2>1
    <3> QED BY <1>2, <2>3, <3>1, <3>2
  <2>8. \A g \in Hosts \ {h} : g \in admitted' <=> g \in admitted
    BY <2>1
  <2> QED BY <1>1, <1>2, <2>3, <2>4, <2>5, <2>6, <2>7, <2>8
<1> QED BY <1>4, <1>5

(***************************************************************************)
(* What a sweep does to the dials.                                         *)
(***************************************************************************)
LEMMA SweepEffect ==
    ASSUME Types, Sweep
    PROVE  /\ TrackTypes'
           /\ Tracked' = Tracked \ due
           /\ pendingRemoval' = pendingRemoval \ due
           /\ \A h \in Hosts :
                 dialled[h] = (IF h \in admitted THEN active[h] ELSE None) =>
                 dialled'[h] = IF h \in admitted' THEN active'[h] ELSE None
           /\ \A h \in Hosts : dialled[h] # None /\ dialled'[h] # dialled[h] => h \in pendingRemoval
           /\ (Waiting # {} => Cardinality(Dialled(dialled)) = MaxOutgoing) =>
                 (Waiting' # {} => Cardinality(Dialled(dialled')) = MaxOutgoing)
<1> USE DEF Types, TrackTypes
<1>0. MaxOutgoing \in Nat /\ None \notin Endpoints
  BY ConstantFacts
<1>1. PICK kept : kept = RemoveOutgoingPeers(dialled, due \cap admitted)
  OBVIOUS
<1>2. PICK chosen : chosen = IF due \cap admitted = {} THEN {}
                             ELSE AdmitPendingPeers(Waiting, kept)
  OBVIOUS
<1>3. /\ active' = [h \in Hosts |-> IF h \in due THEN None ELSE active[h]]
      /\ pendingRemoval' = pendingRemoval \ due /\ due' = {}
      /\ dialled' = Admit(kept, chosen, active)
      /\ admitted' = (admitted \ due) \cup chosen
  BY <1>1, <1>2 DEF Sweep, Admit, Waiting
<1>4. /\ kept \in DialTable /\ Dialled(kept) = Dialled(dialled) \ (due \cap admitted)
      /\ Cardinality(Dialled(kept)) <= MaxOutgoing
  <2>1. /\ kept \in DialTable /\ Dialled(kept) = Dialled(dialled) \ (due \cap admitted)
        /\ Cardinality(Dialled(kept)) <= Cardinality(Dialled(dialled))
    BY <1>1, RemoveKeepsCap
  <2> QED BY <1>0, <2>1, DialledTyped
<1>5. /\ \A h \in due \cap admitted : kept[h] = None
      /\ \A h \in Hosts \ (due \cap admitted) : kept[h] = dialled[h]
  BY <1>1 DEF RemoveOutgoingPeers, Tracked
<1>6. /\ chosen \in SUBSET Waiting /\ Waiting \in SUBSET Hosts
      /\ \A h \in chosen : active[h] # None
  BY <1>2 DEF AdmitPendingPeers, Waiting, Tracked
<1>7. /\ active' \in DialTable /\ Tracked' = Tracked \ due
      /\ \A h \in Hosts \ due : active'[h] = active[h]
  BY <1>3 DEF DialTable, Tracked
<1>8. dialled' \in DialTable /\ Dialled(dialled') = Dialled(kept) \cup chosen
  BY <1>3, <1>4, <1>6, AdmitDials
<1>9. Cardinality(Dialled(dialled')) <= MaxOutgoing
  <2>1. CASE due \cap admitted = {}
    <3>1. Dialled(dialled') = Dialled(kept)
      BY <1>2, <1>8, <2>1
    <3> QED BY <1>4, <3>1
  <2>2. CASE due \cap admitted # {}
    BY <1>2, <1>4, <1>6, <1>8, <2>2, AdmitKeepsCap
  <2> QED BY <2>1, <2>2
<1>10. TrackTypes'
  <2>1. admitted' \subseteq Tracked' /\ pendingRemoval' \subseteq Tracked' /\ due' \subseteq pendingRemoval'
    BY <1>3, <1>6, <1>7 DEF Waiting
  <2> QED BY <1>7, <1>8, <1>9, <2>1
<1>11. ASSUME NEW h \in Hosts, dialled[h] = IF h \in admitted THEN active[h] ELSE None
       PROVE  dialled'[h] = IF h \in admitted' THEN active'[h] ELSE None
  <2>1. dialled'[h] = IF h \in chosen /\ kept[h] = None THEN active[h] ELSE kept[h]
    BY <1>3 DEF Admit
  <2>2. CASE h \in chosen
    <3>1. h \notin due /\ h \notin admitted
      BY <1>6, <2>2 DEF Waiting
    <3> QED BY <1>3, <1>5, <1>7, <1>11, <2>1, <2>2, <3>1
  <2>3. CASE h \notin chosen /\ h \in due
    BY <1>3, <1>5, <1>11, <2>1, <2>3
  <2>4. CASE h \notin chosen /\ h \notin due
    BY <1>3, <1>5, <1>7, <1>11, <2>1, <2>4
  <2> QED BY <2>2, <2>3, <2>4
<1>12. ASSUME NEW h \in Hosts, dialled[h] # None, dialled'[h] # dialled[h]
       PROVE  h \in pendingRemoval
  <2>1. dialled'[h] = IF h \in chosen /\ kept[h] = None THEN active[h] ELSE kept[h]
    BY <1>3 DEF Admit
  <2>2. h \in due \cap admitted
    BY <1>5, <1>12, <2>1
  <2> QED BY <2>2
<1>13. ASSUME Waiting # {} => Cardinality(Dialled(dialled)) = MaxOutgoing, Waiting' # {}
       PROVE  Cardinality(Dialled(dialled')) = MaxOutgoing
  <2>1. Waiting' \in SUBSET (Waiting \ chosen)
    BY <1>3, <1>7 DEF Waiting
  <2>2. CASE due \cap admitted = {}
    <3>1. Dialled(dialled') = Dialled(dialled) /\ Waiting # {}
      BY <1>2, <1>4, <1>8, <1>13, <2>1, <2>2
    <3> QED BY <1>13, <3>1
  <2>3. CASE due \cap admitted # {}
    BY <1>2, <1>4, <1>6, <1>8, <1>13, <2>1, <2>3, AdmitFillsUp
  <2> QED BY <2>2, <2>3
<1> QED BY <1>3, <1>7, <1>10, <1>11, <1>12, <1>13

-----------------------------------------------------------------------------
(***************************************************************************)
(* The reports under way.                                                  *)
(***************************************************************************)
LEMMA RemoveAtSeq ==
    ASSUME NEW R, NEW s \in Seq(R), NEW k \in DOMAIN s
    PROVE  /\ RemoveAt(s, k) \in Seq(R)
           /\ Len(RemoveAt(s, k)) = Len(s) - 1
           /\ \A j \in 1 .. Len(s) - 1 : RemoveAt(s, k)[j] = IF j < k THEN s[j] ELSE s[j + 1]
<1>1. k \in 1 .. Len(s) /\ Len(s) \in Nat
  OBVIOUS
<1>2. /\ SubSeq(s, 1, k - 1) \in Seq(R) /\ Len(SubSeq(s, 1, k - 1)) = k - 1
      /\ \A j \in 1 .. k - 1 : SubSeq(s, 1, k - 1)[j] = s[j]
  BY <1>1
<1>3. /\ SubSeq(s, k + 1, Len(s)) \in Seq(R) /\ Len(SubSeq(s, k + 1, Len(s))) = Len(s) - k
      /\ \A j \in 1 .. Len(s) - k : SubSeq(s, k + 1, Len(s))[j] = s[k + j]
  BY <1>1
<1>4. PICK a \in Seq(R) : a = SubSeq(s, 1, k - 1)
  BY <1>2
<1>5. PICK b \in Seq(R) : b = SubSeq(s, k + 1, Len(s))
  BY <1>3
<1>6. RemoveAt(s, k) = a \o b
  BY <1>4, <1>5 DEF RemoveAt
<1>7. /\ a \o b \in Seq(R) /\ Len(a \o b) = Len(s) - 1
      /\ \A j \in 1 .. Len(s) - 1 : (a \o b)[j] = IF j <= k - 1 THEN a[j] ELSE b[j - (k - 1)]
  <2>1. Len(a) = k - 1 /\ Len(b) = Len(s) - k
    BY <1>2, <1>3, <1>4, <1>5
  <2>2. Len(a) + Len(b) = Len(s) - 1
    BY <1>1, <2>1
  <2>3. /\ a \o b \in Seq(R) /\ Len(a \o b) = Len(a) + Len(b)
        /\ \A j \in 1 .. Len(a) + Len(b) :
              (a \o b)[j] = IF j <= Len(a) THEN a[j] ELSE b[j - Len(a)]
    OBVIOUS
  <2> QED BY <2>1, <2>2, <2>3
<1>8. ASSUME NEW j \in 1 .. Len(s) - 1
      PROVE  (a \o b)[j] = IF j < k THEN s[j] ELSE s[j + 1]
  <2>1. CASE j < k
    BY <1>1, <1>2, <1>3, <1>4, <1>5, <2>1
  <2>2. CASE ~(j < k)
    <3>1. (a \o b)[j] = b[j - (k - 1)]
      BY <1>1, <1>7, <2>2
    <3>2. j - (k - 1) \in 1 .. Len(s) - k /\ k + (j - (k - 1)) = j + 1
      BY <1>1, <2>2
    <3> QED BY <1>3, <1>5, <2>2, <3>1, <3>2
  <2> QED BY <2>1, <2>2
<1> QED BY <1>6, <1>7, <1>8

LEMMA ReportAppends ==
    ASSUME ReportsInOrder, NEW r \in Reports, Report(r)
    PROVE  /\ ReportsInOrder'
           /\ Len(reports') = Len(reports) + 1 /\ reports'[Len(reports) + 1] = r
           /\ \A k \in 1 .. Len(reports) : reports'[k] = reports[k]
BY DEF ReportsInOrder, Report

LEMMA ReportTyped ==
    ASSUME Types, NEW i \in Instances
    PROVE  Added(i) \in Reports /\ Removed(HostOf(i)) \in Reports
BY HostOfTyped DEF Added, Removed, Reports

LEMMA ReportFields ==
    ASSUME ReportsInOrder, NEW k \in DOMAIN reports
    PROVE  /\ reports[k] \in Reports /\ reports[k].host \in Hosts
           /\ reports[k].event \in {"added", "removed"}
           /\ reports[k].endpoint \in Endpoints \cup {None} /\ reports[k].browse \in BOOLEAN
<1>1. reports[k] \in Reports
  BY DEF ReportsInOrder
<1> QED BY <1>1 DEF Reports

(* What the browse leaves when it is stopped.                               *)
LEMMA StopBrowseEffect ==
    ASSUME Types, NEW late \in SUBSET Instances, StopBrowse(late)
    PROVE  /\ ReportsInOrder' /\ started' \in BOOLEAN
           /\ started' = FALSE \/ started' = started
           /\ resolved' \subseteq live' /\ live' \subseteq Instances
           /\ listed' \subseteq Instances /\ resolving' \subseteq Instances
<1>1. CASE ~started
  <2>1. UNCHANGED <<started, live, resolved, listed, resolving, reports>>
    BY <1>1 DEF StopBrowse, discoveryVars
  <2> QED BY <2>1 DEF Types, BrowseTypes, ReportsInOrder
<1>2. CASE started
  <2>1. /\ started' = FALSE /\ live' = late /\ resolving' = resolving \cup late
        /\ resolved' = {} /\ listed' = {}
        /\ reports' = [k \in DOMAIN reports |-> [reports[k] EXCEPT !.browse = FALSE]]
    BY <1>2 DEF StopBrowse
  <2>2. reports' \in Seq(Reports)
    <3>1. ASSUME NEW k \in DOMAIN reports PROVE [reports[k] EXCEPT !.browse = FALSE] \in Reports
      <4>1. reports[k] \in Reports
        BY ReportFields DEF Types
      <4>2. \A r \in Reports : [r EXCEPT !.browse = FALSE] \in Reports
        BY DEF Reports
      <4> QED BY <4>1, <4>2
    <3>2. DOMAIN reports = 1 .. Len(reports) /\ Len(reports) \in Nat
      BY DEF Types, ReportsInOrder
    <3> QED BY <2>1, <3>1, <3>2
  <2> QED BY <2>1, <2>2 DEF Types, BrowseTypes, ReportsInOrder
<1> QED BY <1>1, <1>2

(***************************************************************************)
(* Types are kept.                                                         *)
(***************************************************************************)
LEMMA FaultTyped ==
    ASSUME faults \in 0 .. MaxFaults
    PROVE  Fault \/ UNCHANGED faults => faults' \in 0 .. MaxFaults
BY ConstantFacts DEF Fault

LEMMA TypesOfBrowse ==
    ASSUME Types, NEW i \in Instances,
           \/ Announce(i) \/ Withdraw(i) \/ BrowseFound(i) \/ BrowseGone(i)
           \/ HandleResolved(i) \/ ResolveFails(i)
    PROVE  Types'
<1> USE DEF Types
<1>1. TrackTypes' /\ RuntimeTypes'
  <2>1. UNCHANGED <<trackVars, runtimeVars>>
    BY DEF Announce, Withdraw, BrowseFound, BrowseGone, HandleResolved, ResolveFails
  <2> QED BY <2>1 DEF trackVars, runtimeVars, TrackTypes, RuntimeTypes, Tracked
<1>2. BrowseTypes'
  BY DEF BrowseTypes, Announce, Withdraw, BrowseFound, BrowseGone, HandleResolved, ResolveFails,
         discoveryVars
<1>3. HistoryTypes'
  <2>1. HostOf(i) \in Hosts
    BY HostOfTyped
  <2>2. /\ stray' \in {stray, stray \cup {HostOf(i)}} /\ disowned' = disowned
        /\ (Fault \/ UNCHANGED faults)
    BY DEF Announce, Withdraw, BrowseFound, BrowseGone, HandleResolved, ResolveFails
  <2> QED BY <2>1, <2>2, FaultTyped DEF HistoryTypes
<1>4. ReportsInOrder'
  <2>1. UNCHANGED reports \/ Report(Added(i)) \/ Report(Removed(HostOf(i)))
    BY DEF Announce, Withdraw, BrowseFound, BrowseGone, HandleResolved, ResolveFails
  <2>2. UNCHANGED reports => ReportsInOrder'
    BY DEF ReportsInOrder
  <2> QED BY <2>1, <2>2, ReportTyped, ReportAppends
<1> QED BY <1>1, <1>2, <1>3, <1>4

LEMMA OnRemovedTypes ==
    ASSUME Types, NEW h \in Hosts, OnRemoved(h)
    PROVE  TrackTypes' /\ RuntimeTypes'
<1>1. UNCHANGED <<active, admitted, dialled, thread, wanted, interfacesChanged,
                  republishPending, armed>>
  BY DEF OnRemoved
<1>2. \/ UNCHANGED <<pendingRemoval, due, wakePending>>
      \/ /\ h \in Tracked /\ pendingRemoval' = pendingRemoval \cup {h} /\ due' = due \ {h}
         /\ wakePending' = (wakePending \/ WakeSet)
  BY DEF OnRemoved
<1>3. TrackTypes'
  BY <1>1, <1>2 DEF Types, TrackTypes, Tracked
<1>4. wakePending' \in BOOLEAN
  BY <1>2 DEF Types, RuntimeTypes
<1> QED BY <1>1, <1>3, <1>4 DEF Types, RuntimeTypes

LEMMA TypesOfReport ==
    ASSUME Types, ReportsTyped, NEW k \in DOMAIN reports, MakeReport(k)
    PROVE  Types'
<1> USE DEF Types
<1>1. /\ reports[k].host \in Hosts /\ reports[k].event \in {"added", "removed"}
      /\ reports[k].event = "added" => reports[k].endpoint \in Endpoints
  BY ReportFields DEF ReportsTyped
<1>2. TrackTypes' /\ RuntimeTypes'
  <2>1. CASE reports[k].event = "added"
    <3>1. OnAdded(reports[k].host, reports[k].endpoint)
      BY <2>1 DEF MakeReport
    <3>2. UNCHANGED runtimeVars
      BY <3>1 DEF OnAdded
    <3> QED BY <1>1, <2>1, <3>1, <3>2, OnAddedEffect DEF runtimeVars, RuntimeTypes
  <2>2. CASE reports[k].event # "added"
    <3>1. OnRemoved(reports[k].host)
      BY <2>2 DEF MakeReport
    <3> QED BY <1>1, <3>1, OnRemovedTypes
  <2> QED BY <2>1, <2>2
<1>3. BrowseTypes'
  BY DEF MakeReport, discoveryVars, resolverVars, BrowseTypes
<1>4. HistoryTypes'
  BY <1>1 DEF MakeReport, HistoryTypes
<1>5. ReportsInOrder'
  BY RemoveAtSeq DEF MakeReport, ReportsInOrder
<1> QED BY <1>2, <1>3, <1>4, <1>5

LEMMA TypesOfStop ==
    ASSUME Types, StopForRestart \/ StopForGood
    PROVE  Types'
<1> USE DEF Types
<1>1. PICK late \in SUBSET announced :
          /\ StopBrowse(late)
          /\ stray' \in {stray \cup Tracked \cup {HostOf(i) : i \in late},
                         stray \cup {HostOf(i) : i \in late}}
  BY DEF StopForRestart, StopForGood
<1>2. late \in SUBSET Instances
  BY <1>1 DEF BrowseTypes
<1>3. {HostOf(i) : i \in late} \subseteq Hosts /\ Tracked \subseteq Hosts
  BY <1>2, HostOfTyped DEF Tracked
<1>4. /\ UNCHANGED <<announcer, announced, faults, disowned, trackVars, wanted, wakePending,
                     interfacesChanged, republishPending, armed>>
      /\ thread' \in {"restarting", "clearing"}
  BY DEF StopForRestart, StopForGood, GoTo
<1>5. TrackTypes' /\ RuntimeTypes'
  BY <1>4 DEF TrackTypes, RuntimeTypes, Tracked, trackVars
<1>6. BrowseTypes' /\ ReportsInOrder'
  BY <1>1, <1>2, <1>4, StopBrowseEffect DEF BrowseTypes
<1>7. HistoryTypes'
  BY <1>1, <1>3, <1>4 DEF HistoryTypes
<1> QED BY <1>5, <1>6, <1>7

LEMMA TypesOfStart ==
    ASSUME Types, StartUp \/ StartAgain
    PROVE  Types'
<1> USE DEF Types
<1>1. /\ started' \in BOOLEAN /\ (Fault \/ UNCHANGED faults)
      /\ UNCHANGED <<trackVars, wanted, live, resolved, listed, resolverVars, reports, disowned>>
      /\ stray' \in {stray, Hosts} /\ thread' \in {"asleep", "sweep"}
  BY DEF StartUp, StartAgain, StartBrowse, GoTo
<1>2. TrackTypes'
  BY <1>1 DEF TrackTypes, Tracked, trackVars
<1>3. /\ wakePending' \in BOOLEAN /\ interfacesChanged' \in BOOLEAN
      /\ republishPending' \in BOOLEAN /\ armed' \in {armed, pendingRemoval}
  BY DEF StartUp, StartAgain, RuntimeTypes
<1>4. RuntimeTypes'
  BY <1>1, <1>3 DEF RuntimeTypes, TrackTypes, Tracked
<1>5. BrowseTypes' /\ ReportsInOrder'
  BY <1>1 DEF BrowseTypes, ReportsInOrder, resolverVars
<1>6. HistoryTypes'
  BY <1>1, FaultTyped DEF HistoryTypes
<1> QED BY <1>2, <1>4, <1>5, <1>6

LEMMA TypesOfRuntime ==
    ASSUME Types,
           \/ RuntimeStep \/ Disturb \/ SwitchOn
           \/ \E h \in Hosts : GraceRunsOut(h) \/ DialerGivesUp(h)
    PROVE  Types'
<1> USE DEF Types
<1>1. BrowseTypes' /\ ReportsInOrder'
  <2>1. UNCHANGED <<discoveryVars, resolverVars, reports>>
    BY DEF RuntimeStep, Disturb, SwitchOn, GraceRunsOut, DialerGivesUp
  <2> QED BY <2>1 DEF discoveryVars, resolverVars, BrowseTypes, ReportsInOrder
<1>2. HistoryTypes'
  <2>1. /\ stray' \in {stray, Hosts} /\ (Fault \/ UNCHANGED faults)
        /\ disowned' = disowned \/ \E h \in Hosts : disowned' = disowned \cup {h}
    BY DEF RuntimeStep, Disturb, SwitchOn, GraceRunsOut, DialerGivesUp
  <2> QED BY <2>1, FaultTyped DEF HistoryTypes
<1>3. ASSUME UNCHANGED trackVars PROVE TrackTypes'
  BY <1>3 DEF trackVars, TrackTypes, Tracked
<1>4. Nobody \in DialTable /\ Dialled(Nobody) = {}
  BY DEF Nobody, DialTable, Dialled
<1>5. ASSUME Wake \/ Break PROVE TrackTypes' /\ RuntimeTypes'
  <2>1. UNCHANGED <<trackVars, wanted, armed>>
    BY <1>5 DEF Wake, Break
  <2>2. /\ wakePending' \in BOOLEAN /\ interfacesChanged' \in BOOLEAN
        /\ republishPending' \in BOOLEAN
    BY <1>5 DEF Wake, Break, RuntimeTypes
  <2>3. thread' \in {"restart", "sweep", "leaving"}
    BY <1>5 DEF Wake, Break, GoTo
  <2> QED BY <1>3, <2>1, <2>2, <2>3 DEF RuntimeTypes
<1>6. ASSUME SweepExpired PROVE TrackTypes' /\ RuntimeTypes'
  <2>1. TrackTypes'
    BY <1>6, SweepEffect DEF SweepExpired
  <2>2. armed' \subseteq Hosts
    BY <1>6, <2>1 DEF SweepExpired, TrackTypes, Tracked
  <2> QED BY <1>6, <2>1, <2>2 DEF SweepExpired, RuntimeTypes, GoTo
<1>7. ASSUME ClearPeers PROVE TrackTypes' /\ RuntimeTypes'
  <2>1. dialled' = Nobody /\ UNCHANGED <<active, admitted, pendingRemoval, due>>
    BY <1>7 DEF ClearPeers
  <2>2. Cardinality(Dialled(dialled')) = 0
    BY <1>4, <2>1, FS_EmptySet
  <2>3. TrackTypes'
    BY <1>4, <2>1, <2>2, ConstantFacts DEF TrackTypes, Tracked
  <2> QED BY <1>7, <2>3 DEF ClearPeers, GoTo, RuntimeTypes
<1>8. ASSUME Reset \/ StartRuntime PROVE TrackTypes' /\ RuntimeTypes'
  <2>1. Forget /\ dialled' = dialled
    BY <1>8 DEF Reset, StartRuntime
  <2>2. TrackTypes'
    BY <1>4, <2>1 DEF Forget, TrackTypes, Tracked
  <2> QED BY <1>8, <2>2 DEF Reset, StartRuntime, GoTo, RuntimeTypes
<1>9. ASSUME RequestStop \/ SignalInterfaces PROVE TrackTypes' /\ RuntimeTypes'
  BY <1>3, <1>9 DEF RequestStop, SignalInterfaces, RuntimeTypes
<1>10. ASSUME NEW h \in Hosts, GraceEnds(h) PROVE TrackTypes' /\ RuntimeTypes'
  BY <1>10 DEF GraceEnds, runtimeVars, TrackTypes, RuntimeTypes, Tracked
<1>11. ASSUME NEW h \in Hosts, DialerGivesUp(h) PROVE TrackTypes' /\ RuntimeTypes'
  <2>1. /\ dialled' = [dialled EXCEPT ![h] = None] /\ UNCHANGED runtimeVars
        /\ UNCHANGED <<active, admitted, pendingRemoval, due>>
    BY <1>11 DEF DialerGivesUp
  <2>2. dialled' \in DialTable /\ Dialled(dialled') \in SUBSET Dialled(dialled)
    BY <2>1 DEF TrackTypes, DialTable, Dialled
  <2>3. Cardinality(Dialled(dialled')) <= MaxOutgoing
    <3>1. Cardinality(Dialled(dialled')) <= Cardinality(Dialled(dialled))
      BY <2>2, DialledTyped, FewerHosts
    <3> QED BY <3>1, DialledTyped, ConstantFacts DEF TrackTypes
  <2> QED BY <2>1, <2>2, <2>3 DEF TrackTypes, RuntimeTypes, Tracked, runtimeVars
<1>12. TrackTypes' /\ RuntimeTypes'
  BY <1>5, <1>6, <1>7, <1>8, <1>9, <1>10, <1>11
     DEF RuntimeStep, Disturb, SwitchOn, GraceRunsOut
<1> QED BY <1>1, <1>2, <1>12

LEMMA TypesStep ==
    ASSUME Types, ReportsTyped, Next
    PROVE  Types'
BY TypesOfBrowse, TypesOfReport, TypesOfStop, TypesOfStart, TypesOfRuntime DEF Next

-----------------------------------------------------------------------------
(***************************************************************************)
(* From the tracked hosts to the dials, step by step.                      *)
(***************************************************************************)
DialPart ==
    /\ EndpointFollows /\ DialsStop /\ DisownedStray /\ DeparturesArmed /\ WaitingMeansFull

(* What strays or is disowned remains so.                                   *)
LEMMA HistoryGrows ==
    ASSUME Types, Next
    PROVE  stray \subseteq stray' /\ disowned \subseteq disowned' /\ announcer' = announcer
<1> USE DEF Types, HistoryTypes
<1>1. ASSUME NEW i \in Instances,
             \/ Announce(i) \/ Withdraw(i) \/ BrowseFound(i) \/ BrowseGone(i)
             \/ HandleResolved(i) \/ ResolveFails(i)
      PROVE  stray \subseteq stray' /\ disowned \subseteq disowned' /\ announcer' = announcer
  BY <1>1 DEF Announce, Withdraw, BrowseFound, BrowseGone, HandleResolved, ResolveFails
<1>2. ASSUME NEW k \in DOMAIN reports, MakeReport(k)
      PROVE  stray \subseteq stray' /\ disowned \subseteq disowned' /\ announcer' = announcer
  BY <1>2 DEF MakeReport, resolverVars
<1>3. ASSUME StartUp \/ StopForRestart \/ StartAgain \/ StopForGood
      PROVE  stray \subseteq stray' /\ disowned \subseteq disowned' /\ announcer' = announcer
  BY <1>3 DEF StartUp, StopForRestart, StartAgain, StopForGood, resolverVars
<1>4. ASSUME \/ RuntimeStep \/ Disturb \/ SwitchOn
             \/ \E h \in Hosts : GraceRunsOut(h) \/ DialerGivesUp(h)
      PROVE  stray \subseteq stray' /\ disowned \subseteq disowned' /\ announcer' = announcer
  BY <1>4 DEF RuntimeStep, Disturb, SwitchOn, GraceRunsOut, DialerGivesUp, resolverVars
<1> QED BY <1>1, <1>2, <1>3, <1>4 DEF Next

(* A step that leaves the dials, the thread and its deadline alone.         *)
LEMMA DialsFrame ==
    ASSUME DialPart, stray \subseteq stray',
           UNCHANGED <<active, admitted, pendingRemoval, dialled, thread, armed, disowned>>,
           wakePending => wakePending'
    PROVE  DialPart'
<1>1. EndpointFollows' /\ DialsStop' /\ DisownedStray'
  BY DEF DialPart, EndpointFollows, DialsStop, DisownedStray, Running
<1>2. DeparturesArmed'
  BY DEF DialPart, DeparturesArmed
<1>3. Waiting' = Waiting /\ Sound' \subseteq Sound
  BY DEF Waiting, Tracked, Sound
<1>4. WaitingMeansFull'
  BY <1>3 DEF DialPart, WaitingMeansFull
<1> QED BY <1>1, <1>2, <1>4 DEF DialPart

(* A step of the thread inside its loop that leaves the dials alone.        *)
LEMMA LoopFrame ==
    ASSUME DialPart, stray \subseteq stray', Running, Running', DeparturesArmed',
           UNCHANGED <<active, admitted, pendingRemoval, dialled, disowned>>
    PROVE  DialPart'
<1>1. EndpointFollows' /\ DialsStop' /\ DisownedStray'
  BY DEF DialPart, EndpointFollows, DialsStop, DisownedStray, Running
<1>3. Waiting' = Waiting /\ Sound' \subseteq Sound /\ thread # "resetting"
  BY DEF Waiting, Tracked, Sound, Running
<1>4. WaitingMeansFull'
  BY <1>3 DEF DialPart, WaitingMeansFull
<1> QED BY <1>1, <1>4 DEF DialPart

LEMMA DialsOfReport ==
    ASSUME Types, ReportsTyped, DialPart, StoppedThreads, BrowseOrdered,
           NEW k \in DOMAIN reports, MakeReport(k)
    PROVE  DialPart'
<1> USE DEF Types
<1>1. PICK h \in Hosts : h = reports[k].host
  BY ReportFields
<1>2. /\ stray \subseteq stray' /\ disowned \subseteq disowned' /\ disowned' \subseteq disowned \cup {h}
      /\ ~reports[k].browse => h \in disowned' /\ h \in stray'
  BY <1>1 DEF MakeReport
<1>3. DisownedStray'
  BY <1>1, <1>2 DEF DialPart, DisownedStray, MakeReport
<1>4. thread \in {"off", "starting", "resetting"} => h \in disowned'
  BY <1>2 DEF StoppedThreads, BrowseOrdered
<1>5. Sound' \subseteq Sound
  BY <1>2 DEF Sound
<1>6. CASE reports[k].event = "added"
  <2>1. PICK e \in Endpoints : e = reports[k].endpoint
    BY <1>6, ReportFields DEF ReportsTyped
  <2>2. OnAdded(h, e)
    BY <1>1, <1>6, <2>1 DEF MakeReport
  <2>3. UNCHANGED runtimeVars
    BY <2>2 DEF OnAdded
  <2>4. UNCHANGED <<thread, armed, wakePending>>
    BY <2>3 DEF runtimeVars
  <2>5. /\ TrackTypes'
        /\ active' = [active EXCEPT ![h] = e]
        /\ Tracked' = Tracked \cup {h}
        /\ pendingRemoval' = pendingRemoval \ {h}
        /\ \A g \in Hosts \ {h} : /\ dialled'[g] = dialled[g]
                                  /\ g \in admitted' <=> g \in admitted
        /\ dialled[h] = (IF h \in admitted THEN active[h] ELSE None) =>
              dialled'[h] = IF h \in admitted' THEN active'[h] ELSE None
        /\ Cardinality(Dialled(dialled)) <= Cardinality(Dialled(dialled'))
        /\ h \notin admitted' => Cardinality(Dialled(dialled')) = MaxOutgoing
    BY <2>2, OnAddedEffect
  <2>6. EndpointFollows'
    <3> SUFFICES ASSUME Running', NEW g \in Hosts \ disowned'
                 PROVE  dialled'[g] = IF g \in admitted' THEN active'[g] ELSE None
      BY DEF EndpointFollows
    <3>1. dialled[g] = IF g \in admitted THEN active[g] ELSE None
      BY <1>2, <2>4 DEF DialPart, EndpointFollows, Running
    <3>2. CASE g = h
      BY <2>5, <3>1, <3>2
    <3>3. CASE g # h
      BY <2>5, <3>1, <3>3 DEF TrackTypes, DialTable
    <3> QED BY <3>2, <3>3
  <2>7. DialsStop'
    <3> SUFFICES ASSUME thread \in {"off", "starting", "resetting"}, NEW g \in Hosts \ disowned'
                 PROVE  dialled'[g] = None /\ (thread # "resetting" => g \notin admitted')
      BY <2>4 DEF DialsStop
    <3>1. g # h /\ g \notin disowned
      BY <1>2, <1>4
    <3> QED BY <2>5, <3>1 DEF DialPart, DialsStop
  <2>8. DeparturesArmed'
    BY <2>4, <2>5 DEF DialPart, DeparturesArmed
  <2>9. WaitingMeansFull'
    <3> SUFFICES ASSUME Sound' # {}, thread # "resetting", Waiting' # {}
                 PROVE  Cardinality(Dialled(dialled')) = MaxOutgoing
      BY <2>4 DEF WaitingMeansFull
    <3>1. CASE h \notin admitted'
      BY <2>5, <3>1
    <3>2. CASE h \in admitted'
      <4>1. Waiting' \subseteq Waiting
        BY <2>5, <3>2 DEF Waiting, TrackTypes, Tracked
      <4>2. Cardinality(Dialled(dialled)) = MaxOutgoing
        BY <1>5, <4>1 DEF DialPart, WaitingMeansFull
      <4> QED BY <2>5, <4>2, ConstantFacts, DialledTyped DEF TrackTypes
    <3> QED BY <3>1, <3>2
  <2> QED BY <1>3, <2>6, <2>7, <2>8, <2>9 DEF DialPart
<1>7. CASE reports[k].event # "added"
  <2>1. OnRemoved(h)
    BY <1>1, <1>7 DEF MakeReport
  <2>2. UNCHANGED <<active, admitted, dialled, thread, armed>>
    BY <2>1 DEF OnRemoved
  <2>3. /\ pendingRemoval \subseteq pendingRemoval'
        /\ pendingRemoval' = pendingRemoval \/ wakePending' = (wakePending \/ WakeSet)
        /\ wakePending => wakePending'
    BY <2>1 DEF OnRemoved
  <2>4. EndpointFollows' /\ DialsStop'
    BY <1>2, <2>2 DEF DialPart, EndpointFollows, DialsStop, Running
  <2>5. DeparturesArmed'
    BY <2>2, <2>3 DEF DialPart, DeparturesArmed, WakeSet
  <2>6. Waiting' \subseteq Waiting
    BY <2>2, <2>3 DEF Waiting, Tracked
  <2>7. WaitingMeansFull'
    BY <1>5, <2>2, <2>6 DEF DialPart, WaitingMeansFull
  <2> QED BY <1>3, <2>4, <2>5, <2>7 DEF DialPart
<1> QED BY <1>6, <1>7

LEMMA DialsOfSweep ==
    ASSUME Types, DialPart, SweepExpired, UNCHANGED <<stray, disowned>>
    PROVE  DialPart'
<1> USE DEF Types
<1>1. Sweep /\ thread = "sweep" /\ thread' = "asleep" /\ armed' = pendingRemoval'
  BY DEF SweepExpired, GoTo
<1>2. /\ \A h \in Hosts :
            dialled[h] = (IF h \in admitted THEN active[h] ELSE None) =>
            dialled'[h] = IF h \in admitted' THEN active'[h] ELSE None
      /\ (Waiting # {} => Cardinality(Dialled(dialled)) = MaxOutgoing) =>
            (Waiting' # {} => Cardinality(Dialled(dialled')) = MaxOutgoing)
  BY <1>1, SweepEffect
<1>3. EndpointFollows'
  BY <1>1, <1>2 DEF DialPart, EndpointFollows, Running
<1>4. DialsStop' /\ DisownedStray' /\ DeparturesArmed'
  BY <1>1 DEF DialPart, DialsStop, DisownedStray, DeparturesArmed
<1>5. Sound' = Sound
  BY DEF Sound
<1>6. WaitingMeansFull'
  BY <1>1, <1>2, <1>5 DEF DialPart, WaitingMeansFull
<1> QED BY <1>3, <1>4, <1>6 DEF DialPart

LEMMA DialsOfStopping ==
    ASSUME Types, DialPart, ClearPeers \/ Reset \/ StartRuntime, UNCHANGED <<stray, disowned>>
    PROVE  DialPart'
<1> USE DEF Types
<1>1. Sound' = Sound /\ DisownedStray'
  BY DEF Sound, DialPart, DisownedStray
<1>2. CASE ClearPeers
  <2>1. dialled' = Nobody /\ thread' = "resetting"
    BY <1>2 DEF ClearPeers, GoTo
  <2>2. EndpointFollows' /\ DeparturesArmed' /\ WaitingMeansFull'
    BY <2>1 DEF EndpointFollows, Running, DeparturesArmed, WaitingMeansFull
  <2>3. DialsStop'
    BY <2>1 DEF DialsStop, Nobody
  <2> QED BY <1>1, <2>2, <2>3 DEF DialPart
<1>3. CASE Reset \/ StartRuntime
  <2>1. /\ Forget /\ dialled' = dialled /\ thread' \in {"off", "starting"}
        /\ thread \in {"off", "resetting"}
    BY <1>3 DEF Reset, StartRuntime, GoTo
  <2>2. Tracked' = {} /\ Waiting' = {}
    BY <2>1 DEF Forget, Tracked, Nobody, Waiting
  <2>3. EndpointFollows' /\ DeparturesArmed' /\ WaitingMeansFull'
    BY <2>1, <2>2 DEF EndpointFollows, Running, DeparturesArmed, WaitingMeansFull
  <2>4. DialsStop'
    BY <2>1 DEF DialPart, DialsStop, Forget
  <2> QED BY <1>1, <2>3, <2>4 DEF DialPart
<1> QED BY <1>2, <1>3

LEMMA DialsOfStartUp ==
    ASSUME Types, DialPart, StartUp
    PROVE  DialPart'
<1> USE DEF Types
<1>1. /\ thread = "starting" /\ thread' = "asleep" /\ armed' = pendingRemoval
      /\ UNCHANGED <<active, admitted, pendingRemoval, dialled, disowned>>
      /\ stray \subseteq stray'
  BY DEF StartUp, GoTo, trackVars, HistoryTypes
<1>2. EndpointFollows'
  BY <1>1 DEF DialPart, DialsStop, EndpointFollows
<1>3. DialsStop' /\ DisownedStray' /\ DeparturesArmed'
  BY <1>1 DEF DialPart, DialsStop, DisownedStray, DeparturesArmed
<1>4. Waiting' = Waiting /\ Sound' \subseteq Sound
  BY <1>1 DEF Waiting, Tracked, Sound
<1>5. WaitingMeansFull'
  BY <1>1, <1>4 DEF DialPart, WaitingMeansFull
<1> QED BY <1>2, <1>3, <1>5 DEF DialPart

LEMMA DialsOfGivingUp ==
    ASSUME Types, DialPart, NEW h \in Hosts, DialerGivesUp(h)
    PROVE  DialPart'
<1> USE DEF Types
<1>1. /\ dialled' = [dialled EXCEPT ![h] = None] /\ stray' = Hosts
      /\ disowned' = disowned \cup {h}
      /\ UNCHANGED <<active, admitted, pendingRemoval, runtimeVars>>
  BY DEF DialerGivesUp
<1>2. UNCHANGED <<thread, armed, wakePending>>
  BY <1>1 DEF runtimeVars
<1>3. \A g \in Hosts \ disowned' : g \notin disowned /\ dialled'[g] = dialled[g]
  BY <1>1
<1>4. EndpointFollows' /\ DialsStop'
  BY <1>1, <1>2, <1>3 DEF DialPart, EndpointFollows, DialsStop, Running
<1>5. DisownedStray' /\ DeparturesArmed'
  BY <1>1, <1>2 DEF DialPart, DisownedStray, DeparturesArmed, HistoryTypes
<1>6. Sound' = {}
  BY <1>1 DEF Sound
<1> QED BY <1>4, <1>5, <1>6 DEF DialPart, WaitingMeansFull

LEMMA DialsStep ==
    ASSUME Types, ReportsTyped, StoppedThreads, BrowseOrdered, DialPart, Next
    PROVE  DialPart'
<1>0. stray \subseteq stray'
  BY HistoryGrows
<1>1. ASSUME NEW i \in Instances,
             \/ Announce(i) \/ Withdraw(i) \/ BrowseFound(i) \/ BrowseGone(i)
             \/ HandleResolved(i) \/ ResolveFails(i)
      PROVE  DialPart'
  <2>1. UNCHANGED <<trackVars, runtimeVars, disowned>>
    BY <1>1 DEF Announce, Withdraw, BrowseFound, BrowseGone, HandleResolved, ResolveFails
  <2> QED BY <1>0, <2>1, DialsFrame DEF trackVars, runtimeVars
<1>2. ASSUME StopForRestart \/ StartAgain \/ StopForGood PROVE DialPart'
  <2>1. /\ UNCHANGED <<trackVars, disowned>>
        /\ thread \in {"restart", "restarting", "leaving"}
        /\ thread' \in {"restarting", "sweep", "clearing"}
    BY <1>2 DEF StopForRestart, StartAgain, StopForGood, GoTo
  <2>2. Running /\ Running' /\ DeparturesArmed'
    BY <2>1 DEF Running, DeparturesArmed
  <2> QED BY <1>0, <2>1, <2>2, LoopFrame DEF trackVars
<1>3. ASSUME RuntimeStep PROVE DialPart'
  <2>1. UNCHANGED <<stray, disowned>>
    BY <1>3 DEF RuntimeStep
  <2>2. ASSUME Wake \/ Break PROVE DialPart'
    <3>1. /\ UNCHANGED trackVars /\ thread = "asleep"
          /\ thread' \in {"restart", "sweep", "leaving"}
      BY <2>2 DEF Wake, Break, GoTo
    <3>2. Running /\ Running' /\ DeparturesArmed'
      BY <3>1 DEF Running, DeparturesArmed
    <3> QED BY <1>0, <2>1, <3>1, <3>2, LoopFrame DEF trackVars
  <2> QED BY <1>3, <2>1, <2>2, DialsOfSweep, DialsOfStopping DEF RuntimeStep
<1>4. ASSUME Disturb PROVE DialPart'
  <2>1. UNCHANGED <<trackVars, thread, armed, disowned>> /\ (wakePending => wakePending')
    BY <1>4 DEF Disturb, RequestStop, SignalInterfaces
  <2> QED BY <1>0, <2>1, DialsFrame DEF trackVars
<1>5. ASSUME SwitchOn PROVE DialPart'
  BY <1>5, DialsOfStopping DEF SwitchOn
<1>6. ASSUME NEW h \in Hosts, GraceRunsOut(h) PROVE DialPart'
  <2>1. UNCHANGED <<active, admitted, pendingRemoval, dialled, runtimeVars, disowned>>
    BY <1>6 DEF GraceRunsOut, GraceEnds
  <2> QED BY <1>0, <2>1, DialsFrame DEF runtimeVars
<1> QED BY <1>1, <1>2, <1>3, <1>4, <1>5, <1>6, DialsOfReport, DialsOfStartUp, DialsOfGivingUp
        DEF Next

-----------------------------------------------------------------------------
(***************************************************************************)
(* From the browse to the list, step by step.                              *)
(***************************************************************************)
InstancePart == StoppedThreads /\ StoppedIsEmpty /\ InstancesFollow

LEMMA InstancesFrame ==
    ASSUME InstancePart, stray \subseteq stray', StoppedThreads',
           UNCHANGED <<started, live, resolved, listed, resolving, announcer>>
    PROVE  InstancePart'
<1>1. \A i : HostOf(i)' = HostOf(i)
  BY DEF HostOf
<1>2. StoppedIsEmpty'
  BY <1>1 DEF InstancePart, StoppedIsEmpty
<1>3. InstancesFollow'
  BY <1>1 DEF InstancePart, InstancesFollow, Sound
<1> QED BY <1>2, <1>3 DEF InstancePart

LEMMA InstancesOfBrowse ==
    ASSUME Types, InstancePart, NEW i \in Instances,
           BrowseFound(i) \/ BrowseGone(i) \/ HandleResolved(i) \/ ResolveFails(i)
    PROVE  InstancePart'
<1> USE DEF Types, BrowseTypes
<1>1. /\ stray \subseteq stray' /\ announcer' = announcer
      /\ UNCHANGED <<runtimeVars, started>>
  BY DEF BrowseFound, BrowseGone, HandleResolved, ResolveFails, discoveryVars
<1>2. (\A j : HostOf(j)' = HostOf(j)) /\ Sound' \subseteq Sound
  BY <1>1 DEF HostOf, Sound
<1>3. StoppedThreads'
  BY <1>1 DEF InstancePart, StoppedThreads, runtimeVars
<1>4. CASE BrowseFound(i)
  <2>1. /\ started /\ live' = live \cup {i} /\ resolving' = resolving \cup {i}
        /\ UNCHANGED <<resolved, listed>>
    BY <1>4 DEF BrowseFound
  <2> QED BY <1>1, <1>2, <1>3, <2>1 DEF InstancePart, StoppedIsEmpty, InstancesFollow
<1>5. CASE BrowseGone(i)
  <2>1. /\ started /\ live' = live \ {i} /\ resolved' = resolved \ {i} /\ resolving' = resolving
        /\ listed' = IF i \in resolved THEN listed \ {i} ELSE listed
    BY <1>5 DEF BrowseGone
  <2>2. resolved' \subseteq listed'
    BY <2>1 DEF InstancePart, InstancesFollow
  <2>3. ASSUME NEW j \in Instances, HostOf(j) \in Sound
        PROVE  (j \in listed' => j \in resolved') /\ (j \in live' => j \in resolving' \cup resolved')
    BY <2>1, <2>3 DEF InstancePart, InstancesFollow
  <2> QED BY <1>1, <1>2, <1>3, <2>1, <2>2, <2>3 DEF InstancePart, StoppedIsEmpty, InstancesFollow
<1>6. CASE HandleResolved(i) /\ ~started
  <2>1. resolving' = resolving \ {i} /\ UNCHANGED <<live, resolved, listed>>
    BY <1>6 DEF HandleResolved
  <2>2. StoppedIsEmpty'
    BY <1>1, <1>2, <2>1 DEF InstancePart, StoppedIsEmpty
  <2>3. ASSUME NEW j \in Instances, HostOf(j) \in Sound PROVE j \notin live /\ j \notin listed
    BY <1>6, <2>3 DEF InstancePart, StoppedIsEmpty, Sound
  <2> QED BY <1>2, <1>3, <2>1, <2>2, <2>3 DEF InstancePart, InstancesFollow
<1>7. CASE HandleResolved(i) /\ started
  <2>1. /\ resolving' = resolving \ {i} /\ live' = live
        /\ resolved' = resolved \cup ({i} \cap live) /\ listed' = listed \cup {i}
        /\ i \notin live => HostOf(i) \in stray'
    BY <1>7 DEF HandleResolved
  <2>2. resolved' \subseteq listed'
    BY <2>1 DEF InstancePart, InstancesFollow
  <2>3. ASSUME NEW j \in Instances, HostOf(j) \in Sound'
        PROVE  (j \in listed' => j \in resolved') /\ (j \in live' => j \in resolving' \cup resolved')
    BY <1>2, <2>1, <2>3 DEF InstancePart, InstancesFollow, Sound
  <2> QED BY <1>1, <1>2, <1>3, <1>7, <2>2, <2>3 DEF InstancePart, StoppedIsEmpty, InstancesFollow
<1>8. CASE ResolveFails(i)
  <2>1. /\ resolving' = resolving \ {i} /\ UNCHANGED <<live, resolved, listed>>
        /\ HostOf(i) \in stray'
    BY <1>8 DEF ResolveFails, discoveryVars
  <2>2. ASSUME NEW j \in Instances, HostOf(j) \in Sound' PROVE j # i /\ HostOf(j) \in Sound
    BY <1>2, <2>1, <2>2 DEF Sound
  <2> QED BY <1>1, <1>2, <1>3, <2>1, <2>2 DEF InstancePart, StoppedIsEmpty, InstancesFollow
<1> QED BY <1>4, <1>5, <1>6, <1>7, <1>8

LEMMA InstancesOfStart ==
    ASSUME Types, InstancePart, StartUp \/ StartAgain
    PROVE  InstancePart'
<1> USE DEF Types, HistoryTypes
<1>1. /\ ~started /\ thread' \in {"asleep", "sweep"} /\ stray \subseteq stray'
      /\ UNCHANGED <<live, resolved, listed, resolving, announcer>>
  BY DEF StartUp, StartAgain, GoTo, resolverVars, InstancePart, StoppedThreads
<1>2. (\A i : HostOf(i)' = HostOf(i)) /\ Sound' \subseteq Sound
  BY <1>1 DEF HostOf, Sound
<1> QED BY <1>1, <1>2 DEF InstancePart, StoppedThreads, StoppedIsEmpty, InstancesFollow

LEMMA InstancesOfStop ==
    ASSUME Types, InstancePart, StopForRestart \/ StopForGood
    PROVE  InstancePart' /\ ~started' /\ listed' = {}
<1>1. PICK late \in SUBSET announced :
          /\ StopBrowse(late)
          /\ stray \cup {HostOf(i) : i \in late} \subseteq stray'
  BY DEF StopForRestart, StopForGood
<1>2. announcer' = announcer
  BY DEF StopForRestart, StopForGood
<1>3. (\A i : HostOf(i)' = HostOf(i)) /\ Sound' \subseteq Sound
  BY <1>1, <1>2 DEF HostOf, Sound
<1>4. CASE ~started
  <2>1. UNCHANGED <<started, live, resolved, listed, resolving>>
    BY <1>1, <1>4 DEF StopBrowse, discoveryVars
  <2>2. StoppedThreads'
    BY <1>4, <2>1 DEF StoppedThreads
  <2> QED BY <1>1, <1>2, <1>4, <2>1, <2>2, InstancesFrame DEF InstancePart, StoppedIsEmpty
<1>5. CASE started
  <2>1. /\ started' = FALSE /\ live' = late /\ resolving' = resolving \cup late
        /\ resolved' = {} /\ listed' = {}
    BY <1>1, <1>5 DEF StopBrowse
  <2> QED BY <1>1, <1>3, <2>1 DEF InstancePart, StoppedThreads, StoppedIsEmpty, InstancesFollow
<1> QED BY <1>4, <1>5

LEMMA InstancesStep ==
    ASSUME Types, InstancePart, Next
    PROVE  InstancePart'
<1>0. stray \subseteq stray' /\ announcer' = announcer
  BY HistoryGrows
<1>1. ASSUME NEW i \in Instances, Announce(i) \/ Withdraw(i) PROVE InstancePart'
  <2>1. UNCHANGED <<discoveryVars, resolving, thread>>
    BY <1>1 DEF Announce, Withdraw, runtimeVars
  <2> QED BY <1>0, <2>1, InstancesFrame DEF discoveryVars, InstancePart, StoppedThreads
<1>2. ASSUME NEW k \in DOMAIN reports, MakeReport(k) PROVE InstancePart'
  <2>1. UNCHANGED <<discoveryVars, resolving, thread>>
    BY <1>2 DEF MakeReport, resolverVars, OnAdded, OnRemoved, runtimeVars
  <2> QED BY <1>0, <2>1, InstancesFrame DEF discoveryVars, InstancePart, StoppedThreads
<1>3. ASSUME \/ RuntimeStep \/ Disturb \/ SwitchOn
             \/ \E h \in Hosts : GraceRunsOut(h) \/ DialerGivesUp(h)
      PROVE  InstancePart'
  <2>1. UNCHANGED <<discoveryVars, resolving>>
    BY <1>3 DEF RuntimeStep, Disturb, SwitchOn, GraceRunsOut, DialerGivesUp, resolverVars
  <2>2. \/ thread' = thread \/ thread' \in {"restart", "sweep", "asleep", "leaving"}
        \/ thread \in {"clearing", "resetting", "off"}
    BY <1>3 DEF RuntimeStep, Disturb, SwitchOn, GraceRunsOut, DialerGivesUp, Wake, SweepExpired,
                Break, ClearPeers, Reset, RequestStop, SignalInterfaces, StartRuntime, GraceEnds,
                GoTo, runtimeVars
  <2>3. StoppedThreads'
    BY <2>1, <2>2 DEF discoveryVars, InstancePart, StoppedThreads
  <2> QED BY <1>0, <2>1, <2>3, InstancesFrame DEF discoveryVars
<1> QED BY <1>1, <1>2, <1>3, InstancesOfBrowse, InstancesOfStart, InstancesOfStop DEF Next

-----------------------------------------------------------------------------
(***************************************************************************)
(* From the list to the reports and the tracked hosts, step by step.       *)
(***************************************************************************)
ReportPart == ReportsTyped /\ BrowseOrdered /\ LastWordIsTrue /\ TrackedIsListed

(* Among the reports of a host under way, one is the last.                  *)
LEMMA LastOfSomebody ==
    ASSUME ReportsInOrder, BrowseOrdered, NEW h, ~Silent(h)
    PROVE  \E k \in DOMAIN reports : LastOf(h, k)
<1> DEFINE Its == {k \in DOMAIN reports : reports[k].host = h}
<1>1. Its \in SUBSET Nat /\ Its # {} /\ IsFiniteSet(Its)
  <2>1. DOMAIN reports = 1 .. Len(reports) /\ Len(reports) \in Nat
    BY DEF ReportsInOrder
  <2>2. Its \in SUBSET (1 .. Len(reports)) /\ Its # {}
    BY <2>1 DEF Silent
  <2>3. IsFiniteSet(1 .. Len(reports))
    BY <2>1, FS_Interval
  <2> HIDE DEF Its
  <2>4. IsFiniteSet(Its)
    BY <2>2, <2>3, FS_Subset
  <2>5. 1 .. Len(reports) \in SUBSET Nat
    BY <2>1
  <2> QED BY <2>2, <2>4, <2>5
<1> HIDE DEF Its
<1>2. PICK k \in Its : \A j \in Its : j <= k
  BY <1>1, LargestOf
<1> USE DEF Its
<1>3. PICK j \in Its : reports[j].browse
  BY DEF Silent
<1>4. k \in Nat /\ j \in Nat /\ (j < k \/ j = k)
  BY <1>1, <1>2, <1>3
<1>5. reports[k].browse
  BY <1>3, <1>4 DEF BrowseOrdered
<1>6. ASSUME NEW i \in DOMAIN reports, k < i PROVE reports[i].host # h
  <2> SUFFICES ASSUME i \in Its PROVE FALSE
    OBVIOUS
  <2>1. i \in Nat /\ i <= k
    BY <1>1, <1>2
  <2> QED BY <1>4, <1>6, <2>1
<1> QED BY <1>5, <1>6 DEF LastOf

(* The list, the reports and the tracked hosts are left alone.              *)
LEMMA ReportsFrame ==
    ASSUME ReportPart, stray \subseteq stray', started => started',
           thread \in {"clearing", "resetting"} => thread' \in {"clearing", "resetting"},
           UNCHANGED <<reports, listed, announcer, active, pendingRemoval>>
    PROVE  ReportPart'
<1>1. ReportsTyped' /\ BrowseOrdered'
  BY DEF ReportPart, ReportsTyped, BrowseOrdered
<1>2. /\ \A h : (Listed(h)' <=> Listed(h)) /\ (Silent(h)' <=> Silent(h))
      /\ \A h, k : LastOf(h, k)' <=> LastOf(h, k)
      /\ Tracked' = Tracked /\ Sound' \subseteq Sound
  BY DEF Listed, Of, HostOf, Silent, LastOf, Tracked, Sound
<1>3. LastWordIsTrue'
  BY <1>2 DEF ReportPart, LastWordIsTrue
<1>4. TrackedIsListed'
  BY <1>2 DEF ReportPart, TrackedIsListed
<1> QED BY <1>1, <1>3, <1>4 DEF ReportPart

(* A new report of the browse, of host h, that tells what is listed.        *)
LEMMA NewReport ==
    ASSUME Types, ReportPart, started, started', stray \subseteq stray',
           UNCHANGED <<announcer, active, pendingRemoval, thread>>,
           NEW h \in Hosts, NEW r \in Reports, Report(r), r.host = h, r.browse,
           r.event = "added" => r.endpoint # None,
           h \in Sound' => (r.event = "added" <=> Listed(h)'),
           \A g \in Hosts \ {h} : Listed(g)' <=> Listed(g)
    PROVE  ReportPart'
<1>1. PICK n \in Nat : n = Len(reports)
  BY DEF Types, ReportsInOrder
<1>2. /\ DOMAIN reports = 1 .. n /\ DOMAIN reports' = 1 .. n + 1 /\ reports'[n + 1] = r
      /\ \A k \in 1 .. n : reports'[k] = reports[k]
  BY <1>1, ReportAppends DEF Types, ReportsInOrder
<1>3. \A k \in 1 .. n + 1 : k \in 1 .. n \/ k = n + 1
  OBVIOUS
<1>4. Sound' \subseteq Sound /\ Tracked' = Tracked
  BY DEF Sound, Tracked
<1>5. ReportsTyped'
  BY <1>2, <1>3 DEF ReportPart, ReportsTyped
<1>6. BrowseOrdered'
  <2> SUFFICES ASSUME NEW j \in 1 .. n + 1, NEW k \in 1 .. n + 1, j < k, reports'[j].browse
               PROVE  reports'[k].browse
    BY <1>2 DEF BrowseOrdered
  <2>1. CASE k = n + 1
    BY <1>2, <2>1
  <2>2. CASE k \in 1 .. n
    <3>1. j \in 1 .. n
      BY <2>2
    <3> QED BY <1>2, <2>2, <3>1 DEF ReportPart, BrowseOrdered
  <2> QED BY <1>3, <2>1, <2>2
<1>7. LastWordIsTrue'
  <2> SUFFICES ASSUME NEW g \in Sound', NEW k \in 1 .. n + 1, LastOf(g, k)'
               PROVE  reports'[k].event = "added" <=> Listed(g)'
    BY <1>2 DEF LastWordIsTrue
  <2>1. CASE k = n + 1
    <3>1. g = h
      BY <1>2, <2>1 DEF LastOf
    <3> QED BY <1>2, <2>1, <3>1
  <2>2. CASE k \in 1 .. n
    <3>1. k < n + 1 /\ n + 1 \in 1 .. n + 1
      BY <2>2
    <3>2. g # h
      BY <1>2, <3>1 DEF LastOf
    <3>3. LastOf(g, k)
      BY <1>2, <2>2 DEF LastOf
    <3> QED BY <1>2, <1>4, <2>2, <3>2, <3>3 DEF ReportPart, LastWordIsTrue, Sound
  <2> QED BY <1>3, <2>1, <2>2
<1>8. TrackedIsListed'
  <2> SUFFICES ASSUME thread \notin {"clearing", "resetting"}, NEW g \in Sound', Silent(g)'
               PROVE  Listed(g)' <=> g \in Tracked \ pendingRemoval
    BY <1>4 DEF TrackedIsListed
  <2>1. n + 1 \in 1 .. n + 1 /\ \A k \in 1 .. n : k \in 1 .. n + 1
    OBVIOUS
  <2>2. g # h /\ Silent(g)
    BY <1>2, <2>1 DEF Silent
  <2> QED BY <1>4, <2>2 DEF ReportPart, TrackedIsListed, Sound
<1> QED BY <1>5, <1>6, <1>7, <1>8 DEF ReportPart

LEMMA ReportsOfBrowse ==
    ASSUME Types, InstancePart, ReportPart, NEW i \in Instances,
           BrowseGone(i) \/ HandleResolved(i)
    PROVE  ReportPart'
<1>1. /\ stray \subseteq stray' /\ announcer' = announcer
      /\ UNCHANGED <<active, pendingRemoval, thread, started>>
  BY DEF BrowseGone, HandleResolved, trackVars, runtimeVars
<1>2. PICK h \in Hosts : h = HostOf(i)
  BY HostOfTyped
<1>3. \A g : Of(g)' = Of(g)
  BY <1>1 DEF Of, HostOf
<1>4. i \in Of(h) /\ \A g \in Hosts \ {h} : i \notin Of(g)
  BY <1>2 DEF Of
<1>5. CASE HandleResolved(i) /\ ~started
  <2>1. UNCHANGED <<listed, reports>>
    BY <1>5 DEF HandleResolved
  <2> QED BY <1>1, <2>1, ReportsFrame
<1>6. CASE HandleResolved(i) /\ started
  <2>1. listed' = listed \cup {i} /\ Report(Added(i))
    BY <1>6 DEF HandleResolved
  <2>2. Listed(h)' /\ \A g \in Hosts \ {h} : Listed(g)' <=> Listed(g)
    BY <1>3, <1>4, <2>1 DEF Listed
  <2>3. /\ Added(i) \in Reports /\ Added(i).host = h /\ Added(i).browse
        /\ Added(i).event = "added" /\ Added(i).endpoint # None
    BY <1>2, ReportTyped, HostOfTyped, ConstantFacts DEF Added
  <2> QED BY <1>1, <1>6, <2>1, <2>2, <2>3, NewReport
<1>7. CASE BrowseGone(i)
  <2>1. /\ started
        /\ listed' = IF i \in resolved THEN listed \ {i} ELSE listed
        /\ IF i \in resolved \cap listed /\ listed \cap Of(h) = {i}
           THEN Report(Removed(h)) ELSE UNCHANGED reports
    BY <1>2, <1>7 DEF BrowseGone
  <2>2. CASE i \in resolved \cap listed /\ listed \cap Of(h) = {i}
    <3>1. ~Listed(h)' /\ \A g \in Hosts \ {h} : Listed(g)' <=> Listed(g)
      BY <1>3, <1>4, <2>1, <2>2 DEF Listed
    <3>2. /\ Removed(h) \in Reports /\ Removed(h).host = h /\ Removed(h).browse
          /\ Removed(h).event # "added"
      BY <1>2, ReportTyped DEF Removed
    <3> QED BY <1>1, <2>1, <2>2, <3>1, <3>2, NewReport
  <2>3. CASE i \notin resolved
    BY <1>1, <2>1, <2>3, ReportsFrame
  <2>4. CASE i \in resolved /\ listed \cap Of(h) # {i}
    <3>1. i \in listed /\ listed' = listed \ {i} /\ reports' = reports
      BY <2>1, <2>4 DEF InstancePart, InstancesFollow
    <3>2. \A g \in Hosts : Listed(g)' <=> Listed(g)
      BY <1>3, <1>4, <2>4, <3>1 DEF Listed
    <3>3. /\ \A g : Silent(g)' <=> Silent(g)
          /\ \A g, k : LastOf(g, k)' <=> LastOf(g, k)
          /\ Tracked' = Tracked /\ Sound' \subseteq Sound /\ Sound' \subseteq Hosts
      BY <1>1, <3>1 DEF Silent, LastOf, Tracked, Sound
    <3>4. ReportsTyped' /\ BrowseOrdered'
      BY <1>1, <3>1 DEF ReportPart, ReportsTyped, BrowseOrdered
    <3>5. LastWordIsTrue'
      BY <3>1, <3>2, <3>3 DEF ReportPart, LastWordIsTrue
    <3>6. TrackedIsListed'
      BY <1>1, <3>2, <3>3 DEF ReportPart, TrackedIsListed
    <3> QED BY <3>4, <3>5, <3>6 DEF ReportPart
  <2> QED BY <2>2, <2>3, <2>4 DEF InstancePart, InstancesFollow
<1> QED BY <1>5, <1>6, <1>7

(* A report that is made and leaves its host a sound one had none of the same
   host before it, and was the last of them if the host falls silent by it.  *)
LEMMA ReportsOfReport ==
    ASSUME Types, ReportPart, NEW k \in DOMAIN reports, MakeReport(k)
    PROVE  ReportPart'
<1> USE DEF Types
<1>1. PICK h \in Hosts : h = reports[k].host
  BY ReportFields
<1>2. PICK n \in Nat : n = Len(reports)
  BY DEF ReportsInOrder
<1>3. /\ DOMAIN reports = 1 .. n /\ DOMAIN reports' = 1 .. n - 1 /\ k \in 1 .. n
      /\ \A j \in 1 .. n - 1 : reports'[j] = IF j < k THEN reports[j] ELSE reports[j + 1]
  <2>1. reports' = RemoveAt(reports, k)
    BY DEF MakeReport
  <2>2. /\ RemoveAt(reports, k) \in Seq(Reports) /\ Len(RemoveAt(reports, k)) = n - 1
        /\ \A j \in 1 .. n - 1 :
              RemoveAt(reports, k)[j] = IF j < k THEN reports[j] ELSE reports[j + 1]
    BY <1>2, RemoveAtSeq DEF ReportsInOrder
  <2> QED BY <1>2, <2>1, <2>2 DEF ReportsInOrder
<1> DEFINE From(j) == IF j < k THEN j ELSE j + 1
<1>4. ASSUME NEW j \in 1 .. n - 1
      PROVE  From(j) \in 1 .. n /\ From(j) # k /\ reports'[j] = reports[From(j)]
  BY <1>3
<1>5. ASSUME NEW i \in 1 .. n, i # k
      PROVE  \E j \in 1 .. n - 1 : From(j) = i
  <2>1. CASE i < k
    <3>1. i \in 1 .. n - 1 /\ From(i) = i
      BY <1>3, <2>1
    <3> QED BY <3>1
  <2>2. CASE ~(i < k)
    <3>1. i - 1 \in 1 .. n - 1 /\ From(i - 1) = i
      BY <1>3, <1>5, <2>2
    <3> QED BY <3>1
  <2> QED BY <2>1, <2>2
<1>6. \A i, j \in 1 .. n - 1 : i < j <=> From(i) < From(j)
  BY <1>3
<1> HIDE DEF From
<1>7. /\ UNCHANGED <<started, listed, announcer, thread>> /\ stray \subseteq stray'
      /\ h \notin stray' => /\ reports[k].browse
                            /\ \A j \in 1 .. k - 1 : reports[j].host # h
  <2>1. UNCHANGED <<started, listed, announcer>>
    BY DEF MakeReport, discoveryVars, resolverVars
  <2>2. thread' = thread
    BY DEF MakeReport, OnAdded, OnRemoved, runtimeVars
  <2>3. h \notin stray' => reports[k].browse /\ \A j \in 1 .. k - 1 : reports[j].host # h
    BY <1>1 DEF MakeReport
  <2>4. stray \subseteq stray'
    BY DEF MakeReport
  <2> QED BY <2>1, <2>2, <2>3, <2>4
<1>8. Sound' \subseteq Sound /\ \A g : Listed(g)' <=> Listed(g)
  BY <1>7 DEF Sound, Listed, Of, HostOf
<1>9. ReportsTyped'
  BY <1>3, <1>4 DEF ReportPart, ReportsTyped
<1>10. BrowseOrdered'
  <2>1. ASSUME NEW i \in 1 .. n - 1, NEW j \in 1 .. n - 1, i < j, reports'[i].browse
        PROVE  reports'[j].browse
    BY <1>3, <1>4, <1>6, <2>1 DEF ReportPart, BrowseOrdered
  <2>2. ASSUME ~started, NEW j \in 1 .. n - 1 PROVE ~reports'[j].browse
    BY <1>3, <1>4, <2>2 DEF ReportPart, BrowseOrdered
  <2> QED BY <1>3, <1>7, <2>1, <2>2 DEF BrowseOrdered
<1>11. LastWordIsTrue'
  <2> SUFFICES ASSUME NEW g \in Sound', NEW j \in 1 .. n - 1, LastOf(g, j)'
               PROVE  reports'[j].event = "added" <=> Listed(g)'
    BY <1>3 DEF LastWordIsTrue
  <2>1. From(j) \in 1 .. n /\ reports'[j] = reports[From(j)]
    BY <1>4
  <2>2. ASSUME NEW i \in 1 .. n, From(j) < i PROVE reports[i].host # g
    <3>1. CASE i # k
      <4>1. PICK m \in 1 .. n - 1 : From(m) = i
        BY <1>5, <3>1
      <4>2. j < m /\ reports'[m] = reports[i]
        BY <1>4, <1>6, <2>2, <4>1
      <4> QED BY <1>3, <4>2 DEF LastOf
    <3>2. CASE i = k
      <4> SUFFICES ASSUME g = h PROVE FALSE
        BY <1>1, <3>2
      <4>1. From(j) \in 1 .. k - 1
        BY <1>3, <2>1, <2>2, <3>2
      <4>2. h \notin stray'
        BY DEF Sound
      <4>3. reports[From(j)].host = h
        BY <2>1 DEF LastOf
      <4> QED BY <1>7, <4>1, <4>2, <4>3
    <3> QED BY <3>1, <3>2
  <2>3. LastOf(g, From(j))
    BY <1>3, <2>1, <2>2 DEF LastOf
  <2> QED BY <1>3, <1>8, <2>1, <2>3 DEF ReportPart, LastWordIsTrue
<1>12. ASSUME h \in Sound', Silent(h)'
       PROVE  reports[k].event = "added" <=> Listed(h)
  <2>1. reports[k].browse /\ h \in Sound
    BY <1>7, <1>8, <1>12 DEF Sound
  <2>2. ASSUME NEW i \in 1 .. n, k < i PROVE reports[i].host # h
    <3>1. reports[i].browse
      BY <1>3, <2>1, <2>2 DEF ReportPart, BrowseOrdered
    <3>2. i # k
      BY <1>3, <2>2
    <3>3. PICK j \in 1 .. n - 1 : From(j) = i
      BY <1>5, <3>2
    <3>4. reports'[j] = reports[i]
      BY <1>4, <3>3
    <3> QED BY <1>3, <1>12, <3>1, <3>4 DEF Silent
  <2>3. LastOf(h, k)
    BY <1>1, <1>3, <2>1, <2>2 DEF LastOf
  <2> QED BY <1>3, <2>1, <2>3 DEF ReportPart, LastWordIsTrue
<1>13. ASSUME NEW g \in Hosts \ {h}, Silent(g)' PROVE Silent(g)
  <2> SUFFICES ASSUME NEW i \in 1 .. n, reports[i].host = g PROVE ~reports[i].browse
    BY <1>3 DEF Silent
  <2>1. PICK j \in 1 .. n - 1 : From(j) = i
    BY <1>1, <1>5
  <2>2. reports'[j] = reports[i]
    BY <1>4, <2>1
  <2> QED BY <1>3, <1>13, <2>2 DEF Silent
<1>14. TrackedIsListed'
  <2> SUFFICES ASSUME thread \notin {"clearing", "resetting"}, NEW g \in Sound', Silent(g)'
               PROVE  Listed(g) <=> g \in Tracked' \ pendingRemoval'
    BY <1>7, <1>8 DEF TrackedIsListed
  <2>0. g \in Hosts /\ g \in Sound
    BY <1>8 DEF Sound
  <2>1. CASE reports[k].event = "added"
    <3>1. PICK e \in Endpoints : e = reports[k].endpoint
      BY <2>1, ReportFields DEF ReportPart, ReportsTyped
    <3>2. OnAdded(h, e)
      BY <1>1, <2>1, <3>1 DEF MakeReport
    <3>3. Tracked' = Tracked \cup {h} /\ pendingRemoval' = pendingRemoval \ {h}
      BY <3>2, OnAddedEffect
    <3>4. CASE g = h
      BY <1>12, <2>1, <3>3, <3>4
    <3>5. CASE g # h
      BY <1>13, <2>0, <3>3, <3>5 DEF ReportPart, TrackedIsListed
    <3> QED BY <3>4, <3>5
  <2>2. CASE reports[k].event # "added"
    <3>1. OnRemoved(h)
      BY <1>1, <2>2 DEF MakeReport
    <3>2. /\ Tracked' = Tracked
          /\ pendingRemoval' = IF h \in Tracked THEN pendingRemoval \cup {h} ELSE pendingRemoval
      BY <3>1 DEF OnRemoved, Tracked
    <3>3. CASE g = h
      BY <1>12, <2>2, <3>2, <3>3
    <3>4. CASE g # h
      BY <1>13, <2>0, <3>2, <3>4 DEF ReportPart, TrackedIsListed
    <3> QED BY <3>3, <3>4
  <2> QED BY <2>1, <2>2
<1> QED BY <1>9, <1>10, <1>11, <1>14 DEF ReportPart

(* Stopping the browse disowns the reports under way.                       *)
LEMMA ReportsOfStop ==
    ASSUME Types, InstancePart, ReportPart, StopForRestart \/ StopForGood
    PROVE  ReportPart'
<1> USE DEF Types
<1>1. ~started' /\ listed' = {} /\ stray \subseteq stray' /\ UNCHANGED trackVars
  BY InstancesOfStop DEF StopForRestart, StopForGood
<1>2. PICK late \in SUBSET announced : StopBrowse(late)
  BY DEF StopForRestart, StopForGood
<1>3. DOMAIN reports' = DOMAIN reports
      /\ \A k \in DOMAIN reports : /\ reports'[k].event = reports[k].event
                                   /\ reports'[k].endpoint = reports[k].endpoint
                                   /\ ~reports'[k].browse
  <2>1. CASE ~started
    <3>1. reports' = reports
      BY <1>2, <2>1 DEF StopBrowse
    <3> QED BY <2>1, <3>1 DEF ReportPart, BrowseOrdered
  <2>2. CASE started
    <3>1. reports' = [k \in DOMAIN reports |-> [reports[k] EXCEPT !.browse = FALSE]]
      BY <1>2, <2>2 DEF StopBrowse
    <3>2. \A r \in Reports : /\ [r EXCEPT !.browse = FALSE].event = r.event
                             /\ [r EXCEPT !.browse = FALSE].endpoint = r.endpoint
                             /\ ~[r EXCEPT !.browse = FALSE].browse
      BY DEF Reports
    <3> QED BY <3>1, <3>2, ReportFields
  <2> QED BY <2>1, <2>2
<1>4. ReportsTyped'
  BY <1>3 DEF ReportPart, ReportsTyped
<1>5. BrowseOrdered'
  BY <1>3 DEF BrowseOrdered
<1>6. LastWordIsTrue'
  BY <1>3 DEF LastWordIsTrue, LastOf
<1>7. TrackedIsListed'
  <2>1. \A g : ~Listed(g)'
    BY <1>1 DEF Listed
  <2>2. CASE StopForGood
    BY <2>2 DEF StopForGood, GoTo, TrackedIsListed
  <2>3. CASE StopForRestart
    <3>1. Tracked \subseteq stray'
      BY <2>3 DEF StopForRestart
    <3>2. Tracked' = Tracked
      BY <1>1 DEF Tracked, trackVars
    <3> QED BY <2>1, <3>1, <3>2 DEF TrackedIsListed, Sound
  <2> QED BY <2>2, <2>3
<1> QED BY <1>4, <1>5, <1>6, <1>7 DEF ReportPart

(* What changes only the tracked hosts.                                     *)
LEMMA ReportsOfTracking ==
    ASSUME Types, InstancePart, ReportPart, UNCHANGED <<stray, discoveryVars, resolverVars, reports>>,
           \/ SweepExpired \/ Reset \/ StartRuntime
    PROVE  ReportPart'
<1> USE DEF Types
<1>1. UNCHANGED <<started, listed, announcer>>
  BY DEF discoveryVars, resolverVars
<1>2. ReportsTyped' /\ BrowseOrdered'
  BY <1>1 DEF ReportPart, ReportsTyped, BrowseOrdered
<1>3. /\ \A h : (Listed(h)' <=> Listed(h)) /\ (Silent(h)' <=> Silent(h))
      /\ \A h, k : LastOf(h, k)' <=> LastOf(h, k)
      /\ Sound' = Sound
  BY <1>1 DEF Listed, Of, HostOf, Silent, LastOf, Sound
<1>4. LastWordIsTrue'
  BY <1>3 DEF ReportPart, LastWordIsTrue
<1>5. CASE SweepExpired
  <2>1. thread = "sweep" /\ Tracked' = Tracked \ due /\ pendingRemoval' = pendingRemoval \ due
    BY <1>5, SweepEffect DEF SweepExpired
  <2>2. Tracked' \ pendingRemoval' = Tracked \ pendingRemoval
    BY <2>1 DEF TrackTypes
  <2>3. TrackedIsListed'
    BY <1>3, <2>1, <2>2 DEF ReportPart, TrackedIsListed
  <2> QED BY <1>2, <1>4, <2>3 DEF ReportPart
<1>6. CASE Reset \/ StartRuntime
  <2>1. Forget /\ thread \in {"resetting", "off"}
    BY <1>6 DEF Reset, StartRuntime
  <2>2. Tracked' = {}
    BY <2>1 DEF Forget, Tracked, Nobody
  <2>3. \A h : ~Listed(h)
    BY <2>1 DEF InstancePart, StoppedThreads, StoppedIsEmpty, Listed
  <2>4. TrackedIsListed'
    BY <1>3, <2>2, <2>3 DEF TrackedIsListed
  <2> QED BY <1>2, <1>4, <2>4 DEF ReportPart
<1> QED BY <1>5, <1>6

LEMMA ReportsStep ==
    ASSUME Types, InstancePart, ReportPart, Next
    PROVE  ReportPart'
<1>0. stray \subseteq stray' /\ announcer' = announcer
  BY HistoryGrows
<1>1. ASSUME NEW i \in Instances,
             Announce(i) \/ Withdraw(i) \/ BrowseFound(i) \/ ResolveFails(i)
      PROVE  ReportPart'
  <2>1. UNCHANGED <<reports, listed, started, trackVars, runtimeVars>>
    BY <1>1 DEF Announce, Withdraw, BrowseFound, ResolveFails, discoveryVars
  <2> QED BY <1>0, <2>1, ReportsFrame DEF trackVars, runtimeVars
<1>2. ASSUME StartUp \/ StartAgain PROVE ReportPart'
  <2>1. /\ UNCHANGED <<reports, listed, trackVars>> /\ ~started
        /\ thread \in {"starting", "restarting"}
    BY <1>2 DEF StartUp, StartAgain, InstancePart, StoppedThreads
  <2> QED BY <1>0, <2>1, ReportsFrame DEF trackVars
<1>3. ASSUME RuntimeStep PROVE ReportPart'
  <2>1. UNCHANGED <<stray, discoveryVars, resolverVars, reports>>
    BY <1>3 DEF RuntimeStep
  <2>2. UNCHANGED <<listed, started>>
    BY <2>1 DEF discoveryVars
  <2>3. ASSUME Wake \/ Break PROVE ReportPart'
    <3>1. UNCHANGED trackVars /\ thread = "asleep"
      BY <2>3 DEF Wake, Break
    <3> QED BY <1>0, <2>1, <2>2, <3>1, ReportsFrame DEF trackVars
  <2>4. ASSUME ClearPeers PROVE ReportPart'
    <3>1. UNCHANGED <<active, pendingRemoval>> /\ thread' = "resetting"
      BY <2>4 DEF ClearPeers, GoTo
    <3> QED BY <1>0, <2>1, <2>2, <3>1, ReportsFrame
  <2> QED BY <1>3, <2>1, <2>3, <2>4, ReportsOfTracking DEF RuntimeStep
<1>4. ASSUME Disturb PROVE ReportPart'
  <2>1. UNCHANGED <<trackVars, thread, discoveryVars, reports>>
    BY <1>4 DEF Disturb, RequestStop, SignalInterfaces
  <2> QED BY <1>0, <2>1, ReportsFrame DEF trackVars, discoveryVars
<1>5. ASSUME SwitchOn PROVE ReportPart'
  BY <1>5, ReportsOfTracking DEF SwitchOn
<1>6. ASSUME NEW h \in Hosts, GraceRunsOut(h) \/ DialerGivesUp(h) PROVE ReportPart'
  <2>1. UNCHANGED <<active, pendingRemoval, runtimeVars, discoveryVars, reports>>
    BY <1>6 DEF GraceRunsOut, GraceEnds, DialerGivesUp
  <2> QED BY <1>0, <2>1, ReportsFrame DEF runtimeVars, discoveryVars
<1> QED BY <1>1, <1>2, <1>3, <1>4, <1>5, <1>6, ReportsOfBrowse, ReportsOfReport, ReportsOfStop
        DEF Next

-----------------------------------------------------------------------------
DiscoveryInv == Types /\ InstancePart /\ ReportPart /\ DialPart

LEMMA InvInitially ==
    ASSUME Init
    PROVE  DiscoveryInv
<1> USE DEF Init, ReconcilerInit
<1>1. Nobody \in DialTable /\ Dialled(Nobody) = {} /\ Tracked = {}
  BY DEF Nobody, DialTable, Dialled, Tracked
<1>2. Types
  <2>1. TrackTypes
    BY <1>1, FS_EmptySet, ConstantFacts DEF TrackTypes
  <2>2. RuntimeTypes
    BY DEF RuntimeTypes
  <2>3. BrowseTypes
    BY DEF BrowseTypes
  <2>4. HistoryTypes
    BY ConstantFacts DEF HistoryTypes
  <2>5. ReportsInOrder
    BY DEF ReportsInOrder
  <2> QED BY <2>1, <2>2, <2>3, <2>4, <2>5 DEF Types
<1>3. InstancePart
  BY DEF InstancePart, StoppedThreads, StoppedIsEmpty, InstancesFollow
<1>4. ReportPart
  BY <1>1 DEF ReportPart, ReportsTyped, BrowseOrdered, LastWordIsTrue, TrackedIsListed, Listed
<1>5. DialPart
  BY <1>1 DEF DialPart, EndpointFollows, Running, DialsStop, DisownedStray, DeparturesArmed,
              WaitingMeansFull, Waiting, Nobody
<1> QED BY <1>2, <1>3, <1>4, <1>5 DEF DiscoveryInv

LEMMA InvKept ==
    ASSUME DiscoveryInv, [Next]_vars
    PROVE  DiscoveryInv'
<1>1. CASE Next
  BY <1>1, TypesStep, InstancesStep, ReportsStep, DialsStep
     DEF DiscoveryInv, InstancePart, ReportPart
<1>2. CASE UNCHANGED vars
  <2>1. UNCHANGED <<active, admitted, pendingRemoval, due, dialled>> /\ UNCHANGED reports
    BY <1>2 DEF vars, trackVars
  <2>2. UNCHANGED <<thread, wanted, wakePending, interfacesChanged, republishPending, armed>>
    BY <1>2 DEF vars, runtimeVars
  <2>3. UNCHANGED <<started, live, resolved, listed, announcer, announced, resolving>>
    BY <1>2 DEF vars, discoveryVars, resolverVars
  <2>4. UNCHANGED <<stray, disowned, faults>>
    BY <1>2 DEF vars
  <2>5. Types'
    BY <2>1, <2>2, <2>3, <2>4 DEF DiscoveryInv, Types, TrackTypes, Tracked, RuntimeTypes,
       BrowseTypes, HistoryTypes, ReportsInOrder
  <2>6. StoppedThreads'
    BY <2>2, <2>3 DEF DiscoveryInv, InstancePart, StoppedThreads
  <2> QED BY <2>1, <2>2, <2>3, <2>4, <2>5, <2>6, InstancesFrame, ReportsFrame, DialsFrame
          DEF DiscoveryInv
<1> QED BY <1>1, <1>2

(* Every link of the chain from the browse to the dials holds at every moment. *)
THEOREM DiscoveryInvariant == Spec => []DiscoveryInv
<1>1. Init => DiscoveryInv
  BY InvInitially
<1>2. DiscoveryInv /\ [Next]_vars => DiscoveryInv'
  BY InvKept
<1> QED BY <1>1, <1>2, PTL DEF Spec

(* Types, the cap on outgoing peers included: OnAdded and AdmitPendingPeers
   never dial more than MaxOutgoingPeers hosts.                             *)
THEOREM DiscoveryTypes == Spec => []TypeOK
<1>1. DiscoveryInv => TypeOK
  BY TypesAreTypeOK DEF DiscoveryInv
<1> QED BY <1>1, DiscoveryInvariant, PTL

(* The admitted flags and the endpoints of the reconciler agree with the peer
   manager, but for what strays.                                            *)
THEOREM EndpointsFollow == Spec => []EndpointFollows
<1>1. DiscoveryInv => EndpointFollows
  BY DEF DiscoveryInv, DialPart
<1> QED BY <1>1, DiscoveryInvariant, PTL

(* Once the thread of the network runtime has ended, nobody is dialled, unless
   by a report that was under way when discovery stopped.                   *)
THEOREM StoppedNetworkDialsNobody == Spec => []StoppedDialsNobody
<1>1. DiscoveryInv => StoppedDialsNobody
  BY DEF DiscoveryInv, DialPart, DialsStop, StoppedDialsNobody
<1> QED BY <1>1, DiscoveryInvariant, PTL

LEMMA SettledHost ==
    ASSUME DiscoveryInv, Settled, NEW h \in Hosts \ stray
    PROVE  IF Present(h) THEN dialled[h] # None \/ Cardinality(Dialled(dialled)) = MaxOutgoing
           ELSE dialled[h] = None
<1> USE DEF DiscoveryInv
<1>1. h \in Sound /\ h \notin disowned /\ Running
  BY DEF Sound, DialPart, DisownedStray, Settled, Running
<1>2. pendingRemoval = {}
  BY DEF Settled, DialPart, DeparturesArmed
<1>3. Listed(h) <=> h \in Tracked
  <2>1. Silent(h) /\ thread \notin {"clearing", "resetting"}
    BY DEF Settled, Silent
  <2> QED BY <1>1, <1>2, <2>1 DEF ReportPart, TrackedIsListed
<1>4. Listed(h) <=> Present(h)
  <2>1. ASSUME NEW i \in Instances, HostOf(i) = h PROVE i \in listed <=> i \in announced
    <3>1. (i \in listed <=> i \in resolved) /\ (i \in live => i \in resolving \cup resolved)
      BY <1>1, <2>1 DEF InstancePart, InstancesFollow
    <3>2. resolving = {} /\ live = announced /\ resolved \subseteq live
      BY DEF Settled, Types, BrowseTypes
    <3> QED BY <3>1, <3>2
  <2> QED BY <2>1 DEF Listed, Present, Of
<1>5. dialled[h] = IF h \in admitted THEN active[h] ELSE None
  BY <1>1 DEF DialPart, EndpointFollows
<1>6. CASE Present(h)
  <2>1. h \in Tracked /\ active[h] # None
    BY <1>3, <1>4, <1>6 DEF Tracked
  <2>2. h \notin admitted => h \in Waiting
    BY <1>2, <2>1 DEF Waiting
  <2>3. thread # "resetting" /\ Sound # {}
    BY <1>1 DEF Running
  <2>4. h \notin admitted => Cardinality(Dialled(dialled)) = MaxOutgoing
    BY <2>2, <2>3 DEF DialPart, WaitingMeansFull
  <2> QED BY <1>5, <1>6, <2>1, <2>4
<1>7. CASE ~Present(h)
  <2>1. h \notin admitted
    BY <1>3, <1>4, <1>7 DEF Types, TrackTypes
  <2> QED BY <1>5, <1>7, <2>1
<1> QED BY <1>6, <1>7

(* At rest, a device that is there is dialled unless the cap is reached, and one
   that is gone is not: no wake, departure, report or slot was lost on the way. *)
THEOREM SettledDialsAreRight == Spec => []SettledIsRight
<1>1. DiscoveryInv => SettledIsRight
  BY SettledHost DEF SettledIsRight
<1> QED BY <1>1, DiscoveryInvariant, PTL

LEMMA HealthyStep ==
    ASSUME DiscoveryInv, Next, NEW h \in Hosts, dialled[h] # None, dialled'[h] # dialled[h]
    PROVE  \/ h \in stray' \/ thread = "clearing"
           \/ dialled'[h] # None /\ dialled'[h] = active'[h]
           \/ listed \cap Of(h) = {}
           \/ \E k \in DOMAIN reports : reports[k].host = h /\ reports[k].event = "added"
<1> USE DEF DiscoveryInv
<1>0. dialled' # dialled /\ stray \subseteq stray'
  BY HistoryGrows
<1>1. ASSUME NEW k \in DOMAIN reports, MakeReport(k)
      PROVE  reports[k].host = h /\ reports[k].event = "added"
  <2>1. reports[k].event = "added"
    BY <1>0, <1>1 DEF MakeReport, OnRemoved
  <2>2. PICK g \in Hosts, e \in Endpoints : g = reports[k].host /\ e = reports[k].endpoint
    BY <2>1, ReportFields DEF ReportPart, ReportsTyped, Types
  <2>3. OnAdded(g, e)
    BY <1>1, <2>1, <2>2 DEF MakeReport
  <2>4. \A f \in Hosts \ {g} : dialled'[f] = dialled[f]
    BY <2>3, OnAddedEffect
  <2> QED BY <2>1, <2>2, <2>4
<1>2. ASSUME SweepExpired, h \notin stray
      PROVE  \/ listed \cap Of(h) = {}
             \/ \E k \in DOMAIN reports : reports[k].host = h /\ reports[k].event = "added"
  <2>1. h \in pendingRemoval /\ thread = "sweep"
    BY <1>2, SweepEffect DEF SweepExpired
  <2>2. CASE Silent(h)
    BY <1>2, <2>1, <2>2 DEF ReportPart, TrackedIsListed, Sound, Listed
  <2>3. CASE ~Silent(h)
    <3>1. PICK k \in DOMAIN reports : LastOf(h, k)
      BY <2>3, LastOfSomebody DEF Types, ReportPart
    <3>2. reports[k].host = h /\ (reports[k].event = "added" <=> Listed(h))
      BY <1>2, <3>1 DEF LastOf, ReportPart, LastWordIsTrue, Sound
    <3> QED BY <3>1, <3>2 DEF Listed
  <2> QED BY <2>2, <2>3
<1>3. ASSUME NEW g \in Hosts, DialerGivesUp(g) PROVE h \in stray'
  BY <1>3 DEF DialerGivesUp
<1>4. ASSUME ClearPeers PROVE thread = "clearing"
  BY <1>4 DEF ClearPeers
<1>5. \/ \E k \in DOMAIN reports : MakeReport(k)
      \/ SweepExpired \/ ClearPeers \/ \E g \in Hosts : DialerGivesUp(g)
  <2>1. ASSUME NEW i \in Instances,
               \/ Announce(i) \/ Withdraw(i) \/ BrowseFound(i) \/ BrowseGone(i)
               \/ HandleResolved(i) \/ ResolveFails(i)
        PROVE  dialled' = dialled
    BY <2>1 DEF Announce, Withdraw, BrowseFound, BrowseGone, HandleResolved, ResolveFails, trackVars
  <2>2. ASSUME StartUp \/ StopForRestart \/ StartAgain \/ StopForGood PROVE dialled' = dialled
    BY <2>2 DEF StartUp, StopForRestart, StartAgain, StopForGood, trackVars
  <2>3. ASSUME \/ Wake \/ Break \/ Reset \/ Disturb \/ SwitchOn \/ \E g \in Hosts : GraceRunsOut(g)
        PROVE  dialled' = dialled
    BY <2>3 DEF Wake, Break, Reset, Disturb, RequestStop, SignalInterfaces, SwitchOn, StartRuntime,
                GraceRunsOut, GraceEnds, trackVars
  <2> QED BY <1>0, <2>1, <2>2, <2>3 DEF Next, RuntimeStep
<1> QED BY <1>0, <1>1, <1>2, <1>3, <1>4, <1>5

(* A dial is dropped only for a reason: the network stops, the host moved, or
   its departure is the last thing the browse has told.                     *)
THEOREM HealthyDialsAreKept == Spec => KeepsHealthy
<1>1. DiscoveryInv /\ [Next]_vars =>
        [\A h \in Hosts :
            dialled[h] # None /\ dialled'[h] # dialled[h] =>
               \/ h \in stray' \/ thread = "clearing"
               \/ dialled'[h] # None /\ dialled'[h] = active'[h]
               \/ listed \cap Of(h) = {}
               \/ \E k \in DOMAIN reports :
                     reports[k].host = h /\ reports[k].event = "added"]_vars
  BY HealthyStep
<1> QED BY <1>1, DiscoveryInvariant, PTL DEF Spec, KeepsHealthy
=============================================================================
