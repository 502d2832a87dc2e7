------------------------- MODULE PeerManager_proofs -------------------------
(***************************************************************************)
(* The peers of a daemon, for any number of peers, hosts and addresses and *)
(* any limits.  None of the invariants the run checks is inductive: what a *)
(* removal leaves behind depends on where the threads of the removed peers *)
(* are, on what a walk has in hand, and on which peer is of which kind.    *)
(* ManagerInv adds those facts, and counts the peers shown to the user     *)
(* also in the middle of a walk.                                           *)
(***************************************************************************)
EXTENDS PeerManager, FiniteSetTheorems, TLAPS

Walks == [op : {"clear", "remove", "cull"}, host : HostIds \cup {NoHost},
          todo : SUBSET list, joining : SUBSET list, doomed : SUBSET list]

(* The peers a walk has taken away from the display and not yet destroyed.  *)
Doomed == IF MutexFree THEN {} ELSE walk.doomed

(* A walk holds each peer at most once.                                     *)
WalkInHand ==
    \/ MutexFree
    \/ /\ walk \in Walks
       /\ walk.todo \cap walk.joining = {}
       /\ walk.todo \cap walk.doomed = {}
       /\ walk.joining \cap walk.doomed = {}

(* A dialling thread belongs to an outgoing peer, a serving one to an
   incoming peer, which has no host id before it is introduced.             *)
ThreadFitsPeer ==
    \A p \in Peers :
        /\ thread[p] \in {"dialling", "connected"} => kind[p] = "outgoing"
        /\ thread[p] \in {"handshake", "authenticated"} \cup Serving => kind[p] = "incoming"
        /\ thread[p] \in {"handshake", "authenticated", "introducing"} => host[p] = NoHost

PendingIsHandshake == \A p \in Peers : p \in pending <=> thread[p] = "handshake"

DoomedHaveExited == \A p \in Doomed : thread[p] = "exited"

Counted(k, h) == {p \in Peers : Told(p, k, h) /\ p \notin Doomed}

ShownIsCounted ==
    \A k \in Kinds, h \in HostIds : shown[k][h] = Cardinality(Counted(k, h))

(* What each peer is, apart from the counts.                                *)
PeersInv ==
    /\ TypeOK
    /\ WalkInHand
    /\ ThreadFitsPeer
    /\ PendingIsHandshake
    /\ DoomedHaveExited
    /\ NoThreadOutlivesItsPeer

ManagerInv ==
    /\ PeersInv
    /\ EstablishedIsExact
    /\ ShownIsCounted
    /\ AdmissionBounded

-----------------------------------------------------------------------------
(* What PeersInv says of the types, in the form the steps use.              *)
LEMMA Types ==
    ASSUME PeersInv
    PROVE  /\ phase \in {"running", "stopping", "stopped"}
           /\ list \subseteq Peers
           /\ kind \in [Peers -> Kinds]
           /\ host \in [Peers -> HostIds \cup {NoHost}]
           /\ address \in [Peers -> Addresses]
           /\ thread \in [Peers -> {"none", "dialling", "connected", "handshake",
                                    "authenticated", "exited"} \cup Serving]
           /\ stopped \subseteq Peers /\ running \subseteq Peers /\ pending \subseteq Peers
           /\ established \in Nat /\ culls \in Nat
           /\ shown \in [Kinds -> [HostIds -> Nat]]
BY DEF PeersInv, TypeOK

(* A thread that goes from one place to another leaves everything but its
   own place and its pending authentication as it was.                      *)
ThreadMoves(p, place) ==
    /\ thread[p] \notin {"none", "exited"}
    /\ At(p, place)
    /\ pending' = pending \ {p}
    /\ UNCHANGED <<phase, list, kind, address, stopped, walk>>
    /\ running' \subseteq Peers /\ culls' \in Nat /\ established' \in Nat

LEMMA ThreadMovesKeeps ==
    ASSUME PeersInv, NEW p \in Peers,
           NEW place \in {"dialling", "connected", "authenticated", "exited"} \cup Serving,
           ThreadMoves(p, place),
           host' \in [Peers -> HostIds \cup {NoHost}],
           \A q \in Peers \ {p} : host'[q] = host[q],
           shown' \in [Kinds -> [HostIds -> Nat]],
           place \in {"dialling", "connected"} => kind[p] = "outgoing",
           place \in {"authenticated"} \cup Serving => kind[p] = "incoming",
           place \in {"authenticated", "introducing"} => host'[p] = NoHost
    PROVE  PeersInv' /\ Doomed' = Doomed
<1>1. /\ thread' \in [Peers -> {"none", "dialling", "connected", "handshake",
                                "authenticated", "exited"} \cup Serving]
      /\ thread'[p] = place /\ place # "handshake"
      /\ \A q \in Peers \ {p} : thread'[q] = thread[q]
  BY Types DEF ThreadMoves, At, Serving
<1>2. /\ UNCHANGED <<phase, list, kind, address, stopped, walk>>
      /\ pending' = pending \ {p}
      /\ running' \subseteq Peers /\ culls' \in Nat /\ established' \in Nat
  BY DEF ThreadMoves
<1>3. Doomed' = Doomed /\ MutexFree' = MutexFree
  BY <1>2 DEF Doomed, MutexFree
<1>4. p \in list /\ p \notin Doomed
  BY DEF PeersInv, ThreadMoves, NoThreadOutlivesItsPeer, DoomedHaveExited
<1>5. TypeOK'
  BY <1>1, <1>2, <1>3, Types DEF TypeOK, PeersInv
<1>6. WalkInHand'
  BY <1>2, <1>3 DEF PeersInv, WalkInHand, Walks
<1>7. ThreadFitsPeer'
  BY <1>1, <1>2 DEF PeersInv, ThreadFitsPeer, Serving
<1>8. PendingIsHandshake'
  BY <1>1, <1>2 DEF PeersInv, PendingIsHandshake
<1>9. Doomed \subseteq Peers
  BY Types DEF Doomed, PeersInv, WalkInHand, Walks
<1>10. DoomedHaveExited'
  BY <1>1, <1>3, <1>4, <1>9 DEF PeersInv, DoomedHaveExited
<1>11. NoThreadOutlivesItsPeer'
  BY <1>1, <1>2, <1>4 DEF PeersInv, NoThreadOutlivesItsPeer
<1> QED BY <1>3, <1>5, <1>6, <1>7, <1>8, <1>10, <1>11 DEF PeersInv

-----------------------------------------------------------------------------
LEMMA Countable ==
    ASSUME PeerManagerAssumption, NEW S \in SUBSET Peers
    PROVE  IsFiniteSet(S) /\ Cardinality(S) \in Nat
BY FS_Subset, FS_CardinalityType DEF PeerManagerAssumption

LEMMA OneMore ==
    ASSUME PeerManagerAssumption, NEW S \in SUBSET Peers, NEW p, p \notin S
    PROVE  Cardinality(S \cup {p}) = Cardinality(S) + 1
BY Countable, FS_AddElement

LEMMA OneLess ==
    ASSUME PeerManagerAssumption, NEW S \in SUBSET Peers, NEW p \in S
    PROVE  Cardinality(S \ {p}) = Cardinality(S) - 1 /\ Cardinality(S) > 0
<1>1. IsFiniteSet(S) /\ Cardinality(S) \in Nat
  BY Countable
<1>2. Cardinality(S) # 0
  BY <1>1, FS_EmptySet
<1>3. Cardinality(S \ {p}) = Cardinality(S) - 1
  BY <1>1, FS_RemoveElement
<1> QED BY <1>1, <1>2, <1>3

LEMMA Fewer ==
    ASSUME PeerManagerAssumption, NEW S \in SUBSET Peers, NEW T \in SUBSET S
    PROVE  Cardinality(T) <= Cardinality(S)
BY Countable, FS_Subset

(* A thread that moves starts no handshake and adds no dial, so the limits
   of admission go on holding.                                              *)
LEMMA ThreadMovesAdmits ==
    ASSUME PeerManagerAssumption, PeersInv, AdmissionBounded, NEW p \in Peers,
           NEW place \in {"dialling", "connected", "authenticated", "exited"} \cup Serving,
           ThreadMoves(p, place),
           \A q \in Of("outgoing") : host'[q] = host[q]
    PROVE  AdmissionBounded'
<1> DEFINE H == {q \in list : thread[q] = "handshake"}
           HA(a) == {q \in list : thread[q] = "handshake" /\ address[q] = a}
<1>1. \A q \in Peers : thread'[q] = "handshake" => thread[q] = "handshake"
  BY Types DEF ThreadMoves, At, Serving
<1>2. list' = list /\ address' = address /\ Of("outgoing")' = Of("outgoing")
  BY DEF ThreadMoves, Of
<1>3. H' \subseteq H /\ H \subseteq Peers /\ H' \in SUBSET Peers
  BY <1>1, <1>2, Types
<1>4. Cardinality(H') <= Cardinality(H) /\ Cardinality(H) \in Nat /\ Cardinality(H') \in Nat
  BY <1>3, Fewer, Countable
<1>5. ASSUME NEW a \in Addresses
      PROVE  Cardinality(HA(a)') <= MaxPendingPerAddress
  <2>1. HA(a)' \subseteq HA(a) /\ HA(a) \subseteq Peers /\ HA(a)' \in SUBSET Peers
    BY <1>1, <1>2, Types
  <2>2. /\ Cardinality(HA(a)') <= Cardinality(HA(a))
        /\ Cardinality(HA(a)) \in Nat /\ Cardinality(HA(a)') \in Nat
    BY <2>1, Fewer, Countable
  <2>3. Cardinality(HA(a)) <= MaxPendingPerAddress
    BY DEF AdmissionBounded
  <2> QED BY <2>2, <2>3 DEF PeerManagerAssumption
<1>6. Cardinality(H) <= MaxPending
  BY DEF AdmissionBounded
<1>7. Cardinality(H') <= MaxPending
  BY <1>4, <1>6 DEF PeerManagerAssumption
<1>8. /\ Cardinality(Of("outgoing")') <= MaxOutgoing
      /\ \A q, r \in Of("outgoing")' : host'[q] = host'[r] => q = r
  BY <1>2 DEF AdmissionBounded
<1> QED BY <1>2, <1>5, <1>7, <1>8 DEF AdmissionBounded

InService == {p \in Peers : thread[p] \in Serving}

(* The slot a thread takes when it enters service it gives back when it
   leaves.                                                                  *)
SlotKept(p, place) ==
    established' = CASE thread[p] \in Serving /\ place \notin Serving -> established - 1
                     [] thread[p] \notin Serving /\ place \in Serving -> established + 1
                     [] OTHER -> established

LEMMA ThreadMovesCounts ==
    ASSUME PeerManagerAssumption, PeersInv, EstablishedIsExact, NEW p \in Peers,
           NEW place \in {"dialling", "connected", "authenticated", "exited"} \cup Serving,
           ThreadMoves(p, place), SlotKept(p, place)
    PROVE  EstablishedIsExact'
<1>1. /\ thread'[p] = place
      /\ \A q \in Peers \ {p} : thread'[q] = thread[q]
  BY Types DEF ThreadMoves, At
<1>2. established = Cardinality(InService) /\ InService \in SUBSET Peers
  BY DEF EstablishedIsExact, InService
<1>3. CASE thread[p] \in Serving /\ place \notin Serving
  <2>1. InService' = InService \ {p} /\ p \in InService
    BY <1>1, <1>3 DEF InService
  <2> QED BY <1>2, <1>3, <2>1, OneLess DEF SlotKept, EstablishedIsExact, InService
<1>4. CASE thread[p] \notin Serving /\ place \in Serving
  <2>1. InService' = InService \cup {p} /\ p \notin InService
    BY <1>1, <1>4 DEF InService
  <2> QED BY <1>2, <1>4, <2>1, OneMore DEF SlotKept, EstablishedIsExact, InService
<1>5. CASE thread[p] \in Serving <=> place \in Serving
  <2>1. InService' = InService
    BY <1>1, <1>5 DEF InService
  <2> QED BY <1>2, <1>5, <2>1 DEF SlotKept, EstablishedIsExact, InService
<1> QED BY <1>3, <1>4, <1>5

(* A thread that moves and tells the display nothing.                       *)
LEMMA ThreadMovesQuietly ==
    ASSUME PeerManagerAssumption, ManagerInv, NEW p \in Peers,
           NEW place \in {"dialling", "connected", "authenticated", "exited"} \cup Serving,
           ThreadMoves(p, place), SlotKept(p, place), UNCHANGED <<host, shown>>,
           place \in {"dialling", "connected"} => kind[p] = "outgoing",
           place \in {"authenticated"} \cup Serving => kind[p] = "incoming",
           place \in {"authenticated", "introducing"} => host[p] = NoHost
    PROVE  ManagerInv'
<1>1. PeersInv
  BY DEF ManagerInv
<1>2. host' \in [Peers -> HostIds \cup {NoHost}] /\ shown' \in [Kinds -> [HostIds -> Nat]]
  BY <1>1, Types
<1>3. PeersInv' /\ Doomed' = Doomed
  BY <1>1, <1>2, ThreadMovesKeeps
<1>4. EstablishedIsExact'
  BY <1>1, ThreadMovesCounts DEF ManagerInv
<1>5. AdmissionBounded'
  BY <1>1, ThreadMovesAdmits DEF ManagerInv
<1>6. ASSUME NEW k \in Kinds, NEW h \in HostIds
      PROVE  Counted(k, h)' = Counted(k, h)
  BY <1>3 DEF Counted, Told, ThreadMoves
<1>7. ShownIsCounted'
  BY <1>6 DEF ManagerInv, ShownIsCounted
<1> QED BY <1>3, <1>4, <1>5, <1>7 DEF ManagerInv

LEMMA ExitMoves ==
    ASSUME ManagerInv, NEW p \in Peers, thread[p] \notin {"none", "exited"}, Exit(p),
           established' \in Nat
    PROVE  ThreadMoves(p, "exited") /\ UNCHANGED <<host, shown>>
<1>1. running \subseteq Peers /\ culls \in Nat
  BY Types DEF ManagerInv
<1> QED BY <1>1 DEF Exit, ThreadMoves

LEMMA StayPending ==
    ASSUME PeersInv, NEW p \in Peers, thread[p] # "handshake"
    PROVE  pending \ {p} = pending
BY DEF PeersInv, PendingIsHandshake

(* One step of a peer's own thread that the display does not hear of.       *)
LEMMA QuietThreadStep ==
    ASSUME PeerManagerAssumption, ManagerInv, NEW p \in Peers,
           \/ DialSucceeds(p) \/ ConnectionBreaks(p) \/ DialerExits(p) \/ DialerGivesUp(p)
           \/ HandshakeFails(p) \/ HandshakeSucceeds(p)
           \/ Establish(p) \/ EstablishRejected(p)
           \/ RelayArrives(p) \/ Relay(p) \/ ServerLeaves(p)
    PROVE  ManagerInv'
<1> USE DEF Serving
<1>1. PeersInv /\ EstablishedIsExact
  BY DEF ManagerInv
<1>2. established \in Nat /\ culls \in Nat /\ running \subseteq Peers
  BY <1>1, Types
<1>3. thread[p] # "handshake" => pending \ {p} = pending
  BY <1>1, StayPending
<1>4. /\ thread[p] \in {"dialling", "connected"} => kind[p] = "outgoing"
      /\ thread[p] \in {"handshake", "authenticated"} \cup Serving => kind[p] = "incoming"
      /\ thread[p] \in {"handshake", "authenticated", "introducing"} => host[p] = NoHost
  BY <1>1 DEF PeersInv, ThreadFitsPeer
<1>5. CASE DialSucceeds(p)
  <2>1. ThreadMoves(p, "connected") /\ SlotKept(p, "connected") /\ UNCHANGED <<host, shown>>
    BY <1>2, <1>3, <1>5 DEF DialSucceeds, ThreadMoves, SlotKept, countVars
  <2> QED BY <1>4, <1>5, <2>1, ThreadMovesQuietly DEF DialSucceeds
<1>6. CASE ConnectionBreaks(p)
  <2>1. ThreadMoves(p, "dialling") /\ SlotKept(p, "dialling") /\ UNCHANGED <<host, shown>>
    BY <1>2, <1>3, <1>6 DEF ConnectionBreaks, ThreadMoves, SlotKept, countVars
  <2> QED BY <1>4, <1>6, <2>1, ThreadMovesQuietly DEF ConnectionBreaks
<1>7. CASE \/ DialerExits(p) \/ DialerGivesUp(p) \/ HandshakeFails(p) \/ EstablishRejected(p)
  <2>1. /\ thread[p] \in {"dialling", "connected", "handshake", "authenticated"}
        /\ Exit(p) /\ established' = established
    BY <1>7 DEF DialerExits, DialerGivesUp, HandshakeFails, EstablishRejected
  <2>2. ThreadMoves(p, "exited") /\ UNCHANGED <<host, shown>>
    BY <1>2, <2>1, ExitMoves
  <2>3. SlotKept(p, "exited")
    BY <2>1 DEF SlotKept
  <2> QED BY <2>2, <2>3, ThreadMovesQuietly
<1>8. CASE HandshakeSucceeds(p)
  <2>1. /\ ThreadMoves(p, "authenticated") /\ SlotKept(p, "authenticated")
        /\ UNCHANGED <<host, shown>>
    BY <1>2, <1>8 DEF HandshakeSucceeds, ThreadMoves, SlotKept, countVars
  <2> QED BY <1>4, <1>8, <2>1, ThreadMovesQuietly DEF HandshakeSucceeds
<1>9. CASE Establish(p)
  <2>1. /\ ThreadMoves(p, "introducing") /\ SlotKept(p, "introducing")
        /\ UNCHANGED <<host, shown>>
    BY <1>2, <1>3, <1>9 DEF Establish, ThreadMoves, SlotKept
  <2> QED BY <1>4, <1>9, <2>1, ThreadMovesQuietly DEF Establish
<1>10. CASE RelayArrives(p)
  <2>1. ThreadMoves(p, "relaying") /\ SlotKept(p, "relaying") /\ UNCHANGED <<host, shown>>
    BY <1>2, <1>3, <1>10 DEF RelayArrives, ThreadMoves, SlotKept, countVars
  <2> QED BY <1>4, <1>10, <2>1, ThreadMovesQuietly DEF RelayArrives
<1>11. CASE Relay(p)
  <2>1. ThreadMoves(p, "serving") /\ SlotKept(p, "serving") /\ UNCHANGED <<host, shown>>
    BY <1>2, <1>3, <1>11 DEF Relay, ThreadMoves, SlotKept, countVars
  <2> QED BY <1>4, <1>11, <2>1, ThreadMovesQuietly DEF Relay
<1>12. CASE ServerLeaves(p)
  <2>1. thread[p] = "serving" /\ Exit(p)
    BY <1>12 DEF ServerLeaves
  <2>2. p \in InService /\ InService \in SUBSET Peers
    BY <2>1 DEF InService
  <2>3. Cardinality(InService) > 0
    BY <2>2, OneLess
  <2>4. established > 0
    BY <1>1, <2>3 DEF EstablishedIsExact, InService
  <2>5. established' = established - 1 /\ established' \in Nat
    BY <1>2, <1>12, <2>4 DEF ServerLeaves
  <2>6. ThreadMoves(p, "exited") /\ UNCHANGED <<host, shown>>
    BY <2>1, <2>5, ExitMoves
  <2>7. SlotKept(p, "exited")
    BY <2>1, <2>5 DEF SlotKept
  <2> QED BY <2>6, <2>7, ThreadMovesQuietly
<1> QED BY <1>5, <1>6, <1>7, <1>8, <1>9, <1>10, <1>11, <1>12

(* Telling the display of one more connection of a peer that was not counted
   under any host keeps the counts right.                                   *)
LEMMA ShowCounts ==
    ASSUME PeerManagerAssumption, PeersInv, ShownIsCounted,
           NEW p \in Peers, NEW k \in Kinds, NEW h \in HostIds, Show(k, h),
           Counted(k, h)' = Counted(k, h) \cup {p}, p \notin Counted(k, h),
           \A l \in Kinds, g \in HostIds :
               <<l, g>> # <<k, h>> => Counted(l, g)' = Counted(l, g)
    PROVE  ShownIsCounted' /\ shown' \in [Kinds -> [HostIds -> Nat]]
<1>1. shown \in [Kinds -> [HostIds -> Nat]]
  BY Types
<1>2. shown' = [shown EXCEPT ![k] = [shown[k] EXCEPT ![h] = shown[k][h] + 1]]
  BY DEF Show
<1>3. shown' \in [Kinds -> [HostIds -> Nat]]
  BY <1>1, <1>2
<1>4. /\ shown'[k][h] = shown[k][h] + 1
      /\ \A l \in Kinds, g \in HostIds : <<l, g>> # <<k, h>> => shown'[l][g] = shown[l][g]
  BY <1>1, <1>2
<1>5. Cardinality(Counted(k, h)') = Cardinality(Counted(k, h)) + 1
  <2>1. Counted(k, h) \in SUBSET Peers
    BY DEF Counted
  <2> QED BY <2>1, OneMore
<1>6. \A l \in Kinds, g \in HostIds : shown[l][g] = Cardinality(Counted(l, g))
  BY DEF ShownIsCounted
<1>7. ASSUME NEW l \in Kinds, NEW g \in HostIds
      PROVE  shown'[l][g] = Cardinality(Counted(l, g)')
  <2>1. CASE l = k /\ g = h
    BY <1>4, <1>5, <1>6, <2>1
  <2>2. CASE <<l, g>> # <<k, h>>
    BY <1>4, <1>6, <2>2
  <2> QED BY <2>1, <2>2
<1> QED BY <1>3, <1>7 DEF ShownIsCounted

LEMMA IntroduceStep ==
    ASSUME PeerManagerAssumption, ManagerInv, NEW p \in Peers, NEW h \in HostIds,
           Introduce(p, h)
    PROVE  ManagerInv'
<1>1. PeersInv /\ EstablishedIsExact /\ ShownIsCounted /\ AdmissionBounded
  BY DEF ManagerInv
<1>2. /\ established \in Nat /\ culls \in Nat /\ running \subseteq Peers
      /\ host \in [Peers -> HostIds \cup {NoHost}]
  BY <1>1, Types
<1>3. thread[p] = "introducing" /\ kind[p] = "incoming" /\ host[p] = NoHost /\ p \in list
  BY <1>1 DEF Introduce, PeersInv, ThreadFitsPeer, NoThreadOutlivesItsPeer, Serving
<1>4. p \notin Doomed
  BY <1>1, <1>3 DEF PeersInv, DoomedHaveExited
<1>5. ThreadMoves(p, "serving") /\ SlotKept(p, "serving")
  BY <1>1, <1>2, <1>3, StayPending DEF Introduce, ThreadMoves, SlotKept, Serving
<1>6. /\ host' \in [Peers -> HostIds \cup {NoHost}] /\ host'[p] = h
      /\ \A q \in Peers \ {p} : host'[q] = host[q]
  BY <1>2 DEF Introduce
<1>7. Doomed' = Doomed
  BY DEF Introduce, Doomed, MutexFree
<1>8. list' = list /\ kind' = kind /\ "incoming" \in Kinds
  BY DEF Introduce, Kinds
<1>9. /\ Counted("incoming", h)' = Counted("incoming", h) \cup {p}
      /\ p \notin Counted("incoming", h)
  BY <1>3, <1>4, <1>6, <1>7, <1>8 DEF Counted, Told, PeerManagerAssumption
<1>10. ASSUME NEW l \in Kinds, NEW g \in HostIds, <<l, g>> # <<"incoming", h>>
       PROVE  Counted(l, g)' = Counted(l, g)
  BY <1>3, <1>6, <1>7, <1>8, <1>10 DEF Counted, Told, PeerManagerAssumption
<1>11. ShownIsCounted' /\ shown' \in [Kinds -> [HostIds -> Nat]]
  <2>1. Show("incoming", h)
    BY DEF Introduce
  <2> QED BY <1>1, <1>8, <1>9, <1>10, <2>1, ShowCounts
<1>12. PeersInv'
  BY <1>1, <1>3, <1>5, <1>6, <1>11, ThreadMovesKeeps DEF Serving
<1>13. EstablishedIsExact'
  BY <1>1, <1>5, ThreadMovesCounts DEF Serving
<1>14. AdmissionBounded'
  <2>1. \A q \in Of("outgoing") : host'[q] = host[q]
    BY <1>1, <1>3, <1>6, Types DEF Of
  <2> QED BY <1>1, <1>5, <2>1, ThreadMovesAdmits DEF Serving
<1> QED BY <1>11, <1>12, <1>13, <1>14 DEF ManagerInv

-----------------------------------------------------------------------------
(* A new object takes storage nobody's thread works on, whether its thread
   starts or not.                                                           *)
LEMMA AddedPeer ==
    ASSUME PeersInv, MutexFree, NEW p \in Peers, NEW k \in Kinds,
           NEW h \in HostIds \cup {NoHost}, NEW a \in Addresses, NEW place,
           Construct(p, k, h, a), Launch(p, place),
           \/ place = "dialling" /\ k = "outgoing"
           \/ place = "handshake" /\ k = "incoming" /\ h = NoHost,
           place = "handshake" /\ p \in running' => pending' = pending \cup {p},
           place # "handshake" \/ p \notin running' => pending' = pending \ {p},
           UNCHANGED <<phase, established, walk>>,
           shown' \in [Kinds -> [HostIds -> Nat]]
    PROVE  /\ PeersInv'
           /\ EstablishedIsExact => EstablishedIsExact'
           /\ list' = list \cup {p} /\ p \notin list
           /\ kind'[p] = k /\ host'[p] = h /\ address'[p] = a
           /\ thread'[p] \in {place, "exited"}
           /\ \A q \in Peers \ {p} :
                 kind'[q] = kind[q] /\ host'[q] = host[q] /\ address'[q] = address[q]
                 /\ thread'[q] = thread[q]
<1>1. /\ list' = list \cup {p} /\ p \notin list
      /\ kind' \in [Peers -> Kinds] /\ host' \in [Peers -> HostIds \cup {NoHost}]
      /\ address' \in [Peers -> Addresses] /\ stopped' \subseteq Peers
      /\ kind'[p] = k /\ host'[p] = h /\ address'[p] = a
      /\ \A q \in Peers \ {p} :
            kind'[q] = kind[q] /\ host'[q] = host[q] /\ address'[q] = address[q]
  BY Types DEF Construct
<1>2. /\ thread' \in [Peers -> {"none", "dialling", "connected", "handshake",
                                "authenticated", "exited"} \cup Serving]
      /\ thread'[p] = IF p \in running' THEN place ELSE "exited"
      /\ \A q \in Peers \ {p} : thread'[q] = thread[q]
      /\ running' \subseteq Peers /\ culls' \in Nat
  <2>1. /\ thread \in [Peers -> {"none", "dialling", "connected", "handshake",
                                 "authenticated", "exited"} \cup Serving]
        /\ running \subseteq Peers /\ culls \in Nat
    BY Types
  <2>2. CASE running' = running \cup {p} /\ At(p, place) /\ UNCHANGED culls
    BY <2>1, <2>2 DEF At
  <2>3. CASE running' = running \ {p} /\ At(p, "exited") /\ culls' = culls + 1
    BY <2>1, <2>3 DEF At
  <2> QED BY <2>2, <2>3 DEF Launch
<1>3. thread[p] \in {"none", "exited"}
  BY <1>1 DEF PeersInv, NoThreadOutlivesItsPeer
<1>4. MutexFree' /\ Doomed' = {}
  BY DEF MutexFree, Doomed
<1>5. TypeOK'
  BY <1>1, <1>2, <1>4, Types DEF TypeOK
<1>6. WalkInHand' /\ DoomedHaveExited'
  BY <1>4 DEF WalkInHand, DoomedHaveExited
<1>7. ThreadFitsPeer'
  BY <1>1, <1>2 DEF PeersInv, ThreadFitsPeer, Serving
<1>8. PendingIsHandshake'
  BY <1>2, <1>3 DEF PeersInv, PendingIsHandshake
<1>9. NoThreadOutlivesItsPeer'
  BY <1>1, <1>2 DEF PeersInv, NoThreadOutlivesItsPeer
<1>10. EstablishedIsExact => EstablishedIsExact'
  <2>1. InService' = InService
    BY <1>2, <1>3 DEF InService, Serving
  <2> QED BY <2>1 DEF EstablishedIsExact, InService
<1> QED BY <1>1, <1>2, <1>5, <1>6, <1>7, <1>8, <1>9, <1>10 DEF PeersInv

LEMMA AddPeerStep ==
    ASSUME PeerManagerAssumption, ManagerInv, NEW p \in Peers, NEW h \in HostIds,
           NEW a \in Addresses, AddPeer(p, h, a)
    PROVE  ManagerInv'
<1>1. PeersInv /\ EstablishedIsExact /\ ShownIsCounted /\ AdmissionBounded
  BY DEF ManagerInv
<1>2. /\ MutexFree /\ Construct(p, "outgoing", h, a) /\ Launch(p, "dialling")
      /\ UNCHANGED <<phase, pending, established, walk>>
      /\ Show("outgoing", h) /\ "outgoing" \in Kinds
  BY DEF AddPeer, Kinds
<1>3. shown' \in [Kinds -> [HostIds -> Nat]]
  <2>1. shown \in [Kinds -> [HostIds -> Nat]]
    BY <1>1, Types
  <2> QED BY <1>2, <2>1 DEF Show
<1>4. p \notin list /\ thread[p] \in {"none", "exited"}
  BY <1>1, <1>2 DEF Construct, PeersInv, NoThreadOutlivesItsPeer
<1>5. pending' = pending \ {p}
  BY <1>1, <1>2, <1>4, StayPending
<1>6. /\ PeersInv' /\ EstablishedIsExact'
      /\ list' = list \cup {p}
      /\ kind'[p] = "outgoing" /\ host'[p] = h /\ address'[p] = a
      /\ thread'[p] \in {"dialling", "exited"}
      /\ \A q \in Peers \ {p} :
            kind'[q] = kind[q] /\ host'[q] = host[q] /\ address'[q] = address[q]
            /\ thread'[q] = thread[q]
  BY <1>1, <1>2, <1>3, <1>5, AddedPeer
<1>7. list \subseteq Peers
  BY <1>1, Types
<1>8. Doomed = {} /\ Doomed' = {}
  BY <1>2 DEF Doomed, MutexFree
<1>9. ShownIsCounted'
  <2>1. /\ Counted("outgoing", h)' = Counted("outgoing", h) \cup {p}
        /\ p \notin Counted("outgoing", h)
    BY <1>4, <1>6, <1>8 DEF Counted, Told
  <2>2. ASSUME NEW l \in Kinds, NEW g \in HostIds, <<l, g>> # <<"outgoing", h>>
        PROVE  Counted(l, g)' = Counted(l, g)
    BY <1>4, <1>6, <1>8, <2>2 DEF Counted, Told
  <2> QED BY <1>1, <1>2, <2>1, <2>2, ShowCounts
<1>10. AdmissionBounded'
  <2> DEFINE H == {q \in list : thread[q] = "handshake"}
             HA(b) == {q \in list : thread[q] = "handshake" /\ address[q] = b}
  <2>1. H' = H /\ \A b \in Addresses : HA(b)' = HA(b)
    BY <1>4, <1>6, <1>7
  <2>2. /\ Of("outgoing")' = Of("outgoing") \cup {p} /\ p \notin Of("outgoing")
        /\ Of("outgoing") \in SUBSET Peers
    BY <1>4, <1>6, <1>7 DEF Of
  <2>3. Cardinality(Of("outgoing")) < MaxOutgoing /\ \A q \in Of("outgoing") : host[q] # h
    BY DEF AddPeer
  <2>4. Cardinality(Of("outgoing")') <= MaxOutgoing
    BY <2>2, <2>3, OneMore, Countable DEF PeerManagerAssumption
  <2>5. \A q, r \in Of("outgoing")' : host'[q] = host'[r] => q = r
    BY <1>1, <1>6, <2>2, <2>3 DEF AdmissionBounded
  <2> QED BY <1>1, <2>1, <2>4, <2>5 DEF AdmissionBounded
<1> QED BY <1>6, <1>9, <1>10 DEF ManagerInv

LEMMA AddIncomingPeerStep ==
    ASSUME PeerManagerAssumption, ManagerInv, NEW p \in Peers, NEW a \in Addresses,
           AddIncomingPeer(p, a)
    PROVE  ManagerInv'
<1>1. PeersInv /\ EstablishedIsExact /\ ShownIsCounted /\ AdmissionBounded
  BY DEF ManagerInv
<1>2. /\ MutexFree /\ Construct(p, "incoming", NoHost, a) /\ Launch(p, "handshake")
      /\ UNCHANGED <<phase, established, shown, walk>> /\ "incoming" \in Kinds
      /\ pending' = IF p \in running' THEN pending \cup {p} ELSE pending \ {p}
  BY DEF AddIncomingPeer, Kinds
<1>3. shown' \in [Kinds -> [HostIds -> Nat]]
  BY <1>1, <1>2, Types
<1>4. /\ PeersInv' /\ EstablishedIsExact'
      /\ list' = list \cup {p} /\ p \notin list
      /\ kind'[p] = "incoming" /\ host'[p] = NoHost /\ address'[p] = a
      /\ \A q \in Peers \ {p} :
            kind'[q] = kind[q] /\ host'[q] = host[q] /\ address'[q] = address[q]
            /\ thread'[q] = thread[q]
  <2> DEFINE place == "handshake"
             k == "incoming"
             h == NoHost
  <2>1. /\ k \in Kinds /\ h \in HostIds \cup {NoHost}
        /\ Construct(p, k, h, a) /\ Launch(p, place)
        /\ place = "handshake" /\ k = "incoming" /\ h = NoHost
        /\ p \in running' => pending' = pending \cup {p}
        /\ p \notin running' => pending' = pending \ {p}
    BY <1>2
  <2> HIDE DEF place, k, h
  <2> QED BY <1>1, <1>2, <1>3, <2>1, AddedPeer
<1>5. list \subseteq Peers /\ pending \subseteq Peers
  BY <1>1, Types
<1>6. Doomed = {} /\ Doomed' = {}
  BY <1>2 DEF Doomed, MutexFree
<1>7. ShownIsCounted'
  <2>1. ASSUME NEW l \in Kinds, NEW g \in HostIds
        PROVE  Counted(l, g)' = Counted(l, g)
    BY <1>4, <1>6 DEF Counted, Told, PeerManagerAssumption
  <2> QED BY <1>1, <1>2, <2>1 DEF ShownIsCounted
<1>8. AdmissionBounded'
  <2> DEFINE H == {q \in list : thread[q] = "handshake"}
             HA(b) == {q \in list : thread[q] = "handshake" /\ address[q] = b}
  <2>1. H = list \cap pending /\ HA(a) = PendingFrom(a)
    BY <1>1, <1>5 DEF PeersInv, PendingIsHandshake, PendingFrom
  <2>2. Cardinality(H) < MaxPending /\ Cardinality(HA(a)) < MaxPendingPerAddress
    BY <2>1 DEF AddIncomingPeer
  <2>3. H \in SUBSET Peers /\ H \cup {p} \in SUBSET Peers /\ H' \in SUBSET (H \cup {p})
    BY <1>4, <1>5
  <2>4. p \notin H /\ \A b \in Addresses : p \notin HA(b)
    BY <1>4
  <2>5. /\ Cardinality(H) \in Nat /\ Cardinality(H \cup {p}) \in Nat
        /\ Cardinality(H \cup {p}) = Cardinality(H) + 1
        /\ Cardinality(H') \in Nat
        /\ Cardinality(H') <= Cardinality(H \cup {p})
    <3>1. H' \in SUBSET Peers
      BY <2>3
    <3> HIDE DEF H
    <3> QED BY <2>3, <2>4, <3>1, OneMore, Countable, Fewer
  <2>6. Cardinality(H') <= MaxPending
    <3> HIDE DEF H
    <3> QED BY <2>2, <2>5 DEF PeerManagerAssumption
  <2>7. ASSUME NEW b \in Addresses
        PROVE  Cardinality(HA(b)') <= MaxPendingPerAddress
    <3>1. CASE b = a
      <4>1. /\ HA(a) \in SUBSET Peers /\ HA(a) \cup {p} \in SUBSET Peers
            /\ HA(a)' \in SUBSET (HA(a) \cup {p}) /\ HA(a)' \in SUBSET Peers
        BY <1>4, <1>5
      <4> HIDE DEF HA
      <4>2. /\ Cardinality(HA(a)) \in Nat
            /\ Cardinality(HA(a) \cup {p}) = Cardinality(HA(a)) + 1
            /\ Cardinality(HA(a)') \in Nat
            /\ Cardinality(HA(a)') <= Cardinality(HA(a) \cup {p})
        BY <2>4, <4>1, OneMore, Countable, Fewer
      <4> QED BY <2>2, <3>1, <4>2 DEF PeerManagerAssumption
    <3>2. CASE b # a
      <4>1. HA(b)' = HA(b)
        BY <1>4, <1>5, <3>2
      <4> QED BY <1>1, <4>1 DEF AdmissionBounded
    <3> QED BY <3>1, <3>2
  <2>8. Of("outgoing")' = Of("outgoing") /\ p \notin Of("outgoing")
    BY <1>4, <1>5 DEF Of
  <2>9. \A q \in Of("outgoing") : host'[q] = host[q]
    BY <1>4, <1>5, <2>8 DEF Of
  <2> QED BY <1>1, <2>6, <2>7, <2>8, <2>9 DEF AdmissionBounded
<1> QED BY <1>4, <1>7, <1>8 DEF ManagerInv

-----------------------------------------------------------------------------
(* What a walk does before it ends leaves the peers alone, but for the stop
   requests and for the peer it has taken away from the display.            *)
LEMMA WalkKeepsPeers ==
    ASSUME PeersInv,
           UNCHANGED <<list, kind, host, address, thread, running, pending, established>>,
           phase' \in {"running", "stopping", "stopped"},
           stopped' \subseteq Peers, culls' \in Nat, shown' \in [Kinds -> [HostIds -> Nat]],
           WalkInHand', DoomedHaveExited'
    PROVE  /\ PeersInv'
           /\ EstablishedIsExact => EstablishedIsExact'
           /\ AdmissionBounded => AdmissionBounded'
<1>1. MutexFree' \/ (walk.todo \cup walk.joining \cup walk.doomed)' \subseteq list'
  BY DEF WalkInHand, Walks
<1>2. TypeOK'
  BY <1>1, Types DEF TypeOK
<1>3. ThreadFitsPeer' /\ PendingIsHandshake' /\ NoThreadOutlivesItsPeer'
  BY DEF PeersInv, ThreadFitsPeer, PendingIsHandshake, NoThreadOutlivesItsPeer
<1>4. EstablishedIsExact => EstablishedIsExact'
  BY DEF EstablishedIsExact
<1>5. AdmissionBounded => AdmissionBounded'
  BY DEF AdmissionBounded, Of
<1> QED BY <1>2, <1>3, <1>4, <1>5 DEF PeersInv

LEMMA BeginStep ==
    ASSUME ManagerInv, NEW op \in {"clear", "remove", "cull"},
           NEW h \in HostIds \cup {NoHost}, Begin(op, h),
           UNCHANGED <<phase, peerVars, established, shown>>, culls' \in Nat
    PROVE  ManagerInv'
<1>1. PeersInv /\ EstablishedIsExact /\ ShownIsCounted /\ AdmissionBounded
  BY DEF ManagerInv
<1>2. /\ UNCHANGED <<list, kind, host, address, thread, running, pending, established>>
      /\ UNCHANGED <<phase, stopped, shown>>
  BY DEF peerVars
<1>3. /\ walk' = [op |-> op, host |-> h, todo |-> list, joining |-> {}, doomed |-> {}]
      /\ MutexFree
  BY DEF Begin
<1>4. walk'.todo = list /\ walk'.joining = {} /\ walk'.doomed = {} /\ walk'.op = op
  BY <1>3
<1>5. Doomed = {} /\ Doomed' = {}
  BY <1>3, <1>4 DEF Doomed
<1>6. walk' \in Walks'
  BY <1>2, <1>3 DEF Walks
<1>7. WalkInHand' /\ DoomedHaveExited'
  BY <1>4, <1>5, <1>6 DEF WalkInHand, DoomedHaveExited
<1>8. /\ phase' \in {"running", "stopping", "stopped"} /\ stopped' \subseteq Peers
      /\ shown' \in [Kinds -> [HostIds -> Nat]]
  BY <1>1, <1>2, Types
<1>9. PeersInv' /\ EstablishedIsExact' /\ AdmissionBounded'
  BY <1>1, <1>2, <1>7, <1>8, WalkKeepsPeers
<1>10. ShownIsCounted'
  <2>1. \A k \in Kinds, g \in HostIds : Counted(k, g)' = Counted(k, g)
    BY <1>2, <1>5 DEF Counted, Told
  <2> QED BY <1>1, <1>2, <2>1 DEF ShownIsCounted
<1> QED BY <1>9, <1>10 DEF ManagerInv

LEMMA WalkFields ==
    ASSUME PeersInv, ~MutexFree
    PROVE  /\ walk \in Walks /\ Doomed = walk.doomed
           /\ walk.op \in {"clear", "remove", "cull"}
           /\ walk.todo \subseteq list /\ walk.joining \subseteq list
           /\ walk.doomed \subseteq list
           /\ walk.todo \cap walk.joining = {} /\ walk.todo \cap walk.doomed = {}
           /\ walk.joining \cap walk.doomed = {}
<1>1. /\ walk \in Walks /\ Doomed = walk.doomed
      /\ walk.todo \cap walk.joining = {} /\ walk.todo \cap walk.doomed = {}
      /\ walk.joining \cap walk.doomed = {}
  BY DEF PeersInv, WalkInHand, Doomed
<1> QED BY <1>1 DEF Walks

LEMMA VisitStep ==
    ASSUME ManagerInv, NEW p \in Peers, NEW silent \in BOOLEAN, Visit(p, silent)
    PROVE  ManagerInv'
<1>1. PeersInv /\ EstablishedIsExact /\ ShownIsCounted /\ AdmissionBounded
  BY DEF ManagerInv
<1>2. /\ UNCHANGED <<phase, list, kind, host, address, thread, running, pending>>
      /\ UNCHANGED <<established, shown, culls>>
      /\ ~MutexFree /\ walk.joining = {} /\ p \in walk.todo
      /\ stopped' = stopped \cup {p} \/ stopped' = stopped
  BY DEF Visit, countVars
<1>3. /\ walk \in Walks /\ Doomed = walk.doomed
      /\ walk.op \in {"clear", "remove", "cull"}
      /\ walk.todo \subseteq list /\ walk.doomed \subseteq list
      /\ walk.todo \cap walk.doomed = {}
  BY <1>1, <1>2, WalkFields
<1>4. PICK J \in {{}, {p}} :
        walk' = [walk EXCEPT !.todo = walk.todo \ {p}, !.joining = J]
  <2>1. CASE Wanted(p, silent)
    BY <2>1 DEF Visit
  <2>2. CASE ~Wanted(p, silent)
    <3>1. walk' = [walk EXCEPT !.todo = walk.todo \ {p}]
      BY <2>2 DEF Visit
    <3>2. walk' = [walk EXCEPT !.todo = walk.todo \ {p}, !.joining = {}]
      BY <1>2, <1>3, <3>1 DEF Walks
    <3> QED BY <3>2
  <2> QED BY <2>1, <2>2
<1>5. /\ walk'.todo = walk.todo \ {p} /\ walk'.joining = J
      /\ walk'.doomed = walk.doomed /\ walk'.op = walk.op
  BY <1>3, <1>4 DEF Walks
<1>6. walk' \in Walks'
  BY <1>2, <1>3, <1>4 DEF Walks
<1>7. ~MutexFree' /\ Doomed' = Doomed
  BY <1>3, <1>5 DEF Doomed, MutexFree, NoWalk
<1>8. WalkInHand'
  BY <1>2, <1>3, <1>5, <1>6 DEF WalkInHand
<1>9. DoomedHaveExited'
  BY <1>1, <1>2, <1>7 DEF PeersInv, DoomedHaveExited
<1>10. /\ phase' \in {"running", "stopping", "stopped"} /\ stopped' \subseteq Peers
       /\ shown' \in [Kinds -> [HostIds -> Nat]] /\ culls' \in Nat
  BY <1>1, <1>2, Types
<1>11. PeersInv' /\ EstablishedIsExact' /\ AdmissionBounded'
  BY <1>1, <1>2, <1>8, <1>9, <1>10, WalkKeepsPeers
<1>12. ShownIsCounted'
  <2>1. \A k \in Kinds, g \in HostIds : Counted(k, g)' = Counted(k, g)
    BY <1>2, <1>7 DEF Counted, Told
  <2> QED BY <1>1, <1>2, <2>1 DEF ShownIsCounted
<1> QED BY <1>11, <1>12 DEF ManagerInv

(* A walk takes a peer away from the display once, under the host and kind it
   was shown with.                                                          *)
LEMMA JoinStep ==
    ASSUME PeerManagerAssumption, ManagerInv, NEW p \in Peers, Join(p)
    PROVE  ManagerInv'
<1>1. PeersInv /\ EstablishedIsExact /\ ShownIsCounted /\ AdmissionBounded
  BY DEF ManagerInv
<1>2. /\ UNCHANGED <<list, kind, host, address, thread, running, pending, established>>
      /\ UNCHANGED <<phase, stopped, culls>>
      /\ ~MutexFree /\ p \in walk.joining /\ thread[p] = "exited"
      /\ Unshow(p)
      /\ walk' = [walk EXCEPT !.joining = {}, !.doomed = walk.doomed \cup {p}]
  BY DEF Join, peerVars
<1>3. /\ walk \in Walks /\ Doomed = walk.doomed
      /\ walk.op \in {"clear", "remove", "cull"}
      /\ walk.todo \subseteq list /\ walk.joining \subseteq list
      /\ walk.doomed \subseteq list
      /\ walk.todo \cap walk.joining = {} /\ walk.todo \cap walk.doomed = {}
      /\ walk.joining \cap walk.doomed = {}
  BY <1>1, <1>2, WalkFields
<1>4. /\ walk'.todo = walk.todo /\ walk'.joining = {}
      /\ walk'.doomed = walk.doomed \cup {p} /\ walk'.op = walk.op
  BY <1>2, <1>3 DEF Walks
<1>5. walk' \in Walks'
  BY <1>2, <1>3 DEF Walks
<1>6. ~MutexFree' /\ Doomed' = Doomed \cup {p} /\ p \notin Doomed /\ p \in list
  BY <1>2, <1>3, <1>4 DEF Doomed, MutexFree, NoWalk
<1>7. WalkInHand'
  BY <1>2, <1>3, <1>4, <1>5 DEF WalkInHand
<1>8. DoomedHaveExited'
  BY <1>1, <1>2, <1>6 DEF PeersInv, DoomedHaveExited
<1>9. /\ shown \in [Kinds -> [HostIds -> Nat]] /\ kind[p] \in Kinds
      /\ host[p] \in HostIds \cup {NoHost}
  BY <1>1, Types
<1>10. ASSUME NEW l \in Kinds, NEW g \in HostIds
       PROVE  Counted(l, g)' = IF <<l, g>> = <<kind[p], host[p]>> THEN Counted(l, g) \ {p}
                               ELSE Counted(l, g)
  <2>1. CASE l = kind[p] /\ g = host[p]
    BY <1>2, <1>6, <2>1 DEF Counted, Told
  <2>2. CASE l # kind[p] \/ g # host[p]
    BY <1>2, <1>6, <2>2 DEF Counted, Told
  <2> QED BY <2>1, <2>2
<1>11. ShownIsCounted' /\ shown' \in [Kinds -> [HostIds -> Nat]]
  <2>1. CASE host[p] = NoHost
    <3>1. shown' = shown
      BY <1>2, <2>1 DEF Unshow
    <3>2. \A l \in Kinds, g \in HostIds : Counted(l, g)' = Counted(l, g)
      BY <1>10, <2>1 DEF PeerManagerAssumption
    <3> QED BY <1>1, <1>9, <3>1, <3>2 DEF ShownIsCounted
  <2>2. CASE host[p] # NoHost
    <3>k. PICK k \in Kinds : k = kind[p]
      BY <1>9
    <3>h. PICK h \in HostIds : h = host[p]
      BY <1>9, <2>2
    <3>1. p \in Counted(k, h)
      BY <1>6, <3>k, <3>h DEF Counted, Told
    <3>2. Counted(k, h)' = Counted(k, h) \ {p}
      BY <1>10, <3>k, <3>h
    <3>3. shown' = IF shown[k][h] = 0 THEN shown
                   ELSE [shown EXCEPT ![k] = [shown[k] EXCEPT ![h] = shown[k][h] - 1]]
      BY <1>2, <2>2, <3>k, <3>h DEF Unshow
    <3>4. \A l \in Kinds, g \in HostIds : <<l, g>> # <<k, h>> => Counted(l, g)' = Counted(l, g)
      BY <1>10, <3>k, <3>h
    <3>5. /\ Counted(k, h) \in SUBSET Peers
          /\ Cardinality(Counted(k, h)) > 0
          /\ Cardinality(Counted(k, h)') = Cardinality(Counted(k, h)) - 1
      <4>1. Counted(k, h) \in SUBSET Peers
        BY DEF Counted
      <4> QED BY <3>1, <3>2, <4>1, OneLess
    <3>6. \A l \in Kinds, g \in HostIds : shown[l][g] = Cardinality(Counted(l, g))
      BY <1>1 DEF ShownIsCounted
    <3>7. shown[k][h] \in Nat /\ shown[k][h] > 0
      BY <1>9, <3>1, <3>5, <3>6
    <3>8. shown' = [shown EXCEPT ![k] = [shown[k] EXCEPT ![h] = shown[k][h] - 1]]
      BY <3>3, <3>7
    <3>9. shown[k][h] - 1 \in Nat
      BY <3>7
    <3>10. shown' \in [Kinds -> [HostIds -> Nat]]
      BY <1>9, <3>1, <3>8, <3>9
    <3>11. /\ shown'[k][h] = shown[k][h] - 1
           /\ \A l \in Kinds, g \in HostIds :
                 <<l, g>> # <<k, h>> => shown'[l][g] = shown[l][g]
      BY <1>9, <3>1, <3>8
    <3>12. ASSUME NEW l \in Kinds, NEW g \in HostIds
           PROVE  shown'[l][g] = Cardinality(Counted(l, g)')
      <4>1. CASE l = k /\ g = h
        <5>1. shown'[k][h] = Cardinality(Counted(k, h)) - 1
          BY <3>1, <3>6, <3>11
        <5> QED BY <3>5, <4>1, <5>1
      <4>2. CASE <<l, g>> # <<k, h>>
        BY <3>4, <3>6, <3>11, <4>2
      <4> QED BY <4>1, <4>2
    <3> QED BY <3>10, <3>12 DEF ShownIsCounted
  <2> QED BY <2>1, <2>2
<1>12. /\ phase' \in {"running", "stopping", "stopped"} /\ stopped' \subseteq Peers
       /\ culls' \in Nat
  BY <1>1, <1>2, Types
<1>13. PeersInv' /\ EstablishedIsExact' /\ AdmissionBounded'
  BY <1>1, <1>2, <1>7, <1>8, <1>11, <1>12, WalkKeepsPeers
<1> QED BY <1>11, <1>13 DEF ManagerInv

(* The objects a walk destroys have no thread and are not shown any more.   *)
LEMMA EndWalkStep ==
    ASSUME PeerManagerAssumption, ManagerInv, EndWalk
    PROVE  ManagerInv'
<1>1. PeersInv /\ EstablishedIsExact /\ ShownIsCounted /\ AdmissionBounded
  BY DEF ManagerInv
<1>2. /\ UNCHANGED <<address, thread, running, pending, established, shown, culls>>
      /\ ~MutexFree /\ walk' = NoWalk
      /\ list' = list \ walk.doomed /\ stopped' = stopped \ walk.doomed
      /\ kind' = [p \in Peers |-> IF p \in walk.doomed THEN "outgoing" ELSE kind[p]]
      /\ host' = [p \in Peers |-> IF p \in walk.doomed THEN NoHost ELSE host[p]]
      /\ phase' \in {phase, "stopped"}
  BY DEF EndWalk, countVars
<1>3. Doomed = walk.doomed /\ walk.doomed \subseteq list
  BY <1>1, <1>2, WalkFields
<1>4. MutexFree' /\ Doomed' = {}
  BY <1>2 DEF Doomed, MutexFree
<1>5. list \subseteq Peers /\ \A p \in walk.doomed : thread[p] = "exited"
  BY <1>1, <1>3, Types DEF PeersInv, DoomedHaveExited
<1>6. TypeOK'
  <2>1. kind' \in [Peers -> Kinds] /\ host' \in [Peers -> HostIds \cup {NoHost}]
    BY <1>1, <1>2, Types DEF Kinds
  <2> QED BY <1>1, <1>2, <1>4, <2>1, Types DEF TypeOK
<1>7. WalkInHand' /\ DoomedHaveExited'
  BY <1>4 DEF WalkInHand, DoomedHaveExited
<1>8. ThreadFitsPeer'
  BY <1>1, <1>2, <1>5 DEF PeersInv, ThreadFitsPeer, Serving
<1>9. PendingIsHandshake' /\ NoThreadOutlivesItsPeer'
  BY <1>1, <1>2, <1>5 DEF PeersInv, PendingIsHandshake, NoThreadOutlivesItsPeer
<1>10. EstablishedIsExact'
  BY <1>1, <1>2 DEF EstablishedIsExact
<1>11. ShownIsCounted'
  <2>1. ASSUME NEW k \in Kinds, NEW h \in HostIds
        PROVE  Counted(k, h)' = Counted(k, h)
    BY <1>2, <1>3, <1>4 DEF Counted, Told
  <2> QED BY <1>1, <1>2, <2>1 DEF ShownIsCounted
<1>12. AdmissionBounded'
  <2> DEFINE H == {q \in list : thread[q] = "handshake"}
             HA(b) == {q \in list : thread[q] = "handshake" /\ address[q] = b}
  <2>1. H' = H /\ \A b \in Addresses : HA(b)' = HA(b)
    BY <1>2, <1>5
  <2>2. /\ Of("outgoing") \in SUBSET Peers /\ Of("outgoing")' \in SUBSET Of("outgoing")
        /\ \A q \in Of("outgoing")' : host'[q] = host[q]
    BY <1>2, <1>5 DEF Of
  <2>3. /\ Cardinality(Of("outgoing")') <= Cardinality(Of("outgoing"))
        /\ Cardinality(Of("outgoing")') \in Nat /\ Cardinality(Of("outgoing")) \in Nat
    <3>1. Of("outgoing")' \in SUBSET Peers
      BY <2>2
    <3> QED BY <2>2, <3>1, Fewer, Countable
  <2>4. Cardinality(Of("outgoing")') <= MaxOutgoing
    BY <1>1, <2>3 DEF AdmissionBounded, PeerManagerAssumption
  <2>5. \A q, r \in Of("outgoing")' : host'[q] = host'[r] => q = r
    BY <1>1, <2>2 DEF AdmissionBounded
  <2> QED BY <1>1, <2>1, <2>4, <2>5 DEF AdmissionBounded
<1> QED BY <1>6, <1>7, <1>8, <1>9, <1>10, <1>11, <1>12 DEF ManagerInv, PeersInv

LEMMA PhaseStep ==
    ASSUME ManagerInv, phase' \in {"running", "stopping", "stopped"},
           UNCHANGED <<peerVars, countVars, walk>>
    PROVE  ManagerInv'
<1>1. PeersInv /\ EstablishedIsExact /\ ShownIsCounted /\ AdmissionBounded
  BY DEF ManagerInv
<1>2. /\ UNCHANGED <<list, kind, host, address, thread, running, pending, established>>
      /\ UNCHANGED <<stopped, shown, culls, walk>>
  BY DEF peerVars, countVars
<1>3. WalkInHand' /\ DoomedHaveExited' /\ Doomed' = Doomed
  BY <1>1, <1>2 DEF PeersInv, WalkInHand, Walks, MutexFree, DoomedHaveExited, Doomed
<1>4. PeersInv' /\ EstablishedIsExact' /\ AdmissionBounded'
  <2>1. /\ stopped' \subseteq Peers /\ culls' \in Nat
        /\ shown' \in [Kinds -> [HostIds -> Nat]]
    BY <1>1, <1>2, Types
  <2> QED BY <1>1, <1>2, <1>3, <2>1, WalkKeepsPeers
<1>5. ShownIsCounted'
  BY <1>1, <1>2, <1>3 DEF ShownIsCounted, Counted, Told
<1> QED BY <1>4, <1>5 DEF ManagerInv

LEMMA ManagerInit ==
    ASSUME PeerManagerAssumption, Init
    PROVE  ManagerInv
<1> USE DEF Init
<1>1. MutexFree /\ Doomed = {}
  BY DEF MutexFree, Doomed
<1>2. PeersInv
  <2>1. TypeOK
    <3>1. address \in [Peers -> Addresses]
      OBVIOUS
    <3> QED BY <1>1, <3>1 DEF TypeOK, Kinds
  <2> QED BY <1>1, <2>1 DEF PeersInv, WalkInHand, ThreadFitsPeer, PendingIsHandshake,
                            DoomedHaveExited, NoThreadOutlivesItsPeer, Serving
<1>3. EstablishedIsExact
  <2>1. {p \in Peers : thread[p] \in Serving} = {}
    BY DEF Serving
  <2> QED BY <2>1, FS_EmptySet DEF EstablishedIsExact
<1>4. ShownIsCounted
  <2>1. ASSUME NEW k \in Kinds, NEW h \in HostIds
        PROVE  Counted(k, h) = {}
    BY DEF Counted, Told
  <2> QED BY <2>1, FS_EmptySet DEF ShownIsCounted
<1>5. AdmissionBounded
  <2>1. Of("outgoing") = {} /\ {p \in list : thread[p] = "handshake"} = {}
    BY DEF Of
  <2>2. \A a \in Addresses : {p \in list : thread[p] = "handshake" /\ address[p] = a} = {}
    OBVIOUS
  <2> QED BY <2>1, <2>2, FS_EmptySet DEF AdmissionBounded, PeerManagerAssumption
<1> QED BY <1>2, <1>3, <1>4, <1>5 DEF ManagerInv

LEMMA ManagerStep ==
    ASSUME PeerManagerAssumption, ManagerInv, [Next]_vars
    PROVE  ManagerInv'
<1>1. ASSUME NEW p \in Peers, NEW a \in Addresses, AddIncomingPeer(p, a)
      PROVE  ManagerInv'
  BY <1>1, AddIncomingPeerStep
<1>2. ASSUME NEW p \in Peers, NEW a \in Addresses, NEW h \in HostIds, AddPeer(p, h, a)
      PROVE  ManagerInv'
  BY <1>2, AddPeerStep
<1>3. ASSUME NEW p \in Peers, ThreadStep(p)
      PROVE  ManagerInv'
  BY <1>3, QuietThreadStep, IntroduceStep DEF ThreadStep
<1>4. ASSUME NEW p \in Peers,
             \/ DialSucceeds(p) \/ ConnectionBreaks(p) \/ DialerGivesUp(p)
             \/ RelayArrives(p) \/ ServerLeaves(p)
      PROVE  ManagerInv'
  BY <1>4, QuietThreadStep
<1>5. culls \in Nat
  BY Types DEF ManagerInv
<1>6. CASE ClearPeers
  BY <1>5, <1>6, BeginStep DEF ClearPeers, countVars
<1>7. CASE CullPeers
  BY <1>5, <1>7, BeginStep DEF CullPeers
<1>8. CASE EndWalk
  BY <1>8, EndWalkStep
<1>9. ASSUME NEW h \in HostIds, RemoveOutgoingPeer(h)
      PROVE  ManagerInv'
  BY <1>5, <1>9, BeginStep DEF RemoveOutgoingPeer, countVars
<1>10. ASSUME NEW p \in Peers, Join(p)
       PROVE  ManagerInv'
  BY <1>10, JoinStep
<1>11. ASSUME NEW p \in Peers, NEW silent \in BOOLEAN, Visit(p, silent)
       PROVE  ManagerInv'
  BY <1>11, VisitStep
<1>12. CASE StopNetwork \/ StartNetwork
  BY <1>12, PhaseStep DEF StopNetwork, StartNetwork
<1>13. CASE UNCHANGED vars
  <2>1. phase' \in {"running", "stopping", "stopped"}
    BY <1>13, Types DEF vars, ManagerInv
  <2> QED BY <1>13, <2>1, PhaseStep DEF vars
<1> QED
  BY <1>1, <1>2, <1>3, <1>4, <1>6, <1>7, <1>8, <1>9, <1>10, <1>11, <1>12, <1>13 DEF Next

(* The inductive invariant of the peer manager holds throughout, for every
   number of peers and every interleaving of admissions, threads and walks. *)
THEOREM ManagerInvariant == Spec => []ManagerInv
<1>1. Init => ManagerInv
  BY PeerManagerAssumption, ManagerInit
<1>2. ManagerInv /\ [Next]_vars => ManagerInv'
  BY PeerManagerAssumption, ManagerStep
<1> QED BY <1>1, <1>2, PTL DEF Spec

(* The state of the manager always has its type, a walk in progress included:
   what it visits, joins and removes is in the list.                        *)
THEOREM ManagerTypes == Spec => []TypeOK
<1>1. ManagerInv => TypeOK
  BY DEF ManagerInv, PeersInv
<1> QED BY <1>1, ManagerInvariant, PTL

(* No thread works on a peer object that was destroyed: every walk joins the
   thread before it drops the object (PeerManager.cpp, Peer::Stop).         *)
THEOREM NoThreadOutlives == Spec => []NoThreadOutlivesItsPeer
<1>1. ManagerInv => NoThreadOutlivesItsPeer
  BY DEF ManagerInv, PeersInv
<1> QED BY <1>1, ManagerInvariant, PTL

(* establishedIncomingCount_ is the number of connections in service, on
   every path out of a connection.                                          *)
THEOREM EstablishedExact == Spec => []EstablishedIsExact
<1>1. ManagerInv => EstablishedIsExact
  BY DEF ManagerInv
<1> QED BY <1>1, ManagerInvariant, PTL

(* Whenever no walk is under way the display counts exactly the peers there
   are, by kind and by host.                                                *)
THEOREM ShownExact == Spec => []ShownIsExact
<1>1. ASSUME ManagerInv, MutexFree, NEW k \in Kinds, NEW h \in HostIds
      PROVE  shown[k][h] = Cardinality({p \in Peers : Told(p, k, h)})
  <2>1. Counted(k, h) = {p \in Peers : Told(p, k, h)}
    BY <1>1 DEF Counted, Doomed
  <2> QED BY <1>1, <2>1 DEF ManagerInv, ShownIsCounted
<1>2. ManagerInv => ShownIsExact
  BY <1>1 DEF ShownIsExact
<1> QED BY <1>2, ManagerInvariant, PTL

(* The limits of PeerLimits hold and no host is dialled twice.              *)
THEOREM AdmissionIsBounded == Spec => []AdmissionBounded
<1>1. ManagerInv => AdmissionBounded
  BY DEF ManagerInv
<1> QED BY <1>1, ManagerInvariant, PTL

=============================================================================
