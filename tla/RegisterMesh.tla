---------------------------- MODULE RegisterMesh ----------------------------
(***************************************************************************)
(* The daemons of RegisterHost joined by connections (Peer.cpp,            *)
(* PeerManager.cpp).  Every daemon dials every peer it discovers and       *)
(* retries for ever; a connection carries frames both ways, in order,      *)
(* until it breaks, and then what was in flight is lost.  Replication is   *)
(* two mechanisms: a write is broadcast once, and each end of a new        *)
(* connection offers the digest of its store (RSYN), which the other end   *)
(* answers with the records it shows missing or older (REGW).  A received  *)
(* record is merged and never passed on.                                   *)
(***************************************************************************)
EXTENDS RegisterHost, SequencesExt

CONSTANTS
    Dials,       \* <<a, b>>: a has b in its list of outgoing peers
    Users,       \* bound: the devices whose users write and read
    MaxUses,     \* bound: writes and reads together
    MaxFaults    \* bound: breaks, removals and crashes together

ASSUME MeshAssumption ==
    /\ Dials \subseteq {d \in Hosts \X Hosts : d[1] # d[2]}
    /\ Users \subseteq Hosts /\ IsFiniteSet(Names)
    /\ MaxUses \in Nat /\ MaxFaults \in Nat

VARIABLES
    met,       \* dials whose peer object has completed a handshake
    up,        \* dials whose connection stands
    greeting,  \* <<d, e>>: end e of dial d has yet to offer its digest
    wire,      \* wire[d, e]: frames sent by end e of dial d, not yet handled
    outbox,    \* outbox[d]: the dialling peer object's messageQueue_
    uses,      \* how many writes and reads have happened
    faults     \* how many faults have happened

linkVars == <<met, up, greeting, wire, outbox>>
meshVars == <<hostVars, linkVars, uses, faults>>

Ends == {<<d, d[i]>> : d \in Dials, i \in {1, 2}}

Other(d, e) == IF e = d[1] THEN d[2] ELSE d[1]

MeshInit ==
    /\ HostInit
    /\ met = {} /\ up = {} /\ greeting = {}
    /\ wire = [end \in Ends |-> <<>>]
    /\ outbox = [d \in Dials |-> <<>>]
    /\ uses = 0 /\ faults = 0

(***************************************************************************)
(* Frames.                                                                 *)
(***************************************************************************)
Regw(n, r) == [tag |-> "REGW", name |-> n, record |-> r]

(* A digest entry is the two stamps of a record: neither its origin nor its
   value is in it.                                                          *)
DigestOf(h) ==
    {[name |-> n, written |-> store[h][n].written, touched |-> store[h][n].touched] :
        n \in {m \in Names : Live(store[h][m], now[h])}}

Rsyn(h) == [tag |-> "RSYN", digest |-> DigestOf(h)]

(* Faulty variant: only the names that are not in the digest.               *)
NamesMissing(h, digest) ==
    {n \in Names : Live(store[h][n], now[h]) /\ \A e \in digest : e.name # n}

(* RecordsToPush: the names a digest lacks, or shows older, or shows equally
   written and less recently touched.                                       *)
NamesToPush(h, digest) ==
    {n \in Names :
        /\ Live(store[h][n], now[h])
        /\ \A e \in digest : e.name = n =>
              \/ HlcLess(e.written, store[h][n].written)
              \/ /\ e.written = store[h][n].written
                 /\ HlcLess(e.touched, store[h][n].touched)}

Pushed(h, names) ==
    LET order == SetToSeq(names)
    IN  [i \in DOMAIN order |-> Regw(order[i], store[h][order[i]])]

(***************************************************************************)
(* A daemon at work.                                                       *)
(***************************************************************************)
Use == uses < MaxUses /\ uses' = uses + 1

LocalWrite(h) ==
    /\ Use
    /\ \/ \E n \in Names, v \in Values, f \in ValueFlags, o \in Origins \cup {h} :
             WriteValue(h, n, v, f, o)
       \/ \E n \in Names, o \in Origins \cup {h} : WriteTombstone(h, n, o)
    /\ UNCHANGED <<linkVars, faults>>

Note(h, n) == NoteFloor(h, n) /\ UNCHANGED <<linkVars, uses, faults>>

(* Faulty variant: a write is broadcast and the floor never noted.          *)
BroadcastUnnoted(h, n) ==
    /\ <<n, "note">> \in announcing[h]
    /\ announcing' = [announcing EXCEPT ![h] = @ \ {<<n, "note">>}]
    /\ outbox' = [d \in Dials |->
                    IF d[1] = h /\ d \in met
                    THEN Append(outbox[d], Regw(n, store[h][n]))
                    ELSE outbox[d]]
    /\ UNCHANGED <<storeVars, diskVars, noted, met, up, greeting, wire, uses, faults>>

(* BroadcastRegisterFrame: one REGW to each outgoing peer that is known to
   serve registers, connected at the moment or not.                         *)
Broadcast(h, n) ==
    /\ Announce(h, n)
    /\ outbox' = [d \in Dials |->
                    IF d[1] = h /\ d \in met /\ Live(store[h][n], now[h])
                    THEN Append(outbox[d], Regw(n, store[h][n]))
                    ELSE outbox[d]]
    /\ UNCHANGED <<met, up, greeting, wire, uses, faults>>

LocalRead(h, n) ==
    /\ Use
    /\ Read(h, n)
    /\ UNCHANGED <<diskVars, announcing, noted, linkVars, faults>>

SaveStore(h) == Save(h) /\ UNCHANGED <<linkVars, uses, faults>>

(* Its wall clock moves, and listing the registers drops the dead ones.     *)
Elapse(h) ==
    /\ Tick(h) \/ StepBack(h) \/ PruneExpired(h)
    /\ UNCHANGED <<diskVars, announcing, noted, linkVars, uses, faults>>

(***************************************************************************)
(* Connections.                                                            *)
(***************************************************************************)
Connect(d) ==
    /\ d \notin up
    /\ up' = up \cup {d}
    /\ met' = met \cup {d}
    /\ greeting' = greeting \cup {<<d, d[1]>>, <<d, d[2]>>}
    /\ UNCHANGED <<hostVars, wire, outbox, uses, faults>>

(* SendRegisterSyncOnConnect: the first frame of either end.                *)
Greet(d, e) ==
    /\ <<d, e>> \in greeting
    /\ greeting' = greeting \ {<<d, e>>}
    /\ wire' = [wire EXCEPT ![<<d, e>>] = Append(@, Rsyn(e))]
    /\ PruneExpired(e)
    /\ UNCHANGED <<diskVars, announcing, noted, met, up, outbox, uses, faults>>

(* DrainOutboundMessages: a frame leaves the queue before it is sent.       *)
Drain(d) ==
    /\ d \in up
    /\ <<d, d[1]>> \notin greeting
    /\ outbox[d] # <<>>
    /\ outbox' = [outbox EXCEPT ![d] = Tail(@)]
    /\ wire' = [wire EXCEPT ![<<d, d[1]>>] = Append(@, Head(outbox[d]))]
    /\ UNCHANGED <<hostVars, met, up, greeting, uses, faults>>

(* End e of dial d handles the next frame the other end sent.               *)
Arrived(d, e) ==
    /\ d \in up
    /\ <<d, e>> \notin greeting
    /\ wire[<<d, Other(d, e)>>] # <<>>

Taken(d, e) == [wire EXCEPT ![<<d, Other(d, e)>>] = Tail(@)]

ReceiveRecord(d, e) ==
    /\ Arrived(d, e)
    /\ LET f == Head(wire[<<d, Other(d, e)>>])
       IN  f.tag = "REGW" /\ ApplyRemote(e, f.name, f.record)
    /\ wire' = Taken(d, e)
    /\ UNCHANGED <<diskVars, announcing, noted, met, up, greeting, outbox, uses, faults>>

AnswerDigest(d, e) ==
    /\ Arrived(d, e)
    /\ LET f == Head(wire[<<d, Other(d, e)>>])
       IN  /\ f.tag = "RSYN"
           /\ PruneExpired(e)
           /\ wire' = [Taken(d, e) EXCEPT
                         ![<<d, e>>] = @ \o Pushed(e, NamesToPush(e, f.digest))]
    /\ UNCHANGED <<diskVars, announcing, noted, met, up, greeting, outbox, uses, faults>>

(***************************************************************************)
(* Faults.                                                                 *)
(***************************************************************************)
Fault == faults < MaxFaults /\ faults' = faults + 1

(* The connections in D break: what they carried is lost.                   *)
Break(D) ==
    /\ up' = up \ D
    /\ greeting' = {end \in greeting : end[1] \notin D}
    /\ wire' = [end \in Ends |-> IF end[1] \in D THEN <<>> ELSE wire[end]]

(* The peer objects of the dials in D are destroyed with their queues.      *)
Forget(D) ==
    /\ met' = met \ D
    /\ outbox' = [d \in Dials |-> IF d \in D THEN <<>> ELSE outbox[d]]

Disconnect(d) ==
    /\ d \in up
    /\ Fault /\ UNCHANGED uses
    /\ Break({d})
    /\ UNCHANGED <<hostVars, met, outbox>>

(* The peer's advertisement expires; discovery adds it again later.         *)
RemovePeer(d) ==
    /\ d \in met
    /\ Fault /\ UNCHANGED uses
    /\ Break({d})
    /\ Forget({d})
    /\ UNCHANGED hostVars

Crash(h) ==
    /\ Restart(h)
    /\ Fault /\ UNCHANGED uses
    /\ Break({d \in Dials : h \in {d[1], d[2]}})
    /\ Forget({d \in Dials : h = d[1]})

-----------------------------------------------------------------------------
MeshNext ==
    \/ \E h \in Users : LocalWrite(h) \/ (\E n \in Names : LocalRead(h, n))
    \/ \E h \in Hosts, n \in Names : Note(h, n) \/ Broadcast(h, n)
    \/ \E h \in Hosts : SaveStore(h) \/ Elapse(h)
    \/ \E d \in Dials : Connect(d) \/ Drain(d)
    \/ \E end \in Ends : Greet(end[1], end[2])
    \/ \E end \in Ends : ReceiveRecord(end[1], end[2]) \/ AnswerDigest(end[1], end[2])
    \/ \E d \in Dials : Disconnect(d) \/ RemovePeer(d)
    \/ \E h \in Hosts : Crash(h)

(* The threads run: a write is noted and broadcast, a dial is retried for
   ever, and both ends of a connection that stands go on sending and
   handling frames.  Nothing makes a user write or read, or a save happen.  *)
MeshFairness ==
    /\ \A h \in Hosts, n \in Names : WF_meshVars(Note(h, n)) /\ WF_meshVars(Broadcast(h, n))
    /\ \A d \in Dials : WF_meshVars(Connect(d)) /\ WF_meshVars(Drain(d))
    /\ \A end \in Ends :
          /\ WF_meshVars(Greet(end[1], end[2]))
          /\ WF_meshVars(ReceiveRecord(end[1], end[2]))
          /\ WF_meshVars(AnswerDigest(end[1], end[2]))

MeshSpec == MeshInit /\ [][MeshNext]_meshVars

FairMeshSpec == MeshSpec /\ MeshFairness

-----------------------------------------------------------------------------
(* Nothing is left to do: every dial stands and every queue is empty.       *)
Quiet ==
    /\ up = Dials
    /\ greeting = {}
    /\ \A end \in Ends : wire[end] = <<>>
    /\ \A d \in Dials : outbox[d] = <<>>
    /\ \A h \in Hosts : \A n \in Names, step \in {"note", "send"} :
          <<n, step>> \notin announcing[h]

WriteStamp(h, n) ==
    IF store[h][n] = NoRecord THEN ZeroStamp ELSE store[h][n].written

(* No interleaving of writes, broadcasts, digests, breaks and crashes leaves
   two hosts with nothing more to say to each other while one of them holds
   a later write than the other: a record lost with its connection is made
   good by the digests of the next one.                                     *)
QuietMeansCaughtUp ==
    Quiet => \A a, b \in Hosts, n \in Names : WriteStamp(a, n) = WriteStamp(b, n)

(* Once the users and the network leave the mesh alone, it gets there.      *)
CatchesUp == <>[](Quiet /\ QuietMeansCaughtUp)

(* Each host of the mesh is a host of RegisterHost: what arrives on its
   connections are records a peer may send.                                 *)
Host == INSTANCE RegisterHost WITH Origins <- Hosts

HostsImplemented == Host!HostSpec

=============================================================================
