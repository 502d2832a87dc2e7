---------------------------- MODULE RegisterHost ----------------------------
(***************************************************************************)
(* The daemon around the store of each host: what it keeps across a crash  *)
(* and what it lets out.  A local write is three separate steps of the     *)
(* writing thread (RegisterStore::Upsert or Delete, then                   *)
(* Settings::noteRegisterHlcWallMs, then GetForBroadcast and the           *)
(* broadcast), so the threads that answer peers, other writers, the saver  *)
(* and a crash may come in between.  Startup seeds the clock from the      *)
(* persisted floor and merges the sealed snapshot before the network runs  *)
(* (main.cpp), so it is one step.                                          *)
(***************************************************************************)
EXTENDS RegisterStore

CONSTANT FloorBatchMs      \* Settings::RegisterHlcFloorBatchMs
ASSUME FloorAssumption == FloorBatchMs \in Nat \ {0}

VARIABLES
    file,        \* file[h]: the sealed snapshot; it outlives the process
    floor,       \* floor[h]: registerHlcFloorMs in the settings; so does this
    announcing,  \* announcing[h]: <<name, step>> still to do by writing threads
    noted        \* history: the greatest clock reading noted in the settings

diskVars == <<file, floor>>
hostVars == <<storeVars, diskVars, announcing, noted>>

(* The mirror of the clipboard is noted and never sent.                     *)
Tasks == (Keys \X {"note"}) \cup (Names \X {"send"})

HostInit ==
    /\ StoreInit
    /\ file = [h \in Hosts |-> Empty(Names)]
    /\ floor = [h \in Hosts |-> 0]
    /\ announcing = [h \in Hosts |-> {}]
    /\ noted = [h \in Hosts |-> ZeroStamp]

(***************************************************************************)
(* A write by the user interface or by a one-shot client's relay, and the  *)
(* mirror of the live clipboard, leave a thread with work to do.           *)
(***************************************************************************)
Owes(h, n, step) == announcing' = [announcing EXCEPT ![h] = @ \cup {<<n, step>>}]

WriteValue(h, n, v, f, o) ==
    /\ Upsert(h, n, v, f, o)
    /\ Owes(h, n, "note")
    /\ UNCHANGED <<diskVars, noted>>

WriteTombstone(h, n, o) ==
    /\ Delete(h, n, o)
    /\ Owes(h, n, "note")
    /\ UNCHANGED <<diskVars, noted>>

MirrorClipboard(h, v) ==
    /\ MirrorDefault(h, v)
    /\ Owes(h, Mirror, "note")
    /\ UNCHANGED <<diskVars, noted>>

(* Faulty variant: the floor is the reading itself, without a margin.       *)
ReservedExactly(floorMs, wallMs) == IF wallMs >= floorMs THEN wallMs ELSE floorMs

(* The next block is reserved only when the clock has reached the floor.    *)
Reserved(floorMs, wallMs) ==
    IF wallMs >= floorMs THEN wallMs + FloorBatchMs ELSE floorMs

(* Faulty variant: the mirror goes the way of every other register.         *)
NoteFloorThenSend(h, n) ==
    /\ <<n, "note">> \in announcing[h]
    /\ announcing' = [announcing EXCEPT ![h] = (@ \ {<<n, "note">>}) \cup {<<n, "send">>}]
    /\ floor' = [floor EXCEPT ![h] = Reserved(@, clock[h].wallMs)]
    /\ noted' = [noted EXCEPT ![h] = clock[h]]
    /\ UNCHANGED <<storeVars, file>>

(* noteRegisterHlcWallMs(ClockHighWater().wallMs).                          *)
NoteFloor(h, n) ==
    /\ <<n, "note">> \in announcing[h]
    /\ announcing' = [announcing EXCEPT ![h] =
                        (@ \ {<<n, "note">>})
                           \cup (IF n = Mirror THEN {} ELSE {<<n, "send">>})]
    /\ floor' = [floor EXCEPT ![h] = Reserved(@, clock[h].wallMs)]
    /\ noted' = [noted EXCEPT ![h] = clock[h]]
    /\ UNCHANGED <<storeVars, file>>

StampsOf(records) == {r.written : r \in records} \cup {r.touched : r \in records}

Greatest(top, stamps) == \A s \in stamps : HlcLeq(s, top)

(* GetForBroadcast, then the REGW to every register-serving peer.  What is
   sent is what the store holds by now, perhaps a later write.              *)
Announce(h, n) ==
    /\ <<n, "send">> \in announcing[h]
    /\ announcing' = [announcing EXCEPT ![h] = @ \ {<<n, "send">>}]
    /\ \/ DropOnAccess(h, n)
       \/ store[h][n] = NoRecord /\ UNCHANGED storeVars
       \/ Live(store[h][n], now[h]) /\ UNCHANGED storeVars
    /\ UNCHANGED <<diskVars, noted>>

(* The rest of the store's operations owe nothing to the disk or to peers.  *)
Serve(h) ==
    /\ \/ PruneExpired(h)
       \/ \E n \in Names : DropOnAccess(h, n)
       \/ \E n \in Names : Read(h, n)
       \/ \E n \in Names, r \in RemoteRecords : ApplyRemote(h, n, r)
       \/ Tick(h)
       \/ StepBack(h)
    /\ UNCHANGED <<diskVars, announcing, noted>>

(***************************************************************************)
(* The disk.                                                               *)
(***************************************************************************)
(* SaveNow, when it succeeds: the snapshot leaves out the mirror.           *)
Save(h) ==
    /\ PruneExpired(h)
    /\ file' = [file EXCEPT ![h] = [n \in Names |-> store'[h][n]]]
    /\ UNCHANGED <<floor, announcing, noted>>

(* Faulty variant: the snapshot is loaded without being witnessed.          *)
StartupFloorOnly(h, image) == {SeedFloor(ZeroStamp, floor[h])}

(* Every stamp startup shows the clock: the floor, then both stamps of each
   record in the snapshot, the dead ones too.                               *)
StartupStamps(h, image) ==
    {SeedFloor(ZeroStamp, floor[h])} \cup StampsOf({image[n] : n \in Names} \ {NoRecord})

(* The process dies at any point and starts again.  A snapshot that does not
   open is moved aside and the store starts empty.  Bound: a session starts
   from a floor that was reserved at a wall reading, not beyond one.        *)
Restart(h) ==
    /\ floor[h] <= MaxWall + FloorBatchMs
    /\ \E image \in {file[h], Empty(Names)} :
          /\ file' = [file EXCEPT ![h] = image]
          /\ \E top \in StartupStamps(h, image) :
                /\ Greatest(top, StartupStamps(h, image))
                /\ clock' = [clock EXCEPT ![h] = top]
          /\ store' = [store EXCEPT ![h] =
                         [n \in Keys |->
                            IF n \in Names THEN Prune(image, now[h])[n] ELSE NoRecord]]
    /\ announcing' = [announcing EXCEPT ![h] = {}]
    /\ UNCHANGED <<now, floor, noted>>

-----------------------------------------------------------------------------
HostStep(h) ==
    \/ \E n \in Names, v \in Values, f \in ValueFlags, o \in Origins :
          WriteValue(h, n, v, f, o)
    \/ \E n \in Names, o \in Origins : WriteTombstone(h, n, o)
    \/ \E v \in Values : MirrorClipboard(h, v)
    \/ \E n \in Keys : NoteFloor(h, n)
    \/ \E n \in Names : Announce(h, n)
    \/ Serve(h)
    \/ Save(h)
    \/ Restart(h)

HostNext == \E h \in Hosts : HostStep(h)

HostSpec == HostInit /\ [][HostNext]_hostVars

-----------------------------------------------------------------------------
HostTypeOK ==
    /\ StoreTypeOK
    /\ file \in [Hosts -> [Names -> Record \cup {NoRecord}]]
    /\ floor \in [Hosts -> Nat]
    /\ announcing \in [Hosts -> SUBSET Tasks]
    /\ noted \in [Hosts -> Stamps]

(* However often the process dies and however far the wall clock is set
   back, the clock of a session is at or above every reading an earlier one
   noted, so no noted stamp is minted twice ("HLCs survive a restart (and a
   regressed wall clock) without reissuing values").                        *)
NotedSurvivesRestart == \A h \in Hosts : HlcLeq(noted[h], clock[h])

(* The clock covers the snapshot as well as the store, through every crash:
   a dead record in the snapshot is not loaded, but its stamps are witnessed.
   So the first write after a restart dominates whatever a peer, or the same
   snapshot loaded again, still holds of the earlier session.               *)
ClockCoversFile ==
    \A h \in Hosts, n \in Names :
        file[h][n] # NoRecord =>
            /\ HlcLeq(file[h][n].written, clock[h])
            /\ HlcLeq(file[h][n].touched, clock[h])

(* Of all that happens to a daemon only the end of its process loses what it
   held: no REGW, however late, and no save, note or broadcast in between makes
   it go back.                                                              *)
OnlyRestartsRegress ==
    [][\A h \in Hosts : \/ \A n \in Keys : KeepsNewest(h, n)
                        \/ Restart(h)]_hostVars

=============================================================================
