------------------------- MODULE RegisterPersistence -------------------------
(***************************************************************************)
(* The sealed snapshots of the register store (RegisterPersistenceRuntime, *)
(* RegisterPersistence, SealedSnapshot): one file per group, a background  *)
(* thread that writes the file some time after a change, and the user      *)
(* interface's thread, which switches files when the network key changes   *)
(* and flushes on exit.  A record stands for one version of a register.    *)
(* The store only ever joins versions, so memory and files are sets of     *)
(* them, and loading a file is a union.  A file and its key are named by   *)
(* the group they belong to.                                               *)
(***************************************************************************)
EXTENDS Naturals

CONSTANTS
    Groups,         \* the groups the device may be paired with
    Unpaired,       \* no network key
    Records,        \* the versions users and peers may write
    MaxKeyChanges,  \* bound: changes of the network key
    MaxFaults       \* bound: failed saves, unreadable files and crashes

ASSUME PersistenceAssumption ==
    /\ Unpaired \notin Groups
    /\ MaxKeyChanges \in Nat /\ MaxFaults \in Nat

VARIABLES
    phase,       \* "down", "up", "stopping" (g_stop) or "stopped"
    group,       \* what the key manager holds
    path,        \* g_filePath, or Unpaired while g_haveKey is off
    dirty,       \* g_dirty
    ram,         \* the records of the store
    unnotified,  \* changes whose listener has not run yet
    disk,        \* disk[g]: the records in the file of g
    pc,          \* where the "writer" and the "ui" thread are
    target,      \* target[t]: the file thread t copied to save under
    saver,       \* the thread that holds g_saveMutex, or "nobody"
    image,       \* the snapshot it is writing
    loaded,      \* the records the ui thread has read from a file
    saved,       \* history: what this process has saved in each file
    failed,      \* history: the last save failed, or a file was moved aside since
    keyChanges, faults

settings == <<group, keyChanges>>
saving   == <<saver, image, saved, failed>>
vars == <<phase, settings, path, dirty, ram, unnotified, disk, pc, target,
          saving, loaded, faults>>

Nothing == [g \in Groups |-> {}]

(* Files of an earlier installation may be there: their names and keys are
   derived from the group alone.                                            *)
Init ==
    /\ phase = "down"
    /\ group \in Groups \cup {Unpaired}
    /\ path = Unpaired
    /\ dirty = FALSE
    /\ ram = {} /\ unnotified = {}
    /\ disk \in [Groups -> SUBSET Records]
    /\ pc = [writer |-> "off", ui |-> "idle"]
    /\ target = [writer |-> Unpaired, ui |-> Unpaired]
    /\ saver = "nobody" /\ image = {}
    /\ loaded = {}
    /\ saved = Nothing /\ failed = FALSE
    /\ keyChanges = 0 /\ faults = 0

Fault == faults < MaxFaults /\ faults' = faults + 1

GoTo(t, place) == pc' = [pc EXCEPT ![t] = place]

(* LoadSnapshotFile: an unreadable file is moved aside and counts as empty. *)
ReadFile(g, found) ==
    \/ /\ found = disk[g]
       /\ UNCHANGED <<disk, faults, saved, failed>>
    \/ /\ Fault
       /\ found = {}
       /\ disk' = [disk EXCEPT ![g] = {}]
       /\ saved' = [saved EXCEPT ![g] = {}]
       /\ failed' = TRUE

(***************************************************************************)
(* The process.                                                            *)
(***************************************************************************)
(* StartRegisterPersistence, before any other thread touches the store: the
   listener is armed after the load, so loading marks nothing dirty.        *)
Start ==
    /\ phase = "down"
    /\ phase' = "up"
    /\ path' = group
    /\ IF group = Unpaired
       THEN UNCHANGED <<ram, disk, faults, saved, failed>>
       ELSE \E found \in SUBSET Records : ReadFile(group, found) /\ ram' = found
    /\ GoTo("writer", "wait")
    /\ UNCHANGED <<settings, dirty, unnotified, target, saver, image, loaded>>

(* A user or a peer changes the store, whose mutex is released before the
   change listener marks it dirty.  The network is stopped before this is.  *)
Change(r) ==
    /\ phase = "up"
    /\ r \notin ram
    /\ ram' = ram \cup {r}
    /\ unnotified' = unnotified \cup {r}
    /\ UNCHANGED <<phase, settings, path, dirty, disk, pc, target, saving, loaded, faults>>

NotifyChanged(r) ==
    /\ r \in unnotified
    /\ unnotified' = unnotified \ {r}
    /\ dirty' = TRUE
    /\ UNCHANGED <<phase, settings, path, ram, disk, pc, target, saving, loaded, faults>>

(* StopRegisterPersistence: ask the writer to flush and leave, then join it. *)
Stop ==
    /\ phase = "up"
    /\ pc["ui"] = "idle" /\ unnotified = {}
    /\ phase' = "stopping"
    /\ UNCHANGED <<settings, path, dirty, ram, unnotified, disk, pc, target,
                   saving, loaded, faults>>

Join ==
    /\ phase = "stopping" /\ pc["writer"] = "off"
    /\ phase' = "stopped"
    /\ UNCHANGED <<settings, path, dirty, ram, unnotified, disk, pc, target,
                   saving, loaded, faults>>

(* What is not in a file is gone.                                           *)
ProcessEnds ==
    /\ phase' = "down"
    /\ path' = Unpaired /\ dirty' = FALSE
    /\ ram' = {} /\ unnotified' = {} /\ loaded' = {}
    /\ pc' = [writer |-> "off", ui |-> "idle"]
    /\ target' = [writer |-> Unpaired, ui |-> Unpaired]
    /\ saver' = "nobody" /\ image' = {}
    /\ saved' = Nothing /\ failed' = FALSE
    /\ UNCHANGED <<settings, disk>>

Exit  == phase = "stopped" /\ ProcessEnds /\ UNCHANGED faults

Crash == phase \in {"up", "stopping"} /\ Fault /\ ProcessEnds

(***************************************************************************)
(* SaveNow: the snapshot is taken under the save mutex, and renamed over   *)
(* the file in one step, or not at all.                                    *)
(***************************************************************************)
Seal(t) ==
    /\ pc[t] \in {"saving", "flushing"}
    /\ saver = "nobody"
    /\ saver' = t
    /\ image' = ram
    /\ UNCHANGED <<phase, settings, path, dirty, ram, unnotified, disk, pc, target,
                   loaded, saved, failed, faults>>

AfterSave(t) ==
    IF t = "ui" THEN "resolving" ELSE IF pc[t] = "saving" THEN "wait" ELSE "off"

(* Faulty variant: the dirty flag is cleared when the save is done.         *)
FinishSaveClearing(t) ==
    /\ saver = t
    /\ saver' = "nobody" /\ image' = {}
    /\ disk' = [disk EXCEPT ![target[t]] = image]
    /\ saved' = [saved EXCEPT ![target[t]] = @ \cup image]
    /\ failed' = FALSE /\ dirty' = FALSE
    /\ GoTo(t, AfterSave(t))
    /\ UNCHANGED <<phase, settings, path, ram, unnotified, target, loaded, faults>>

(* A failed save is logged and not tried again.                             *)
FinishSave(t) ==
    /\ saver = t
    /\ saver' = "nobody" /\ image' = {}
    /\ \/ /\ disk' = [disk EXCEPT ![target[t]] = image]
          /\ saved' = [saved EXCEPT ![target[t]] = @ \cup image]
          /\ failed' = FALSE
          /\ UNCHANGED faults
       \/ /\ Fault
          /\ failed' = TRUE
          /\ UNCHANGED <<disk, saved>>
    /\ GoTo(t, AfterSave(t))
    /\ UNCHANGED <<phase, settings, path, dirty, ram, unnotified, target, loaded>>

(***************************************************************************)
(* WriterLoop.                                                             *)
(***************************************************************************)
writerRest == <<phase, settings, path, ram, unnotified, disk, saving, loaded, faults>>

Wake ==
    /\ pc["writer"] = "wait"
    /\ phase = "up" /\ dirty
    /\ GoTo("writer", "debounce")
    /\ UNCHANGED <<writerRest, dirty, target>>

(* The debounce ends by the clock or by a stop; without a key there is
   nothing to write.                                                        *)
EndDebounce ==
    /\ pc["writer"] = "debounce"
    /\ dirty' = FALSE
    /\ IF path = Unpaired
       THEN GoTo("writer", "wait") /\ UNCHANGED target
       ELSE GoTo("writer", "saving") /\ target' = [target EXCEPT !["writer"] = path]
    /\ UNCHANGED writerRest

(* Faulty variant: the writer leaves without a last save.                   *)
LeaveAtOnce ==
    /\ pc["writer"] = "wait"
    /\ phase = "stopping"
    /\ GoTo("writer", "off")
    /\ UNCHANGED <<writerRest, dirty, target>>

(* Out of the loop: a last save if something is still to be written.        *)
Leave ==
    /\ pc["writer"] = "wait"
    /\ phase = "stopping"
    /\ IF dirty /\ path # Unpaired
       THEN GoTo("writer", "flushing") /\ target' = [target EXCEPT !["writer"] = path]
       ELSE GoTo("writer", "off") /\ UNCHANGED target
    /\ UNCHANGED <<writerRest, dirty>>

(***************************************************************************)
(* RegisterPersistenceKeyChanged, on the ui thread.                        *)
(***************************************************************************)
(* The pairing page sets or clears the key, and then reports it.  What is in
   memory goes to the old group's file first.                               *)
ChangeKey(g) ==
    /\ phase = "up" /\ pc["ui"] = "idle"
    /\ keyChanges < MaxKeyChanges
    /\ keyChanges' = keyChanges + 1
    /\ group' = g
    /\ target' = [target EXCEPT !["ui"] = path]
    /\ GoTo("ui", IF path = Unpaired THEN "resolving" ELSE "flushing")
    /\ UNCHANGED <<phase, path, dirty, ram, unnotified, disk, saving, loaded, faults>>

(* Faulty variant: the new group's file is not marked for writing.          *)
SwapFileClean ==
    /\ pc["ui"] = "resolving"
    /\ path' = group
    /\ GoTo("ui", IF group # Unpaired /\ group # target["ui"] THEN "loading" ELSE "idle")
    /\ UNCHANGED <<phase, settings, dirty, ram, unnotified, disk, target, saving, loaded, faults>>

(* The swap; the new file's records are loaded after the mutex is released. *)
SwapFile ==
    /\ pc["ui"] = "resolving"
    /\ path' = group
    /\ dirty' = (group # Unpaired)
    /\ GoTo("ui", IF group # Unpaired /\ group # target["ui"] THEN "loading" ELSE "idle")
    /\ UNCHANGED <<phase, settings, ram, unnotified, disk, target, saving, loaded, faults>>

LoadSnapshot ==
    /\ pc["ui"] = "loading"
    /\ \E found \in SUBSET Records : ReadFile(group, found) /\ loaded' = found
    /\ GoTo("ui", "merging")
    /\ UNCHANGED <<phase, settings, path, dirty, ram, unnotified, target,
                   saver, image>>

(* Faulty variant: the file replaces what is in memory.                     *)
MergeReplacing ==
    /\ pc["ui"] = "merging"
    /\ ram' = loaded
    /\ dirty' = TRUE
    /\ loaded' = {}
    /\ GoTo("ui", "idle")
    /\ UNCHANGED <<phase, settings, path, unnotified, disk, target, saving, faults>>

(* Merging a record that changes the store marks it dirty.                  *)
MergeLoaded ==
    /\ pc["ui"] = "merging"
    /\ ram' = ram \cup loaded
    /\ dirty' = (dirty \/ ~(loaded \subseteq ram))
    /\ loaded' = {}
    /\ GoTo("ui", "idle")
    /\ UNCHANGED <<phase, settings, path, unnotified, disk, target, saving, faults>>

-----------------------------------------------------------------------------
Threads == {"writer", "ui"}

Next ==
    \/ Start \/ Stop \/ Join \/ Exit \/ Crash
    \/ \E r \in Records : Change(r) \/ NotifyChanged(r)
    \/ Wake \/ EndDebounce \/ Leave
    \/ \E t \in Threads : Seal(t) \/ FinishSave(t)
    \/ \E g \in Groups \cup {Unpaired} : ChangeKey(g)
    \/ SwapFile \/ LoadSnapshot \/ MergeLoaded

Spec == Init /\ [][Next]_vars

(* Both threads run, the debounce runs out, and every change is notified.
   Nothing makes a user act or the process stop.                            *)
Fairness ==
    /\ \A r \in Records : WF_vars(NotifyChanged(r))
    /\ WF_vars(Wake) /\ WF_vars(EndDebounce) /\ WF_vars(Leave) /\ WF_vars(Join)
    /\ \A t \in Threads : SF_vars(Seal(t)) /\ WF_vars(FinishSave(t))
    /\ WF_vars(SwapFile) /\ WF_vars(LoadSnapshot) /\ WF_vars(MergeLoaded)

FairSpec == Spec /\ Fairness

-----------------------------------------------------------------------------
Paired == path # Unpaired

(* The writer is about to write the current file, and r will be in it.      *)
OnItsWay(r) ==
    /\ pc["writer"] \in {"saving", "flushing"}
    /\ target["writer"] = path
    /\ saver = "writer" => r \in image

(* A change is in the file, or a thread still has it to write: none slips
   between the flag the writer clears and the snapshot it takes, or between
   the flush of a key change and the swap of the file, unless a save failed. *)
NothingForgotten ==
    phase \in {"up", "stopping"} /\ Paired /\ ~failed =>
        \A r \in ram : r \in disk[path] \/ r \in unnotified \/ dirty \/ OnItsWay(r)

(* "the final flush writes the complete picture" (main.cpp).                *)
StopFlushesAll ==
    phase = "stopped" /\ Paired /\ ~failed => ram \subseteq disk[path]

(* Two threads that save to one file never replace a later snapshot by an
   earlier one.                                                             *)
SavedStays == \A g \in Groups : saved[g] \subseteq disk[g]

(* A change of a paired device gets to disk on its own, without another
   change to push it, unless a save failed or the process ended.            *)
ChangesReachDisk ==
    \A r \in Records :
        (phase = "up" /\ Paired /\ r \in ram)
            ~> (phase # "up" \/ ~Paired \/ failed \/ r \in disk[path])

(* "the file swaps to the new key's fingerprint and its stored records merge
   in" (RegisterPersistenceRuntime.h): no save discards what a group's file
   held.                                                                    *)
StoredRecordsMergeIn ==
    [][\A g \in Groups : disk[g] \subseteq disk'[g]]_vars

=============================================================================
