---------------------- MODULE RegisterPersistence_proofs ----------------------
(***************************************************************************)
(* The snapshot files, for any groups, any records and any number of key   *)
(* changes and faults.  The properties relate a file to memory; what makes *)
(* them inductive is the save in progress: what its image must hold while  *)
(* changes, a key change or a stop overtake it.                            *)
(***************************************************************************)
EXTENDS RegisterPersistence, TLAPS

Keyed == Groups \cup {Unpaired}

WriterPlaces == {"off", "wait", "debounce", "saving", "flushing"}
UiPlaces     == {"idle", "flushing", "resolving", "loading", "merging"}

PersistenceTypeOK ==
    /\ phase \in {"down", "up", "stopping", "stopped"}
    /\ group \in Keyed /\ path \in Keyed
    /\ dirty \in BOOLEAN /\ failed \in BOOLEAN
    /\ ram \subseteq Records /\ unnotified \subseteq ram /\ loaded \subseteq Records
    /\ disk \in [Groups -> SUBSET Records] /\ saved \in [Groups -> SUBSET Records]
    /\ pc \in [Threads -> WriterPlaces \cup UiPlaces]
    /\ pc["writer"] \in WriterPlaces /\ pc["ui"] \in UiPlaces
    /\ target \in [Threads -> Keyed]
    /\ saver \in Threads \cup {"nobody"}

Saving(t) == pc[t] \in {"saving", "flushing"}

(* Who is where in which phase.                                             *)
PhaseInv ==
    /\ phase = "down" => ram = {} /\ ~dirty /\ saved = Nothing
    /\ phase = "up" <=> pc["writer"] # "off" /\ phase # "stopping"
    /\ phase # "up" => unnotified = {} /\ pc["ui"] = "idle"
    /\ pc["writer"] = "flushing" => phase = "stopping"
    /\ pc["ui"] = "loading" => group # Unpaired

(* A thread saves to the file it found current; the writer's may have become
   another group's file since, and then the current one is marked dirty.    *)
TargetInv ==
    /\ \A t \in Threads : Saving(t) => target[t] # Unpaired
    /\ pc["ui"] = "flushing" => target["ui"] = path
    /\ pc["writer"] = "flushing" => target["writer"] = path
    /\ Saving("writer") /\ target["writer"] # path /\ Paired => dirty

(* An image is no older than anything saved, and what it lacks of memory is
   still to be written.                                                     *)
ImageInv ==
    /\ \A g \in Groups : saved[g] \subseteq ram
    /\ saver # "nobody" =>
          /\ Saving(saver) /\ image \subseteq ram
          /\ \A g \in Groups : saved[g] \subseteq image
          /\ Paired => \A r \in ram \ image :
                \/ r \in unnotified \/ dirty
                \/ saver = "ui" /\ Saving("writer") /\ target["writer"] = path
    /\ saver = "writer" /\ pc["writer"] = "flushing" => ram \subseteq image

(* The writer leaves with everything written.                               *)
FlushedInv ==
    phase \in {"stopping", "stopped"} /\ pc["writer"] = "off" /\ Paired /\ ~failed
        => ram \subseteq disk[path]

PersistenceInv ==
    /\ PersistenceTypeOK
    /\ PhaseInv
    /\ TargetInv
    /\ ImageInv
    /\ FlushedInv
    /\ SavedStays
    /\ NothingForgotten

-----------------------------------------------------------------------------
(* A process that is not running holds nothing and saves nothing.           *)
Down ==
    /\ phase = "down" /\ group \in Keyed /\ path = Unpaired /\ dirty = FALSE
    /\ ram = {} /\ unnotified = {} /\ loaded = {} /\ disk \in [Groups -> SUBSET Records]
    /\ pc = [writer |-> "off", ui |-> "idle"]
    /\ target = [writer |-> Unpaired, ui |-> Unpaired]
    /\ saver = "nobody" /\ image = {} /\ saved = Nothing /\ failed = FALSE

LEMMA DownInv == Down => PersistenceInv
<1> SUFFICES ASSUME Down PROVE PersistenceInv
  OBVIOUS
<1> USE DEF Down
<1>1. /\ pc \in [Threads -> WriterPlaces \cup UiPlaces] /\ target \in [Threads -> Keyed]
      /\ pc["writer"] = "off" /\ pc["ui"] = "idle"
  BY DEF Threads, WriterPlaces, UiPlaces, Keyed
<1>2. saved \in [Groups -> SUBSET Records] /\ \A g \in Groups : saved[g] = {}
  BY DEF Nothing
<1>3. PersistenceTypeOK
  BY <1>1, <1>2 DEF PersistenceTypeOK, WriterPlaces, UiPlaces, Keyed
<1>4. PhaseInv
  BY <1>1 DEF PhaseInv
<1>5. TargetInv
  BY <1>1 DEF TargetInv, Saving, Threads
<1>6. ImageInv
  BY <1>2 DEF ImageInv
<1>7. FlushedInv /\ NothingForgotten
  BY DEF FlushedInv, NothingForgotten
<1>8. SavedStays
  BY <1>2 DEF SavedStays
<1> QED BY <1>3, <1>4, <1>5, <1>6, <1>7, <1>8 DEF PersistenceInv

LEMMA EndStep ==
    ASSUME PersistenceAssumption, PersistenceInv, Exit \/ Crash
    PROVE  PersistenceInv'
<1>1. group \in Keyed /\ disk \in [Groups -> SUBSET Records]
  BY DEF PersistenceInv, PersistenceTypeOK
<1>2. ProcessEnds
  BY DEF Exit, Crash
<1>3. Down'
  BY <1>1, <1>2 DEF ProcessEnds, settings, Keyed, Nothing, Down
<1>4. Down' => PersistenceInv'
  BY DownInv, PTL
<1> QED BY <1>3, <1>4

(* What reading a file leaves: the file as it was, or an empty one that the
   process has saved nothing to.                                            *)
LEMMA FileRead ==
    ASSUME PersistenceTypeOK, SavedStays, NEW g \in Groups, NEW found, ReadFile(g, found)
    PROVE  /\ found \subseteq Records
           /\ disk' \in [Groups -> SUBSET Records] /\ saved' \in [Groups -> SUBSET Records]
           /\ \A f \in Groups : saved'[f] \subseteq saved[f] /\ saved'[f] \subseteq disk'[f]
           /\ \/ failed' = TRUE
              \/ failed' = failed /\ disk' = disk /\ saved' = saved /\ found = disk[g]
<1>1. disk \in [Groups -> SUBSET Records] /\ saved \in [Groups -> SUBSET Records]
  BY DEF PersistenceTypeOK
<1>2. CASE found = disk[g] /\ UNCHANGED <<disk, faults, saved, failed>>
  BY <1>1, <1>2 DEF SavedStays
<1>3. CASE /\ found = {} /\ disk' = [disk EXCEPT ![g] = {}]
           /\ saved' = [saved EXCEPT ![g] = {}] /\ failed' = TRUE
  BY <1>1, <1>3 DEF SavedStays
<1> QED BY <1>2, <1>3 DEF ReadFile

LEMMA StartStep ==
    ASSUME PersistenceAssumption, PersistenceInv, Start
    PROVE  PersistenceInv'
<1>1. /\ PersistenceTypeOK /\ PhaseInv /\ SavedStays /\ TargetInv /\ ImageInv
  BY DEF PersistenceInv
<1>2. /\ phase = "down" /\ phase' = "up" /\ path' = group /\ group' = group
      /\ pc' = [pc EXCEPT !["writer"] = "wait"]
      /\ UNCHANGED <<dirty, unnotified, target, saver, image, loaded>>
  BY DEF Start, GoTo, settings
<1>3. /\ pc["writer"] = "off" /\ pc["ui"] = "idle" /\ saver = "nobody"
      /\ unnotified = {} /\ dirty = FALSE /\ saved = Nothing
  BY <1>1, <1>2 DEF PhaseInv, PersistenceTypeOK, ImageInv, Saving, Threads
<1>4. /\ pc' \in [Threads -> WriterPlaces \cup UiPlaces]
      /\ pc'["writer"] = "wait" /\ pc'["ui"] = "idle"
  BY <1>1, <1>2, <1>3 DEF PersistenceTypeOK, Threads, WriterPlaces
<1>5. /\ ram' \subseteq Records
      /\ disk' \in [Groups -> SUBSET Records] /\ saved' \in [Groups -> SUBSET Records]
      /\ \A g \in Groups : saved'[g] = {}
      /\ failed' \in BOOLEAN
      /\ group = Unpaired \/ failed' = TRUE \/ ram' = disk'[group]
  <2>1. CASE group = Unpaired
    <3>1. UNCHANGED <<ram, disk, faults, saved, failed>>
      BY <2>1 DEF Start
    <3> QED BY <1>1, <1>3, <2>1, <3>1 DEF PersistenceTypeOK, Nothing
  <2>2. CASE group # Unpaired
    <3>1. group \in Groups
      BY <1>1, <2>2 DEF PersistenceTypeOK, Keyed
    <3>2. PICK found \in SUBSET Records : ReadFile(group, found) /\ ram' = found
      BY <2>2 DEF Start
    <3>3. \A g \in Groups : saved[g] = {}
      BY <1>3 DEF Nothing
    <3>4. failed \in BOOLEAN
      BY <1>1 DEF PersistenceTypeOK
    <3> QED BY <1>1, <3>1, <3>2, <3>3, <3>4, FileRead
  <2> QED BY <2>1, <2>2
<1>6. PersistenceTypeOK'
  BY <1>1, <1>2, <1>3, <1>4, <1>5 DEF PersistenceTypeOK, Keyed, WriterPlaces, UiPlaces
<1>7. PhaseInv' /\ TargetInv'
  BY <1>2, <1>3, <1>4 DEF PhaseInv, TargetInv, Saving, Threads
<1>8. ImageInv' /\ SavedStays'
  BY <1>2, <1>3, <1>5 DEF ImageInv, SavedStays
<1>9. FlushedInv'
  BY <1>2 DEF FlushedInv
<1>10. NothingForgotten'
  BY <1>2, <1>5 DEF NothingForgotten, Paired
<1> QED BY <1>6, <1>7, <1>8, <1>9, <1>10 DEF PersistenceInv

LEMMA ChangeStep ==
    ASSUME PersistenceInv, NEW r \in Records, Change(r) \/ NotifyChanged(r)
    PROVE  PersistenceInv'
<1>1. /\ PersistenceTypeOK /\ PhaseInv /\ TargetInv /\ ImageInv /\ FlushedInv
      /\ SavedStays /\ NothingForgotten
  BY DEF PersistenceInv
<1>2. /\ UNCHANGED <<phase, group, path, disk, pc, target, loaded>>
      /\ UNCHANGED <<saver, image, saved, failed>>
  BY DEF Change, NotifyChanged, settings, saving
<1>3. /\ phase = "up" /\ ram \subseteq ram' /\ ram' \subseteq Records
      /\ unnotified' \subseteq ram' /\ dirty' \in BOOLEAN
      /\ dirty => dirty'
      /\ \A x \in ram' : (x \in ram /\ x \notin unnotified) \/ x \in unnotified' \/ dirty'
  <2>1. CASE Change(r)
    BY <1>1, <2>1 DEF Change, PersistenceTypeOK
  <2>2. CASE NotifyChanged(r)
    BY <1>1, <2>2 DEF NotifyChanged, PersistenceTypeOK, PhaseInv
  <2> QED BY <2>1, <2>2
<1>4. PersistenceTypeOK'
  BY <1>1, <1>2, <1>3 DEF PersistenceTypeOK
<1>5. PhaseInv'
  BY <1>1, <1>2, <1>3 DEF PhaseInv
<1>6. TargetInv'
  BY <1>1, <1>2, <1>3 DEF TargetInv, Saving, Paired
<1>7. ImageInv'
  <2>1. \A g \in Groups : saved[g] \subseteq ram'
    BY <1>1, <1>3 DEF ImageInv
  <2>2. ASSUME saver # "nobody"
        PROVE  /\ Saving(saver)' /\ image \subseteq ram'
               /\ \A g \in Groups : saved[g] \subseteq image
               /\ Paired' => \A x \in ram' \ image :
                     \/ x \in unnotified' \/ dirty'
                     \/ saver = "ui" /\ Saving("writer")' /\ target["writer"] = path
    BY <1>1, <1>2, <1>3, <2>2 DEF ImageInv, Saving, Paired
  <2>3. ~(saver = "writer" /\ pc["writer"] = "flushing")
    BY <1>1, <1>3 DEF PhaseInv
  <2> QED BY <1>2, <2>1, <2>2, <2>3 DEF ImageInv
<1>8. FlushedInv'
  BY <1>2, <1>3 DEF FlushedInv
<1>9. SavedStays'
  BY <1>1, <1>2 DEF SavedStays
<1>10. NothingForgotten'
  BY <1>1, <1>2, <1>3 DEF NothingForgotten, OnItsWay, Paired
<1> QED BY <1>4, <1>5, <1>6, <1>7, <1>8, <1>9, <1>10 DEF PersistenceInv

LEMMA StopStep ==
    ASSUME PersistenceInv, Stop \/ Join
    PROVE  PersistenceInv'
<1>1. /\ PersistenceTypeOK /\ PhaseInv /\ TargetInv /\ ImageInv /\ FlushedInv
      /\ SavedStays /\ NothingForgotten
  BY DEF PersistenceInv
<1>2. /\ UNCHANGED <<group, path, dirty, ram, unnotified, disk, pc, target, loaded>>
      /\ UNCHANGED <<saver, image, saved, failed>>
  BY DEF Stop, Join, settings, saving
<1>3. \/ phase = "up" /\ phase' = "stopping" /\ pc["ui"] = "idle" /\ unnotified = {}
      \/ phase = "stopping" /\ phase' = "stopped" /\ pc["writer"] = "off"
  BY DEF Stop, Join
<1>4. PersistenceTypeOK'
  BY <1>1, <1>2, <1>3 DEF PersistenceTypeOK
<1>5. PhaseInv'
  BY <1>1, <1>2, <1>3 DEF PhaseInv
<1>6. TargetInv' /\ SavedStays'
  BY <1>1, <1>2 DEF TargetInv, Saving, Paired, SavedStays
<1>7. ImageInv'
  BY <1>1, <1>2 DEF ImageInv, Saving, Paired
<1>8. FlushedInv'
  BY <1>1, <1>2, <1>3 DEF FlushedInv, Paired, PhaseInv
<1>9. NothingForgotten'
  BY <1>1, <1>2, <1>3 DEF NothingForgotten, OnItsWay, Paired
<1> QED BY <1>4, <1>5, <1>6, <1>7, <1>8, <1>9 DEF PersistenceInv

(* The snapshot is taken under the save mutex, so it has all there is.      *)
LEMMA SealStep ==
    ASSUME PersistenceInv, NEW t \in Threads, Seal(t)
    PROVE  PersistenceInv'
<1>1. /\ PersistenceTypeOK /\ PhaseInv /\ TargetInv /\ ImageInv /\ FlushedInv
      /\ SavedStays /\ NothingForgotten
  BY DEF PersistenceInv
<1>2. /\ UNCHANGED <<phase, group, path, dirty, ram, unnotified, disk, pc, target, loaded>>
      /\ UNCHANGED <<saved, failed>>
      /\ saver = "nobody" /\ saver' = t /\ image' = ram /\ Saving(t)
  BY DEF Seal, settings, Saving
<1>3. PersistenceTypeOK' /\ PhaseInv'
  BY <1>1, <1>2 DEF PersistenceTypeOK, PhaseInv
<1>4. TargetInv' /\ SavedStays' /\ FlushedInv'
  BY <1>1, <1>2 DEF TargetInv, Saving, Paired, SavedStays, FlushedInv
<1>5. ImageInv'
  BY <1>1, <1>2 DEF ImageInv, Saving, Paired
<1>6. NothingForgotten'
  BY <1>1, <1>2 DEF NothingForgotten, OnItsWay, Paired
<1> QED BY <1>3, <1>4, <1>5, <1>6 DEF PersistenceInv

LEMMA WriterStep ==
    ASSUME PersistenceAssumption, PersistenceInv, Wake \/ EndDebounce \/ Leave
    PROVE  PersistenceInv'
<1>1. /\ PersistenceTypeOK /\ PhaseInv /\ TargetInv /\ ImageInv /\ FlushedInv
      /\ SavedStays /\ NothingForgotten
  BY DEF PersistenceInv
<1>2. /\ UNCHANGED <<phase, group, path, ram, unnotified, disk, loaded>>
      /\ UNCHANGED <<saver, image, saved, failed>>
  BY DEF Wake, EndDebounce, Leave, writerRest, settings, saving
<1>3. pc["writer"] \in {"wait", "debounce"} /\ saver # "writer"
  BY <1>1 DEF Wake, EndDebounce, Leave, ImageInv, Saving
<1>4. PICK place \in WriterPlaces : pc' = [pc EXCEPT !["writer"] = place]
  BY DEF Wake, EndDebounce, Leave, GoTo, WriterPlaces
<1>5. /\ pc' \in [Threads -> WriterPlaces \cup UiPlaces]
      /\ pc'["writer"] = place /\ pc'["ui"] = pc["ui"]
  BY <1>1, <1>4 DEF PersistenceTypeOK, Threads
<1>6. \/ /\ place \in {"wait", "debounce"} /\ target' = target
         /\ dirty' = dirty \/ (path = Unpaired /\ dirty' = FALSE)
      \/ /\ place = "saving" /\ path # Unpaired /\ pc["writer"] = "debounce"
         /\ dirty' = FALSE /\ target' = [target EXCEPT !["writer"] = path]
      \/ /\ place = "flushing" /\ path # Unpaired /\ phase = "stopping"
         /\ dirty' = dirty /\ target' = [target EXCEPT !["writer"] = path]
      \/ /\ place = "off" /\ phase = "stopping" /\ target' = target /\ dirty' = dirty
         /\ pc["writer"] = "wait" /\ (dirty = FALSE \/ path = Unpaired)
  <2>1. dirty \in BOOLEAN /\ pc["writer"] \in WriterPlaces
    BY <1>1 DEF PersistenceTypeOK
  <2>2. CASE Wake
    <3>1. target' = target /\ dirty' = dirty
      BY <2>2 DEF Wake
    <3>2. place = "debounce"
      BY <1>1, <1>5, <2>2 DEF Wake, GoTo, PersistenceTypeOK, Threads
    <3> QED BY <3>1, <3>2
  <2>3. CASE EndDebounce
    BY <1>1, <1>4, <1>5, <2>3 DEF EndDebounce, GoTo, PersistenceTypeOK, Threads
  <2>4. CASE Leave
    BY <1>1, <1>4, <1>5, <2>1, <2>4 DEF Leave, GoTo, PersistenceTypeOK, Threads
  <2> QED BY <2>2, <2>3, <2>4
<1>7. /\ target' \in [Threads -> Keyed] /\ target'["ui"] = target["ui"]
      /\ place \in {"saving", "flushing"} => target'["writer"] = path /\ path # Unpaired
  BY <1>1, <1>6 DEF PersistenceTypeOK, Threads
<1>8. phase \in {"up", "stopping"}
  BY <1>1, <1>3 DEF PhaseInv, PersistenceTypeOK
<1>9. PersistenceTypeOK'
  BY <1>1, <1>2, <1>5, <1>6, <1>7 DEF PersistenceTypeOK
<1>10. PhaseInv'
  BY <1>1, <1>2, <1>3, <1>5, <1>6, <1>8 DEF PhaseInv
<1>11. TargetInv'
  BY <1>1, <1>2, <1>5, <1>6, <1>7 DEF TargetInv, Saving, Paired, Threads
<1>12. ImageInv'
  BY <1>1, <1>2, <1>3, <1>5, <1>6, <1>7
     DEF ImageInv, Saving, Paired, PersistenceTypeOK, Threads
<1>13. SavedStays'
  BY <1>1, <1>2 DEF SavedStays
<1>14. ASSUME Paired, ~failed, NEW r \in ram
       PROVE  r \in disk[path] \/ r \in unnotified \/ dirty' \/ OnItsWay(r)'
  <2>1. ~OnItsWay(r)
    BY <1>3 DEF OnItsWay
  <2>2. r \in disk[path] \/ r \in unnotified \/ dirty
    BY <1>1, <1>8, <1>14, <2>1 DEF NothingForgotten
  <2> QED BY <1>2, <1>3, <1>5, <1>6, <1>7, <1>14, <2>2 DEF OnItsWay, Paired
<1>15. NothingForgotten'
  BY <1>2, <1>14 DEF NothingForgotten, Paired
<1>16. FlushedInv'
  <2> SUFFICES ASSUME phase' \in {"stopping", "stopped"}, pc'["writer"] = "off",
                      Paired', ~failed'
               PROVE  ram' \subseteq disk'[path']
    BY DEF FlushedInv
  <2>1. Paired /\ ~failed /\ place = "off"
    BY <1>2, <1>5 DEF Paired
  <2>2. dirty' = FALSE /\ phase = "stopping"
    BY <1>6, <2>1 DEF Paired
  <2>3. unnotified = {}
    BY <1>1, <2>2 DEF PhaseInv
  <2>4. \A r \in ram : ~OnItsWay(r)'
    BY <1>5 DEF OnItsWay
  <2> QED BY <1>2, <1>14, <2>1, <2>2, <2>3, <2>4
<1> QED BY <1>9, <1>10, <1>11, <1>12, <1>13, <1>15, <1>16 DEF PersistenceInv

(* A save that ends: either thread's, done or failed, of the current file or
   of one that a key change has left behind.                                *)
LEMMA FinishSaveStep ==
    ASSUME PersistenceAssumption, PersistenceInv, NEW t \in Threads, FinishSave(t)
    PROVE  PersistenceInv'
<1>1. /\ PersistenceTypeOK /\ PhaseInv /\ TargetInv /\ ImageInv /\ FlushedInv
      /\ SavedStays /\ NothingForgotten
  BY DEF PersistenceInv
<1>2. /\ UNCHANGED <<phase, group, path, dirty, ram, unnotified, target, loaded>>
      /\ saver = t /\ saver' = "nobody" /\ image' = {}
      /\ pc' = [pc EXCEPT ![t] = AfterSave(t)]
  BY DEF FinishSave, settings, GoTo
<1>3. saver # "nobody" /\ target[t] \in Groups /\ Saving(t)
  BY <1>1, <1>2 DEF ImageInv, TargetInv, PersistenceTypeOK, Keyed, Threads
<1>4. /\ image \subseteq ram /\ image \subseteq Records
      /\ \A g \in Groups : saved[g] \subseteq image
      /\ Paired => \A r \in ram \ image :
            \/ r \in unnotified \/ dirty
            \/ saver = "ui" /\ Saving("writer") /\ target["writer"] = path
  BY <1>1, <1>3 DEF ImageInv, PersistenceTypeOK
<1>5. PICK place \in {"resolving", "wait", "off"} :
        /\ place = AfterSave(t)
        /\ t = "ui" <=> place = "resolving"
        /\ place = "wait" <=> t = "writer" /\ pc["writer"] = "saving"
        /\ place = "off" <=> t = "writer" /\ pc["writer"] = "flushing"
  BY <1>3 DEF AfterSave, Saving, Threads
<1>6. /\ pc' \in [Threads -> WriterPlaces \cup UiPlaces] /\ pc'[t] = place
      /\ \A s \in Threads : s # t => pc'[s] = pc[s]
      /\ pc'["writer"] \in WriterPlaces /\ pc'["ui"] \in UiPlaces
  BY <1>1, <1>2, <1>5 DEF PersistenceTypeOK, Threads, WriterPlaces, UiPlaces
<1>7. /\ disk' \in [Groups -> SUBSET Records] /\ saved' \in [Groups -> SUBSET Records]
      /\ failed' \in BOOLEAN
      /\ \A g \in Groups : saved'[g] \subseteq ram /\ saved'[g] \subseteq disk'[g]
      /\ failed' = TRUE \/ (failed' = FALSE /\ disk' = [disk EXCEPT ![target[t]] = image])
  <2>1. disk \in [Groups -> SUBSET Records] /\ saved \in [Groups -> SUBSET Records]
    BY <1>1 DEF PersistenceTypeOK
  <2>2. CASE /\ disk' = [disk EXCEPT ![target[t]] = image]
             /\ saved' = [saved EXCEPT ![target[t]] = saved[target[t]] \cup image]
             /\ failed' = FALSE
    <3>1. disk' \in [Groups -> SUBSET Records] /\ saved' \in [Groups -> SUBSET Records]
      BY <1>3, <1>4, <2>1, <2>2
    <3>2. ASSUME NEW g \in Groups
          PROVE  saved'[g] \subseteq ram /\ saved'[g] \subseteq disk'[g]
      <4>1. CASE g = target[t]
        BY <1>3, <1>4, <2>1, <2>2, <4>1
      <4>2. CASE g # target[t]
        BY <1>1, <1>3, <1>4, <2>1, <2>2, <4>2 DEF SavedStays
      <4> QED BY <4>1, <4>2
    <3> QED BY <2>2, <3>1, <3>2
  <2>3. CASE failed' = TRUE /\ UNCHANGED <<disk, saved>>
    BY <1>1, <1>4, <2>1, <2>3 DEF SavedStays
  <2> QED BY <2>2, <2>3 DEF FinishSave
<1>8. phase \in {"up", "stopping"}
  BY <1>1, <1>3 DEF PhaseInv, PersistenceTypeOK, Saving, Threads
<1>9. PersistenceTypeOK'
  BY <1>1, <1>2, <1>6, <1>7 DEF PersistenceTypeOK
<1>10. PhaseInv'
  <2>1. pc["writer"] = "flushing" => phase = "stopping"
    BY <1>1 DEF PhaseInv
  <2>2. CASE t = "writer"
    BY <1>1, <1>2, <1>5, <1>6, <1>8, <2>1, <2>2 DEF PhaseInv, Threads
  <2>3. CASE t = "ui"
    BY <1>1, <1>2, <1>3, <1>5, <1>6, <1>8, <2>3 DEF PhaseInv, Threads, Saving
  <2> QED BY <2>2, <2>3 DEF Threads
<1>11. TargetInv'
  BY <1>1, <1>2, <1>5, <1>6 DEF TargetInv, Saving, Paired, Threads
<1>12. ImageInv' /\ SavedStays'
  BY <1>2, <1>7 DEF ImageInv, SavedStays
<1>13. ASSUME Paired, failed' = FALSE, NEW r \in ram
       PROVE  r \in disk'[path] \/ r \in unnotified \/ dirty \/ OnItsWay(r)'
  <2>1. /\ disk' = [disk EXCEPT ![target[t]] = image]
        /\ disk \in [Groups -> SUBSET Records]
    BY <1>1, <1>7, <1>13 DEF PersistenceTypeOK
  <2>2. CASE t = "writer"
    BY <1>1, <1>2, <1>3, <1>4, <2>1, <2>2, <1>13 DEF TargetInv
  <2>3. CASE t = "ui"
    <3>1. target["ui"] = path
      BY <1>1, <1>3, <2>3 DEF TargetInv, Saving, PersistenceTypeOK, UiPlaces
    <3>2. r \in image => r \in disk'[path]
      BY <1>3, <2>1, <2>3, <3>1
    <3>3. Saving("writer") /\ target["writer"] = path => OnItsWay(r)'
      BY <1>2, <1>6, <2>3 DEF OnItsWay, Saving, Threads
    <3> QED BY <1>2, <1>4, <1>13, <3>2, <3>3
  <2> QED BY <2>2, <2>3 DEF Threads
<1>14. NothingForgotten'
  BY <1>2, <1>7, <1>13 DEF NothingForgotten, Paired
<1>15. FlushedInv'
  <2> SUFFICES ASSUME phase' \in {"stopping", "stopped"}, pc'["writer"] = "off",
                      Paired', ~failed'
               PROVE  ram' \subseteq disk'[path']
    BY DEF FlushedInv
  <2>1. phase = "stopping" /\ Paired /\ failed' = FALSE
    BY <1>2, <1>7, <1>8 DEF Paired
  <2>2. pc["ui"] = "idle"
    BY <1>1, <2>1 DEF PhaseInv
  <2>3. t = "writer" /\ pc["writer"] = "flushing"
    BY <1>3, <1>5, <1>6, <2>2 DEF Threads, Saving
  <2>4. ram \subseteq image /\ target["writer"] = path
    BY <1>1, <1>2, <2>3 DEF ImageInv, TargetInv
  <2>5. disk' = [disk EXCEPT ![target[t]] = image] /\ disk \in [Groups -> SUBSET Records]
    BY <1>1, <1>7, <2>1 DEF PersistenceTypeOK
  <2> QED BY <1>2, <1>3, <2>3, <2>4, <2>5
<1> QED BY <1>9, <1>10, <1>11, <1>12, <1>14, <1>15 DEF PersistenceInv

LEMMA ChangeKeyStep ==
    ASSUME PersistenceInv, NEW g \in Keyed, ChangeKey(g)
    PROVE  PersistenceInv'
<1>1. /\ PersistenceTypeOK /\ PhaseInv /\ TargetInv /\ ImageInv /\ FlushedInv
      /\ SavedStays /\ NothingForgotten
  BY DEF PersistenceInv
<1>2. /\ UNCHANGED <<phase, path, dirty, ram, unnotified, disk, loaded>>
      /\ UNCHANGED <<saver, image, saved, failed>>
      /\ phase = "up" /\ pc["ui"] = "idle" /\ group' = g
      /\ target' = [target EXCEPT !["ui"] = path]
      /\ pc' = [pc EXCEPT !["ui"] = IF path = Unpaired THEN "resolving" ELSE "flushing"]
  BY DEF ChangeKey, saving, GoTo
<1>3. /\ target' \in [Threads -> Keyed]
      /\ target'["ui"] = path /\ target'["writer"] = target["writer"]
  BY <1>1, <1>2 DEF PersistenceTypeOK, Threads
<1>4. /\ pc' \in [Threads -> WriterPlaces \cup UiPlaces] /\ pc'["writer"] = pc["writer"]
      /\ pc'["ui"] \in {"resolving", "flushing"} /\ (pc'["ui"] = "flushing" => path # Unpaired)
  BY <1>1, <1>2 DEF PersistenceTypeOK, Threads, UiPlaces
<1>5. saver # "ui"
  BY <1>1, <1>2 DEF ImageInv, Saving
<1>6. PersistenceTypeOK'
  BY <1>1, <1>2, <1>3, <1>4 DEF PersistenceTypeOK, UiPlaces
<1>7. PhaseInv'
  BY <1>1, <1>2, <1>4 DEF PhaseInv
<1>8. TargetInv'
  BY <1>1, <1>2, <1>3, <1>4 DEF TargetInv, Saving, Paired, Threads
<1>9. ImageInv'
  <2>1. saver # "nobody" => saver = "writer"
    BY <1>1, <1>5 DEF PersistenceTypeOK, Threads
  <2> QED BY <1>1, <1>2, <1>3, <1>4, <2>1 DEF ImageInv, Saving, Paired
<1>10. FlushedInv' /\ SavedStays'
  BY <1>1, <1>2 DEF FlushedInv, SavedStays
<1>11. NothingForgotten'
  BY <1>1, <1>2, <1>3, <1>4 DEF NothingForgotten, OnItsWay, Paired
<1> QED BY <1>6, <1>7, <1>8, <1>9, <1>10, <1>11 DEF PersistenceInv

(* What the three steps that follow the flush of a key change share.        *)
LEMMA UiMoves ==
    ASSUME PersistenceTypeOK, PhaseInv, ImageInv, NEW place \in {"idle", "loading", "merging"},
           pc["ui"] \in {"resolving", "loading", "merging"}, GoTo("ui", place)
    PROVE  /\ pc' \in [Threads -> WriterPlaces \cup UiPlaces]
           /\ pc'["writer"] = pc["writer"] /\ pc'["ui"] = place
           /\ phase = "up" /\ saver # "ui" /\ pc["writer"] # "flushing"
<1>1. /\ pc' \in [Threads -> WriterPlaces \cup UiPlaces]
      /\ pc'["writer"] = pc["writer"] /\ pc'["ui"] = place
  BY DEF GoTo, PersistenceTypeOK, Threads, UiPlaces
<1>2. phase = "up"
  BY DEF PhaseInv
<1>3. saver # "ui"
  BY DEF ImageInv, Saving
<1>4. pc["writer"] # "flushing"
  BY <1>2 DEF PhaseInv
<1> QED BY <1>1, <1>2, <1>3, <1>4

(* After the swap the new file is marked dirty: all of memory is to be
   written to it.                                                           *)
LEMMA SwapFileStep ==
    ASSUME PersistenceInv, SwapFile
    PROVE  PersistenceInv'
<1>1. /\ PersistenceTypeOK /\ PhaseInv /\ TargetInv /\ ImageInv /\ FlushedInv
      /\ SavedStays /\ NothingForgotten
  BY DEF PersistenceInv
<1>2. /\ UNCHANGED <<phase, group, ram, unnotified, disk, target, loaded>>
      /\ UNCHANGED <<saver, image, saved, failed>>
      /\ pc["ui"] = "resolving" /\ path' = group /\ dirty' = (group # Unpaired)
  BY DEF SwapFile, settings, saving
<1>3. PICK place \in {"loading", "idle"} :
        GoTo("ui", place) /\ (place = "loading" => group # Unpaired)
  BY DEF SwapFile
<1>4. /\ pc' \in [Threads -> WriterPlaces \cup UiPlaces]
      /\ pc'["writer"] = pc["writer"] /\ pc'["ui"] = place
      /\ phase = "up" /\ saver # "ui" /\ pc["writer"] # "flushing"
  BY <1>1, <1>2, <1>3, UiMoves
<1>5. dirty' \in BOOLEAN /\ (Paired' => dirty')
  BY <1>2 DEF Paired
<1>6. PersistenceTypeOK'
  BY <1>1, <1>2, <1>4, <1>5 DEF PersistenceTypeOK, UiPlaces
<1>7. PhaseInv'
  BY <1>1, <1>2, <1>3, <1>4 DEF PhaseInv
<1>8. TargetInv'
  BY <1>1, <1>2, <1>4, <1>5 DEF TargetInv, Saving, Threads
<1>9. ImageInv'
  <2>1. saver # "nobody" => saver = "writer"
    BY <1>1, <1>4 DEF PersistenceTypeOK, Threads
  <2> QED BY <1>1, <1>2, <1>4, <1>5, <2>1 DEF ImageInv, Saving
<1>10. FlushedInv' /\ SavedStays' /\ NothingForgotten'
  BY <1>1, <1>2, <1>4, <1>5 DEF FlushedInv, SavedStays, NothingForgotten
<1> QED BY <1>6, <1>7, <1>8, <1>9, <1>10 DEF PersistenceInv

LEMMA LoadSnapshotStep ==
    ASSUME PersistenceInv, LoadSnapshot
    PROVE  PersistenceInv'
<1>1. /\ PersistenceTypeOK /\ PhaseInv /\ TargetInv /\ ImageInv /\ FlushedInv
      /\ SavedStays /\ NothingForgotten
  BY DEF PersistenceInv
<1>2. /\ UNCHANGED <<phase, group, path, dirty, ram, unnotified, target, saver, image>>
      /\ pc["ui"] = "loading" /\ GoTo("ui", "merging")
  BY DEF LoadSnapshot, settings
<1>3. group \in Groups
  BY <1>1, <1>2 DEF PhaseInv, PersistenceTypeOK, Keyed
<1>4. PICK found \in SUBSET Records : ReadFile(group, found) /\ loaded' = found
  BY DEF LoadSnapshot
<1>5. /\ disk' \in [Groups -> SUBSET Records] /\ saved' \in [Groups -> SUBSET Records]
      /\ \A g \in Groups : saved'[g] \subseteq saved[g] /\ saved'[g] \subseteq disk'[g]
      /\ failed' = TRUE \/ (failed' = failed /\ disk' = disk)
  BY <1>1, <1>3, <1>4, FileRead
<1>6. /\ pc' \in [Threads -> WriterPlaces \cup UiPlaces]
      /\ pc'["writer"] = pc["writer"] /\ pc'["ui"] = "merging"
      /\ phase = "up" /\ saver # "ui" /\ pc["writer"] # "flushing"
  BY <1>1, <1>2, UiMoves
<1>7. PersistenceTypeOK'
  BY <1>1, <1>2, <1>4, <1>5, <1>6 DEF PersistenceTypeOK, UiPlaces
<1>8. PhaseInv'
  BY <1>1, <1>2, <1>6 DEF PhaseInv
<1>9. TargetInv'
  BY <1>1, <1>2, <1>6 DEF TargetInv, Saving, Paired, Threads
<1>10. ImageInv'
  <2>1. saver # "nobody" => saver = "writer"
    BY <1>1, <1>6 DEF PersistenceTypeOK, Threads
  <2>2. \A g \in Groups : saved'[g] \subseteq ram
    BY <1>1, <1>5 DEF ImageInv
  <2> QED BY <1>1, <1>2, <1>5, <1>6, <2>1, <2>2 DEF ImageInv, Saving, Paired
<1>11. FlushedInv' /\ SavedStays'
  BY <1>2, <1>5, <1>6 DEF FlushedInv, SavedStays
<1>12. NothingForgotten'
  BY <1>1, <1>2, <1>5, <1>6 DEF NothingForgotten, OnItsWay, Paired
<1> QED BY <1>7, <1>8, <1>9, <1>10, <1>11, <1>12 DEF PersistenceInv

LEMMA MergeLoadedStep ==
    ASSUME PersistenceInv, MergeLoaded
    PROVE  PersistenceInv'
<1>1. /\ PersistenceTypeOK /\ PhaseInv /\ TargetInv /\ ImageInv /\ FlushedInv
      /\ SavedStays /\ NothingForgotten
  BY DEF PersistenceInv
<1>2. /\ UNCHANGED <<phase, group, path, unnotified, disk, target>>
      /\ UNCHANGED <<saver, image, saved, failed>>
      /\ pc["ui"] = "merging" /\ GoTo("ui", "idle")
      /\ ram' = ram \cup loaded /\ loaded' = {}
      /\ dirty' = (dirty \/ ~(loaded \subseteq ram))
  BY DEF MergeLoaded, settings, saving
<1>3. /\ pc' \in [Threads -> WriterPlaces \cup UiPlaces]
      /\ pc'["writer"] = pc["writer"] /\ pc'["ui"] = "idle"
      /\ phase = "up" /\ saver # "ui" /\ pc["writer"] # "flushing"
  BY <1>1, <1>2, UiMoves
<1>4. /\ dirty' \in BOOLEAN /\ (dirty => dirty')
      /\ \A r \in ram' : r \in ram \/ dirty'
  BY <1>2
<1>5. ram \subseteq ram' /\ ram' \subseteq Records
  BY <1>1, <1>2 DEF PersistenceTypeOK
<1>6. PersistenceTypeOK'
  BY <1>1, <1>2, <1>3, <1>4, <1>5 DEF PersistenceTypeOK, UiPlaces
<1>7. PhaseInv'
  BY <1>1, <1>2, <1>3 DEF PhaseInv
<1>8. TargetInv'
  BY <1>1, <1>2, <1>3, <1>4 DEF TargetInv, Saving, Paired, Threads
<1>9. ImageInv'
  <2>1. saver # "nobody" => saver = "writer"
    BY <1>1, <1>3 DEF PersistenceTypeOK, Threads
  <2>2. \A g \in Groups : saved[g] \subseteq ram'
    BY <1>1, <1>5 DEF ImageInv
  <2>3. ASSUME saver # "nobody"
        PROVE  /\ Saving(saver)' /\ image \subseteq ram'
               /\ \A g \in Groups : saved[g] \subseteq image
               /\ Paired' => \A x \in ram' \ image : x \in unnotified \/ dirty'
    BY <1>1, <1>2, <1>3, <1>4, <1>5, <2>1, <2>3 DEF ImageInv, Saving, Paired
  <2> QED BY <1>2, <1>3, <2>2, <2>3 DEF ImageInv
<1>10. FlushedInv' /\ SavedStays'
  BY <1>1, <1>2, <1>3 DEF FlushedInv, SavedStays
<1>11. NothingForgotten'
  BY <1>1, <1>2, <1>3, <1>4 DEF NothingForgotten, OnItsWay, Paired
<1> QED BY <1>6, <1>7, <1>8, <1>9, <1>10, <1>11 DEF PersistenceInv

-----------------------------------------------------------------------------
(* The inductive invariant of the snapshot files holds throughout, for every
   number of records, key changes and faults.                               *)
THEOREM PersistenceInvariant == Spec => []PersistenceInv
<1>1. Init => PersistenceInv
  BY DownInv DEF Init, Down, Keyed
<1>2. PersistenceInv /\ [Next]_vars => PersistenceInv'
  <2> SUFFICES ASSUME PersistenceInv, [Next]_vars PROVE PersistenceInv'
    OBVIOUS
  <2> USE PersistenceAssumption
  <2>1. CASE Start
    BY <2>1, StartStep
  <2>2. CASE Stop \/ Join
    BY <2>2, StopStep
  <2>3. CASE Exit \/ Crash
    BY <2>3, EndStep
  <2>4. ASSUME NEW r \in Records, Change(r) \/ NotifyChanged(r) PROVE PersistenceInv'
    BY <2>4, ChangeStep
  <2>5. CASE Wake \/ EndDebounce \/ Leave
    BY <2>5, WriterStep
  <2>6. ASSUME NEW t \in Threads, Seal(t) PROVE PersistenceInv'
    BY <2>6, SealStep
  <2>7. ASSUME NEW t \in Threads, FinishSave(t) PROVE PersistenceInv'
    BY <2>7, FinishSaveStep
  <2>8. ASSUME NEW g \in Groups \cup {Unpaired}, ChangeKey(g) PROVE PersistenceInv'
    BY <2>8, ChangeKeyStep DEF Keyed
  <2>9. CASE SwapFile
    BY <2>9, SwapFileStep
  <2>10. CASE LoadSnapshot
    BY <2>10, LoadSnapshotStep
  <2>11. CASE MergeLoaded
    BY <2>11, MergeLoadedStep
  <2>12. CASE UNCHANGED vars
    <3>1. /\ UNCHANGED <<phase, group, path, dirty, ram, unnotified, disk, pc, target, loaded>>
          /\ UNCHANGED <<saver, image, saved, failed>>
      BY <2>12 DEF vars, settings, saving
    <3>2. PersistenceTypeOK' /\ PhaseInv' /\ TargetInv'
      BY <3>1 DEF PersistenceInv, PersistenceTypeOK, PhaseInv, TargetInv, Saving, Paired
    <3>3. ImageInv' /\ FlushedInv' /\ SavedStays'
      BY <3>1 DEF PersistenceInv, ImageInv, Saving, Paired, FlushedInv, SavedStays
    <3>4. NothingForgotten'
      BY <3>1 DEF PersistenceInv, NothingForgotten, OnItsWay, Paired
    <3> QED BY <3>2, <3>3, <3>4 DEF PersistenceInv
  <2> QED
    BY <2>1, <2>2, <2>3, <2>4, <2>5, <2>6, <2>7, <2>8, <2>9, <2>10, <2>11, <2>12 DEF Next
<1> QED BY <1>1, <1>2, PTL DEF Spec

(* A change to a paired device's store is in its file or is still to be
   written, whatever save, key change or stop it races with.                *)
THEOREM NoChangeForgotten == Spec => []NothingForgotten
<1>1. PersistenceInv => NothingForgotten
  BY DEF PersistenceInv
<1> QED BY <1>1, PersistenceInvariant, PTL

(* When StopRegisterPersistence returns the file has everything, unless a
   save failed.                                                             *)
THEOREM StopFlushes == Spec => []StopFlushesAll
<1>1. PersistenceInv => StopFlushesAll
  BY DEF PersistenceInv, PersistenceTypeOK, PhaseInv, FlushedInv, StopFlushesAll
<1> QED BY <1>1, PersistenceInvariant, PTL

(* No save of either thread takes away what an earlier one put in the file. *)
THEOREM SavedRecordsStay == Spec => []SavedStays
<1>1. PersistenceInv => SavedStays
  BY DEF PersistenceInv
<1> QED BY <1>1, PersistenceInvariant, PTL

=============================================================================
