--------------------------- MODULE ActivityStore ---------------------------
(***************************************************************************)
(* The clipboard's history of one host and the page that shows it          *)
(* (ClipboardActivityStore.cpp, platform/win32/ClippPage.cpp).  Every      *)
(* operation changes the list under the store's mutex and tells its        *)
(* watchers after the unlock, one update at a time, on the thread that     *)
(* called it; the page's watcher only queues the update for the user       *)
(* interface's thread, which reads the store again when it handles it.     *)
(***************************************************************************)
EXTENDS ActivityItems

CONSTANTS
    Threads,     \* the threads that use the store, "ui" among them
    Events,      \* the guids of the events
    Stamps,      \* the times of events, as their origins' clocks have them
    Bytes,       \* Bytes[g]: the size of event g
    Limits,      \* what the settings allow: maxItems, maxBytes, aged
    MaxAge,      \* maxAgeSeconds, when limits.aged
    MaxNow, MaxItemID,
    MaxTasks     \* bound on the tasks queued when another operation starts

ASSUME ActivityAssumption ==
    /\ "ui" \in Threads /\ NoGuid \in Events /\ Stamps \subseteq Nat
    /\ Bytes \in [Events -> Nat] /\ MaxAge \in Nat /\ MaxNow \in Nat /\ MaxItemID \in Nat /\ MaxTasks \in Nat
    /\ \A l \in Limits : l.maxItems \in Nat /\ l.maxBytes \in Nat /\ l.aged \in BOOLEAN

VARIABLES
    items,       \* items_
    nextItemID,  \* nextItemID_
    limits,      \* limits_
    now,         \* the wall clock of this host
    watching,    \* the page is among watchers_
    posting,     \* posting[t]: the updates thread t has yet to tell the page
    dispatched,  \* the tasks queued for the user interface's thread
    rows         \* activityItemIDs_: the ids the page shows, from the top

storeVars == <<items, nextItemID, limits>>
pageVars  == <<watching, dispatched, rows>>
vars      == <<storeVars, now, posting, pageVars>>

Init ==
    /\ items = <<>> /\ nextItemID = 1 /\ limits \in Limits /\ now = 0
    /\ watching = FALSE /\ posting = [t \in Threads |-> <<>>]
    /\ dispatched = <<>> /\ rows = <<>>

Ids(list) == {list[i].id : i \in DOMAIN list}
Update(type, id) == [type |-> type, id |-> id]

(* A thread that still has updates to tell is inside its last operation.    *)
Free(t) == posting[t] = <<>>
CanStart(t) == Free(t) /\ Len(dispatched) < MaxTasks

Cutoff == IF now < MaxAge THEN 0 ELSE now - MaxAge
Limited(list) == ApplyLimits(list, limits, Cutoff)

(* The updates of an operation that leaves list: its own, then one for every
   item the limits removed.  The watchers are those of the moment.          *)
Tell(t, own, list) ==
    LET removed == Keep(list, {i \in DOMAIN list : list[i].id \notin Ids(items')})
    IN  posting' = [posting EXCEPT ![t] =
            IF watching THEN own \o [n \in DOMAIN removed |-> Update("removed", removed[n].id)]
            ELSE <<>>]

(***************************************************************************)
(* The store.                                                              *)
(***************************************************************************)
Add(t, guid, stamp) ==
    /\ CanStart(t) /\ nextItemID <= MaxItemID
    /\ LET known == guid \in Guids(items)
           item  == [id |-> nextItemID, guid |-> guid, stamp |-> stamp, learned |-> now,
                     bytes |-> Bytes[guid]]
           list  == AddItem(items, item)
       IN  IF list = items THEN UNCHANGED <<items, nextItemID, posting>>
           ELSE /\ items' = Limited(list)
                /\ nextItemID' = IF known THEN nextItemID ELSE nextItemID + 1
                /\ IF known THEN Tell(t, <<Update("moved", items[PlaceOf(items, guid)].id)>>, list)
                   ELSE Tell(t, <<Update("added", nextItemID)>>, list)
    /\ UNCHANGED <<limits, now, pageVars>>

RemoveGuid(t, guid) ==
    /\ CanStart(t) /\ guid \in Guids(items)
    /\ items' = RemoveByEventGuid(items, guid)
    /\ Tell(t, <<>>, items)
    /\ UNCHANGED <<nextItemID, limits, now, pageVars>>

RemoveItem(id) ==
    /\ CanStart("ui") /\ id \in Ids(items)
    /\ \E i \in DOMAIN items : items[i].id = id /\ items' = RemoveAt(items, i)
    /\ Tell("ui", <<>>, items)
    /\ UNCHANGED <<nextItemID, limits, now, pageVars>>

SetLimits(new) ==
    /\ CanStart("ui") /\ limits' = new /\ new # limits
    /\ items' = ApplyLimits(items, new, Cutoff)
    /\ Tell("ui", <<>>, items)
    /\ UNCHANGED <<nextItemID, now, pageVars>>

(* Snapshot applies the limits too: a list nobody adds to still ages.       *)
Snapshot ==
    /\ CanStart("ui") /\ items # Limited(items)
    /\ items' = Limited(items)
    /\ Tell("ui", <<>>, items)
    /\ UNCHANGED <<nextItemID, limits, now, pageVars>>

(* NotifyWatchers: the watcher puts the next update in the queue.           *)
Notify(t) ==
    /\ posting[t] # <<>>
    /\ dispatched' = Append(dispatched, Head(posting[t]))
    /\ posting' = [posting EXCEPT ![t] = Tail(@)]
    /\ UNCHANGED <<storeVars, now, watching, rows>>

(***************************************************************************)
(* The page.                                                               *)
(***************************************************************************)
RefreshActivityItems(list) == rows' = Reverse([i \in DOMAIN list |-> list[i].id])

(* OnShown: QueryAndRegister takes the list and the place among the watchers
   in one step; one more refresh is queued behind it.                       *)
OnShown ==
    /\ CanStart("ui") /\ ~watching /\ watching' = TRUE
    /\ items' = Limited(items)
    /\ RefreshActivityItems(items')
    /\ dispatched' = Append(dispatched, Update("refresh", 0))
    /\ UNCHANGED <<nextItemID, limits, now, posting>>

(* Unregister: updates that are on their way still reach the page.          *)
OnHidden ==
    /\ CanStart("ui") /\ watching /\ watching' = FALSE
    /\ UNCHANGED <<storeVars, now, posting, dispatched, rows>>

Without(id) ==
    IF id \in ToSet(rows) THEN RemoveAt(rows, CHOOSE n \in DOMAIN rows : rows[n] = id) ELSE rows

(* Mutant of AddActivityItem: the update is believed.                      *)
AddRowUnchecked(id) == rows' = IF id \in ToSet(rows) THEN rows ELSE <<id>> \o rows

(* AddActivityItem: on top, whatever its stamp, if the store still has it.  *)
AddActivityItem(id) ==
    rows' = IF id \in ToSet(rows) \/ id \notin Ids(items) THEN rows ELSE <<id>> \o rows

RemoveActivityItem(id) == rows' = Without(id)

(* MoveActivityItem: above the first row that is no newer in the store.     *)
MoveActivityItem(id) ==
    IF id \notin Ids(items) THEN RemoveActivityItem(id)
    ELSE LET stampOf(r) == (CHOOSE i \in ToSet(items) : i.id = r).stamp
             others == Without(id)
             older  == {n \in DOMAIN others :
                          others[n] \in Ids(items) /\ stampOf(others[n]) <= stampOf(id)}
             place  == IF older = {} THEN Len(others) + 1
                       ELSE CHOOSE n \in older : \A m \in older : n <= m
         IN  rows' = InsertAt(others, place, id)

(* The watcher's task, run by the user interface's thread between two of its
   other operations.  A refresh takes a snapshot, which applies the limits. *)
Dispatch ==
    /\ Free("ui") /\ dispatched # <<>>
    /\ LET task == Head(dispatched)
       IN  \/ task.type = "added"   /\ AddActivityItem(task.id) /\ UNCHANGED <<storeVars, posting>>
           \/ task.type = "removed" /\ RemoveActivityItem(task.id) /\ UNCHANGED <<storeVars, posting>>
           \/ task.type = "moved"   /\ MoveActivityItem(task.id) /\ UNCHANGED <<storeVars, posting>>
           \/ /\ task.type = "refresh" /\ UNCHANGED <<nextItemID, limits>>
              /\ items' = Limited(items) /\ Tell("ui", <<>>, items)
              /\ RefreshActivityItems(items')
    /\ dispatched' = Tail(dispatched)
    /\ UNCHANGED <<now, watching>>

Tick == now < MaxNow /\ now' = now + 1 /\ UNCHANGED <<storeVars, posting, pageVars>>

Next ==
    \/ \E t \in Threads, guid \in Events, stamp \in Stamps : Add(t, guid, stamp)
    \/ \E t \in Threads, guid \in Events : RemoveGuid(t, guid)
    \/ \E id \in 1..MaxItemID : RemoveItem(id)
    \/ \E new \in Limits : SetLimits(new)
    \/ Snapshot \/ OnShown \/ OnHidden \/ Dispatch \/ Tick
    \/ \E t \in Threads : Notify(t)

Spec == Init /\ [][Next]_vars

-----------------------------------------------------------------------------
(* The list is in the order of the stamps and holds an event once, under an id
   that was given; no more items than the limits allow (AddItem's insertion and
   ApplyLimitsLocked, through relocations and a change of the settings).     *)
TypeOK ==
    /\ nextItemID \in 1..(MaxItemID + 1) /\ limits \in Limits /\ now \in 0..MaxNow
    /\ watching \in BOOLEAN /\ ToSet(rows) \subseteq 1..MaxItemID
    /\ \A i \in DOMAIN items : items[i].id < nextItemID /\ items[i].learned <= now
    /\ \A i, j \in DOMAIN items : i < j =>
         /\ items[i].stamp <= items[j].stamp /\ items[i].id # items[j].id
         /\ items[i].guid # items[j].guid \/ items[i].guid = NoGuid
    /\ limits.maxItems # 0 => Len(items) <= limits.maxItems

(* When every update has been told and handled, a page on the screen shows the
   items of the store, each once: updates told out of order, by threads that
   overtook each other after the unlock, do not bring back a row that was
   deleted nor lose one (NotifyWatchers outside the mutex; AddActivityItem,
   RemoveActivityItem and MoveActivityItem of ClippPage.cpp).                *)
PageShowsStore ==
    watching /\ dispatched = <<>> /\ (\A t \in Threads : Free(t)) =>
        /\ ToSet(rows) = Ids(items)
        /\ Len(rows) = Len(items)

(* The list implements the history: an item leaves it only because it was
   deleted, is too old, or newer ones fill the limits, and an event told again
   only gets newer, under the id it had (ClipboardActivityStore.cpp).        *)
Fact(item) == [guid |-> item.guid, stamp |-> item.stamp, learned |-> item.learned,
               bytes |-> item.bytes]

History == INSTANCE ActivityHistory WITH
    held   <- {[id |-> i.id, fact |-> Fact(i)] : i \in ToSet(items)},
    given  <- nextItemID - 1,
    limit  <- limits,
    Facts  <- [guid : Events, stamp : Stamps, learned : 0..MaxNow, bytes : {Bytes[g] : g \in Events}]

ImplementsHistory == History!Spec

=============================================================================
