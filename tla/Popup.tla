------------------------------- MODULE Popup -------------------------------
(***************************************************************************)
(* The visual-paste popup of Windows (PopupWindow.cpp): a window that never*)
(* takes the foreground lists registers and clipboard history, and pastes  *)
(* or types what is chosen into the window that has the foreground.  One   *)
(* thread runs the window, its timers and the tasks that the watcher of    *)
(* the history queues; the stores change under it, and the user goes to    *)
(* other windows whenever he likes.                                        *)
(*                                                                         *)
(* The record store is what the actions of the user interface work on      *)
(* (ClipboardActions.cpp): the history, newest first, the registers, the   *)
(* clipboard and the undo slot.  The record win is the window.             *)
(***************************************************************************)
EXTENDS PopupModel

CONSTANTS
    Name,          \* the names of registers, 1 .. n in their order
    Value,         \* what clips and registers hold
    Long,          \* values with an Enter, or that take ten seconds to type
    NoValue, NoName,
    Saved,         \* what the registers and the clipboard may hold at the start
    Window,        \* the windows of other programs
    Own, NoWindow, \* a window of the popup's own thread; none
    PasteRetries,  \* pasteRetriesLeft_ at the start: 24
    MaxItems, MaxTasks, MaxInputs, MaxElsewhere

ASSUME PopupAssumption ==
    /\ Long \subseteq Value /\ NoValue \notin Value /\ NoName \notin Name
    /\ Saved \subseteq [regs : [Name -> Value \cup {NoValue}], clip : Value]
    /\ Own \notin Window /\ NoWindow \notin Window /\ Own # NoWindow
    /\ PasteRetries \in Nat /\ MaxItems \in Nat /\ MaxTasks \in Nat
    /\ MaxInputs \in Nat /\ MaxElsewhere \in Nat

VARIABLES
    store,    \* history, regs, clip, undo, and the number of the next item
    win,      \* the window
    tasks,    \* what the watcher has queued on the thread of the window
    posted,   \* whether a dismissal by the hooks is posted
    desk,     \* the window that has the foreground, and the windows that exist
    paste,    \* the injection that waits for its target
    inputs,   \* how many keys and clicks there were
    elsewhere,\* how many changes came from outside the window
    asked,    \* history variable: what the user asked to have sent
    sent,     \* history variable: what was sent for it
    quoted    \* history variable: the item of the last confirmation on show

vars == <<store, win, tasks, posted, desk, paste, inputs, elsewhere, asked, sent, quoted>>
counts == <<inputs, elsewhere>>

NoPaste  == [target |-> NoWindow]
NoAsk    == [kind |-> "none"]
NoQuote  == [item |-> NoItem]
NoUndo   == [kind |-> "none"]

Register(name)  == <<"R", name>>
Activity(id)    == <<"H", id>>
IsActivity(item) == item # NoItem /\ item[1] = "H"
IsRegister(item) == item # NoItem /\ item[1] = "R"

----------------------------------------------------------------------------
(* The stores.                                                              *)

Live(st)     == {n \in Name : st.regs[n] # NoValue}
InHistory(st, id) == \E i \in DOMAIN st.history : st.history[i].id = id
Clip(st, id) == st.history[CHOOSE i \in DOMAIN st.history : st.history[i].id = id]

(* TryGetActivityItemText, TryGetRegisterText.                              *)
TextOf(st, item) ==
    CASE item = NoItem    -> NoValue
      [] IsRegister(item) -> st.regs[item[2]]
      [] IsActivity(item) -> IF InHistory(st, item[2]) THEN Clip(st, item[2]).value
                             ELSE NoValue

Without(st, id)  == SelectSeq(st.history, LAMBDA clip : clip.id # id)
NewClip(st, v)   == [st EXCEPT !.history = <<[id |-> st.next, value |-> v]>> \o @,
                               !.next = @ + 1]
ToFront(st, id)  == [st EXCEPT !.history = <<Clip(st, id)>> \o Without(st, id)]
Forget(st, id)   == [st EXCEPT !.history = Without(st, id)]
Put(st, n, v)    == [st EXCEPT !.regs[n] = v]

(* RenameRegister: without effect when the register is gone.                *)
RenameRegister(st, old, new) ==
    IF new = old \/ st.regs[old] = NoValue THEN st
    ELSE [Put(Put(st, new, st.regs[old]), old, NoValue) EXCEPT !.undo = NoUndo]

----------------------------------------------------------------------------
(* The window.                                                              *)

Watching  == win.phase = "shown"
Editing(w) == w.editing # NoName

RegisterItems(st) ==
    LET names == SetToSortSeq(Live(st), LAMBDA a, b : a < b)
    IN  [i \in DOMAIN names |-> Register(names[i])]
HistoryItems(st) == [i \in DOMAIN st.history |-> Activity(st.history[i].id)]

(* The cache of the rows has the registers of the last rebuild.             *)
Listed(w) == {w.m.registers[i][2] : i \in DOMAIN w.m.registers}

RebuildFromStores(w, st) ==
    [w EXCEPT !.m = SetItems(@, RegisterItems(st), HistoryItems(st)), !.missed = FALSE]

RefreshAfterRegisterOp(w, st, name) ==
    LET fresh == RebuildFromStores(w, st)
    IN  [fresh EXCEPT !.m = SelectRowOf(@, "registers", Register(name))]

EndEditMode(w) == [w EXCEPT !.editing = NoName, !.m = LeaveEditMode(@)]

(* The editor is there while the row of the register is.                    *)
HasEditor(w) == Editing(w) /\ Contains(Visible(w.m, "registers"), Register(w.editing))

(* NameEditorTarget: NoName stands for every text that is no valid name.    *)
NameEditorTarget(w, text) ==
    HasEditor(w) /\ text # NoName /\ (text = w.editing \/ text \notin Listed(w))

(* CommitRename of a text that passed.                                      *)
Renamed(w, st, text, select) ==
    LET st1 == RenameRegister(st, w.editing, text)
    IN  [win |-> RefreshAfterRegisterOp(EndEditMode(w), st1, select), store |-> st1]

(* Mutant of CancelRename: the list stays as it was when the rename began.  *)
CancelRenameUnrefreshed(w, st) == EndEditMode(w)

CancelRename(w, st) == RefreshAfterRegisterOp(EndEditMode(w), st, NoName)

(* CommitOrCancelRename, with which every action of the toolbar begins.     *)
Settled(w, st, text) ==
    CASE ~Editing(w) -> [win |-> w, store |-> st]
      [] Editing(w) /\ NameEditorTarget(w, text) -> Renamed(w, st, text, NoName)
      [] OTHER -> [win |-> CancelRename(w, st), store |-> st]

(* What the editor may hold when an action finds it.                        *)
EditorTexts == IF HasEditor(win) THEN Name \cup {NoName} ELSE {NoName}

(* Mutant of Hidden: the confirmation outlives the popup.                   *)
HiddenStillArmed(w) ==
    [(IF Editing(w) THEN EndEditMode(w) ELSE w)
        EXCEPT !.phase = "hidden", !.prev = NoWindow]

(* Dismiss: a rename in flight is dropped, a confirmation too.              *)
Hidden(w) ==
    [(IF Editing(w) THEN EndEditMode(w) ELSE w)
        EXCEPT !.phase = "hidden", !.prev = NoWindow, !.armed = NoItem]

(* Dismiss gives the foreground back if a window of its own holds it, and
   the system may refuse.                                                   *)
ForegroundAfterDismiss(w) ==
    IF desk.foreground = Own /\ w.prev \in desk.open THEN {Own, w.prev}
    ELSE {desk.foreground}

Dismiss(w) ==
    /\ win' = Hidden(w)
    /\ \E front \in ForegroundAfterDismiss(w) : desk' = [desk EXCEPT !.foreground = front]
    /\ quoted' = NoQuote

(* The watcher's call, made by whoever changed the history.                 *)
Notify(type, id) ==
    IF Watching THEN Len(tasks) < MaxTasks /\ tasks' = Append(tasks, <<type, id>>)
    ELSE tasks' = tasks

(* quoted is out of date once its register is written.                      *)
Requoted(st) ==
    IF quoted # NoQuote /\ TextOf(st, quoted.item) # quoted.value
    THEN [quoted EXCEPT !.current = FALSE] ELSE quoted

----------------------------------------------------------------------------
Init ==
    /\ \E s \in Saved :
          store = [history |-> <<[id |-> 1, value |-> s.clip]>>, clip |-> s.clip,
                   regs |-> s.regs, undo |-> NoUndo, next |-> 2]
    /\ win = [phase |-> "hidden", m |-> NewModel, box |-> "", changed |-> FALSE,
              editing |-> NoName, armed |-> NoItem, prev |-> NoWindow, missed |-> FALSE]
    /\ tasks = <<>> /\ posted = FALSE
    /\ \E w \in Window : desk = [foreground |-> w, open |-> Window]
    /\ paste = NoPaste /\ inputs = 0 /\ elsewhere = 0
    /\ asked = NoAsk /\ sent = NoAsk /\ quoted = NoQuote

CancelPasteInjection == paste' = NoPaste

(* Summon up to ArmPopupInputHooks.  Clearing the filter box raises
   TextChanged later, and only if there was a text.                         *)
Summon ==
    /\ win.phase = "hidden"
    /\ win' = [RebuildFromStores(win, store)
                 EXCEPT !.phase = "opening", !.box = "",
                        !.changed = @ \/ win.box # "",
                        !.prev = IF desk.foreground = Own THEN NoWindow
                                 ELSE desk.foreground]
    /\ CancelPasteInjection
    /\ asked' = NoAsk /\ sent' = NoAsk
    /\ UNCHANGED <<store, tasks, posted, desk, counts, quoted>>

(* BeginActivityNotifications, the last of Summon: what it is told of the
   history is not used.                                                     *)
BeginActivityNotifications ==
    /\ win.phase = "opening"
    /\ win' = [win EXCEPT !.phase = "shown"]
    /\ UNCHANGED <<store, tasks, posted, desk, paste, counts, asked, sent, quoted>>

(* Toggle, the close button, WM_CLOSE.                                      *)
Closes ==
    /\ Watching
    /\ Dismiss(win)
    /\ UNCHANGED <<store, tasks, posted, paste, asked, sent>>

Close == Closes /\ UNCHANGED counts

(* kHookDismissMessage, which a hidden window ignores.                      *)
DismissPosted ==
    /\ posted /\ win.phase # "opening"
    /\ posted' = FALSE
    /\ IF Watching THEN Dismiss(win) ELSE UNCHANGED <<win, desk, quoted>>
    /\ UNCHANGED <<store, tasks, paste, counts, asked, sent>>

(* TextChanged of the filter box.                                           *)
TextChanged ==
    /\ win.changed /\ win.phase # "opening"
    /\ win' = [win EXCEPT !.m = SetFilter(@, win.box), !.changed = FALSE]
    /\ UNCHANGED <<store, tasks, posted, desk, paste, counts, asked, sent, quoted>>

(* A task of ActivityWatcher: nothing happens to a popup that is hidden, nor
   during a rename.  What was added or moved is highlighted, unless the user
   searches.                                                                *)
WatcherTask ==
    /\ tasks # <<>> /\ win.phase # "opening"
    /\ tasks' = Tail(tasks)
    /\ LET type == Head(tasks)[1]
           id   == Head(tasks)[2]
           w    == RebuildFromStores(win, store)
       IN  win' = CASE ~Watching \/ Editing(win) -> win
                    [] Watching /\ ~Editing(win) /\ type # "removed" /\ w.m.filter = "" ->
                         [w EXCEPT !.m = SelectRowOf(@, "history", Activity(id))]
                    [] OTHER -> w
    /\ UNCHANGED <<store, posted, desk, paste, counts, asked, sent, quoted>>

----------------------------------------------------------------------------
(* Keys and clicks that change the window only.                             *)

InWindow(w) ==
    /\ Watching /\ win' = w
    /\ UNCHANGED <<store, tasks, posted, desk, paste, asked, sent, quoted>>

(* The arrows; left and right only while the box is empty.                  *)
MoveHighlight ==
    \/ InWindow([win EXCEPT !.m = MoveUp(@)])
    \/ InWindow([win EXCEPT !.m = MoveDown(@)])
    \/ win.box = "" /\ \E group \in Group : InWindow([win EXCEPT !.m = MoveTo(@, group)])

PointerPressed ==
    \E group \in Group : \E i \in 1 .. Rows(win.m, group) :
        InWindow([win EXCEPT !.m = SelectAt(@, group, i)])

EditFilter ==
    \E text \in {"", "text"} \ {win.box} :
        InWindow([win EXCEPT !.box = text, !.changed = TRUE])

(* Escape in the filter box.  Leaving the mode of the model leaves the
   rename of the window as it is.                                           *)
Escape ==
    \/ EscapeResult(win.m) = "close" /\ Closes
    \/ /\ EscapeResult(win.m) = "left edit mode"
       /\ InWindow([win EXCEPT !.m = HandleEscape(@)])
    \/ /\ EscapeResult(win.m) = "cleared filter"
       /\ InWindow([win EXCEPT !.m = HandleEscape(@), !.box = "",
                               !.changed = @ \/ win.box # ""])

BeginRenameSelected ==
    /\ ~Editing(win) /\ IsRegister(SelectedItem(win.m))
    /\ InWindow([win EXCEPT !.editing = SelectedItem(win.m)[2], !.m = EnterEditMode(@)])

----------------------------------------------------------------------------
(* Actions on the stores, all on the thread of the window.                  *)

Acts(s) ==
    /\ win' = s.win /\ store' = s.store /\ quoted' = Requoted(s.store)
    /\ UNCHANGED <<posted, desk, paste, asked, sent>>

(* The editor: Enter, Escape, and a click elsewhere.                        *)
NameEditorKey ==
    /\ Watching /\ HasEditor(win)
    /\ \/ \E text \in EditorTexts :
             NameEditorTarget(win, text) /\ Acts(Renamed(win, store, text, text))
       \/ Acts([win |-> CancelRename(win, store), store |-> store])
    /\ UNCHANGED tasks

ClickAway ==
    /\ Watching /\ Editing(win)
    /\ \E text \in EditorTexts : Acts(Settled(win, store, text))
    /\ UNCHANGED tasks

(* What deleting an item does to the stores, and the window shows at once:
   of an item of the history the watcher tells.                             *)
Deleted(s, item) ==
    LET v    == TextOf(s.store, item)
        gone == IF IsActivity(item) THEN Forget(s.store, item[2])
                ELSE Put(s.store, item[2], NoValue)
        kept == IF IsActivity(item) THEN [kind |-> "activity", value |-> v]
                ELSE [kind |-> "register", name |-> item[2], value |-> v]
        st   == IF v = NoValue THEN s.store ELSE [gone EXCEPT !.undo = kept]
    IN  [store |-> st,
         win   |-> IF IsActivity(item) THEN s.win
                   ELSE RefreshAfterRegisterOp(s.win, st, NoName)]

DeleteSelected ==
    /\ Watching
    /\ \E text \in EditorTexts :
          LET s    == Settled(win, store, text)
              item == SelectedItem(s.win.m)
          IN  /\ Acts(IF item = NoItem THEN s ELSE Deleted(s, item))
              /\ IF IsActivity(item) /\ InHistory(s.store, item[2])
                 THEN Notify("removed", item[2]) ELSE UNCHANGED tasks

(* SaveSelected: a new register, in the middle of its naming.               *)
SaveSelected ==
    /\ Watching
    /\ \E text \in EditorTexts :
          LET s    == Settled(win, store, text)
              item == SelectedItem(s.win.m)
              name == NextAutoRegisterName(Live(s.store))
              st   == [Put(s.store, name, TextOf(s.store, item)) EXCEPT !.undo = NoUndo]
              w    == [s.win EXCEPT !.changed = @ \/ s.win.box # "", !.box = "",
                                    !.editing = name, !.m = EnterEditMode(@)]
          IN  IF IsActivity(item) /\ InHistory(s.store, item[2])
              THEN name \in Name
                   /\ Acts([win |-> RefreshAfterRegisterOp(w, st, name), store |-> st])
              ELSE Acts(s)
    /\ UNCHANGED tasks

(* UndoLastDelete: an item of the history comes back as a new one at its
   place in time, which is any place here.                                  *)
UndoLastDelete ==
    /\ Watching
    /\ \E text \in EditorTexts :
          LET s    == Settled(win, store, text)
              undo == s.store.undo
              st   == [s.store EXCEPT !.undo = NoUndo]
              put  == Put(st, undo.name, undo.value)
              id   == st.next
              back == [id |-> id, value |-> undo.value]
              In(at) == [st EXCEPT !.history = InsertAt(@, at, back), !.next = @ + 1]
              Shown(at) == RebuildFromStores(s.win, In(at))
          IN  \/ undo = NoUndo /\ Acts(s) /\ UNCHANGED tasks
              \/ /\ undo.kind = "register" /\ UNCHANGED tasks
                 /\ Acts([win |-> RefreshAfterRegisterOp(s.win, put, undo.name), store |-> put])
              \/ /\ undo.kind = "activity" /\ id <= MaxItems
                 /\ \E at \in 1 .. Len(st.history) + 1 :
                       Acts([store |-> In(at),
                             win |-> [Shown(at) EXCEPT !.m = SelectRowOf(@, "history", Activity(id))]])
                 /\ Notify("added", id)

ToggleSelectedRegisterPrivate ==
    /\ Watching
    /\ \E text \in EditorTexts :
          LET s    == Settled(win, store, text)
              item == SelectedItem(s.win.m)
              st   == [s.store EXCEPT !.undo = NoUndo]
          IN  IF IsRegister(item) /\ TextOf(s.store, item) # NoValue
              THEN Acts([win |-> RefreshAfterRegisterOp(s.win, st, item[2]), store |-> st])
              ELSE Acts(s)
    /\ UNCHANGED tasks

(* BeginPasteInjection, if the target still exists.                         *)
BeginPasteInjection(target, what, ask) ==
    IF target \in desk.open
    THEN /\ paste' = [target |-> target, left |-> PasteRetries, streak |-> 0, what |-> what]
         /\ asked' = ask /\ sent' = NoAsk
    ELSE UNCHANGED <<paste, asked, sent>>

(* What the user sees highlighted when he asks to have it sent.             *)
Ask(kind, target) ==
    [kind |-> kind, target |-> target, value |-> TextOf(store, SelectedItem(win.m)),
     renaming |-> Editing(win), overtaken |-> FALSE, quoted |-> quoted]

(* ReshareActivityItem and MakeRegisterCurrent: the item is the newest and
   on the clipboard, unless that cannot be opened.                          *)
MadeCurrent(st, item, written) ==
    LET v     == TextOf(st, item)
        moved == IF IsActivity(item) THEN ToFront(st, item[2]) ELSE NewClip(st, v)
    IN  [moved EXCEPT !.undo = NoUndo, !.clip = IF written THEN v ELSE @]

(* ActivateSelected; with Shift held there is no keystroke.                 *)
ActivateSelected ==
    /\ Watching
    /\ \E text \in EditorTexts, shift, written \in BOOLEAN :
          LET s       == Settled(win, store, text)
              item    == SelectedItem(s.win.m)
              applied == TextOf(s.store, item) # NoValue
              ask     == [Ask("paste", s.win.prev) EXCEPT !.overtaken = ~written]
          IN  IF item = NoItem THEN Acts(s) /\ UNCHANGED tasks
              ELSE /\ applied /\ IsRegister(item) => store.next <= MaxItems
                   /\ store' = IF applied THEN MadeCurrent(s.store, item, written) ELSE s.store
                   /\ CASE applied /\ IsActivity(item) -> Notify("moved", item[2])
                        [] applied /\ IsRegister(item) -> Notify("added", s.store.next)
                        [] OTHER -> UNCHANGED tasks
                   /\ Dismiss(s.win)
                   /\ IF applied /\ ~shift
                      THEN BeginPasteInjection(s.win.prev, [kind |-> "paste"], ask)
                      ELSE UNCHANGED <<paste, asked, sent>>
                   /\ UNCHANGED posted

(* TypeSelected.  A text the layout cannot type is refused, and a long one
   only types at the second click on the same item.                         *)
TypeSelected ==
    /\ Watching
    /\ \E text \in EditorTexts, refused \in BOOLEAN :
          LET s     == Settled(win, store, text)
              item  == SelectedItem(s.win.m)
              v     == TextOf(s.store, item)
              armed == s.win.armed = item
              ask   == [Ask("type", s.win.prev) EXCEPT !.quoted = Requoted(s.store)]
              Arm(i) == [s EXCEPT !.win.armed = i]
          IN  \/ /\ item = NoItem /\ ~refused
                 /\ Acts(s)
              \/ /\ item # NoItem /\ (refused \/ v = NoValue)
                 /\ Acts(Arm(NoItem))
              \/ /\ item # NoItem /\ v \in Long /\ ~refused /\ ~armed
                 /\ win' = Arm(item).win /\ store' = s.store
                 /\ quoted' = [item |-> item, value |-> v, current |-> TRUE]
                 /\ UNCHANGED <<posted, desk, paste, asked, sent>>
              \/ /\ item # NoItem /\ v # NoValue /\ ~refused /\ (v \in Long => armed)
                 /\ store' = s.store
                 /\ Dismiss(s.win)
                 /\ BeginPasteInjection(s.win.prev, [kind |-> "type", value |-> v], ask)
                 /\ UNCHANGED posted
    /\ UNCHANGED tasks

(* kTypeArmTimerId, four seconds after.                                     *)
ArmTimeout ==
    /\ win.armed # NoItem /\ win.phase # "opening"
    /\ win' = [win EXCEPT !.armed = NoItem]
    /\ quoted' = NoQuote
    /\ UNCHANGED <<store, tasks, posted, desk, paste, counts, asked, sent>>

----------------------------------------------------------------------------
(* OnPasteTimer.                                                            *)

Inject ==
    /\ sent' = [kind   |-> paste.what.kind, target |-> desk.foreground,
                value  |-> IF paste.what.kind = "type" THEN paste.what.value ELSE store.clip,
                hidden |-> win.phase = "hidden"]
    /\ CancelPasteInjection /\ UNCHANGED asked

Skip == CancelPasteInjection /\ asked' = NoAsk /\ UNCHANGED sent

(* Mutant of Focused: any window will do.                                   *)
FocusedAnywhere == desk.foreground # NoWindow

Focused == desk.foreground = paste.target

OnPasteTimer ==
    /\ paste # NoPaste /\ win.phase # "opening"
    /\ LET streak == IF Focused THEN paste.streak + 1 ELSE 0
           open   == paste.target \in desk.open
       IN  \/ open /\ streak >= 2 /\ Inject
           \/ (~open \/ (streak < 2 /\ paste.left = 1)) /\ Skip
           \/ /\ open /\ streak < 2 /\ paste.left > 1
              /\ paste' = [paste EXCEPT !.streak = streak, !.left = @ - 1]
              /\ UNCHANGED <<asked, sent>>
    /\ UNCHANGED <<store, win, tasks, posted, desk, counts, quoted>>

----------------------------------------------------------------------------
(* What happens outside of the thread of the window.                        *)

(* What comes from outside is bounded in number.                            *)
Disturbs == elsewhere < MaxElsewhere /\ elsewhere' = elsewhere + 1 /\ UNCHANGED inputs

(* The hooks: a foreground change posts a dismissal; while the popup opens
   they may not be set yet.                                                 *)
Hooked == posted' \in (CASE Watching -> {TRUE}
                         [] win.phase = "opening" -> {TRUE, posted}
                         [] OTHER -> {posted})

SwitchWindow ==
    /\ \E w \in desk.open \ {desk.foreground} : desk' = [desk EXCEPT !.foreground = w]
    /\ Hooked /\ Disturbs
    /\ UNCHANGED <<store, win, tasks, paste, asked, sent, quoted>>

CloseWindow ==
    /\ \E w \in desk.open :
          LET rest == desk.open \ {w}
          IN  \E next \in (IF desk.foreground = w THEN rest \cup {NoWindow}
                           ELSE {desk.foreground}) :
                 desk' = [open |-> rest, foreground |-> next]
    /\ IF desk'.foreground # desk.foreground /\ desk'.foreground # NoWindow
       THEN Hooked ELSE UNCHANGED posted
    /\ Disturbs
    /\ UNCHANGED <<store, win, tasks, paste, asked, sent, quoted>>

(* A context menu of the popup may take the foreground.                     *)
FlyoutTakesForeground ==
    /\ Watching /\ desk.foreground # Own
    /\ desk' = [desk EXCEPT !.foreground = Own]
    /\ Disturbs
    /\ UNCHANGED <<store, win, tasks, posted, paste, asked, sent, quoted>>

Elsewhere(st) ==
    /\ Disturbs
    /\ store' = st /\ quoted' = Requoted(st)
    /\ UNCHANGED <<posted, desk, paste, sent>>

HistoryChanges(st, type, id) ==
    /\ Elsewhere(st)
    /\ Notify(type, id)
    /\ win' = [win EXCEPT !.missed = @ \/ win.phase = "opening"]
    /\ asked' = IF asked # NoAsk /\ st.clip # store.clip THEN [asked EXCEPT !.overtaken = TRUE]
                ELSE asked

(* A clip of this machine or another; one is shared again, or deleted.      *)
ClipArrives ==
    \E v \in Value : store.next <= MaxItems
        /\ HistoryChanges([NewClip(store, v) EXCEPT !.clip = v], "added", store.next)

ClipMoves ==
    \E i \in DOMAIN store.history :
        LET clip == store.history[i]
        IN  HistoryChanges([ToFront(store, clip.id) EXCEPT !.clip = clip.value], "moved", clip.id)

ClipRemoved ==
    \E i \in DOMAIN store.history :
        HistoryChanges(Forget(store, store.history[i].id), "removed", store.history[i].id)

(* A register is written or deleted on another machine: no one is told.     *)
RegisterChanges ==
    /\ \E n \in Name, v \in Value \cup {NoValue} :
          store.regs[n] # v /\ Elsewhere(Put(store, n, v))
    /\ UNCHANGED <<win, tasks, asked>>

(* What the user does in the popup; the number of inputs is bounded.        *)
UserInput ==
    /\ inputs < MaxInputs /\ inputs' = inputs + 1 /\ UNCHANGED elsewhere
    /\ \/ MoveHighlight
       \/ PointerPressed
       \/ EditFilter
       \/ Escape
       \/ BeginRenameSelected
       \/ NameEditorKey
       \/ ClickAway
       \/ DeleteSelected
       \/ SaveSelected
       \/ UndoLastDelete
       \/ ToggleSelectedRegisterPrivate
       \/ ActivateSelected
       \/ TypeSelected

Next ==
    \/ Summon \/ BeginActivityNotifications \/ Close \/ DismissPosted
    \/ TextChanged \/ WatcherTask \/ ArmTimeout \/ OnPasteTimer
    \/ UserInput
    \/ SwitchWindow \/ CloseWindow \/ FlyoutTakesForeground
    \/ ClipArrives \/ ClipMoves \/ ClipRemoved \/ RegisterChanges

Spec == Init /\ [][Next]_vars

----------------------------------------------------------------------------
(* A popup that is open, with nothing queued and no rename in flight, lists
   the history as it is: the watcher may be told during a rename or while
   the popup was hidden, and the rebuild that ends either must make up for
   it.  A change between the rebuild of Summon and the registration of the
   watcher stays unseen until the next rebuild.                             *)
ListsTheHistory ==
    (Watching /\ tasks = <<>> /\ ~Editing(win) /\ ~win.missed)
        => win.m.history = HistoryItems(store)

(* What is sent goes to the window that had the foreground when the popup
   opened, while the popup is hidden, and it is what was highlighted when
   the user asked, whatever windows and clips came and went meanwhile: but a
   clip that arrived since is pasted in its place, as is what was there
   before if the clipboard could not be opened, and a rename that the
   request ended may have moved the highlight.                              *)
SendsWhatWasAsked ==
    sent # NoAsk =>
        /\ sent.hidden /\ sent.kind = asked.kind /\ sent.target = asked.target
        /\ sent.value = asked.value \/ asked.renaming
              \/ (asked.kind = "paste" /\ asked.overtaken)

(* No text that runs commands or types for long is typed without the user's
   having seen a confirmation of that very text in the same opening of the
   popup, unless the register was written after it was quoted.              *)
TypesConfirmed ==
    (asked.kind = "type" /\ paste # NoPaste /\ paste.what.kind = "type"
        /\ paste.what.value \in Long)
    => /\ asked.quoted # NoQuote
       /\ asked.quoted.current => asked.quoted.value = paste.what.value
============================================================================
