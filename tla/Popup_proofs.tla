---------------------------- MODULE Popup_proofs ----------------------------
(***************************************************************************)
(* The safety properties of the visual-paste popup, for any registers,     *)
(* texts, windows and bounds.  The properties speak of a popup at rest, of *)
(* what was sent and of a text about to be typed; PopupInv says for the    *)
(* moments in between what the list, the request and the confirmation on   *)
(* show are good for.                                                      *)
(***************************************************************************)
EXTENDS Popup, SequenceTheorems, TLAPS

-----------------------------------------------------------------------------
(* The records of the state have their fields, whatever is in these.        *)

HasFields(r, fields) == r = [f \in fields |-> r[f]]

ModelFields == {"registers", "history", "filter", "highlight", "mode"}
WinFields   == {"phase", "m", "box", "changed", "editing", "armed", "prev", "missed"}
StoreFields == {"history", "clip", "regs", "undo", "next"}
AskFields   == {"kind", "target", "value", "renaming", "overtaken", "quoted"}
QuoteFields == {"item", "value", "current"}
PasteFields == {"target", "left", "streak", "what"}

IsModel(m) == HasFields(m, ModelFields)
IsWin(w)   == HasFields(w, WinFields) /\ IsModel(w.m)
IsStore(st) == HasFields(st, StoreFields)
IsAsk(a)   == HasFields(a, AskFields)
IsQuote(q) == HasFields(q, QuoteFields)
IsPaste(p) == HasFields(p, PasteFields)
IsSeq(s)   == s \in Seq({s[i] : i \in DOMAIN s})

LEMMA SomeSequence ==
    ASSUME NEW S, NEW s \in Seq(S)
    PROVE  IsSeq(s)
<1>1. /\ DOMAIN s = 1 .. Len(s) /\ Len(s) \in Nat
      /\ s = [i \in 1 .. Len(s) |-> s[i]]
  BY LenProperties, ElementOfSeq
<1>2. \A i \in 1 .. Len(s) : s[i] \in {s[j] : j \in DOMAIN s}
  BY <1>1
<1> QED BY <1>1, <1>2, SeqDef DEF IsSeq

LEMMA SequenceGrows ==
    ASSUME NEW s, IsSeq(s), NEW e
    PROVE  IsSeq(Append(s, e)) /\ Append(s, e) # <<>>
<1> DEFINE S == {s[i] : i \in DOMAIN s} \cup {e}
<1>1. s \in Seq(S)
  BY SeqDef DEF IsSeq
<1> HIDE DEF S
<1>2. e \in S
  BY DEF S
<1>3. Append(s, e) \in Seq(S) /\ Append(s, e) # <<>>
  BY <1>1, <1>2, AppendProperties
<1> QED BY <1>3, SomeSequence

-----------------------------------------------------------------------------
(* The model of the popup: only SetItems changes the list.                  *)

SameList(m, n) == IsModel(n) /\ n.history = m.history

LEMMA ModelUpdates ==
    ASSUME NEW m, IsModel(m), NEW x
    PROVE  /\ SameList(m, [m EXCEPT !.highlight = x])
           /\ SameList(m, [m EXCEPT !.filter = x])
           /\ SameList(m, [m EXCEPT !.mode = x])
           /\ SameList(m, m)
BY DEF IsModel, HasFields, ModelFields, SameList

LEMMA ClampKeepsList ==
    ASSUME NEW m, IsModel(m), NEW preferred
    PROVE  SameList(m, ClampSelection(m, preferred))
<1> DEFINE rows == Rows(m, m.highlight.group)
           new == IF rows > 0 THEN [m.highlight EXCEPT !.index = Min({@, rows})]
                  ELSE Landing(m, preferred)
<1>1. ClampSelection(m, preferred) = [m EXCEPT !.highlight = new]
  BY DEF ClampSelection, Highlighting
<1> HIDE DEF new
<1> QED BY <1>1, ModelUpdates

(* SetItems lists what it is given.                                         *)
LEMMA SetItemsLists ==
    ASSUME NEW m, IsModel(m), NEW registers, NEW history
    PROVE  /\ IsModel(SetItems(m, registers, history))
           /\ SetItems(m, registers, history).history = history
<1> DEFINE n == [m EXCEPT !.registers = registers, !.history = history]
<1>1. IsModel(n) /\ n.history = history
  BY DEF IsModel, HasFields, ModelFields
<1>2. SetItems(m, registers, history) = ClampSelection(n, m.highlight.group)
  BY DEF SetItems
<1> HIDE DEF n
<1> QED BY <1>1, <1>2, ClampKeepsList DEF SameList

(* No other operation of the model changes the list.                        *)
LEMMA OperationsKeepList ==
    ASSUME NEW m, IsModel(m), NEW text, NEW group, NEW index, NEW item
    PROVE  /\ SameList(m, SetFilter(m, text))
           /\ SameList(m, SelectAt(m, group, index))
           /\ SameList(m, SelectRowOf(m, group, item))
           /\ SameList(m, MoveUp(m)) /\ SameList(m, MoveDown(m)) /\ SameList(m, MoveTo(m, group))
           /\ SameList(m, EnterEditMode(m)) /\ SameList(m, LeaveEditMode(m))
           /\ SameList(m, HandleEscape(m))
<1>1. ASSUME NEW t PROVE SameList(m, SetFilter(m, t))
  <2> DEFINE n == [m EXCEPT !.filter = t, !.highlight = Nothing]
  <2>1. SameList(m, n)
    BY DEF IsModel, HasFields, ModelFields, SameList
  <2>2. SetFilter(m, t) = ClampSelection(n, m.highlight.group)
    BY DEF SetFilter
  <2> HIDE DEF n
  <2> QED BY <2>1, <2>2, ClampKeepsList DEF SameList
<1>2. ASSUME NEW i PROVE SameList(m, SelectAt(m, group, i))
  BY ModelUpdates DEF SelectAt, Highlighting
<1>3. SameList(m, SelectRowOf(m, group, item))
  BY <1>2, ModelUpdates DEF SelectRowOf
<1>4. SameList(m, MoveUp(m)) /\ SameList(m, MoveDown(m))
  BY DEF IsModel, HasFields, ModelFields, SameList, MoveUp, MoveDown
<1>5. SameList(m, MoveTo(m, group))
  BY ModelUpdates DEF MoveTo, Highlighting
<1>6. SameList(m, EnterEditMode(m)) /\ SameList(m, LeaveEditMode(m))
  BY ModelUpdates DEF EnterEditMode, LeaveEditMode
<1>7. SameList(m, HandleEscape(m))
  BY <1>1, <1>6, ModelUpdates DEF HandleEscape
<1> QED BY <1>1, <1>2, <1>3, <1>4, <1>5, <1>6, <1>7

-----------------------------------------------------------------------------
(* The window.  Listing: its list is that of the store.  Fresh: it is, if    *)
(* nothing excuses it.                                                      *)

SameWindow(w, v) == IsWin(v) /\ v.phase = w.phase /\ v.armed = w.armed
Listing(w, st)   == w.m.history = HistoryItems(st)
Fresh(w, st)     == ~w.missed /\ ~Editing(w) => Listing(w, st)

(* A rebuild from the stores lists the history as it is.                    *)
LEMMA RebuildLists ==
    ASSUME NEW w, IsWin(w), NEW st
    PROVE  /\ SameWindow(w, RebuildFromStores(w, st))
           /\ RebuildFromStores(w, st).editing = w.editing
           /\ Listing(RebuildFromStores(w, st), st)
<1> DEFINE m == SetItems(w.m, RegisterItems(st), HistoryItems(st))
           v == [w EXCEPT !.m = m, !.missed = FALSE]
<1>1. IsModel(m) /\ m.history = HistoryItems(st)
  BY SetItemsLists DEF IsWin
<1>2. RebuildFromStores(w, st) = v
  BY DEF RebuildFromStores
<1> HIDE DEF m
<1>3. HasFields(v, WinFields) /\ v.m = m /\ v.phase = w.phase /\ v.armed = w.armed /\ v.editing = w.editing
  BY DEF IsWin, HasFields, WinFields
<1> HIDE DEF v
<1> QED BY <1>1, <1>2, <1>3 DEF SameWindow, Listing, IsWin

(* A change of the model that keeps the list keeps the window.              *)
LEMMA NewModelKeeps ==
    ASSUME NEW w, IsWin(w), NEW n, SameList(w.m, n)
    PROVE  /\ SameWindow(w, [w EXCEPT !.m = n])
           /\ [w EXCEPT !.m = n].m.history = w.m.history
           /\ [w EXCEPT !.m = n].editing = w.editing
           /\ [w EXCEPT !.m = n].missed = w.missed
<1> DEFINE v == [w EXCEPT !.m = n]
<1>1. HasFields(v, WinFields) /\ v.m = n /\ v.phase = w.phase /\ v.armed = w.armed
      /\ v.editing = w.editing /\ v.missed = w.missed
  BY DEF IsWin, HasFields, WinFields
<1> HIDE DEF v
<1>2. SameWindow(w, v) /\ v.m.history = w.m.history /\ v.editing = w.editing /\ v.missed = w.missed
  BY <1>1 DEF SameWindow, SameList, IsWin
<1> QED BY <1>2 DEF v

LEMMA RefreshLists ==
    ASSUME NEW w, IsWin(w), NEW st, NEW name
    PROVE  /\ SameWindow(w, RefreshAfterRegisterOp(w, st, name))
           /\ Listing(RefreshAfterRegisterOp(w, st, name), st)
<1> DEFINE v == RebuildFromStores(w, st)
           n == SelectRowOf(v.m, "registers", Register(name))
<1>1. SameWindow(w, v) /\ Listing(v, st)
  BY RebuildLists
<1>2. RefreshAfterRegisterOp(w, st, name) = [v EXCEPT !.m = n]
  BY DEF RefreshAfterRegisterOp
<1> HIDE DEF v
<1>3. SameList(v.m, n)
  BY <1>1, OperationsKeepList DEF SameWindow, IsWin
<1> HIDE DEF n
<1> QED BY <1>1, <1>2, <1>3, NewModelKeeps DEF SameWindow, Listing

LEMMA EndEditKeeps ==
    ASSUME NEW w, IsWin(w)
    PROVE  SameWindow(w, EndEditMode(w)) /\ EndEditMode(w).m.history = w.m.history
<1> DEFINE n == LeaveEditMode(w.m)
           v == [w EXCEPT !.editing = NoName, !.m = n]
<1>1. SameList(w.m, n)
  BY OperationsKeepList DEF IsWin
<1>2. EndEditMode(w) = v
  BY DEF EndEditMode
<1> HIDE DEF n
<1>3. HasFields(v, WinFields) /\ v.m = n /\ v.phase = w.phase /\ v.armed = w.armed
  BY DEF IsWin, HasFields, WinFields
<1> HIDE DEF v
<1> QED BY <1>1, <1>2, <1>3 DEF SameWindow, SameList, IsWin

(* Whatever ends a rename rebuilds the list.                                *)
LEMMA CancelLists ==
    ASSUME NEW w, IsWin(w), NEW st
    PROVE  SameWindow(w, CancelRename(w, st)) /\ Listing(CancelRename(w, st), st)
<1> DEFINE v == EndEditMode(w)
<1>1. SameWindow(w, v)
  BY EndEditKeeps
<1> HIDE DEF v
<1> QED BY <1>1, RefreshLists DEF CancelRename, SameWindow, v

LEMMA RenamedLists ==
    ASSUME NEW w, IsWin(w), NEW st, IsStore(st), NEW text, NEW select
    PROVE  /\ SameWindow(w, Renamed(w, st, text, select).win)
           /\ Listing(Renamed(w, st, text, select).win, Renamed(w, st, text, select).store)
           /\ IsStore(Renamed(w, st, text, select).store)
<1> DEFINE v == EndEditMode(w)
           s == RenameRegister(st, w.editing, text)
<1>1. SameWindow(w, v)
  BY EndEditKeeps
<1>2. IsStore(s)
  BY DEF RenameRegister, Put, IsStore, HasFields, StoreFields
<1>3. Renamed(w, st, text, select) = [win |-> RefreshAfterRegisterOp(v, s, select), store |-> s]
  BY DEF Renamed
<1> HIDE DEF v, s
<1> QED BY <1>1, <1>2, <1>3, RefreshLists DEF SameWindow

LEMMA Settles ==
    ASSUME NEW w, IsWin(w), NEW st, IsStore(st), NEW text
    PROVE  /\ HasFields(Settled(w, st, text), {"win", "store"})
           /\ SameWindow(w, Settled(w, st, text).win)
           /\ IsStore(Settled(w, st, text).store)
           /\ ~Editing(w) => Settled(w, st, text) = [win |-> w, store |-> st]
           /\ Fresh(w, st) => Fresh(Settled(w, st, text).win, Settled(w, st, text).store)
<1>1. CASE ~Editing(w)
  <2>1. Settled(w, st, text) = [win |-> w, store |-> st]
    BY <1>1 DEF Settled
  <2> QED BY <2>1 DEF SameWindow, HasFields
<1>2. CASE Editing(w) /\ NameEditorTarget(w, text)
  <2>1. Settled(w, st, text) = Renamed(w, st, text, NoName)
    BY <1>2 DEF Settled
  <2>2. HasFields(Renamed(w, st, text, NoName), {"win", "store"})
    BY DEF Renamed, HasFields
  <2> QED BY <1>2, <2>1, <2>2, RenamedLists DEF Fresh
<1>3. CASE Editing(w) /\ ~NameEditorTarget(w, text)
  <2>1. Settled(w, st, text) = [win |-> CancelRename(w, st), store |-> st]
    BY <1>3 DEF Settled
  <2> QED BY <1>3, <2>1, CancelLists DEF Fresh, HasFields
<1> QED BY <1>1, <1>2, <1>3

LEMMA HiddenWindow ==
    ASSUME NEW w, IsWin(w)
    PROVE  IsWin(Hidden(w)) /\ Hidden(w).phase = "hidden" /\ Hidden(w).armed = NoItem
<1> DEFINE v == IF Editing(w) THEN EndEditMode(w) ELSE w
<1>1. IsWin(v)
  BY EndEditKeeps DEF SameWindow
<1>2. Hidden(w) = [v EXCEPT !.phase = "hidden", !.prev = NoWindow, !.armed = NoItem]
  BY DEF Hidden
<1> HIDE DEF v
<1> QED BY <1>1, <1>2 DEF IsWin, HasFields, WinFields

-----------------------------------------------------------------------------
(* The invariant.                                                           *)

ShapeInv ==
    /\ IsWin(win) /\ win.phase \in {"hidden", "opening", "shown"}
    /\ IsStore(store)
    /\ HasFields(desk, {"foreground", "open"}) /\ desk.open \subseteq Window

(* While the popup opens, a change of the history is noted as missed; when it
   is shown, one is excused by a task that waits, or by a rename, which ends
   with a rebuild.                                                          *)
ListInv ==
    /\ win.phase = "opening" /\ ~win.missed => Listing(win, store)
    /\ Watching /\ tasks = <<>> => Fresh(win, store)

(* What an injection sends when its time comes.                             *)
ToSend == IF paste.what.kind = "type" THEN paste.what.value ELSE store.clip

(* A request waits, and is carried out, while the popup is hidden; until then
   what will be sent is what was asked for.                                 *)
RequestInv ==
    /\ win.phase # "hidden" => asked = NoAsk /\ sent = NoAsk /\ paste = NoPaste
    /\ asked # NoAsk => IsAsk(asked) /\ asked.kind \in {"paste", "type"}
    /\ asked = NoAsk => sent = NoAsk
    /\ paste # NoPaste =>
         /\ IsPaste(paste) /\ sent = NoAsk /\ asked # NoAsk
         /\ paste.what.kind = asked.kind /\ paste.target = asked.target
         /\ ToSend = asked.value \/ asked.renaming \/ (asked.kind = "paste" /\ asked.overtaken)

(* The confirmation is on show while the window is armed, and says what the
   item is, unless that was written since.                                  *)
QuoteInv ==
    /\ quoted # NoQuote =>
         IsQuote(quoted) /\ (quoted.current => TextOf(store, quoted.item) = quoted.value)
    /\ win.armed # NoItem => quoted # NoQuote /\ quoted.item = win.armed

PopupInv ==
    /\ ShapeInv /\ ListInv /\ RequestInv /\ QuoteInv
    /\ SendsWhatWasAsked /\ TypesConfirmed

LEMMA QuoteIsSome ==
    ASSUME NEW q, IsQuote(q)
    PROVE  q # NoQuote
<1>1. "value" \in DOMAIN q /\ "value" \notin DOMAIN NoQuote
  BY DEF IsQuote, HasFields, QuoteFields, NoQuote
<1> QED BY <1>1

(* A confirmation goes out of date when its item is written.                *)
LEMMA RequotedKeeps ==
    ASSUME QuoteInv, win'.armed \in {win.armed, NoItem}, quoted' = Requoted(store')
    PROVE  QuoteInv'
<1>1. CASE quoted # NoQuote /\ TextOf(store', quoted.item) # quoted.value
  <2>1. IsQuote(quoted) /\ quoted' = [quoted EXCEPT !.current = FALSE]
    BY <1>1 DEF QuoteInv, Requoted
  <2>2. IsQuote(quoted') /\ quoted'.item = quoted.item /\ ~quoted'.current
    BY <2>1 DEF IsQuote, HasFields, QuoteFields
  <2> QED BY <1>1, <2>2, QuoteIsSome DEF QuoteInv
<1>2. CASE ~(quoted # NoQuote /\ TextOf(store', quoted.item) # quoted.value)
  <2>1. quoted' = quoted
    BY <1>2 DEF Requoted
  <2>2. quoted # NoQuote => TextOf(store', quoted.item) = quoted.value
    BY <1>2
  <2>3. TextOf(store, quoted.item)' = TextOf(store', quoted.item)
    BY <2>1
  <2> QED BY <2>1, <2>2, <2>3 DEF QuoteInv
<1> QED BY <1>1, <1>2

LEMMA PopupStarts == Init => PopupInv
<1> SUFFICES ASSUME Init PROVE PopupInv
  OBVIOUS
<1>1. IsModel(NewModel)
  BY DEF NewModel, IsModel, HasFields, ModelFields
<1>2. HasFields(win, WinFields) /\ win.m = NewModel /\ win.phase = "hidden" /\ win.armed = NoItem
  BY DEF Init, HasFields, WinFields
<1>3. IsStore(store)
  BY DEF Init, IsStore, HasFields, StoreFields
<1>4. HasFields(desk, {"foreground", "open"}) /\ desk.open \subseteq Window
  <2>1. PICK w \in Window : desk = [foreground |-> w, open |-> Window]
    BY DEF Init
  <2> QED BY <2>1 DEF HasFields
<1> QED BY <1>1, <1>2, <1>3, <1>4 DEF Init, PopupInv, ShapeInv, IsWin, ListInv, Watching, RequestInv,
      QuoteInv, SendsWhatWasAsked, TypesConfirmed

-----------------------------------------------------------------------------
(* The kinds of step.                                                       *)

(* The popup stays on the screen.                                           *)
LEMMA ShownStep ==
    ASSUME PopupInv, Watching, IsWin(win'), win'.phase = "shown", IsStore(store'), QuoteInv',
           tasks' = <<>> => Fresh(win', store'),
           UNCHANGED <<desk, paste, asked, sent>>
    PROVE  PopupInv'
<1>1. asked = NoAsk /\ sent = NoAsk /\ paste = NoPaste
  BY DEF PopupInv, RequestInv, Watching
<1>2. ShapeInv' /\ ListInv'
  BY DEF PopupInv, ShapeInv, ListInv, Watching
<1>3. RequestInv' /\ SendsWhatWasAsked' /\ TypesConfirmed'
  BY <1>1 DEF RequestInv, SendsWhatWasAsked, TypesConfirmed
<1> QED BY <1>2, <1>3 DEF PopupInv

(* The popup is dismissed, with a request or without one.                   *)
LEMMA DismissStep ==
    ASSUME PopupInv, NEW w, IsWin(w), Dismiss(w), IsStore(store'), sent' = NoAsk,
           RequestInv', TypesConfirmed'
    PROVE  PopupInv'
<1>1. IsWin(win') /\ win'.phase = "hidden" /\ win'.armed = NoItem /\ quoted' = NoQuote
  BY HiddenWindow DEF Dismiss
<1>2. HasFields(desk', {"foreground", "open"}) /\ desk'.open = desk.open
  BY DEF Dismiss, PopupInv, ShapeInv, HasFields
<1>3. ShapeInv'
  BY <1>1, <1>2 DEF PopupInv, ShapeInv
<1>4. ListInv' /\ QuoteInv' /\ SendsWhatWasAsked'
  BY <1>1 DEF ListInv, QuoteInv, Watching, SendsWhatWasAsked
<1> QED BY <1>3, <1>4 DEF PopupInv

LEMMA CloseStep ==
    ASSUME PopupInv, Watching, NEW w, IsWin(w), Dismiss(w), IsStore(store'),
           UNCHANGED <<paste, asked, sent>>
    PROVE  PopupInv'
<1>1. asked = NoAsk /\ sent = NoAsk /\ paste = NoPaste
  BY DEF PopupInv, RequestInv, Watching
<1>2. sent' = NoAsk /\ RequestInv' /\ TypesConfirmed'
  BY <1>1 DEF RequestInv, TypesConfirmed
<1> QED BY <1>2, DismissStep

(* An action on the stores, by the window that is there.                    *)
LEMMA ActsStep ==
    ASSUME PopupInv, Watching, NEW s, Acts(s), SameWindow(win, s.win), IsStore(s.store),
           tasks' = <<>> => Fresh(s.win, s.store)
    PROVE  PopupInv'
<1>1. win' = s.win /\ store' = s.store /\ quoted' = Requoted(store')
  BY DEF Acts
<1>2. QuoteInv'
  BY <1>1, RequotedKeeps DEF PopupInv, SameWindow
<1> QED BY <1>1, <1>2, ShownStep DEF Acts, SameWindow, Watching

(* A key or click that only changes the window, and leaves its list.        *)
LEMMA InWindowStep ==
    ASSUME PopupInv, NEW w, InWindow(w), SameWindow(win, w), w.m.history = win.m.history,
           w.missed = win.missed, Editing(win) => Editing(w)
    PROVE  PopupInv'
<1>1. Watching /\ win' = w /\ UNCHANGED <<store, tasks, desk, paste, asked, sent, quoted>>
  BY DEF InWindow
<1>2. QuoteInv'
  <2>1. TextOf(store, quoted.item)' = TextOf(store, quoted.item)
    BY <1>1
  <2> QED BY <1>1, <2>1 DEF PopupInv, QuoteInv, SameWindow
<1>3. HistoryItems(store) = HistoryItems(store')
  BY <1>1
<1>4. tasks' = <<>> => Fresh(win', store')
  BY <1>1, <1>3 DEF PopupInv, ListInv, Fresh, Listing
<1>5. IsWin(win') /\ win'.phase = "shown" /\ IsStore(store')
  BY <1>1 DEF SameWindow, Watching, PopupInv, ShapeInv
<1> QED BY <1>1, <1>2, <1>4, <1>5, ShownStep

-----------------------------------------------------------------------------
(* The steps of the window that are no input of the user.                   *)

LEMMA SummonStep ==
    ASSUME PopupInv, Summon
    PROVE  PopupInv'
<1> DEFINE r == RebuildFromStores(win, store)
<1>1. SameWindow(win, r) /\ Listing(r, store)
  BY RebuildLists DEF PopupInv, ShapeInv
<1>2. win' = [r EXCEPT !.phase = "opening", !.box = "", !.changed = @ \/ win.box # "",
                       !.prev = IF desk.foreground = Own THEN NoWindow ELSE desk.foreground]
  BY DEF Summon
<1> HIDE DEF r
<1>3. IsWin(win') /\ win'.phase = "opening" /\ win'.armed = win.armed /\ win'.m = r.m
  BY <1>1, <1>2 DEF SameWindow, IsWin, HasFields, WinFields
<1>4. ShapeInv'
  BY <1>3 DEF Summon, PopupInv, ShapeInv
<1>5. ListInv'
  <2>1. HistoryItems(store') = HistoryItems(store)
    BY DEF Summon
  <2> QED BY <1>1, <1>3, <2>1 DEF ListInv, Listing, Watching
<1>6. QuoteInv'
  <2>1. store' = store /\ quoted' = quoted
    BY DEF Summon
  <2>2. TextOf(store, quoted.item)' = TextOf(store, quoted.item)
    BY <2>1
  <2> QED BY <1>3, <2>1, <2>2 DEF PopupInv, QuoteInv
<1>7. RequestInv' /\ SendsWhatWasAsked' /\ TypesConfirmed'
  BY DEF Summon, CancelPasteInjection, RequestInv, SendsWhatWasAsked, TypesConfirmed
<1> QED BY <1>4, <1>5, <1>6, <1>7 DEF PopupInv

LEMMA BeginStep ==
    ASSUME PopupInv, BeginActivityNotifications
    PROVE  PopupInv'
<1>1. IsWin(win') /\ win'.phase = "shown" /\ win'.armed = win.armed /\ win'.m = win.m
      /\ win'.missed = win.missed
  BY DEF BeginActivityNotifications, PopupInv, ShapeInv, IsWin, HasFields, WinFields
<1>2. UNCHANGED <<store, tasks, posted, desk, paste, asked, sent, quoted>>
  BY DEF BeginActivityNotifications
<1>3. ShapeInv'
  BY <1>1, <1>2 DEF PopupInv, ShapeInv
<1>4. ListInv'
  <2>1. HistoryItems(store') = HistoryItems(store)
    BY <1>2
  <2>2. ~win.missed => Listing(win, store)
    BY DEF BeginActivityNotifications, PopupInv, ListInv
  <2> QED BY <1>1, <2>1, <2>2 DEF ListInv, Listing, Fresh, Watching
<1>5. QuoteInv'
  <2>1. TextOf(store, quoted.item)' = TextOf(store, quoted.item)
    BY <1>2
  <2> QED BY <1>1, <1>2, <2>1 DEF PopupInv, QuoteInv
<1>6. RequestInv' /\ SendsWhatWasAsked' /\ TypesConfirmed'
  <2>1. asked = NoAsk /\ sent = NoAsk /\ paste = NoPaste
    BY DEF BeginActivityNotifications, PopupInv, RequestInv
  <2> QED BY <1>2, <2>1 DEF RequestInv, SendsWhatWasAsked, TypesConfirmed
<1> QED BY <1>3, <1>4, <1>5, <1>6 DEF PopupInv

(* A step that changes nothing the invariant speaks of.                     *)
LEMMA IdleStep ==
    ASSUME PopupInv, UNCHANGED <<win, store, desk, paste, asked, sent, quoted>>,
           Watching /\ tasks' = <<>> => tasks = <<>>
    PROVE  PopupInv'
<1>1. HistoryItems(store') = HistoryItems(store) /\ TextOf(store, quoted.item)' = TextOf(store, quoted.item)
  OBVIOUS
<1> QED BY <1>1 DEF PopupInv, ShapeInv, ListInv, Listing, Fresh, Watching, RequestInv, ToSend, QuoteInv,
      SendsWhatWasAsked, TypesConfirmed

LEMMA ClosesStep ==
    ASSUME PopupInv, Closes
    PROVE  PopupInv'
BY CloseStep DEF Closes, PopupInv, ShapeInv

LEMMA DismissPostedStep ==
    ASSUME PopupInv, DismissPosted
    PROVE  PopupInv'
<1>1. CASE Watching
  BY <1>1, CloseStep DEF DismissPosted, PopupInv, ShapeInv
<1>2. CASE ~Watching
  BY <1>2, IdleStep DEF DismissPosted
<1> QED BY <1>1, <1>2

(* A step of the window that leaves everything else, the list and its excuses.
   The popup may be hidden.                                                 *)
LEMMA WindowStep ==
    ASSUME PopupInv, SameWindow(win, win'), win.phase # "opening",
           Watching /\ tasks' = <<>> => Fresh(win', store'),
           UNCHANGED <<store, desk, paste, asked, sent, quoted>>
    PROVE  PopupInv'
<1>1. TextOf(store, quoted.item)' = TextOf(store, quoted.item)
  OBVIOUS
<1>2. ShapeInv' /\ RequestInv' /\ QuoteInv' /\ SendsWhatWasAsked' /\ TypesConfirmed'
  BY <1>1 DEF PopupInv, ShapeInv, SameWindow, RequestInv, ToSend, QuoteInv, SendsWhatWasAsked, TypesConfirmed
<1>3. ListInv'
  BY DEF ListInv, SameWindow, Watching
<1> QED BY <1>2, <1>3 DEF PopupInv

LEMMA TextChangedStep ==
    ASSUME PopupInv, TextChanged
    PROVE  PopupInv'
<1> DEFINE n == SetFilter(win.m, win.box)
<1>1. SameList(win.m, n)
  BY OperationsKeepList DEF PopupInv, ShapeInv, IsWin
<1>2. win' = [win EXCEPT !.m = n, !.changed = FALSE]
  BY DEF TextChanged
<1> HIDE DEF n
<1>3. HasFields(win', WinFields) /\ win'.m = n /\ win'.phase = win.phase /\ win'.armed = win.armed
      /\ win'.editing = win.editing /\ win'.missed = win.missed
  BY <1>2 DEF PopupInv, ShapeInv, IsWin, HasFields, WinFields
<1>4. SameWindow(win, win') /\ win'.m.history = win.m.history
  BY <1>1, <1>3 DEF SameWindow, SameList, IsWin
<1>5. Watching /\ tasks' = <<>> => Fresh(win', store)
  BY <1>3, <1>4 DEF TextChanged, PopupInv, ListInv, Fresh, Listing, Editing
<1> QED BY <1>4, <1>5, WindowStep DEF TextChanged

LEMMA WatcherTaskStep ==
    ASSUME PopupInv, WatcherTask
    PROVE  PopupInv'
<1> DEFINE r == RebuildFromStores(win, store)
           n == SelectRowOf(r.m, "history", Activity(Head(tasks)[2]))
<1>1. SameWindow(win, r) /\ Listing(r, store)
  BY RebuildLists DEF PopupInv, ShapeInv
<1>2. SameList(r.m, n)
  BY <1>1, OperationsKeepList DEF SameWindow, IsWin
<1>3. SameWindow(win, [r EXCEPT !.m = n]) /\ Listing([r EXCEPT !.m = n], store)
  <2> HIDE DEF r, n
  <2> QED BY <1>1, <1>2, NewModelKeeps DEF SameWindow, Listing
<1>4. \/ win' = win /\ (~Watching \/ Editing(win))
      \/ win' = r
      \/ win' = [r EXCEPT !.m = n]
  BY DEF WatcherTask
<1>5. SameWindow(win, win')
  BY <1>1, <1>3, <1>4 DEF SameWindow, PopupInv, ShapeInv
<1>6. Watching => Fresh(win', store)
  <2>1. CASE win' = win /\ (~Watching \/ Editing(win))
    BY <2>1 DEF Fresh
  <2> QED BY <1>1, <1>3, <1>4, <2>1 DEF Fresh
<1> QED BY <1>5, <1>6, WindowStep DEF WatcherTask

LEMMA ArmTimeoutStep ==
    ASSUME PopupInv, ArmTimeout
    PROVE  PopupInv'
<1>1. IsWin(win') /\ win'.phase = win.phase /\ win'.armed = NoItem /\ win'.m = win.m
      /\ win'.missed = win.missed /\ win'.editing = win.editing
  BY DEF ArmTimeout, PopupInv, ShapeInv, IsWin, HasFields, WinFields
<1>2. UNCHANGED <<store, tasks, desk, paste, asked, sent>> /\ quoted' = NoQuote
  BY DEF ArmTimeout
<1>3. HistoryItems(store') = HistoryItems(store)
  BY <1>2
<1>4. ShapeInv' /\ ListInv'
  BY <1>1, <1>2, <1>3 DEF PopupInv, ShapeInv, ListInv, Listing, Fresh, Editing, Watching
<1>5. RequestInv' /\ QuoteInv' /\ SendsWhatWasAsked' /\ TypesConfirmed'
  BY <1>1, <1>2 DEF PopupInv, RequestInv, ToSend, QuoteInv, SendsWhatWasAsked, TypesConfirmed
<1> QED BY <1>4, <1>5 DEF PopupInv

(* The timer sends to its target or to nobody.                              *)
LEMMA PasteTimerStep ==
    ASSUME PopupInv, OnPasteTimer
    PROVE  PopupInv'
<1>1. /\ IsPaste(paste) /\ paste # NoPaste /\ sent = NoAsk /\ asked # NoAsk /\ win.phase = "hidden"
      /\ IsAsk(asked) /\ asked.kind \in {"paste", "type"}
      /\ paste.what.kind = asked.kind /\ paste.target = asked.target
      /\ ToSend = asked.value \/ asked.renaming \/ (asked.kind = "paste" /\ asked.overtaken)
  BY DEF OnPasteTimer, PopupInv, RequestInv
<1>2. UNCHANGED <<store, win, tasks, posted, desk, quoted>>
  BY DEF OnPasteTimer
<1>3. ShapeInv' /\ ListInv' /\ QuoteInv'
  <2>1. HistoryItems(store') = HistoryItems(store) /\ TextOf(store, quoted.item)' = TextOf(store, quoted.item)
    BY <1>2
  <2> QED BY <1>1, <1>2, <2>1 DEF PopupInv, ShapeInv, ListInv, QuoteInv, Watching
<1>4. RequestInv' /\ SendsWhatWasAsked' /\ TypesConfirmed'
  <2> DEFINE streak == IF Focused THEN paste.streak + 1 ELSE 0
  <2>1. CASE streak >= 2 /\ Inject
    <3>1. Focused
      BY <2>1
    <3>2. /\ paste' = NoPaste /\ asked' = asked
          /\ sent' = [kind |-> paste.what.kind, target |-> desk.foreground, value |-> ToSend, hidden |-> TRUE]
      BY <2>1, <1>1 DEF Inject, CancelPasteInjection, ToSend
    <3>3. SendsWhatWasAsked'
      BY <1>1, <3>1, <3>2 DEF SendsWhatWasAsked, Focused
    <3> QED BY <1>1, <1>2, <3>2, <3>3 DEF RequestInv, TypesConfirmed
  <2>2. CASE Skip
    BY <1>1, <2>2 DEF Skip, CancelPasteInjection, RequestInv, SendsWhatWasAsked, TypesConfirmed
  <2>3. CASE /\ paste' = [paste EXCEPT !.streak = streak, !.left = @ - 1]
             /\ UNCHANGED <<asked, sent>>
    <3>1. IsPaste(paste') /\ paste'.target = paste.target /\ paste'.what = paste.what
      BY <1>1, <2>3 DEF IsPaste, HasFields, PasteFields
    <3>2. ToSend' = ToSend
      BY <1>2, <3>1 DEF ToSend
    <3>3. RequestInv'
      BY <1>1, <1>2, <2>3, <3>1, <3>2 DEF RequestInv
    <3> QED BY <1>1, <2>3, <3>1, <3>3 DEF SendsWhatWasAsked, TypesConfirmed, PopupInv
  <2> QED BY <2>1, <2>2, <2>3 DEF OnPasteTimer
<1> QED BY <1>3, <1>4 DEF PopupInv

-----------------------------------------------------------------------------
(* What happens outside of the thread of the window.                        *)

LEMMA DeskStep ==
    ASSUME PopupInv, HasFields(desk', {"foreground", "open"}), desk'.open \subseteq Window,
           UNCHANGED <<win, store, tasks, paste, asked, sent, quoted>>
    PROVE  PopupInv'
<1>1. HistoryItems(store') = HistoryItems(store) /\ TextOf(store, quoted.item)' = TextOf(store, quoted.item)
  OBVIOUS
<1> QED BY <1>1 DEF PopupInv, ShapeInv, ListInv, Listing, Fresh, Watching, RequestInv, ToSend, QuoteInv,
      SendsWhatWasAsked, TypesConfirmed

LEMMA DesktopStep ==
    ASSUME PopupInv, SwitchWindow \/ CloseWindow \/ FlyoutTakesForeground
    PROVE  PopupInv'
<1>1. CASE SwitchWindow
  <2>1. PICK w \in desk.open : desk' = [desk EXCEPT !.foreground = w]
    BY <1>1 DEF SwitchWindow
  <2>2. HasFields(desk', {"foreground", "open"}) /\ desk'.open \subseteq Window
    BY <2>1 DEF PopupInv, ShapeInv, HasFields
  <2> QED BY <1>1, <2>2, DeskStep DEF SwitchWindow
<1>2. CASE CloseWindow
  <2>1. PICK w \in desk.open : \E next : desk' = [open |-> desk.open \ {w}, foreground |-> next]
    BY <1>2 DEF CloseWindow
  <2>2. HasFields(desk', {"foreground", "open"}) /\ desk'.open \subseteq Window
    BY <2>1 DEF PopupInv, ShapeInv, HasFields
  <2> QED BY <1>2, <2>2, DeskStep DEF CloseWindow
<1>3. CASE FlyoutTakesForeground
  <2>1. HasFields(desk', {"foreground", "open"}) /\ desk'.open \subseteq Window
    BY <1>3 DEF FlyoutTakesForeground, PopupInv, ShapeInv, HasFields
  <2> QED BY <1>3, <2>1, DeskStep DEF FlyoutTakesForeground
<1> QED BY <1>1, <1>2, <1>3

(* The history changes: a popup on the screen is told, one that opens notes
   that it missed it, and a request that waits knows of another clip.       *)
LEMMA HistoryStep ==
    ASSUME PopupInv, IsSeq(tasks), NEW st, IsStore(st), NEW type, NEW id, HistoryChanges(st, type, id)
    PROVE  PopupInv'
<1>1. /\ store' = st /\ quoted' = Requoted(store') /\ UNCHANGED <<desk, paste, sent>>
      /\ win' = [win EXCEPT !.missed = @ \/ win.phase = "opening"]
  BY DEF HistoryChanges, Elsewhere
<1>2. IsWin(win') /\ win'.phase = win.phase /\ win'.armed = win.armed
      /\ (win.phase = "opening" => win'.missed)
  BY <1>1 DEF PopupInv, ShapeInv, IsWin, HasFields, WinFields
<1>3. ShapeInv' /\ QuoteInv'
  BY <1>1, <1>2, RequotedKeeps DEF PopupInv, ShapeInv
<1>4. ListInv'
  <2>1. Watching => tasks' # <<>>
    BY SequenceGrows DEF HistoryChanges, Notify
  <2> QED BY <1>2, <2>1 DEF ListInv, Watching
<1>5. \/ asked' = asked /\ (asked = NoAsk \/ store'.clip = store.clip)
      \/ asked # NoAsk /\ asked' = [asked EXCEPT !.overtaken = TRUE]
  BY <1>1 DEF HistoryChanges
<1>6. RequestInv' /\ SendsWhatWasAsked' /\ TypesConfirmed'
  <2>1. CASE asked = NoAsk
    <3>1. asked' = NoAsk /\ sent = NoAsk /\ paste = NoPaste
      BY <1>5, <2>1 DEF PopupInv, RequestInv, SendsWhatWasAsked, NoAsk
    <3> QED BY <1>1, <3>1 DEF RequestInv, SendsWhatWasAsked, TypesConfirmed
  <2>2. CASE asked # NoAsk /\ asked' = asked /\ store'.clip = store.clip
    <3>1. ToSend' = ToSend
      BY <1>1, <2>2 DEF ToSend
    <3> QED BY <1>1, <1>2, <2>2, <3>1 DEF PopupInv, RequestInv, SendsWhatWasAsked, TypesConfirmed
  <2>3. CASE asked # NoAsk /\ asked' = [asked EXCEPT !.overtaken = TRUE]
    <3>1. /\ IsAsk(asked') /\ asked'.overtaken /\ asked'.kind = asked.kind /\ asked'.target = asked.target
          /\ asked'.value = asked.value /\ asked'.renaming = asked.renaming /\ asked'.quoted = asked.quoted
      BY <2>3 DEF PopupInv, RequestInv, IsAsk, HasFields, AskFields
    <3>2. asked' # NoAsk
      BY <2>3, <3>1 DEF PopupInv, RequestInv, NoAsk
    <3>3. paste.what.kind # "paste" => ToSend' = ToSend \/ paste = NoPaste
      BY <1>1, <2>3 DEF ToSend, PopupInv, RequestInv
    <3>4. RequestInv'
      BY <1>1, <1>2, <2>3, <3>1, <3>2, <3>3 DEF PopupInv, RequestInv
    <3> QED BY <1>1, <2>3, <3>1, <3>4 DEF PopupInv, SendsWhatWasAsked, TypesConfirmed, RequestInv
  <2> QED BY <1>5, <2>1, <2>2, <2>3
<1> QED BY <1>3, <1>4, <1>6 DEF PopupInv

LEMMA ClipStep ==
    ASSUME PopupInv, IsSeq(tasks), ClipArrives \/ ClipMoves \/ ClipRemoved
    PROVE  PopupInv'
<1>1. ASSUME NEW id PROVE IsStore(ToFront(store, id)) /\ IsStore(Forget(store, id))
  BY DEF ToFront, Forget, PopupInv, ShapeInv, IsStore, HasFields, StoreFields
<1>2. ASSUME NEW v PROVE IsStore(NewClip(store, v))
  BY DEF NewClip, PopupInv, ShapeInv, IsStore, HasFields, StoreFields
<1>3. ASSUME NEW st, IsStore(st), NEW v PROVE IsStore([st EXCEPT !.clip = v])
  BY <1>3 DEF IsStore, HasFields, StoreFields
<1>4. CASE ClipArrives
  <2>1. PICK v \in Value : HistoryChanges([NewClip(store, v) EXCEPT !.clip = v], "added", store.next)
    BY <1>4 DEF ClipArrives
  <2> QED BY <1>2, <1>3, <2>1, HistoryStep
<1>5. CASE ClipMoves
  <2>1. PICK clip : HistoryChanges([ToFront(store, clip.id) EXCEPT !.clip = clip.value], "moved", clip.id)
    BY <1>5 DEF ClipMoves
  <2> QED BY <1>1, <1>3, <2>1, HistoryStep
<1>6. CASE ClipRemoved
  <2>1. PICK id : HistoryChanges(Forget(store, id), "removed", id)
    BY <1>6 DEF ClipRemoved
  <2> QED BY <1>1, <2>1, HistoryStep
<1> QED BY <1>4, <1>5, <1>6

LEMMA RegisterStep ==
    ASSUME PopupInv, RegisterChanges
    PROVE  PopupInv'
<1>1. PICK n, v : Elsewhere(Put(store, n, v))
  BY DEF RegisterChanges
<1>2. IsStore(store') /\ store'.history = store.history /\ store'.clip = store.clip
  BY <1>1 DEF Elsewhere, Put, PopupInv, ShapeInv, IsStore, HasFields, StoreFields
<1>3. UNCHANGED <<win, tasks, desk, paste, asked, sent>> /\ quoted' = Requoted(store')
  BY <1>1 DEF RegisterChanges, Elsewhere
<1>4. HistoryItems(store') = HistoryItems(store)
  BY <1>2 DEF HistoryItems
<1>5. ShapeInv' /\ ListInv' /\ QuoteInv'
  BY <1>2, <1>3, <1>4, RequotedKeeps DEF PopupInv, ShapeInv, ListInv, Listing, Fresh, Editing, Watching
<1>6. RequestInv' /\ SendsWhatWasAsked' /\ TypesConfirmed'
  <2>1. ToSend' = ToSend
    BY <1>2, <1>3 DEF ToSend
  <2> QED BY <1>3, <2>1 DEF PopupInv, RequestInv, SendsWhatWasAsked, TypesConfirmed
<1> QED BY <1>5, <1>6 DEF PopupInv

-----------------------------------------------------------------------------
(* What the user does in the popup.                                         *)

(* An action that begins by ending a rename begins with a list that is as
   good as before.                                                          *)
LEMMA SettlesFresh ==
    ASSUME PopupInv, Watching, NEW text
    PROVE  LET s == Settled(win, store, text)
           IN  /\ HasFields(s, {"win", "store"}) /\ SameWindow(win, s.win) /\ IsStore(s.store)
               /\ tasks = <<>> => Fresh(s.win, s.store)
               /\ ~Editing(win) => s.win = win /\ s.store = store
BY Settles DEF PopupInv, ShapeInv, ListInv

LEMMA BrowseStep ==
    ASSUME PopupInv, MoveHighlight \/ PointerPressed \/ EditFilter \/ Escape \/ BeginRenameSelected
    PROVE  PopupInv'
<1>1. IsWin(win) /\ IsModel(win.m)
  BY DEF PopupInv, ShapeInv, IsWin
<1>2. ASSUME NEW n, SameList(win.m, n), InWindow([win EXCEPT !.m = n])
      PROVE  PopupInv'
  BY <1>1, <1>2, NewModelKeeps, InWindowStep DEF Editing
<1>3. CASE MoveHighlight
  <2>1. \/ InWindow([win EXCEPT !.m = MoveUp(win.m)])
        \/ InWindow([win EXCEPT !.m = MoveDown(win.m)])
        \/ \E group \in Group : InWindow([win EXCEPT !.m = MoveTo(win.m, group)])
    BY <1>3 DEF MoveHighlight
  <2> QED BY <1>1, <1>2, <2>1, OperationsKeepList
<1>4. CASE PointerPressed
  <2>1. PICK group, i : InWindow([win EXCEPT !.m = SelectAt(win.m, group, i)])
    BY <1>4 DEF PointerPressed
  <2> QED BY <1>1, <1>2, <2>1, OperationsKeepList
<1>5. CASE EditFilter
  <2>1. PICK text : InWindow([win EXCEPT !.box = text, !.changed = TRUE])
    BY <1>5 DEF EditFilter
  <2> DEFINE w == [win EXCEPT !.box = text, !.changed = TRUE]
  <2>2. SameWindow(win, w) /\ w.m = win.m /\ w.missed = win.missed /\ w.editing = win.editing
    BY <1>1 DEF SameWindow, IsWin, HasFields, WinFields
  <2> HIDE DEF w
  <2>3. InWindow(w)
    BY <2>1 DEF w
  <2> QED BY <2>2, <2>3, InWindowStep DEF Editing
<1>6. CASE Escape
  <2>1. CASE Closes
    BY <2>1, ClosesStep
  <2>2. CASE InWindow([win EXCEPT !.m = HandleEscape(@)])
    BY <1>1, <1>2, <2>2, OperationsKeepList
  <2>3. CASE InWindow([win EXCEPT !.m = HandleEscape(@), !.box = "", !.changed = @ \/ win.box # ""])
    <3> DEFINE n == HandleEscape(win.m)
               w == [win EXCEPT !.m = n, !.box = "", !.changed = @ \/ win.box # ""]
    <3>1. SameList(win.m, n)
      BY <1>1, OperationsKeepList
    <3> HIDE DEF n
    <3>2. HasFields(w, WinFields) /\ w.m = n /\ w.missed = win.missed /\ w.editing = win.editing
          /\ w.phase = win.phase /\ w.armed = win.armed
      BY <1>1 DEF IsWin, HasFields, WinFields
    <3> HIDE DEF w
    <3>3. SameWindow(win, w) /\ w.m.history = win.m.history
      BY <3>1, <3>2 DEF SameWindow, SameList, IsWin
    <3>4. InWindow(w)
      BY <2>3 DEF w, n
    <3> QED BY <3>2, <3>3, <3>4, InWindowStep DEF Editing
  <2> QED BY <1>6, <2>1, <2>2, <2>3 DEF Escape
<1>7. CASE BeginRenameSelected
  <2> DEFINE n == EnterEditMode(win.m)
             w == [win EXCEPT !.editing = SelectedItem(win.m)[2], !.m = n]
  <2>1. SameList(win.m, n)
    BY <1>1, OperationsKeepList
  <2> HIDE DEF n
  <2>2. HasFields(w, WinFields) /\ w.m = n /\ w.missed = win.missed
        /\ w.phase = win.phase /\ w.armed = win.armed
    BY <1>1 DEF IsWin, HasFields, WinFields
  <2>3. InWindow(w) /\ ~Editing(win)
    BY <1>7 DEF BeginRenameSelected, n
  <2> HIDE DEF w
  <2>4. SameWindow(win, w) /\ w.m.history = win.m.history
    BY <2>1, <2>2 DEF SameWindow, SameList, IsWin
  <2> QED BY <2>2, <2>3, <2>4, InWindowStep
<1> QED BY <1>3, <1>4, <1>5, <1>6, <1>7

LEMMA EditorStep ==
    ASSUME PopupInv, NameEditorKey \/ ClickAway
    PROVE  PopupInv'
<1>1. IsWin(win) /\ IsStore(store) /\ Watching
  BY DEF PopupInv, ShapeInv, NameEditorKey, ClickAway
<1>2. CASE \E text \in EditorTexts : Acts(Renamed(win, store, text, text))
  BY <1>1, <1>2, RenamedLists, ActsStep DEF Fresh
<1>3. CASE Acts([win |-> CancelRename(win, store), store |-> store])
  <2> DEFINE s == [win |-> CancelRename(win, store), store |-> store]
  <2>1. SameWindow(win, s.win) /\ IsStore(s.store) /\ Fresh(s.win, s.store)
    BY <1>1, CancelLists DEF Fresh
  <2>2. Acts(s)
    BY <1>3
  <2> HIDE DEF s
  <2> QED BY <1>1, <2>1, <2>2, ActsStep
<1>4. CASE ClickAway
  <2>1. PICK text : Acts(Settled(win, store, text)) /\ tasks' = tasks
    BY <1>4 DEF ClickAway
  <2> QED BY <1>1, <2>1, SettlesFresh, ActsStep
<1> QED BY <1>2, <1>3, <1>4 DEF NameEditorKey

(* Writing a register leaves the history.                                   *)
LEMMA PutKeeps ==
    ASSUME NEW st, IsStore(st), NEW n, NEW v, NEW u
    PROVE  /\ IsStore(Put(st, n, v)) /\ Put(st, n, v).history = st.history
           /\ IsStore([st EXCEPT !.undo = u]) /\ [st EXCEPT !.undo = u].history = st.history
BY DEF Put, IsStore, HasFields, StoreFields

LEMMA DeleteStep ==
    ASSUME PopupInv, IsSeq(tasks), DeleteSelected
    PROVE  PopupInv'
<1>1. PICK text :
        LET s    == Settled(win, store, text)
            item == SelectedItem(s.win.m)
        IN  /\ Acts(IF item = NoItem THEN s ELSE Deleted(s, item))
            /\ IF IsActivity(item) /\ InHistory(s.store, item[2])
               THEN Notify("removed", item[2]) ELSE UNCHANGED tasks
  BY DEF DeleteSelected
<1> DEFINE s    == Settled(win, store, text)
           item == SelectedItem(s.win.m)
           d    == Deleted(s, item)
<1>2. Watching
  BY DEF DeleteSelected
<1>3. SameWindow(win, s.win) /\ IsStore(s.store) /\ (tasks = <<>> => Fresh(s.win, s.store))
  BY <1>2, SettlesFresh
<1>4. CASE item = NoItem
  <2>1. Acts(s) /\ tasks' = tasks
    BY <1>1, <1>4 DEF IsActivity
  <2> HIDE DEF s
  <2> QED BY <1>2, <1>3, <2>1, ActsStep
<1>5. CASE item # NoItem
  <2> HIDE DEF s, item
  <2>1. Acts(d) /\ (IF IsActivity(item) /\ InHistory(s.store, item[2])
                    THEN Notify("removed", item[2]) ELSE UNCHANGED tasks)
    BY <1>1, <1>5 DEF s, item
  <2>2. IsStore(d.store)
    <3>1. IsStore(Forget(s.store, item[2])) /\ IsStore(Put(s.store, item[2], NoValue))
      <4>1. IsStore(Put(s.store, item[2], NoValue))
        BY <1>3, PutKeeps
      <4>2. IsStore(Forget(s.store, item[2]))
        BY <1>3 DEF Forget, IsStore, HasFields, StoreFields
      <4> QED BY <4>1, <4>2
    <3> DEFINE v    == TextOf(s.store, item)
               gone == IF IsActivity(item) THEN Forget(s.store, item[2])
                       ELSE Put(s.store, item[2], NoValue)
               kept == IF IsActivity(item) THEN [kind |-> "activity", value |-> v]
                       ELSE [kind |-> "register", name |-> item[2], value |-> v]
    <3>2. d.store = IF v = NoValue THEN s.store ELSE [gone EXCEPT !.undo = kept]
      BY DEF Deleted
    <3>3. IsStore(gone)
      BY <3>1
    <3> HIDE DEF d, v, gone, kept
    <3>4. IsStore([gone EXCEPT !.undo = kept])
      BY <3>3, PutKeeps
    <3> QED BY <1>3, <3>2, <3>4
  <2>3. CASE IsActivity(item)
    <3>1. d.win = s.win
      BY <2>3 DEF Deleted
    <3>2. CASE InHistory(s.store, item[2])
      <4>1. tasks' # <<>>
        BY <1>2, <2>1, <2>3, <3>2, SequenceGrows DEF Notify
      <4> HIDE DEF d
      <4> QED BY <1>2, <1>3, <2>1, <2>2, <3>1, <4>1, ActsStep
    <3>3. CASE ~InHistory(s.store, item[2])
      <4>1. TextOf(s.store, item) = NoValue
        BY <1>5, <2>3, <3>3 DEF TextOf, IsActivity, IsRegister
      <4>2. d.store = s.store /\ tasks' = tasks
        BY <2>1, <3>3, <4>1 DEF Deleted
      <4> HIDE DEF d
      <4> QED BY <1>2, <1>3, <2>1, <2>2, <3>1, <4>2, ActsStep
    <3> QED BY <3>2, <3>3
  <2>4. CASE ~IsActivity(item)
    <3>1. d.win = RefreshAfterRegisterOp(s.win, d.store, NoName)
      BY <2>4 DEF Deleted
    <3> HIDE DEF d
    <3>2. SameWindow(win, d.win) /\ Fresh(d.win, d.store)
      BY <1>3, <3>1, RefreshLists DEF SameWindow, Fresh
    <3> QED BY <1>2, <2>1, <2>2, <3>2, ActsStep
  <2> QED BY <2>3, <2>4
<1> QED BY <1>4, <1>5

(* An action that ends with a refresh after an operation on the registers.  *)
LEMMA RefreshActs ==
    ASSUME PopupInv, Watching, NEW w, SameWindow(win, w), NEW st, IsStore(st), NEW name,
           Acts([win |-> RefreshAfterRegisterOp(w, st, name), store |-> st])
    PROVE  PopupInv'
<1> DEFINE v == RefreshAfterRegisterOp(w, st, name)
           s == [win |-> v, store |-> st]
<1>1. SameWindow(win, v) /\ Listing(v, st)
  BY RefreshLists DEF SameWindow
<1> HIDE DEF v
<1>2. Acts(s) /\ s.win = v /\ s.store = st
  BY DEF v
<1> HIDE DEF s
<1> QED BY <1>1, <1>2, ActsStep DEF Fresh

LEMMA SaveStep ==
    ASSUME PopupInv, SaveSelected
    PROVE  PopupInv'
<1>1. PICK text :
        LET s    == Settled(win, store, text)
            item == SelectedItem(s.win.m)
            name == NextAutoRegisterName(Live(s.store))
            st   == [Put(s.store, name, TextOf(s.store, item)) EXCEPT !.undo = NoUndo]
            w    == [s.win EXCEPT !.changed = @ \/ s.win.box # "", !.box = "",
                                  !.editing = name, !.m = EnterEditMode(@)]
        IN  \/ Acts([win |-> RefreshAfterRegisterOp(w, st, name), store |-> st])
            \/ Acts(s)
  BY DEF SaveSelected
<1> DEFINE s    == Settled(win, store, text)
           item == SelectedItem(s.win.m)
           name == NextAutoRegisterName(Live(s.store))
           st   == [Put(s.store, name, TextOf(s.store, item)) EXCEPT !.undo = NoUndo]
           n    == EnterEditMode(s.win.m)
           w    == [s.win EXCEPT !.changed = @ \/ s.win.box # "", !.box = "",
                                 !.editing = name, !.m = n]
<1>2. Watching /\ tasks' = tasks
  BY DEF SaveSelected
<1>3. SameWindow(win, s.win) /\ IsStore(s.store) /\ (tasks = <<>> => Fresh(s.win, s.store))
  BY <1>2, SettlesFresh
<1>4. \/ Acts([win |-> RefreshAfterRegisterOp(w, st, name), store |-> st])
      \/ Acts(s)
  BY <1>1
<1> HIDE DEF s, item, name
<1>5. IsStore(st)
  BY <1>3, PutKeeps
<1>6. SameWindow(win, w)
  <2>1. IsModel(n)
    BY <1>3, OperationsKeepList DEF SameWindow, IsWin, SameList
  <2> HIDE DEF n
  <2> QED BY <1>3, <2>1 DEF SameWindow, IsWin, HasFields, WinFields
<1> HIDE DEF st, n, w
<1> QED BY <1>2, <1>3, <1>4, <1>5, <1>6, RefreshActs, ActsStep

LEMMA ToggleStep ==
    ASSUME PopupInv, ToggleSelectedRegisterPrivate
    PROVE  PopupInv'
<1>1. PICK text :
        LET s    == Settled(win, store, text)
            item == SelectedItem(s.win.m)
            st   == [s.store EXCEPT !.undo = NoUndo]
        IN  \/ Acts([win |-> RefreshAfterRegisterOp(s.win, st, item[2]), store |-> st])
            \/ Acts(s)
  BY DEF ToggleSelectedRegisterPrivate
<1> DEFINE s    == Settled(win, store, text)
           item == SelectedItem(s.win.m)
           st   == [s.store EXCEPT !.undo = NoUndo]
<1>2. Watching /\ tasks' = tasks
  BY DEF ToggleSelectedRegisterPrivate
<1>3. SameWindow(win, s.win) /\ IsStore(s.store) /\ (tasks = <<>> => Fresh(s.win, s.store))
  BY <1>2, SettlesFresh
<1>4. \/ Acts([win |-> RefreshAfterRegisterOp(s.win, st, item[2]), store |-> st])
      \/ Acts(s)
  BY <1>1
<1> HIDE DEF s, item
<1>5. IsStore(st)
  BY <1>3, PutKeeps
<1> HIDE DEF st
<1> QED BY <1>2, <1>3, <1>4, <1>5, RefreshActs, ActsStep

LEMMA UndoStep ==
    ASSUME PopupInv, IsSeq(tasks), UndoLastDelete
    PROVE  PopupInv'
<1>1. PICK text :
        LET s    == Settled(win, store, text)
            undo == s.store.undo
            st   == [s.store EXCEPT !.undo = NoUndo]
            put  == Put(st, undo.name, undo.value)
            id   == st.next
            back == [id |-> id, value |-> undo.value]
            In(at) == [st EXCEPT !.history = InsertAt(@, at, back), !.next = @ + 1]
            Shown(at) == RebuildFromStores(s.win, In(at))
        IN  \/ Acts(s) /\ UNCHANGED tasks
            \/ Acts([win |-> RefreshAfterRegisterOp(s.win, put, undo.name), store |-> put])
            \/ /\ \E at \in 1 .. Len(st.history) + 1 :
                    Acts([store |-> In(at),
                          win |-> [Shown(at) EXCEPT !.m = SelectRowOf(@, "history", Activity(id))]])
               /\ Notify("added", id)
  BY DEF UndoLastDelete
<1> DEFINE s    == Settled(win, store, text)
           undo == s.store.undo
           st   == [s.store EXCEPT !.undo = NoUndo]
           put  == Put(st, undo.name, undo.value)
           id   == st.next
           back == [id |-> id, value |-> undo.value]
<1>2. Watching
  BY DEF UndoLastDelete
<1>3. SameWindow(win, s.win) /\ IsStore(s.store) /\ (tasks = <<>> => Fresh(s.win, s.store))
  BY <1>2, SettlesFresh
<1>4. \/ Acts(s) /\ UNCHANGED tasks
      \/ Acts([win |-> RefreshAfterRegisterOp(s.win, put, undo.name), store |-> put])
      \/ \E at \in 1 .. Len(st.history) + 1 :
            /\ Notify("added", id)
            /\ Acts([store |-> [st EXCEPT !.history = InsertAt(@, at, back), !.next = @ + 1],
                     win   |-> [RebuildFromStores(s.win, [st EXCEPT !.history = InsertAt(@, at, back), !.next = @ + 1])
                                  EXCEPT !.m = SelectRowOf(@, "history", Activity(id))]])
  BY <1>1
<1> HIDE DEF s
<1>5. IsStore(st) /\ IsStore(put)
  <2>1. IsStore(st)
    BY <1>3, PutKeeps
  <2> HIDE DEF st
  <2> QED BY <2>1, PutKeeps
<1>6. CASE Acts(s) /\ UNCHANGED tasks
  BY <1>2, <1>3, <1>6, ActsStep
<1>7. CASE Acts([win |-> RefreshAfterRegisterOp(s.win, put, undo.name), store |-> put])
  <2> HIDE DEF put, undo
  <2> QED BY <1>2, <1>3, <1>5, <1>7, RefreshActs
<1>8. ASSUME NEW at, Notify("added", id),
             Acts([store |-> [st EXCEPT !.history = InsertAt(@, at, back), !.next = @ + 1],
                   win   |-> [RebuildFromStores(s.win, [st EXCEPT !.history = InsertAt(@, at, back), !.next = @ + 1])
                                EXCEPT !.m = SelectRowOf(@, "history", Activity(id))]])
      PROVE  PopupInv'
  <2> DEFINE in  == [st EXCEPT !.history = InsertAt(@, at, back), !.next = @ + 1]
             r   == RebuildFromStores(s.win, in)
             n   == SelectRowOf(r.m, "history", Activity(id))
             new == [store |-> in, win |-> [r EXCEPT !.m = n]]
  <2> HIDE DEF st, back, id
  <2>1. IsStore(in)
    BY <1>5 DEF IsStore, HasFields, StoreFields
  <2>2. SameWindow(win, r)
    BY <1>3, RebuildLists DEF SameWindow
  <2>3. SameList(r.m, n)
    BY <2>2, OperationsKeepList DEF SameWindow, IsWin
  <2>4. SameWindow(win, [r EXCEPT !.m = n])
    <3> HIDE DEF r, n
    <3> QED BY <2>2, <2>3, NewModelKeeps DEF SameWindow
  <2>5. tasks' # <<>>
    BY <1>2, <1>8, SequenceGrows DEF Notify
  <2>6. Acts(new)
    BY <1>8
  <2>7. SameWindow(win, new.win) /\ IsStore(new.store)
    BY <2>1, <2>4
  <2> HIDE DEF new
  <2> QED BY <1>2, <2>5, <2>6, <2>7, ActsStep
<1> QED BY <1>4, <1>6, <1>7, <1>8

(* A paste: what is pasted is on the clipboard by then, unless that could not
   be opened.                                                               *)
LEMMA ActivateStep ==
    ASSUME PopupInv, ActivateSelected
    PROVE  PopupInv'
<1>1. PICK text \in EditorTexts, shift \in BOOLEAN, written \in BOOLEAN :
        LET s       == Settled(win, store, text)
            item    == SelectedItem(s.win.m)
            applied == TextOf(s.store, item) # NoValue
            ask     == [Ask("paste", s.win.prev) EXCEPT !.overtaken = ~written]
        IN  IF item = NoItem THEN Acts(s) /\ UNCHANGED tasks
            ELSE /\ applied /\ IsRegister(item) => store.next <= MaxItems
                 /\ store' = IF applied THEN MadeCurrent(s.store, item, written) ELSE s.store
                 /\ CASE applied /\ IsActivity(item) -> Notify("moved", item[2])
                      [] applied /\ IsRegister(item) -> Notify("added", s.store.next)
                      [] OTHER -> UNCHANGED tasks
                 /\ Dismiss(s.win)
                 /\ IF applied /\ ~shift
                    THEN BeginPasteInjection(s.win.prev, [kind |-> "paste"], ask)
                    ELSE UNCHANGED <<paste, asked, sent>>
                 /\ UNCHANGED posted
  BY DEF ActivateSelected
<1> DEFINE s       == Settled(win, store, text)
           item    == SelectedItem(s.win.m)
           applied == TextOf(s.store, item) # NoValue
           ask     == [Ask("paste", s.win.prev) EXCEPT !.overtaken = ~written]
<1>2. Watching
  BY DEF ActivateSelected
<1>3. /\ SameWindow(win, s.win) /\ IsStore(s.store) /\ (tasks = <<>> => Fresh(s.win, s.store))
      /\ ~Editing(win) => s.win = win /\ s.store = store
  BY <1>2, SettlesFresh
<1>4. CASE item = NoItem
  <2>1. Acts(s) /\ tasks' = tasks
    BY <1>1, <1>4
  <2> HIDE DEF s
  <2> QED BY <1>2, <1>3, <2>1, ActsStep
<1>5. CASE item # NoItem
  <2>1. /\ store' = IF applied THEN MadeCurrent(s.store, item, written) ELSE s.store
        /\ Dismiss(s.win)
        /\ IF applied /\ ~shift
           THEN BeginPasteInjection(s.win.prev, [kind |-> "paste"], ask)
           ELSE UNCHANGED <<paste, asked, sent>>
    BY <1>1, <1>5
  <2>2. ~Editing(win) => item = SelectedItem(win.m) /\ s.store = store
    BY <1>3
  <2> HIDE DEF s, item
  <2>3. /\ IsStore(MadeCurrent(s.store, item, written))
        /\ written => MadeCurrent(s.store, item, written).clip = TextOf(s.store, item)
    <3> DEFINE moved == IF IsActivity(item) THEN ToFront(s.store, item[2])
                        ELSE NewClip(s.store, TextOf(s.store, item))
    <3>1. IsStore(moved)
      BY <1>3 DEF ToFront, NewClip, IsStore, HasFields, StoreFields
    <3>2. MadeCurrent(s.store, item, written)
            = [moved EXCEPT !.undo = NoUndo, !.clip = IF written THEN TextOf(s.store, item) ELSE @]
      BY DEF MadeCurrent
    <3> HIDE DEF moved
    <3> QED BY <3>1, <3>2 DEF IsStore, HasFields, StoreFields
  <2>4. IsStore(store')
    BY <1>3, <2>1, <2>3
  <2>5. CASE UNCHANGED <<paste, asked, sent>>
    BY <1>2, <1>3, <2>1, <2>4, <2>5, CloseStep DEF SameWindow
  <2>6. CASE /\ applied /\ s.win.prev \in desk.open
             /\ paste' = [target |-> s.win.prev, left |-> PasteRetries, streak |-> 0, what |-> [kind |-> "paste"]]
             /\ asked' = ask /\ sent' = NoAsk
    <3>1. /\ IsAsk(asked') /\ asked'.kind = "paste" /\ asked'.target = s.win.prev
          /\ asked'.value = TextOf(store, SelectedItem(win.m)) /\ asked'.renaming = Editing(win)
          /\ asked'.overtaken = ~written
      <4>1. asked' = [Ask("paste", s.win.prev) EXCEPT !.overtaken = ~written]
        BY <2>6
      <4> QED BY <4>1 DEF Ask, IsAsk, HasFields, AskFields
    <3>2. IsPaste(paste') /\ paste'.what.kind = "paste" /\ paste'.target = s.win.prev
      BY <2>6 DEF IsPaste, HasFields, PasteFields
    <3>3. ToSend' = store'.clip
      BY <3>2 DEF ToSend
    <3>4. store'.clip = asked'.value \/ asked'.renaming \/ asked'.overtaken
      BY <2>1, <2>2, <2>3, <2>6, <3>1
    <3>5. win'.phase = "hidden"
      BY <1>3, <2>1, HiddenWindow DEF Dismiss, SameWindow
    <3>6. asked' # NoAsk
      BY <3>1 DEF NoAsk
    <3>7. RequestInv'
      BY <2>6, <3>1, <3>2, <3>3, <3>4, <3>5, <3>6 DEF RequestInv
    <3>8. TypesConfirmed'
      BY <3>1 DEF TypesConfirmed
    <3> QED BY <1>3, <2>1, <2>4, <2>6, <3>7, <3>8, DismissStep DEF SameWindow
  <2> QED BY <2>1, <2>5, <2>6 DEF BeginPasteInjection
<1> QED BY <1>4, <1>5

(* What a confirmation says of an item after a write.                       *)
LEMMA RequotedSays ==
    ASSUME QuoteInv, quoted # NoQuote, NEW st
    PROVE  /\ Requoted(st) # NoQuote
           /\ Requoted(st).current => Requoted(st).value = TextOf(st, quoted.item)
<1>1. IsQuote(quoted)
  BY DEF QuoteInv
<1>2. CASE TextOf(st, quoted.item) # quoted.value
  <2>1. Requoted(st) = [quoted EXCEPT !.current = FALSE]
    BY <1>2 DEF Requoted
  <2>2. IsQuote(Requoted(st)) /\ ~Requoted(st).current
    BY <1>1, <2>1 DEF IsQuote, HasFields, QuoteFields
  <2> QED BY <2>2, QuoteIsSome
<1>3. CASE TextOf(st, quoted.item) = quoted.value
  BY <1>3 DEF Requoted
<1> QED BY <1>2, <1>3

LEMMA TypeStep ==
    ASSUME PopupInv, TypeSelected
    PROVE  PopupInv'
<1>1. PICK text \in EditorTexts, refused \in BOOLEAN :
        LET s     == Settled(win, store, text)
            item  == SelectedItem(s.win.m)
            v     == TextOf(s.store, item)
            armed == s.win.armed = item
            ask   == [Ask("type", s.win.prev) EXCEPT !.quoted = Requoted(s.store)]
            Arm(i) == [s EXCEPT !.win.armed = i]
        IN  \/ /\ item = NoItem /\ ~refused
               /\ Acts(s)
            \/ /\ item # NoItem /\ (refused \/ v = NoValue)
               /\ Acts(Arm(NoItem))
            \/ /\ item # NoItem /\ v \in Long /\ ~refused /\ ~armed
               /\ win' = Arm(item).win /\ store' = s.store
               /\ quoted' = [item |-> item, value |-> v, current |-> TRUE]
               /\ UNCHANGED <<posted, desk, paste, asked, sent>>
            \/ /\ item # NoItem /\ v # NoValue /\ ~refused /\ (v \in Long => armed)
               /\ store' = s.store
               /\ Dismiss(s.win)
               /\ BeginPasteInjection(s.win.prev, [kind |-> "type", value |-> v], ask)
               /\ UNCHANGED posted
  BY DEF TypeSelected
<1> DEFINE s     == Settled(win, store, text)
           item  == SelectedItem(s.win.m)
           v     == TextOf(s.store, item)
           ask   == [Ask("type", s.win.prev) EXCEPT !.quoted = Requoted(s.store)]
           Arm(i) == [s EXCEPT !.win.armed = i]
<1>2. Watching /\ tasks' = tasks
  BY DEF TypeSelected
<1>3. /\ HasFields(s, {"win", "store"})
      /\ SameWindow(win, s.win) /\ IsStore(s.store) /\ (tasks = <<>> => Fresh(s.win, s.store))
      /\ ~Editing(win) => s.win = win /\ s.store = store
  BY <1>2, SettlesFresh
<1>4. \/ Acts(s)
      \/ Acts(Arm(NoItem))
      \/ /\ item # NoItem /\ win' = Arm(item).win /\ store' = s.store
         /\ quoted' = [item |-> item, value |-> v, current |-> TRUE]
         /\ UNCHANGED <<desk, paste, asked, sent>>
      \/ /\ item # NoItem /\ (v \in Long => s.win.armed = item)
         /\ store' = s.store
         /\ Dismiss(s.win)
         /\ BeginPasteInjection(s.win.prev, [kind |-> "type", value |-> v], ask)
  BY <1>1
<1>5. ~Editing(win) => item = SelectedItem(win.m)
  BY <1>3
<1> HIDE DEF s, item
<1>6. ASSUME NEW i
      PROVE  /\ IsWin(Arm(i).win) /\ Arm(i).win.phase = win.phase /\ Arm(i).win.armed = i
             /\ tasks = <<>> => Fresh(Arm(i).win, s.store)
             /\ Arm(i).store = s.store
  <2>1. Arm(i).win = [s.win EXCEPT !.armed = i] /\ Arm(i).store = s.store
    BY <1>3 DEF HasFields
  <2> DEFINE w == [s.win EXCEPT !.armed = i]
  <2>2. IsWin(w) /\ w.phase = s.win.phase /\ w.armed = i /\ w.m = s.win.m /\ w.missed = s.win.missed
        /\ w.editing = s.win.editing
    BY <1>3 DEF SameWindow, IsWin, HasFields, WinFields
  <2> HIDE DEF w
  <2>3. tasks = <<>> => Fresh(w, s.store)
    BY <1>3, <2>2 DEF Fresh, Listing, Editing
  <2>4. Arm(i).win = w
    BY <2>1 DEF w
  <2> HIDE DEF Arm
  <2> QED BY <1>3, <2>1, <2>2, <2>3, <2>4 DEF SameWindow
<1>7. CASE Acts(s)
  BY <1>2, <1>3, <1>7, ActsStep
<1>8. CASE Acts(Arm(NoItem))
  <2> DEFINE a == Arm(NoItem)
  <2>1. /\ IsWin(a.win) /\ a.win.phase = win.phase /\ a.win.armed = NoItem
        /\ (tasks = <<>> => Fresh(a.win, s.store)) /\ a.store = s.store /\ Acts(a)
    BY <1>6, <1>8
  <2> HIDE DEF Arm, a
  <2>2. win' = a.win /\ store' = s.store /\ quoted' = Requoted(store')
        /\ UNCHANGED <<desk, paste, asked, sent>>
    BY <2>1 DEF Acts
  <2>3. QuoteInv'
    BY <2>1, <2>2, RequotedKeeps DEF PopupInv
  <2> QED BY <1>2, <1>3, <2>1, <2>2, <2>3, ShownStep DEF Watching
<1>9. CASE /\ item # NoItem /\ win' = Arm(item).win /\ store' = s.store
           /\ quoted' = [item |-> item, value |-> v, current |-> TRUE]
           /\ UNCHANGED <<desk, paste, asked, sent>>
  <2>1. /\ IsWin(win') /\ win'.phase = win.phase /\ win'.armed = item
        /\ tasks = <<>> => Fresh(win', s.store)
    BY <1>6, <1>9
  <2> HIDE DEF Arm
  <2>2. IsQuote(quoted') /\ quoted'.item = item /\ quoted'.value = TextOf(store', item)
    BY <1>9 DEF IsQuote, HasFields, QuoteFields
  <2>3. QuoteInv'
    BY <2>1, <2>2, QuoteIsSome DEF QuoteInv
  <2> QED BY <1>2, <1>3, <1>9, <2>1, <2>3, ShownStep DEF Watching
<1>10. CASE /\ item # NoItem /\ (v \in Long => s.win.armed = item)
            /\ store' = s.store
            /\ Dismiss(s.win)
            /\ BeginPasteInjection(s.win.prev, [kind |-> "type", value |-> v], ask)
  <2>1. CASE UNCHANGED <<paste, asked, sent>>
    BY <1>2, <1>3, <1>10, <2>1, CloseStep DEF SameWindow
  <2>2. CASE /\ paste' = [target |-> s.win.prev, left |-> PasteRetries, streak |-> 0,
                          what |-> [kind |-> "type", value |-> v]]
             /\ asked' = ask /\ sent' = NoAsk
    <3>1. /\ IsAsk(asked') /\ asked'.kind = "type" /\ asked'.target = s.win.prev
          /\ asked'.value = TextOf(store, SelectedItem(win.m)) /\ asked'.renaming = Editing(win)
          /\ asked'.quoted = Requoted(s.store)
      <4>1. asked' = [Ask("type", s.win.prev) EXCEPT !.quoted = Requoted(s.store)]
        BY <2>2
      <4> QED BY <4>1 DEF Ask, IsAsk, HasFields, AskFields
    <3>2. /\ IsPaste(paste') /\ paste'.what.kind = "type" /\ paste'.target = s.win.prev
          /\ paste'.what.value = v
      BY <2>2 DEF IsPaste, HasFields, PasteFields
    <3>3. ToSend' = v
      BY <3>2 DEF ToSend
    <3>4. v = asked'.value \/ asked'.renaming
      BY <1>3, <1>5, <3>1
    <3>5. win'.phase = "hidden"
      BY <1>3, <1>10, HiddenWindow DEF Dismiss, SameWindow
    <3>6. asked' # NoAsk
      BY <3>1 DEF NoAsk
    <3> HIDE DEF v, ask
    <3>7. RequestInv'
      BY <2>2, <3>1, <3>2, <3>3, <3>4, <3>5, <3>6 DEF RequestInv
    <3>8. ASSUME v \in Long
          PROVE  Requoted(s.store) # NoQuote /\ (Requoted(s.store).current => Requoted(s.store).value = v)
      <4>1. quoted # NoQuote /\ quoted.item = item
        BY <1>3, <1>10, <3>8 DEF SameWindow, PopupInv, QuoteInv
      <4> QED BY <4>1, RequotedSays DEF PopupInv, v
    <3>9. TypesConfirmed'
      BY <3>1, <3>2, <3>8 DEF TypesConfirmed
    <3> QED BY <1>3, <1>10, <2>2, <3>7, <3>9, DismissStep DEF SameWindow
  <2> QED BY <1>10, <2>1, <2>2 DEF BeginPasteInjection
<1> QED BY <1>4, <1>7, <1>8, <1>9, <1>10

-----------------------------------------------------------------------------
(* Whatever the watcher is told is appended; the window takes the first.    *)
LEMMA TasksStep ==
    ASSUME IsSeq(tasks), Next
    PROVE  IsSeq(tasks')
<1>1. ASSUME NEW type, NEW id, Notify(type, id)
      PROVE  IsSeq(tasks')
  BY <1>1, SequenceGrows DEF Notify
<1>2. CASE WatcherTask
  <2>1. tasks \in Seq({tasks[i] : i \in DOMAIN tasks}) /\ tasks # <<>> /\ tasks' = Tail(tasks)
    BY <1>2 DEF WatcherTask, IsSeq
  <2>2. Tail(tasks) \in Seq({tasks[i] : i \in DOMAIN tasks})
    BY <2>1, HeadTailProperties
  <2> QED BY <2>1, <2>2, SomeSequence
<1>3. CASE ClipArrives \/ ClipMoves \/ ClipRemoved
  BY <1>1, <1>3 DEF ClipArrives, ClipMoves, ClipRemoved, HistoryChanges
<1>4. CASE DeleteSelected
  <2>1. \/ tasks' = tasks
        \/ \E type, id : Notify(type, id)
    BY <1>4 DEF DeleteSelected
  <2> QED BY <1>1, <2>1
<1>5. CASE UndoLastDelete
  <2>1. \/ tasks' = tasks
        \/ \E type, id : Notify(type, id)
    BY <1>5 DEF UndoLastDelete
  <2> QED BY <1>1, <2>1
<1>6. CASE ActivateSelected
  <2>1. \/ tasks' = tasks
        \/ \E type, id : Notify(type, id)
    BY <1>6 DEF ActivateSelected
  <2> QED BY <1>1, <2>1
<1>7. CASE UserInput /\ ~DeleteSelected /\ ~UndoLastDelete /\ ~ActivateSelected
  BY <1>7 DEF UserInput, MoveHighlight, PointerPressed, EditFilter, Escape, Closes, InWindow,
     BeginRenameSelected, NameEditorKey, ClickAway, SaveSelected, ToggleSelectedRegisterPrivate, TypeSelected
<1>8. CASE \/ Summon \/ BeginActivityNotifications \/ Close \/ DismissPosted \/ TextChanged
           \/ ArmTimeout \/ OnPasteTimer \/ SwitchWindow \/ CloseWindow \/ FlyoutTakesForeground
           \/ RegisterChanges
  BY <1>8 DEF Summon, BeginActivityNotifications, Close, Closes, DismissPosted, TextChanged,
     ArmTimeout, OnPasteTimer, SwitchWindow, CloseWindow, FlyoutTakesForeground, RegisterChanges
<1> QED BY <1>2, <1>3, <1>4, <1>5, <1>6, <1>7, <1>8 DEF Next

LEMMA PopupStep ==
    ASSUME PopupInv, IsSeq(tasks), [Next]_vars
    PROVE  PopupInv'
<1>1. CASE UNCHANGED vars
  BY <1>1, IdleStep DEF vars
<1>2. CASE Next
  <2>1. CASE UserInput
    BY <2>1, BrowseStep, EditorStep, DeleteStep, SaveStep, UndoStep, ToggleStep, ActivateStep, TypeStep
       DEF UserInput
  <2> QED BY <1>2, <2>1, SummonStep, BeginStep, ClosesStep, DismissPostedStep, TextChangedStep,
             WatcherTaskStep, ArmTimeoutStep, PasteTimerStep, DesktopStep, ClipStep, RegisterStep
             DEF Next, Close
<1> QED BY <1>1, <1>2

(* PopupInv holds in every state: whatever the user, the stores and the other
   windows do in between.                                                   *)
THEOREM PopupInvariant == Spec => []PopupInv
<1> DEFINE Queued == IsSeq(tasks)
<1>1. Init => Queued
  BY EmptySeq, SomeSequence DEF Init
<1>2. Queued /\ [Next]_vars => Queued'
  BY TasksStep DEF vars
<1>3. Init => PopupInv
  BY PopupStarts
<1>4. PopupInv /\ Queued /\ [Next]_vars => PopupInv'
  BY PopupStep
<1> HIDE DEF Queued
<1> QED BY <1>1, <1>2, <1>3, <1>4, PTL DEF Spec

(* A popup at rest lists the history (RebuildFromStores, and the watcher that
   calls for it).                                                           *)
THEOREM PopupListsTheHistory == Spec => []ListsTheHistory
<1>1. PopupInv => ListsTheHistory
  BY DEF PopupInv, ListInv, Fresh, Listing, ListsTheHistory
<1> QED BY <1>1, PopupInvariant, PTL

(* What is sent is what was asked for, to the window it was meant for
   (BeginPasteInjection, OnPasteTimer).                                     *)
THEOREM PopupSendsWhatWasAsked == Spec => []SendsWhatWasAsked
<1>1. PopupInv => SendsWhatWasAsked
  BY DEF PopupInv
<1> QED BY <1>1, PopupInvariant, PTL

(* A long text is typed only after its confirmation (TypeSelected).         *)
THEOREM PopupTypesConfirmed == Spec => []TypesConfirmed
<1>1. PopupInv => TypesConfirmed
  BY DEF PopupInv
<1> QED BY <1>1, PopupInvariant, PTL

=============================================================================
