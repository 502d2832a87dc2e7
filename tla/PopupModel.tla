---------------------------- MODULE PopupModel ----------------------------
(***************************************************************************)
(* The state of the visual-paste popup that no platform knows of           *)
(* (PopupModel.cpp): two groups of items, a filter, one highlight and the  *)
(* input mode, as operators on a record.  The highlight is a group and a   *)
(* place in what the filter lets through of it, counted from 1.            *)
(*                                                                         *)
(* An item is a pair of its kind and the name of a register or the number  *)
(* of a history item.  The filter is empty or the one text a user types;   *)
(* Found has the items that text matches.                                  *)
(***************************************************************************)
EXTENDS Naturals, SequencesExt, FiniteSetsExt

CONSTANTS Found, NoItem

Nothing  == [group |-> "none", index |-> 0]
NewModel == [registers |-> <<>>, history |-> <<>>, filter |-> "",
             highlight |-> Nothing, mode |-> "browse"]

Group == {"registers", "history"}
Other(group) == IF group = "history" THEN "registers" ELSE "history"

(* VisibleRegisters and VisibleHistory, by Refilter.                        *)
Visible(m, group) ==
    SelectSeq(m[group], LAMBDA item : m.filter = "" \/ item \in Found)

Rows(m, group) == IF group \in Group THEN Len(Visible(m, group)) ELSE 0

FirstOf(group)       == [group |-> group, index |-> 1]
Highlighting(m, sel) == [m EXCEPT !.highlight = sel]

(* A highlight that is lost lands in the preferred group if that has rows,
   else in the history, else in the registers.                              *)
Landing(m, preferred) ==
    LET inOrder == SelectSeq(<<preferred, "history", "registers">>,
                             LAMBDA group : Rows(m, group) > 0)
    IN  IF inOrder = <<>> THEN Nothing ELSE FirstOf(Head(inOrder))

(* A highlight in a group that lost its rows goes to the top of the other.  *)
ClampSelection(m, preferred) ==
    LET rows == Rows(m, m.highlight.group)
        last == [m.highlight EXCEPT !.index = Min({@, rows})]
    IN  Highlighting(m, IF rows > 0 THEN last ELSE Landing(m, preferred))

SetItems(m, registers, history) ==
    ClampSelection([m EXCEPT !.registers = registers, !.history = history],
                   m.highlight.group)

(* Another filter anchors the highlight to the top of its group.            *)
SetFilter(m, text) ==
    ClampSelection([m EXCEPT !.filter = text, !.highlight = Nothing],
                   m.highlight.group)

SelectedItem(m) ==
    IF m.highlight.index \in 1 .. Rows(m, m.highlight.group)
    THEN Visible(m, m.highlight.group)[m.highlight.index] ELSE NoItem

SelectAt(m, group, index) ==
    IF index \in 1 .. Rows(m, group)
    THEN Highlighting(m, [group |-> group, index |-> index]) ELSE m

(* What the shells do with SelectAt: the row of an item, if it has one.     *)
SelectRowOf(m, group, item) ==
    LET rows == Visible(m, group)
    IN  IF Contains(rows, item)
        THEN SelectAt(m, group, CHOOSE i \in DOMAIN rows : rows[i] = item) ELSE m

MoveUp(m) ==
    IF m.highlight.index > 1 THEN [m EXCEPT !.highlight.index = @ - 1] ELSE m

MoveDown(m) ==
    IF m.highlight.index < Rows(m, m.highlight.group)
    THEN [m EXCEPT !.highlight.index = @ + 1] ELSE m

(* MoveLeft and MoveRight: to the nearest row of the other group.           *)
MoveTo(m, group) ==
    IF m.highlight.group = Other(group) /\ Rows(m, group) > 0
    THEN Highlighting(m, [group |-> group, index |-> Min({m.highlight.index, Rows(m, group)})])
    ELSE m

EnterEditMode(m) == [m EXCEPT !.mode = "edit"]
LeaveEditMode(m) == [m EXCEPT !.mode = "browse"]

(* HandleEscape: what it leaves, and what it says it did.                   *)
EscapeResult(m) ==
    CASE m.mode = "edit" -> "left edit mode"
      [] m.mode # "edit" /\ m.filter # "" -> "cleared filter"
      [] OTHER -> "close"

HandleEscape(m) ==
    CASE EscapeResult(m) = "left edit mode" -> LeaveEditMode(m)
      [] EscapeResult(m) = "cleared filter" -> SetFilter(m, "")
      [] OTHER -> m

(* NextAutoRegisterName: the names of machine-made registers are numbers.   *)
NextAutoRegisterName(existing) == Min((1 .. Cardinality(existing) + 1) \ existing)
===========================================================================
