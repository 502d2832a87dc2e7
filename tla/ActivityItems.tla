--------------------------- MODULE ActivityItems ---------------------------
(***************************************************************************)
(* The list of the clipboard's history (ClipboardActivityStore.cpp): the   *)
(* operators on items_, which is kept in the order of the events' stamps.  *)
(* An item is a record of at least a guid (the event), a stamp             *)
(* (meta.timestamp, given where the event happened), when it was learned   *)
(* (header.timestamp) and how big it is.                                   *)
(***************************************************************************)
EXTENDS Naturals, SequencesExt

CONSTANTS NoGuid    \* the all-zero guid of an event nobody stamped

Guids(items) == {items[i].guid : i \in DOMAIN items} \ {NoGuid}

(* Mutant of InsertByStamp: the order of arrival.                          *)
InsertAtEnd(items, item) == Append(items, item)

(* std::lower_bound by stamp: in front of the items of the same stamp.      *)
InsertByStamp(items, item) ==
    LET earlier == {i \in DOMAIN items : items[i].stamp < item.stamp}
    IN  InsertAt(items, Cardinality(earlier) + 1, item)

(* The item of an event, by its place in the list.                          *)
PlaceOf(items, guid) == CHOOSE i \in DOMAIN items : items[i].guid = guid

(* Mutant of AddItem: an event told again always moves, older stamps too.  *)
AddItemAlways(items, item) ==
    IF item.guid \notin Guids(items) THEN InsertByStamp(items, item)
    ELSE LET at == PlaceOf(items, item.guid)
         IN  InsertByStamp(RemoveAt(items, at), [item EXCEPT !.id = items[at].id])

(* AddItem without the limits: an event that is known stays as it is unless
   its stamp is newer, and then it moves, keeping its place's identity.      *)
AddItem(items, item) ==
    IF item.guid \notin Guids(items) THEN InsertByStamp(items, item)
    ELSE LET at    == PlaceOf(items, item.guid)
             moved == [item EXCEPT !.id = items[at].id]
         IN  IF item.stamp <= items[at].stamp THEN items
             ELSE InsertByStamp(RemoveAt(items, at), moved)

(* RemoveByEventGuid: an unstamped item cannot be named.                    *)
RemoveByEventGuid(items, guid) ==
    IF guid \in Guids(items) THEN RemoveAt(items, PlaceOf(items, guid)) ELSE items

(* The bytes of all items, counted one by one.                              *)
TotalBytes(items) == Cardinality(UNION {{i} \X (1..items[i].bytes) : i \in DOMAIN items})

(* The places of S, from the front.                                         *)
InOrder(S) ==
    CHOOSE f \in [1..Cardinality(S) -> S] : \A m, n \in DOMAIN f : m < n => f[m] < f[n]

(* What is left when every item is erased whose place is not in S.          *)
Keep(items, S) == [n \in 1..Cardinality(S) |-> items[InOrder(S)[n]]]

(* ApplyLimitsLocked: what is too old goes, wherever it is; then the front,
   while there are too many items or too many bytes.  The last item stays
   however big it is.  A limit of 0 is no limit.                            *)
ApplyLimits(items, limits, cutoff) ==
    LET fresh == IF limits.aged THEN Keep(items, {i \in DOMAIN items : items[i].learned >= cutoff})
                 ELSE items
        Fits(from) ==
            LET rest == SubSeq(fresh, from, Len(fresh))
            IN  /\ limits.maxItems # 0 => Len(rest) <= limits.maxItems
                /\ limits.maxBytes # 0 => Len(rest) <= 1 \/ TotalBytes(rest) <= limits.maxBytes
        first == CHOOSE from \in 1..(Len(fresh) + 1) :
                    Fits(from) /\ \A n \in 1..(from - 1) : ~Fits(n)
    IN  SubSeq(fresh, first, Len(fresh))

(* ItemsSince: what follows the anchor, or the newest maxItems when there is
   no anchor or nobody knows it.                                            *)
ItemsSince(items, anchor, maxItems) ==
    LET tail == IF Len(items) > maxItems THEN Len(items) - maxItems + 1 ELSE 1
        from == IF anchor \in Guids(items) THEN PlaceOf(items, anchor) + 1 ELSE tail
        upto == IF from + maxItems - 1 < Len(items) THEN from + maxItems - 1 ELSE Len(items)
    IN  SubSeq(items, from, upto)

=============================================================================
