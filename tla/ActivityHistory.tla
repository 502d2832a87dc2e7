-------------------------- MODULE ActivityHistory --------------------------
(***************************************************************************)
(* What the clipboard's history promises, whatever it is stored in: a set  *)
(* of items, one for each event it was told of; an event told again only   *)
(* gets newer; and an item leaves because it was deleted, because it is    *)
(* too old, or because newer ones fill the limits.                         *)
(***************************************************************************)
EXTENDS Naturals, FiniteSets

CONSTANTS
    NoGuid,      \* the guid of an event nobody stamped
    Facts,       \* what the history can be told: guid, stamp, learned, bytes
    Limits       \* the limits that can be set

VARIABLES
    held,        \* the items: id and fact
    given,       \* the ids given so far are 1..given
    limit        \* the limits in force

vars == <<held, given, limit>>

Init == held = {} /\ given = 0 /\ limit \in Limits

(* The bytes that the items of S take: each byte of each of them.           *)
BytesOf(S) == UNION {{i} \X (1..i.fact.bytes) : i \in S}

WithinLimits(S) ==
    /\ limit'.maxItems # 0 => Cardinality(S) <= limit'.maxItems
    /\ limit'.maxBytes # 0 => Cardinality(S) <= 1 \/ Cardinality(BytesOf(S)) <= limit'.maxBytes

(* The newest items of S: what is left out is no newer than what is kept.   *)
Newest(S, kept) ==
    kept \subseteq S /\ \A i \in kept, j \in S \ kept : j.fact.stamp <= i.fact.stamp

(* The last item that went, one of the newest of those: it would not have fit. *)
NoRoomFor(gone, kept) ==
    gone = {} \/ \E last \in gone : /\ \A i \in gone : i.fact.stamp <= last.fact.stamp
                                  /\ ~WithinLimits(kept \cup {last})

(* kept is what the limits leave of S: some of the old ones are gone, and
   then no more of the rest than the limits ask for.                        *)
Trimmed(S, kept) ==
    \E tooOld \in SUBSET S :
        LET rest == S \ tooOld
        IN  /\ tooOld # {} => limit'.aged /\ \A i \in tooOld, j \in rest :
                                                i.fact.learned < j.fact.learned
            /\ Newest(rest, kept) /\ WithinLimits(kept) /\ NoRoomFor(rest \ kept, kept)

Learn(fact) ==
    /\ UNCHANGED limit
    /\ LET known == {i \in held : i.fact.guid = fact.guid /\ fact.guid # NoGuid}
           told  == IF known = {} THEN held \cup {[id |-> given + 1, fact |-> fact]}
                    ELSE {IF i \in known /\ fact.stamp > i.fact.stamp
                          THEN [i EXCEPT !.fact = fact] ELSE i : i \in held}
       IN  /\ given' = IF known = {} THEN given + 1 ELSE given
           /\ \/ Trimmed(told, held')
              \/ held' = held /\ told = held

Forget == \E i \in held : held' = held \ {i} /\ UNCHANGED <<given, limit>>

Clean == Trimmed(held, held') /\ limit' \in Limits /\ UNCHANGED given

Next == (\E fact \in Facts : Learn(fact)) \/ Forget \/ Clean

Spec == Init /\ [][Next]_vars

=============================================================================
