--------------------------- MODULE RegisterRecord ---------------------------
(***************************************************************************)
(* One register record and the pure merge core of the store                *)
(* (RegisterStore.h, RegisterStore.cpp).  The register's name is the key   *)
(* under which a record is kept, so a record here carries the other fields *)
(* only.  Host ids and values are byte strings compared lexicographically; *)
(* all the merge needs of them is that order, so both are naturals.        *)
(***************************************************************************)
EXTENDS Hlc

CONSTANT TtlMs          \* idle time after which a record is dead
ASSUME TtlAssumption == TtlMs \in Nat \ {0}

(* RegisterFlags: one byte, of which three bits are assigned.               *)
Tombstone    == 1
Private      == 2
BinaryHeader == 4
FlagBytes    == 0 .. 7

Record == [value   : Nat,
           written : Stamps,    \* stamp of the write: decides the value
           touched : Stamps,    \* stamp of the last use: decides expiry
           origin  : Nat,       \* host id the write is attributed to
           flags   : FlagBytes]

IsTombstone(r) == r.flags % 2 = 1

(* UpsertLocked masks the lifecycle bit out of the caller's value flags.    *)
WithoutTombstone(flags) == flags - (flags % 2)

(* ValueLess: the total order of value identities.  Two records of one name
   compare by write stamp, then origin; flags and value only break the ties
   of records that claim to be the same write.                              *)
ValueLess(a, b) ==
    \/ HlcLess(a.written, b.written)
    \/ /\ a.written = b.written
       /\ \/ a.origin < b.origin
          \/ /\ a.origin = b.origin
             /\ \/ a.flags < b.flags
                \/ a.flags = b.flags /\ a.value < b.value

(* MergeRecords: the winner's value, and the later of the two touches.      *)
MergeRecords(a, b) ==
    [IF ValueLess(a, b) THEN b ELSE a
        EXCEPT !.touched = HlcMax(a.touched, b.touched)]

(* IsExpired: a touch ahead of the reader's wall clock is never expired.    *)
IsExpired(r, nowMs) ==
    /\ r.touched.wallMs <= nowMs
    /\ nowMs - r.touched.wallMs >= TtlMs

=============================================================================
