-------------------------------- MODULE Hlc --------------------------------
(***************************************************************************)
(* Hybrid logical clocks (Hlc.h, Hlc.cpp).  A stamp is a wall reading in   *)
(* milliseconds and a logical counter; stamps are ordered first by wall,   *)
(* then by counter.  The C++ fields are 64 bits wide; neither a            *)
(* millisecond reading nor a count of same-millisecond events comes near   *)
(* 2^64, so Nat models both.                                               *)
(***************************************************************************)
EXTENDS Naturals

Stamps == [wallMs : Nat, counter : Nat]

ZeroStamp == [wallMs |-> 0, counter |-> 0]

HlcLess(a, b) ==
    \/ a.wallMs < b.wallMs
    \/ a.wallMs = b.wallMs /\ a.counter < b.counter

HlcLeq(a, b) == a = b \/ HlcLess(a, b)

HlcMax(a, b) == IF HlcLess(a, b) THEN b ELSE a

(* HlcClock::Now: the stamp of the next locally originated event of a clock
   whose high-water mark is last, when the wall reads phys.                 *)
Mint(last, phys) ==
    IF phys > last.wallMs
    THEN [wallMs |-> phys, counter |-> 0]
    ELSE [wallMs |-> last.wallMs, counter |-> last.counter + 1]

(* HlcClock::Witness: fold a stamp seen on a record into the high water.    *)
Witness(last, seen) == HlcMax(last, seen)

(* HlcClock::SeedFloor, as startup calls it: the persisted floor is a wall
   reading, seeded with counter 0.                                          *)
SeedFloor(last, floorMs) == HlcMax(last, [wallMs |-> floorMs, counter |-> 0])

=============================================================================
