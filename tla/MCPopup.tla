----------------------------- MODULE MCPopup -----------------------------
(***************************************************************************)
(* Two registers, a short text and two long ones, two windows.  The search *)
(* matches the second register and the first item of the history.          *)
(***************************************************************************)
EXTENDS Popup

CONSTANTS short, long, other

MCName  == 1 .. 2
MCValue == {short, long, other}
MCLong  == {long, other}
MCSaved == {[regs |-> [n \in MCName |-> IF n = 1 THEN short ELSE long], clip |-> other]}
MCSymmetry == Permutations(Window)
MCFound == {<<"R", 2>>, <<"H", 1>>}
===========================================================================
