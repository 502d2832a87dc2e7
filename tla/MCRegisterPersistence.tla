----------------------- MODULE MCRegisterPersistence -----------------------
(* A device that moves between two groups, or leaves one and comes back.     *)
EXTENDS RegisterPersistence

CONSTANTS r1, r2, g1, g2

=============================================================================
