--------------------------- MODULE MCClipSharing ---------------------------
(* A host on a platform that marks what the program writes and one on a platform
   that does not, connected both ways.                                       *)
EXTENDS ClipSharing

CONSTANTS w, m, x, y, s, s1, s2

MCDials == {<<w, m>>, <<m, w>>}
MCSymmetry == Permutations({x, y}) \cup Permutations({s1, s2})

MCLimits == [maxItems |-> 0, maxBytes |-> 0, aged |-> FALSE]

(* Where users do not wait and somebody has changed a history, now and for ever
   neither property says anything: such states are not followed further.     *)
MCFollowed == calm \/ actions = 0

=============================================================================
