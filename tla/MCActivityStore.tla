-------------------------- MODULE MCActivityStore --------------------------
(* Two stamped events of different size and an unstamped one, two threads,
   and limits: by size, which one item of each size fits; by size, less than a
   big item has, and which the last one may exceed; by number and by age.     *)
EXTENDS ActivityStore

CONSTANTS g1, g2

MCBytes == [g \in Events |-> IF g = g1 THEN 1 ELSE 2]

MCLimits ==
    {[maxItems |-> 0, maxBytes |-> 3, aged |-> FALSE], [maxItems |-> 2, maxBytes |-> 1, aged |-> FALSE],
     [maxItems |-> 2, maxBytes |-> 0, aged |-> TRUE]}

=============================================================================
