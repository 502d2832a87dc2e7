---------------------------- MODULE MCDiscovery ----------------------------
(* Two instances and room for one dial: two devices that compete for it, or
   one device that announces itself again, at the same endpoint or another.  *)
EXTENDS Discovery

CONSTANTS i1, i2, e1, e2

MCAnnouncers ==
    {[i \in Instances |-> IF i = i1 THEN [host |-> 1, endpoint |-> e1] ELSE second] :
        second \in {[host |-> 2, endpoint |-> e1], [host |-> 1, endpoint |-> e1],
                    [host |-> 1, endpoint |-> e2]}}

=============================================================================
