---------------------------- MODULE MCRegisterHost ----------------------------
(* One daemon that crashes, loses its snapshot and has its clock set back at
   any point, against an arbitrary peer: records of both kinds, stamped before
   and after anything the daemon mints, with the touch before or after the
   write, and already dead or still alive.                                    *)
EXTENDS RegisterHost

CONSTANTS n1

MCStamps == [wallMs : {1, 2}, counter : {0}]

MCRemoteRecords ==
    {r \in [value : {0, 1}, written : MCStamps, touched : MCStamps,
            origin : {2}, flags : {0, Tombstone}] :
        r.flags = Tombstone => r.value = 0}

=============================================================================
