---------------------------- MODULE MCRegisterMesh ----------------------------
(* Two daemons that dial each other.  The wall stands still, so writes of the
   two daemons fall in the same millisecond and nothing expires.              *)
EXTENDS RegisterMesh

CONSTANTS n1

MCDials == {<<1, 2>>, <<2, 1>>}

MCOneDial == {<<1, 2>>}

MCStamps == [wallMs : {1, 2}, counter : {0}]

MCRemoteRecords ==
    {r \in [value : {0, 1}, written : MCStamps, touched : MCStamps,
            origin : {1}, flags : {0, Tombstone}] :
        r.flags = Tombstone <=> r.value = 0}

(* What has been noted guards nothing, and no property of the run that takes
   this view is about it.                                                     *)
MCView == <<storeVars, diskVars, announcing, linkVars, uses, faults>>

=============================================================================
