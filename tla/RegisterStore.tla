---------------------------- MODULE RegisterStore ----------------------------
(***************************************************************************)
(* The register store of each host while its process runs                  *)
(* (RegisterStore.cpp): the map of records and the hybrid logical clock it *)
(* owns.  One action per operation of the class; an operation runs under   *)
(* the store's mutex, so it is one step.  Operations that return early     *)
(* without changing anything are stuttering steps and have no action.  An  *)
(* operation reads the wall clock several times; the model reads it once.  *)
(***************************************************************************)
EXTENDS RegisterRecord, FiniteSets

CONSTANTS
    Hosts,          \* the devices; a device's number is its host id
    Names,          \* the valid register names
    Mirror,         \* the reserved name "" of the default-clipboard mirror
    NoRecord,       \* the name is not in the map
    Values,         \* the values a caller writes
    ValueFlags,     \* the flag bytes a caller passes
    Origins,        \* the host ids a write may be attributed to
    RemoteRecords,  \* the records a peer may send
    MaxCount,       \* cap on live registers for local writes
    MaxWall,        \* bound: highest reading of a wall clock
    MaxCounter      \* bound: highest counter a clock mints

ASSUME StoreAssumption ==
    /\ Hosts \subseteq Nat /\ Origins \subseteq Nat
    /\ Values \subseteq Nat /\ ValueFlags \subseteq FlagBytes
    /\ Mirror \notin Names /\ NoRecord \notin Record
    /\ RemoteRecords \subseteq Record
    /\ MaxCount \in Nat /\ MaxWall \in Nat /\ MaxCounter \in Nat

VARIABLES
    now,      \* now[h]: the wall clock of h
    clock,    \* clock[h]: high-water mark of h's hybrid logical clock
    store     \* store[h][n]: the record h holds under name n

storeVars == <<now, clock, store>>

Keys == Names \cup {Mirror}

Empty(keys) == [n \in keys |-> NoRecord]

StoreInit ==
    /\ now = [h \in Hosts |-> 1]
    /\ clock = [h \in Hosts |-> ZeroStamp]
    /\ store = [h \in Hosts |-> Empty(Keys)]

(***************************************************************************)
(* What a name holds, by the wall reading t.                               *)
(***************************************************************************)
Live(r, t) == r # NoRecord /\ ~IsExpired(r, t)

HoldsValue(r, t) == Live(r, t) /\ ~IsTombstone(r)

Prune(s, t) == [n \in DOMAIN s |-> IF Live(s[n], t) THEN s[n] ELSE NoRecord]

(* LiveCountLocked: the mirror and tombstones do not count.                 *)
LiveCount(s, t) == Cardinality({n \in Names : HoldsValue(s[n], t)})

CapRefuses(s, n, t) == ~HoldsValue(s[n], t) /\ LiveCount(s, t) >= MaxCount

Fresh(v, f, o, ts) ==
    [value |-> v, written |-> ts, touched |-> ts, origin |-> o, flags |-> f]

(* Every local event advances the clock (HlcClock::Now).                    *)
CanMint(h) == Mint(clock[h], now[h]).counter <= MaxCounter

MintStamp(h) ==
    /\ CanMint(h)
    /\ clock' = [clock EXCEPT ![h] = Mint(@, now[h])]
    /\ UNCHANGED now

(***************************************************************************)
(* Local operations.                                                       *)
(***************************************************************************)
(* UpsertLocked, accepted: every dead record is dropped, and the new record
   replaces whatever the name holds without a merge.                        *)
Upsert(h, n, v, f, o) ==
    /\ ~CapRefuses(Prune(store[h], now[h]), n, now[h])
    /\ MintStamp(h)
    /\ store' = [store EXCEPT ![h] =
                   [Prune(@, now[h]) EXCEPT
                      ![n] = Fresh(v, WithoutTombstone(f), o, clock'[h])]]

(* Walks that drop every dead record and change nothing else: ListNames,
   List, Digest, RecordsToPush, SnapshotForSync, and an UpsertLocked the cap
   refuses.                                                                 *)
PruneExpired(h) ==
    /\ store' = [store EXCEPT ![h] = Prune(@, now[h])]
    /\ UNCHANGED <<now, clock>>

(* Read, DeleteLocked and GetForBroadcast erase a dead record they meet.    *)
DropOnAccess(h, n) ==
    /\ store[h][n] # NoRecord
    /\ IsExpired(store[h][n], now[h])
    /\ store' = [store EXCEPT ![h][n] = NoRecord]
    /\ UNCHANGED <<now, clock>>

(* Read of a live value: the touch is refreshed with a fresh stamp.         *)
Read(h, n) ==
    /\ HoldsValue(store[h][n], now[h])
    /\ MintStamp(h)
    /\ store' = [store EXCEPT ![h][n] = [@ EXCEPT !.touched = clock'[h]]]

(* DeleteLocked of a live value: a tombstone takes its place.               *)
Delete(h, n, o) ==
    /\ HoldsValue(store[h][n], now[h])
    /\ MintStamp(h)
    /\ store' = [store EXCEPT ![h][n] = Fresh(0, Tombstone, o, clock'[h])]

(* MirrorDefault: the live clipboard text, under the reserved name.         *)
MirrorDefault(h, v) ==
    /\ MintStamp(h)
    /\ store' = [store EXCEPT ![h][Mirror] = Fresh(v, 0, h, clock'[h])]

(***************************************************************************)
(* Replication.                                                            *)
(***************************************************************************)
(* Faulty variants: the last record to arrive wins; the dead are revived.   *)
AppliedBlindly(held, r, t) == IF IsExpired(r, t) THEN held ELSE r

AppliedUndated(held, r, t) == IF Live(held, t) THEN MergeRecords(held, r) ELSE r

(* ApplyRemoteLocked on a held record (or NoRecord), for an incoming one:
   a dead incoming record is ignored, a dead or missing local one is
   replaced outright, and two live ones are merged.                         *)
Applied(held, r, t) ==
    IF IsExpired(r, t) THEN held
    ELSE IF Live(held, t) THEN MergeRecords(held, r)
    ELSE r

(* Faulty variant: the touch is merged and not witnessed.                   *)
ApplyRemoteUntouched(h, n, r) ==
    /\ clock' = [clock EXCEPT ![h] = Witness(@, r.written)]
    /\ store' = [store EXCEPT ![h][n] = Applied(@, r, now[h])]
    /\ UNCHANGED now

(* Both stamps are witnessed before the record is judged.                   *)
ApplyRemote(h, n, r) ==
    /\ clock' = [clock EXCEPT ![h] = Witness(Witness(@, r.written), r.touched)]
    /\ store' = [store EXCEPT ![h][n] = Applied(@, r, now[h])]
    /\ UNCHANGED now

(***************************************************************************)
(* Wall clocks run freely and apart, and one may be set back.              *)
(***************************************************************************)
Tick(h) ==
    /\ now[h] < MaxWall
    /\ now' = [now EXCEPT ![h] = @ + 1]
    /\ UNCHANGED <<clock, store>>

StepBack(h) ==
    /\ now[h] > 1
    /\ now' = [now EXCEPT ![h] = @ - 1]
    /\ UNCHANGED <<clock, store>>

-----------------------------------------------------------------------------
StoreStep(h) ==
    \/ \E n \in Names, v \in Values, f \in ValueFlags, o \in Origins :
          Upsert(h, n, v, f, o)
    \/ PruneExpired(h)
    \/ \E n \in Names : DropOnAccess(h, n)
    \/ \E n \in Names : Read(h, n)
    \/ \E n \in Names, o \in Origins : Delete(h, n, o)
    \/ \E v \in Values : MirrorDefault(h, v)
    \/ \E n \in Names, r \in RemoteRecords : ApplyRemote(h, n, r)
    \/ Tick(h)
    \/ StepBack(h)

StoreNext == \E h \in Hosts : StoreStep(h)

StoreSpec == StoreInit /\ [][StoreNext]_storeVars

-----------------------------------------------------------------------------
StoreTypeOK ==
    /\ now \in [Hosts -> Nat]
    /\ clock \in [Hosts -> Stamps]
    /\ store \in [Hosts -> [Keys -> Record \cup {NoRecord}]]

(* The clock of a host is at or above both stamps of every record it holds,
   whatever the peers send.  UpsertLocked and DeleteLocked overwrite without
   a merge on the strength of this ("a locally generated HLC sits above
   everything witnessed").                                                  *)
ClockCoversStore ==
    \A h \in Hosts, n \in Keys :
        store[h][n] # NoRecord =>
            /\ HlcLeq(store[h][n].written, clock[h])
            /\ HlcLeq(store[h][n].touched, clock[h])

(* What a host holds live under a name is never replaced by something older,
   loses no touch and is not dropped: an out-of-order or duplicated REGW
   cannot bring a deleted register back, and a local write cannot lose to
   the record it overwrites.                                                *)
KeepsNewest(h, n) ==
    Live(store[h][n], now[h]) =>
        /\ store'[h][n] # NoRecord
        /\ ~ValueLess(store'[h][n], store[h][n])
        /\ HlcLeq(store[h][n].touched, store'[h][n].touched)

LiveNeverRegresses ==
    [][\A h \in Hosts, n \in Keys : KeepsNewest(h, n)]_storeVars

(* A record that enters or changes in a store is alive there by the store's
   own wall clock: a dead register is not revived by a late REGW, nor by a
   merge with a record that is itself dead.                                 *)
NoDeadOnArrival ==
    [][\A h \in Hosts, n \in Keys :
          store'[h][n] # store[h][n] /\ store'[h][n] # NoRecord =>
              Live(store'[h][n], now[h])]_storeVars

=============================================================================
