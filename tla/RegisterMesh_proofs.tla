------------------------- MODULE RegisterMesh_proofs -------------------------
(***************************************************************************)
(* The proofs about the registers, from the inside out: stamps and records *)
(* (Hlc, RegisterRecord), the running store (RegisterStore), and one       *)
(* daemon's store with its crashes and restarts (RegisterHost).  Then the  *)
(* daemons and their connections (RegisterMesh): for any number of daemons *)
(* and any dials, that what is under way is well-formed and that nothing   *)
(* the mesh does to a daemon takes it out of the invariant of one daemon;  *)
(* that each daemon of the mesh is one of RegisterHost; and, for two       *)
(* daemons, that a quiet mesh has caught up.                               *)
(***************************************************************************)
EXTENDS RegisterMesh, FiniteSetTheorems, SequenceTheorems, TLAPS

-----------------------------------------------------------------------------
(***************************************************************************)
(* What the pure core of the register store promises for every stamp and   *)
(* every record: stamps are totally ordered, a minted stamp is above its   *)
(* clock, and MergeRecords is a join (commutative, associative and         *)
(* idempotent), which is what lets a mesh deliver REGW frames late, twice  *)
(* or out of order.                                                        *)
(***************************************************************************)

(* Hlc operator<=> is a strict total order.                                 *)
LEMMA HlcTotal ==
    ASSUME NEW a \in Stamps, NEW b \in Stamps
    PROVE  /\ ~HlcLess(a, a)
           /\ HlcLess(a, b) => ~HlcLess(b, a)
           /\ a = b \/ HlcLess(a, b) \/ HlcLess(b, a)
<1>1. a.wallMs \in Nat /\ a.counter \in Nat /\ b.wallMs \in Nat /\ b.counter \in Nat
  BY DEF Stamps
<1>2. a.wallMs = b.wallMs /\ a.counter = b.counter => a = b
  BY DEF Stamps
<1> QED BY <1>1, <1>2 DEF HlcLess

LEMMA HlcTransitive ==
    ASSUME NEW a \in Stamps, NEW b \in Stamps, NEW c \in Stamps,
           HlcLess(a, b), HlcLess(b, c)
    PROVE  HlcLess(a, c)
BY DEF HlcLess, Stamps

(* The form later proofs use: below-or-equal composes on either side.       *)
LEMMA HlcLeqTransitive ==
    ASSUME NEW a \in Stamps, NEW b \in Stamps, NEW c \in Stamps, HlcLeq(a, b)
    PROVE  /\ HlcLeq(b, c) => HlcLeq(a, c)
           /\ HlcLess(b, c) => HlcLess(a, c)
BY HlcTransitive DEF HlcLeq

(* std::max on stamps: an upper bound of both, and one of the two.          *)
LEMMA HlcMaxBounds ==
    ASSUME NEW a \in Stamps, NEW b \in Stamps
    PROVE  /\ HlcMax(a, b) \in Stamps
           /\ HlcMax(a, b) \in {a, b}
           /\ HlcLeq(a, HlcMax(a, b))
           /\ HlcLeq(b, HlcMax(a, b))
BY HlcTotal DEF HlcMax, HlcLeq

LEMMA HlcMaxCommutes ==
    ASSUME NEW a \in Stamps, NEW b \in Stamps
    PROVE  HlcMax(a, b) = HlcMax(b, a)
BY HlcTotal DEF HlcMax

LEMMA HlcMaxAssociates ==
    ASSUME NEW a \in Stamps, NEW b \in Stamps, NEW c \in Stamps
    PROVE  HlcMax(HlcMax(a, b), c) = HlcMax(a, HlcMax(b, c))
<1>1. CASE HlcLess(a, b) /\ HlcLess(b, c)
  BY <1>1, HlcTransitive DEF HlcMax
<1>2. CASE HlcLess(a, b) /\ ~HlcLess(b, c)
  BY <1>2 DEF HlcMax
<1>3. CASE ~HlcLess(a, b) /\ HlcLess(b, c)
  BY <1>3 DEF HlcMax
<1>4. CASE ~HlcLess(a, b) /\ ~HlcLess(b, c)
  <2>1. ~HlcLess(a, c)
    BY <1>4, HlcTotal, HlcTransitive
  <2> QED BY <1>4, <2>1 DEF HlcMax
<1> QED BY <1>1, <1>2, <1>3, <1>4

(* HlcClock::Now never repeats or goes back, whatever the wall reads, and
   the stamp it mints is not behind the wall.                               *)
THEOREM MintAdvances ==
    ASSUME NEW last \in Stamps, NEW phys \in Nat
    PROVE  /\ Mint(last, phys) \in Stamps
           /\ HlcLess(last, Mint(last, phys))
           /\ phys <= Mint(last, phys).wallMs
BY DEF Mint, HlcLess, Stamps

-----------------------------------------------------------------------------
(* What ValueLess compares: two records that agree on it are the same write. *)
SameValue(a, b) ==
    /\ a.written = b.written /\ a.origin = b.origin
    /\ a.flags = b.flags /\ a.value = b.value

LEMMA RecordFields ==
    ASSUME NEW r \in Record
    PROVE  /\ r.written \in Stamps /\ r.touched \in Stamps
           /\ r.value \in Nat /\ r.origin \in Nat /\ r.flags \in Nat
BY DEF Record, FlagBytes

(* ValueLess is a strict total order of value identities.                   *)
LEMMA ValueTotal ==
    ASSUME NEW a \in Record, NEW b \in Record
    PROVE  /\ ~ValueLess(a, a)
           /\ ValueLess(a, b) => ~ValueLess(b, a)
           /\ SameValue(a, b) \/ ValueLess(a, b) \/ ValueLess(b, a)
           /\ SameValue(a, b) => ~ValueLess(a, b)
<1>1. /\ ~HlcLess(a.written, a.written)
      /\ HlcLess(a.written, b.written) => ~HlcLess(b.written, a.written)
      /\ \/ a.written = b.written
         \/ HlcLess(a.written, b.written)
         \/ HlcLess(b.written, a.written)
  BY RecordFields, HlcTotal
<1> QED BY <1>1, RecordFields DEF ValueLess, SameValue

LEMMA ValueTransitive ==
    ASSUME NEW a \in Record, NEW b \in Record, NEW c \in Record,
           ValueLess(a, b), ValueLess(b, c)
    PROVE  ValueLess(a, c)
<1>1. HlcLess(a.written, b.written) /\ HlcLess(b.written, c.written)
        => HlcLess(a.written, c.written)
  BY RecordFields, HlcTransitive
<1> QED BY <1>1, RecordFields DEF ValueLess

(* Later(a, b) is the record whose value MergeRecords keeps.                *)
Later(a, b) == IF ValueLess(a, b) THEN b ELSE a

LEMMA MergeFields ==
    ASSUME NEW a \in Record, NEW b \in Record
    PROVE  /\ MergeRecords(a, b) \in Record
           /\ MergeRecords(a, b).touched = HlcMax(a.touched, b.touched)
           /\ SameValue(MergeRecords(a, b), Later(a, b))
<1>1. HlcMax(a.touched, b.touched) \in Stamps
  BY RecordFields, HlcMaxBounds
<1> QED BY <1>1 DEF MergeRecords, Later, SameValue, Record

LEMMA SameRecord ==
    ASSUME NEW a \in Record, NEW b \in Record,
           SameValue(a, b), a.touched = b.touched
    PROVE  a = b
BY DEF SameValue, Record

(* Two replicas that exchange their records agree, whoever merges first.    *)
THEOREM MergeCommutes ==
    ASSUME NEW a \in Record, NEW b \in Record
    PROVE  MergeRecords(a, b) = MergeRecords(b, a)
<1>1. SameValue(Later(a, b), Later(b, a))
  BY ValueTotal DEF Later, SameValue
<1>2. MergeRecords(a, b).touched = MergeRecords(b, a).touched
  BY MergeFields, RecordFields, HlcMaxCommutes
<1>3. SameValue(MergeRecords(a, b), MergeRecords(b, a))
  BY <1>1, MergeFields DEF SameValue
<1> QED BY <1>2, <1>3, MergeFields, SameRecord

(* A duplicated REGW changes nothing: the merge is idempotent, and so is
   merging again what was merged already.                                   *)
THEOREM MergeIdempotent ==
    ASSUME NEW a \in Record, NEW b \in Record
    PROVE  /\ MergeRecords(a, a) = a
           /\ MergeRecords(MergeRecords(a, b), b) = MergeRecords(a, b)
<1> DEFINE m == MergeRecords(a, b)
<1>1. MergeRecords(a, a) = a
  <2>1. SameValue(MergeRecords(a, a), a)
    BY MergeFields DEF Later, SameValue
  <2>2. MergeRecords(a, a).touched = a.touched
    BY MergeFields, RecordFields, HlcMaxBounds
  <2> QED BY <2>1, <2>2, MergeFields, SameRecord
<1>2. m \in Record /\ SameValue(m, Later(a, b)) /\ m.touched = HlcMax(a.touched, b.touched)
  BY MergeFields
<1>3. SameValue(Later(m, b), m)
  <2>1. SameValue(m, a) \/ SameValue(m, b)
    BY <1>2 DEF Later, SameValue
  <2>2. ~ValueLess(m, b)
    <3>1. ~ValueLess(Later(a, b), b)
      BY ValueTotal DEF Later
    <3> QED BY <1>2, <3>1 DEF ValueLess, SameValue
  <2> QED BY <2>2 DEF Later, SameValue
<1>4. HlcMax(m.touched, b.touched) = m.touched
  <2>1. HlcMax(b.touched, b.touched) = b.touched
    BY RecordFields, HlcMaxBounds
  <2> QED BY <1>2, <2>1, RecordFields, HlcMaxAssociates
<1>5. MergeRecords(m, b) = m
  <2>1. SameValue(MergeRecords(m, b), m) /\ MergeRecords(m, b).touched = m.touched
    BY <1>2, <1>3, <1>4, MergeFields DEF SameValue
  <2> QED BY <1>2, <2>1, MergeFields, SameRecord
<1> QED BY <1>1, <1>5

LEMMA LaterAssociates ==
    ASSUME NEW a \in Record, NEW b \in Record, NEW c \in Record
    PROVE  SameValue(Later(Later(a, b), c), Later(a, Later(b, c)))
<1>1. CASE ValueLess(a, b) /\ ValueLess(b, c)
  BY <1>1, ValueTransitive DEF Later, SameValue
<1>2. CASE ValueLess(a, b) /\ ~ValueLess(b, c)
  BY <1>2 DEF Later, SameValue
<1>3. CASE ~ValueLess(a, b) /\ ValueLess(b, c)
  BY <1>3 DEF Later, SameValue
<1>4. CASE ~ValueLess(a, b) /\ ~ValueLess(b, c)
  <2>1. SameValue(a, b) \/ ValueLess(b, a)
    BY <1>4, ValueTotal
  <2>2. ~ValueLess(a, c)
    <3>1. CASE ValueLess(b, a)
      BY <1>4, <3>1, ValueTransitive
    <3>2. CASE SameValue(a, b)
      BY <1>4, <3>2 DEF ValueLess, SameValue
    <3> QED BY <2>1, <3>1, <3>2
  <2> QED BY <1>4, <2>2 DEF Later, SameValue
<1> QED BY <1>1, <1>2, <1>3, <1>4

LEMMA LaterRespectsIdentity ==
    ASSUME NEW a \in Record, NEW b \in Record, NEW c \in Record, SameValue(a, b)
    PROVE  /\ SameValue(Later(a, c), Later(b, c))
           /\ SameValue(Later(c, a), Later(c, b))
BY DEF SameValue, ValueLess, Later

(* Records may meet in any grouping: a value that travelled through a third
   device arrives as if it had come directly.                               *)
THEOREM MergeAssociates ==
    ASSUME NEW a \in Record, NEW b \in Record, NEW c \in Record
    PROVE  MergeRecords(MergeRecords(a, b), c) = MergeRecords(a, MergeRecords(b, c))
<1> DEFINE ab == MergeRecords(a, b)
           bc == MergeRecords(b, c)
<1>1. /\ ab \in Record /\ SameValue(ab, Later(a, b))
      /\ bc \in Record /\ SameValue(bc, Later(b, c))
      /\ Later(a, b) \in Record /\ Later(b, c) \in Record
  BY MergeFields DEF Later
<1>2. SameValue(MergeRecords(ab, c), MergeRecords(a, bc))
  <2>1. SameValue(Later(ab, c), Later(Later(a, b), c))
    BY <1>1, LaterRespectsIdentity
  <2>2. SameValue(Later(a, bc), Later(a, Later(b, c)))
    BY <1>1, LaterRespectsIdentity
  <2>3. SameValue(Later(Later(a, b), c), Later(a, Later(b, c)))
    BY LaterAssociates
  <2>4. /\ SameValue(MergeRecords(ab, c), Later(ab, c))
        /\ SameValue(MergeRecords(a, bc), Later(a, bc))
    BY <1>1, MergeFields
  <2> HIDE DEF ab, bc
  <2> QED BY <2>1, <2>2, <2>3, <2>4 DEF SameValue
<1>3. MergeRecords(ab, c).touched = MergeRecords(a, bc).touched
  BY <1>1, MergeFields, RecordFields, HlcMaxAssociates
<1> QED BY <1>1, <1>2, <1>3, MergeFields, SameRecord

(* The winner of a merge is at or above both sides, in value and in touch.  *)
LEMMA MergeUpperBound ==
    ASSUME NEW a \in Record, NEW b \in Record
    PROVE  /\ ~ValueLess(MergeRecords(a, b), a)
           /\ ~ValueLess(MergeRecords(a, b), b)
           /\ HlcLeq(a.touched, MergeRecords(a, b).touched)
           /\ HlcLeq(b.touched, MergeRecords(a, b).touched)
<1>1. ~ValueLess(Later(a, b), a) /\ ~ValueLess(Later(a, b), b)
  BY ValueTotal DEF Later
<1>2. SameValue(MergeRecords(a, b), Later(a, b))
  BY MergeFields
<1> QED BY <1>1, <1>2, MergeFields, RecordFields, HlcMaxBounds DEF ValueLess, SameValue

-----------------------------------------------------------------------------
(***************************************************************************)
(* Proofs about the running store, for any number of hosts and names and   *)
(* any records the peers may send.  Every action changes each cell of one  *)
(* host's map in one of few ways; lemma CellStep says which, and the type  *)
(* invariant, ClockCoversStore and LiveNeverRegresses follow from it.      *)
(***************************************************************************)

LEMMA LiveRecord ==
    ASSUME NEW r, NEW t, Live(r, t)
    PROVE  r # NoRecord
BY DEF Live

LEMMA FreshRecord ==
    ASSUME NEW v \in Nat, NEW f \in FlagBytes, NEW o \in Nat, NEW ts \in Stamps
    PROVE  /\ Fresh(v, f, o, ts) \in Record
           /\ Fresh(v, f, o, ts).written = ts
           /\ Fresh(v, f, o, ts).touched = ts
BY DEF Fresh, Record

LEMMA MaskedFlags ==
    ASSUME NEW f \in FlagBytes
    PROVE  WithoutTombstone(f) \in FlagBytes
BY DEF WithoutTombstone, FlagBytes

LEMMA MintedStamp ==
    ASSUME StoreTypeOK, NEW h \in Hosts, MintStamp(h)
    PROVE  /\ clock' \in [Hosts -> Stamps]
           /\ HlcLess(clock[h], clock'[h])
           /\ now[h] <= clock'[h].wallMs
           /\ \A g \in Hosts \ {h} : clock'[g] = clock[g]
           /\ now' = now
<1>1. clock[h] \in Stamps /\ now[h] \in Nat
  BY DEF StoreTypeOK
<1>2. clock' = [clock EXCEPT ![h] = Mint(clock[h], now[h])]
  BY DEF MintStamp
<1>3. clock'[h] = Mint(clock[h], now[h])
  BY <1>2 DEF StoreTypeOK
<1> QED BY <1>1, <1>2, <1>3, MintAdvances DEF StoreTypeOK, MintStamp

LEMMA WitnessedStamps ==
    ASSUME NEW c \in Stamps, NEW r \in Record
    PROVE  LET w == Witness(Witness(c, r.written), r.touched)
           IN  /\ w \in Stamps
               /\ HlcLeq(c, w) /\ HlcLeq(r.written, w) /\ HlcLeq(r.touched, w)
<1> DEFINE v == HlcMax(c, r.written)
           w == HlcMax(v, r.touched)
<1>1. r.written \in Stamps /\ r.touched \in Stamps
  BY RecordFields
<1>2. v \in Stamps /\ HlcLeq(c, v) /\ HlcLeq(r.written, v)
  BY <1>1, HlcMaxBounds
<1>3. w \in Stamps /\ HlcLeq(v, w) /\ HlcLeq(r.touched, w)
  BY <1>1, <1>2, HlcMaxBounds
<1>4. HlcLeq(c, w) /\ HlcLeq(r.written, w)
  BY <1>1, <1>2, <1>3, HlcLeqTransitive
<1> QED BY <1>3, <1>4 DEF Witness

-----------------------------------------------------------------------------
(* The ways a step changes one cell, from old to new, on a host whose clock
   goes from c to d while its wall reads t.                                 *)
Dropped(old, new, t) == new = NoRecord /\ ~Live(old, t)

Rewritten(old, new, c, d, t) ==
    /\ HlcLess(c, d) /\ t <= d.wallMs
    /\ new \in Record
    /\ new.written = d /\ new.touched = d

Refreshed(old, new, c, d, t) ==
    /\ HlcLess(c, d) /\ t <= d.wallMs
    /\ old \in Record
    /\ new = [old EXCEPT !.touched = d]

Merged(old, new, d, t) ==
    \E r \in Record :
        /\ HlcLeq(r.written, d) /\ HlcLeq(r.touched, d)
        /\ ~IsExpired(r, t)
        /\ new = IF Live(old, t) THEN MergeRecords(old, r) ELSE r

CellChange(old, new, c, d, t) ==
    \/ new = old
    \/ Dropped(old, new, t)
    \/ Rewritten(old, new, c, d, t)
    \/ Refreshed(old, new, c, d, t)
    \/ Merged(old, new, d, t)

ChangesCells(g) ==
    /\ now'[g] \in Nat
    /\ clock'[g] \in Stamps /\ HlcLeq(clock[g], clock'[g])
    /\ \A n \in Keys :
          CellChange(store[g][n], store'[g][n], clock[g], clock'[g], now[g])

Shape ==
    /\ now' = [g \in Hosts |-> now'[g]]
    /\ clock' = [g \in Hosts |-> clock'[g]]
    /\ store' = [g \in Hosts |-> store'[g]]
    /\ \A g \in Hosts : store'[g] = [n \in Keys |-> store'[g][n]]

LEMMA IdleHost ==
    ASSUME StoreTypeOK, NEW g \in Hosts,
           now'[g] = now[g], clock'[g] = clock[g], store'[g] = store[g]
    PROVE  ChangesCells(g)
BY DEF ChangesCells, CellChange, StoreTypeOK, HlcLeq

LEMMA PruneCells ==
    ASSUME NEW s \in [Keys -> Record \cup {NoRecord}], NEW t
    PROVE  /\ Prune(s, t) \in [Keys -> Record \cup {NoRecord}]
           /\ \A n \in Keys : Prune(s, t)[n] = s[n] \/ Dropped(s[n], Prune(s, t)[n], t)
BY DEF Prune, Dropped

LEMMA UpsertStep ==
    ASSUME StoreAssumption, StoreTypeOK, NEW h \in Hosts,
           NEW n \in Names, NEW v \in Values, NEW f \in ValueFlags, NEW o \in Nat,
           Upsert(h, n, v, f, o)
    PROVE  Shape /\ \A g \in Hosts : ChangesCells(g)
<1> DEFINE r == Fresh(v, WithoutTombstone(f), o, clock'[h])
           s == Prune(store[h], now[h])
<1>1. /\ clock' \in [Hosts -> Stamps] /\ HlcLess(clock[h], clock'[h])
      /\ now[h] <= clock'[h].wallMs
      /\ \A g \in Hosts \ {h} : clock'[g] = clock[g]
      /\ now' = now
  BY MintedStamp DEF Upsert
<1>2. r \in Record /\ r.written = clock'[h] /\ r.touched = clock'[h]
  BY <1>1, FreshRecord, MaskedFlags DEF StoreAssumption
<1>3. /\ s \in [Keys -> Record \cup {NoRecord}]
      /\ \A m \in Keys : s[m] = store[h][m] \/ Dropped(store[h][m], s[m], now[h])
  BY PruneCells DEF StoreTypeOK
<1>4. store' = [store EXCEPT ![h] = [s EXCEPT ![n] = r]]
  BY DEF Upsert
<1> HIDE DEF r, s
<1>5. store'[h] = [s EXCEPT ![n] = r] /\ \A g \in Hosts \ {h} : store'[g] = store[g]
  BY <1>4 DEF StoreTypeOK
<1>6. Shape
  BY <1>1, <1>3, <1>4, <1>5 DEF Shape, StoreTypeOK, Keys
<1>7. ChangesCells(h)
  <2>1. now'[h] \in Nat /\ clock'[h] \in Stamps /\ HlcLeq(clock[h], clock'[h])
    BY <1>1 DEF StoreTypeOK, HlcLeq
  <2>2. ASSUME NEW m \in Keys
        PROVE  CellChange(store[h][m], store'[h][m], clock[h], clock'[h], now[h])
    <3>1. CASE m = n
      BY <1>1, <1>2, <1>3, <1>5, <3>1 DEF CellChange, Rewritten
    <3>2. CASE m # n
      BY <1>3, <1>5, <3>2 DEF CellChange
    <3> QED BY <3>1, <3>2
  <2> QED BY <2>1, <2>2 DEF ChangesCells
<1>8. ASSUME NEW g \in Hosts \ {h} PROVE ChangesCells(g)
  BY <1>1, <1>5, IdleHost
<1> QED BY <1>6, <1>7, <1>8

LEMMA OneCell ==
    ASSUME StoreTypeOK, NEW h \in Hosts, NEW n \in Keys, NEW x \in Record \cup {NoRecord},
           store' = [store EXCEPT ![h][n] = x],
           clock' \in [Hosts -> Stamps], HlcLeq(clock[h], clock'[h]),
           \A g \in Hosts \ {h} : clock'[g] = clock[g],
           now' = now,
           CellChange(store[h][n], x, clock[h], clock'[h], now[h])
    PROVE  Shape /\ \A g \in Hosts : ChangesCells(g)
<1>1. /\ store'[h] = [store[h] EXCEPT ![n] = x]
      /\ \A g \in Hosts \ {h} : store'[g] = store[g]
  BY DEF StoreTypeOK
<1>2. Shape
  BY <1>1 DEF Shape, StoreTypeOK
<1>3. ChangesCells(h)
  BY <1>1 DEF ChangesCells, CellChange, StoreTypeOK
<1>4. ASSUME NEW g \in Hosts \ {h} PROVE ChangesCells(g)
  BY <1>1, IdleHost
<1> QED BY <1>2, <1>3, <1>4

LEMMA PruneExpiredStep ==
    ASSUME StoreTypeOK, NEW h \in Hosts, PruneExpired(h)
    PROVE  Shape /\ \A g \in Hosts : ChangesCells(g)
<1>1. /\ Prune(store[h], now[h]) \in [Keys -> Record \cup {NoRecord}]
      /\ \A m \in Keys : \/ Prune(store[h], now[h])[m] = store[h][m]
                         \/ Dropped(store[h][m], Prune(store[h], now[h])[m], now[h])
  BY PruneCells DEF StoreTypeOK
<1>2. /\ store'[h] = Prune(store[h], now[h])
      /\ \A g \in Hosts \ {h} : store'[g] = store[g]
      /\ now' = now /\ clock' = clock
      /\ store' = [store EXCEPT ![h] = Prune(store[h], now[h])]
  BY DEF PruneExpired, StoreTypeOK
<1>3. Shape
  BY <1>1, <1>2 DEF Shape, StoreTypeOK
<1>4. ChangesCells(h)
  BY <1>1, <1>2 DEF ChangesCells, CellChange, StoreTypeOK, HlcLeq
<1>5. ASSUME NEW g \in Hosts \ {h} PROVE ChangesCells(g)
  BY <1>2, IdleHost
<1> QED BY <1>3, <1>4, <1>5

LEMMA DropOnAccessStep ==
    ASSUME StoreTypeOK, NEW h \in Hosts, NEW n \in Names, DropOnAccess(h, n)
    PROVE  Shape /\ \A g \in Hosts : ChangesCells(g)
<1>1. CellChange(store[h][n], NoRecord, clock[h], clock'[h], now[h])
  BY DEF DropOnAccess, CellChange, Dropped, Live
<1>2. HlcLeq(clock[h], clock'[h])
  BY DEF DropOnAccess, HlcLeq
<1> QED BY <1>1, <1>2, OneCell DEF DropOnAccess, StoreTypeOK, Keys

LEMMA ReadStep ==
    ASSUME StoreTypeOK, NEW h \in Hosts, NEW n \in Names, Read(h, n)
    PROVE  Shape /\ \A g \in Hosts : ChangesCells(g)
<1> DEFINE x == [store[h][n] EXCEPT !.touched = clock'[h]]
<1>1. /\ clock' \in [Hosts -> Stamps] /\ HlcLess(clock[h], clock'[h])
      /\ now[h] <= clock'[h].wallMs
      /\ \A g \in Hosts \ {h} : clock'[g] = clock[g]
      /\ now' = now
  BY MintedStamp DEF Read
<1>2. store[h][n] \in Record
  BY LiveRecord DEF Read, HoldsValue, StoreTypeOK, Keys
<1>3. x \in Record
  BY <1>1, <1>2 DEF Record
<1>4. store' = [store EXCEPT ![h][n] = x]
  BY DEF Read
<1>5. CellChange(store[h][n], x, clock[h], clock'[h], now[h])
  BY <1>1, <1>2 DEF CellChange, Refreshed
<1>6. HlcLeq(clock[h], clock'[h])
  BY <1>1 DEF HlcLeq
<1> HIDE DEF x
<1> QED BY <1>1, <1>3, <1>4, <1>5, <1>6, OneCell DEF Keys

(* Delete and MirrorDefault put a freshly stamped record in one cell.       *)
LEMMA FreshCell ==
    ASSUME StoreTypeOK, NEW h \in Hosts, NEW n \in Keys, NEW v \in Nat,
           NEW f \in FlagBytes, NEW o \in Nat, MintStamp(h),
           store' = [store EXCEPT ![h][n] = Fresh(v, f, o, clock'[h])]
    PROVE  Shape /\ \A g \in Hosts : ChangesCells(g)
<1> DEFINE x == Fresh(v, f, o, clock'[h])
<1>1. /\ clock' \in [Hosts -> Stamps] /\ HlcLess(clock[h], clock'[h])
      /\ now[h] <= clock'[h].wallMs
      /\ \A g \in Hosts \ {h} : clock'[g] = clock[g]
      /\ now' = now
  BY MintedStamp
<1>2. x \in Record /\ x.written = clock'[h] /\ x.touched = clock'[h]
  BY <1>1, FreshRecord
<1>3. CellChange(store[h][n], x, clock[h], clock'[h], now[h])
  BY <1>1, <1>2 DEF CellChange, Rewritten
<1>4. HlcLeq(clock[h], clock'[h])
  BY <1>1 DEF HlcLeq
<1> HIDE DEF x
<1>5. store' = [store EXCEPT ![h][n] = x]
  BY DEF x
<1> QED BY <1>1, <1>2, <1>3, <1>4, <1>5, OneCell

LEMMA ApplyRemoteStep ==
    ASSUME StoreTypeOK, NEW h \in Hosts, NEW n \in Names,
           NEW r \in Record, ApplyRemote(h, n, r)
    PROVE  Shape /\ \A g \in Hosts : ChangesCells(g)
<1> DEFINE w == Witness(Witness(clock[h], r.written), r.touched)
           x == Applied(store[h][n], r, now[h])
<1>1. r \in Record /\ clock[h] \in Stamps /\ n \in Keys
  BY DEF StoreTypeOK, Keys
<1>2. /\ w \in Stamps
      /\ HlcLeq(clock[h], w) /\ HlcLeq(r.written, w) /\ HlcLeq(r.touched, w)
  BY <1>1, WitnessedStamps
<1>3. /\ clock' = [clock EXCEPT ![h] = w]
      /\ store' = [store EXCEPT ![h][n] = x]
      /\ now' = now
  BY DEF ApplyRemote
<1> HIDE DEF w
<1>4. /\ clock' \in [Hosts -> Stamps] /\ clock'[h] = w
      /\ \A g \in Hosts \ {h} : clock'[g] = clock[g]
  BY <1>2, <1>3 DEF StoreTypeOK
<1>5. store[h][n] \in Record \cup {NoRecord}
  BY <1>1 DEF StoreTypeOK
<1>6. x \in Record \cup {NoRecord}
  BY <1>1, <1>5, LiveRecord, MergeFields DEF Applied
<1>7. CellChange(store[h][n], x, clock[h], clock'[h], now[h])
  <2>1. CASE IsExpired(r, now[h])
    BY <2>1 DEF CellChange, Applied
  <2>2. CASE ~IsExpired(r, now[h])
    BY <1>1, <1>2, <1>4, <2>2 DEF CellChange, Merged, Applied
  <2> QED BY <2>1, <2>2
<1> HIDE DEF x
<1> QED BY <1>1, <1>2, <1>3, <1>4, <1>6, <1>7, OneCell

LEMMA WallStep ==
    ASSUME StoreTypeOK, NEW h \in Hosts, Tick(h) \/ StepBack(h)
    PROVE  Shape /\ \A g \in Hosts : ChangesCells(g)
<1>1. now \in [Hosts -> Nat] /\ now[h] \in Nat
  BY DEF StoreTypeOK
<1>2. PICK w \in Nat : now' = [now EXCEPT ![h] = w]
  <2>1. CASE Tick(h)
    <3>1. now[h] + 1 \in Nat
      BY <1>1
    <3> QED BY <2>1, <3>1 DEF Tick
  <2>2. CASE StepBack(h)
    <3>1. now[h] > 1
      BY <2>2 DEF StepBack
    <3>2. now[h] - 1 \in Nat
      BY <1>1, <3>1
    <3> QED BY <2>2, <3>2 DEF StepBack
  <2> QED BY <2>1, <2>2
<1>3. now' \in [Hosts -> Nat]
  BY <1>1, <1>2
<1>4. clock' = clock /\ store' = store
  BY DEF Tick, StepBack
<1> QED BY <1>3, <1>4 DEF Shape, ChangesCells, CellChange, HlcLeq, StoreTypeOK

(* Every step of a host is a change of its cells in one of the known ways.  *)
LEMMA CellStep ==
    ASSUME StoreAssumption, StoreTypeOK, NEW h \in Hosts, StoreStep(h)
    PROVE  Shape /\ \A g \in Hosts : ChangesCells(g)
<1>1. CASE \E n \in Names, v \in Values, f \in ValueFlags, o \in Origins :
              Upsert(h, n, v, f, o)
  BY <1>1, UpsertStep DEF StoreAssumption
<1>2. CASE PruneExpired(h)
  BY <1>2, PruneExpiredStep
<1>3. CASE \E n \in Names : DropOnAccess(h, n)
  BY <1>3, DropOnAccessStep
<1>4. CASE \E n \in Names : Read(h, n)
  BY <1>4, ReadStep
<1>5. CASE \E n \in Names, o \in Origins : Delete(h, n, o)
  <2>1. PICK n \in Names, o \in Origins : Delete(h, n, o)
    BY <1>5
  <2>2. n \in Keys /\ o \in Nat /\ 0 \in Nat /\ Tombstone \in FlagBytes
    BY DEF Keys, StoreAssumption, Tombstone, FlagBytes
  <2> QED BY <2>1, <2>2, FreshCell DEF Delete
<1>6. CASE \E v \in Values : MirrorDefault(h, v)
  <2>1. PICK v \in Values : MirrorDefault(h, v)
    BY <1>6
  <2>2. Mirror \in Keys /\ h \in Nat /\ v \in Nat /\ 0 \in FlagBytes
    BY DEF Keys, StoreAssumption, FlagBytes
  <2> QED BY <2>1, <2>2, FreshCell DEF MirrorDefault
<1>7. CASE \E n \in Names, r \in RemoteRecords : ApplyRemote(h, n, r)
  BY <1>7, ApplyRemoteStep DEF StoreAssumption
<1>8. CASE Tick(h) \/ StepBack(h)
  BY <1>8, WallStep
<1> QED BY <1>1, <1>2, <1>3, <1>4, <1>5, <1>6, <1>7, <1>8 DEF StoreStep

-----------------------------------------------------------------------------
(* A store holds records, a clock holds a stamp, whatever is sent to it.    *)
LEMMA TypeStep ==
    ASSUME StoreTypeOK, Shape, \A g \in Hosts : ChangesCells(g)
    PROVE  StoreTypeOK'
<1>1. ASSUME NEW g \in Hosts, NEW n \in Keys
      PROVE  store'[g][n] \in Record \cup {NoRecord}
  <2>1. /\ store[g][n] \in Record \cup {NoRecord}
        /\ CellChange(store[g][n], store'[g][n], clock[g], clock'[g], now[g])
        /\ clock'[g] \in Stamps
    BY DEF StoreTypeOK, ChangesCells
  <2>2. CASE Refreshed(store[g][n], store'[g][n], clock[g], clock'[g], now[g])
    BY <2>1, <2>2 DEF Refreshed, Record
  <2>3. CASE Merged(store[g][n], store'[g][n], clock'[g], now[g])
    BY <2>1, <2>3, MergeFields, LiveRecord DEF Merged
  <2> QED BY <2>1, <2>2, <2>3 DEF CellChange, Dropped, Rewritten
<1>2. \A g \in Hosts : now'[g] \in Nat /\ clock'[g] \in Stamps
  BY DEF ChangesCells
<1>3. \A g \in Hosts : store'[g] \in [Keys -> Record \cup {NoRecord}]
  BY <1>1 DEF Shape
<1> QED BY <1>2, <1>3 DEF StoreTypeOK, Shape

(* Host clocks only rise, and a new stamp in a cell is covered by the clock
   its step leaves behind.                                                  *)
LEMMA CoverStep ==
    ASSUME StoreAssumption, StoreTypeOK, ClockCoversStore,
           \A g \in Hosts : ChangesCells(g)
    PROVE  ClockCoversStore'
<1> SUFFICES ASSUME NEW g \in Hosts, NEW n \in Keys, store'[g][n] # NoRecord
             PROVE  /\ HlcLeq(store'[g][n].written, clock'[g])
                    /\ HlcLeq(store'[g][n].touched, clock'[g])
  BY DEF ClockCoversStore
<1> DEFINE old == store[g][n]
           new == store'[g][n]
           c == clock[g]
           d == clock'[g]
<1>1. /\ old \in Record \cup {NoRecord} /\ c \in Stamps /\ d \in Stamps
      /\ HlcLeq(c, d) /\ CellChange(old, new, c, d, now[g])
  BY DEF StoreTypeOK, ChangesCells
<1>2. ASSUME old # NoRecord
      PROVE  old \in Record /\ HlcLeq(old.written, d) /\ HlcLeq(old.touched, d)
  <2>1. old \in Record /\ HlcLeq(old.written, c) /\ HlcLeq(old.touched, c)
    BY <1>1, <1>2 DEF ClockCoversStore
  <2> QED BY <1>1, <2>1, RecordFields, HlcLeqTransitive
<1>3. CASE new = old \/ Dropped(old, new, now[g])
  BY <1>2, <1>3 DEF Dropped
<1>4. CASE Rewritten(old, new, c, d, now[g])
  BY <1>4 DEF Rewritten, HlcLeq
<1>5. CASE Refreshed(old, new, c, d, now[g])
  <2>1. old \in Record /\ old # NoRecord
    BY <1>5 DEF Refreshed, StoreAssumption
  <2>2. new.written = old.written /\ new.touched = d
    BY <1>5, <2>1 DEF Refreshed, Record
  <2> QED BY <1>2, <2>1, <2>2 DEF HlcLeq
<1>6. CASE Merged(old, new, d, now[g])
  <2>1. PICK r \in Record : /\ HlcLeq(r.written, d) /\ HlcLeq(r.touched, d)
                            /\ new = IF Live(old, now[g]) THEN MergeRecords(old, r) ELSE r
    BY <1>6 DEF Merged
  <2>2. CASE Live(old, now[g])
    <3>1. old \in Record /\ HlcLeq(old.written, d) /\ HlcLeq(old.touched, d)
      BY <1>2, <2>2, LiveRecord
    <3>2. /\ SameValue(new, Later(old, r))
          /\ new.touched = HlcMax(old.touched, r.touched)
      BY <2>1, <2>2, <3>1, MergeFields
    <3> QED BY <2>1, <3>1, <3>2, RecordFields, HlcMaxBounds DEF SameValue, Later
  <2>3. CASE ~Live(old, now[g])
    BY <2>1, <2>3
  <2> QED BY <2>2, <2>3
<1> QED BY <1>1, <1>3, <1>4, <1>5, <1>6 DEF CellChange

(* No step replaces a live record by an older one, whatever arrives.        *)
LEMMA NewestStep ==
    ASSUME StoreAssumption, StoreTypeOK, ClockCoversStore,
           NEW g \in Hosts, ChangesCells(g), NEW n \in Keys
    PROVE  KeepsNewest(g, n)
<1> SUFFICES ASSUME Live(store[g][n], now[g])
             PROVE  /\ store'[g][n] # NoRecord
                    /\ ~ValueLess(store'[g][n], store[g][n])
                    /\ HlcLeq(store[g][n].touched, store'[g][n].touched)
  BY DEF KeepsNewest
<1> DEFINE old == store[g][n]
           new == store'[g][n]
           c == clock[g]
           d == clock'[g]
<1>1. /\ old \in Record /\ c \in Stamps /\ d \in Stamps
      /\ HlcLeq(old.written, c) /\ HlcLeq(old.touched, c)
      /\ CellChange(old, new, c, d, now[g])
  BY LiveRecord DEF StoreTypeOK, ChangesCells, ClockCoversStore
<1>2. NoRecord \notin Record
  BY DEF StoreAssumption
<1>3. CASE new = old \/ Dropped(old, new, now[g])
  BY <1>1, <1>2, <1>3, ValueTotal DEF Dropped, HlcLeq
<1>4. CASE Rewritten(old, new, c, d, now[g])
  <2>1. HlcLess(old.written, d) /\ HlcLess(old.touched, d)
    BY <1>1, <1>4, RecordFields, HlcLeqTransitive DEF Rewritten
  <2>2. ~HlcLess(d, old.written) /\ d # old.written
    BY <1>1, <2>1, RecordFields, HlcTotal
  <2> QED BY <1>2, <1>4, <2>1, <2>2 DEF Rewritten, ValueLess, HlcLeq
<1>5. CASE Refreshed(old, new, c, d, now[g])
  <2>1. HlcLess(old.touched, d)
    BY <1>1, <1>5, RecordFields, HlcLeqTransitive DEF Refreshed
  <2>2. new \in Record /\ SameValue(new, old) /\ new.touched = d
    BY <1>1, <1>5 DEF Refreshed, SameValue, Record
  <2> QED BY <1>1, <1>2, <2>1, <2>2, ValueTotal DEF HlcLeq
<1>6. CASE Merged(old, new, d, now[g])
  <2>1. PICK r \in Record : new = MergeRecords(old, r)
    BY <1>6 DEF Merged
  <2> QED BY <1>1, <1>2, <2>1, MergeFields, MergeUpperBound
<1> QED BY <1>1, <1>3, <1>4, <1>5, <1>6 DEF CellChange

(* A record that enters a cell, or changes in it, is alive there: minted
   touches are not behind the wall, and both sides of a merge were alive.   *)
LEMMA ArrivalStep ==
    ASSUME StoreAssumption, TtlAssumption, StoreTypeOK,
           NEW g \in Hosts, ChangesCells(g), NEW n \in Keys,
           store'[g][n] # store[g][n], store'[g][n] # NoRecord
    PROVE  Live(store'[g][n], now[g])
<1> DEFINE old == store[g][n]
           new == store'[g][n]
           d == clock'[g]
           t == now[g]
<1>1. /\ old \in Record \cup {NoRecord} /\ d \in Stamps /\ t \in Nat
      /\ CellChange(old, new, clock[g], d, t)
  BY DEF StoreTypeOK, ChangesCells
<1>2. CASE Rewritten(old, new, clock[g], d, t) \/ Refreshed(old, new, clock[g], d, t)
  <2>1. new.touched = d /\ t <= d.wallMs /\ d.wallMs \in Nat
    BY <1>1, <1>2 DEF Rewritten, Refreshed, Record, Stamps
  <2> QED BY <1>1, <2>1 DEF Live, IsExpired, TtlAssumption
<1>3. CASE Merged(old, new, d, t)
  <2>1. PICK r \in Record : /\ ~IsExpired(r, t)
                            /\ new = IF Live(old, t) THEN MergeRecords(old, r) ELSE r
    BY <1>3 DEF Merged
  <2>2. CASE Live(old, t)
    <3>1. old \in Record /\ new.touched = HlcMax(old.touched, r.touched)
      BY <1>1, <2>1, <2>2, LiveRecord, MergeFields
    <3>2. new.touched \in {old.touched, r.touched}
      BY <3>1, RecordFields, HlcMaxBounds
    <3> QED BY <2>1, <2>2, <3>2 DEF Live, IsExpired
  <2>3. CASE ~Live(old, t)
    BY <2>1, <2>3 DEF Live
  <2> QED BY <2>2, <2>3
<1> QED BY <1>1, <1>2, <1>3 DEF CellChange, Dropped

-----------------------------------------------------------------------------
StoreInv == StoreTypeOK /\ ClockCoversStore

THEOREM StoreInvInductive == StoreSpec => []StoreInv
<1>1. StoreInit => StoreInv
  BY StoreAssumption DEF StoreInit, StoreInv, StoreTypeOK, ClockCoversStore,
     Empty, Stamps, ZeroStamp
<1>2. StoreInv /\ [StoreNext]_storeVars => StoreInv'
  <2> SUFFICES ASSUME StoreInv, [StoreNext]_storeVars PROVE StoreInv'
    OBVIOUS
  <2>1. CASE StoreNext
    BY <2>1, StoreAssumption, CellStep, TypeStep, CoverStep DEF StoreNext, StoreInv
  <2>2. CASE UNCHANGED storeVars
    BY <2>2 DEF StoreInv, StoreTypeOK, ClockCoversStore, storeVars
  <2> QED BY <2>1, <2>2
<1> QED BY <1>1, <1>2, PTL DEF StoreSpec

(* Every store holds well-formed records under every legal sequence of
   calls.                                                                   *)
THEOREM StoreTyped == StoreSpec => []StoreTypeOK
BY StoreInvInductive, PTL DEF StoreInv

(* "A locally generated HLC sits above everything witnessed"
   (UpsertLocked): what lets a local write overwrite without a merge.       *)
THEOREM StoreClockCovers == StoreSpec => []ClockCoversStore
BY StoreInvInductive, PTL DEF StoreInv

(* Last writer wins at every host: no sequence of local calls and REGW
   frames, in any order, replaces a live record by an older one.            *)
THEOREM StoreNeverRegresses == StoreSpec => LiveNeverRegresses
<1>1. StoreInv /\ [StoreNext]_storeVars
        => [\A h \in Hosts, n \in Keys : KeepsNewest(h, n)]_storeVars
  BY StoreAssumption, CellStep, NewestStep DEF StoreInv, StoreNext
<1> QED BY <1>1, StoreInvInductive, PTL DEF StoreSpec, LiveNeverRegresses

(* A dead record is never accepted or revived (ApplyRemoteLocked: "never
   accept state that is already dead by our clock").                        *)
THEOREM StoreNoDeadOnArrival == StoreSpec => NoDeadOnArrival
<1> DEFINE Alive == \A h \in Hosts, n \in Keys :
                       store'[h][n] # store[h][n] /\ store'[h][n] # NoRecord =>
                          Live(store'[h][n], now[h])
<1>1. StoreInv /\ [StoreNext]_storeVars => [Alive]_storeVars
  BY StoreAssumption, TtlAssumption, CellStep, ArrivalStep DEF StoreInv, StoreNext
<1> QED BY <1>1, StoreInvInductive, PTL DEF StoreSpec, NoDeadOnArrival

-----------------------------------------------------------------------------
(***************************************************************************)
(* Crash safety of the clock, for any number of hosts, names, records and  *)
(* restarts.  NotedSurvivesRestart is not inductive: a restart lowers the  *)
(* clock to what the disk shows it.  FloorCoversNoted says the disk shows  *)
(* enough, and ClockCoversStore and ClockCoversFile that the snapshot does.*)
(***************************************************************************)

FloorCoversNoted ==
    \A h \in Hosts : HlcLeq(noted[h], SeedFloor(ZeroStamp, floor[h]))

HostInv ==
    /\ HostTypeOK
    /\ ClockCoversStore
    /\ ClockCoversFile
    /\ FloorCoversNoted
    /\ NotedSurvivesRestart

LEMMA SeededFloor ==
    ASSUME NEW f \in Nat
    PROVE  /\ SeedFloor(ZeroStamp, f) \in Stamps
           /\ SeedFloor(ZeroStamp, f).wallMs = f
           /\ HlcLeq(ZeroStamp, SeedFloor(ZeroStamp, f))
BY DEF SeedFloor, HlcMax, HlcLess, HlcLeq, Stamps, ZeroStamp

LEMMA FileStamps ==
    ASSUME HostTypeOK, NEW h \in Hosts, NEW n \in Names, file[h][n] # NoRecord
    PROVE  /\ file[h][n] \in Record
           /\ file[h][n].written \in Stamps /\ file[h][n].touched \in Stamps
BY RecordFields DEF HostTypeOK

(* A step of the store leaves the clocks at or above where they were.       *)
LEMMA CellsKept ==
    ASSUME StoreAssumption, StoreTypeOK, ClockCoversStore,
           Shape, \A g \in Hosts : ChangesCells(g)
    PROVE  /\ StoreTypeOK' /\ ClockCoversStore'
           /\ \A g \in Hosts : HlcLeq(clock[g], clock'[g])
BY TypeStep, CoverStep DEF ChangesCells

(* While the disk and the history stay, rising clocks go on covering them.  *)
LEMMA RisingClockCovers ==
    ASSUME HostInv, StoreTypeOK', UNCHANGED <<file, floor, noted>>,
           \A g \in Hosts : HlcLeq(clock[g], clock'[g])
    PROVE  ClockCoversFile' /\ FloorCoversNoted' /\ NotedSurvivesRestart'
<1>1. \A g \in Hosts : clock[g] \in Stamps /\ clock'[g] \in Stamps /\ noted[g] \in Stamps
  BY DEF HostInv, HostTypeOK, StoreTypeOK
<1>2. ClockCoversFile'
  BY <1>1, FileStamps, HlcLeqTransitive DEF HostInv, ClockCoversFile
<1>3. NotedSurvivesRestart'
  BY <1>1, HlcLeqTransitive DEF HostInv, NotedSurvivesRestart
<1>4. FloorCoversNoted'
  BY DEF HostInv, FloorCoversNoted
<1> QED BY <1>2, <1>3, <1>4

LEMMA CellsRun ==
    ASSUME StoreAssumption, HostInv,
           Shape, \A g \in Hosts : ChangesCells(g),
           UNCHANGED <<diskVars, noted>>,
           announcing' \in [Hosts -> SUBSET Tasks]
    PROVE  HostInv'
<1>1. /\ StoreTypeOK' /\ ClockCoversStore'
      /\ \A g \in Hosts : HlcLeq(clock[g], clock'[g])
  BY CellsKept DEF HostInv, HostTypeOK
<1>2. ClockCoversFile' /\ FloorCoversNoted' /\ NotedSurvivesRestart'
  BY <1>1, RisingClockCovers DEF diskVars
<1>3. HostTypeOK'
  BY <1>1 DEF HostInv, HostTypeOK, diskVars
<1> QED BY <1>1, <1>2, <1>3 DEF HostInv

LEMMA CellsIdle ==
    ASSUME StoreTypeOK, UNCHANGED storeVars
    PROVE  Shape /\ \A g \in Hosts : ChangesCells(g)
<1>1. Shape
  BY DEF Shape, StoreTypeOK, storeVars
<1> QED BY <1>1, IdleHost DEF storeVars

LEMMA RunningStep ==
    ASSUME StoreAssumption, HostInv, NEW h \in Hosts,
           StoreStep(h) \/ UNCHANGED storeVars,
           UNCHANGED <<diskVars, noted>>,
           announcing' \in [Hosts -> SUBSET Tasks]
    PROVE  HostInv'
<1>1. Shape /\ \A g \in Hosts : ChangesCells(g)
  BY CellStep, CellsIdle DEF HostInv, HostTypeOK
<1> QED BY <1>1, CellsRun

LEMMA OwingTyped ==
    ASSUME HostTypeOK, NEW h \in Hosts, NEW n \in Keys, Owes(h, n, "note")
    PROVE  announcing' \in [Hosts -> SUBSET Tasks]
BY DEF HostTypeOK, Owes, Tasks

LEMMA WriteStep ==
    ASSUME StoreAssumption, HostInv, NEW h \in Hosts, NEW n \in Keys,
           StoreStep(h), Owes(h, n, "note"), UNCHANGED <<diskVars, noted>>
    PROVE  HostInv'
<1>1. announcing' \in [Hosts -> SUBSET Tasks]
  BY OwingTyped DEF HostInv
<1> QED BY <1>1, RunningStep

LEMMA NoteFloorStep ==
    ASSUME FloorAssumption, HostInv, NEW h \in Hosts, NEW n \in Keys, NoteFloor(h, n)
    PROVE  HostInv'
<1>1. clock[h] \in Stamps /\ clock[h].wallMs \in Nat /\ floor[h] \in Nat
  BY DEF HostInv, HostTypeOK, StoreTypeOK, Stamps
<1>2. floor' \in [Hosts -> Nat] /\ noted' \in [Hosts -> Stamps]
  BY <1>1 DEF NoteFloor, Reserved, HostInv, HostTypeOK, FloorAssumption
<1>3. announcing' \in [Hosts -> SUBSET Tasks]
  BY DEF NoteFloor, HostInv, HostTypeOK, Tasks, Keys
<1>4. HostTypeOK' /\ ClockCoversStore' /\ ClockCoversFile'
  BY <1>2, <1>3 DEF NoteFloor, Reserved, HostInv, HostTypeOK, StoreTypeOK, ClockCoversStore,
     ClockCoversFile, storeVars
<1>5. NotedSurvivesRestart'
  BY DEF NoteFloor, Reserved, storeVars, HostInv, HostTypeOK, NotedSurvivesRestart, HlcLeq
<1>6. FloorCoversNoted'
  <2> SUFFICES ASSUME NEW g \in Hosts
               PROVE  HlcLeq(noted'[g], SeedFloor(ZeroStamp, floor'[g]))
    BY DEF FloorCoversNoted
  <2>1. CASE g = h
    <3>1. noted'[g] = clock[h] /\ clock[h].wallMs < floor'[g] /\ floor'[g] \in Nat
      BY <1>1, <2>1 DEF NoteFloor, Reserved, HostInv, HostTypeOK, FloorAssumption
    <3> QED BY <3>1, SeededFloor DEF HlcLeq, HlcLess
  <2>2. CASE g # h
    BY <2>2 DEF NoteFloor, Reserved, HostInv, HostTypeOK, FloorCoversNoted
  <2> QED BY <2>1, <2>2
<1> QED BY <1>4, <1>5, <1>6 DEF HostInv

LEMMA AnnounceStep ==
    ASSUME StoreAssumption, HostInv, NEW h \in Hosts, NEW n \in Names, Announce(h, n)
    PROVE  HostInv'
<1>1. announcing' \in [Hosts -> SUBSET Tasks]
  BY DEF Announce, HostInv, HostTypeOK
<1>2. StoreStep(h) \/ UNCHANGED storeVars
  BY DEF Announce, StoreStep
<1>3. UNCHANGED <<diskVars, noted>>
  BY DEF Announce
<1> QED BY <1>1, <1>2, <1>3, RunningStep

LEMMA SaveStep ==
    ASSUME StoreAssumption, HostInv, NEW h \in Hosts, Save(h)
    PROVE  HostInv'
<1>1. StoreStep(h)
  BY DEF Save, StoreStep
<1>2. StoreTypeOK' /\ ClockCoversStore'
  BY <1>1, CellStep, CellsKept DEF HostInv, HostTypeOK
<1>3. UNCHANGED <<clock, floor, announcing, noted>>
  BY DEF Save, PruneExpired
<1>4. /\ file'[h] = [n \in Names |-> store'[h][n]]
      /\ \A g \in Hosts \ {h} : file'[g] = file[g]
      /\ file' \in [Hosts -> [Names -> Record \cup {NoRecord}]]
  <2> DEFINE image == [n \in Names |-> store'[h][n]]
  <2>1. image \in [Names -> Record \cup {NoRecord}]
    BY <1>2 DEF StoreTypeOK, Keys
  <2>2. file' = [file EXCEPT ![h] = image]
    BY DEF Save
  <2> HIDE DEF image
  <2>3. /\ file'[h] = image
        /\ \A g \in Hosts \ {h} : file'[g] = file[g]
        /\ file' \in [Hosts -> [Names -> Record \cup {NoRecord}]]
    BY <2>1, <2>2 DEF HostInv, HostTypeOK
  <2> QED BY <2>3 DEF image
<1>5. HostTypeOK'
  BY <1>2, <1>3, <1>4 DEF HostInv, HostTypeOK
<1>6. ClockCoversFile'
  <2> SUFFICES ASSUME NEW g \in Hosts, NEW n \in Names, file'[g][n] # NoRecord
               PROVE  /\ HlcLeq(file'[g][n].written, clock'[g])
                      /\ HlcLeq(file'[g][n].touched, clock'[g])
    BY DEF ClockCoversFile
  <2>1. CASE g = h
    BY <1>2, <1>4, <2>1 DEF ClockCoversStore, Keys
  <2>2. CASE g # h
    BY <1>3, <1>4, <2>2 DEF HostInv, ClockCoversFile
  <2> QED BY <2>1, <2>2
<1>7. FloorCoversNoted' /\ NotedSurvivesRestart'
  BY <1>3 DEF HostInv, FloorCoversNoted, NotedSurvivesRestart
<1> QED BY <1>2, <1>5, <1>6, <1>7 DEF HostInv

(* The new session's clock is the greatest stamp startup shows it, so it is
   above the floor and above every record the snapshot holds.               *)
LEMMA RestartStep ==
    ASSUME StoreAssumption, HostInv, NEW h \in Hosts, Restart(h)
    PROVE  HostInv'
<1>1. PICK image \in {file[h], Empty(Names)} :
         /\ file' = [file EXCEPT ![h] = image]
         /\ \E top \in StartupStamps(h, image) :
               /\ Greatest(top, StartupStamps(h, image))
               /\ clock' = [clock EXCEPT ![h] = top]
         /\ store' = [store EXCEPT ![h] =
                        [n \in Keys |->
                           IF n \in Names THEN Prune(image, now[h])[n] ELSE NoRecord]]
  BY DEF Restart
<1>2. PICK top \in StartupStamps(h, image) :
         /\ Greatest(top, StartupStamps(h, image))
         /\ clock' = [clock EXCEPT ![h] = top]
  BY <1>1
<1>3. image \in [Names -> Record \cup {NoRecord}]
  BY <1>1 DEF Empty, HostInv, HostTypeOK
<1>4. \A n \in Names : image[n] # NoRecord =>
         /\ image[n] \in Record
         /\ HlcLeq(image[n].written, top) /\ HlcLeq(image[n].touched, top)
  BY <1>2, <1>3 DEF StartupStamps, StampsOf, Greatest
<1>5. HlcLeq(SeedFloor(ZeroStamp, floor[h]), top) /\ top \in Stamps
  <2>1. SeedFloor(ZeroStamp, floor[h]) \in Stamps
    BY SeededFloor DEF HostInv, HostTypeOK
  <2>2. \A n \in Names : image[n] # NoRecord =>
           image[n].written \in Stamps /\ image[n].touched \in Stamps
    BY <1>4, RecordFields
  <2> QED BY <1>2, <2>1, <2>2 DEF StartupStamps, StampsOf, Greatest
<1>6. /\ clock'[h] = top /\ \A g \in Hosts \ {h} : clock'[g] = clock[g]
      /\ file'[h] = image /\ \A g \in Hosts \ {h} : file'[g] = file[g]
      /\ \A g \in Hosts \ {h} : store'[g] = store[g]
      /\ \A n \in Keys : store'[h][n] # NoRecord => n \in Names /\ store'[h][n] = image[n]
      /\ store'[h] \in [Keys -> Record \cup {NoRecord}]
      /\ store' = [g \in Hosts |-> store'[g]]
  BY <1>1, <1>2, <1>3 DEF HostInv, HostTypeOK, StoreTypeOK, Prune
<1>7. HostTypeOK'
  <2>1. StoreTypeOK'
    BY <1>2, <1>5, <1>6 DEF Restart, HostInv, HostTypeOK, StoreTypeOK
  <2>2. file' \in [Hosts -> [Names -> Record \cup {NoRecord}]]
    BY <1>1, <1>3 DEF HostInv, HostTypeOK
  <2> QED BY <2>1, <2>2 DEF Restart, HostInv, HostTypeOK
<1>8. ClockCoversStore'
  BY <1>4, <1>6 DEF HostInv, ClockCoversStore
<1>9. ClockCoversFile'
  BY <1>4, <1>6 DEF HostInv, ClockCoversFile
<1>10. FloorCoversNoted'
  BY DEF Restart, HostInv, FloorCoversNoted
<1>11. NotedSurvivesRestart'
  <2>1. HlcLeq(noted[h], top)
    BY <1>5, SeededFloor, HlcLeqTransitive DEF HostInv, HostTypeOK, FloorCoversNoted
  <2> QED BY <1>6, <2>1 DEF Restart, HostInv, NotedSurvivesRestart
<1> QED BY <1>7, <1>8, <1>9, <1>10, <1>11 DEF HostInv

LEMMA ServeStep ==
    ASSUME StoreAssumption, HostInv, NEW h \in Hosts, Serve(h)
    PROVE  HostInv'
<1>1. StoreStep(h)
  BY DEF Serve, StoreStep
<1>2. /\ UNCHANGED <<diskVars, noted>>
      /\ announcing' \in [Hosts -> SUBSET Tasks]
  BY DEF Serve, HostInv, HostTypeOK
<1> QED BY <1>1, <1>2, RunningStep

-----------------------------------------------------------------------------
LEMMA HostStarts == HostInit => HostInv
<1> SUFFICES ASSUME HostInit PROVE HostInv
  OBVIOUS
<1>1. ZeroStamp \in Stamps
  BY DEF ZeroStamp, Stamps
<1>2. StoreTypeOK /\ ClockCoversStore
  BY <1>1, StoreAssumption DEF HostInit, StoreInit, StoreTypeOK, ClockCoversStore, Empty
<1>3. HostTypeOK /\ ClockCoversFile /\ NotedSurvivesRestart
  BY <1>1, <1>2 DEF HostInit, StoreInit, HostTypeOK, ClockCoversFile,
     NotedSurvivesRestart, Empty, HlcLeq
<1>4. FloorCoversNoted
  BY SeededFloor DEF HostInit, FloorCoversNoted
<1> QED BY <1>2, <1>3, <1>4 DEF HostInv

(* The invariant of the daemons holds in every state of every session, with *)
(* crashes, restarts and clocks that are set back in between.               *)
THEOREM HostInvInductive == HostSpec => []HostInv
<1>1. HostInit => HostInv
  BY HostStarts
<1>2. HostInv /\ [HostNext]_hostVars => HostInv'
  <2> SUFFICES ASSUME HostInv, [HostNext]_hostVars PROVE HostInv'
    OBVIOUS
  <2>1. ASSUME NEW h \in Hosts, HostStep(h) PROVE HostInv'
    <3>1. ASSUME NEW n \in Names, NEW v \in Values, NEW f \in ValueFlags,
                 NEW o \in Origins, WriteValue(h, n, v, f, o)
          PROVE  HostInv'
      <4>1. StoreStep(h) /\ Owes(h, n, "note") /\ UNCHANGED <<diskVars, noted>>
        BY <3>1 DEF WriteValue, StoreStep
      <4> QED BY <4>1, StoreAssumption, WriteStep DEF Keys
    <3>2. ASSUME NEW n \in Names, NEW o \in Origins, WriteTombstone(h, n, o)
          PROVE  HostInv'
      <4>1. StoreStep(h) /\ Owes(h, n, "note") /\ UNCHANGED <<diskVars, noted>>
        BY <3>2 DEF WriteTombstone, StoreStep
      <4> QED BY <4>1, StoreAssumption, WriteStep DEF Keys
    <3>3. ASSUME NEW v \in Values, MirrorClipboard(h, v)
          PROVE  HostInv'
      <4>1. StoreStep(h) /\ Owes(h, Mirror, "note") /\ UNCHANGED <<diskVars, noted>>
        BY <3>3 DEF MirrorClipboard, StoreStep
      <4> QED BY <4>1, StoreAssumption, WriteStep DEF Keys
    <3>4. ASSUME NEW n \in Keys, NoteFloor(h, n) PROVE HostInv'
      BY <3>4, FloorAssumption, NoteFloorStep
    <3>5. ASSUME NEW n \in Names, Announce(h, n) PROVE HostInv'
      BY <3>5, StoreAssumption, AnnounceStep
    <3>6. CASE Serve(h)
      BY <3>6, StoreAssumption, ServeStep
    <3>7. CASE Save(h)
      BY <3>7, StoreAssumption, SaveStep
    <3>8. CASE Restart(h)
      BY <3>8, StoreAssumption, RestartStep
    <3> QED BY <2>1, <3>1, <3>2, <3>3, <3>4, <3>5, <3>6, <3>7, <3>8 DEF HostStep
  <2>2. CASE UNCHANGED hostVars
    BY <2>2 DEF hostVars, storeVars, diskVars, HostInv, HostTypeOK,
       StoreTypeOK, ClockCoversStore, ClockCoversFile, FloorCoversNoted,
       NotedSurvivesRestart
  <2> QED BY <2>1, <2>2 DEF HostNext
<1> QED BY <1>1, <1>2, PTL DEF HostSpec

(* Every state of every session, the first after a crash included, is
   well-formed.                                                             *)
THEOREM HostTyped == HostSpec => []HostTypeOK
BY HostInvInductive, PTL DEF HostInv

(* No crash, no lost snapshot and no wall clock set back lets a daemon mint
   a stamp it has already noted (Hlc.h: "HLCs survive a restart (and a
   regressed wall clock) without reissuing values").                        *)
THEOREM HostNotedSurvives == HostSpec => []NotedSurvivesRestart
BY HostInvInductive, PTL DEF HostInv

(* The clock covers the snapshot through every crash, so loading it, again
   or late, can never beat a write made after the restart.                  *)
THEOREM HostClockCoversFile == HostSpec => []ClockCoversFile
BY HostInvInductive, PTL DEF HostInv

-----------------------------------------------------------------------------
(* What a step of a daemon does to the stores: a step of one store, or none,
   or the start of a new session.                                           *)
LEMMA StepOfAStore ==
    ASSUME NEW h \in Hosts, HostStep(h)
    PROVE  \/ StoreStep(h)
           \/ UNCHANGED storeVars
           \/ Restart(h)
<1>1. CASE \E n \in Names : Announce(h, n)
  BY <1>1 DEF Announce, StoreStep
<1>2. CASE Serve(h) \/ Save(h)
  BY <1>2 DEF Serve, Save, StoreStep
<1>3. CASE \E n \in Keys : NoteFloor(h, n)
  BY <1>3 DEF NoteFloor
<1>4. CASE \/ \E n \in Names, v \in Values, f \in ValueFlags, o \in Origins :
                 WriteValue(h, n, v, f, o)
           \/ \E n \in Names, o \in Origins : WriteTombstone(h, n, o)
           \/ \E v \in Values : MirrorClipboard(h, v)
  BY <1>4 DEF WriteValue, WriteTombstone, MirrorClipboard, StoreStep
<1> QED BY <1>1, <1>2, <1>3, <1>4 DEF HostStep

LEMMA StillNewest ==
    ASSUME StoreAssumption, StoreTypeOK, UNCHANGED storeVars,
           NEW g \in Hosts, NEW n \in Keys
    PROVE  KeepsNewest(g, n)
<1> SUFFICES ASSUME Live(store[g][n], now[g])
             PROVE  /\ store'[g][n] # NoRecord
                    /\ ~ValueLess(store'[g][n], store[g][n])
                    /\ HlcLeq(store[g][n].touched, store'[g][n].touched)
  BY DEF KeepsNewest
<1>1. store[g][n] \in Record /\ store'[g][n] = store[g][n]
  BY LiveRecord DEF StoreTypeOK, storeVars
<1>2. store[g][n] # NoRecord
  BY DEF Live
<1> QED BY <1>1, <1>2, ValueTotal DEF HlcLeq

(* The restart of one host leaves the stores of the others alone.           *)
LEMMA RestartIsLocal ==
    ASSUME HostInv, NEW h \in Hosts, Restart(h)
    PROVE  /\ \A g \in Hosts \ {h} : store'[g] = store[g] /\ now'[g] = now[g]
           /\ \A n \in Keys : store'[h][n] # NoRecord => Live(store'[h][n], now[h])
<1>1. PICK image \in {file[h], Empty(Names)} :
         store' = [store EXCEPT ![h] =
                     [n \in Keys |->
                        IF n \in Names THEN Prune(image, now[h])[n] ELSE NoRecord]]
  BY DEF Restart
<1>2. image \in [Names -> Record \cup {NoRecord}]
  BY <1>1 DEF Empty, HostInv, HostTypeOK
<1> QED BY <1>1, <1>2 DEF Restart, HostInv, HostTypeOK, StoreTypeOK, Prune

(* So it makes none of the others go back.                                  *)
LEMMA OtherKeepsNewest ==
    ASSUME StoreAssumption, HostInv, NEW h \in Hosts, Restart(h),
           NEW g \in Hosts, ~Restart(g), NEW n \in Keys
    PROVE  KeepsNewest(g, n)
<1>1. store'[g] = store[g] /\ now'[g] = now[g]
  BY RestartIsLocal
<1>2. ASSUME Live(store[g][n], now[g])
      PROVE  /\ store'[g][n] # NoRecord
             /\ ~ValueLess(store'[g][n], store[g][n])
             /\ HlcLeq(store[g][n].touched, store'[g][n].touched)
  <2>1. store[g][n] \in Record /\ store[g][n] # NoRecord
    BY <1>2, LiveRecord DEF HostInv, HostTypeOK, StoreTypeOK, Live
  <2> QED BY <1>1, <2>1, ValueTotal DEF HlcLeq
<1> QED BY <1>2 DEF KeepsNewest

(* No interleaving of writes, frames, saves and broadcasts takes a live
   record back on any host; only the end of a process does.                 *)
THEOREM HostOnlyRestartsRegress == HostSpec => OnlyRestartsRegress
<1> DEFINE Kept == \A h \in Hosts : \/ \A n \in Keys : KeepsNewest(h, n)
                                    \/ Restart(h)
<1>1. HostInv /\ [HostNext]_hostVars => [Kept]_hostVars
  <2> SUFFICES ASSUME HostInv, NEW h \in Hosts, HostStep(h), NEW g \in Hosts, ~Restart(g),
                      NEW n \in Keys
               PROVE  KeepsNewest(g, n)
    BY DEF HostNext
  <2>1. CASE StoreStep(h)
    BY <2>1, StoreAssumption, CellStep, NewestStep DEF HostInv, HostTypeOK
  <2>2. CASE UNCHANGED storeVars
    BY <2>2, StoreAssumption, StillNewest DEF HostInv, HostTypeOK
  <2>3. CASE Restart(h)
    BY <2>3, StoreAssumption, OtherKeepsNewest
  <2> QED BY <2>1, <2>2, <2>3, StepOfAStore
<1> QED BY <1>1, HostInvInductive, PTL DEF HostSpec, OnlyRestartsRegress

(* A dead record never enters a store, not from a peer and not from the
   snapshot a session starts with.                                          *)
THEOREM HostNoDeadOnArrival == HostSpec => NoDeadOnArrival
<1> DEFINE Alive == \A h \in Hosts, n \in Keys :
                       store'[h][n] # store[h][n] /\ store'[h][n] # NoRecord =>
                          Live(store'[h][n], now[h])
<1>1. HostInv /\ [HostNext]_hostVars => [Alive]_storeVars
  <2> SUFFICES ASSUME HostInv, NEW h \in Hosts, HostStep(h), NEW g \in Hosts, NEW n \in Keys,
                      store'[g][n] # store[g][n], store'[g][n] # NoRecord
               PROVE  Live(store'[g][n], now[g])
    BY DEF HostNext, hostVars
  <2>1. CASE StoreStep(h)
    BY <2>1, StoreAssumption, TtlAssumption, CellStep, ArrivalStep DEF HostInv, HostTypeOK
  <2>2. CASE UNCHANGED storeVars
    BY <2>2 DEF storeVars
  <2>3. CASE Restart(h)
    BY <2>3, RestartIsLocal
  <2> QED BY <2>1, <2>2, <2>3, StepOfAStore
<1>2. HostSpec => [][Alive]_storeVars
  BY <1>1, HostInvInductive, PTL DEF HostSpec
<1> QED BY <1>2, PTL DEF NoDeadOnArrival


-----------------------------------------------------------------------------
(***************************************************************************)
(* What a sequence of frames holds.                                        *)
(***************************************************************************)
LEMMA RangeAppend ==
    ASSUME NEW F, NEW s \in Seq(F), NEW x \in F
    PROVE  Append(s, x) \in Seq(F) /\ Range(Append(s, x)) = Range(s) \cup {x}
<1>1. Append(s, x) \in Seq(F) /\ Len(Append(s, x)) = Len(s) + 1 /\ Len(s) \in Nat
  BY AppendProperties
<1>2. \A i \in 1 .. Len(s) : Append(s, x)[i] = s[i]
  BY AppendProperties
<1>3. Append(s, x)[Len(s) + 1] = x
  BY AppendProperties
<1>4. /\ Range(Append(s, x)) = {Append(s, x)[i] : i \in 1 .. Len(s) + 1}
      /\ Range(s) = {s[i] : i \in 1 .. Len(s)}
  BY <1>1, RangeEquality
<1>5. 1 .. Len(s) + 1 = (1 .. Len(s)) \cup {Len(s) + 1}
  BY <1>1
<1> QED BY <1>1, <1>2, <1>3, <1>4, <1>5

LEMMA RangeTail ==
    ASSUME NEW F, NEW s \in Seq(F), s # <<>>
    PROVE  /\ Head(s) \in F /\ Tail(s) \in Seq(F)
           /\ Range(s) = {Head(s)} \cup Range(Tail(s))
<1>1. /\ Head(s) \in F /\ Tail(s) \in Seq(F) /\ Len(s) \in Nat \ {0}
      /\ Len(Tail(s)) = Len(s) - 1 /\ Head(s) = s[1]
      /\ \A i \in 1 .. Len(Tail(s)) : Tail(s)[i] = s[i + 1]
  BY HeadTailProperties, EmptySeq
<1>2. /\ Range(s) = {s[i] : i \in 1 .. Len(s)}
      /\ Range(Tail(s)) = {Tail(s)[i] : i \in 1 .. Len(Tail(s))}
  BY <1>1, RangeEquality
<1>3. ASSUME NEW i \in 1 .. Len(s), i # 1
      PROVE  s[i] = Tail(s)[i - 1] /\ i - 1 \in 1 .. Len(Tail(s))
  BY <1>1, <1>3
<1>4. Range(s) \subseteq {Head(s)} \cup Range(Tail(s))
  BY <1>1, <1>2, <1>3
<1>5. \A i \in 1 .. Len(Tail(s)) : i + 1 \in 1 .. Len(s)
  BY <1>1
<1>6. 1 \in 1 .. Len(s)
  BY <1>1
<1>7. {Head(s)} \cup Range(Tail(s)) \subseteq Range(s)
  BY <1>1, <1>2, <1>5, <1>6
<1> QED BY <1>1, <1>4, <1>7

LEMMA RangeEmpty == Range(<<>>) = {}
BY DEF Range

(* SetToSeq lists every member of a finite set.                             *)
LEMMA SetToSeqLists ==
    ASSUME NEW S, IsFiniteSet(S)
    PROVE  /\ Cardinality(S) \in Nat
           /\ SetToSeq(S) \in [1 .. Cardinality(S) -> S]
           /\ \A x \in S : \E i \in 1 .. Cardinality(S) : SetToSeq(S)[i] = x
<1> DEFINE n == Cardinality(S)
           f == SetToSeq(S)
<1>1. n \in Nat /\ ExistsBijection(1 .. n, S)
  BY FS_CardinalityType
<1>2. \E g \in [1 .. n -> S] : IsInjective(g)
  BY <1>1 DEF ExistsBijection, Bijection, Injection
<1>3. f \in [1 .. n -> S] /\ IsInjective(f)
  BY <1>2 DEF SetToSeq
<1>4. f \in Injection(1 .. n, S)
  BY <1>3 DEF Injection
<1>5. Cardinality(1 .. n) = n
  BY <1>1, FS_Interval
<1>6. f \in Surjection(1 .. n, S)
  BY <1>4, <1>5, FS_Injection
<1> QED BY <1>1, <1>3, <1>6 DEF Surjection

-----------------------------------------------------------------------------
RegwFrames == [tag : {"REGW"}, name : Names, record : Record]

DigestEntries == [name : Names, written : Stamps, touched : Stamps]

RsynFrames == [tag : {"RSYN"}, digest : SUBSET DigestEntries]

Frames == RegwFrames \cup RsynFrames

LinkTypeOK ==
    /\ met \subseteq Dials /\ up \subseteq met
    /\ greeting \subseteq Ends
    /\ wire \in [Ends -> Seq(Frames)]
    /\ outbox \in [Dials -> Seq(RegwFrames)]

MeshInv == HostInv /\ LinkTypeOK

LEMMA EndsOfADial ==
    ASSUME MeshAssumption, NEW d \in Dials, NEW e \in {d[1], d[2]}
    PROVE  /\ d[1] \in Hosts /\ d[2] \in Hosts /\ d[1] # d[2] /\ d = <<d[1], d[2]>>
           /\ e \in Hosts /\ <<d, e>> \in Ends
           /\ Other(d, e) \in Hosts /\ Other(d, e) \in {d[1], d[2]} /\ Other(d, e) # e
           /\ <<d, Other(d, e)>> \in Ends
<1>1. d[1] \in Hosts /\ d[2] \in Hosts /\ d[1] # d[2] /\ d = <<d[1], d[2]>>
  BY DEF MeshAssumption
<1>2. \A x \in {d[1], d[2]} : <<d, x>> \in Ends
  BY DEF Ends
<1> QED BY <1>1, <1>2 DEF Other

LEMMA EndIsAnEnd ==
    ASSUME NEW end \in Ends
    PROVE  end[1] \in Dials /\ end[2] \in {end[1][1], end[1][2]} /\ end = <<end[1], end[2]>>
BY DEF Ends

LEMMA RegwTyped ==
    ASSUME StoreTypeOK, NEW h \in Hosts, NEW n \in Names, store[h][n] # NoRecord
    PROVE  Regw(n, store[h][n]) \in RegwFrames
BY DEF StoreTypeOK, Keys, Regw, RegwFrames

LEMMA RsynTyped ==
    ASSUME StoreTypeOK, NEW h \in Hosts
    PROVE  Rsyn(h) \in RsynFrames
<1>1. ASSUME NEW n \in Names, Live(store[h][n], now[h])
      PROVE  /\ store[h][n].written \in Stamps
             /\ store[h][n].touched \in Stamps
  BY <1>1, LiveRecord, RecordFields DEF StoreTypeOK, Keys
<1>2. DigestOf(h) \subseteq DigestEntries
  BY <1>1 DEF DigestOf, DigestEntries
<1> QED BY <1>2 DEF Rsyn, RsynFrames

(* An answer holds each of the names it is made of, as the store has it.    *)
LEMMA PushedTyped ==
    ASSUME MeshAssumption, StoreTypeOK, NEW h \in Hosts,
           NEW S \in SUBSET Names, \A n \in S : store[h][n] # NoRecord
    PROVE  /\ Pushed(h, S) \in Seq(RegwFrames)
           /\ Range(Pushed(h, S)) = {Regw(n, store[h][n]) : n \in S}
<1> DEFINE order == SetToSeq(S)
           k == Cardinality(S)
<1>1. IsFiniteSet(S)
  BY FS_Subset DEF MeshAssumption
<1>2. /\ k \in Nat /\ order \in [1 .. k -> S]
      /\ \A x \in S : \E i \in 1 .. k : order[i] = x
  BY <1>1, SetToSeqLists
<1>3. Pushed(h, S) = [i \in 1 .. k |-> Regw(order[i], store[h][order[i]])]
  BY <1>2 DEF Pushed
<1>4. \A n \in S : Regw(n, store[h][n]) \in RegwFrames
  BY RegwTyped
<1> HIDE DEF order, k
<1>5. Pushed(h, S) \in [1 .. k -> RegwFrames]
  BY <1>2, <1>3, <1>4
<1>6. Pushed(h, S) \in Seq(RegwFrames)
  BY <1>2, <1>5, SeqDef
<1>7. Range(Pushed(h, S)) = {Pushed(h, S)[i] : i \in 1 .. k}
  BY <1>5 DEF Range
<1>8. \A i \in 1 .. k : order[i] \in S /\ Pushed(h, S)[i] = Regw(order[i], store[h][order[i]])
  BY <1>2, <1>3
<1> QED BY <1>2, <1>6, <1>7, <1>8

-----------------------------------------------------------------------------
(* A frame that arrives.                                                    *)
LEMMA ArrivedFrame ==
    ASSUME MeshAssumption, LinkTypeOK, NEW d \in Dials, NEW e \in {d[1], d[2]}, Arrived(d, e)
    PROVE  LET s == wire[<<d, Other(d, e)>>]
           IN  /\ s \in Seq(Frames) /\ s # <<>> /\ Head(s) \in Frames /\ Tail(s) \in Seq(Frames)
               /\ Range(s) = {Head(s)} \cup Range(Tail(s))
<1> DEFINE s == wire[<<d, Other(d, e)>>]
<1>1. s \in Seq(Frames) /\ s # <<>>
  BY EndsOfADial DEF LinkTypeOK, Arrived
<1> HIDE DEF s
<1>2. Head(s) \in Frames /\ Tail(s) \in Seq(Frames) /\ Range(s) = {Head(s)} \cup Range(Tail(s))
  BY <1>1, RangeTail
<1> QED BY <1>1, <1>2 DEF s

(* A frame is a record or a digest by its tag.                              *)
LEMMA FrameByTag ==
    ASSUME NEW f \in Frames
    PROVE  /\ f.tag = "REGW" => f \in RegwFrames /\ f.name \in Names /\ f.record \in Record
           /\ f.tag = "RSYN" => f \in RsynFrames /\ f.digest \in SUBSET DigestEntries
           /\ f.tag # "REGW" => f.tag = "RSYN"
BY DEF Frames, RegwFrames, RsynFrames

(* All but a crash changes each store in one of the ways RegisterStore does. *)
LEMMA MeshCells ==
    ASSUME StoreAssumption, MeshAssumption, MeshInv, MeshNext
    PROVE  \/ Shape /\ \A g \in Hosts : ChangesCells(g)
           \/ \E h \in Hosts : Crash(h)
<1> DEFINE Cells == Shape /\ \A g \in Hosts : ChangesCells(g)
<1> USE DEF MeshInv, HostInv, HostTypeOK
<1>1. ASSUME NEW h \in Users, LocalWrite(h) PROVE Cells
  <2>1. h \in Hosts /\ \A o \in Origins \cup {h} : o \in Nat
    BY DEF MeshAssumption, StoreAssumption
  <2>2. ASSUME NEW n \in Names, NEW v \in Values, NEW f \in ValueFlags,
               NEW o \in Origins \cup {h}, WriteValue(h, n, v, f, o)
        PROVE  Cells
    BY <2>1, <2>2, UpsertStep DEF WriteValue
  <2>3. ASSUME NEW n \in Names, NEW o \in Origins \cup {h}, WriteTombstone(h, n, o)
        PROVE  Cells
    <3>1. n \in Keys /\ o \in Nat /\ 0 \in Nat /\ Tombstone \in FlagBytes
      BY <2>1 DEF Keys, Tombstone, FlagBytes
    <3> QED BY <2>1, <2>3, <3>1, FreshCell DEF WriteTombstone, Delete
  <2> QED BY <1>1, <2>2, <2>3 DEF LocalWrite
<1>2. ASSUME NEW h \in Users, NEW n \in Names, LocalRead(h, n) PROVE Cells
  BY <1>2, ReadStep DEF LocalRead, MeshAssumption
<1>3. ASSUME NEW h \in Hosts, NEW n \in Names, Note(h, n) PROVE Cells
  BY <1>3, CellsIdle DEF Note, NoteFloor
<1>4. ASSUME NEW h \in Hosts, NEW n \in Names, Broadcast(h, n) PROVE Cells
  BY <1>4, CellsIdle, DropOnAccessStep DEF Broadcast, Announce
<1>5. ASSUME NEW h \in Hosts, SaveStore(h) \/ Elapse(h) PROVE Cells
  BY <1>5, PruneExpiredStep, WallStep DEF SaveStore, Save, Elapse
<1>6. ASSUME NEW d \in Dials, Connect(d) \/ Drain(d) \/ Disconnect(d) \/ RemovePeer(d)
      PROVE  Cells
  BY <1>6, CellsIdle DEF Connect, Drain, Disconnect, RemovePeer, hostVars
<1>7. ASSUME NEW d \in Dials, NEW e \in {d[1], d[2]},
             Greet(d, e) \/ AnswerDigest(d, e)
      PROVE  Cells
  BY <1>7, EndsOfADial, PruneExpiredStep DEF Greet, AnswerDigest
<1>8. ASSUME NEW d \in Dials, NEW e \in {d[1], d[2]}, ReceiveRecord(d, e) PROVE Cells
  BY <1>8, EndsOfADial, ArrivedFrame, FrameByTag, ApplyRemoteStep DEF ReceiveRecord
<1> HIDE DEF Cells
<1> QED BY <1>1, <1>2, <1>3, <1>4, <1>5, <1>6, <1>7, <1>8, EndIsAnEnd DEF MeshNext, Cells

(* The invariant of a daemon survives the mesh.                             *)
LEMMA MeshHosts ==
    ASSUME StoreAssumption, FloorAssumption, MeshAssumption, MeshInv, MeshNext
    PROVE  HostInv'
<1>1. CASE \E h \in Hosts : Crash(h)
  BY <1>1, RestartStep DEF MeshInv, Crash
<1>2. CASE \E h \in Hosts, n \in Names : Note(h, n)
  BY <1>2, NoteFloorStep DEF MeshInv, Note, Keys
<1>3. CASE \E h \in Hosts : SaveStore(h)
  BY <1>3, SaveStep DEF MeshInv, SaveStore
<1>4. ASSUME ~ \E h \in Hosts : Crash(h),
             UNCHANGED <<diskVars, noted>>, announcing' \in [Hosts -> SUBSET Tasks]
      PROVE  HostInv'
  BY <1>4, MeshCells, CellsRun DEF MeshInv
<1>5. announcing \in [Hosts -> SUBSET Tasks]
  BY DEF MeshInv, HostInv, HostTypeOK
<1>6. ASSUME NEW h \in Users, LocalWrite(h)
      PROVE  UNCHANGED <<diskVars, noted>> /\ announcing' \in [Hosts -> SUBSET Tasks]
  BY <1>6, OwingTyped DEF LocalWrite, WriteValue, WriteTombstone, MeshInv, HostInv,
     MeshAssumption, Keys
<1>7. ASSUME NEW h \in Hosts, NEW n \in Names, Broadcast(h, n)
      PROVE  UNCHANGED <<diskVars, noted>> /\ announcing' \in [Hosts -> SUBSET Tasks]
  BY <1>5, <1>7 DEF Broadcast, Announce
<1>8. ASSUME \/ \E h \in Users, n \in Names : LocalRead(h, n)
             \/ \E h \in Hosts : Elapse(h)
             \/ \E d \in Dials : Connect(d) \/ Drain(d) \/ Disconnect(d) \/ RemovePeer(d)
             \/ \E end \in Ends : \/ Greet(end[1], end[2]) \/ ReceiveRecord(end[1], end[2])
                                  \/ AnswerDigest(end[1], end[2])
      PROVE  UNCHANGED <<diskVars, noted, announcing>>
  BY <1>8 DEF LocalRead, Elapse, Connect, Drain, Disconnect, RemovePeer, Greet,
     ReceiveRecord, AnswerDigest, hostVars
<1> QED BY <1>1, <1>2, <1>3, <1>4, <1>5, <1>6, <1>7, <1>8 DEF MeshNext

LEMMA BreakTyped ==
    ASSUME LinkTypeOK, NEW D, Break(D)
    PROVE  up' \subseteq met /\ greeting' \subseteq Ends /\ wire' \in [Ends -> Seq(Frames)]
<1>1. up' \subseteq met /\ greeting' \subseteq Ends
  BY DEF Break, LinkTypeOK
<1>2. \A end \in Ends : (IF end[1] \in D THEN <<>> ELSE wire[end]) \in Seq(Frames)
  BY EmptySeq DEF LinkTypeOK
<1> QED BY <1>1, <1>2 DEF Break

LEMMA ForgetTyped ==
    ASSUME LinkTypeOK, NEW D, Forget(D)
    PROVE  met' = met \ D /\ outbox' \in [Dials -> Seq(RegwFrames)]
<1>1. \A d \in Dials : (IF d \in D THEN <<>> ELSE outbox[d]) \in Seq(RegwFrames)
  BY EmptySeq DEF LinkTypeOK
<1> QED BY <1>1 DEF Forget, LinkTypeOK

(* Whatever happens, the connections carry records and digests, and only
   peers that have met are connected.                                       *)
LEMMA LinkStep ==
    ASSUME StoreAssumption, MeshAssumption, MeshInv, MeshNext
    PROVE  LinkTypeOK'
<1> USE DEF MeshInv, HostInv, HostTypeOK
<1>1. ASSUME UNCHANGED linkVars PROVE LinkTypeOK'
  BY <1>1 DEF LinkTypeOK, linkVars
<1>2. ASSUME \/ \E h \in Users : LocalWrite(h)
             \/ \E h \in Users, n \in Names : LocalRead(h, n)
             \/ \E h \in Hosts, n \in Names : Note(h, n)
             \/ \E h \in Hosts : SaveStore(h) \/ Elapse(h)
      PROVE  UNCHANGED linkVars
  BY <1>2 DEF LocalWrite, LocalRead, Note, SaveStore, Elapse
<1>3. ASSUME NEW h \in Hosts, NEW n \in Names, Broadcast(h, n) PROVE LinkTypeOK'
  <2> DEFINE f == Regw(n, store[h][n])
  <2>1. ASSUME Live(store[h][n], now[h]) PROVE f \in RegwFrames
    BY <2>1, LiveRecord, RegwTyped
  <2>2. ASSUME NEW d \in Dials, Live(store[h][n], now[h])
        PROVE  Append(outbox[d], f) \in Seq(RegwFrames)
    <3>1. outbox[d] \in Seq(RegwFrames)
      BY DEF LinkTypeOK
    <3> HIDE DEF f
    <3> QED BY <2>1, <2>2, <3>1, RangeAppend
  <2>3. outbox' = [d \in Dials |-> IF d[1] = h /\ d \in met /\ Live(store[h][n], now[h])
                                   THEN Append(outbox[d], f) ELSE outbox[d]]
    BY <1>3 DEF Broadcast
  <2> HIDE DEF f
  <2>4. outbox' \in [Dials -> Seq(RegwFrames)]
    BY <2>2, <2>3 DEF LinkTypeOK
  <2> QED BY <1>3, <2>4 DEF Broadcast, LinkTypeOK
<1>4. ASSUME NEW d \in Dials, Connect(d) PROVE LinkTypeOK'
  BY <1>4, EndsOfADial DEF Connect, LinkTypeOK
<1>5. ASSUME NEW d \in Dials, Drain(d) PROVE LinkTypeOK'
  <2> DEFINE end == <<d, d[1]>>
  <2>1. outbox[d] \in Seq(RegwFrames) /\ outbox[d] # <<>>
    BY <1>5 DEF Drain, LinkTypeOK
  <2>2. Head(outbox[d]) \in RegwFrames /\ Tail(outbox[d]) \in Seq(RegwFrames)
    BY <2>1, RangeTail
  <2>3. end \in Ends /\ wire[end] \in Seq(Frames)
    BY EndsOfADial DEF LinkTypeOK
  <2>4. Append(wire[end], Head(outbox[d])) \in Seq(Frames)
    BY <2>2, <2>3, RangeAppend DEF Frames
  <2>5. /\ wire' = [wire EXCEPT ![end] = Append(wire[end], Head(outbox[d]))]
        /\ outbox' = [outbox EXCEPT ![d] = Tail(outbox[d])]
        /\ UNCHANGED <<met, up, greeting>>
    BY <1>5 DEF Drain
  <2> HIDE DEF end
  <2> QED BY <2>2, <2>3, <2>4, <2>5 DEF LinkTypeOK
<1>6. ASSUME NEW d \in Dials, NEW e \in {d[1], d[2]}, Greet(d, e) PROVE LinkTypeOK'
  <2> DEFINE end == <<d, e>>
  <2>1. end \in Ends /\ wire[end] \in Seq(Frames) /\ Rsyn(e) \in Frames
    BY EndsOfADial, RsynTyped DEF LinkTypeOK, Frames
  <2>2. Append(wire[end], Rsyn(e)) \in Seq(Frames)
    BY <2>1, RangeAppend
  <2>3. /\ wire' = [wire EXCEPT ![end] = Append(wire[end], Rsyn(e))]
        /\ greeting' \subseteq greeting /\ UNCHANGED <<met, up, outbox>>
    BY <1>6 DEF Greet
  <2> HIDE DEF end
  <2> QED BY <2>1, <2>2, <2>3 DEF LinkTypeOK
<1>7. ASSUME NEW d \in Dials, NEW e \in {d[1], d[2]}, Arrived(d, e)
      PROVE  Taken(d, e) \in [Ends -> Seq(Frames)]
  BY <1>7, EndsOfADial, ArrivedFrame DEF Taken, LinkTypeOK
<1>8. ASSUME NEW d \in Dials, NEW e \in {d[1], d[2]}, ReceiveRecord(d, e) PROVE LinkTypeOK'
  BY <1>7, <1>8 DEF ReceiveRecord, LinkTypeOK
<1>9. ASSUME NEW d \in Dials, NEW e \in {d[1], d[2]}, AnswerDigest(d, e) PROVE LinkTypeOK'
  <2> DEFINE end == <<d, e>>
             t == Taken(d, e)
             S == NamesToPush(e, Head(wire[<<d, Other(d, e)>>]).digest)
  <2>1. end \in Ends /\ t \in [Ends -> Seq(Frames)] /\ e \in Hosts
    BY <1>7, <1>9, EndsOfADial DEF AnswerDigest
  <2>2. S \in SUBSET Names /\ \A n \in S : store[e][n] # NoRecord
    BY DEF NamesToPush, Live
  <2>3. /\ wire' = [t EXCEPT ![end] = t[end] \o Pushed(e, S)]
        /\ UNCHANGED <<met, up, greeting, outbox>>
    BY <1>9 DEF AnswerDigest
  <2> HIDE DEF end, t, S
  <2>4. Pushed(e, S) \in Seq(RegwFrames)
    BY <2>1, <2>2, PushedTyped
  <2>5. Pushed(e, S) \in Seq(Frames)
    BY <2>4, SeqMonotonic DEF Frames
  <2>6. t[end] \o Pushed(e, S) \in Seq(Frames)
    BY <2>1, <2>5, ConcatProperties
  <2> QED BY <2>1, <2>3, <2>6 DEF LinkTypeOK
<1>10. ASSUME NEW d \in Dials, Disconnect(d) PROVE LinkTypeOK'
  BY <1>10, BreakTyped DEF Disconnect, LinkTypeOK
<1>11. ASSUME NEW d \in Dials, RemovePeer(d) PROVE LinkTypeOK'
  BY <1>11, BreakTyped, ForgetTyped DEF RemovePeer, Break, LinkTypeOK
<1>12. ASSUME NEW h \in Hosts, Crash(h) PROVE LinkTypeOK'
  <2>1. PICK D, E : Break(D) /\ Forget(E) /\ E \subseteq D
    BY <1>12 DEF Crash
  <2> QED BY <2>1, BreakTyped, ForgetTyped DEF Break, LinkTypeOK
<1> QED BY <1>1, <1>2, <1>3, <1>4, <1>5, <1>6, <1>8, <1>9, <1>10, <1>11, <1>12, EndIsAnEnd
        DEF MeshNext

(* For any daemons, dials and faults: what holds of a daemon on its own holds
   of the daemons of a mesh, and the connections carry whole frames.        *)
THEOREM MeshInvariant == MeshSpec => []MeshInv
<1>1. MeshInit => MeshInv
  <2> SUFFICES ASSUME MeshInit PROVE MeshInv
    OBVIOUS
  <2>1. HostInv
    BY HostStarts DEF MeshInit
  <2>2. LinkTypeOK
    BY EmptySeq DEF MeshInit, LinkTypeOK
  <2> QED BY <2>1, <2>2 DEF MeshInv
<1>2. MeshInv /\ [MeshNext]_meshVars => MeshInv'
  <2> SUFFICES ASSUME MeshInv, [MeshNext]_meshVars PROVE MeshInv'
    OBVIOUS
  <2>1. CASE MeshNext
    BY <2>1, StoreAssumption, FloorAssumption, MeshAssumption, MeshHosts, LinkStep DEF MeshInv
  <2>2. CASE UNCHANGED meshVars
    BY <2>2 DEF meshVars, linkVars, hostVars, storeVars, diskVars, MeshInv, HostInv, HostTypeOK,
       StoreTypeOK, ClockCoversStore, ClockCoversFile, FloorCoversNoted,
       NotedSurvivesRestart, LinkTypeOK
  <2> QED BY <2>1, <2>2
<1> QED BY <1>1, <1>2, PTL DEF MeshSpec

(* However the daemons talk, none mints a stamp it has noted before.        *)
THEOREM MeshNotedSurvives == MeshSpec => []NotedSurvivesRestart
BY MeshInvariant, PTL DEF MeshInv, HostInv

(* No digest, broadcast, break or reconnect makes a daemon go back on what it
   holds live; only the end of its process does.                            *)
THEOREM MeshOnlyRestartsRegress == MeshSpec => OnlyRestartsRegress
<1> DEFINE Kept == \A h \in Hosts : \/ \A n \in Keys : KeepsNewest(h, n)
                                    \/ Restart(h)
<1>1. MeshInv /\ [MeshNext]_meshVars => [Kept]_hostVars
  <2> SUFFICES ASSUME MeshInv, MeshNext, NEW g \in Hosts, ~Restart(g), NEW n \in Keys
               PROVE  KeepsNewest(g, n)
    BY DEF meshVars
  <2>1. CASE Shape /\ \A h \in Hosts : ChangesCells(h)
    BY <2>1, StoreAssumption, NewestStep DEF MeshInv, HostInv, HostTypeOK
  <2>2. CASE \E h \in Hosts : Crash(h)
    BY <2>2, StoreAssumption, OtherKeepsNewest DEF Crash, MeshInv
  <2> QED BY <2>1, <2>2, StoreAssumption, MeshAssumption, MeshCells
<1> QED BY <1>1, MeshInvariant, PTL DEF MeshSpec, OnlyRestartsRegress

-----------------------------------------------------------------------------
LEMMA SameInit == HostInit => Host!HostInit
BY DEF HostInit, StoreInit, Empty, Keys, ZeroStamp,
   Host!HostInit, Host!StoreInit, Host!Empty, Host!Keys, Host!ZeroStamp

LEMMA SamePrune ==
    ASSUME NEW h
    PROVE  PruneExpired(h) => Host!PruneExpired(h)
BY DEF PruneExpired, Prune, Live, IsExpired,
   Host!PruneExpired, Host!Prune, Host!Live, Host!IsExpired

LEMMA SameDrop ==
    ASSUME NEW h, NEW n
    PROVE  DropOnAccess(h, n) => Host!DropOnAccess(h, n)
BY DEF DropOnAccess, IsExpired, Host!DropOnAccess, Host!IsExpired

LEMMA SameMint ==
    ASSUME NEW h
    PROVE  MintStamp(h) => Host!MintStamp(h)
BY DEF MintStamp, CanMint, Mint, Host!MintStamp, Host!CanMint, Host!Mint

LEMMA SameValueHeld ==
    ASSUME NEW r, NEW t
    PROVE  HoldsValue(r, t) <=> Host!HoldsValue(r, t)
BY DEF HoldsValue, Live, IsExpired, IsTombstone,
   Host!HoldsValue, Host!Live, Host!IsExpired, Host!IsTombstone

LEMMA SameRead ==
    ASSUME NEW h, NEW n
    PROVE  Read(h, n) => Host!Read(h, n)
BY SameMint, SameValueHeld DEF Read, Host!Read

LEMMA SameDelete ==
    ASSUME NEW h, NEW n, NEW o
    PROVE  Delete(h, n, o) => Host!Delete(h, n, o)
BY SameMint, SameValueHeld DEF Delete, Fresh, Tombstone, Host!Delete, Host!Fresh, Host!Tombstone

LEMMA SameCap ==
    ASSUME NEW s, NEW n, NEW t
    PROVE  CapRefuses(s, n, t) <=> Host!CapRefuses(s, n, t)
<1>1. {m \in Names : HoldsValue(s[m], t)} = {m \in Names : Host!HoldsValue(s[m], t)}
  BY SameValueHeld
<1>2. LiveCount(s, t) = Host!LiveCount(s, t)
  BY <1>1 DEF LiveCount, Host!LiveCount, Cardinality, Host!Cardinality
<1> QED BY <1>2, SameValueHeld DEF CapRefuses, Host!CapRefuses

LEMMA SamePruned ==
    ASSUME NEW s, NEW t
    PROVE  Prune(s, t) = Host!Prune(s, t)
BY DEF Prune, Live, IsExpired, Host!Prune, Host!Live, Host!IsExpired

LEMMA SameUpsert ==
    ASSUME NEW h, NEW n, NEW v, NEW f, NEW o
    PROVE  Upsert(h, n, v, f, o) => Host!Upsert(h, n, v, f, o)
<1>1. Fresh(v, WithoutTombstone(f), o, clock'[h])
         = Host!Fresh(v, Host!WithoutTombstone(f), o, clock'[h])
  BY DEF Fresh, WithoutTombstone, Host!Fresh, Host!WithoutTombstone
<1> QED BY <1>1, SameMint, SameCap, SamePruned DEF Upsert, Host!Upsert

LEMMA SameApply ==
    ASSUME NEW h, NEW n, NEW r
    PROVE  ApplyRemote(h, n, r) => Host!ApplyRemote(h, n, r)
<1>1. \A a, b : MergeRecords(a, b) = Host!MergeRecords(a, b)
  BY DEF MergeRecords, ValueLess, HlcMax, HlcLess,
     Host!MergeRecords, Host!ValueLess, Host!HlcMax, Host!HlcLess
<1>2. \A held, t : Applied(held, r, t) = Host!Applied(held, r, t)
  BY <1>1 DEF Applied, Live, IsExpired, Host!Applied, Host!Live, Host!IsExpired
<1>3. \A c, w : Witness(c, w) = Host!Witness(c, w)
  BY DEF Witness, HlcMax, HlcLess, Host!Witness, Host!HlcMax, Host!HlcLess
<1> QED BY <1>2, <1>3 DEF ApplyRemote, Host!ApplyRemote

LEMMA SameWrite ==
    ASSUME NEW h, NEW n, NEW v, NEW f, NEW o
    PROVE  /\ WriteValue(h, n, v, f, o) => Host!WriteValue(h, n, v, f, o)
           /\ WriteTombstone(h, n, o) => Host!WriteTombstone(h, n, o)
BY SameUpsert, SameDelete DEF WriteValue, WriteTombstone, Owes, diskVars,
   Host!WriteValue, Host!WriteTombstone, Host!Owes, Host!diskVars

LEMMA SameNote ==
    ASSUME NEW h, NEW n
    PROVE  NoteFloor(h, n) => Host!NoteFloor(h, n)
BY DEF NoteFloor, Reserved, storeVars, Host!NoteFloor, Host!Reserved, Host!storeVars

LEMMA SameAnnounce ==
    ASSUME NEW h, NEW n
    PROVE  Announce(h, n) => Host!Announce(h, n)
BY SameDrop DEF Announce, Live, IsExpired, storeVars, diskVars,
   Host!Announce, Host!Live, Host!IsExpired, Host!storeVars, Host!diskVars

LEMMA SameSave ==
    ASSUME NEW h
    PROVE  Save(h) => Host!Save(h)
BY SamePrune DEF Save, Host!Save

LEMMA SameRestart ==
    ASSUME NEW h
    PROVE  Restart(h) => Host!Restart(h)
<1>1. \A image : StartupStamps(h, image) = Host!StartupStamps(h, image)
  BY DEF StartupStamps, StampsOf, SeedFloor, HlcMax, HlcLess, ZeroStamp, Host!StartupStamps,
     Host!StampsOf, Host!SeedFloor, Host!HlcMax, Host!HlcLess, Host!ZeroStamp
<1>2. \A top, stamps : Greatest(top, stamps) <=> Host!Greatest(top, stamps)
  BY DEF Greatest, HlcLeq, HlcLess, Host!Greatest, Host!HlcLeq, Host!HlcLess
<1>3. Empty(Names) = Host!Empty(Names) /\ Keys = Host!Keys
  BY DEF Empty, Keys, Host!Empty, Host!Keys
<1>4. \A image : [n \in Keys |-> IF n \in Names THEN Prune(image, now[h])[n] ELSE NoRecord]
                = [n \in Host!Keys |->
                     IF n \in Names THEN Host!Prune(image, now[h])[n] ELSE NoRecord]
  BY <1>3, SamePruned
<1>5. ASSUME Restart(h) PROVE Host!Restart(h)
  <2>1. PICK image \in {file[h], Empty(Names)} :
           /\ file' = [file EXCEPT ![h] = image]
           /\ \E top \in StartupStamps(h, image) :
                 /\ Greatest(top, StartupStamps(h, image))
                 /\ clock' = [clock EXCEPT ![h] = top]
           /\ store' = [store EXCEPT ![h] =
                          [n \in Keys |->
                             IF n \in Names THEN Prune(image, now[h])[n] ELSE NoRecord]]
    BY <1>5 DEF Restart
  <2>2. /\ image \in {file[h], Host!Empty(Names)}
        /\ \E top \in Host!StartupStamps(h, image) :
              /\ Host!Greatest(top, Host!StartupStamps(h, image))
              /\ clock' = [clock EXCEPT ![h] = top]
    BY <1>1, <1>2, <1>3, <2>1
  <2>3. store' = [store EXCEPT ![h] =
                    [n \in Host!Keys |->
                       IF n \in Names THEN Host!Prune(image, now[h])[n] ELSE NoRecord]]
    BY <1>4, <2>1
  <2> QED BY <1>5, <2>1, <2>2, <2>3 DEF Restart, Host!Restart
<1> QED BY <1>5

(* The steps of the two that are named alike are the same; a store operation
   of the mesh is served by the daemon.                                     *)
LEMMA Serves ==
    ASSUME NEW h,
           \/ PruneExpired(h) \/ Tick(h) \/ StepBack(h)
           \/ \E n \in Names : Read(h, n)
           \/ \E n \in Names, r \in RemoteRecords : ApplyRemote(h, n, r),
           UNCHANGED <<diskVars, announcing, noted>>
    PROVE  Host!Serve(h)
BY SamePrune, SameRead, SameApply DEF Tick, StepBack, diskVars,
   Host!Serve, Host!Tick, Host!StepBack, Host!diskVars

(* A step of the mesh is a step of one daemon, or none.                     *)
LEMMA MeshStepIsHostStep ==
    ASSUME MeshAssumption, MeshInv, Record \subseteq RemoteRecords, Origins \subseteq Hosts,
           [MeshNext]_meshVars
    PROVE  [Host!HostNext]_(Host!hostVars)
<1> USE DEF MeshInv
<1>1. ASSUME NEW h \in Users, LocalWrite(h) PROVE h \in Hosts /\ Host!HostStep(h)
  <2>1. h \in Hosts /\ Origins \cup {h} \subseteq Hosts
    BY DEF MeshAssumption
  <2>2. \/ \E n \in Names, v \in Values, f \in ValueFlags, o \in Hosts :
              Host!WriteValue(h, n, v, f, o)
        \/ \E n \in Names, o \in Hosts : Host!WriteTombstone(h, n, o)
    BY <1>1, <2>1, SameWrite DEF LocalWrite
  <2> QED BY <2>1, <2>2 DEF Host!HostStep
<1>2. ASSUME NEW h \in Users, NEW n \in Names, LocalRead(h, n)
      PROVE  h \in Hosts /\ Host!HostStep(h)
  BY <1>2, Serves DEF LocalRead, MeshAssumption, Host!HostStep
<1>3. ASSUME NEW h \in Hosts, NEW n \in Names, Note(h, n) \/ Broadcast(h, n)
      PROVE  Host!HostStep(h)
  BY <1>3, SameNote, SameAnnounce DEF Note, Broadcast, Host!HostStep, Host!Keys
<1>4. ASSUME NEW h \in Hosts, SaveStore(h) \/ Elapse(h) \/ Crash(h)
      PROVE  Host!HostStep(h)
  BY <1>4, SameSave, Serves, SameRestart DEF SaveStore, Elapse, Crash, Host!HostStep
<1>5. ASSUME NEW d \in Dials, Connect(d) \/ Drain(d) \/ Disconnect(d) \/ RemovePeer(d)
      PROVE  UNCHANGED hostVars
  BY <1>5 DEF Connect, Drain, Disconnect, RemovePeer
<1>6. ASSUME NEW d \in Dials, NEW e \in {d[1], d[2]}, Greet(d, e) \/ AnswerDigest(d, e)
      PROVE  e \in Hosts /\ Host!HostStep(e)
  BY <1>6, EndsOfADial, Serves DEF Greet, AnswerDigest, Host!HostStep
<1>7. ASSUME NEW d \in Dials, NEW e \in {d[1], d[2]}, ReceiveRecord(d, e)
      PROVE  e \in Hosts /\ Host!HostStep(e)
  <2> DEFINE f == Head(wire[<<d, Other(d, e)>>])
  <2>1. e \in Hosts /\ f.name \in Names /\ f.record \in RemoteRecords
    BY <1>7, EndsOfADial, ArrivedFrame, FrameByTag DEF ReceiveRecord
  <2>2. ApplyRemote(e, f.name, f.record) /\ UNCHANGED <<diskVars, announcing, noted>>
    BY <1>7 DEF ReceiveRecord
  <2> HIDE DEF f
  <2> QED BY <2>1, <2>2, Serves DEF Host!HostStep
<1>8. CASE UNCHANGED hostVars
  BY <1>8 DEF hostVars, storeVars, diskVars, Host!hostVars, Host!storeVars, Host!diskVars
<1>9. CASE \E h \in Hosts : Host!HostStep(h)
  BY <1>9 DEF Host!HostNext
<1> QED BY <1>1, <1>2, <1>3, <1>4, <1>5, <1>6, <1>7, <1>8, <1>9, EndIsAnEnd
        DEF MeshNext, meshVars

(* The mesh implements its daemons.  The hypotheses are that a daemon alone is
   ready for every record a peer may send, and that a write relayed for a
   one-shot client is attributed to a device of the mesh.                   *)
THEOREM MeshImplementsHosts ==
    ASSUME Record \subseteq RemoteRecords, Origins \subseteq Hosts
    PROVE  MeshSpec => HostsImplemented
<1>1. MeshInit => Host!HostInit
  BY SameInit DEF MeshInit
<1>2. MeshInv /\ [MeshNext]_meshVars => [Host!HostNext]_(Host!hostVars)
  BY MeshAssumption, MeshStepIsHostStep
<1> QED BY <1>1, <1>2, MeshInvariant, PTL DEF MeshSpec, HostsImplemented, Host!HostSpec

-----------------------------------------------------------------------------
(***************************************************************************)
(* Two daemons.  QuietMeansCaughtUp speaks of the quiet states only.  What *)
(* makes it inductive is what holds of the others: whenever one daemon is  *)
(* ahead of the other on a name, the mesh still has to do something that   *)
(* will tell the other (Owed), and no frame promises more than its sender  *)
(* holds (Honest).                                                         *)
(***************************************************************************)
(* The hypotheses: two daemons, one of which at least dials the other, users
   only at daemons that dial, and no wall clock that gets so far that a record
   can expire.                                                              *)
Couple ==
    /\ \A a, b, c \in Hosts : a = b \/ b = c \/ a = c
    /\ \A a, b \in Hosts : a # b => <<a, b>> \in Dials \/ <<b, a>> \in Dials
    /\ \A u \in Users, h \in Hosts : u # h => <<u, h>> \in Dials
    /\ 1 <= MaxWall /\ MaxWall < TtlMs

InWire(d, e) == Range(wire[<<d, e>>])

InOutbox(d) == Range(outbox[d])

Announcing(a, n) == <<n, "note">> \in announcing[a] \/ <<n, "send">> \in announcing[a]

Carries(f, n, stamp) == f.tag = "REGW" /\ f.name = n /\ HlcLeq(stamp, f.record.written)

(* What dial d still has to do for b, which a may be ahead of on n: connect,
   send the digest of b, have it answered, or deliver the record.           *)
Open(d, a, b, n) ==
    \/ d \notin up
    \/ <<d, b>> \in greeting
    \/ \E f \in InWire(d, b) : f.tag = "RSYN"
    \/ \E f \in InWire(d, a) : Carries(f, n, WriteStamp(a, n))
    \/ d[1] = a /\ \E f \in InOutbox(d) : Carries(f, n, WriteStamp(a, n))

Between(a, b) == Dials \cap {<<a, b>>, <<b, a>>}

Owed(a, b, n) == Announcing(a, n) \/ \E d \in Between(a, b) : Open(d, a, b, n)

CaughtUp(a, b, n) == HlcLeq(WriteStamp(a, n), WriteStamp(b, n)) \/ Owed(a, b, n)

Honest(h, f) ==
    /\ f.tag = "REGW" => HlcLeq(f.record.written, WriteStamp(h, f.name))
    /\ f.tag = "RSYN" => \A e \in f.digest : HlcLeq(e.written, WriteStamp(h, e.name))

HonestFrames ==
    /\ \A end \in Ends : \A f \in InWire(end[1], end[2]) : Honest(end[2], f)
    /\ \A d \in Dials : \A f \in InOutbox(d) : Honest(d[1], f)

WallBound == \A h \in Hosts : now[h] <= MaxWall

UsersAnnounce == \A h \in Hosts : announcing[h] # {} => h \in Users

PairsCaughtUp == \A a, b \in Hosts, n \in Names : a # b => CaughtUp(a, b, n)

CoupleInv == WallBound /\ UsersAnnounce /\ HonestFrames /\ PairsCaughtUp

-----------------------------------------------------------------------------
WriteStampsTyped == \A h \in Hosts, n \in Names : WriteStamp(h, n) \in Stamps

LEMMA StampTyped == StoreTypeOK => WriteStampsTyped
<1> SUFFICES ASSUME StoreTypeOK, NEW h \in Hosts, NEW n \in Names
             PROVE  WriteStamp(h, n) \in Stamps
  BY DEF WriteStampsTyped
<1>1. store[h][n] \in Record \cup {NoRecord}
  BY DEF StoreTypeOK, Keys
<1>2. ZeroStamp \in Stamps
  BY DEF ZeroStamp, Stamps
<1> QED BY <1>1, <1>2, RecordFields DEF WriteStamp

LEMMA ZeroIsLeast ==
    ASSUME NEW s \in Stamps
    PROVE  HlcLeq(ZeroStamp, s)
BY DEF HlcLeq, HlcLess, ZeroStamp, Stamps

LEMMA NothingExpires ==
    ASSUME Couple, StoreTypeOK, WallBound, NEW h \in Hosts
    PROVE  /\ \A r \in Record : ~IsExpired(r, now[h])
           /\ \A n \in Keys : store[h][n] # NoRecord => Live(store[h][n], now[h])
           /\ Prune(store[h], now[h]) = store[h]
<1>1. ASSUME NEW r \in Record PROVE ~IsExpired(r, now[h])
  <2> DEFINE w == r.touched.wallMs
  <2>1. r.touched \in Stamps
    BY RecordFields
  <2>2. /\ w \in Nat /\ now[h] \in Nat /\ now[h] <= MaxWall
        /\ MaxWall \in Nat /\ TtlMs \in Nat /\ MaxWall < TtlMs
    BY <2>1, StoreAssumption, TtlAssumption
       DEF Stamps, StoreTypeOK, WallBound, StoreAssumption, TtlAssumption, Couple
  <2> HIDE DEF w
  <2>3. ~(now[h] - w >= TtlMs)
    BY <2>2
  <2> QED BY <2>3 DEF IsExpired, w
<1>2. store[h] \in [Keys -> Record \cup {NoRecord}]
  BY DEF StoreTypeOK
<1>3. \A n \in Keys : store[h][n] # NoRecord => Live(store[h][n], now[h])
  BY <1>1, <1>2 DEF Live
<1>4. \A n \in Keys : (IF Live(store[h][n], now[h]) THEN store[h][n] ELSE NoRecord) = store[h][n]
  BY <1>3
<1>5. Prune(store[h], now[h]) = store[h]
  BY <1>2, <1>4 DEF Prune
<1> QED BY <1>1, <1>3, <1>5

LEMMA PrunesNothing ==
    ASSUME Couple, StoreTypeOK, WallBound, NEW h \in Hosts, PruneExpired(h)
    PROVE  UNCHANGED storeVars
<1>1. Prune(store[h], now[h]) = store[h]
  BY NothingExpires
<1>2. store' = [store EXCEPT ![h] = store[h]]
  BY <1>1 DEF PruneExpired
<1>3. store' = store
  BY <1>2 DEF StoreTypeOK
<1> QED BY <1>3 DEF PruneExpired, storeVars

(* What is caught up stays so in a step that changes no stamp of a, takes none
   of b back and leaves undone what is to be done.                          *)
LEMMA StaysCaughtUp ==
    ASSUME StoreTypeOK, StoreTypeOK',
           NEW a \in Hosts, NEW b \in Hosts, NEW n \in Names, CaughtUp(a, b, n),
           WriteStamp(a, n)' = WriteStamp(a, n),
           HlcLeq(WriteStamp(b, n), WriteStamp(b, n)'),
           Announcing(a, n) => CaughtUp(a, b, n)',
           \A d \in Between(a, b) : Open(d, a, b, n) => CaughtUp(a, b, n)'
    PROVE  CaughtUp(a, b, n)'
<1>1. /\ WriteStamp(a, n) \in Stamps /\ WriteStamp(b, n) \in Stamps
  BY StampTyped DEF WriteStampsTyped
<1>2. StoreTypeOK' => WriteStampsTyped'
  BY StampTyped, PTL
<1>3. WriteStamp(b, n)' \in Stamps
  BY <1>2 DEF WriteStampsTyped
<1>4. CASE HlcLeq(WriteStamp(a, n), WriteStamp(b, n))
  <2>1. HlcLeq(WriteStamp(a, n), WriteStamp(b, n)')
    BY <1>1, <1>3, <1>4, HlcLeqTransitive
  <2> QED BY <2>1 DEF CaughtUp
<1>5. CASE Owed(a, b, n)
  BY <1>5 DEF Owed
<1> QED BY <1>4, <1>5 DEF CaughtUp

(* A promise is kept by a sender whose stamps only rise.                    *)
LEMMA StaysHonest ==
    ASSUME StoreTypeOK, StoreTypeOK', NEW h \in Hosts, NEW f \in Frames, Honest(h, f),
           \A n \in Names : HlcLeq(WriteStamp(h, n), WriteStamp(h, n)')
    PROVE  Honest(h, f)'
<1>1. \A n \in Names : WriteStamp(h, n) \in Stamps
  BY StampTyped DEF WriteStampsTyped
<1>2. StoreTypeOK' => WriteStampsTyped'
  BY StampTyped, PTL
<1>3. \A n \in Names : WriteStamp(h, n)' \in Stamps
  BY <1>2 DEF WriteStampsTyped
<1>4. ASSUME f.tag = "REGW" PROVE HlcLeq(f.record.written, WriteStamp(h, f.name)')
  <2>1. f.name \in Names /\ f.record.written \in Stamps
    BY <1>4, FrameByTag, RecordFields
  <2>2. HlcLeq(f.record.written, WriteStamp(h, f.name))
    BY <1>4 DEF Honest
  <2> QED BY <1>1, <1>3, <2>1, <2>2, HlcLeqTransitive
<1>5. ASSUME f.tag = "RSYN", NEW e \in f.digest PROVE HlcLeq(e.written, WriteStamp(h, e.name)')
  <2>1. e.name \in Names /\ e.written \in Stamps
    BY <1>5, FrameByTag DEF DigestEntries
  <2>2. HlcLeq(e.written, WriteStamp(h, e.name))
    BY <1>5 DEF Honest
  <2> QED BY <1>1, <1>3, <2>1, <2>2, HlcLeqTransitive
<1> QED BY <1>4, <1>5 DEF Honest

(* Of two daemons that run, neither goes back on the stamp of a write.      *)
StampsRise == \A g \in Hosts, n \in Names : HlcLeq(WriteStamp(g, n), WriteStamp(g, n)')

LEMMA RunningStampsRise ==
    ASSUME Couple, StoreTypeOK, StoreTypeOK', ClockCoversStore, WallBound,
           Shape, \A g \in Hosts : ChangesCells(g)
    PROVE  StampsRise
<1> SUFFICES ASSUME NEW g \in Hosts, NEW n \in Names
             PROVE  HlcLeq(WriteStamp(g, n), WriteStamp(g, n)')
  BY DEF StampsRise
<1>1. n \in Keys /\ store[g][n] \in Record \cup {NoRecord}
      /\ store'[g][n] \in Record \cup {NoRecord}
  BY DEF StoreTypeOK, Keys
<1>2. CASE store[g][n] = NoRecord
  <2>1. StoreTypeOK' => WriteStampsTyped'
    BY StampTyped, PTL
  <2>2. WriteStamp(g, n)' \in Stamps
    BY <2>1 DEF WriteStampsTyped
  <2> QED BY <1>2, <2>2, ZeroIsLeast DEF WriteStamp
<1>3. CASE store[g][n] # NoRecord
  <2>1. Live(store[g][n], now[g])
    BY <1>1, <1>3, NothingExpires
  <2>2. store'[g][n] # NoRecord /\ ~ValueLess(store'[g][n], store[g][n])
    BY <1>1, <2>1, StoreAssumption, NewestStep DEF KeepsNewest
  <2>3. store[g][n].written \in Stamps /\ store'[g][n].written \in Stamps
    BY <1>1, <1>3, <2>2, RecordFields
  <2>4. ~HlcLess(store'[g][n].written, store[g][n].written)
    BY <2>2 DEF ValueLess
  <2>5. HlcLeq(store[g][n].written, store'[g][n].written)
    BY <2>3, <2>4, HlcTotal DEF HlcLeq
  <2> QED BY <1>3, <2>2, <2>5 DEF WriteStamp
<1> QED BY <1>2, <1>3

LEMMA FramesTyped ==
    ASSUME LinkTypeOK
    PROVE  /\ \A end \in Ends : InWire(end[1], end[2]) \subseteq Frames
           /\ \A d \in Dials : InOutbox(d) \subseteq Frames
<1>1. ASSUME NEW end \in Ends PROVE InWire(end[1], end[2]) \subseteq Frames
  <2>1. wire[<<end[1], end[2]>>] \in Seq(Frames)
    BY EndIsAnEnd DEF LinkTypeOK
  <2> QED BY <2>1, RangeOfSeq DEF InWire
<1>2. ASSUME NEW d \in Dials PROVE InOutbox(d) \subseteq Frames
  <2>1. outbox[d] \in Seq(RegwFrames)
    BY DEF LinkTypeOK
  <2> QED BY <2>1, RangeOfSeq DEF InOutbox, Frames
<1> QED BY <1>1, <1>2

(* Frames stay honest while stamps rise, if those that are new are.         *)
LEMMA FramesStayHonest ==
    ASSUME StoreTypeOK, StoreTypeOK', LinkTypeOK, MeshAssumption, HonestFrames, StampsRise,
           \A end \in Ends : \A f \in InWire(end[1], end[2])' :
              f \in InWire(end[1], end[2]) \/ Honest(end[2], f)',
           \A d \in Dials : \A f \in InOutbox(d)' : f \in InOutbox(d) \/ Honest(d[1], f)'
    PROVE  HonestFrames'
<1>1. ASSUME NEW h \in Hosts, NEW f \in Frames, Honest(h, f) PROVE Honest(h, f)'
  BY <1>1, StaysHonest DEF StampsRise
<1>2. ASSUME NEW end \in Ends, NEW f \in InWire(end[1], end[2])' PROVE Honest(end[2], f)'
  <2>1. end[2] \in Hosts
    BY EndIsAnEnd, EndsOfADial
  <2>2. CASE f \in InWire(end[1], end[2])
    BY <1>1, <2>1, <2>2, FramesTyped DEF HonestFrames
  <2> QED BY <2>2
<1>3. ASSUME NEW d \in Dials, NEW f \in InOutbox(d)' PROVE Honest(d[1], f)'
  <2>1. d[1] \in Hosts
    BY EndsOfADial
  <2>2. CASE f \in InOutbox(d)
    BY <1>1, <2>1, <2>2, FramesTyped DEF HonestFrames
  <2> QED BY <2>2
<1> QED BY <1>2, <1>3 DEF HonestFrames

LEMMA OwedIsCaughtUp ==
    ASSUME NEW a, NEW b, NEW n,
           Announcing(a, n)' \/ \E d \in Between(a, b) : Open(d, a, b, n)'
    PROVE  CaughtUp(a, b, n)'
<1>1. Between(a, b)' = Between(a, b)
  BY DEF Between
<1> QED BY <1>1 DEF Owed, CaughtUp

LEMMA SetsOfFrames ==
    ASSUME NEW d, NEW e
    PROVE  /\ wire'[<<d, e>>] = wire[<<d, e>>] => InWire(d, e)' = InWire(d, e)
           /\ outbox'[d] = outbox[d] => InOutbox(d)' = InOutbox(d)
BY DEF InWire, InOutbox

(* A step of the daemons alone.                                             *)
LEMMA LocalKeeps ==
    ASSUME MeshInv, MeshInv', CoupleInv, StampsRise, UNCHANGED linkVars,
           \A g \in Hosts, n \in Names :
              /\ WriteStamp(g, n)' = WriteStamp(g, n) \/ Announcing(g, n)'
              /\ Announcing(g, n) => Announcing(g, n)'
    PROVE  HonestFrames' /\ PairsCaughtUp'
<1> USE DEF MeshInv, HostInv, HostTypeOK, CoupleInv
<1>1. \A d, e : InWire(d, e)' = InWire(d, e) /\ InOutbox(d)' = InOutbox(d)
  BY DEF linkVars, InWire, InOutbox
<1>2. HonestFrames'
  BY <1>1, MeshAssumption, FramesStayHonest
<1>3. ASSUME NEW a \in Hosts, NEW b \in Hosts, NEW n \in Names, a # b
      PROVE  CaughtUp(a, b, n)'
  <2>1. CASE Announcing(a, n)'
    BY <2>1, OwedIsCaughtUp
  <2>2. CASE WriteStamp(a, n)' = WriteStamp(a, n)
    <3>1. \A d \in Between(a, b) : Open(d, a, b, n) => Open(d, a, b, n)'
      BY <1>1, <2>2 DEF Open, linkVars
    <3>2. CaughtUp(a, b, n)
      BY <1>3 DEF PairsCaughtUp
    <3>3. Announcing(a, n) => CaughtUp(a, b, n)'
      BY OwedIsCaughtUp
    <3>4. \A d \in Between(a, b) : Open(d, a, b, n) => CaughtUp(a, b, n)'
      BY <3>1, OwedIsCaughtUp
    <3> QED BY <2>2, <3>2, <3>3, <3>4, StaysCaughtUp DEF StampsRise
  <2> QED BY <2>1, <2>2
<1> QED BY <1>2, <1>3 DEF PairsCaughtUp

(* A step of the connections, which changes no store.                       *)
LEMMA LinksKeep ==
    ASSUME MeshInv, MeshInv', CoupleInv, store' = store,
           \A a, b \in Hosts, n \in Names : a # b =>
              /\ Announcing(a, n) => CaughtUp(a, b, n)'
              /\ \A d \in Between(a, b) : Open(d, a, b, n) => CaughtUp(a, b, n)'
    PROVE  PairsCaughtUp'
<1> USE DEF MeshInv, HostInv, HostTypeOK, CoupleInv
<1>1. ASSUME NEW a \in Hosts, NEW b \in Hosts, NEW n \in Names, a # b
      PROVE  CaughtUp(a, b, n)'
  <2>1. /\ WriteStamp(a, n)' = WriteStamp(a, n)
        /\ HlcLeq(WriteStamp(b, n), WriteStamp(b, n)')
    BY DEF WriteStamp, HlcLeq
  <2>2. CaughtUp(a, b, n)
    BY <1>1 DEF PairsCaughtUp
  <2> QED BY <1>1, <2>1, <2>2, StaysCaughtUp
<1> QED BY <1>1 DEF PairsCaughtUp

LEMMA SameStamps ==
    ASSUME store' = store
    PROVE  /\ StampsRise
           /\ \A h \in Hosts, n \in Names : WriteStamp(h, n)' = WriteStamp(h, n)
BY DEF StampsRise, WriteStamp, HlcLeq

LEMMA WriteKeeps ==
    ASSUME Couple, MeshInv, MeshInv', CoupleInv, StampsRise, NEW h \in Users, LocalWrite(h)
    PROVE  HonestFrames' /\ PairsCaughtUp'
<1> USE DEF MeshInv, HostInv, HostTypeOK, CoupleInv
<1>1. h \in Hosts
  BY MeshAssumption DEF MeshAssumption
<1>2. PICK n \in Names : /\ \E x : store' = [store EXCEPT ![h][n] = x]
                         /\ Owes(h, n, "note")
  <2>1. Prune(store[h], now[h]) = store[h]
    BY <1>1, NothingExpires
  <2>2. ASSUME NEW n \in Names, NEW v \in Values, NEW f \in ValueFlags,
               NEW o \in Origins \cup {h}, WriteValue(h, n, v, f, o)
        PROVE  \E x : store' = [store EXCEPT ![h][n] = x]
    BY <2>1, <2>2 DEF WriteValue, Upsert
  <2>3. ASSUME NEW n \in Names, NEW o \in Origins \cup {h}, WriteTombstone(h, n, o)
        PROVE  \E x : store' = [store EXCEPT ![h][n] = x]
    BY <2>3 DEF WriteTombstone, Delete
  <2> QED BY <2>2, <2>3 DEF LocalWrite, WriteValue, WriteTombstone
<1>3. \A g \in Hosts, m \in Names : (g # h \/ m # n) => store'[g][m] = store[g][m]
  BY <1>1, <1>2 DEF StoreTypeOK, Keys
<1>4. \A g \in Hosts, m \in Names : (g # h \/ m # n) => WriteStamp(g, m)' = WriteStamp(g, m)
  BY <1>3 DEF WriteStamp
<1>5. Announcing(h, n)' /\ \A g \in Hosts, m \in Names : Announcing(g, m) => Announcing(g, m)'
  BY <1>1, <1>2 DEF Owes, Announcing
<1>6. UNCHANGED linkVars
  BY DEF LocalWrite
<1> QED BY <1>4, <1>5, <1>6, LocalKeeps

LEMMA ReadKeeps ==
    ASSUME MeshInv, MeshInv', CoupleInv, StampsRise, NEW h \in Users, NEW n \in Names,
           LocalRead(h, n)
    PROVE  HonestFrames' /\ PairsCaughtUp'
<1> USE DEF MeshInv, HostInv, HostTypeOK, CoupleInv
<1>1. h \in Hosts /\ store[h][n] \in Record /\ store[h][n] # NoRecord
  BY MeshAssumption DEF MeshAssumption, LocalRead, Read, HoldsValue, Live, StoreTypeOK, Keys
<1>2. store' = [store EXCEPT ![h][n] = [store[h][n] EXCEPT !.touched = clock'[h]]]
  BY DEF LocalRead, Read
<1>3. /\ store'[h][n] = [store[h][n] EXCEPT !.touched = clock'[h]]
      /\ \A g \in Hosts, m \in Names : (g # h \/ m # n) => store'[g][m] = store[g][m]
  BY <1>1, <1>2 DEF StoreTypeOK, Keys
<1>4. store'[h][n].written = store[h][n].written
  BY <1>1, <1>3 DEF Record
<1>5. store'[h][n] # NoRecord
  <2>1. clock'[h] \in Stamps
    BY <1>1 DEF StoreTypeOK
  <2>2. store'[h][n] \in Record
    BY <1>1, <1>3, <2>1 DEF Record
  <2> QED BY <2>2, StoreAssumption DEF StoreAssumption
<1>6. \A g \in Hosts, m \in Names : WriteStamp(g, m)' = WriteStamp(g, m)
  BY <1>1, <1>3, <1>4, <1>5 DEF WriteStamp
<1>7. UNCHANGED <<linkVars, announcing>>
  BY DEF LocalRead
<1> QED BY <1>6, <1>7, LocalKeeps DEF Announcing

(* Notes, saves, lists and the wall change no stamp and leave what is to be
   announced to be announced.                                               *)
LEMMA HousekeepingKeeps ==
    ASSUME Couple, MeshInv, MeshInv', CoupleInv, NEW h \in Hosts,
           SaveStore(h) \/ Elapse(h) \/ \E n \in Names : Note(h, n)
    PROVE  HonestFrames' /\ PairsCaughtUp'
<1> USE DEF MeshInv, HostInv, HostTypeOK, CoupleInv
<1>1. store' = store
  BY PrunesNothing DEF SaveStore, Save, Elapse, Tick, StepBack, Note, NoteFloor, storeVars
<1>2. UNCHANGED linkVars
  BY DEF SaveStore, Elapse, Note
<1>3. ASSUME NEW g \in Hosts, NEW m \in Names, Announcing(g, m) PROVE Announcing(g, m)'
  <2>1. ASSUME NEW n \in Names, Note(h, n) PROVE Announcing(g, m)'
    <3>1. n # Mirror
      BY StoreAssumption DEF StoreAssumption
    <3>2. announcing' = [announcing EXCEPT ![h] =
                            (announcing[h] \ {<<n, "note">>}) \cup {<<n, "send">>}]
      BY <2>1, <3>1 DEF Note, NoteFloor
    <3>3. g # h => announcing'[g] = announcing[g]
      BY <3>2
    <3>4. announcing'[h] = (announcing[h] \ {<<n, "note">>}) \cup {<<n, "send">>}
      BY <3>2
    <3> QED BY <1>3, <3>3, <3>4 DEF Announcing
  <2>2. CASE SaveStore(h) \/ Elapse(h)
    BY <1>3, <2>2 DEF SaveStore, Save, Elapse, Announcing
  <2> QED BY <2>1, <2>2
<1> QED BY <1>1, <1>2, <1>3, SameStamps, LocalKeeps

LEMMA BroadcastKeeps ==
    ASSUME Couple, MeshInv, MeshInv', CoupleInv, NEW h \in Hosts, NEW n \in Names,
           Broadcast(h, n)
    PROVE  HonestFrames' /\ PairsCaughtUp'
<1> USE DEF MeshInv, HostInv, HostTypeOK, CoupleInv
<1>0. PICK r, f : r = store[h][n] /\ f = Regw(n, r)
  OBVIOUS
<1>1. /\ r \in Record \cup {NoRecord}
      /\ r # NoRecord => Live(r, now[h]) /\ ~IsExpired(r, now[h])
  BY <1>0, NothingExpires DEF StoreTypeOK, Keys
<1>2. store' = store /\ UNCHANGED <<wire, up, greeting>>
  BY <1>0, <1>1 DEF Broadcast, Announce, DropOnAccess, storeVars
<1>3. StampsRise /\ \A g \in Hosts, m \in Names : WriteStamp(g, m)' = WriteStamp(g, m)
  BY <1>2, SameStamps
<1>4. \A d, e : InWire(d, e)' = InWire(d, e)
  BY <1>2 DEF InWire
<1>5. Live(r, now[h]) => /\ f \in RegwFrames /\ f.tag = "REGW" /\ f.name = n
                         /\ f.record.written = WriteStamp(h, n)
  BY <1>0, RegwTyped DEF Live, Regw, WriteStamp
<1>6. ASSUME NEW d \in Dials
      PROVE  /\ (d[1] = h /\ d \in met /\ Live(r, now[h])) => InOutbox(d)' = InOutbox(d) \cup {f}
             /\ ~(d[1] = h /\ d \in met /\ Live(r, now[h])) => InOutbox(d)' = InOutbox(d)
  <2>1. outbox[d] \in Seq(RegwFrames)
    BY DEF LinkTypeOK
  <2>2. outbox'[d] = IF d[1] = h /\ d \in met /\ Live(r, now[h])
                     THEN Append(outbox[d], f) ELSE outbox[d]
    BY <1>0 DEF Broadcast
  <2> QED BY <1>5, <2>1, <2>2, RangeAppend DEF InOutbox
<1>7. Live(r, now[h]) => Honest(h, f)'
  BY <1>3, <1>5 DEF Honest, HlcLeq
<1>8. HonestFrames'
  <2>1. \A d \in Dials : \A g \in InOutbox(d)' : g \in InOutbox(d) \/ Honest(d[1], g)'
    BY <1>6, <1>7
  <2> QED BY <1>3, <1>4, <2>1, MeshAssumption, FramesStayHonest
<1>9. ASSUME NEW a \in Hosts, NEW b \in Hosts, NEW m \in Names, NEW d \in Between(a, b),
             Open(d, a, b, m)
      PROVE  Open(d, a, b, m)'
  <2>1. d \in Dials
    BY DEF Between
  <2>2. InOutbox(d) \subseteq InOutbox(d)'
    BY <1>6, <2>1
  <2> QED BY <1>2, <1>3, <1>4, <1>9, <2>2 DEF Open
<1>10. ASSUME NEW a \in Hosts, NEW b \in Hosts, NEW m \in Names, a # b, Announcing(a, m)
       PROVE  CaughtUp(a, b, m)'
  <2>1. announcing' = [announcing EXCEPT ![h] = announcing[h] \ {<<n, "send">>}]
        /\ announcing[h] # {}
    BY DEF Broadcast, Announce
  <2>2. CASE a # h \/ m # n
    <3>1. Announcing(a, m)'
      BY <1>10, <2>1, <2>2 DEF Announcing
    <3> QED BY <3>1, OwedIsCaughtUp
  <2>3. CASE a = h /\ m = n /\ r = NoRecord
    <3>1. WriteStamp(a, m)' = ZeroStamp /\ WriteStamp(b, m)' = WriteStamp(b, m)
      BY <1>0, <1>3, <2>3 DEF WriteStamp
    <3>2. WriteStamp(b, m) \in Stamps
      BY StampTyped DEF WriteStampsTyped
    <3> QED BY <3>1, <3>2, ZeroIsLeast DEF CaughtUp
  <2>4. CASE a = h /\ m = n /\ r # NoRecord
    <3>1. h \in Users
      BY <2>1 DEF UsersAnnounce
    <3> DEFINE d == <<a, b>>
    <3>2. d \in Between(a, b) /\ d \in Dials /\ d[1] = h
      BY <1>10, <2>4, <3>1 DEF Couple, Between
    <3>3. CASE d \in met
      <4>1. f \in InOutbox(d)' /\ Carries(f, m, WriteStamp(a, m)')
        BY <1>1, <1>3, <1>5, <1>6, <2>4, <3>2, <3>3 DEF Carries, HlcLeq
      <4>2. Open(d, a, b, m)'
        BY <2>4, <3>2, <4>1 DEF Open
      <4> QED BY <3>2, <4>2, OwedIsCaughtUp
    <3>4. CASE d \notin met
      <4>1. Open(d, a, b, m)'
        BY <1>2, <3>4 DEF Open, LinkTypeOK
      <4> QED BY <3>2, <4>1, OwedIsCaughtUp
    <3> QED BY <3>3, <3>4
  <2> QED BY <2>2, <2>3, <2>4
<1>11. PairsCaughtUp'
  BY <1>2, <1>9, <1>10, OwedIsCaughtUp, LinksKeep
<1> QED BY <1>8, <1>11

(* A step that leaves the daemons alone and loses nothing that is open.     *)
LEMMA OpenKept ==
    ASSUME MeshInv, MeshInv', CoupleInv, store' = store, announcing' = announcing,
           \A a, b \in Hosts, n \in Names : a # b => \A d \in Between(a, b) :
              Open(d, a, b, n) => CaughtUp(a, b, n)'
    PROVE  PairsCaughtUp'
<1>1. \A a \in Hosts, n \in Names : Announcing(a, n) => Announcing(a, n)'
  BY DEF Announcing
<1> QED BY <1>1, OwedIsCaughtUp, LinksKeep

LEMMA ConnectKeeps ==
    ASSUME MeshInv, MeshInv', CoupleInv, NEW c \in Dials, Connect(c)
    PROVE  HonestFrames' /\ PairsCaughtUp'
<1> USE DEF MeshInv, HostInv, HostTypeOK, CoupleInv
<1>1. store' = store /\ announcing' = announcing /\ UNCHANGED <<wire, outbox>>
  BY DEF Connect, hostVars, storeVars
<1>2. StampsRise /\ \A g \in Hosts, m \in Names : WriteStamp(g, m)' = WriteStamp(g, m)
  BY <1>1, SameStamps
<1>3. \A d, e : InWire(d, e)' = InWire(d, e) /\ InOutbox(d)' = InOutbox(d)
  BY <1>1 DEF InWire, InOutbox
<1>4. HonestFrames'
  BY <1>2, <1>3, MeshAssumption, FramesStayHonest
<1>5. ASSUME NEW a \in Hosts, NEW b \in Hosts, NEW n \in Names, NEW d \in Between(a, b),
             Open(d, a, b, n)
      PROVE  Open(d, a, b, n)'
  <2>1. d = c => b \in {c[1], c[2]}
    BY DEF Between
  <2>2. d \notin up => d \notin up' \/ <<d, b>> \in greeting'
    BY <2>1 DEF Connect
  <2>3. greeting \subseteq greeting'
    BY DEF Connect
  <2> QED BY <1>2, <1>3, <1>5, <2>2, <2>3 DEF Open
<1>6. PairsCaughtUp'
  BY <1>1, <1>5, OwedIsCaughtUp, OpenKept
<1> QED BY <1>4, <1>6

LEMMA BetweenTwo ==
    ASSUME NEW a \in Hosts, NEW b \in Hosts, a # b, NEW d \in Between(a, b)
    PROVE  /\ d \in Dials /\ {a, b} = {d[1], d[2]}
           /\ <<d, a>> \in Ends /\ <<d, b>> \in Ends
           /\ Other(d, a) = b /\ Other(d, b) = a
<1>1. d \in Dials /\ (d = <<a, b>> \/ d = <<b, a>>)
  BY DEF Between
<1>2. {a, b} = {d[1], d[2]} /\ Other(d, a) = b /\ Other(d, b) = a
  BY <1>1 DEF Other
<1>3. <<d, a>> \in Ends /\ <<d, b>> \in Ends
  BY <1>1, <1>2, MeshAssumption, EndsOfADial
<1> QED BY <1>1, <1>2, <1>3

LEMMA DrainKeeps ==
    ASSUME MeshInv, MeshInv', CoupleInv, NEW c \in Dials, Drain(c)
    PROVE  HonestFrames' /\ PairsCaughtUp'
<1> USE DEF MeshInv, HostInv, HostTypeOK, CoupleInv
<1>1. PICK x : x = Head(outbox[c])
  OBVIOUS
<1>2. /\ store' = store /\ announcing' = announcing /\ UNCHANGED <<up, greeting>>
      /\ wire' = [wire EXCEPT ![<<c, c[1]>>] = Append(wire[<<c, c[1]>>], x)]
      /\ outbox' = [outbox EXCEPT ![c] = Tail(outbox[c])]
      /\ outbox[c] # <<>>
  BY <1>1 DEF Drain, hostVars, storeVars
<1>3. StampsRise /\ \A g \in Hosts, m \in Names : WriteStamp(g, m)' = WriteStamp(g, m)
  BY <1>2, SameStamps
<1>4. /\ <<c, c[1]>> \in Ends /\ wire[<<c, c[1]>>] \in Seq(Frames)
      /\ c[1] \in Hosts /\ outbox[c] \in Seq(RegwFrames)
  BY MeshAssumption, EndsOfADial DEF LinkTypeOK
<1>5. x \in Frames /\ InOutbox(c) = {x} \cup InOutbox(c)'
  <2>1. x \in RegwFrames /\ Range(outbox[c]) = {x} \cup Range(Tail(outbox[c]))
    BY <1>1, <1>2, <1>4, RangeTail
  <2>2. outbox'[c] = Tail(outbox[c])
    BY <1>2 DEF LinkTypeOK
  <2> QED BY <2>1, <2>2 DEF InOutbox, Frames
<1>6. InWire(c, c[1])' = InWire(c, c[1]) \cup {x}
  <2>1. wire'[<<c, c[1]>>] = Append(wire[<<c, c[1]>>], x)
    BY <1>2, <1>4 DEF LinkTypeOK
  <2> QED BY <1>4, <1>5, <2>1, RangeAppend DEF InWire
<1>7. ASSUME NEW d, NEW e, <<d, e>> \in Ends, d # c \/ e # c[1]
      PROVE  InWire(d, e)' = InWire(d, e)
  BY <1>2, <1>7 DEF InWire, LinkTypeOK
<1>8. \A d \in Dials : d # c => InOutbox(d)' = InOutbox(d)
  BY <1>2 DEF InOutbox, LinkTypeOK
<1>9. HonestFrames'
  <2>1. Honest(c[1], x)
    BY <1>5 DEF HonestFrames
  <2>2. Honest(c[1], x)'
    BY <1>3, <1>4, <1>5, <2>1, StaysHonest DEF StampsRise
  <2>3. ASSUME NEW end \in Ends, NEW f \in InWire(end[1], end[2])'
        PROVE  f \in InWire(end[1], end[2]) \/ Honest(end[2], f)'
    <3>1. <<end[1], end[2]>> \in Ends
      BY EndIsAnEnd
    <3>2. CASE end[1] = c /\ end[2] = c[1]
      <4>1. f \in InWire(c, c[1])'
        BY <2>3, <3>2
      <4> QED BY <1>6, <2>2, <3>2, <4>1
    <3>3. CASE end[1] # c \/ end[2] # c[1]
      BY <1>7, <2>3, <3>1, <3>3
    <3> QED BY <3>2, <3>3
  <2>4. \A d \in Dials : \A f \in InOutbox(d)' : f \in InOutbox(d)
    BY <1>5, <1>8
  <2> QED BY <1>3, <2>3, <2>4, MeshAssumption, FramesStayHonest
<1>10. ASSUME NEW a \in Hosts, NEW b \in Hosts, NEW n \in Names, a # b, NEW d \in Between(a, b),
              Open(d, a, b, n)
       PROVE  Open(d, a, b, n)'
  <2>1. d \in Dials /\ <<d, a>> \in Ends /\ <<d, b>> \in Ends
    BY <1>10, BetweenTwo
  <2>2. InWire(d, a) \subseteq InWire(d, a)' /\ InWire(d, b) \subseteq InWire(d, b)'
    BY <1>6, <1>7, <2>1
  <2>3. d[1] = a => InOutbox(d) \subseteq InOutbox(d)' \cup InWire(d, a)'
    BY <1>5, <1>6, <1>8, <2>1
  <2>4. WriteStamp(a, n)' = WriteStamp(a, n)
    BY <1>3
  <2> QED BY <1>2, <1>10, <2>2, <2>3, <2>4 DEF Open
<1>11. PairsCaughtUp'
  BY <1>2, <1>10, OwedIsCaughtUp, OpenKept
<1> QED BY <1>9, <1>11

LEMMA GreetKeeps ==
    ASSUME Couple, MeshInv, MeshInv', CoupleInv, NEW c \in Dials, NEW e \in {c[1], c[2]},
           Greet(c, e)
    PROVE  HonestFrames' /\ PairsCaughtUp'
<1> USE DEF MeshInv, HostInv, HostTypeOK, CoupleInv
<1>1. PICK x : x = Rsyn(e)
  OBVIOUS
<1>2. e \in Hosts /\ <<c, e>> \in Ends /\ wire[<<c, e>>] \in Seq(Frames)
  BY MeshAssumption, EndsOfADial DEF LinkTypeOK
<1>3. /\ store' = store /\ UNCHANGED <<announcing, up, outbox>>
      /\ greeting' = greeting \ {<<c, e>>}
      /\ wire' = [wire EXCEPT ![<<c, e>>] = Append(wire[<<c, e>>], x)]
  BY <1>1, <1>2, PrunesNothing DEF Greet, storeVars
<1>4. StampsRise /\ \A g \in Hosts, m \in Names : WriteStamp(g, m)' = WriteStamp(g, m)
  BY <1>3, SameStamps
<1>5. x \in Frames /\ x.tag = "RSYN"
  BY <1>1, <1>2, RsynTyped DEF Frames, Rsyn
<1>6. Honest(e, x)'
  <2>1. ASSUME NEW en \in x.digest PROVE HlcLeq(en.written, WriteStamp(e, en.name)')
    <3>1. en \in DigestOf(e)
      BY <1>1, <2>1 DEF Rsyn
    <3>2. /\ en.name \in Names /\ store[e][en.name] # NoRecord
          /\ en.written = store[e][en.name].written
      BY <3>1 DEF DigestOf, Live
    <3>3. en.written = WriteStamp(e, en.name)'
      BY <1>2, <1>4, <3>2 DEF WriteStamp
    <3> QED BY <3>3 DEF HlcLeq
  <2> QED BY <1>5, <2>1 DEF Honest
<1>7. InWire(c, e)' = InWire(c, e) \cup {x}
  <2>1. wire'[<<c, e>>] = Append(wire[<<c, e>>], x)
    BY <1>2, <1>3 DEF LinkTypeOK
  <2> QED BY <1>2, <1>5, <2>1, RangeAppend DEF InWire
<1>8. ASSUME NEW d, NEW g, <<d, g>> \in Ends, d # c \/ g # e
      PROVE  InWire(d, g)' = InWire(d, g)
  BY <1>3, <1>8 DEF InWire, LinkTypeOK
<1>9. \A d \in Dials : InOutbox(d)' = InOutbox(d)
  BY <1>3 DEF InOutbox
<1>10. HonestFrames'
  <2>1. ASSUME NEW end \in Ends, NEW f \in InWire(end[1], end[2])'
        PROVE  f \in InWire(end[1], end[2]) \/ Honest(end[2], f)'
    <3>1. <<end[1], end[2]>> \in Ends
      BY EndIsAnEnd
    <3>2. CASE end[1] = c /\ end[2] = e
      <4>1. f \in InWire(c, e)'
        BY <2>1, <3>2
      <4> QED BY <1>6, <1>7, <3>2, <4>1
    <3>3. CASE end[1] # c \/ end[2] # e
      BY <1>8, <2>1, <3>1, <3>3
    <3> QED BY <3>2, <3>3
  <2> QED BY <1>4, <1>9, <2>1, MeshAssumption, FramesStayHonest
<1>11. ASSUME NEW a \in Hosts, NEW b \in Hosts, NEW n \in Names, a # b, NEW d \in Between(a, b),
              Open(d, a, b, n)
       PROVE  Open(d, a, b, n)'
  <2>1. d \in Dials /\ <<d, a>> \in Ends /\ <<d, b>> \in Ends
    BY <1>11, BetweenTwo
  <2>2. InWire(d, a) \subseteq InWire(d, a)' /\ InWire(d, b) \subseteq InWire(d, b)'
    BY <1>7, <1>8, <2>1
  <2>3. <<d, b>> \in greeting => <<d, b>> \in greeting' \/ x \in InWire(d, b)'
    BY <1>3, <1>7
  <2>4. WriteStamp(a, n)' = WriteStamp(a, n)
    BY <1>4
  <2> QED BY <1>3, <1>5, <1>9, <1>11, <2>1, <2>2, <2>3, <2>4 DEF Open
<1>12. PairsCaughtUp'
  BY <1>3, <1>11, OwedIsCaughtUp, OpenKept
<1> QED BY <1>10, <1>12

(* A record that arrives takes the stamp of the name to its own, if that is
   later.                                                                   *)
LEMMA AppliedStamp ==
    ASSUME Couple, MeshInv, MeshInv', WallBound, NEW e \in Hosts, NEW n \in Names,
           NEW r \in Record, ApplyRemote(e, n, r)
    PROVE  /\ WriteStamp(e, n)' \in {WriteStamp(e, n), r.written}
           /\ HlcLeq(r.written, WriteStamp(e, n)')
           /\ \A g \in Hosts, m \in Names :
                 (g # e \/ m # n) => WriteStamp(g, m)' = WriteStamp(g, m)
<1> USE DEF MeshInv, HostInv, HostTypeOK
<1> DEFINE held == store[e][n]
<1>1. ~IsExpired(r, now[e]) /\ (held # NoRecord => Live(held, now[e]))
  BY NothingExpires DEF Keys
<1>2. store' = [store EXCEPT ![e][n] = Applied(held, r, now[e])]
  BY DEF ApplyRemote
<1>3. /\ store'[e][n] = Applied(held, r, now[e])
      /\ \A g \in Hosts, m \in Names : (g # e \/ m # n) => store'[g][m] = store[g][m]
  BY <1>2 DEF StoreTypeOK, Keys
<1>4. \A g \in Hosts, m \in Names : (g # e \/ m # n) => WriteStamp(g, m)' = WriteStamp(g, m)
  BY <1>3 DEF WriteStamp
<1>5. NoRecord \notin Record
  BY StoreAssumption DEF StoreAssumption
<1>6. CASE held = NoRecord
  <2>1. store'[e][n] = r
    BY <1>1, <1>3, <1>6 DEF Applied, Live
  <2> QED BY <1>4, <1>5, <2>1 DEF WriteStamp, HlcLeq
<1>7. CASE held # NoRecord
  <2>1. held \in Record
    BY <1>7 DEF StoreTypeOK, Keys
  <2>2. store'[e][n] = MergeRecords(held, r)
    BY <1>1, <1>3, <1>7 DEF Applied
  <2>3. store'[e][n] \in Record /\ SameValue(store'[e][n], Later(held, r))
    BY <2>1, <2>2, MergeFields
  <2>4. store'[e][n].written \in {held.written, r.written}
    BY <2>3 DEF SameValue, Later
  <2>5. ~ValueLess(store'[e][n], r)
    BY <2>1, <2>2, MergeUpperBound
  <2>6. HlcLeq(r.written, store'[e][n].written)
    BY <2>3, <2>5, RecordFields, HlcTotal DEF ValueLess, HlcLeq
  <2> QED BY <1>4, <1>5, <1>7, <2>3, <2>4, <2>6 DEF WriteStamp
<1> QED BY <1>6, <1>7

LEMMA ReceiveKeeps ==
    ASSUME Couple, MeshInv, MeshInv', CoupleInv, StampsRise,
           NEW c \in Dials, NEW e \in {c[1], c[2]}, ReceiveRecord(c, e)
    PROVE  HonestFrames' /\ PairsCaughtUp'
<1> USE DEF MeshInv, HostInv, HostTypeOK, CoupleInv
<1>1. PICK o, x : o = Other(c, e) /\ x = Head(wire[<<c, o>>])
  OBVIOUS
<1>2. /\ e \in Hosts /\ o \in Hosts /\ o # e /\ o \in {c[1], c[2]}
      /\ <<c, e>> \in Ends /\ <<c, o>> \in Ends
  BY <1>1, MeshAssumption, EndsOfADial
<1>3. /\ wire[<<c, o>>] \in Seq(Frames) /\ wire[<<c, o>>] # <<>>
      /\ Range(wire[<<c, o>>]) = {x} \cup Range(Tail(wire[<<c, o>>]))
      /\ x.tag = "REGW" /\ x \in Frames /\ x.name \in Names /\ x.record \in Record
      /\ ApplyRemote(e, x.name, x.record)
  BY <1>1, MeshAssumption, ArrivedFrame, FrameByTag DEF ReceiveRecord
<1>4. /\ wire' = [wire EXCEPT ![<<c, o>>] = Tail(wire[<<c, o>>])]
      /\ UNCHANGED <<announcing, up, greeting, outbox>>
  BY <1>1 DEF ReceiveRecord, Taken
<1>5. InWire(c, o) = {x} \cup InWire(c, o)'
  <2>1. wire'[<<c, o>>] = Tail(wire[<<c, o>>])
    BY <1>2, <1>4 DEF LinkTypeOK
  <2> QED BY <1>3, <2>1 DEF InWire
<1>6. ASSUME NEW d, NEW g, <<d, g>> \in Ends, d # c \/ g # o
      PROVE  InWire(d, g)' = InWire(d, g)
  BY <1>4, <1>6 DEF InWire, LinkTypeOK
<1>7. \A d \in Dials : InOutbox(d)' = InOutbox(d)
  BY <1>4 DEF InOutbox
<1>8. HonestFrames'
  <2>1. ASSUME NEW end \in Ends, NEW f \in InWire(end[1], end[2])'
        PROVE  f \in InWire(end[1], end[2])
    <3>1. <<end[1], end[2]>> \in Ends
      BY EndIsAnEnd
    <3>2. CASE end[1] = c /\ end[2] = o
      <4>1. f \in InWire(c, o)'
        BY <2>1, <3>2
      <4> QED BY <1>5, <3>2, <4>1
    <3>3. CASE end[1] # c \/ end[2] # o
      BY <1>6, <2>1, <3>1, <3>3
    <3> QED BY <3>2, <3>3
  <2> QED BY <1>7, <2>1, MeshAssumption, FramesStayHonest
<1>9. /\ WriteStamp(e, x.name)' \in {WriteStamp(e, x.name), x.record.written}
      /\ HlcLeq(x.record.written, WriteStamp(e, x.name)')
      /\ \A g \in Hosts, m \in Names :
            (g # e \/ m # x.name) => WriteStamp(g, m)' = WriteStamp(g, m)
  BY <1>2, <1>3, AppliedStamp
<1>10. HlcLeq(x.record.written, WriteStamp(o, x.name))
  <2>1. x \in InWire(c, o) /\ <<c, o>>[1] = c /\ <<c, o>>[2] = o
    BY <1>5
  <2>2. Honest(o, x)
    BY <1>2, <2>1 DEF HonestFrames
  <2> QED BY <1>3, <2>2 DEF Honest
<1>11. WriteStampsTyped /\ WriteStampsTyped' /\ x.record.written \in Stamps
  <2>1. StoreTypeOK' => WriteStampsTyped'
    BY StampTyped, PTL
  <2> QED BY <1>3, <2>1, StampTyped, RecordFields
<1>12. ASSUME NEW a \in Hosts, NEW b \in Hosts, NEW n \in Names, a # b
       PROVE  CaughtUp(a, b, n)'
  <2>1. CASE a = e /\ n = x.name /\ WriteStamp(a, n)' = x.record.written
    <3>1. b = o
      BY <1>2, <1>12, <2>1 DEF Couple
    <3>2. WriteStamp(b, n)' = WriteStamp(b, n)
      BY <1>9, <1>12, <2>1
    <3>3. HlcLeq(WriteStamp(a, n)', WriteStamp(b, n)')
      BY <1>10, <2>1, <3>1, <3>2
    <3> QED BY <3>3 DEF CaughtUp
  <2>2. CASE WriteStamp(a, n)' = WriteStamp(a, n)
    <3>1. CaughtUp(a, b, n) /\ HlcLeq(WriteStamp(b, n), WriteStamp(b, n)')
      BY <1>12 DEF PairsCaughtUp, StampsRise
    <3>2. Announcing(a, n) => CaughtUp(a, b, n)'
      <4>1. Announcing(a, n) => Announcing(a, n)'
        BY <1>4 DEF Announcing
      <4> QED BY <4>1, OwedIsCaughtUp
    <3>3. ASSUME NEW d \in Between(a, b), Open(d, a, b, n) PROVE CaughtUp(a, b, n)'
      <4>1. /\ d \in Dials /\ <<d, a>> \in Ends /\ <<d, b>> \in Ends
            /\ Other(d, a) = b /\ Other(d, b) = a /\ a \in {d[1], d[2]}
        <5>1. a # b /\ d \in Between(a, b)
          BY <1>12, <3>3
        <5>2. /\ d \in Dials /\ <<d, a>> \in Ends /\ <<d, b>> \in Ends
              /\ Other(d, a) = b /\ Other(d, b) = a /\ {a, b} = {d[1], d[2]}
          BY <5>1, BetweenTwo, Zenon
        <5> QED BY <5>2
      <4>2. CASE d = c /\ a = o /\ Carries(x, n, WriteStamp(a, n))
        <5>1. b = e /\ n = x.name /\ HlcLeq(WriteStamp(a, n), x.record.written)
          BY <1>2, <1>12, <4>1, <4>2 DEF Couple, Carries
        <5>2. HlcLeq(WriteStamp(a, n), WriteStamp(b, n)')
          BY <1>9, <1>11, <5>1, HlcLeqTransitive DEF WriteStampsTyped
        <5> QED BY <2>2, <5>2 DEF CaughtUp
      <4>3. CASE ~(d = c /\ a = o /\ Carries(x, n, WriteStamp(a, n)))
        <5>1. \A f \in InWire(d, b) : f.tag = "RSYN" => f \in InWire(d, b)'
          BY <1>3, <1>5, <1>6, <4>1
        <5>2. \A f \in InWire(d, a) :
                 Carries(f, n, WriteStamp(a, n)) => f \in InWire(d, a)'
          BY <1>5, <1>6, <4>1, <4>3
        <5>3. Open(d, a, b, n)'
          BY <1>4, <1>7, <2>2, <3>3, <4>1, <5>1, <5>2 DEF Open
        <5> QED BY <3>3, <5>3, OwedIsCaughtUp
      <4> QED BY <4>2, <4>3
    <3> QED BY <2>2, <3>1, <3>2, <3>3, StaysCaughtUp
  <2> QED BY <1>9, <2>1, <2>2
<1> QED BY <1>8, <1>12 DEF PairsCaughtUp

LEMMA AnswerKeeps ==
    ASSUME Couple, MeshInv, MeshInv', CoupleInv,
           NEW c \in Dials, NEW e \in {c[1], c[2]}, AnswerDigest(c, e)
    PROVE  HonestFrames' /\ PairsCaughtUp'
<1> USE DEF MeshInv, HostInv, HostTypeOK, CoupleInv
<1>1. PICK o, x : o = Other(c, e) /\ x = Head(wire[<<c, o>>])
  OBVIOUS
<1>2. PICK S, more : S = NamesToPush(e, x.digest) /\ more = {Regw(n, store[e][n]) : n \in S}
  OBVIOUS
<1>3. /\ e \in Hosts /\ o \in Hosts /\ o # e
      /\ <<c, e>> \in Ends /\ <<c, o>> \in Ends
  BY <1>1, MeshAssumption, EndsOfADial
<1>4. /\ wire[<<c, o>>] \in Seq(Frames) /\ wire[<<c, o>>] # <<>>
      /\ Tail(wire[<<c, o>>]) \in Seq(Frames)
      /\ Range(wire[<<c, o>>]) = {x} \cup Range(Tail(wire[<<c, o>>]))
      /\ x.tag = "RSYN" /\ x.digest \in SUBSET DigestEntries
  BY <1>1, MeshAssumption, ArrivedFrame, FrameByTag DEF AnswerDigest
<1>5. /\ store' = store /\ UNCHANGED <<announcing, up, greeting, outbox>>
      /\ wire' = [Taken(c, e) EXCEPT ![<<c, e>>] = Taken(c, e)[<<c, e>>] \o Pushed(e, S)]
      /\ Taken(c, e) = [wire EXCEPT ![<<c, o>>] = Tail(wire[<<c, o>>])]
  BY <1>1, <1>2, <1>3, PrunesNothing DEF AnswerDigest, Taken, storeVars
<1>6. /\ wire'[<<c, o>>] = Tail(wire[<<c, o>>])
      /\ wire'[<<c, e>>] = wire[<<c, e>>] \o Pushed(e, S)
      /\ \A d, g : <<d, g>> \in Ends /\ (d # c \/ (g # o /\ g # e)) =>
            wire'[<<d, g>>] = wire[<<d, g>>]
  BY <1>3, <1>5 DEF LinkTypeOK
<1>7. StampsRise /\ \A g \in Hosts, m \in Names : WriteStamp(g, m)' = WriteStamp(g, m)
  BY <1>5, SameStamps
<1>8. InWire(c, o) = {x} \cup InWire(c, o)'
  BY <1>4, <1>6 DEF InWire
<1>9. InWire(c, e)' = InWire(c, e) \cup more
  <2>1. S \in SUBSET Names /\ \A n \in S : store[e][n] # NoRecord
    BY <1>2 DEF NamesToPush, Live
  <2>2. Pushed(e, S) \in Seq(RegwFrames) /\ Range(Pushed(e, S)) = more
    BY <1>2, <1>3, <2>1, MeshAssumption, PushedTyped
  <2>3. Pushed(e, S) \in Seq(Frames) /\ wire[<<c, e>>] \in Seq(Frames)
    BY <1>3, <2>2, SeqMonotonic DEF Frames, LinkTypeOK
  <2> QED BY <1>6, <2>2, <2>3, RangeConcatenation DEF InWire
<1>10. ASSUME NEW d, NEW g, <<d, g>> \in Ends, d # c \/ (g # o /\ g # e)
       PROVE  InWire(d, g)' = InWire(d, g)
  BY <1>6, <1>10 DEF InWire
<1>11. \A d \in Dials : InOutbox(d)' = InOutbox(d)
  BY <1>5 DEF InOutbox
<1>12. ASSUME NEW n \in S
       PROVE  LET f == Regw(n, store[e][n])
              IN  /\ f \in more /\ f.tag = "REGW" /\ f.name = n /\ n \in Names
                  /\ f.record.written = WriteStamp(e, n)'
  <2>1. n \in Names /\ store[e][n] # NoRecord
    BY <1>2, <1>12 DEF NamesToPush, Live
  <2> QED BY <1>2, <1>3, <1>7, <2>1 DEF Regw, WriteStamp
<1>13. \A f \in more : Honest(e, f)'
  <2> SUFFICES ASSUME NEW f \in more PROVE Honest(e, f)'
    OBVIOUS
  <2>1. PICK n \in S : f = Regw(n, store[e][n])
    BY <1>2
  <2>2. f.tag = "REGW" /\ f.name = n /\ f.record.written = WriteStamp(e, n)'
    BY <1>12, <2>1
  <2> QED BY <2>2 DEF Honest, HlcLeq
<1>14. HonestFrames'
  <2>1. ASSUME NEW end \in Ends, NEW f \in InWire(end[1], end[2])'
        PROVE  f \in InWire(end[1], end[2]) \/ Honest(end[2], f)'
    <3>1. <<end[1], end[2]>> \in Ends
      BY EndIsAnEnd
    <3>2. CASE end[1] = c /\ end[2] = e
      <4>1. f \in InWire(c, e)'
        BY <2>1, <3>2
      <4> QED BY <1>9, <1>13, <3>2, <4>1
    <3>3. CASE end[1] = c /\ end[2] = o
      <4>1. f \in InWire(c, o)'
        BY <2>1, <3>3
      <4> QED BY <1>8, <3>3, <4>1
    <3>4. CASE end[1] # c \/ (end[2] # e /\ end[2] # o)
      BY <1>10, <2>1, <3>1, <3>4
    <3> QED BY <3>2, <3>3, <3>4
  <2> QED BY <1>7, <1>11, <2>1, MeshAssumption, FramesStayHonest
<1>15. WriteStampsTyped
  BY StampTyped
<1>16. ASSUME NEW a \in Hosts, NEW b \in Hosts, NEW n \in Names, a # b, NEW d \in Between(a, b),
              Open(d, a, b, n)
       PROVE  CaughtUp(a, b, n)'
  <2>1. /\ d \in Dials /\ <<d, a>> \in Ends /\ <<d, b>> \in Ends
        /\ Other(d, a) = b /\ Other(d, b) = a
    BY <1>16, BetweenTwo
  <2>2. WriteStamp(a, n)' = WriteStamp(a, n) /\ WriteStamp(b, n)' = WriteStamp(b, n)
    BY <1>7
  <2>3. CASE HlcLeq(WriteStamp(a, n), WriteStamp(b, n))
    BY <2>2, <2>3 DEF CaughtUp
  <2>4. CASE d = c /\ b = o /\ ~HlcLeq(WriteStamp(a, n), WriteStamp(b, n))
    <3>1. a = e
      BY <1>3, <1>16, <2>4 DEF Couple
    <3>2. HlcLess(WriteStamp(b, n), WriteStamp(a, n))
      BY <1>15, <2>4, HlcTotal DEF WriteStampsTyped, HlcLeq
    <3>3. store[e][n] # NoRecord
      BY <1>15, <2>4, <3>1, ZeroIsLeast DEF WriteStamp, WriteStampsTyped
    <3>4. Live(store[e][n], now[e]) /\ store[e][n].written = WriteStamp(a, n)
      BY <1>3, <3>1, <3>3, NothingExpires DEF Keys, WriteStamp
    <3>5. ASSUME NEW en \in x.digest, en.name = n
          PROVE  HlcLess(en.written, store[e][n].written)
      <4>1. x \in InWire(c, o) /\ <<c, o>>[1] = c /\ <<c, o>>[2] = o
        BY <1>8
      <4>2. HlcLeq(en.written, WriteStamp(b, n)) /\ en.written \in Stamps
        BY <1>3, <1>4, <2>4, <3>5, <4>1 DEF HonestFrames, Honest, DigestEntries
      <4> QED BY <1>15, <3>2, <3>4, <4>2, HlcLeqTransitive DEF WriteStampsTyped
    <3>6. n \in S
      BY <1>2, <3>4, <3>5 DEF NamesToPush
    <3>7. \E f \in InWire(d, a)' : Carries(f, n, WriteStamp(a, n)')
      BY <1>9, <1>12, <2>4, <3>1, <3>6 DEF Carries, HlcLeq
    <3>8. Open(d, a, b, n)'
      BY <3>7 DEF Open
    <3> QED BY <1>16, <3>8, OwedIsCaughtUp
  <2>5. CASE d # c \/ b # o
    <3>1. InWire(d, b) \subseteq InWire(d, b)'
      BY <1>8, <1>9, <1>10, <2>1, <2>5
    <3>2. \A f \in InWire(d, a) : f.tag = "REGW" => f \in InWire(d, a)'
      BY <1>4, <1>8, <1>9, <1>10, <2>1
    <3>3. Open(d, a, b, n)'
      BY <1>5, <1>11, <1>16, <2>1, <2>2, <3>1, <3>2 DEF Open, Carries
    <3> QED BY <1>16, <3>3, OwedIsCaughtUp
  <2> QED BY <2>3, <2>4, <2>5
<1>17. PairsCaughtUp'
  BY <1>5, <1>16, OpenKept
<1> QED BY <1>14, <1>17

(* What a connection that breaks carried is lost, and so is the connection. *)
LEMMA BreakKeeps ==
    ASSUME MeshInv, MeshInv', CoupleInv, NEW D, Break(D), StampsRise,
           store' = store, announcing' = announcing,
           \A d \in Dials : outbox'[d] = outbox[d] \/ (d \in D /\ outbox'[d] = <<>>)
    PROVE  HonestFrames' /\ PairsCaughtUp'
<1> USE DEF MeshInv, HostInv, HostTypeOK, CoupleInv
<1>1. ASSUME NEW d, NEW g, <<d, g>> \in Ends
      PROVE  /\ d \notin D => InWire(d, g)' = InWire(d, g)
             /\ InWire(d, g)' \subseteq InWire(d, g)
  <2>1. wire'[<<d, g>>] = IF d \in D THEN <<>> ELSE wire[<<d, g>>]
    BY <1>1 DEF Break
  <2> QED BY <2>1, RangeEmpty DEF InWire
<1>2. ASSUME NEW d \in Dials
      PROVE  /\ d \notin D => InOutbox(d)' = InOutbox(d)
             /\ InOutbox(d)' \subseteq InOutbox(d)
  BY <1>2, RangeEmpty DEF InOutbox
<1>3. HonestFrames'
  <2>1. \A end \in Ends : \A f \in InWire(end[1], end[2])' : f \in InWire(end[1], end[2])
    BY <1>1, EndIsAnEnd
  <2> QED BY <1>2, <2>1, MeshAssumption, FramesStayHonest
<1>4. ASSUME NEW a \in Hosts, NEW b \in Hosts, NEW n \in Names, a # b, NEW d \in Between(a, b),
             Open(d, a, b, n)
      PROVE  CaughtUp(a, b, n)'
  <2>1. d \in Dials /\ <<d, a>> \in Ends /\ <<d, b>> \in Ends
    BY <1>4, BetweenTwo
  <2>2. CASE d \in D
    BY <1>4, <2>2, OwedIsCaughtUp DEF Open, Break
  <2>3. CASE d \notin D
    <3>1. WriteStamp(a, n)' = WriteStamp(a, n)
      BY DEF WriteStamp
    <3>2. /\ d \notin up => d \notin up'
          /\ <<d, b>> \in greeting => <<d, b>> \in greeting'
      BY <2>3 DEF Break
    <3>3. Open(d, a, b, n)'
      BY <1>1, <1>2, <1>4, <2>1, <2>3, <3>1, <3>2 DEF Open
    <3> QED BY <1>4, <3>3, OwedIsCaughtUp
  <2> QED BY <2>2, <2>3
<1>5. PairsCaughtUp'
  BY <1>4, OpenKept
<1> QED BY <1>3, <1>5

LEMMA FaultKeeps ==
    ASSUME MeshInv, MeshInv', CoupleInv, NEW c \in Dials, Disconnect(c) \/ RemovePeer(c)
    PROVE  HonestFrames' /\ PairsCaughtUp'
<1>1. store' = store /\ announcing' = announcing /\ Break({c})
  BY DEF Disconnect, RemovePeer, hostVars, storeVars
<1>2. \A d \in Dials : outbox'[d] = outbox[d] \/ (d \in {c} /\ outbox'[d] = <<>>)
  BY DEF Disconnect, RemovePeer, Forget
<1> QED BY <1>1, <1>2, SameStamps, BreakKeeps

(* A crash takes every connection of the daemon with it: the other will send
   its digest again, and the frames that promised what is lost are gone.    *)
LEMMA CrashKeeps ==
    ASSUME Couple, MeshInv, MeshInv', CoupleInv, NEW h \in Hosts, Crash(h)
    PROVE  HonestFrames' /\ PairsCaughtUp'
<1> USE DEF MeshInv, HostInv, HostTypeOK, CoupleInv
<1>1. \A g \in Hosts \ {h} : store'[g] = store[g]
  BY RestartIsLocal DEF Crash
<1>2. ASSUME NEW g \in Hosts, g # h, NEW f \in Frames, Honest(g, f) PROVE Honest(g, f)'
  <2>1. \A n \in Names : HlcLeq(WriteStamp(g, n), WriteStamp(g, n)')
    BY <1>1, <1>2 DEF WriteStamp, HlcLeq
  <2> QED BY <1>2, <2>1, StaysHonest
<1>3. ASSUME NEW end \in Ends, NEW f \in InWire(end[1], end[2])' PROVE Honest(end[2], f)'
  <2>1. /\ end[1] \in Dials /\ end = <<end[1], end[2]>> /\ end[2] \in {end[1][1], end[1][2]}
        /\ end[2] \in Hosts
    BY MeshAssumption, EndIsAnEnd, EndsOfADial
  <2>2. wire'[end] = IF end[1] \in {d \in Dials : h \in {d[1], d[2]}} THEN <<>> ELSE wire[end]
    BY DEF Crash, Break
  <2>3. InWire(end[1], end[2])' = Range(wire'[end]) /\ InWire(end[1], end[2]) = Range(wire[end])
    BY <2>1 DEF InWire
  <2>4. h \notin {end[1][1], end[1][2]} /\ f \in InWire(end[1], end[2])
    BY <1>3, <2>1, <2>2, <2>3, RangeEmpty
  <2> QED BY <1>2, <2>1, <2>4, FramesTyped DEF HonestFrames
<1>4. ASSUME NEW d \in Dials, NEW f \in InOutbox(d)' PROVE Honest(d[1], f)'
  <2>1. d[1] \in Hosts
    BY MeshAssumption, EndsOfADial
  <2>2. outbox'[d] = IF d \in {c \in Dials : h = c[1]} THEN <<>> ELSE outbox[d]
    BY DEF Crash, Forget
  <2>3. h # d[1] /\ f \in InOutbox(d)
    BY <1>4, <2>2, RangeEmpty DEF InOutbox
  <2> QED BY <1>2, <2>1, <2>3, FramesTyped DEF HonestFrames
<1>5. ASSUME NEW a \in Hosts, NEW b \in Hosts, NEW n \in Names, a # b
      PROVE  CaughtUp(a, b, n)'
  <2>1. PICK d \in Dials : d = <<a, b>> \/ d = <<b, a>>
    BY <1>5 DEF Couple
  <2>2. h \in {d[1], d[2]}
    BY <1>5, <2>1 DEF Couple
  <2>3. d \notin up' /\ d \in Between(a, b)
    BY <2>1, <2>2 DEF Crash, Break, Between
  <2> QED BY <2>3, OwedIsCaughtUp DEF Open
<1> QED BY <1>3, <1>4, <1>5 DEF HonestFrames, PairsCaughtUp

LEMMA WallsStayBounded ==
    ASSUME MeshInv, WallBound, MeshNext
    PROVE  WallBound'
<1> USE DEF MeshInv, HostInv, HostTypeOK
<1>1. now \in [Hosts -> Nat] /\ MaxWall \in Nat
  BY StoreAssumption DEF StoreTypeOK, StoreAssumption
<1>2. ASSUME NEW h \in Hosts, Elapse(h) PROVE WallBound'
  <2>1. CASE Tick(h)
    <3>1. now' = [now EXCEPT ![h] = now[h] + 1] /\ now[h] < MaxWall /\ now[h] \in Nat
      BY <1>1, <2>1 DEF Tick
    <3>2. now[h] + 1 <= MaxWall
      BY <1>1, <3>1
    <3>3. \A g \in Hosts : now'[g] = now[g] \/ now'[g] = now[h] + 1
      BY <1>1, <3>1
    <3> QED BY <3>2, <3>3 DEF WallBound
  <2>2. CASE StepBack(h)
    <3>1. now' = [now EXCEPT ![h] = now[h] - 1] /\ now[h] <= MaxWall /\ now[h] \in Nat
      BY <1>1, <2>2 DEF StepBack, WallBound
    <3>2. now[h] - 1 <= MaxWall
      BY <1>1, <3>1
    <3>3. \A g \in Hosts : now'[g] = now[g] \/ now'[g] = now[h] - 1
      BY <1>1, <3>1
    <3> QED BY <3>2, <3>3 DEF WallBound
  <2>3. CASE PruneExpired(h)
    BY <2>3 DEF PruneExpired, WallBound
  <2> QED BY <1>2, <2>1, <2>2, <2>3 DEF Elapse
<1>3. ASSUME ~ \E h \in Hosts : Elapse(h) PROVE now' = now
  <2>1. \A h \in Users : LocalWrite(h) => now' = now
    BY DEF LocalWrite, WriteValue, WriteTombstone, Upsert, Delete, MintStamp
  <2>2. \A h \in Users, n \in Names : LocalRead(h, n) => now' = now
    BY DEF LocalRead, Read, MintStamp
  <2>3. \A h \in Hosts, n \in Names : Note(h, n) \/ Broadcast(h, n) => now' = now
    BY DEF Note, NoteFloor, Broadcast, Announce, DropOnAccess, storeVars
  <2>4. \A h \in Hosts : SaveStore(h) \/ Crash(h) => now' = now
    BY DEF SaveStore, Save, PruneExpired, Crash, Restart
  <2>5. \A d \in Dials : (Connect(d) \/ Drain(d) \/ Disconnect(d) \/ RemovePeer(d)) => now' = now
    BY DEF Connect, Drain, Disconnect, RemovePeer, hostVars, storeVars
  <2>6. \A d, e : (Greet(d, e) \/ AnswerDigest(d, e) \/ ReceiveRecord(d, e)) => now' = now
    BY DEF Greet, AnswerDigest, ReceiveRecord, PruneExpired, ApplyRemote
  <2> QED BY <1>3, <2>1, <2>2, <2>3, <2>4, <2>5, <2>6 DEF MeshNext
<1> QED BY <1>2, <1>3 DEF WallBound

LEMMA OnlyUsersAnnounce ==
    ASSUME MeshInv, UsersAnnounce, MeshNext
    PROVE  UsersAnnounce'
<1> USE DEF MeshInv, HostInv, HostTypeOK
<1>1. ASSUME NEW h \in Users, LocalWrite(h) PROVE UsersAnnounce'
  <2>1. h \in Hosts /\ \E n \in Names : Owes(h, n, "note")
    BY <1>1, MeshAssumption DEF LocalWrite, WriteValue, WriteTombstone, MeshAssumption
  <2> QED BY <2>1 DEF Owes, UsersAnnounce
<1>2. ASSUME NEW h \in Hosts, NEW n \in Names, Note(h, n) \/ Broadcast(h, n) PROVE UsersAnnounce'
  <2>1. announcing[h] # {} /\ \A g \in Hosts \ {h} : announcing'[g] = announcing[g]
    BY <1>2 DEF Note, NoteFloor, Broadcast, Announce
  <2> QED BY <2>1 DEF UsersAnnounce
<1>3. ASSUME NEW h \in Hosts, Crash(h) PROVE UsersAnnounce'
  BY <1>3 DEF Crash, Restart, UsersAnnounce
<1>4. ASSUME \/ \E h \in Users, n \in Names : LocalRead(h, n)
             \/ \E h \in Hosts : SaveStore(h) \/ Elapse(h)
             \/ \E d \in Dials : Connect(d) \/ Drain(d) \/ Disconnect(d) \/ RemovePeer(d)
             \/ \E end \in Ends : \/ Greet(end[1], end[2]) \/ ReceiveRecord(end[1], end[2])
                                  \/ AnswerDigest(end[1], end[2])
      PROVE  announcing' = announcing
  BY <1>4 DEF LocalRead, SaveStore, Save, Elapse, Connect, Drain, Disconnect, RemovePeer, Greet,
     ReceiveRecord, AnswerDigest, hostVars
<1> QED BY <1>1, <1>2, <1>3, <1>4 DEF MeshNext, UsersAnnounce

LEMMA CoupleStarts ==
    ASSUME Couple, MeshInit
    PROVE  CoupleInv
<1>1. WallBound
  BY DEF MeshInit, HostInit, StoreInit, WallBound, Couple
<1>2. UsersAnnounce
  BY DEF MeshInit, HostInit, UsersAnnounce
<1>3. HonestFrames
  <2>1. \A end \in Ends : InWire(end[1], end[2]) = {}
    BY EndIsAnEnd, RangeEmpty DEF MeshInit, InWire
  <2>2. \A d \in Dials : InOutbox(d) = {}
    BY RangeEmpty DEF MeshInit, InOutbox
  <2> QED BY <2>1, <2>2 DEF HonestFrames
<1>4. PairsCaughtUp
  <2> SUFFICES ASSUME NEW a \in Hosts, NEW b \in Hosts, NEW n \in Names
               PROVE  CaughtUp(a, b, n)
    BY DEF PairsCaughtUp
  <2>1. store[a][n] = NoRecord /\ store[b][n] = NoRecord
    BY DEF MeshInit, HostInit, StoreInit, Empty, Keys
  <2> QED BY <2>1 DEF CaughtUp, WriteStamp, HlcLeq
<1> QED BY <1>1, <1>2, <1>3, <1>4 DEF CoupleInv

LEMMA CoupleStep ==
    ASSUME Couple, MeshInv, MeshInv', CoupleInv, MeshNext
    PROVE  CoupleInv'
<1> DEFINE Goal == HonestFrames' /\ PairsCaughtUp'
<1>1. WallBound' /\ UsersAnnounce'
  BY WallsStayBounded, OnlyUsersAnnounce DEF CoupleInv
<1>2. StampsRise \/ \E h \in Hosts : Crash(h)
  BY MeshCells, RunningStampsRise, StoreAssumption, MeshAssumption
     DEF MeshInv, HostInv, HostTypeOK, CoupleInv
<1>3. ASSUME \E h \in Hosts : Crash(h) PROVE Goal
  BY <1>3, CrashKeeps
<1>4. ASSUME StampsRise, NEW h \in Users, LocalWrite(h) \/ \E n \in Names : LocalRead(h, n)
      PROVE  Goal
  BY <1>4, WriteKeeps, ReadKeeps
<1>5. ASSUME NEW h \in Hosts, SaveStore(h) \/ Elapse(h) \/ \E n \in Names : Note(h, n)
      PROVE  Goal
  BY <1>5, HousekeepingKeeps
<1>6. ASSUME NEW h \in Hosts, NEW n \in Names, Broadcast(h, n) PROVE Goal
  BY <1>6, BroadcastKeeps
<1>7. ASSUME NEW d \in Dials, Connect(d) \/ Drain(d) \/ Disconnect(d) \/ RemovePeer(d)
      PROVE  Goal
  BY <1>7, ConnectKeeps, DrainKeeps, FaultKeeps
<1>8. ASSUME StampsRise, NEW d \in Dials, NEW e \in {d[1], d[2]},
             Greet(d, e) \/ ReceiveRecord(d, e) \/ AnswerDigest(d, e)
      PROVE  Goal
  BY <1>8, GreetKeeps, ReceiveKeeps, AnswerKeeps
<1> HIDE DEF Goal
<1>9. Goal
  BY <1>2, <1>3, <1>4, <1>5, <1>6, <1>7, <1>8, EndIsAnEnd DEF MeshNext
<1> QED BY <1>1, <1>9 DEF CoupleInv, Goal

LEMMA QuietIsCaughtUp ==
    ASSUME Couple, MeshInv, CoupleInv
    PROVE  QuietMeansCaughtUp
<1> SUFFICES ASSUME Quiet, NEW a \in Hosts, NEW b \in Hosts, NEW n \in Names
             PROVE  WriteStamp(a, n) = WriteStamp(b, n)
  BY DEF QuietMeansCaughtUp
<1>1. ASSUME NEW g \in Hosts, NEW k \in Hosts, g # k PROVE ~Owed(g, k, n)
  <2>1. ~Announcing(g, n)
    BY DEF Quiet, Announcing
  <2>2. ASSUME NEW d \in Between(g, k) PROVE ~Open(d, g, k, n)
    <3>1. d \in Dials /\ <<d, g>> \in Ends /\ <<d, k>> \in Ends
      BY <1>1, <2>2, BetweenTwo
    <3>2. InWire(d, g) = {} /\ InWire(d, k) = {} /\ InOutbox(d) = {}
      BY <3>1, RangeEmpty DEF Quiet, InWire, InOutbox
    <3> QED BY <3>1, <3>2 DEF Open, Quiet
  <2> QED BY <2>1, <2>2 DEF Owed
<1>2. WriteStamp(a, n) \in Stamps /\ WriteStamp(b, n) \in Stamps
  BY StampTyped DEF MeshInv, HostInv, HostTypeOK, WriteStampsTyped
<1>3. CASE a # b
  <2>1. /\ HlcLeq(WriteStamp(a, n), WriteStamp(b, n))
        /\ HlcLeq(WriteStamp(b, n), WriteStamp(a, n))
    BY <1>1, <1>3 DEF CoupleInv, PairsCaughtUp, CaughtUp
  <2> QED BY <1>2, <2>1, HlcTotal DEF HlcLeq
<1> QED BY <1>3

(* Two daemons, for any names, any writes, reads, breaks, removals and crashes,
   and whichever of the two dials: once there is nothing left to do, both hold
   the same write of every name.  The broadcast may be lost with a connection
   or a process; the digests of the next connection make it good.           *)
THEOREM QuietCoupleCaughtUp ==
    ASSUME Couple
    PROVE  MeshSpec => []QuietMeansCaughtUp
<1>1. MeshInit => CoupleInv
  BY CoupleStarts
<1>2. CoupleInv /\ MeshInv /\ MeshInv' /\ [MeshNext]_meshVars => CoupleInv'
  <2> SUFFICES ASSUME CoupleInv, MeshInv, MeshInv', [MeshNext]_meshVars PROVE CoupleInv'
    OBVIOUS
  <2>1. CASE UNCHANGED meshVars
    <3>1. UNCHANGED <<store, now, announcing>> /\ UNCHANGED linkVars
      BY <2>1 DEF meshVars, hostVars, storeVars
    <3>2. WallBound' /\ UsersAnnounce'
      BY <3>1 DEF CoupleInv, WallBound, UsersAnnounce
    <3>3. HonestFrames' /\ PairsCaughtUp'
      BY <3>1, SameStamps, LocalKeeps DEF Announcing
    <3> QED BY <3>2, <3>3 DEF CoupleInv
  <2> QED BY <2>1, CoupleStep
<1>3. CoupleInv /\ MeshInv => QuietMeansCaughtUp
  BY QuietIsCaughtUp
<1> QED BY <1>1, <1>2, <1>3, MeshInvariant, PTL DEF MeshSpec

=============================================================================
