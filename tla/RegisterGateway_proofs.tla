------------------------ MODULE RegisterGateway_proofs ------------------------
(***************************************************************************)
(* What the commands and the edits of registers promise, for any daemons,  *)
(* registers, requests and numbers of failures.  The first part is about   *)
(* the daemons' stores alone: what one daemon holds, the others hold or    *)
(* will be brought.  The second follows a command, the third a rename.     *)
(***************************************************************************)
EXTENDS RegisterGateway, FiniteSetTheorems, SequenceTheorems, TLAPS

-----------------------------------------------------------------------------
(* The stores.                                                              *)

Cell    == Record \cup {Absent}
Message == [host : Host, name : Name, rec : Record]

StoreInv ==
    /\ now \in Nat
    /\ store \in [Host -> [Name -> Cell]]
    /\ \A h \in Host, n \in Name : Stamp(store[h][n]) <= now
    /\ spread \subseteq Message
    /\ \A m \in spread : m.rec.stamp <= now

(* Daemon p has the record of n with stamp s, or a later one, or it is on the
   way to it.                                                               *)
Covered(n, s, p) ==
    \/ Stamp(store[p][n]) >= s
    \/ \E m \in spread : m.host = p /\ m.name = n /\ m.rec.stamp >= s

(* What somebody holds, everybody holds or will be brought.                 *)
SpreadInv ==
    /\ \A h, p \in Host, n \in Name : Covered(n, Stamp(store[h][n]), p)
    /\ \A m \in spread : \A p \in Host : Covered(m.name, m.rec.stamp, p)

(* The ways the stores change.                                              *)
Puts(h, n, v) == \E private \in BOOLEAN : Write(h, n, v, private)

Arrived(m) ==
    /\ m \in spread /\ spread' = spread \ {m} /\ now' = now
    /\ store' = IF m.rec.stamp > Stamp(store[m.host][m.name])
                THEN [store EXCEPT ![m.host][m.name] = m.rec] ELSE store

StoreStep ==
    \/ UNCHANGED <<now, store, spread>>
    \/ \E h \in Host, n \in Name, v \in Value \cup {Gone} : Puts(h, n, v)
    \/ \E m \in spread : Arrived(m)

LEMMA CellStamp ==
    ASSUME NEW r \in Cell
    PROVE  Stamp(r) \in Nat /\ (r \in Record => r # Absent /\ Stamp(r) = r.stamp)
BY GatewayAssumption DEF Stamp, Cell, Record

(* A write: one cell, with a stamp above all there were.                    *)
OneCell(h, n, v) ==
    /\ now' = now + 1
    /\ store' \in [Host -> [Name -> Cell]]
    /\ store'[h][n] \in Record /\ store'[h][n].stamp = now + 1 /\ store'[h][n].value = v
    /\ \A p \in Host, k \in Name : p # h \/ k # n => store'[p][k] = store[p][k]
    /\ spread \subseteq spread'
    /\ \A p \in Host \ {h} : [host |-> p, name |-> n, rec |-> store'[h][n]] \in spread'
    /\ \A m \in spread' \ spread :
         \E p \in Host \ {h} : m = [host |-> p, name |-> n, rec |-> store'[h][n]]

LEMMA WriteShape ==
    ASSUME StoreInv, NEW h \in Host, NEW n \in Name, NEW v \in Value \cup {Gone}, Puts(h, n, v)
    PROVE  OneCell(h, n, v)
<1>0. PICK private \in BOOLEAN : Write(h, n, v, private)
  BY DEF Puts
<1> DEFINE rec == [stamp |-> now + 1, value |-> v, private |-> private]
<1>1. rec \in Record /\ rec.stamp = now + 1 /\ rec.value = v /\ now' = now + 1
  BY <1>0 DEF Record, StoreInv, Write
<1>2. /\ store' = [store EXCEPT ![h][n] = rec]
      /\ spread' = spread \cup {[host |-> p, name |-> n, rec |-> rec] : p \in Host \ {h}}
  BY <1>0 DEF Write
<1> HIDE DEF rec
<1>3. store' \in [Host -> [Name -> Cell]] /\ store'[h][n] = rec
  BY <1>1, <1>2 DEF StoreInv, Cell
<1>4. \A p \in Host, k \in Name : p # h \/ k # n => store'[p][k] = store[p][k]
  BY <1>2 DEF StoreInv
<1> QED BY <1>1, <1>2, <1>3, <1>4 DEF OneCell

LEMMA ArriveShape ==
    ASSUME StoreInv, NEW m \in spread, Arrived(m)
    PROVE  /\ m.host \in Host /\ m.name \in Name /\ m.rec \in Record
           /\ store' \in [Host -> [Name -> Cell]]
           /\ \A p \in Host, k \in Name :
                \/ store'[p][k] = store[p][k]
                \/ p = m.host /\ k = m.name /\ store'[p][k] = m.rec /\ m.rec.stamp > Stamp(store[p][k])
           /\ Stamp(store'[m.host][m.name]) >= m.rec.stamp
<1>1. m.host \in Host /\ m.name \in Name /\ m.rec \in Record /\ m.rec.stamp \in Nat
  BY DEF StoreInv, Message, Record
<1>2. store[m.host][m.name] \in Cell
  BY <1>1 DEF StoreInv
<1>3. CASE m.rec.stamp > Stamp(store[m.host][m.name])
  <2>1. store' = [store EXCEPT ![m.host][m.name] = m.rec]
    BY <1>3 DEF Arrived
  <2>2. store' \in [Host -> [Name -> Cell]] /\ store'[m.host][m.name] = m.rec
    BY <1>1, <2>1 DEF StoreInv, Cell
  <2>3. \A p \in Host, k \in Name : p # m.host \/ k # m.name => store'[p][k] = store[p][k]
    BY <1>1, <2>1 DEF StoreInv
  <2>4. Stamp(m.rec) = m.rec.stamp
    BY <1>1, CellStamp DEF Cell
  <2> QED BY <1>1, <1>3, <2>2, <2>3, <2>4
<1>4. CASE ~(m.rec.stamp > Stamp(store[m.host][m.name]))
  <2>1. store' = store
    BY <1>4 DEF Arrived
  <2> QED BY <1>1, <1>2, <1>4, <2>1, CellStamp DEF StoreInv
<1> QED BY <1>3, <1>4

LEMMA StoreInvKept ==
    ASSUME StoreInv, StoreStep
    PROVE  StoreInv'
<1>1. CASE UNCHANGED <<now, store, spread>>
  BY <1>1 DEF StoreInv, Stamp
<1>2. ASSUME NEW h \in Host, NEW n \in Name, NEW v \in Value \cup {Gone}, Puts(h, n, v)
      PROVE  StoreInv'
  <2>0. now \in Nat
    BY DEF StoreInv
  <2>1. OneCell(h, n, v)
    BY <1>2, WriteShape
  <2>3. Stamp(store'[h][n]) = now + 1
    BY <2>1, CellStamp DEF Cell, OneCell
  <2>2. \A p \in Host, k \in Name : Stamp(store'[p][k]) <= now'
    <3> TAKE p \in Host, k \in Name
    <3>1. CASE p = h /\ k = n
      BY <2>0, <2>1, <2>3, <3>1 DEF OneCell
    <3>2. CASE p # h \/ k # n
      <4>1. store'[p][k] = store[p][k] /\ Stamp(store[p][k]) \in Nat /\ Stamp(store[p][k]) <= now
        BY <2>1, <3>2, CellStamp DEF StoreInv, OneCell
      <4> QED BY <2>0, <2>1, <4>1 DEF OneCell
    <3> QED BY <3>1, <3>2
  <2>4. \A m \in spread' : m \in Message /\ m.rec.stamp <= now'
    <3> TAKE m \in spread'
    <3>1. CASE m \in spread
      <4>1. m \in Message /\ m.rec.stamp \in Nat /\ m.rec.stamp <= now
        BY <3>1 DEF StoreInv, Message, Record
      <4> QED BY <2>0, <2>1, <4>1 DEF OneCell
    <3>2. CASE m \notin spread
      <4>1. PICK p \in Host \ {h} : m = [host |-> p, name |-> n, rec |-> store'[h][n]]
        BY <2>1, <3>2 DEF OneCell
      <4> QED BY <2>0, <2>1, <4>1 DEF Message, OneCell
    <3> QED BY <3>1, <3>2
  <2>5. now' \in Nat
    BY <2>0, <2>1 DEF OneCell
  <2> QED BY <2>1, <2>2, <2>4, <2>5 DEF StoreInv, Stamp, OneCell
<1>3. ASSUME NEW m \in spread, Arrived(m)
      PROVE  StoreInv'
  <2>1. /\ store' \in [Host -> [Name -> Cell]] /\ m.rec \in Record
        /\ \A p \in Host, k \in Name : store'[p][k] = store[p][k] \/ store'[p][k] = m.rec
    BY <1>3, ArriveShape
  <2>2. Stamp(m.rec) = m.rec.stamp
    BY <2>1, CellStamp DEF Cell
  <2>3. now' = now /\ spread' \subseteq spread
    BY <1>3 DEF Arrived
  <2>4. \A p \in Host, k \in Name : Stamp(store'[p][k]) <= now'
    BY <2>1, <2>2, <2>3 DEF StoreInv
  <2> QED BY <2>1, <2>3, <2>4 DEF StoreInv, Stamp
<1> QED BY <1>1, <1>2, <1>3 DEF StoreStep

(* No record is replaced but by a later one.                                *)
LEMMA StampsGrow ==
    ASSUME StoreInv, StoreStep, NEW h \in Host, NEW n \in Name
    PROVE  /\ Stamp(store[h][n]) \in Nat /\ Stamp(store'[h][n]) \in Nat
           /\ store'[h][n] = store[h][n] \/ Stamp(store'[h][n]) > Stamp(store[h][n])
<1>0. /\ store[h][n] \in Cell /\ store'[h][n] \in Cell /\ now \in Nat
      /\ Stamp(store[h][n]) \in Nat /\ Stamp(store'[h][n]) \in Nat /\ Stamp(store[h][n]) <= now
  BY StoreInvKept, CellStamp DEF StoreInv
<1>1. CASE UNCHANGED <<now, store, spread>>
  BY <1>0, <1>1
<1>2. ASSUME NEW p \in Host, NEW k \in Name, NEW v \in Value \cup {Gone}, Puts(p, k, v)
      PROVE  store'[h][n] = store[h][n] \/ Stamp(store'[h][n]) > Stamp(store[h][n])
  <2>1. OneCell(p, k, v)
    BY <1>2, WriteShape
  <2>2. Stamp(store'[p][k]) = now + 1
    BY <2>1, CellStamp DEF OneCell, Cell
  <2>3. CASE p = h /\ k = n
    BY <1>0, <2>2, <2>3
  <2>4. CASE p # h \/ k # n
    BY <2>1, <2>4 DEF OneCell
  <2> QED BY <2>3, <2>4
<1>3. ASSUME NEW m \in spread, Arrived(m)
      PROVE  store'[h][n] = store[h][n] \/ Stamp(store'[h][n]) > Stamp(store[h][n])
  <2>1. m.rec \in Record
    BY <1>3, ArriveShape
  <2>2. Stamp(m.rec) = m.rec.stamp
    BY <2>1, CellStamp DEF Cell
  <2> QED BY <1>3, <2>2, ArriveShape
<1> QED BY <1>0, <1>1, <1>2, <1>3 DEF StoreStep

LEMMA CoveredKept ==
    ASSUME StoreInv, StoreStep, NEW n \in Name, NEW s \in Nat, NEW p \in Host, Covered(n, s, p)
    PROVE  Covered(n, s, p)'
<1>1. /\ Stamp(store[p][n]) \in Nat /\ Stamp(store'[p][n]) \in Nat
      /\ Stamp(store'[p][n]) >= Stamp(store[p][n])
  BY StampsGrow
<1>2. CASE Stamp(store[p][n]) >= s
  BY <1>1, <1>2 DEF Covered, Stamp
<1>3. ASSUME NEW m \in spread, m.host = p, m.name = n, m.rec.stamp >= s
      PROVE  Covered(n, s, p)'
  <2>1. CASE m \in spread'
    BY <1>3, <2>1 DEF Covered
  <2>2. CASE m \notin spread'
    <3>1. Arrived(m)
      <4>1. \/ spread \subseteq spread'
            \/ \E a \in spread : Arrived(a)
        BY WriteShape DEF StoreStep, OneCell
      <4> QED BY <2>2, <4>1 DEF Arrived
    <3>2. Stamp(store'[p][n]) >= m.rec.stamp /\ m.rec.stamp \in Nat
      BY <1>3, <3>1, ArriveShape DEF Record
    <3> QED BY <1>1, <1>3, <3>2 DEF Covered, Stamp
  <2> QED BY <2>1, <2>2
<1> QED BY <1>2, <1>3 DEF Covered

(* What is written is sent to all the others.                               *)
LEMMA WriteCovers ==
    ASSUME StoreInv, NEW h \in Host, NEW n \in Name, NEW v \in Value \cup {Gone}, Puts(h, n, v),
           NEW p \in Host, NEW s, s = now + 1
    PROVE  Covered(n, s, p)'
<1>1. OneCell(h, n, v) /\ now \in Nat
  BY WriteShape DEF StoreInv
<1>2. Stamp(store'[h][n]) = now + 1
  BY <1>1, CellStamp DEF OneCell, Cell
<1>3. CASE p = h
  <2>1. Stamp(store'[p][n]) >= s
    BY <1>1, <1>2, <1>3
  <2> QED BY <2>1 DEF Covered, Stamp
<1>4. CASE p # h
  <2> DEFINE m == [host |-> p, name |-> n, rec |-> store'[h][n]]
  <2>1. m \in spread' /\ m.host = p /\ m.name = n /\ m.rec.stamp = now + 1
    BY <1>1, <1>4 DEF OneCell
  <2> HIDE DEF m
  <2>2. m.rec.stamp >= s
    BY <1>1, <2>1
  <2> QED BY <2>1, <2>2 DEF Covered
<1> QED BY <1>3, <1>4

LEMMA SpreadKept ==
    ASSUME StoreInv, SpreadInv, StoreStep
    PROVE  SpreadInv'
<1>0. now \in Nat /\ \A m \in spread : m \in Message /\ m.rec.stamp \in Nat
  BY DEF StoreInv, Message, Record
<1>1. ASSUME NEW n \in Name, NEW s \in Nat, \A p \in Host : Covered(n, s, p)
      PROVE  \A p \in Host : Covered(n, s, p)'
  BY <1>1, CoveredKept
<1>2. ASSUME NEW h \in Host, NEW n \in Name
      PROVE  \A p \in Host : Covered(n, Stamp(store[h][n]), p)'
  <2>1. PICK s \in Nat : s = Stamp(store'[h][n])
    BY StampsGrow
  <2>2. \A p \in Host : Covered(n, s, p)'
    <3>1. CASE store'[h][n] = store[h][n]
      <4>1. \A p \in Host : Covered(n, s, p)
        BY <2>1, <3>1 DEF SpreadInv
      <4> QED BY <4>1, <1>1
    <3>2. ASSUME NEW q \in Host, NEW k \in Name, NEW v \in Value \cup {Gone}, Puts(q, k, v),
                 store'[h][n] # store[h][n]
          PROVE  \A p \in Host : Covered(n, s, p)'
      <4>1. q = h /\ k = n /\ OneCell(q, k, v)
        BY <3>2, WriteShape DEF OneCell
      <4>2. s = now + 1
        BY <2>1, <4>1, CellStamp DEF OneCell, Cell
      <4> QED BY <3>2, <4>1, <4>2, WriteCovers
    <3>3. ASSUME NEW m \in spread, Arrived(m), store'[h][n] # store[h][n]
          PROVE  \A p \in Host : Covered(n, s, p)'
      <4>1. h = m.host /\ n = m.name /\ store'[h][n] = m.rec /\ m.rec \in Record
        BY <3>3, ArriveShape
      <4>2. s = m.rec.stamp
        BY <2>1, <4>1, CellStamp DEF Cell
      <4>3. \A p \in Host : Covered(n, s, p)
        BY <4>1, <4>2 DEF SpreadInv
      <4> QED BY <4>3, <1>1
    <3>4. CASE UNCHANGED <<now, store, spread>>
      BY <3>1, <3>4
    <3> QED BY <3>1, <3>2, <3>3, <3>4 DEF StoreStep
  <2> QED BY <2>1, <2>2 DEF Covered, Stamp
<1>3. ASSUME NEW m \in spread'
      PROVE  \A p \in Host : Covered(m.name, m.rec.stamp, p)'
  <2>1. CASE m \in spread
    <3>1. \A p \in Host : Covered(m.name, m.rec.stamp, p)
      BY <2>1 DEF SpreadInv
    <3>2. m.name \in Name /\ m.rec.stamp \in Nat
      BY <1>0, <2>1 DEF Message
    <3> QED BY <3>1, <3>2, <1>1
  <2>2. CASE m \notin spread
    <3>1. PICK h \in Host, n \in Name, v \in Value \cup {Gone} : Puts(h, n, v)
      BY <2>2 DEF StoreStep, Arrived
    <3>2. OneCell(h, n, v)
      BY <3>1, WriteShape
    <3>3. m.name = n /\ m.rec.stamp = now + 1
      BY <2>2, <3>2 DEF OneCell
    <3> QED BY <3>1, <3>3, WriteCovers
  <2> QED BY <2>1, <2>2
<1> QED BY <1>2, <1>3 DEF SpreadInv

-----------------------------------------------------------------------------
(* The types of the rest, and what a frame does at its daemon.              *)

Orphan     == {o \in [to : Host, inn : Seq(Question)] : o.inn # <<>>}
Put        == [name : Name, stamp : Nat]
LiveRecord == {r \in Record : r.value # Gone}
OpenEdit ==
    [op : {"delete"}, name : Name, to : Name, rec : LiveRecord \cup {Absent}]
        \cup [op : {"private", "rename", "rename: delete"}, name : Name, to : Name, rec : LiveRecord]
Deleted == [name : Name, rec : LiveRecord]

ClientTypes ==
    /\ cli \in Command \cup {None} /\ conn \in Connection \cup {None} /\ orphans \subseteq Orphan
    /\ cli = None => conn = None /\ orphans = {}
HistoryTypes == clips \subseteq Value /\ wrote \in Seq(Put) /\ start \in [Host -> [Name -> Cell]]
EditTypes    == ui \in [Host -> OpenEdit \cup {None}] /\ undo \in [Host -> Deleted \cup {None}]

TypeInv == ClientTypes /\ HistoryTypes /\ EditTypes

LEMMA QuestionFields ==
    ASSUME NEW f \in Question
    PROVE  /\ f.tag \in {"RLST", "PING", "RGET", "CLIP", "REGW"}
           /\ f.tag = "REGW" => f.name \in Name /\ f.value \in Value \cup {Gone}
           /\ f.tag = "RGET" => f.name \in Name
           /\ f.tag = "CLIP" => f.value \in Value
BY DEF Question

LEMMA ReplyFields ==
    ASSUME NEW a \in Reply
    PROVE  /\ a.tag \in {"ROKW", "RERR", "RDEL", "NONE", "PONG", "REGW", "RLST"}
           /\ a.tag = "REGW" => a.value \in Value
           /\ a.tag = "RLST" => a.names \subseteq Name
BY DEF Reply

(* A frame writes one name, hands over a clip, or changes nothing.          *)
EffectWrites(h, f) ==
    /\ f.tag = "REGW" /\ Accepts(h, f) /\ Write(h, f.name, f.value, FALSE) /\ Disturb(h, f.name)
    /\ wrote' = Append(wrote, [name |-> f.name, stamp |-> now']) /\ clips' = clips

EffectNone(h, f) ==
    /\ UNCHANGED <<now, store, spread, rename, wrote>>
    /\ f.tag = "REGW" => ~Accepts(h, f)
    /\ IF f.tag = "CLIP" THEN clips' = clips \cup {f.value} ELSE clips' = clips

LEMMA EffectShape ==
    ASSUME NEW h \in Host, NEW f \in Question, Effect(h, f)
    PROVE  EffectWrites(h, f) \/ EffectNone(h, f)
BY QuestionFields DEF Effect, EffectWrites, EffectNone

LEMMA AnswerType ==
    ASSUME StoreInv, NEW h \in Host, NEW f \in Question
    PROVE  Answer(h, f) \in Seq(Reply)
<1>1. LiveNames(h) \subseteq Name
  BY DEF LiveNames
<1>2. \A n \in Name : Live(h, n) => store[h][n].value \in Value
  BY DEF Live, StoreInv, Cell, Record
<1>3. [tag |-> "RLST", names |-> LiveNames(h)] \in Reply
  BY <1>1 DEF Reply
<1>4. \A n \in Name : Live(h, n) => [tag |-> "REGW", value |-> store[h][n].value] \in Reply
  BY <1>2 DEF Reply
<1>5. \A t \in {"ROKW", "RERR", "RDEL", "NONE", "PONG"} : [tag |-> t] \in Reply
  BY DEF Reply
<1> QED BY <1>3, <1>4, <1>5, QuestionFields DEF Answer

LEMMA AskType ==
    ASSUME cli \in Command, NEW n \in Name
    PROVE  Ask(n) \in Question
<1>1. cli.request \in Requests
  BY DEF Command
<1>2. cli.request.verb = "copy" => cli.request.value \in Value
  BY <1>1, GatewayAssumption
<1> QED BY <1>2 DEF Ask, Question

LEMMA TargetIn ==
    ASSUME NEW S, S # {}
    PROVE  Target(S) \in S
BY DEF Target

LEMMA OpenEditFields ==
    ASSUME TypeInv, NEW h \in Host, ui[h] # None
    PROVE  /\ ui[h] \in OpenEdit /\ ui[h].name \in Name /\ ui[h].to \in Name
           /\ ui[h].op \in {"delete", "private", "rename", "rename: delete"}
           /\ ui[h].op # "delete" => ui[h].rec \in LiveRecord
           /\ ui[h].op = "delete" => ui[h].rec \in LiveRecord \cup {Absent}
<1>1. ui[h] \in OpenEdit
  BY DEF TypeInv, EditTypes
<1> QED BY <1>1 DEF OpenEdit

LEMMA LiveIsRecord ==
    ASSUME StoreInv, NEW h \in Host, NEW n \in Name, Live(h, n)
    PROVE  store[h][n] \in LiveRecord
BY DEF StoreInv, Live, Cell, LiveRecord, Record

(* Every step changes the stores in one of the three ways.                  *)
LEMMA NextStore ==
    ASSUME StoreInv, TypeInv, Next
    PROVE  StoreStep
<1>0. /\ \A h \in Host, n \in Name, v \in Value \cup {Gone}, private \in BOOLEAN :
             Write(h, n, v, private) => StoreStep
      /\ UNCHANGED <<now, store, spread>> => StoreStep
  BY DEF StoreStep, Puts
<1>00. \A r \in LiveRecord : r.value \in Value \cup {Gone} /\ r.private \in BOOLEAN
  BY DEF LiveRecord, Record
<1>e. ASSUME NEW h \in Host, NEW f \in Question, Effect(h, f)
      PROVE  StoreStep
  <2>1. CASE EffectWrites(h, f)
    BY <1>0, <2>1, QuestionFields DEF EffectWrites
  <2>2. CASE EffectNone(h, f)
    BY <1>0, <2>2 DEF EffectNone
  <2> QED BY <1>e, <2>1, <2>2, EffectShape
<1>1. ASSUME NEW r \in Requests, Begin(r) PROVE StoreStep
  BY <1>0, <1>1 DEF Begin
<1>2. CASE HandleFrame
  <2>1. conn \in Connection /\ conn.inn # <<>> /\ Effect(conn.to, Head(conn.inn))
    BY <1>2 DEF HandleFrame, TypeInv, ClientTypes
  <2>2. conn.to \in Host /\ Head(conn.inn) \in Question
    BY <2>1 DEF Connection
  <2> QED BY <1>e, <2>1, <2>2
<1>3. CASE ReadFrame
  <2>1. UNCHANGED <<now, store, spread>>
    BY <1>3 DEF ReadFrame, RunRegisterCopy, RunRegisterPaste, RunPut, RunRegisterLs, RunRegisterRm, RunTouch, Reads
  <2> QED BY <1>0, <2>1
<1>4. CASE GiveUp
  BY <1>0, <1>4 DEF GiveUp
<1>5. CASE ReportNoGateway
  BY <1>0, <1>5 DEF ReportNoGateway
<1>6. ASSUME NEW o \in orphans, HandleOrphan(o) PROVE StoreStep
  <2>1. o.to \in Host /\ o.inn \in Seq(Question) /\ o.inn # <<>>
    BY DEF TypeInv, ClientTypes, Orphan
  <2>2. Head(o.inn) \in Question /\ Effect(o.to, Head(o.inn))
    BY <1>6, <2>1 DEF HandleOrphan
  <2> QED BY <1>e, <2>1, <2>2
<1>7. ASSUME NEW o \in orphans, LoseOrphan(o) PROVE StoreStep
  BY <1>0, <1>7 DEF LoseOrphan
<1>8. ASSUME NEW m \in spread, Arrive(m) PROVE StoreStep
  <2>1. Arrived(m)
    BY <1>8 DEF Arrive, Arrived
  <2> QED BY <2>1 DEF StoreStep
<1>9. ASSUME NEW h \in Host, Dial(h) \/ Unreachable(h) \/ Restart(h) PROVE StoreStep
  BY <1>0, <1>9 DEF Dial, Unreachable, Restart
<1>10. ASSUME NEW h \in Host, NEW n \in Name, NEW v \in Value, SaveActivityItemAsRegister(h, n, v)
       PROVE  StoreStep
  BY <1>0, <1>10 DEF SaveActivityItemAsRegister
<1>11. ASSUME NEW h \in Host, NEW op \in {"delete", "private", "rename"}, NEW n \in Name, NEW to \in Name,
              StartEdit(h, op, n, to)
       PROVE  StoreStep
  BY <1>0, <1>11 DEF StartEdit
<1>12. ASSUME NEW h \in Host, DeleteRegisterEverywhere(h) PROVE StoreStep
  <2>1. ui[h].name \in Name
    BY <1>12, OpenEditFields DEF DeleteRegisterEverywhere, In
  <2> QED BY <1>0, <1>12, <2>1 DEF DeleteRegisterEverywhere
<1>13. ASSUME NEW h \in Host, SetRegisterPrivate(h) PROVE StoreStep
  <2>1. ui[h].name \in Name /\ ui[h].rec \in LiveRecord
    BY <1>13, OpenEditFields DEF SetRegisterPrivate, In
  <2>2. ui[h].rec.value \in Value \cup {Gone} /\ (~ui[h].rec.private) \in BOOLEAN
    BY <1>00, <2>1
  <2>3. \/ UNCHANGED <<now, store, spread>>
        \/ Write(h, ui[h].name, ui[h].rec.value, ~ui[h].rec.private)
    BY <1>13 DEF SetRegisterPrivate
  <2> QED BY <1>0, <2>1, <2>2, <2>3
<1>14. ASSUME NEW h \in Host, RenameRegister(h) PROVE StoreStep
  <2>1. ui[h].to \in Name /\ ui[h].rec \in LiveRecord
    BY <1>14, OpenEditFields DEF RenameRegister, In
  <2>2. \/ UNCHANGED <<now, store, spread>>
        \/ Write(h, ui[h].to, ui[h].rec.value, ui[h].rec.private)
    BY <1>14 DEF RenameRegister
  <2> QED BY <1>0, <1>00, <2>1, <2>2
<1>15. ASSUME NEW h \in Host, DeleteOldName(h) PROVE StoreStep
  <2>1. ui[h].name \in Name
    BY <1>15, OpenEditFields DEF DeleteOldName, In
  <2> QED BY <1>0, <1>15, <2>1 DEF DeleteOldName
<1>16. ASSUME NEW h \in Host, TryUndoDelete(h) PROVE StoreStep
  <2>1. undo[h].name \in Name /\ undo[h].rec \in LiveRecord
    BY <1>16 DEF TryUndoDelete, TypeInv, EditTypes, Deleted
  <2>2. Write(h, undo[h].name, undo[h].rec.value, undo[h].rec.private)
    BY <1>16 DEF TryUndoDelete
  <2> QED BY <1>0, <1>00, <2>1, <2>2
<1> QED BY <1>1, <1>2, <1>3, <1>4, <1>5, <1>6, <1>7, <1>8, <1>9, <1>10, <1>11, <1>12, <1>13, <1>14,
           <1>15, <1>16 DEF Next

(* The steps of the command and its connections, and those of the rest.     *)
ClientStep ==
    \/ \E r \in Requests : Begin(r)
    \/ HandleFrame \/ ReadFrame \/ GiveUp \/ ReportNoGateway
    \/ \E o \in orphans : HandleOrphan(o) \/ LoseOrphan(o)
    \/ \E h \in Host : Dial(h) \/ Unreachable(h) \/ Restart(h)

LEMMA ClientOrNot ==
    ASSUME Next
    PROVE  ClientStep \/ UNCHANGED <<clips, cli, conn, orphans, start, wrote, faults>>
<1>1. ASSUME NEW h \in Host,
             \/ \E n \in Name, v \in Value : SaveActivityItemAsRegister(h, n, v)
             \/ \E op \in {"delete", "private", "rename"}, n, to \in Name : StartEdit(h, op, n, to)
             \/ DeleteRegisterEverywhere(h) \/ SetRegisterPrivate(h) \/ RenameRegister(h)
             \/ DeleteOldName(h) \/ TryUndoDelete(h)
      PROVE  UNCHANGED <<clips, cli, conn, orphans, start, wrote, faults>>
  BY <1>1 DEF SaveActivityItemAsRegister, StartEdit, DeleteRegisterEverywhere, SetRegisterPrivate,
              RenameRegister, DeleteOldName, TryUndoDelete, cliVars
<1>2. ASSUME NEW m \in spread, Arrive(m)
      PROVE  UNCHANGED <<clips, cli, conn, orphans, start, wrote, faults>>
  BY <1>2 DEF Arrive, cliVars
<1> QED BY <1>1, <1>2 DEF Next, ClientStep

LEMMA ConnFields ==
    ASSUME TypeInv, conn # None
    PROVE  /\ conn \in Connection /\ conn.to \in Host /\ conn.inn \in Seq(Question) /\ conn.out \in Seq(Reply)
           /\ conn = [to |-> conn.to, inn |-> conn.inn, out |-> conn.out]
BY DEF TypeInv, ClientTypes, Connection

LEMMA CliFields ==
    ASSUME TypeInv, cli # None
    PROVE  /\ cli \in Command /\ cli.request \in Requests /\ cli.tried \subseteq Host
           /\ cli.todo \subseteq Name /\ cli.exit \in ExitCode \cup {None}
BY DEF TypeInv, ClientTypes, Command

LEMMA LeaveTypes ==
    ASSUME TypeInv, conn # None, Leave
    PROVE  conn' = None /\ orphans' \subseteq Orphan
<1>1. conn.inn # <<>> => [to |-> conn.to, inn |-> conn.inn] \in Orphan
  BY ConnFields DEF Orphan
<1>2. (\E i \in DOMAIN conn.inn : conn.inn[i].tag \in {"REGW", "CLIP"}) => conn.inn # <<>>
  OBVIOUS
<1> QED BY <1>1, <1>2 DEF Leave, TypeInv, ClientTypes

(* The frames that come in leave the command as it is but for its targets
   and its exit.                                                            *)
LEMMA ReadTypes ==
    ASSUME TypeInv, ReadFrame
    PROVE  /\ cli' \in Command /\ cli'.request = cli.request /\ conn' \in Connection \cup {None}
           /\ orphans' \subseteq Orphan
<1>1. /\ cli # None /\ conn # None /\ conn.out # <<>>
  BY DEF ReadFrame, RunRegisterCopy, RunRegisterPaste, RunPut, RunRegisterLs, RunRegisterRm, RunTouch,
         Reads, Running
<1>2. /\ cli \in Command /\ cli.request \in Requests /\ cli.tried \subseteq Host /\ cli.todo \subseteq Name
      /\ cli.request.names \subseteq Name
  BY <1>1, CliFields, GatewayAssumption
<1>3. Head(conn.out) \in Reply /\ Tail(conn.out) \in Seq(Reply)
  BY <1>1, ConnFields
<1>4. ASSUME NEW code \in ExitCode, Exit(code)
      PROVE  /\ cli' \in Command /\ cli'.request = cli.request /\ conn' \in Connection \cup {None}
             /\ orphans' \subseteq Orphan
  BY <1>1, <1>2, <1>4, LeaveTypes DEF Exit, Command
<1>5. ASSUME NEW frames \in Seq(Question), Send(frames)
      PROVE  conn' \in Connection /\ orphans' \subseteq Orphan
  <2>1. conn' = [conn EXCEPT !.out = Tail(conn.out), !.inn = conn.inn \o frames]
    BY <1>5 DEF Send
  <2>2. conn.inn \o frames \in Seq(Question)
    BY <1>1, ConnFields
  <2>3. conn' \in Connection
    BY <1>1, <1>3, <2>1, <2>2, ConnFields DEF Connection
  <2> QED BY <1>5, <2>3 DEF Send, TypeInv, ClientTypes
<1>6. ASSUME NEW todo \in SUBSET Name, GoOn(todo)
      PROVE  /\ cli' \in Command /\ cli'.request = cli.request /\ conn' \in Connection \cup {None}
             /\ orphans' \subseteq Orphan
  <2>1. CASE todo = {}
    <3>1. Exit("ok")
      BY <1>6, <2>1 DEF GoOn
    <3> QED BY <1>4, <3>1 DEF ExitCode
  <2>2. CASE todo # {}
    <3>1. Target(todo) \in Name
      BY <2>2, TargetIn
    <3>2. <<Ask(Target(todo))>> \in Seq(Question)
      BY <1>2, <3>1, AskType
    <3>3. cli' = [cli EXCEPT !.todo = todo] /\ Send(<<Ask(Target(todo))>>)
      BY <1>6, <2>2 DEF GoOn
    <3>4. cli' \in Command /\ cli'.request = cli.request
      BY <1>2, <3>3 DEF Command
    <3> QED BY <1>5, <3>2, <3>3, <3>4
  <2> QED BY <2>1, <2>2
<1>7. \A c \in {"ok", "refused", "absent", "no match"} : c \in ExitCode
  BY DEF ExitCode
<1>8. CASE RunRegisterCopy \/ RunRegisterPaste \/ RunRegisterLs
  BY <1>4, <1>7, <1>8 DEF RunRegisterCopy, RunRegisterPaste, RunRegisterLs
<1>9. CASE RunPut
  <2>1. ASSUME Got("REGW"), Deliver(Head(conn.out).value)
        PROVE  cli' = cli /\ conn' \in Connection /\ orphans' \subseteq Orphan
    <3>1. Head(conn.out).value \in Value
      BY <1>3, <2>1, ReplyFields DEF Got
    <3>2. <<Clip(Head(conn.out).value), [tag |-> "PING"]>> \in Seq(Question)
      BY <3>1 DEF Clip, Question
    <3> QED BY <1>5, <2>1, <3>2 DEF Deliver
  <2> QED BY <1>2, <1>4, <1>7, <1>9, <2>1 DEF RunPut
<1>10. PickTargets => /\ cli' \in Command /\ cli'.request = cli.request /\ conn' \in Connection \cup {None}
                      /\ orphans' \subseteq Orphan
  <2>1. Head(conn.out).names \cap cli.request.names \in SUBSET Name
    BY <1>2
  <2> QED BY <1>4, <1>6, <1>7, <2>1 DEF PickTargets
<1>11. Left \in SUBSET Name
  BY <1>2 DEF Left
<1>12. CASE RunRegisterRm
  BY <1>4, <1>6, <1>7, <1>10, <1>11, <1>12 DEF RunRegisterRm, PassOver
<1>13. CASE RunTouch
  BY <1>4, <1>6, <1>7, <1>10, <1>11, <1>13 DEF RunTouch, PassOver
<1> QED BY <1>8, <1>9, <1>12, <1>13 DEF ReadFrame

LEMMA ClientTypesKept ==
    ASSUME StoreInv, TypeInv, Next
    PROVE  ClientTypes'
<1>0. orphans \subseteq Orphan
  BY DEF TypeInv, ClientTypes
<1>1. ASSUME NEW r \in Requests, Begin(r) PROVE ClientTypes'
  <2>1. cli' = [request |-> r, tried |-> {}, todo |-> {}, exit |-> None]
    BY <1>1 DEF Begin
  <2>2. cli' \in Command
    BY <2>1 DEF Command
  <2> QED BY <1>1, <2>2, GatewayAssumption DEF Begin, TypeInv, ClientTypes
<1>2. CASE HandleFrame
  <2>1. conn # None /\ conn.inn # <<>> /\ cli' = cli /\ orphans' = orphans
    BY <1>2 DEF HandleFrame
  <2>2. conn' = [conn EXCEPT !.inn = Tail(conn.inn), !.out = conn.out \o Answer(conn.to, Head(conn.inn))]
    BY <1>2 DEF HandleFrame
  <2>3. Tail(conn.inn) \in Seq(Question) /\ Answer(conn.to, Head(conn.inn)) \in Seq(Reply)
    BY <2>1, ConnFields, AnswerType
  <2>4. conn.out \o Answer(conn.to, Head(conn.inn)) \in Seq(Reply)
    BY <2>1, <2>3, ConnFields
  <2>5. conn' \in Connection
    BY <2>1, <2>2, <2>3, <2>4, ConnFields DEF Connection
  <2> QED BY <2>1, <2>5 DEF TypeInv, ClientTypes
<1>3. CASE ReadFrame
  <2>1. cli' # None
    BY <1>3, ReadTypes, GatewayAssumption
  <2> QED BY <1>3, <2>1, ReadTypes DEF ClientTypes
<1>4. CASE GiveUp
  BY <1>4, LeaveTypes DEF GiveUp, Running, TypeInv, ClientTypes
<1>5. CASE ReportNoGateway
  <2>1. cli # None /\ cli' = [cli EXCEPT !.exit = "unreachable"] /\ conn' = conn /\ orphans' = orphans
    BY <1>5 DEF ReportNoGateway, Running
  <2>2. cli' \in Command
    BY <2>1, CliFields DEF Command, ExitCode
  <2> QED BY <2>1, <2>2, GatewayAssumption DEF TypeInv, ClientTypes
<1>6. ASSUME NEW o \in orphans, HandleOrphan(o) PROVE ClientTypes'
  <2>1. o \in [to : Host, inn : Seq(Question)] /\ o.inn # <<>>
    BY <1>0 DEF Orphan
  <2>2. Tail(o.inn) \in Seq(Question)
    BY <2>1
  <2>3. [o EXCEPT !.inn = Tail(o.inn)] \in [to : Host, inn : Seq(Question)]
        /\ [o EXCEPT !.inn = Tail(o.inn)].inn = Tail(o.inn)
    BY <2>1, <2>2
  <2>4. Tail(o.inn) # <<>> => [o EXCEPT !.inn = Tail(o.inn)] \in Orphan
    BY <2>3 DEF Orphan
  <2>5. /\ orphans' = (orphans \ {o}) \cup
                  (IF Tail(o.inn) = <<>> THEN {} ELSE {[o EXCEPT !.inn = Tail(o.inn)]})
        /\ cli' = cli /\ conn' = conn
    BY <1>6 DEF HandleOrphan
  <2>6. orphans' \subseteq Orphan
    BY <1>0, <2>4, <2>5
  <2> QED BY <2>5, <2>6 DEF TypeInv, ClientTypes
<1>7. ASSUME NEW o \in orphans, LoseOrphan(o) PROVE ClientTypes'
  BY <1>7 DEF LoseOrphan, TypeInv, ClientTypes
<1>8. ASSUME NEW h \in Host, Dial(h) PROVE ClientTypes'
  <2>1. cli # None
    BY <1>8 DEF Dial, Running
  <2>2. cli.request.names \subseteq Name /\ (~Lists => cli.request.names # {})
    BY <2>1, CliFields, GatewayAssumption DEF Lists
  <2>3. ~Lists => Ask(Target(cli.request.names)) \in Question
    BY <2>1, <2>2, TargetIn, AskType, CliFields
  <2>4. [tag |-> "RLST"] \in Question
    BY DEF Question
  <2>5. conn' \in Connection
    BY <1>8, <2>3, <2>4 DEF Dial, Connection
  <2>6. cli' = [cli EXCEPT !.tried = cli.tried \cup {h}, !.todo = IF Lists THEN {} ELSE cli.request.names]
    BY <1>8 DEF Dial
  <2>7. cli' \in Command
    BY <2>1, <2>2, <2>6, CliFields DEF Command
  <2> QED BY <1>8, <2>5, <2>7, GatewayAssumption DEF Dial, TypeInv, ClientTypes
<1>9. ASSUME NEW h \in Host, Unreachable(h) PROVE ClientTypes'
  <2>1. cli # None /\ cli' = [cli EXCEPT !.tried = cli.tried \cup {h}] /\ conn' = conn /\ orphans' = orphans
    BY <1>9 DEF Unreachable, Running
  <2>2. cli' \in Command
    BY <2>1, CliFields DEF Command
  <2> QED BY <2>1, <2>2, GatewayAssumption DEF TypeInv, ClientTypes
<1>10. ASSUME NEW h \in Host, Restart(h) PROVE ClientTypes'
  BY <1>10 DEF Restart, TypeInv, ClientTypes
<1>11. CASE UNCHANGED <<clips, cli, conn, orphans, start, wrote, faults>>
  BY <1>11 DEF TypeInv, ClientTypes
<1> QED BY <1>1, <1>2, <1>3, <1>4, <1>5, <1>6, <1>7, <1>8, <1>9, <1>10, <1>11, ClientOrNot DEF ClientStep

(* What the history keeps.                                                 *)
HistoryStep ==
    \/ UNCHANGED <<clips, wrote, start>>
    \/ start' = store /\ UNCHANGED <<clips, wrote>> /\ cli = None
    \/ start' = start /\ \E h \in Host, f \in Question : EffectWrites(h, f) \/ EffectNone(h, f)

LEMMA NextHistory ==
    ASSUME TypeInv, Next
    PROVE  HistoryStep
<1>1. CASE HandleFrame
  <2>1. conn # None /\ conn.inn # <<>> /\ Effect(conn.to, Head(conn.inn)) /\ start' = start
    BY <1>1 DEF HandleFrame
  <2>2. conn.to \in Host /\ Head(conn.inn) \in Question
    BY <2>1, ConnFields
  <2> QED BY <2>1, <2>2, EffectShape DEF HistoryStep
<1>2. ASSUME NEW o \in orphans, HandleOrphan(o) PROVE HistoryStep
  <2>1. o.to \in Host /\ o.inn \in Seq(Question) /\ o.inn # <<>>
    BY DEF TypeInv, ClientTypes, Orphan
  <2>2. Head(o.inn) \in Question /\ Effect(o.to, Head(o.inn)) /\ start' = start
    BY <1>2, <2>1 DEF HandleOrphan
  <2> QED BY <2>1, <2>2, EffectShape DEF HistoryStep
<1>3. CASE ReadFrame
  BY <1>3 DEF ReadFrame, RunRegisterCopy, RunRegisterPaste, RunPut, RunRegisterLs, RunRegisterRm, RunTouch,
              Reads, HistoryStep
<1>4. ASSUME NEW r \in Requests, Begin(r) PROVE HistoryStep
  BY <1>4 DEF Begin, HistoryStep
<1>5. ASSUME NEW o \in orphans, LoseOrphan(o) PROVE HistoryStep
  BY <1>5 DEF LoseOrphan, HistoryStep
<1>6. ASSUME NEW h \in Host, Dial(h) \/ Unreachable(h) \/ Restart(h) PROVE HistoryStep
  BY <1>6 DEF Dial, Unreachable, Restart, HistoryStep
<1>7. CASE GiveUp \/ ReportNoGateway
  BY <1>7 DEF GiveUp, ReportNoGateway, HistoryStep
<1>8. CASE UNCHANGED <<clips, cli, conn, orphans, start, wrote, faults>>
  BY <1>8 DEF HistoryStep
<1> QED BY <1>1, <1>2, <1>3, <1>4, <1>5, <1>6, <1>7, <1>8, ClientOrNot DEF ClientStep

LEMMA HistoryTypesKept ==
    ASSUME StoreInv, StoreInv', TypeInv, HistoryStep
    PROVE  HistoryTypes'
<1>1. ASSUME NEW h \in Host, NEW f \in Question, EffectWrites(h, f), start' = start
      PROVE  HistoryTypes'
  <2>1. f.name \in Name /\ now' \in Nat
    BY <1>1, QuestionFields DEF EffectWrites, StoreInv
  <2>2. [name |-> f.name, stamp |-> now'] \in Put
    BY <2>1 DEF Put
  <2> QED BY <1>1, <2>2 DEF EffectWrites, TypeInv, HistoryTypes
<1>2. ASSUME NEW h \in Host, NEW f \in Question, EffectNone(h, f), start' = start
      PROVE  HistoryTypes'
  BY <1>2, QuestionFields DEF EffectNone, TypeInv, HistoryTypes
<1> QED BY <1>1, <1>2 DEF HistoryStep, TypeInv, HistoryTypes, StoreInv

LEMMA EditTypesKept ==
    ASSUME StoreInv, TypeInv, Next
    PROVE  EditTypes'
<1>0. \A h \in Host : (Done(h) => ui' \in [Host -> OpenEdit \cup {None}])
                   /\ (Disarm(h) => undo' \in [Host -> Deleted \cup {None}])
  BY DEF Done, Disarm, TypeInv, EditTypes
<1>1. UNCHANGED uiVars => EditTypes'
  BY DEF uiVars, TypeInv, EditTypes
<1>00. ui \in [Host -> OpenEdit \cup {None}] /\ undo \in [Host -> Deleted \cup {None}]
  BY DEF TypeInv, EditTypes
<1>2. ASSUME NEW h \in Host, NEW n \in Name, NEW v \in Value, SaveActivityItemAsRegister(h, n, v)
      PROVE  EditTypes'
  BY <1>0, <1>00, <1>2 DEF SaveActivityItemAsRegister, EditTypes
<1>3. ASSUME NEW h \in Host, NEW op \in {"delete", "private", "rename"}, NEW n \in Name, NEW to \in Name,
             StartEdit(h, op, n, to)
      PROVE  EditTypes'
  <2> DEFINE rec == IF Live(h, n) THEN store[h][n] ELSE Absent
             edit == [op |-> op, name |-> n, to |-> to, rec |-> rec]
  <2>1. ui' = [ui EXCEPT ![h] = edit] /\ undo' = undo /\ (op # "delete" => Live(h, n))
    BY <1>3 DEF StartEdit
  <2>2. rec \in LiveRecord \cup {Absent} /\ (op # "delete" => rec \in LiveRecord)
    BY <2>1, LiveIsRecord
  <2>3. edit \in OpenEdit
    BY <2>2 DEF OpenEdit
  <2> HIDE DEF edit
  <2> QED BY <1>00, <2>1, <2>3 DEF EditTypes
<1>4. ASSUME NEW h \in Host, DeleteRegisterEverywhere(h) PROVE EditTypes'
  <2>1. ui[h] # None /\ ui[h].op = "delete" /\ ui' \in [Host -> OpenEdit \cup {None}]
    BY <1>0, <1>4 DEF DeleteRegisterEverywhere, In
  <2>2. ui[h].name \in Name /\ ui[h].rec \in LiveRecord \cup {Absent}
    BY <2>1, OpenEditFields
  <2>3. \/ undo' = undo
        \/ ui[h].rec # Absent /\ undo' = [undo EXCEPT ![h] = [name |-> ui[h].name, rec |-> ui[h].rec]]
    BY <1>4 DEF DeleteRegisterEverywhere
  <2>4. ui[h].rec # Absent => [name |-> ui[h].name, rec |-> ui[h].rec] \in Deleted
    BY <2>2 DEF Deleted
  <2> QED BY <1>00, <2>1, <2>3, <2>4 DEF EditTypes
<1>5. ASSUME NEW h \in Host, SetRegisterPrivate(h) PROVE EditTypes'
  BY <1>0, <1>00, <1>5 DEF SetRegisterPrivate, EditTypes
<1>6. ASSUME NEW h \in Host, RenameRegister(h) PROVE EditTypes'
  <2>1. ui[h] # None /\ ui[h].op = "rename" /\ undo' = undo
        /\ (Done(h) \/ ui' = [ui EXCEPT ![h].op = "rename: delete"])
    BY <1>6 DEF RenameRegister, In
  <2>2. ui[h] \in [op : {"private", "rename", "rename: delete"}, name : Name, to : Name, rec : LiveRecord]
    BY <2>1, OpenEditFields DEF OpenEdit
  <2>3. [ui[h] EXCEPT !.op = "rename: delete"]
          \in [op : {"private", "rename", "rename: delete"}, name : Name, to : Name, rec : LiveRecord]
    BY <2>2
  <2>4. [ui[h] EXCEPT !.op = "rename: delete"] \in OpenEdit
    BY <2>3 DEF OpenEdit
  <2> QED BY <1>0, <1>00, <2>1, <2>4 DEF EditTypes
<1>7. ASSUME NEW h \in Host, DeleteOldName(h) PROVE EditTypes'
  BY <1>0, <1>7 DEF DeleteOldName, EditTypes
<1>8. ASSUME NEW h \in Host, TryUndoDelete(h) PROVE EditTypes'
  BY <1>0, <1>00, <1>8 DEF TryUndoDelete, EditTypes
<1>9. ASSUME NEW h \in Host, Restart(h) PROVE EditTypes'
  BY <1>0, <1>9 DEF Restart, EditTypes
<1>10. ASSUME NEW h \in Host, Dial(h) \/ Unreachable(h) PROVE EditTypes'
  BY <1>1, <1>10 DEF Dial, Unreachable
<1>11. CASE HandleFrame \/ GiveUp \/ ReportNoGateway
  BY <1>1, <1>11 DEF HandleFrame, GiveUp, ReportNoGateway
<1>12. CASE ReadFrame
  BY <1>1, <1>12 DEF ReadFrame, RunRegisterCopy, RunRegisterPaste, RunPut, RunRegisterLs, RunRegisterRm,
                     RunTouch, Reads
<1>13. ASSUME NEW o \in orphans, HandleOrphan(o) \/ LoseOrphan(o) PROVE EditTypes'
  BY <1>1, <1>13 DEF HandleOrphan, LoseOrphan
<1>14. ASSUME NEW m \in spread, Arrive(m) PROVE EditTypes'
  BY <1>1, <1>14 DEF Arrive
<1>15. ASSUME NEW r \in Requests, Begin(r) PROVE EditTypes'
  BY <1>1, <1>15 DEF Begin
<1> QED BY <1>2, <1>3, <1>4, <1>5, <1>6, <1>7, <1>8, <1>9, <1>10, <1>11, <1>12, <1>13, <1>14, <1>15 DEF Next

(* What the command's frames wrote, all daemons have or will be brought.    *)
WroteInv ==
    \A i \in DOMAIN wrote : \A p \in Host : Covered(wrote[i].name, wrote[i].stamp, p)

LEMMA WroteFields ==
    ASSUME TypeInv, NEW i \in DOMAIN wrote
    PROVE  wrote[i].name \in Name /\ wrote[i].stamp \in Nat
<1>1. wrote \in Seq(Put) /\ i \in 1 .. Len(wrote)
  BY DEF TypeInv, HistoryTypes
<1>2. wrote[i] \in Put
  BY <1>1
<1> QED BY <1>2 DEF Put

(* A frame that writes adds its name and stamp at the end.                  *)
LEMMA WroteThis ==
    ASSUME TypeInv, NEW h \in Host, NEW f \in Question, EffectWrites(h, f)
    PROVE  /\ DOMAIN wrote' = DOMAIN wrote \cup {Len(wrote) + 1} /\ Len(wrote) + 1 \notin DOMAIN wrote
           /\ \A i \in DOMAIN wrote : wrote'[i] = wrote[i]
           /\ wrote'[Len(wrote) + 1] = [name |-> f.name, stamp |-> now']
<1> DEFINE e == [name |-> f.name, stamp |-> now']
<1>1. wrote' = Append(wrote, e) /\ wrote \in Seq(Put)
  BY DEF EffectWrites, TypeInv, HistoryTypes
<1> HIDE DEF e
<1>2. DOMAIN wrote = 1 .. Len(wrote) /\ Len(wrote) \in Nat /\ DOMAIN wrote' = 1 .. Len(wrote) + 1
  BY <1>1
<1>3. wrote'[Len(wrote) + 1] = e /\ \A i \in 1 .. Len(wrote) : wrote'[i] = wrote[i]
  BY <1>1, <1>2
<1> QED BY <1>2, <1>3 DEF e

LEMMA WroteGrows ==
    ASSUME TypeInv, HistoryStep
    PROVE  \/ wrote' = wrote
           \/ \E h \in Host, f \in Question :
                /\ EffectWrites(h, f) /\ DOMAIN wrote' = DOMAIN wrote \cup {Len(wrote) + 1}
                /\ \A i \in DOMAIN wrote : wrote'[i] = wrote[i]
                /\ wrote'[Len(wrote) + 1] = [name |-> f.name, stamp |-> now']
<1>1. ASSUME NEW h \in Host, NEW f \in Question, EffectNone(h, f)
      PROVE  wrote' = wrote
  BY <1>1 DEF EffectNone
<1> QED BY <1>1, WroteThis DEF HistoryStep

LEMMA WroteKept ==
    ASSUME StoreInv, StoreStep, TypeInv, HistoryStep, WroteInv
    PROVE  WroteInv'
<1>1. ASSUME NEW i \in DOMAIN wrote, NEW p \in Host
      PROVE  Covered(wrote[i].name, wrote[i].stamp, p) /\ wrote[i].name \in Name /\ wrote[i].stamp \in Nat
  BY WroteFields DEF WroteInv
<1>2. ASSUME NEW n \in Name, NEW s \in Nat, NEW p \in Host, Covered(n, s, p)
      PROVE  Covered(n, s, p)'
  BY <1>2, CoveredKept
<1>3. CASE wrote' = wrote
  <2>1. ASSUME NEW i \in DOMAIN wrote, NEW p \in Host
        PROVE  Covered(wrote[i].name, wrote[i].stamp, p)'
    <3>1. PICK n \in Name, s \in Nat : n = wrote[i].name /\ s = wrote[i].stamp
      BY <1>1
    <3>2. Covered(n, s, p)'
      BY <1>1, <1>2, <3>1
    <3> QED BY <1>3, <3>1, <3>2 DEF Covered, Stamp
  <2> QED BY <1>3, <2>1 DEF WroteInv
<1>4. ASSUME NEW h \in Host, NEW f \in Question, EffectWrites(h, f),
             DOMAIN wrote' = DOMAIN wrote \cup {Len(wrote) + 1},
             \A i \in DOMAIN wrote : wrote'[i] = wrote[i],
             wrote'[Len(wrote) + 1] = [name |-> f.name, stamp |-> now']
      PROVE  WroteInv'
  <2>1. ASSUME NEW i \in DOMAIN wrote', NEW p \in Host
        PROVE  Covered(wrote[i].name, wrote[i].stamp, p)'
    <3>1. CASE i \in DOMAIN wrote
      <4>1. PICK n \in Name, s \in Nat : n = wrote[i].name /\ s = wrote[i].stamp
        BY <1>1, <3>1
      <4>2. Covered(n, s, p)'
        BY <1>1, <1>2, <3>1, <4>1
      <4>3. wrote'[i] = wrote[i]
        BY <1>4, <3>1
      <4> QED BY <4>1, <4>2, <4>3 DEF Covered, Stamp
    <3>2. CASE i = Len(wrote) + 1
      <4>1. f.name \in Name /\ f.value \in Value \cup {Gone} /\ Puts(h, f.name, f.value)
        BY <1>4, QuestionFields DEF EffectWrites, Puts
      <4>2. PICK n \in Name, s \in Nat : n = f.name /\ s = now + 1
        BY <4>1 DEF StoreInv
      <4>3. Covered(n, s, p)'
        BY <4>1, <4>2, WriteCovers
      <4>4. wrote'[i].name = n /\ wrote'[i].stamp = s
        BY <1>4, <3>2, <4>2 DEF EffectWrites, Write
      <4> QED BY <4>3, <4>4 DEF Covered, Stamp
    <3> QED BY <1>4, <3>1, <3>2
  <2> QED BY <2>1 DEF WroteInv
<1> QED BY <1>3, <1>4, WroteGrows

-----------------------------------------------------------------------------
(* A rename.  Where it has got to says which of the two names has the value:
   the old one until the new one is written, then the new one.              *)

RenameEdit == [host : Host, name : Name, to : Name, rec : LiveRecord, disturbed : BOOLEAN]

Holds(n) == Live(rename.host, n) /\ store[rename.host][n].value = rename.rec.value
Doing == /\ ui[rename.host].name = rename.name /\ ui[rename.host].to = rename.to
         /\ ui[rename.host].rec = rename.rec

Renaming == In(rename.host, "rename")
Renamed  == In(rename.host, "rename: delete")

RenameTypes == rename = None \/ (rename \in RenameEdit /\ rename.name # rename.to)
RenameHeld ==
    rename # None /\ ~rename.disturbed =>
        /\ Renaming => Doing /\ Holds(rename.name)
        /\ Renamed => Doing /\ Holds(rename.to)
        /\ Holds(rename.name) \/ Holds(rename.to)

RenameInv == RenameTypes /\ RenameHeld

(* A step elsewhere.                                                        *)
LEMMA RenameFrame ==
    ASSUME RenameInv, rename' = rename,
           rename # None =>
              /\ store'[rename.host][rename.name] = store[rename.host][rename.name]
              /\ store'[rename.host][rename.to] = store[rename.host][rename.to]
              /\ ui'[rename.host] = ui[rename.host] \/ (~Renaming' /\ ~Renamed')
    PROVE  RenameInv'
<1>1. RenameTypes'
  BY DEF RenameInv, RenameTypes
<1>2. ASSUME rename # None, ~rename.disturbed
      PROVE  /\ Holds(rename.name)' <=> Holds(rename.name)
             /\ Holds(rename.to)' <=> Holds(rename.to)
  BY <1>2 DEF Holds, Live
<1>3. ASSUME rename # None, ui'[rename.host] = ui[rename.host]
      PROVE  (Renaming' <=> Renaming) /\ (Renamed' <=> Renamed) /\ (Doing' <=> Doing)
  BY <1>3 DEF Renaming, Renamed, Doing, In
<1> QED BY <1>1, <1>2, <1>3 DEF RenameInv, RenameHeld

LEMMA DisturbShape ==
    ASSUME RenameTypes, NEW h \in Host, NEW n \in Name, Disturb(h, n)
    PROVE  \/ RenameTypes' /\ rename'.disturbed
           \/ rename' = rename /\ (rename = None \/ h # rename.host \/ n \notin {rename.name, rename.to})
<1>1. CASE rename # None /\ h = rename.host /\ n \in {rename.name, rename.to}
  <2>1. rename \in RenameEdit /\ rename.name # rename.to /\ rename' = [rename EXCEPT !.disturbed = TRUE]
    BY <1>1 DEF RenameTypes, Disturb
  <2>2. /\ rename' \in RenameEdit /\ rename'.disturbed
        /\ rename'.name = rename.name /\ rename'.to = rename.to
    BY <2>1 DEF RenameEdit
  <2> QED BY <2>1, <2>2 DEF RenameTypes
<1>2. CASE ~(rename # None /\ h = rename.host /\ n \in {rename.name, rename.to})
  BY <1>2 DEF Disturb
<1> QED BY <1>1, <1>2

(* A write that counts as somebody else's.                                  *)
LEMMA RenameDisturbed ==
    ASSUME StoreInv, RenameInv, NEW h \in Host, NEW n \in Name, Disturb(h, n),
           \A p \in Host, k \in Name : p # h \/ k # n => store'[p][k] = store[p][k],
           rename # None => ui'[rename.host] = ui[rename.host] \/ (~Renaming' /\ ~Renamed')
    PROVE  RenameInv'
<1>1. CASE RenameTypes' /\ rename'.disturbed
  BY <1>1 DEF RenameInv, RenameHeld
<1>2. CASE rename' = rename /\ (rename = None \/ h # rename.host \/ n \notin {rename.name, rename.to})
  <2>1. rename # None => rename.host \in Host /\ rename.name \in Name /\ rename.to \in Name
    BY DEF RenameInv, RenameTypes, RenameEdit
  <2> QED BY <1>2, <2>1, RenameFrame
<1> QED BY <1>1, <1>2, DisturbShape DEF RenameInv

LEMMA EditsElsewhere ==
    ASSUME TypeInv, NEW h \in Host, NEW g \in Host,
           \/ ui' = ui \/ Done(h)
           \/ \E e : ui' = [ui EXCEPT ![h] = e] /\ e.op \notin {"rename", "rename: delete"}
    PROVE  \/ ui'[g] = ui[g]
           \/ ~In(g, "rename")' /\ ~In(g, "rename: delete")'
<1>1. ui \in [Host -> OpenEdit \cup {None}]
  BY DEF TypeInv, EditTypes
<1> QED BY <1>1 DEF Done, In

LEMMA WriteElsewhere ==
    ASSUME StoreInv, NEW h \in Host, NEW n \in Name, NEW v \in Value \cup {Gone},
           NEW private \in BOOLEAN, Write(h, n, v, private)
    PROVE  /\ \A p \in Host, k \in Name : p # h \/ k # n => store'[p][k] = store[p][k]
           /\ store'[h][n] # Absent /\ store'[h][n].value = v
<1>1. OneCell(h, n, v)
  BY WriteShape DEF Puts
<1> QED BY <1>1, CellStamp DEF OneCell, Cell

LEMMA RenameKept ==
    ASSUME StoreInv, TypeInv, RenameInv, Next
    PROVE  RenameInv'
<1>0. rename # None => /\ rename.host \in Host /\ rename.name \in Name /\ rename.to \in Name
                       /\ rename.name # rename.to /\ rename.rec \in LiveRecord
  BY DEF RenameInv, RenameTypes, RenameEdit
<1>00. \A r \in LiveRecord : r.value \in Value /\ r.private \in BOOLEAN
  BY DEF LiveRecord, Record
<1>1. ASSUME UNCHANGED <<store, rename, ui>> PROVE RenameInv'
  BY <1>1, RenameFrame
<1>2. ASSUME NEW h \in Host, NEW f \in Question, Effect(h, f), ui' = ui PROVE RenameInv'
  <2>1. CASE EffectWrites(h, f)
    <3>1. f.name \in Name /\ f.value \in Value \cup {Gone} /\ Disturb(h, f.name)
          /\ Write(h, f.name, f.value, FALSE)
      BY <2>1, QuestionFields DEF EffectWrites
    <3>2. \A p \in Host, k \in Name : p # h \/ k # f.name => store'[p][k] = store[p][k]
      BY <3>1, WriteElsewhere
    <3> QED BY <1>2, <3>1, <3>2, RenameDisturbed
  <2>2. CASE EffectNone(h, f)
    BY <1>1, <1>2, <2>2 DEF EffectNone
  <2> QED BY <1>2, <2>1, <2>2, EffectShape
<1>3. CASE HandleFrame
  <2>1. conn # None /\ conn.inn # <<>> /\ Effect(conn.to, Head(conn.inn)) /\ ui' = ui
    BY <1>3 DEF HandleFrame, uiVars
  <2>2. conn.to \in Host /\ Head(conn.inn) \in Question
    BY <2>1, ConnFields
  <2> QED BY <1>2, <2>1, <2>2
<1>4. ASSUME NEW o \in orphans, HandleOrphan(o) PROVE RenameInv'
  <2>1. o.to \in Host /\ o.inn \in Seq(Question) /\ o.inn # <<>>
    BY DEF TypeInv, ClientTypes, Orphan
  <2>2. Head(o.inn) \in Question /\ Effect(o.to, Head(o.inn)) /\ ui' = ui
    BY <1>4, <2>1 DEF HandleOrphan, uiVars
  <2> QED BY <1>2, <2>1, <2>2
<1>5. ASSUME NEW m \in spread, Arrive(m) PROVE RenameInv'
  <2>1. m.host \in Host /\ m.name \in Name /\ ui' = ui
    BY <1>5 DEF Arrive, uiVars, StoreInv, Message
  <2>2. CASE m.rec.stamp > Stamp(store[m.host][m.name])
    <3>1. store' = [store EXCEPT ![m.host][m.name] = m.rec] /\ Disturb(m.host, m.name)
      BY <1>5, <2>2 DEF Arrive
    <3>2. \A p \in Host, k \in Name : p # m.host \/ k # m.name => store'[p][k] = store[p][k]
      BY <2>1, <3>1 DEF StoreInv
    <3> QED BY <2>1, <3>1, <3>2, RenameDisturbed
  <2>3. CASE ~(m.rec.stamp > Stamp(store[m.host][m.name]))
    BY <1>1, <1>5, <2>1, <2>3 DEF Arrive
  <2> QED BY <2>2, <2>3
<1>6. ASSUME NEW h \in Host, NEW n \in Name, NEW v \in Value, SaveActivityItemAsRegister(h, n, v)
      PROVE  RenameInv'
  <2>1. Write(h, n, v, FALSE) /\ Disturb(h, n) /\ ui' = ui
    BY <1>6 DEF SaveActivityItemAsRegister
  <2>2. \A p \in Host, k \in Name : p # h \/ k # n => store'[p][k] = store[p][k]
    BY <2>1, WriteElsewhere
  <2> QED BY <2>1, <2>2, RenameDisturbed
<1>7. ASSUME NEW h \in Host, NEW op \in {"delete", "private", "rename"}, NEW n \in Name, NEW to \in Name,
             StartEdit(h, op, n, to)
      PROVE  RenameInv'
  <2> DEFINE rec == IF Live(h, n) THEN store[h][n] ELSE Absent
             edit == [op |-> op, name |-> n, to |-> to, rec |-> rec]
  <2>1. /\ ui[h] = None /\ ui' = [ui EXCEPT ![h] = edit] /\ store' = store
        /\ op # "delete" => Live(h, n)
        /\ op = "rename" <=> to # n
        /\ rename' = IF op # "rename" THEN rename
                     ELSE [host |-> h, name |-> n, to |-> to, rec |-> rec, disturbed |-> FALSE]
    BY <1>7 DEF StartEdit, Edit
  <2>2. CASE op # "rename"
    <3>1. edit.op \notin {"rename", "rename: delete"}
      BY <2>2
    <3>2. \A g \in Host : ui'[g] = ui[g] \/ (~In(g, "rename")' /\ ~In(g, "rename: delete")')
      <4> HIDE DEF edit
      <4>1. \E e : ui' = [ui EXCEPT ![h] = e] /\ e.op \notin {"rename", "rename: delete"}
        BY <2>1, <3>1
      <4> QED BY <4>1, EditsElsewhere
    <3>3. rename # None => ui'[rename.host] = ui[rename.host] \/ (~Renaming' /\ ~Renamed')
      BY <1>0, <2>1, <2>2, <3>2 DEF Renaming, Renamed, In
    <3> QED BY <2>1, <2>2, <3>3, RenameFrame
  <2>3. CASE op = "rename"
    <3>1. Live(h, n) /\ rec = store[h][n] /\ rec \in LiveRecord /\ n # to
      BY <2>1, <2>3, LiveIsRecord
    <3>2. /\ rename' = [host |-> h, name |-> n, to |-> to, rec |-> rec, disturbed |-> FALSE]
          /\ ui'[h] = edit
      BY <2>1, <2>3 DEF TypeInv, EditTypes
    <3>3. RenameTypes'
      BY <3>1, <3>2 DEF RenameTypes, RenameEdit
    <3>4. Holds(rename.name)'
      BY <2>1, <3>1, <3>2 DEF Holds, Live
    <3>5. Doing' /\ ~Renamed'
      <4>1. rename'.host = h /\ rename'.name = n /\ rename'.to = to /\ rename'.rec = rec
        BY <3>2
      <4>2. ui'[h].op = op /\ ui'[h].name = n /\ ui'[h].to = to /\ ui'[h].rec = rec
        BY <3>2
      <4> QED BY <2>3, <4>1, <4>2 DEF Doing, Renamed, In
    <3> QED BY <3>3, <3>4, <3>5 DEF RenameInv, RenameHeld
  <2> QED BY <2>2, <2>3
<1>8. ASSUME NEW h \in Host, DeleteRegisterEverywhere(h) \/ SetRegisterPrivate(h) PROVE RenameInv'
  <2>1. Done(h) /\ ui[h].name \in Name /\ ui[h] # None
    BY <1>8, OpenEditFields DEF DeleteRegisterEverywhere, SetRegisterPrivate, In
  <2>2. rename # None => ui'[rename.host] = ui[rename.host] \/ (~Renaming' /\ ~Renamed')
        \/ rename' # rename
    BY <1>0, <2>1, EditsElsewhere DEF Renaming, Renamed, In
  <2>3. CASE UNCHANGED <<store, rename>>
    BY <2>2, <2>3, RenameFrame
  <2>4. ASSUME NEW v \in Value \cup {Gone}, NEW private \in BOOLEAN,
               Write(h, ui[h].name, v, private), Disturb(h, ui[h].name)
        PROVE  RenameInv'
    <3> DEFINE n == ui[h].name
    <3>1. /\ n \in Name /\ Disturb(h, n)
          /\ \A p \in Host, k \in Name : p # h \/ k # n => store'[p][k] = store[p][k]
      BY <2>1, <2>4, WriteElsewhere
    <3> HIDE DEF n
    <3>2. CASE RenameTypes' /\ rename'.disturbed
      BY <3>2 DEF RenameInv, RenameHeld
    <3>3. CASE rename' = rename /\ (rename = None \/ h # rename.host \/ n \notin {rename.name, rename.to})
      BY <1>0, <2>2, <3>1, <3>3, RenameFrame
    <3> QED BY <3>1, <3>2, <3>3, DisturbShape DEF RenameInv
  <2>5. CASE DeleteRegisterEverywhere(h)
    BY <2>3, <2>4, <2>5 DEF DeleteRegisterEverywhere
  <2>6. CASE SetRegisterPrivate(h)
    <3>1. ui[h].rec.value \in Value /\ (~ui[h].rec.private) \in BOOLEAN
      BY <1>00, <2>1, <2>6, OpenEditFields DEF SetRegisterPrivate, In
    <3>2. \/ UNCHANGED <<store, rename>>
          \/ /\ Write(h, ui[h].name, ui[h].rec.value, ~ui[h].rec.private)
             /\ Disturb(h, ui[h].name)
      BY <2>6 DEF SetRegisterPrivate
    <3> QED BY <2>3, <2>4, <3>1, <3>2
  <2> QED BY <1>8, <2>5, <2>6
<1>9. ASSUME NEW h \in Host, RenameRegister(h) PROVE RenameInv'
  <2>1. /\ ui[h] # None /\ ui[h].op = "rename" /\ ui[h].to \in Name /\ ui[h].rec \in LiveRecord
        /\ ui[h].rec.value \in Value /\ ui[h].rec.private \in BOOLEAN /\ rename' = rename
    BY <1>00, <1>9, OpenEditFields DEF RenameRegister, In
  <2>2. CASE Done(h) /\ store' = store
    <3>1. rename # None => ui'[rename.host] = ui[rename.host] \/ (~Renaming' /\ ~Renamed')
      BY <1>0, <2>1, <2>2, EditsElsewhere DEF Renaming, Renamed, In
    <3> QED BY <2>1, <2>2, <3>1, RenameFrame
  <2>3. CASE /\ Write(h, ui[h].to, ui[h].rec.value, ui[h].rec.private)
             /\ ui' = [ui EXCEPT ![h].op = "rename: delete"]
    <3>1. /\ \A p \in Host, k \in Name : p # h \/ k # ui[h].to => store'[p][k] = store[p][k]
          /\ store'[h][ui[h].to] # Absent /\ store'[h][ui[h].to].value = ui[h].rec.value
      <4>1. PICK v \in Value, private \in BOOLEAN : v = ui[h].rec.value /\ private = ui[h].rec.private
        BY <2>1
      <4>2. Write(h, ui[h].to, v, private)
        BY <2>3, <4>1
      <4> QED BY <2>1, <4>1, <4>2, WriteElsewhere
    <3>2. CASE rename = None \/ h # rename.host
      <4>1. rename # None => ui'[rename.host] = ui[rename.host]
        BY <1>0, <2>3, <3>2 DEF TypeInv, EditTypes
      <4> QED BY <1>0, <2>1, <3>1, <3>2, <4>1, RenameFrame
    <3>3. CASE rename # None /\ h = rename.host
      <4>1. RenameTypes'
        BY <2>1 DEF RenameInv, RenameTypes
      <4>2. ASSUME ~rename.disturbed
            PROVE  Doing' /\ Holds(rename.to)' /\ ~Renaming'
        <5>1. Doing
          BY <2>1, <3>3, <4>2 DEF RenameInv, RenameHeld, Renaming, In
        <5>2. /\ ui'[h].op = "rename: delete" /\ ui'[h].name = ui[h].name /\ ui'[h].to = ui[h].to
              /\ ui'[h].rec = ui[h].rec
          <6>1. ui'[h] = [ui[h] EXCEPT !.op = "rename: delete"]
            BY <2>3 DEF TypeInv, EditTypes
          <6>2. ui[h] \in [op : {"private", "rename", "rename: delete"}, name : Name, to : Name, rec : LiveRecord]
            BY <2>1, OpenEditFields DEF OpenEdit
          <6> QED BY <6>1, <6>2
        <5>3. Doing' /\ ~Renaming'
          BY <2>1, <3>3, <5>1, <5>2 DEF Doing, Renaming, In
        <5>4. Holds(rename.to)'
          <6>1. ui[h].to = rename.to /\ ui[h].rec = rename.rec /\ rename.rec.value # Gone
            BY <1>0, <3>3, <5>1 DEF Doing, LiveRecord
          <6> QED BY <2>1, <3>1, <3>3, <6>1 DEF Holds, Live
        <5> QED BY <5>3, <5>4
      <4> QED BY <2>1, <4>1, <4>2 DEF RenameInv, RenameHeld
    <3> QED BY <3>2, <3>3
  <2> QED BY <1>9, <2>2, <2>3 DEF RenameRegister
<1>10. ASSUME NEW h \in Host, DeleteOldName(h) PROVE RenameInv'
  <2>1. ui[h] # None /\ ui[h].op = "rename: delete" /\ ui[h].name \in Name /\ Done(h) /\ rename' = rename
    BY <1>10, OpenEditFields DEF DeleteOldName, In
  <2>2. \A p \in Host, k \in Name : p # h \/ k # ui[h].name => store'[p][k] = store[p][k]
    <3>1. CASE Write(h, ui[h].name, Gone, FALSE)
      BY <2>1, <3>1, WriteElsewhere
    <3> QED BY <1>10, <3>1 DEF DeleteOldName
  <2>3. CASE rename = None \/ h # rename.host
    <3>1. rename # None => ui'[rename.host] = ui[rename.host]
      BY <1>0, <2>1, <2>3 DEF Done, TypeInv, EditTypes
    <3> QED BY <1>0, <2>1, <2>2, <2>3, <3>1, RenameFrame
  <2>4. CASE rename # None /\ h = rename.host
    <3>1. RenameTypes'
      BY <2>1 DEF RenameInv, RenameTypes
    <3>2. ~Renaming' /\ ~Renamed'
      BY <2>1, <2>4 DEF Done, Renaming, Renamed, In, TypeInv, EditTypes
    <3>3. ASSUME ~rename.disturbed
          PROVE  Holds(rename.to)'
      <4>1. Doing /\ Holds(rename.to)
        BY <2>1, <2>4, <3>3 DEF RenameInv, RenameHeld, Renamed, In
      <4>2. store'[h][rename.to] = store[h][rename.to]
        BY <1>0, <2>2, <2>4, <4>1 DEF Doing
      <4> QED BY <2>1, <2>4, <4>1, <4>2 DEF Holds, Live
    <3> QED BY <2>1, <3>1, <3>2, <3>3 DEF RenameInv, RenameHeld
  <2> QED BY <2>3, <2>4
<1>11. ASSUME NEW h \in Host, TryUndoDelete(h) PROVE RenameInv'
  <2>1. undo[h] \in Deleted
    BY <1>11 DEF TryUndoDelete, TypeInv, EditTypes
  <2>2. undo[h].name \in Name /\ undo[h].rec.value \in Value /\ undo[h].rec.private \in BOOLEAN
    BY <1>00, <2>1 DEF Deleted
  <2>3. /\ Write(h, undo[h].name, undo[h].rec.value, undo[h].rec.private) /\ Disturb(h, undo[h].name)
        /\ ui' = ui
    BY <1>11 DEF TryUndoDelete
  <2>4. \A p \in Host, k \in Name : p # h \/ k # undo[h].name => store'[p][k] = store[p][k]
    BY <2>2, <2>3, WriteElsewhere
  <2> QED BY <2>2, <2>3, <2>4, RenameDisturbed
<1>12. ASSUME NEW h \in Host, Restart(h) PROVE RenameInv'
  <2>1. Done(h) /\ rename' = rename /\ store' = store
    BY <1>12 DEF Restart
  <2>2. rename # None => ui'[rename.host] = ui[rename.host] \/ (~Renaming' /\ ~Renamed')
    BY <1>0, <2>1, EditsElsewhere DEF Renaming, Renamed, In
  <2> QED BY <2>1, <2>2, RenameFrame
<1>13. ASSUME NEW h \in Host, Dial(h) \/ Unreachable(h) PROVE RenameInv'
  BY <1>1, <1>13 DEF Dial, Unreachable, uiVars
<1>14. CASE GiveUp \/ ReportNoGateway
  BY <1>1, <1>14 DEF GiveUp, ReportNoGateway, uiVars
<1>15. CASE ReadFrame
  BY <1>1, <1>15 DEF ReadFrame, RunRegisterCopy, RunRegisterPaste, RunPut, RunRegisterLs, RunRegisterRm,
                     RunTouch, Reads, uiVars
<1>16. ASSUME NEW o \in orphans, LoseOrphan(o) PROVE RenameInv'
  BY <1>1, <1>16 DEF LoseOrphan, uiVars
<1>17. ASSUME NEW r \in Requests, Begin(r) PROVE RenameInv'
  BY <1>1, <1>17 DEF Begin, uiVars
<1> QED BY <1>3, <1>4, <1>5, <1>6, <1>7, <1>8, <1>9, <1>10, <1>11, <1>12, <1>13, <1>14, <1>15, <1>16,
           <1>17 DEF Next

-----------------------------------------------------------------------------
(* A command.  What it waits for, and what is settled by then.              *)

(* The stores since the command began.                                      *)
StartInv ==
    \A h \in Host, n \in Name :
        store[h][n] = start[h][n] \/ Stamp(store[h][n]) > Stamp(start[h][n])

(* A register all had when rm began has since been replaced somewhere.      *)
Common(n) ==
    /\ \A h, p \in Host : start[h][n] = start[p][n]
    /\ \A h \in Host : start[h][n] # Absent /\ start[h][n].value # Gone
Dealt(n) == Common(n) => \E p \in Host : Stamp(store[p][n]) > Stamp(start[p][n])

LEMMA StartKept ==
    ASSUME StoreInv, StoreStep, TypeInv, HistoryStep, StartInv
    PROVE  StartInv'
<1>1. ASSUME NEW h \in Host, NEW n \in Name
      PROVE  store'[h][n] = start'[h][n] \/ Stamp(store'[h][n]) > Stamp(start'[h][n])
  <2>1. /\ Stamp(store[h][n]) \in Nat /\ Stamp(store'[h][n]) \in Nat
        /\ store'[h][n] = store[h][n] \/ Stamp(store'[h][n]) > Stamp(store[h][n])
    BY StampsGrow
  <2>2. start' = start \/ start' = store
    BY DEF HistoryStep
  <2>3. Stamp(start[h][n]) \in Nat
    BY CellStamp DEF TypeInv, HistoryTypes
  <2> QED BY <2>1, <2>2, <2>3 DEF StartInv
<1> QED BY <1>1 DEF StartInv, Stamp

LEMMA DealtKept ==
    ASSUME StoreInv, StoreStep, TypeInv, start' = start, NEW n \in Name, Dealt(n)
    PROVE  Dealt(n)'
<1>1. ASSUME NEW p \in Host, Stamp(store[p][n]) > Stamp(start[p][n])
      PROVE  Stamp(store'[p][n]) > Stamp(start'[p][n])
  <2>1. /\ Stamp(store[p][n]) \in Nat /\ Stamp(store'[p][n]) \in Nat
        /\ store'[p][n] = store[p][n] \/ Stamp(store'[p][n]) > Stamp(store[p][n])
    BY StampsGrow
  <2>2. Stamp(start[p][n]) \in Nat
    BY CellStamp DEF TypeInv, HistoryTypes
  <2> QED BY <1>1, <2>1, <2>2
<1> QED BY <1>1 DEF Dealt, Common, Stamp

LEMMA DealtWhenGone ==
    ASSUME StartInv, NEW h \in Host, NEW n \in Name, ~Live(h, n)
    PROVE  Dealt(n)
BY DEF StartInv, Live, Dealt, Common

LEMMA DealtByWrite ==
    ASSUME StoreInv, TypeInv, StartInv, start' = start, NEW h \in Host, NEW n \in Name,
           NEW v \in Value \cup {Gone}, Puts(h, n, v)
    PROVE  Dealt(n)'
<1>1. OneCell(h, n, v) /\ now \in Nat
  BY WriteShape DEF StoreInv
<1>2. Stamp(store'[h][n]) = now + 1
  BY <1>1, CellStamp DEF OneCell, Cell
<1>3. Stamp(store[h][n]) \in Nat /\ Stamp(start[h][n]) \in Nat /\ Stamp(store[h][n]) <= now
  BY CellStamp DEF StoreInv, TypeInv, HistoryTypes
<1>4. Stamp(start[h][n]) <= now
  <2>1. store[h][n] = start[h][n] \/ Stamp(store[h][n]) > Stamp(start[h][n])
    BY DEF StartInv
  <2> QED BY <1>1, <1>3, <2>1
<1>5. Stamp(store'[h][n]) > Stamp(start'[h][n])
  BY <1>1, <1>2, <1>3, <1>4
<1> QED BY <1>5 DEF Dealt, Stamp

Asked(q)    == conn.inn = q /\ conn.out = <<>>
Answered(a) == conn.inn = <<>> /\ conn.out = <<a>>

RmDealt(names) == cli.request.verb = "rm" => \A n \in names : Dealt(n)
Copied         == \E i \in DOMAIN wrote : wrote[i].name \in cli.request.names

(* A listing is asked for, or has come.                                     *)
Listing ==
    /\ Lists /\ cli.todo = {}
    /\ \/ Asked(<<[tag |-> "RLST"]>>)
       \/ \E names \in SUBSET Name :
            Answered([tag |-> "RLST", names |-> names]) /\ RmDealt(cli.request.names \ names)

(* A register is asked for, or its answer has come; or put waits for its PONG. *)
Replied(a) ==
    /\ cli.request.verb = "copy" => a.tag = "RERR" \/ (a.tag = "ROKW" /\ Copied)
    /\ cli.request.verb = "rm" => a.tag \in {"RDEL", "NONE"} /\ Dealt(Target(cli.todo))
    /\ cli.request.verb \notin {"copy", "rm"} => a.tag \in {"REGW", "NONE"}

Fencing ==
    \/ \E v \in Value : Asked(<<Clip(v), [tag |-> "PING"]>>)
    \/ clips # {} /\ (Asked(<<[tag |-> "PING"]>>) \/ Answered([tag |-> "PONG"]))

Asking ==
    /\ cli.request.verb # "ls" /\ cli.todo # {} /\ cli.todo \subseteq cli.request.names
    /\ ~cli.request.wild => cli.todo = cli.request.names
    /\ RmDealt(cli.request.names \ cli.todo)
    /\ \/ Asked(<<Ask(Target(cli.todo))>>)
       \/ \E a \in Reply : Answered(a) /\ Replied(a)
       \/ cli.request.verb = "put" /\ Fencing

(* What success is reported for.                                            *)
Achieved ==
    /\ cli.request.verb = "copy" => Copied
    /\ RmDealt(cli.request.names)
    /\ cli.request.verb = "put" => clips # {}

ExchangeInv ==
    /\ cli # None /\ cli.exit # None => conn = None
    /\ Running /\ conn # None => Listing \/ Asking
    /\ cli # None /\ cli.exit = "ok" => Achieved

(* The history only grows.                                                  *)
LEMMA HistoryGrows ==
    ASSUME TypeInv, HistoryStep
    PROVE  /\ clips \subseteq clips'
           /\ \A i \in DOMAIN wrote : i \in DOMAIN wrote' /\ wrote'[i] = wrote[i]
<1>1. clips \subseteq clips'
  BY DEF HistoryStep, EffectWrites, EffectNone
<1> QED BY <1>1, WroteGrows

LEMMA RequestNames ==
    ASSUME TypeInv, cli # None
    PROVE  /\ cli.request.names \subseteq Name
           /\ cli.request.wild => cli.request.verb \in {"touch", "rm", "ls"}
           /\ ~cli.request.wild /\ cli.request.verb # "ls" => \E n \in Name : cli.request.names = {n}
           /\ cli.request.verb = "copy" => cli.request.value \in Value
           /\ cli.request.verb \in {"copy", "paste", "put", "touch", "rm", "ls"}
BY CliFields, GatewayAssumption

LEMMA SettledKept ==
    ASSUME StoreInv, StoreStep, TypeInv, HistoryStep, start' = start, cli # None, cli'.request = cli.request
    PROVE  /\ Copied => Copied'
           /\ \A n \in Name : Dealt(n) => Dealt(n)'
           /\ clips # {} => clips' # {}
<1>1. Copied => Copied'
  BY HistoryGrows DEF Copied
<1>2. \A n \in Name : Dealt(n) => Dealt(n)'
  BY DealtKept
<1> QED BY <1>1, <1>2, HistoryGrows

(* A step of others leaves the exchange where it is, or ends it.            *)
LEMMA ExchangeFrame ==
    ASSUME StoreInv, StoreStep, TypeInv, HistoryStep, ExchangeInv, start' = start, cli' = cli,
           conn' = conn \/ conn' = None
    PROVE  ExchangeInv'
<1>1. CASE cli = None
  BY <1>1 DEF ExchangeInv, Running
<1>2. CASE cli # None
  <2>1. /\ Copied => Copied'
        /\ \A n \in Name : Dealt(n) => Dealt(n)'
        /\ clips # {} => clips' # {}
    BY <1>2, SettledKept
  <2>2. cli.request.names \subseteq Name
    BY <1>2, RequestNames
  <2>3. \A S \in SUBSET Name : RmDealt(S) => RmDealt(S)'
    BY <2>1 DEF RmDealt
  <2>4. Achieved => Achieved'
    BY <2>1, <2>2, <2>3 DEF Achieved, RmDealt
  <2>5. CASE conn' = None
    BY <2>4, <2>5 DEF ExchangeInv, Running
  <2>6. CASE conn' = conn
    <3>1. Listing => Listing'
      <4>1. ASSUME NEW names \in SUBSET Name, RmDealt(cli.request.names \ names)
            PROVE  RmDealt(cli.request.names \ names)'
        BY <2>1, <2>2, <4>1 DEF RmDealt
      <4> QED BY <2>6, <4>1 DEF Listing, Lists, Asked, Answered
    <3>2. Asking => Asking'
      <4>1. RmDealt(cli.request.names \ cli.todo) => RmDealt(cli.request.names \ cli.todo)'
        BY <2>1, <2>2 DEF RmDealt
      <4>2. ASSUME NEW a \in Reply, Replied(a), cli.todo # {}, cli.todo \subseteq cli.request.names
            PROVE  Replied(a)'
        <5>1. Target(cli.todo) \in Name
          BY <2>2, <4>2, TargetIn
        <5> QED BY <2>1, <4>2, <5>1 DEF Replied
      <4>3. Fencing => Fencing'
        BY <2>1, <2>6 DEF Fencing, Asked, Answered
      <4>4. Asked(<<Ask(Target(cli.todo))>>) => Asked(<<Ask(Target(cli.todo))>>)'
        BY <2>6 DEF Asked, Ask
      <4>5. \A a : Answered(a) => Answered(a)'
        BY <2>6 DEF Answered
      <4> QED BY <4>1, <4>2, <4>3, <4>4, <4>5 DEF Asking
    <3> QED BY <2>4, <2>6, <3>1, <3>2 DEF ExchangeInv, Running
  <2> QED BY <2>5, <2>6
<1> QED BY <1>1, <1>2

(* The daemon reads the one frame asked, and its answer is all there is.    *)
LEMMA HandleShape ==
    ASSUME StoreInv, TypeInv, HandleFrame, conn.out = <<>>
    PROVE  /\ conn # None /\ conn.inn # <<>> /\ conn.to \in Host /\ Head(conn.inn) \in Question
           /\ conn'.inn = Tail(conn.inn) /\ conn'.out = Answer(conn.to, Head(conn.inn))
           /\ conn' # None /\ cli' = cli /\ start' = start /\ Effect(conn.to, Head(conn.inn))
           /\ orphans' = orphans /\ faults' = faults
<1>1. conn # None /\ conn.inn # <<>> /\ cli' = cli /\ start' = start /\ orphans' = orphans /\ faults' = faults
      /\ Effect(conn.to, Head(conn.inn))
  BY DEF HandleFrame
<1>2. conn' = [conn EXCEPT !.inn = Tail(conn.inn), !.out = conn.out \o Answer(conn.to, Head(conn.inn))]
  BY DEF HandleFrame
<1>3. /\ conn.to \in Host /\ Head(conn.inn) \in Question /\ Tail(conn.inn) \in Seq(Question)
      /\ Answer(conn.to, Head(conn.inn)) \in Seq(Reply)
  BY <1>1, ConnFields, AnswerType
<1>4. conn.out \o Answer(conn.to, Head(conn.inn)) = Answer(conn.to, Head(conn.inn))
  BY <1>3
<1>5. conn' \in Connection
  BY <1>1, <1>2, <1>3, <1>4, ConnFields DEF Connection
<1>6. conn'.inn = Tail(conn.inn) /\ conn'.out = Answer(conn.to, Head(conn.inn))
  BY <1>1, <1>2, <1>4, ConnFields
<1> QED BY <1>1, <1>3, <1>5, <1>6, GatewayAssumption

LEMMA HandleExchange ==
    ASSUME StoreInv, StoreStep, TypeInv, HistoryStep, StartInv, ExchangeInv, HandleFrame
    PROVE  ExchangeInv'
<1>1. conn # None /\ conn.inn # <<>> /\ cli' = cli /\ start' = start
  BY DEF HandleFrame
<1>2. cli # None /\ cli.exit = None
  BY <1>1 DEF ExchangeInv, TypeInv, ClientTypes
<1>3. Running /\ (Listing \/ Asking)
  BY <1>1, <1>2 DEF ExchangeInv, Running
<1>4. /\ Copied => Copied'
      /\ \A n \in Name : Dealt(n) => Dealt(n)'
      /\ clips # {} => clips' # {}
  BY <1>1, <1>2, SettledKept
<1>5. cli.request.names \subseteq Name
  BY <1>2, RequestNames
<1>6. ASSUME Listing' \/ Asking' PROVE ExchangeInv'
  <2>1. cli'.exit = None
    BY <1>1, <1>2
  <2> QED BY <1>6, <2>1, GatewayAssumption DEF ExchangeInv, ExitCode
<1> DEFINE h == conn.to
           f == Head(conn.inn)
           m == Target(cli.todo)
<1>7. CASE Listing
  <2>1. Asked(<<[tag |-> "RLST"]>>)
    BY <1>1, <1>7 DEF Listing, Answered
  <2>2. conn.out = <<>> /\ f = [tag |-> "RLST"] /\ Tail(conn.inn) = <<>>
    BY <2>1 DEF Asked
  <2>3. /\ h \in Host /\ f \in Question /\ conn'.inn = <<>> /\ conn'.out = Answer(h, f)
    BY <2>2, HandleShape
  <2>4. Answer(h, f) = <<[tag |-> "RLST", names |-> LiveNames(h)]>>
    BY <2>2 DEF Answer
  <2>5. PICK names \in SUBSET Name : names = LiveNames(h)
    BY DEF LiveNames
  <2>6. RmDealt(cli.request.names \ names)'
    <3>1. \A n \in cli.request.names \ names : n \in Name /\ ~Live(h, n)
      BY <1>5, <2>5 DEF LiveNames
    <3>2. \A n \in cli.request.names \ names : Dealt(n)'
      BY <1>4, <2>3, <3>1, DealtWhenGone
    <3> QED BY <1>1, <3>2 DEF RmDealt
  <2>7. conn'.out = <<[tag |-> "RLST", names |-> names]>>
    BY <2>3, <2>4, <2>5
  <2>8. Answered([tag |-> "RLST", names |-> names])'
    BY <2>3, <2>7 DEF Answered
  <2> QED BY <1>1, <1>6, <1>7, <2>6, <2>8 DEF Listing, Lists
<1>8. ASSUME Asking, Asked(<<Ask(m)>>)
      PROVE  ExchangeInv'
  <2>1. conn.out = <<>> /\ f = Ask(m) /\ Tail(conn.inn) = <<>>
    BY <1>8 DEF Asked
  <2>2. /\ h \in Host /\ f \in Question /\ conn'.inn = <<>> /\ conn'.out = Answer(h, f)
    BY <2>1, HandleShape
  <2>3. m \in cli.todo /\ m \in cli.request.names /\ m \in Name
    BY <1>5, <1>8, TargetIn DEF Asking
  <2>4. ASSUME NEW a \in Reply, Answer(h, f) = <<a>>, Replied(a)'
        PROVE  ExchangeInv'
    <3>1. Answered(a)'
      BY <2>2, <2>4 DEF Answered
    <3>2. RmDealt(cli.request.names \ cli.todo)'
      BY <1>1, <1>4, <1>5, <1>8 DEF Asking, RmDealt
    <3>3. Asking'
      BY <1>1, <1>8, <2>4, <3>1, <3>2 DEF Asking
    <3> QED BY <1>6, <3>3
  <2>5. CASE cli.request.verb = "copy"
    <3>1. /\ f.tag = "REGW" /\ f.name = m /\ f.value = cli.request.value /\ f.value # Gone
      BY <1>2, <2>1, <2>5, RequestNames, GatewayAssumption DEF Ask
    <3>2. CASE Refused(h, m)
      <4>1. Answer(h, f) = <<[tag |-> "RERR"]>>
        BY <3>1, <3>2 DEF Answer
      <4>2. [tag |-> "RERR"] \in Reply /\ Replied([tag |-> "RERR"])'
        BY <1>1, <2>5 DEF Reply, Replied
      <4> QED BY <2>4, <4>1, <4>2
    <3>3. CASE ~Refused(h, m)
      <4>1. Answer(h, f) = <<[tag |-> "ROKW"]>>
        BY <3>1, <3>3 DEF Answer
      <4>2. EffectWrites(h, f)
        <5>1. Accepts(h, f) /\ Effect(h, f)
          BY <2>1, <3>1, <3>3, HandleShape DEF Accepts
        <5> QED BY <2>2, <3>1, <5>1, EffectShape DEF EffectNone
      <4>3. Copied'
        <5>1. Len(wrote) + 1 \in DOMAIN wrote' /\ wrote'[Len(wrote) + 1].name = m
          <6>1. wrote'[Len(wrote) + 1] = [name |-> f.name, stamp |-> now']
            BY <2>2, <4>2, WroteThis
          <6>2. Len(wrote) + 1 \in DOMAIN wrote'
            BY <2>2, <4>2, WroteThis
          <6> QED BY <3>1, <6>1, <6>2
        <5> QED BY <1>1, <2>3, <5>1 DEF Copied
      <4>4. [tag |-> "ROKW"] \in Reply /\ Replied([tag |-> "ROKW"])'
        BY <1>1, <2>5, <4>3 DEF Reply, Replied
      <4> QED BY <2>4, <4>1, <4>4
    <3> QED BY <3>2, <3>3
  <2>6. CASE cli.request.verb = "rm"
    <3>1. /\ f.tag = "REGW" /\ f.name = m /\ f.value = Gone
      BY <2>1, <2>6 DEF Ask
    <3>2. PICK t \in {"RDEL", "NONE"} : Answer(h, f) = <<[tag |-> t]>>
      BY <3>1 DEF Answer
    <3>3. Dealt(m)'
      <4>1. CASE Live(h, m)
        <5>1. Accepts(h, f) /\ Effect(h, f)
          BY <2>1, <3>1, <4>1, HandleShape DEF Accepts
        <5>2. EffectWrites(h, f)
          BY <2>2, <3>1, <5>1, EffectShape DEF EffectNone
        <5>3. Puts(h, m, Gone)
          BY <3>1, <5>2 DEF EffectWrites, Puts
        <5>4. PICK n \in Name : n = m
          BY <2>3
        <5>5. Dealt(n)'
          BY <1>1, <2>2, <5>3, <5>4, DealtByWrite
        <5> QED BY <1>1, <5>4, <5>5 DEF Dealt, Common, Stamp
      <4>2. CASE ~Live(h, m)
        <5>1. PICK n \in Name : n = m
          BY <2>3
        <5>2. Dealt(n)'
          BY <1>4, <2>2, <4>2, <5>1, DealtWhenGone
        <5> QED BY <1>1, <5>1, <5>2 DEF Dealt, Common, Stamp
      <4> QED BY <4>1, <4>2
    <3>4. [tag |-> t] \in Reply
      BY DEF Reply
    <3>5. Dealt(Target(cli.todo))'
      BY <3>3
    <3>6. Replied([tag |-> t])'
      BY <1>1, <2>6, <3>5 DEF Replied
    <3> QED BY <2>4, <3>2, <3>4, <3>6
  <2>7. CASE cli.request.verb \notin {"copy", "rm"}
    <3>1. f = [tag |-> "RGET", name |-> m]
      BY <2>1, <2>7 DEF Ask
    <3>2. CASE Live(h, m)
      <4>1. PICK v \in Value : v = store[h][m].value
        BY <2>2, <2>3, <3>2, LiveIsRecord DEF LiveRecord, Record
      <4>2. Answer(h, f) = <<[tag |-> "REGW", value |-> v]>>
        BY <3>1, <3>2, <4>1 DEF Answer
      <4>3. [tag |-> "REGW", value |-> v] \in Reply /\ Replied([tag |-> "REGW", value |-> v])'
        BY <1>1, <2>7 DEF Reply, Replied
      <4> QED BY <2>4, <4>2, <4>3
    <3>3. CASE ~Live(h, m)
      <4>1. Answer(h, f) = <<[tag |-> "NONE"]>>
        BY <3>1, <3>3 DEF Answer
      <4>2. [tag |-> "NONE"] \in Reply /\ Replied([tag |-> "NONE"])'
        BY <1>1, <2>7 DEF Reply, Replied
      <4> QED BY <2>4, <4>1, <4>2
    <3> QED BY <3>2, <3>3
  <2> QED BY <2>5, <2>6, <2>7
<1>9. ASSUME Asking, cli.request.verb = "put", Fencing
      PROVE  ExchangeInv'
  <2>0. ASSUME Fencing' PROVE ExchangeInv'
    <3>1. RmDealt(cli.request.names \ cli.todo)'
      BY <1>1, <1>9 DEF RmDealt
    <3>2. Asking'
      BY <1>1, <1>9, <2>0, <3>1 DEF Asking
    <3> QED BY <1>6, <3>2
  <2>1. ASSUME NEW v \in Value, Asked(<<Clip(v), [tag |-> "PING"]>>)
        PROVE  Fencing'
    <3>1. conn.out = <<>> /\ f = Clip(v) /\ Tail(conn.inn) = <<[tag |-> "PING"]>>
      BY <2>1 DEF Asked
    <3>2. /\ h \in Host /\ f \in Question /\ conn'.inn = <<[tag |-> "PING"]>> /\ conn'.out = Answer(h, f)
          /\ Effect(h, f)
      BY <3>1, HandleShape
    <3>3. f.tag = "CLIP" /\ f.value = v
      BY <3>1 DEF Clip
    <3>4. Answer(h, f) = <<>> /\ clips' = clips \cup {v}
      BY <3>2, <3>3 DEF Answer, Effect
    <3> QED BY <3>2, <3>4 DEF Fencing, Asked
  <2>2. ASSUME clips # {}, Asked(<<[tag |-> "PING"]>>)
        PROVE  Fencing'
    <3>1. conn.out = <<>> /\ f = [tag |-> "PING"] /\ Tail(conn.inn) = <<>>
      BY <2>2 DEF Asked
    <3>2. conn'.inn = <<>> /\ conn'.out = Answer(h, f)
      BY <3>1, HandleShape
    <3>3. Answer(h, f) = <<[tag |-> "PONG"]>>
      BY <3>1 DEF Answer
    <3> QED BY <1>4, <2>2, <3>2, <3>3 DEF Fencing, Answered
  <2> QED BY <1>1, <1>9, <2>0, <2>1, <2>2 DEF Fencing, Answered
<1> QED BY <1>1, <1>3, <1>7, <1>8, <1>9 DEF Asking, Answered

(* The client reads the one answer there is.                                *)
LEMMA ReadShape ==
    ASSUME ReadFrame
    PROVE  /\ Running /\ cli # None /\ cli.exit = None /\ conn # None /\ conn.out # <<>>
           /\ UNCHANGED <<now, store, spread, clips, wrote, start, faults>>
BY DEF ReadFrame, RunRegisterCopy, RunRegisterPaste, RunPut, RunRegisterLs, RunRegisterRm, RunTouch,
       Reads, Running

LEMMA ExitExchange ==
    ASSUME TypeInv, ReadFrame, NEW code \in ExitCode, Exit(code), code = "ok" => Achieved
    PROVE  ExchangeInv'
<1>1. /\ cli' = [cli EXCEPT !.exit = code] /\ conn' = None
      /\ UNCHANGED <<now, store, spread, clips, wrote, start>>
  BY ReadShape DEF Exit, Leave
<1>2. cli \in Command /\ code # None
  BY ReadShape, CliFields, GatewayAssumption
<1>3. cli'.exit = code /\ cli'.request = cli.request
  BY <1>1, <1>2 DEF Command
<1>4. Achieved => Achieved'
  <2>1. \A n : Dealt(n) => Dealt(n)'
    BY <1>1 DEF Dealt, Common, Stamp
  <2> QED BY <1>1, <1>3, <2>1 DEF Achieved, Copied, RmDealt
<1> QED BY <1>1, <1>2, <1>3, <1>4 DEF ExchangeInv, Running

LEMMA SendShape ==
    ASSUME TypeInv, conn # None, conn.inn = <<>>, NEW a, conn.out = <<a>>,
           NEW frames \in Seq(Question), Send(frames)
    PROVE  conn' # None /\ conn'.inn = frames /\ conn'.out = <<>>
<1>1. conn' = [conn EXCEPT !.out = Tail(conn.out), !.inn = conn.inn \o frames]
  BY DEF Send
<1>2. Tail(conn.out) = <<>> /\ conn.inn \o frames = frames
  OBVIOUS
<1>3. conn' \in Connection
  <2>1. Tail(conn.out) \in Seq(Reply) /\ conn.inn \o frames \in Seq(Question)
    BY <1>2
  <2> QED BY <1>1, <2>1, ConnFields DEF Connection
<1> QED BY <1>1, <1>2, <1>3, ConnFields, GatewayAssumption

LEMMA GoOnExchange ==
    ASSUME TypeInv, ReadFrame, NEW a, Answered(a), cli.request.verb \in {"rm", "touch"},
           NEW todo, todo \subseteq cli.request.names, RmDealt(cli.request.names \ todo),
           ~cli.request.wild => todo \in {{}, cli.request.names}, GoOn(todo)
    PROVE  ExchangeInv'
<1>1. /\ cli # None /\ cli.exit = None /\ conn # None /\ conn.inn = <<>> /\ conn.out = <<a>>
      /\ UNCHANGED <<now, store, spread, clips, wrote, start>>
  BY ReadShape DEF Answered
<1>2. cli \in Command /\ cli.request.names \subseteq Name
  BY <1>1, CliFields, RequestNames
<1>3. CASE todo = {}
  <2>1. Exit("ok") /\ Achieved
    BY <1>3 DEF GoOn, Achieved, RmDealt
  <2> QED BY <2>1, ExitExchange DEF ExitCode
<1>4. CASE todo # {}
  <2>1. cli' = [cli EXCEPT !.todo = todo] /\ Send(<<Ask(Target(todo))>>)
    BY <1>4 DEF GoOn
  <2>2. cli'.request = cli.request /\ cli'.todo = todo /\ cli'.exit = None
    BY <1>1, <1>2, <2>1 DEF Command
  <2>3. <<Ask(Target(todo))>> \in Seq(Question)
    <3>1. Target(todo) \in Name
      BY <1>2, <1>4, TargetIn
    <3> QED BY <1>2, <3>1, AskType
  <2>4. conn' # None /\ conn'.inn = <<Ask(Target(todo))>> /\ conn'.out = <<>>
    BY <1>1, <2>1, <2>3, SendShape
  <2>5. Asked(<<Ask(Target(cli.todo))>>)'
    BY <2>2, <2>4 DEF Asked, Ask
  <2>6. RmDealt(cli.request.names \ cli.todo)'
    BY <1>1, <2>2 DEF RmDealt, Dealt, Common, Stamp
  <2>7. Asking'
    BY <1>4, <2>2, <2>5, <2>6 DEF Asking
  <2> QED BY <2>2, <2>7, GatewayAssumption DEF ExchangeInv, ExitCode
<1> QED BY <1>3, <1>4

LEMMA ReadExchange ==
    ASSUME StoreInv, TypeInv, ExchangeInv, ReadFrame
    PROVE  ExchangeInv'
<1>1. /\ Running /\ cli # None /\ cli.exit = None /\ conn # None /\ conn.out # <<>>
      /\ UNCHANGED <<now, store, spread, clips, wrote, start>>
  BY ReadShape
<1>2. Listing \/ Asking
  BY <1>1 DEF ExchangeInv
<1>3. /\ cli.request.names \subseteq Name
      /\ cli.request.wild => cli.request.verb \in {"touch", "rm", "ls"}
      /\ ~cli.request.wild /\ cli.request.verb # "ls" => \E n \in Name : cli.request.names = {n}
      /\ cli.request.verb \in {"copy", "paste", "put", "touch", "rm", "ls"}
  BY <1>1, RequestNames
<1>4. \A c \in {"ok", "refused", "absent", "no match"} : c \in ExitCode
  BY DEF ExitCode
<1>5. CASE Listing
  <2>1. PICK names \in SUBSET Name : /\ Answered([tag |-> "RLST", names |-> names])
                                     /\ RmDealt(cli.request.names \ names)
    BY <1>1, <1>5 DEF Listing, Asked
  <2>2. Head(conn.out) = [tag |-> "RLST", names |-> names]
    BY <2>1 DEF Answered
  <2>3. Got("RLST") /\ Head(conn.out).names = names
        /\ \A t \in {"ROKW", "RERR", "RDEL", "NONE", "PONG", "REGW"} : ~Got(t)
    BY <2>2 DEF Got
  <2>4. CASE RunRegisterLs
    <3>1. cli.request.verb = "ls" /\ Exit("ok")
      BY <2>4 DEF RunRegisterLs, Reads
    <3>2. Achieved
      BY <3>1 DEF Achieved, RmDealt
    <3> QED BY <1>4, <3>1, <3>2, ExitExchange
  <2>5. ASSUME PickTargets, cli.request.verb \in {"rm", "touch"}
        PROVE  ExchangeInv'
    <3> DEFINE matching == names \cap cli.request.names
    <3>1. IF matching = {} THEN Exit("no match") ELSE GoOn(matching)
      BY <2>3, <2>5 DEF PickTargets
    <3>2. RmDealt(cli.request.names \ matching)
      BY <2>1 DEF RmDealt
    <3>3. cli.request.wild
      BY <1>5, <2>5 DEF Listing, Lists
    <3>4. CASE matching = {}
      BY <1>4, <3>1, <3>4, ExitExchange
    <3>5. CASE matching # {}
      BY <2>1, <2>5, <3>1, <3>2, <3>3, <3>5, GoOnExchange
    <3> QED BY <3>4, <3>5
  <2>6. CASE RunRegisterRm
    <3>1. cli.request.verb = "rm" /\ PickTargets
      BY <2>3, <2>6 DEF RunRegisterRm, Reads, PassOver
    <3> QED BY <2>5, <3>1
  <2>7. CASE RunTouch
    <3>1. cli.request.verb = "touch" /\ PickTargets
      BY <2>3, <2>7 DEF RunTouch, Reads, PassOver
    <3> QED BY <2>5, <3>1
  <2>8. CASE RunRegisterCopy \/ RunRegisterPaste \/ RunPut
    BY <2>3, <2>8 DEF RunRegisterCopy, RunRegisterPaste, RunPut
  <2> QED BY <2>4, <2>6, <2>7, <2>8 DEF ReadFrame
<1>6. ASSUME Asking, NEW a \in Reply, Answered(a), Replied(a)
      PROVE  ExchangeInv'
  <2>1. Head(conn.out) = a
    BY <1>6 DEF Answered
  <2>2. \A t : Got(t) <=> a.tag = t
    BY <2>1 DEF Got
  <2>3. CASE RunRegisterCopy
    <3>1. cli.request.verb = "copy" /\ (Exit("refused") \/ (a.tag = "ROKW" /\ Exit("ok")))
      BY <2>2, <2>3 DEF RunRegisterCopy, Reads
    <3>2. a.tag = "ROKW" => Achieved
      BY <1>6, <3>1 DEF Replied, Achieved, RmDealt
    <3> QED BY <1>4, <3>1, <3>2, ExitExchange
  <2>4. CASE RunRegisterPaste
    <3>1. cli.request.verb = "paste" /\ (Exit("absent") \/ Exit("ok"))
      BY <2>4 DEF RunRegisterPaste, Reads
    <3>2. Achieved
      BY <3>1 DEF Achieved, RmDealt
    <3> QED BY <1>4, <3>1, <3>2, ExitExchange
  <2>5. CASE RunPut
    <3>1. cli.request.verb = "put"
      BY <2>5 DEF RunPut, Reads
    <3>2. a.tag # "PONG"
      BY <1>6, <3>1 DEF Replied
    <3>3. CASE a.tag = "REGW" /\ Deliver(Head(conn.out).value)
      <4>1. PICK v \in Value : v = Head(conn.out).value
        BY <2>1, <3>3, ReplyFields
      <4>2. cli' = cli /\ Send(<<Clip(v), [tag |-> "PING"]>>)
        BY <3>3, <4>1 DEF Deliver
      <4>3. <<Clip(v), [tag |-> "PING"]>> \in Seq(Question)
        BY DEF Clip, Question
      <4>4. conn' # None /\ conn'.inn = <<Clip(v), [tag |-> "PING"]>> /\ conn'.out = <<>>
        BY <1>1, <1>6, <4>2, <4>3, SendShape DEF Answered
      <4>5. Fencing'
        BY <4>4 DEF Fencing, Asked
      <4>6. Asking'
        BY <1>6, <3>1, <4>2, <4>5 DEF Asking, RmDealt
      <4> QED BY <1>1, <4>2, <4>6, GatewayAssumption DEF ExchangeInv, ExitCode
    <3>4. CASE Exit("absent")
      BY <1>4, <3>4, ExitExchange
    <3> QED BY <2>2, <2>5, <3>2, <3>3, <3>4 DEF RunPut
  <2>6. CASE RunRegisterLs
    BY <1>6, <2>6 DEF RunRegisterLs, Reads, Asking
  <2>7. ASSUME cli.request.verb \in {"rm", "touch"}, GoOn(Left),
               cli.request.verb = "rm" => Dealt(Target(cli.todo))
        PROVE  ExchangeInv'
    <3>1. Left \subseteq cli.request.names
      BY <1>6 DEF Left, Asking
    <3>2. RmDealt(cli.request.names \ Left)
      BY <1>6, <2>7 DEF Left, Asking, RmDealt
    <3>3. ~cli.request.wild => Left = {}
      <4>1. ASSUME ~cli.request.wild PROVE Left = {}
        <5>1. PICK n \in Name : cli.request.names = {n}
          BY <1>3, <2>7, <4>1
        <5>2. cli.todo = {n} /\ Target(cli.todo) \in cli.todo
          BY <1>6, <4>1, <5>1, TargetIn DEF Asking
        <5> QED BY <5>2 DEF Left
      <4> QED BY <4>1
    <3> QED BY <1>6, <2>7, <3>1, <3>2, <3>3, GoOnExchange
  <2>8. ASSUME PassOver, cli.request.verb \in {"rm", "touch"},
               cli.request.verb = "rm" => Dealt(Target(cli.todo))
        PROVE  ExchangeInv'
    <3>1. GoOn(Left) \/ Exit("absent")
      BY <2>8 DEF PassOver
    <3> QED BY <1>4, <2>7, <2>8, <3>1, ExitExchange
  <2>9. CASE RunRegisterRm
    <3>1. cli.request.verb = "rm" /\ a.tag # "RLST" /\ Dealt(Target(cli.todo))
      BY <1>6, <2>9 DEF RunRegisterRm, Reads, Replied
    <3>2. GoOn(Left) \/ PassOver
      BY <2>2, <2>9, <3>1 DEF RunRegisterRm, PickTargets
    <3> QED BY <2>7, <2>8, <3>1, <3>2
  <2>10. CASE RunTouch
    <3>1. cli.request.verb = "touch" /\ a.tag # "RLST"
      BY <1>6, <2>10 DEF RunTouch, Reads, Replied
    <3>2. GoOn(Left) \/ PassOver
      BY <2>2, <2>10, <3>1 DEF RunTouch, PickTargets
    <3> QED BY <2>7, <2>8, <3>1, <3>2
  <2> QED BY <2>3, <2>4, <2>5, <2>6, <2>9, <2>10 DEF ReadFrame
<1>7. ASSUME Asking, cli.request.verb = "put", Fencing
      PROVE  ExchangeInv'
  <2>1. clips # {} /\ conn.inn = <<>> /\ conn.out = <<[tag |-> "PONG"]>>
    BY <1>1, <1>7 DEF Fencing, Asked, Answered
  <2>2. Head(conn.out).tag = "PONG"
    BY <2>1
  <2>3. RunPut
    BY <1>7 DEF ReadFrame, RunRegisterCopy, RunRegisterPaste, RunRegisterLs, RunRegisterRm, RunTouch, Reads
  <2>4. Exit("ok") /\ Achieved
    BY <1>7, <2>1, <2>2, <2>3 DEF RunPut, Got, Achieved, RmDealt
  <2> QED BY <1>4, <2>4, ExitExchange
<1> QED BY <1>1, <1>2, <1>5, <1>6, <1>7 DEF Asking, Asked

LEMMA DialExchange ==
    ASSUME TypeInv, NEW h \in Host, Dial(h)
    PROVE  ExchangeInv'
<1>1. cli # None /\ cli.exit = None /\ cli \in Command
  BY CliFields DEF Dial, Running
<1>2. cli' = [cli EXCEPT !.tried = cli.tried \cup {h}, !.todo = IF Lists THEN {} ELSE cli.request.names]
  BY DEF Dial
<1>3. /\ cli'.request = cli.request /\ cli'.exit = None
      /\ cli'.todo = IF Lists THEN {} ELSE cli.request.names
  BY <1>1, <1>2 DEF Command
<1>4. /\ conn'.out = <<>>
      /\ conn'.inn = IF Lists THEN <<[tag |-> "RLST"]>> ELSE <<Ask(Target(cli.request.names))>>
  BY DEF Dial
<1>5. CASE Lists
  <2>1. Listing'
    BY <1>3, <1>4, <1>5 DEF Listing, Lists, Asked
  <2> QED BY <1>3, <2>1, GatewayAssumption DEF ExchangeInv, ExitCode
<1>6. CASE ~Lists
  <2>1. cli.request.verb # "ls" /\ cli.request.names # {}
    BY <1>1, <1>6, RequestNames DEF Lists
  <2>2. Asked(<<Ask(Target(cli.todo))>>)'
    BY <1>3, <1>4, <1>6 DEF Asked, Ask
  <2>3. RmDealt(cli.request.names \ cli.todo)'
    BY <1>3, <1>6 DEF RmDealt
  <2>4. Asking'
    BY <1>3, <1>6, <2>1, <2>2, <2>3 DEF Asking
  <2> QED BY <1>3, <2>4, GatewayAssumption DEF ExchangeInv, ExitCode
<1> QED BY <1>5, <1>6

LEMMA ExchangeKept ==
    ASSUME StoreInv, StoreStep, TypeInv, HistoryStep, StartInv, ExchangeInv, Next
    PROVE  ExchangeInv'
<1>1. ASSUME NEW r \in Requests, Begin(r) PROVE ExchangeInv'
  <2>1. cli'.exit = None /\ conn' = None
    BY <1>1 DEF Begin, TypeInv, ClientTypes
  <2> QED BY <2>1, GatewayAssumption DEF ExchangeInv, ExitCode, Running
<1>2. CASE GiveUp
  BY <1>2, ExchangeFrame DEF GiveUp, Leave
<1>3. ASSUME NEW o \in orphans, HandleOrphan(o) \/ LoseOrphan(o) PROVE ExchangeInv'
  BY <1>3, ExchangeFrame DEF HandleOrphan, LoseOrphan
<1>4. ASSUME NEW h \in Host, Restart(h) PROVE ExchangeInv'
  BY <1>4, ExchangeFrame DEF Restart
<1>5. CASE UNCHANGED <<clips, cli, conn, orphans, start, wrote, faults>>
  BY <1>5, ExchangeFrame
<1>6. ASSUME NEW h \in Host, Unreachable(h) PROVE ExchangeInv'
  <2>1. cli # None /\ cli.exit = None /\ conn = None /\ conn' = conn
        /\ cli' = [cli EXCEPT !.tried = cli.tried \cup {h}]
    BY <1>6 DEF Unreachable, Running
  <2>2. cli'.exit = None
    BY <2>1, CliFields DEF Command
  <2> QED BY <2>1, <2>2, GatewayAssumption DEF ExchangeInv, ExitCode
<1>7. CASE ReportNoGateway
  <2>1. cli # None /\ conn = None /\ conn' = conn /\ cli' = [cli EXCEPT !.exit = "unreachable"]
    BY <1>7 DEF ReportNoGateway, Running
  <2>2. cli'.exit = "unreachable"
    BY <2>1, CliFields DEF Command
  <2> QED BY <2>1, <2>2 DEF ExchangeInv
<1> QED BY <1>1, <1>2, <1>3, <1>4, <1>5, <1>6, <1>7, ClientOrNot, HandleExchange, ReadExchange,
           DialExchange DEF ClientStep

-----------------------------------------------------------------------------
(* A command no connection of which fails.  The names its frames may have
   written by now: those it has no more to ask about, and the one whose
   acknowledgement is on its way.                                           *)
Acked == conn.out \in {<<[tag |-> "ROKW"]>>, <<[tag |-> "RDEL"]>>}

Touched ==
    IF cli = None \/ cli.request.verb \notin {"copy", "rm"} THEN {}
    ELSE IF cli.exit = "ok" THEN cli.request.names
    ELSE IF cli.exit # None \/ conn = None \/ cli.todo = {} THEN {}
    ELSE (cli.request.names \ cli.todo) \cup (IF Acked THEN {Target(cli.todo)} ELSE {})

Once == \A i, j \in DOMAIN wrote : wrote[i].name = wrote[j].name => i = j

ExactInv ==
    /\ faults \in Nat
    /\ faults = 0 => orphans = {} /\ Once /\ \A i \in DOMAIN wrote : wrote[i].name \in Touched

LEMMA TouchedAsked ==
    ASSUME TypeInv, ExchangeInv
    PROVE  cli # None => Touched \subseteq cli.request.names
<1>1. ASSUME cli # None, cli.exit = None, conn # None, cli.todo # {}
      PROVE  Target(cli.todo) \in cli.request.names
  <2>1. Asking
    BY <1>1 DEF ExchangeInv, Running, Listing
  <2> QED BY <1>1, <2>1, TargetIn DEF Asking
<1> QED BY <1>1 DEF Touched

LEMMA HandleExact ==
    ASSUME StoreInv, TypeInv, HistoryStep, ExchangeInv, ExactInv, HandleFrame, faults = 0
    PROVE  Once' /\ \A i \in DOMAIN wrote' : wrote'[i].name \in Touched'
<1>1. conn # None /\ conn.inn # <<>> /\ cli # None /\ cli.exit = None /\ Running
  BY DEF HandleFrame, ExchangeInv, TypeInv, ClientTypes, Running
<1>2. Listing \/ Asking
  BY <1>1 DEF ExchangeInv
<1>3. conn.out = <<>>
  BY <1>1, <1>2 DEF Listing, Asking, Fencing, Asked, Answered
<1> DEFINE h == conn.to
           f == Head(conn.inn)
           m == Target(cli.todo)
<1>4. /\ h \in Host /\ f \in Question /\ conn'.inn = Tail(conn.inn) /\ conn'.out = Answer(h, f)
      /\ conn' # None /\ cli' = cli /\ Effect(h, f)
  BY <1>3, HandleShape
<1>5. ~Acked
  BY <1>3 DEF Acked
<1>6. Touched \subseteq Touched'
  BY <1>1, <1>4, <1>5 DEF Touched
<1>7. CASE EffectNone(h, f)
  <2>1. wrote' = wrote
    BY <1>7 DEF EffectNone
  <2> QED BY <1>6, <2>1 DEF ExactInv, Once
<1>8. CASE EffectWrites(h, f)
  <2>1. f.tag = "REGW" /\ Accepts(h, f)
    BY <1>8 DEF EffectWrites
  <2>2. Asking /\ Asked(<<Ask(m)>>)
    <3>1. ~Asked(<<[tag |-> "RLST"]>>) /\ ~Asked(<<[tag |-> "PING"]>>)
          /\ \A v : ~Asked(<<Clip(v), [tag |-> "PING"]>>)
      BY <2>1 DEF Asked, Clip
    <3>2. \A a : ~Answered(a)
      BY <1>1 DEF Answered
    <3> QED BY <1>2, <3>1, <3>2 DEF Listing, Asking, Fencing
  <2>3. f = Ask(m)
    BY <2>2 DEF Asked
  <2>4. cli.request.verb \in {"copy", "rm"} /\ f.name = m
        /\ (cli.request.verb = "copy" => f.value = cli.request.value)
        /\ (cli.request.verb = "rm" => f.value = Gone)
    BY <2>1, <2>3 DEF Ask
  <2>5. Answer(h, f) \in {<<[tag |-> "ROKW"]>>, <<[tag |-> "RDEL"]>>}
    BY <2>1, QuestionFields DEF Accepts, Answer
  <2>6. m \in cli.todo /\ Touched = cli.request.names \ cli.todo
    <3>1. cli.todo # {} /\ cli.exit # "ok"
      BY <1>1, <2>2, GatewayAssumption DEF Asking, ExitCode
    <3> QED BY <1>1, <1>5, <2>4, <3>1, TargetIn DEF Touched
  <2>7. m \in Touched'
    <3>1. cli.todo # {} /\ cli.exit # "ok" /\ Acked'
      BY <1>1, <1>4, <2>2, <2>5, GatewayAssumption DEF Asking, ExitCode, Acked
    <3> QED BY <1>1, <1>4, <2>4, <3>1 DEF Touched
  <2>8. /\ DOMAIN wrote' = DOMAIN wrote \cup {Len(wrote) + 1}
        /\ \A i \in DOMAIN wrote : wrote'[i] = wrote[i]
        /\ wrote'[Len(wrote) + 1].name = f.name
    <3>1. /\ DOMAIN wrote' = DOMAIN wrote \cup {Len(wrote) + 1}
          /\ \A i \in DOMAIN wrote : wrote'[i] = wrote[i]
          /\ wrote'[Len(wrote) + 1] = [name |-> f.name, stamp |-> now']
      BY <1>4, <1>8, WroteThis
    <3> QED BY <3>1
  <2>9. \A i \in DOMAIN wrote : wrote[i].name \in Touched /\ wrote[i].name # m
    BY <2>6 DEF ExactInv
  <2>10. Once'
    BY <2>4, <2>8, <2>9 DEF ExactInv, Once
  <2> QED BY <1>6, <2>4, <2>7, <2>8, <2>9, <2>10
<1> QED BY <1>4, <1>7, <1>8, EffectShape

LEMMA ExitTouched ==
    ASSUME TypeInv, ExchangeInv, ReadFrame, NEW code \in ExitCode, Exit(code),
           code # "ok" => Touched = {}
    PROVE  Touched \subseteq Touched'
<1>1. /\ cli # None /\ cli \in Command
      /\ cli' = [cli EXCEPT !.exit = code]
  BY ReadShape, CliFields DEF Exit
<1>2. cli'.exit = code /\ cli'.request = cli.request /\ cli' # None
  <2>1. cli' \in Command
    BY <1>1 DEF Command
  <2> QED BY <1>1, <2>1, GatewayAssumption DEF Command
<1>3. CASE code = "ok"
  BY <1>1, <1>2, <1>3, TouchedAsked DEF Touched
<1> QED BY <1>3

LEMMA GoOnTouched ==
    ASSUME TypeInv, ExchangeInv, ReadFrame, conn.inn = <<>>, NEW a, conn.out = <<a>>,
           NEW todo, todo \subseteq cli.request.names, GoOn(todo),
           Touched \subseteq cli.request.names \ todo
    PROVE  Touched \subseteq Touched'
<1>1. /\ cli # None /\ cli \in Command /\ conn # None /\ cli.request.names \subseteq Name /\ cli.exit = None
  BY ReadShape, CliFields, RequestNames
<1>2. CASE todo = {}
  <2>1. Exit("ok") /\ "ok" \in ExitCode
    BY <1>2 DEF GoOn, ExitCode
  <2> QED BY <2>1, ExitTouched
<1>3. CASE todo # {}
  <2>1. cli' = [cli EXCEPT !.todo = todo] /\ Send(<<Ask(Target(todo))>>)
    BY <1>3 DEF GoOn
  <2>2. cli'.request = cli.request /\ cli'.todo = todo /\ cli'.exit = None
    BY <1>1, <2>1 DEF Command
  <2>3. <<Ask(Target(todo))>> \in Seq(Question)
    <3>1. Target(todo) \in Name
      BY <1>1, <1>3, TargetIn
    <3> QED BY <1>1, <3>1, AskType
  <2>4. conn' # None
    BY <1>1, <2>1, <2>3, SendShape
  <2>5. cli' # None
    <3>1. cli' \in Command
      BY ReadTypes
    <3> QED BY <3>1, GatewayAssumption
  <2>6. CASE cli.request.verb \notin {"copy", "rm"}
    BY <1>1, <2>6 DEF Touched
  <2>7. CASE cli.request.verb \in {"copy", "rm"}
    <3>1. cli.request.names \ todo \subseteq Touched'
      BY <1>3, <2>2, <2>4, <2>5, <2>7, GatewayAssumption DEF Touched, ExitCode
    <3> QED BY <3>1
  <2> QED BY <2>6, <2>7
<1> QED BY <1>2, <1>3

LEMMA ReadExact ==
    ASSUME StoreInv, TypeInv, ExchangeInv, ReadFrame
    PROVE  Touched \subseteq Touched' /\ orphans' = orphans
<1>1. /\ Running /\ cli # None /\ cli.exit = None /\ conn # None /\ conn.out # <<>>
      /\ cli.exit # "ok"
  BY ReadShape, GatewayAssumption DEF ExitCode
<1>2. Listing \/ Asking
  BY <1>1 DEF ExchangeInv
<1>3. conn.inn = <<>> /\ \E a : conn.out = <<a>>
  BY <1>1, <1>2 DEF Listing, Asking, Fencing, Asked, Answered
<1>4. orphans' = orphans
  <2>1. Leave => orphans' = orphans
    BY <1>3 DEF Leave
  <2>2. \A c : Exit(c) => orphans' = orphans
    BY <2>1 DEF Exit
  <2>3. \A t : GoOn(t) => orphans' = orphans
    BY <2>2 DEF GoOn, Send
  <2>4. \A v : Deliver(v) => orphans' = orphans
    BY DEF Deliver, Send
  <2> QED BY <2>2, <2>3, <2>4 DEF ReadFrame, RunRegisterCopy, RunRegisterPaste, RunPut, RunRegisterLs,
           RunRegisterRm, RunTouch, PickTargets, PassOver
<1>5. cli' # None /\ cli'.request = cli.request
  <2>1. cli' \in Command /\ cli'.request = cli.request
    BY ReadTypes
  <2> QED BY <2>1, GatewayAssumption
<1>6. \A c \in {"ok", "refused", "absent", "no match"} : c \in ExitCode
  BY DEF ExitCode
<1>7. CASE cli.request.verb \notin {"copy", "rm"}
  BY <1>4, <1>7 DEF Touched
<1>8. CASE Listing /\ cli.request.verb \in {"copy", "rm"}
  BY <1>1, <1>4, <1>8 DEF Touched, Listing
<1>9. CASE Asking /\ cli.request.verb \in {"copy", "rm"}
  <2>1. PICK a \in Reply : Answered(a) /\ Replied(a)
    BY <1>1, <1>9 DEF Asking, Asked
  <2>2. Head(conn.out) = a /\ \A t : Got(t) <=> a.tag = t
    BY <2>1 DEF Answered, Got
  <2>3. /\ cli.todo # {} /\ cli.todo \subseteq cli.request.names
        /\ ~cli.request.wild => cli.todo = cli.request.names
    BY <1>9 DEF Asking
  <2>4. a.tag \notin {"ROKW", "RDEL"} => Touched = cli.request.names \ cli.todo
    <3>1. a.tag \notin {"ROKW", "RDEL"} => ~Acked
      BY <2>1 DEF Answered, Acked
    <3> QED BY <1>1, <1>9, <2>3, <3>1 DEF Touched
  <2>5. Touched \subseteq (cli.request.names \ cli.todo) \cup {Target(cli.todo)}
    BY <1>1, <1>9, <2>3 DEF Touched
  <2>6. CASE cli.request.verb = "copy"
    <3>1. (a.tag = "ROKW" /\ Exit("ok")) \/ (a.tag = "RERR" /\ Exit("refused"))
      BY <2>2, <2>6 DEF ReadFrame, RunRegisterCopy, RunRegisterPaste, RunPut, RunRegisterLs,
                        RunRegisterRm, RunTouch, Reads
    <3>2. ~cli.request.wild
      BY <1>1, <2>6, RequestNames
    <3>3. a.tag = "RERR" => Touched = {}
      BY <2>3, <2>4, <3>2
    <3> QED BY <1>4, <1>6, <3>1, <3>3, ExitTouched
  <2>7. CASE cli.request.verb = "rm"
    <3>1. RunRegisterRm
      BY <2>7 DEF ReadFrame, RunRegisterCopy, RunRegisterPaste, RunPut, RunRegisterLs, RunTouch, Reads
    <3>2. a.tag # "RLST"
      BY <2>1, <2>7 DEF Replied
    <3>3. \/ a.tag = "RDEL" /\ GoOn(Left)
          \/ a.tag = "NONE" /\ GoOn(Left)
          \/ a.tag = "NONE" /\ ~cli.request.wild /\ Exit("absent")
      BY <2>2, <3>1, <3>2 DEF RunRegisterRm, PickTargets, PassOver
    <3>4. CASE GoOn(Left)
      <4>1. Left \subseteq cli.request.names /\ Touched \subseteq cli.request.names \ Left
        <5>1. Target(cli.todo) \in cli.todo
          BY <2>3, TargetIn
        <5> QED BY <2>3, <2>5, <5>1 DEF Left
      <4>2. conn.inn = <<>> /\ conn.out = <<a>>
        BY <2>1 DEF Answered
      <4> QED BY <1>4, <3>4, <4>1, <4>2, GoOnTouched
    <3>5. CASE a.tag = "NONE" /\ ~cli.request.wild /\ Exit("absent")
      <4>1. Touched = {}
        BY <2>3, <2>4, <3>5
      <4> QED BY <1>4, <1>6, <3>5, <4>1, ExitTouched
    <3> QED BY <3>3, <3>4, <3>5
  <2> QED BY <1>9, <2>6, <2>7
<1> QED BY <1>2, <1>7, <1>8, <1>9

LEMMA ExactKept ==
    ASSUME StoreInv, TypeInv, HistoryStep, ExchangeInv, ExactInv, Next
    PROVE  ExactInv'
<1>0. faults \in Nat /\ (Fault => faults' \in Nat /\ faults' # 0)
  BY DEF ExactInv, Fault
<1>00. ASSUME wrote' = wrote, orphans' = orphans, faults' = faults, Touched \subseteq Touched'
       PROVE  ExactInv'
  BY <1>00 DEF ExactInv, Once
<1>000. ASSUME wrote' = wrote, orphans' = orphans, faults' = faults, Touched = {}
        PROVE  ExactInv'
  BY <1>000, <1>00
<1>1. ASSUME NEW r \in Requests, Begin(r) PROVE ExactInv'
  <2>1. Touched = {} /\ wrote' = wrote /\ orphans' = orphans /\ faults' = faults
    BY <1>1 DEF Begin, Touched
  <2> QED BY <2>1, <1>000
<1>2. CASE HandleFrame
  <2>1. faults' = faults /\ orphans' = orphans
    BY <1>2 DEF HandleFrame
  <2> QED BY <1>2, <2>1, HandleExact DEF ExactInv
<1>3. CASE ReadFrame
  BY <1>00, <1>3, ReadExact, ReadShape
<1>4. CASE GiveUp \/ \E h \in Host : Unreachable(h) \/ Restart(h)
  <2>1. Fault
    BY <1>4 DEF GiveUp, Unreachable, Restart
  <2> QED BY <1>0, <2>1 DEF ExactInv
<1>5. CASE ReportNoGateway
  <2>1. Touched = {} /\ wrote' = wrote /\ orphans' = orphans /\ faults' = faults
    BY <1>5, GatewayAssumption DEF ReportNoGateway, Touched, Running, ExitCode
  <2> QED BY <2>1, <1>000
<1>6. ASSUME NEW o \in orphans, HandleOrphan(o) \/ LoseOrphan(o) PROVE ExactInv'
  <2>1. faults' = faults /\ faults # 0
    BY <1>6 DEF HandleOrphan, LoseOrphan, ExactInv
  <2> QED BY <1>0, <2>1 DEF ExactInv
<1>7. ASSUME NEW h \in Host, Dial(h) PROVE ExactInv'
  <2>1. Touched = {} /\ wrote' = wrote /\ orphans' = orphans /\ faults' = faults
    BY <1>7, GatewayAssumption DEF Dial, Touched, Running, ExitCode
  <2> QED BY <2>1, <1>000
<1>8. CASE UNCHANGED <<clips, cli, conn, orphans, start, wrote, faults>>
  BY <1>8, <1>00 DEF Touched, Acked
<1> QED BY <1>1, <1>2, <1>3, <1>4, <1>5, <1>6, <1>7, <1>8, ClientOrNot DEF ClientStep

-----------------------------------------------------------------------------
(* Together.                                                                *)
GatewayInv ==
    /\ StoreInv /\ SpreadInv /\ TypeInv
    /\ WroteInv /\ StartInv /\ ExchangeInv /\ ExactInv
    /\ RenameInv

LEMMA GatewayInit == Init => GatewayInv
<1> SUFFICES ASSUME Init PROVE GatewayInv
  OBVIOUS
<1>1. PICK held \in SUBSET Name, v \in Value :
         store = [h \in Host |-> [n \in Name |->
            IF n \in held THEN [stamp |-> 1, value |-> v, private |-> FALSE] ELSE Absent]]
  BY DEF Init
<1>2. [stamp |-> 1, value |-> v, private |-> FALSE] \in Record
  BY DEF Record
<1>3. store \in [Host -> [Name -> Cell]]
  BY <1>1, <1>2 DEF Cell
<1>4. \A h \in Host, n \in Name : store[h][n] = IF n \in held
          THEN [stamp |-> 1, value |-> v, private |-> FALSE] ELSE Absent
  BY <1>1
<1>5. \A h \in Host, n \in Name : Stamp(store[h][n]) \in Nat /\ Stamp(store[h][n]) <= 1
  BY <1>4 DEF Stamp
<1>6. /\ now = 1 /\ spread = {} /\ clips = {} /\ cli = None /\ conn = None /\ orphans = {}
      /\ wrote = <<>> /\ start = store /\ rename = None /\ faults = 0
      /\ ui = [h \in Host |-> None] /\ undo = [h \in Host |-> None]
  BY DEF Init
<1>7. StoreInv
  BY <1>3, <1>5, <1>6 DEF StoreInv
<1>8. SpreadInv
  <2>1. \A h, p \in Host, n \in Name : store[h][n] = store[p][n]
    BY <1>4
  <2> QED BY <1>5, <1>6, <2>1 DEF SpreadInv, Covered
<1>9. TypeInv
  BY <1>3, <1>6 DEF TypeInv, ClientTypes, HistoryTypes, EditTypes
<1>10. WroteInv /\ StartInv
  BY <1>6 DEF WroteInv, StartInv
<1>11. ExchangeInv /\ RenameInv
  BY <1>6 DEF ExchangeInv, Running, RenameInv, RenameTypes, RenameHeld
<1>12. ExactInv
  BY <1>6 DEF ExactInv, Once
<1> QED BY <1>7, <1>8, <1>9, <1>10, <1>11, <1>12 DEF GatewayInv

LEMMA GatewayNext == GatewayInv /\ [Next]_vars => GatewayInv'
<1> SUFFICES ASSUME GatewayInv, [Next]_vars PROVE GatewayInv'
  OBVIOUS
<1> USE DEF GatewayInv
<1>1. CASE Next
  <2>1. StoreStep /\ HistoryStep
    BY <1>1, NextStore, NextHistory
  <2>2. StoreInv' /\ SpreadInv' /\ WroteInv' /\ StartInv'
    BY <2>1, StoreInvKept, SpreadKept, WroteKept, StartKept
  <2>3. TypeInv'
    BY <1>1, <2>1, <2>2, ClientTypesKept, HistoryTypesKept, EditTypesKept DEF TypeInv
  <2>4. ExchangeInv'
    BY <1>1, <2>1, ExchangeKept
  <2>5. ExactInv'
    BY <1>1, <2>1, ExactKept
  <2>6. RenameInv'
    BY <1>1, RenameKept
  <2> QED BY <2>2, <2>3, <2>4, <2>5, <2>6
<1>2. CASE UNCHANGED vars
  <2>1. UNCHANGED <<now, store, spread, clips, cli, conn, orphans, start, wrote, ui, undo, rename, faults>>
    BY <1>2 DEF vars, cliVars, uiVars
  <2>2. StoreStep /\ HistoryStep
    BY <2>1 DEF StoreStep, HistoryStep
  <2>3. StoreInv' /\ SpreadInv' /\ WroteInv' /\ StartInv'
    BY <2>2, StoreInvKept, SpreadKept, WroteKept, StartKept
  <2>4. TypeInv'
    BY <2>1 DEF TypeInv, ClientTypes, HistoryTypes, EditTypes
  <2>5. ExchangeInv'
    BY <2>1, <2>2, ExchangeFrame
  <2>6. ExactInv'
    BY <2>1 DEF ExactInv, Once, Touched, Acked
  <2>7. RenameInv'
    BY <2>1, RenameFrame
  <2> QED BY <2>3, <2>4, <2>5, <2>6, <2>7
<1> QED BY <1>1, <1>2

(* The stores, the command with its connection and the edits under way keep
   in step: what one daemon holds the others hold or will be brought, each
   question has the one answer its command waits for, and a rename has its
   value under one of its names (Cli.cpp, Peer.cpp, ClipboardActions.cpp).  *)
THEOREM GatewayInvariant == Spec => []GatewayInv
BY GatewayInit, GatewayNext, PTL DEF Spec

(* SuccessLasts of a state of the invariant.                                *)
LEMMA SuccessFollows == GatewayInv => SuccessLasts
<1> SUFFICES ASSUME GatewayInv, cli # None, cli.exit = "ok", Quiet
             PROVE  LET r == cli.request
                    IN  /\ r.verb = "copy" => \E i \in DOMAIN wrote : \A n \in r.names, h \in Host :
                                                Stamp(store[h][n]) >= wrote[i].stamp
                        /\ r.verb = "rm" => \A n \in r.names :
                             (\A h, p \in Host : start[h][n] = start[p][n]) =>
                                \A h \in Host : start[h][n] \notin {Absent} =>
                                    store[h][n] # start[h][n] \/ start[h][n].value = Gone
                        /\ r.verb = "put" => clips # {}
  BY DEF SuccessLasts
<1> USE DEF GatewayInv
<1>1. Achieved /\ spread = {}
  BY DEF ExchangeInv, Quiet
<1>2. /\ cli.request.names \subseteq Name
      /\ cli.request.verb = "copy" => \E n \in Name : cli.request.names = {n}
  BY RequestNames
<1>3. ASSUME cli.request.verb = "copy"
      PROVE  \E i \in DOMAIN wrote : \A n \in cli.request.names, h \in Host :
                Stamp(store[h][n]) >= wrote[i].stamp
  <2>1. PICK i \in DOMAIN wrote : wrote[i].name \in cli.request.names
    BY <1>1, <1>3 DEF Achieved, Copied
  <2>2. \A h \in Host : Stamp(store[h][wrote[i].name]) >= wrote[i].stamp
    BY <1>1 DEF WroteInv, Covered
  <2> QED BY <1>2, <1>3, <2>1, <2>2
<1>4. ASSUME cli.request.verb = "rm", NEW n \in cli.request.names,
             \A h, p \in Host : start[h][n] = start[p][n],
             NEW h \in Host, start[h][n] # Absent, start[h][n].value # Gone
      PROVE  store[h][n] # start[h][n]
  <2>1. n \in Name /\ Dealt(n) /\ Common(n)
    BY <1>1, <1>2, <1>4 DEF Achieved, RmDealt, Common
  <2>2. PICK p \in Host : Stamp(store[p][n]) > Stamp(start[p][n])
    BY <2>1 DEF Dealt
  <2>3. Stamp(store[h][n]) >= Stamp(store[p][n])
    BY <1>1, <2>1 DEF SpreadInv, Covered
  <2>4. start[p][n] = start[h][n]
    BY <1>4
  <2>5. Stamp(store[h][n]) \in Nat /\ Stamp(store[p][n]) \in Nat /\ Stamp(start[h][n]) \in Nat
    BY <2>1, CellStamp DEF StoreInv, TypeInv, HistoryTypes
  <2>6. Stamp(store[h][n]) > Stamp(start[h][n])
    BY <2>2, <2>3, <2>4, <2>5
  <2> QED BY <2>5, <2>6
<1>5. cli.request.verb = "put" => clips # {}
  BY <1>1 DEF Achieved
<1> QED BY <1>3, <1>4, <1>5

(* A command that reports success has done it for good, whatever connections
   failed, daemons restarted and edits raced with it: its acknowledgements come
   after the write, and a written record reaches every daemon (SuccessLasts). *)
THEOREM GatewaySuccessLasts == Spec => []SuccessLasts
BY GatewayInvariant, SuccessFollows, PTL

LEMMA ExactFollows == GatewayInv => FaultFreeIsExact
<1> SUFFICES ASSUME GatewayInv, cli # None, cli.exit # None, faults = 0
             PROVE  /\ \A i, j \in DOMAIN wrote : wrote[i].name = wrote[j].name => i = j
                    /\ \A i \in DOMAIN wrote : wrote[i].name \in cli.request.names
                    /\ cli.exit # "ok" \/ cli.request.verb \notin {"copy", "rm"} => wrote = <<>>
  BY DEF FaultFreeIsExact
<1> USE DEF GatewayInv
<1>1. Once /\ \A i \in DOMAIN wrote : wrote[i].name \in Touched
  BY DEF ExactInv
<1>2. Touched \subseteq cli.request.names
  BY TouchedAsked
<1>3. ASSUME cli.exit # "ok" \/ cli.request.verb \notin {"copy", "rm"}
      PROVE  wrote = <<>>
  <2>1. Touched = {}
    BY <1>3 DEF Touched
  <2>2. wrote \in Seq(Put) /\ Len(wrote) \in Nat /\ DOMAIN wrote = 1 .. Len(wrote)
    BY DEF TypeInv, HistoryTypes
  <2>3. DOMAIN wrote = {}
    BY <1>1, <2>1
  <2>4. Len(wrote) = 0
    <3>1. CASE Len(wrote) > 0
      <4>1. 1 \in DOMAIN wrote
        BY <2>2, <3>1
      <4> QED BY <2>3, <4>1
    <3> QED BY <2>2, <3>1
  <2> QED BY <2>2, <2>4
<1> QED BY <1>1, <1>2, <1>3 DEF Once

(* A command without failures writes each register it was asked about once,
   no other, and none when it reports a refusal (FaultFreeIsExact).         *)
THEOREM GatewayFaultFreeIsExact == Spec => []FaultFreeIsExact
BY GatewayInvariant, ExactFollows, PTL

LEMMA RenameFollows == GatewayInv => RenameKeepsValue
BY DEF GatewayInv, RenameInv, RenameHeld, RenameKeepsValue, Holds

(* A rename never leaves its value without a name, across a refusal of the new
   name and a restart half way (RenameKeepsValue).                          *)
THEOREM GatewayRenameKeepsValue == Spec => []RenameKeepsValue
BY GatewayInvariant, RenameFollows, PTL

=============================================================================
