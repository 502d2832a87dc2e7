----------------------------- MODULE Link_proofs -----------------------------
(***************************************************************************)
(* The connections of a dialler, for any serving threads, records, sizes    *)
(* and buffers and any number of messages and failures.  A message passes   *)
(* from the queue through the hands of the outgoing thread and a wire to    *)
(* the thread that serves it: each step carries messages from place to      *)
(* place, and none past another of its connection.  That it does so depends *)
(* on where the outgoing thread may have a frame in hand, and on how much   *)
(* of it is sent.  What is under way over different connections has only to *)
(* be different messages.                                                   *)
(***************************************************************************)
EXTENDS Link, FiniteSetTheorems, SequenceTheorems, TLAPS

PCs == {"connecting", "backoff", "handshake", "top", "drain", "select", "recv", "none"}

Frame ==
    [tag : {"RSYN"}, records : SUBSET Record, size : {1}]
    \cup [tag : {"REGW"}, record : Record, size : Nat \ {0}]
    \cup [tag : {"CLIP"}, message : Nat, size : {1}]
    \cup [tag : {"PING", "PONG", "REOS"}, size : {1}]

Part == [frame : Frame, n : Nat \ {0}, good : BOOLEAN]

LinkTypes ==
    /\ pc \in [End -> PCs]
    /\ work \in [End -> Seq(Frame)] /\ sent \in [End -> Nat] /\ read \in [End -> Nat]
    /\ late \in BOOLEAN /\ line \in Serving
    /\ wire \in [Channel -> Seq(Part)]
    /\ spoiled \in [Channel -> BOOLEAN] /\ closed \in [Channel -> BOOLEAN]
    /\ dead \in [Serving -> BOOLEAN]
    /\ queue \in Seq(Nat) /\ wake \in BOOLEAN /\ ringing \in BOOLEAN /\ pushed \in Nat
    /\ has \in [Side -> SUBSET Record] /\ got \in Seq(Nat) /\ broken \in BOOLEAN

(* The outgoing thread waits and reads with nothing in hand.                *)
HandsFree ==
    pc[C] \in {"connecting", "backoff", "handshake", "select", "recv"} => work[C] = <<>>

(* A message is in hand alone, and not yet sent.                            *)
OneInHand ==
    /\ \A i \in DOMAIN work[C] : work[C][i].tag = "CLIP" => Len(work[C]) = 1
    /\ IF work[C] = <<>> THEN sent[C] = 0 ELSE sent[C] < Head(work[C]).size

(* Until a connection fails there is one, once it is there.                 *)
FreshWire ==
    ~broken => \A n \in Serving :
        wire[<<C, n>>] # <<>> => n = line /\ pc[C] \notin {"connecting", "backoff"}

ServerSendsNoMessage ==
    \A n \in Serving :
        /\ \A i \in DOMAIN work[n] : work[n][i].tag # "CLIP"
        /\ \A i \in DOMAIN wire[<<n, C>>] : wire[<<n, C>>][i].frame.tag # "CLIP"

NotStranded == pc[C] = "select" /\ queue # <<>> => wake \/ ringing

MessagesWerePushed ==
    /\ Handled \subseteq 1 .. pushed
    /\ \A n \in Serving : UnderWay(n) \subseteq 1 .. pushed

ControlInv == HandsFree /\ OneInHand /\ FreshWire /\ ServerSendsNoMessage /\ NotStranded

LinkInv == LinkTypes /\ ControlInv /\ MessagesWerePushed /\ Accounted

-----------------------------------------------------------------------------
(***************************************************************************)
(* Frames.                                                                 *)
(***************************************************************************)
LEMMA FrameFacts ==
    ASSUME NEW f \in Frame
    PROVE  /\ f.size \in Nat \ {0}
           /\ f.tag = "CLIP" => f.size = 1 /\ f.message \in Nat
           /\ f.tag = "REGW" => f.record \in Record
           /\ f.tag = "RSYN" => f.records \in SUBSET Record
BY DEF Frame

LEMMA FramesTyped ==
    /\ \A records \in SUBSET Record : RSYN(records) \in Frame /\ RSYN(records).tag = "RSYN"
    /\ \A r \in Record : REGW(r) \in Frame /\ REGW(r).tag = "REGW"
    /\ \A m \in Nat : CLIP(m) \in Frame /\ CLIP(m).tag = "CLIP" /\ CLIP(m).message = m
                      /\ CLIP(m).size = 1
    /\ \A tag \in {"PING", "PONG", "REOS"} : Small(tag) \in Frame /\ Small(tag).tag = tag
<1>1. \A records \in SUBSET Record : RSYN(records) \in Frame /\ RSYN(records).tag = "RSYN"
  BY DEF RSYN, Frame
<1>2. \A r \in Record : REGW(r) \in Frame /\ REGW(r).tag = "REGW"
  BY LinkAssumption DEF LinkAssumption, REGW, Frame
<1>3. \A m \in Nat : CLIP(m) \in Frame /\ CLIP(m).tag = "CLIP" /\ CLIP(m).message = m
                     /\ CLIP(m).size = 1
  BY DEF CLIP, Frame
<1>4. \A tag \in {"PING", "PONG", "REOS"} : Small(tag) \in Frame /\ Small(tag).tag = tag
  BY DEF Small, Frame
<1> QED BY <1>1, <1>2, <1>3, <1>4

LEMMA AppendNoMessage ==
    ASSUME NEW frames \in Seq(Frame), \A i \in DOMAIN frames : frames[i].tag # "CLIP",
           NEW last \in Frame, last.tag # "CLIP"
    PROVE  /\ frames \o <<last>> \in Seq(Frame) /\ frames \o <<last>> # <<>>
           /\ \A i \in DOMAIN (frames \o <<last>>) : (frames \o <<last>>)[i].tag # "CLIP"
<1>1. PICK n \in Nat : n = Len(frames) /\ DOMAIN frames = 1 .. n
  OBVIOUS
<1>2. PICK all \in Seq(Frame) : all = frames \o <<last>>
  <2>1. <<last>> \in Seq(Frame)
    OBVIOUS
  <2>2. \A tail \in Seq(Frame) : frames \o tail \in Seq(Frame)
    OBVIOUS
  <2> QED BY <2>1, <2>2
<1>3. /\ Len(all) = n + 1 /\ DOMAIN all = 1 .. n + 1 /\ all[n + 1] = last
      /\ \A i \in 1 .. n : all[i] = frames[i]
  BY <1>1, <1>2
<1>4. \A i \in 1 .. n + 1 : i \in 1 .. n \/ i = n + 1
  OBVIOUS
<1>5. \A i \in 1 .. n + 1 : all[i].tag # "CLIP"
  BY <1>1, <1>3, <1>4
<1>6. all # <<>>
  BY <1>3
<1> QED BY <1>2, <1>3, <1>5, <1>6

(* The answer to a digest: records and the end of the sync.                 *)
LEMMA AnswerTyped ==
    ASSUME NEW records \in SUBSET Record, NEW order \in SetToSeqs(records)
    PROVE  LET answer == [i \in DOMAIN order |-> REGW(order[i])] \o <<Small("REOS")>>
           IN  /\ answer \in Seq(Frame) /\ answer # <<>>
               /\ \A i \in DOMAIN answer : answer[i].tag # "CLIP"
<1>1. PICK n \in Nat : n = Cardinality(records)
  BY LinkAssumption, FS_Subset, FS_CardinalityType DEF LinkAssumption
<1>2. order \in [1 .. n -> records]
  BY <1>1 DEF SetToSeqs
<1>3. PICK told : told = [i \in DOMAIN order |-> REGW(order[i])]
  OBVIOUS
<1>4. told \in [1 .. n -> Frame] /\ \A i \in 1 .. n : told[i].tag = "REGW"
  BY <1>2, <1>3, FramesTyped
<1>5. told \in Seq(Frame) /\ DOMAIN told = 1 .. n
  BY <1>4
<1>6. PICK eos \in Frame : eos = Small("REOS") /\ eos.tag = "REOS"
  BY FramesTyped
<1>7. \A i \in DOMAIN told : told[i].tag # "CLIP"
  BY <1>4, <1>5
<1>8. /\ told \o <<eos>> \in Seq(Frame) /\ told \o <<eos>> # <<>>
      /\ \A i \in DOMAIN (told \o <<eos>>) : (told \o <<eos>>)[i].tag # "CLIP"
  BY <1>5, <1>6, <1>7, AppendNoMessage
<1> QED BY <1>3, <1>6, <1>8

(* A sequence with one element more at its end, or without its first.       *)
LEMMA Appended ==
    ASSUME NEW T, NEW s \in Seq(T), NEW x \in T
    PROVE  /\ Append(s, x) \in Seq(T) /\ Append(s, x) # <<>>
           /\ Len(s) \in Nat /\ DOMAIN s = 1 .. Len(s)
           /\ DOMAIN Append(s, x) = 1 .. (Len(s) + 1)
           /\ \A i \in 1 .. Len(s) : Append(s, x)[i] = s[i]
           /\ Append(s, x)[Len(s) + 1] = x
OBVIOUS

LEMMA Tailed ==
    ASSUME NEW T, NEW s \in Seq(T), s # <<>>
    PROVE  /\ Head(s) \in T /\ Head(s) = s[1] /\ Tail(s) \in Seq(T)
           /\ Len(s) \in Nat \ {0} /\ Len(Tail(s)) = Len(s) - 1
           /\ DOMAIN s = 1 .. Len(s) /\ DOMAIN Tail(s) = 1 .. (Len(s) - 1)
           /\ \A i \in 1 .. (Len(s) - 1) : Tail(s)[i] = s[i + 1]
<1>1. /\ Head(s) \in T /\ Tail(s) \in Seq(T) /\ Len(Tail(s)) = Len(s) - 1
      /\ \A i \in 1 .. Len(Tail(s)) : Tail(s)[i] = s[i + 1]
  BY HeadTailProperties
<1>2. Len(s) \in Nat \ {0} /\ DOMAIN s = 1 .. Len(s)
  BY EmptySeq, LenProperties
<1>3. DOMAIN Tail(s) = 1 .. Len(Tail(s))
  BY <1>1, LenProperties
<1>4. Head(s) = s[1]
  BY DEF Head
<1> QED BY <1>1, <1>2, <1>3, <1>4

(* What is true of every element stays true of every element.               *)
LEMMA TailKeepsAll ==
    ASSUME NEW s \in Seq(Frame), s # <<>>, \A i \in DOMAIN s : s[i].tag # "CLIP"
    PROVE  \A i \in DOMAIN Tail(s) : Tail(s)[i].tag # "CLIP"
<1>1. PICK n \in Nat \ {0} : n = Len(s)
  BY Tailed
<1>2. \A i \in 1 .. (n - 1) : Tail(s)[i] = s[i + 1] /\ i + 1 \in 1 .. n
  BY <1>1, Tailed
<1>3. DOMAIN s = 1 .. n /\ DOMAIN Tail(s) = 1 .. (n - 1)
  BY <1>1, Tailed
<1> QED BY <1>2, <1>3

LEMMA TailKeepsAllParts ==
    ASSUME NEW s \in Seq(Part), s # <<>>, \A i \in DOMAIN s : s[i].frame.tag # "CLIP"
    PROVE  \A i \in DOMAIN Tail(s) : Tail(s)[i].frame.tag # "CLIP"
<1>1. PICK n \in Nat \ {0} : n = Len(s)
  BY Tailed
<1>2. \A i \in 1 .. (n - 1) : Tail(s)[i] = s[i + 1] /\ i + 1 \in 1 .. n
  BY <1>1, Tailed
<1>3. DOMAIN s = 1 .. n /\ DOMAIN Tail(s) = 1 .. (n - 1)
  BY <1>1, Tailed
<1> QED BY <1>2, <1>3

-----------------------------------------------------------------------------
(***************************************************************************)
(* Types, and what the threads have in hand.                               *)
(***************************************************************************)
LEMMA Ends ==
    /\ C \in End /\ C \notin Serving /\ Serving \subseteq End
    /\ \A e \in End : e = C \/ e \in Serving
    /\ C \in Side /\ S \in Side
    /\ \A e \in End : Store(e) \in Side
BY LinkAssumption DEF LinkAssumption, C, S, Side, End, Store

LEMMA Channels ==
    ASSUME line \in Serving
    PROVE  /\ \A n \in Serving : <<C, n>> \in Channel /\ <<n, C>> \in Channel
           /\ \A n \in Serving : n # C /\ Out(n) = <<n, C>> /\ In(n) = <<C, n>> /\ Cable(n) = n
           /\ Out(C) = <<C, line>> /\ In(C) = <<line, C>> /\ Cable(C) = line
           /\ \A e \in End : Out(e) \in Channel /\ In(e) \in Channel /\ Cable(e) \in Serving
<1>1. \A n \in Serving : <<C, n>> \in Channel /\ <<n, C>> \in Channel
  BY DEF Channel
<1>2. \A n \in Serving : n # C /\ Out(n) = <<n, C>> /\ In(n) = <<C, n>> /\ Cable(n) = n
  BY Ends DEF Out, In, Other, Cable
<1>3. Out(C) = <<C, line>> /\ In(C) = <<line, C>> /\ Cable(C) = line
  BY DEF Out, In, Other, Cable
<1> QED BY <1>1, <1>2, <1>3, Ends

(* What a thread sends, and so its part of the invariant, is left alone.    *)
LEMMA SameHands ==
    ASSUME ControlInv, work' = work, sent' = sent, wire' = wire, line' = line, broken => broken'
    PROVE  /\ OneInHand' /\ ServerSendsNoMessage'
           /\ pc'[C] = pc[C] => HandsFree' /\ FreshWire'
<1>1. OneInHand' /\ ServerSendsNoMessage'
  BY DEF ControlInv, OneInHand, ServerSendsNoMessage
<1>2. pc'[C] = pc[C] => HandsFree' /\ FreshWire'
  BY DEF ControlInv, HandsFree, FreshWire
<1> QED BY <1>1, <1>2

LEMMA PushKeeps ==
    ASSUME LinkTypes, ControlInv, Push \/ Signal
    PROVE  LinkTypes' /\ ControlInv'
<1>1. UNCHANGED <<pc, work, sent, read, late, line, wire, spoiled, closed, dead, has, got, broken>>
  BY DEF Push, Signal, threads, socket
<1>2. wake' \in BOOLEAN /\ ringing' \in BOOLEAN
  BY DEF LinkTypes, Push, Signal
<1>3. queue' \in Seq(Nat) /\ pushed' \in Nat
  <2>1. UNCHANGED <<queue, pushed>> \/ (pushed' = pushed + 1 /\ queue' = Append(queue, pushed + 1))
    BY DEF Push, Signal
  <2>2. queue \in Seq(Nat) /\ pushed \in Nat /\ pushed + 1 \in Nat
    BY DEF LinkTypes
  <2> QED BY <2>1, <2>2
<1>4. LinkTypes'
  BY <1>1, <1>2, <1>3 DEF LinkTypes
<1>5. NotStranded'
  BY <1>1 DEF ControlInv, NotStranded, Push, Signal
<1> QED BY <1>1, <1>4, <1>5, SameHands DEF ControlInv

(* The outgoing thread goes on with nothing in hand, as it was.             *)
LEMMA WalkKeeps ==
    ASSUME LinkTypes, ControlInv,
           ConnectWoken \/ ConnectFails \/ Backoff \/ SelectWoken \/ SelectTimesOut \/ Woken
    PROVE  LinkTypes' /\ ControlInv'
<1>1. UNCHANGED <<work, sent, read, line, wire, spoiled, closed, dead, queue, ringing, pushed, has,
                  got, broken>>
  BY DEF ConnectWoken, ConnectFails, Backoff, SelectWoken, SelectTimesOut, Woken, socket, outbox,
         threads
<1>2. wake' \in BOOLEAN /\ late' \in BOOLEAN
  BY DEF LinkTypes, ConnectWoken, ConnectFails, Backoff, SelectWoken, SelectTimesOut, Woken, outbox,
         threads
<1>3. \/ /\ pc[C] \in {"connecting", "backoff"}
         /\ \E place \in {"connecting", "backoff"} : pc' = [pc EXCEPT ![C] = place]
      \/ pc[C] = "select" /\ pc' = [pc EXCEPT ![C] = "top"]
      \/ pc' = pc /\ pc[C] # "select"
  <2>1. CASE Woken
    BY <2>1 DEF Woken, Sending, threads, ControlInv, HandsFree
  <2> QED BY <2>1 DEF ConnectWoken, ConnectFails, Backoff, SelectWoken, SelectTimesOut, At
<1>4. LinkTypes'
  BY <1>1, <1>2, <1>3, Ends DEF LinkTypes, PCs
<1>5. pc'[C] # "select" /\ (pc'[C] = pc[C] \/ pc'[C] \in {"connecting", "backoff", "top"})
      /\ (pc'[C] \in {"connecting", "backoff"} /\ pc'[C] # pc[C] => pc[C] \in {"connecting", "backoff"})
  BY <1>3, Ends DEF LinkTypes
<1>6. HandsFree' /\ FreshWire' /\ NotStranded'
  BY <1>1, <1>5 DEF ControlInv, HandsFree, FreshWire, NotStranded
<1> QED BY <1>1, <1>4, <1>6, SameHands DEF ControlInv

(* A thread that is free takes the new socket, on which nothing was sent.   *)
LEMMA ConnectSteps ==
    ASSUME LinkTypes, ConnectSocket
    PROVE  /\ UNCHANGED <<work, sent, read, late, queue, wake, ringing, pushed, has, got, broken>>
           /\ pc[C] = "connecting" /\ line' \in Serving
           /\ pc' = [pc EXCEPT ![C] = "handshake", ![line'] = "handshake"]
           /\ wire' = [wire EXCEPT ![<<C, line'>>] = <<>>, ![<<line', C>>] = <<>>]
           /\ spoiled' \in [Channel -> BOOLEAN] /\ closed' \in [Channel -> BOOLEAN]
           /\ dead' \in [Serving -> BOOLEAN]
<1>1. /\ UNCHANGED <<work, sent, read, late, queue, wake, ringing, pushed, has, got, broken>>
      /\ pc[C] = "connecting"
      /\ pc' = [pc EXCEPT ![C] = "handshake", ![line'] = "handshake"]
      /\ wire' = [wire EXCEPT ![<<C, line'>>] = <<>>, ![<<line', C>>] = <<>>]
  BY DEF ConnectSocket, outbox
<1>2. line' \in Serving
  <2>1. Free # {} /\ line' = CHOOSE n \in Free : TRUE
    BY DEF ConnectSocket
  <2> QED BY <2>1 DEF Free
<1>3. spoiled' \in [Channel -> BOOLEAN] /\ closed' \in [Channel -> BOOLEAN]
  BY DEF LinkTypes, ConnectSocket
<1>4. dead' \in [Serving -> BOOLEAN]
  BY DEF LinkTypes, ConnectSocket
<1> QED BY <1>1, <1>2, <1>3, <1>4

LEMMA ConnectKeeps ==
    ASSUME LinkTypes, ControlInv, ConnectSocket
    PROVE  LinkTypes' /\ ControlInv'
<1>1. /\ UNCHANGED <<work, sent, read, late, queue, wake, ringing, pushed, has, got, broken>>
      /\ pc[C] = "connecting" /\ line' \in Serving
      /\ pc' = [pc EXCEPT ![C] = "handshake", ![line'] = "handshake"]
      /\ wire' = [wire EXCEPT ![<<C, line'>>] = <<>>, ![<<line', C>>] = <<>>]
      /\ spoiled' \in [Channel -> BOOLEAN] /\ closed' \in [Channel -> BOOLEAN]
      /\ dead' \in [Serving -> BOOLEAN]
  BY ConnectSteps
<1>2. PICK l \in Serving : l = line'
  BY <1>1
<1>3. pc' \in [End -> PCs] /\ pc'[C] = "handshake"
  <2>1. pc' = [pc EXCEPT ![C] = "handshake", ![l] = "handshake"]
    BY <1>1, <1>2
  <2> QED BY <2>1, Ends DEF LinkTypes, PCs
<1>4. wire' \in [Channel -> Seq(Part)] /\ \A ch \in Channel : wire'[ch] = wire[ch] \/ wire'[ch] = <<>>
  <2>1. wire' = [wire EXCEPT ![<<C, l>>] = <<>>, ![<<l, C>>] = <<>>]
    BY <1>1, <1>2
  <2>2. <<>> \in Seq(Part)
    OBVIOUS
  <2> QED BY <2>1, <2>2 DEF LinkTypes
<1>5. LinkTypes'
  BY <1>1, <1>3, <1>4 DEF LinkTypes
<1>6. \A n \in Serving : <<C, n>> \in Channel /\ <<n, C>> \in Channel
  BY DEF Channel
<1>7. FreshWire'
  <2>1. ASSUME ~broken, NEW n \in Serving PROVE wire'[<<C, n>>] = <<>>
    BY <1>1, <1>4, <1>6, <2>1 DEF ControlInv, FreshWire
  <2> QED BY <1>1, <2>1 DEF FreshWire
<1>8. HandsFree' /\ NotStranded'
  BY <1>1, <1>3 DEF ControlInv, HandsFree, NotStranded
<1>9. OneInHand'
  BY <1>1 DEF ControlInv, OneInHand
<1>10. ServerSendsNoMessage'
  <2>1. DOMAIN <<>> = {}
    OBVIOUS
  <2> QED BY <1>1, <1>4, <1>6, <2>1 DEF ControlInv, ServerSendsNoMessage
<1> QED BY <1>5, <1>7, <1>8, <1>9, <1>10 DEF ControlInv

LEMMA CutKeeps ==
    ASSUME LinkTypes, ControlInv, NEW n \in Serving, Cut(n)
    PROVE  LinkTypes' /\ ControlInv'
<1>1. /\ UNCHANGED <<pc, work, sent, read, late, line, wire, spoiled, closed, queue, wake, ringing,
                     pushed, has, got>>
      /\ dead' = [dead EXCEPT ![n] = TRUE] /\ broken' = TRUE
  BY DEF Cut, threads, outbox
<1>2. LinkTypes'
  BY <1>1 DEF LinkTypes
<1>3. NotStranded'
  BY <1>1 DEF ControlInv, NotStranded
<1> QED BY <1>1, <1>2, <1>3, SameHands DEF ControlInv

(* New work for one end, whose hands are free: at most one message, alone.  *)
LEMMA NewWork ==
    ASSUME LinkTypes, ControlInv, NEW e \in End, NEW frames \in Seq(Frame),
           work' = [work EXCEPT ![e] = frames], sent' = sent, wire' = wire,
           e = C => work[C] = <<>>,
           \A i \in DOMAIN frames : frames[i].tag = "CLIP" => e = C /\ Len(frames) = 1
    PROVE  /\ OneInHand' /\ ServerSendsNoMessage'
           /\ work' \in [End -> Seq(Frame)] /\ work'[e] = frames
           /\ \A d \in End : d # e => work'[d] = work[d]
<1>1. /\ work' \in [End -> Seq(Frame)] /\ work'[e] = frames
      /\ \A d \in End : d # e => work'[d] = work[d]
  BY DEF LinkTypes
<1>2. ServerSendsNoMessage'
  BY <1>1, Ends DEF ControlInv, ServerSendsNoMessage
<1>3. CASE e = C
  <2>1. work'[C] = frames /\ sent'[C] = 0
    BY <1>1, <1>3 DEF ControlInv, OneInHand
  <2>2. frames # <<>> => 0 < Head(frames).size
    <3>1. frames # <<>> => Head(frames) \in Frame
      OBVIOUS
    <3>2. \A f \in Frame : 0 < f.size
      BY FrameFacts
    <3> QED BY <3>1, <3>2
  <2> QED BY <1>1, <1>2, <1>3, <2>1, <2>2 DEF OneInHand
<1>4. CASE e # C
  BY <1>1, <1>2, <1>4, Ends DEF ControlInv, OneInHand
<1> QED BY <1>3, <1>4

LEMMA HandshakeKeeps ==
    ASSUME LinkTypes, ControlInv, ClientHandshake \/ \E n \in Serving : ServerHandshake(n)
    PROVE  LinkTypes' /\ ControlInv'
<1>1. /\ UNCHANGED <<sent, read, line, wire, spoiled, closed, dead, queue, wake, ringing, pushed,
                     has, got, broken>>
      /\ late' \in BOOLEAN
  BY DEF ClientHandshake, ServerHandshake, socket, outbox, LinkTypes
<1>2. PICK e \in End : /\ pc[e] = "handshake"
                       /\ pc' = [pc EXCEPT ![e] = IF e = C THEN "top" ELSE "select"]
                       /\ work' = [work EXCEPT ![e] = <<RSYN(has[Store(e)])>>]
  <2>1. CASE ClientHandshake
    BY <2>1, Ends DEF ClientHandshake, Store
  <2>2. ASSUME NEW n \in Serving, ServerHandshake(n)
        PROVE  /\ pc[n] = "handshake" /\ n \in End /\ n # C
               /\ pc' = [pc EXCEPT ![n] = "select"]
               /\ work' = [work EXCEPT ![n] = <<RSYN(has[Store(n)])>>]
    BY <2>2, Ends DEF ServerHandshake, Store
  <2>3. CASE \E n \in Serving : ServerHandshake(n)
    <3>1. PICK n \in Serving : ServerHandshake(n)
      BY <2>3
    <3>2. /\ pc[n] = "handshake" /\ n \in End /\ n # C
          /\ pc' = [pc EXCEPT ![n] = "select"]
          /\ work' = [work EXCEPT ![n] = <<RSYN(has[Store(n)])>>]
      BY <2>2, <3>1
    <3>3. pc' = [pc EXCEPT ![n] = IF n = C THEN "top" ELSE "select"]
      BY <3>2
    <3> QED BY <3>2, <3>3
  <2> QED BY <2>1, <2>3
<1>3. PICK f \in Frame : f = RSYN(has[Store(e)]) /\ f.tag = "RSYN"
  BY FramesTyped, Ends DEF LinkTypes
<1>4. PICK frames \in Seq(Frame) : /\ frames = <<RSYN(has[Store(e)])>>
                                   /\ \A i \in DOMAIN frames : frames[i].tag # "CLIP"
  <2>1. <<f>> \in Seq(Frame) /\ DOMAIN <<f>> = {1} /\ <<f>>[1] = f
    OBVIOUS
  <2>2. \A i \in DOMAIN <<f>> : <<f>>[i].tag # "CLIP"
    BY <1>3, <2>1
  <2> QED BY <1>3, <2>1, <2>2
<1>5. e = C => work[C] = <<>>
  BY <1>2 DEF ControlInv, HandsFree
<1>6. /\ OneInHand' /\ ServerSendsNoMessage' /\ work' \in [End -> Seq(Frame)]
      /\ \A d \in End : d # e => work'[d] = work[d]
  <2>1. work' = [work EXCEPT ![e] = frames]
    BY <1>2, <1>4, Zenon
  <2>2. sent' = sent /\ wire' = wire
    BY <1>1
  <2>3. \A i \in DOMAIN frames : frames[i].tag = "CLIP" => e = C /\ Len(frames) = 1
    BY <1>4, Zenon
  <2> QED BY <1>5, <2>1, <2>2, <2>3, NewWork
<1>7. /\ pc' \in [End -> PCs]
      /\ e = C => pc'[C] = "top"
      /\ e # C => pc'[C] = pc[C]
  BY <1>2, Ends DEF LinkTypes, PCs
<1>8. LinkTypes'
  BY <1>1, <1>6, <1>7 DEF LinkTypes
<1>9. HandsFree' /\ FreshWire' /\ NotStranded'
  BY <1>1, <1>6, <1>7, Ends DEF ControlInv, HandsFree, FreshWire, NotStranded
<1> QED BY <1>6, <1>8, <1>9 DEF ControlInv

(* A step of the loop of the outgoing thread: with free hands it takes a frame
   or none; it takes up waiting only when the queue is empty.               *)
LEMMA LoopKeeps ==
    ASSUME LinkTypes, ControlInv, Top \/ DrainOutboundMessages
    PROVE  LinkTypes' /\ ControlInv'
<1>1. /\ UNCHANGED <<sent, read, line, wire, spoiled, closed, dead, wake, ringing, pushed, has, got,
                     broken>>
      /\ work[C] = <<>> /\ late' \in BOOLEAN
      /\ pc[C] = "drain" \/ pc[C] = "top"
  BY DEF Top, DrainOutboundMessages, At, socket, outbox, LinkTypes
<1>2. \E place \in {"drain", "select"}, frames \in Seq(Frame) :
         /\ pc' = [pc EXCEPT ![C] = place]
         /\ work' = [work EXCEPT ![C] = frames]
         /\ \A i \in DOMAIN frames : Len(frames) = 1
         /\ place = "select" => queue' = <<>> /\ frames = <<>>
         /\ queue' \in Seq(Nat)
  <2>1. queue \in Seq(Nat) /\ <<>> \in Seq(Frame) /\ DOMAIN <<>> = {}
    BY DEF LinkTypes
  <2>2. \A f \in Frame : <<f>> \in Seq(Frame) /\ Len(<<f>>) = 1
    OBVIOUS
  <2>3. <<Small("PING")>> \in Seq(Frame) /\ Len(<<Small("PING")>>) = 1
    BY <2>2, FramesTyped
  <2>4. CASE Top
    <3>1. /\ pc' = [pc EXCEPT ![C] = "drain"] /\ queue' = queue
          /\ \E ping \in {<<>>, <<Small("PING")>>} : work' = [work EXCEPT ![C] = ping]
      BY <2>4 DEF Top, outbox
    <3> QED BY <2>1, <2>3, <3>1
  <2>6. CASE DrainOutboundMessages /\ queue = <<>>
    <3>1. pc' = [pc EXCEPT ![C] = "select"] /\ queue' = queue /\ work' = work
      BY <2>6 DEF DrainOutboundMessages
    <3>2. work' = [work EXCEPT ![C] = <<>>]
      BY <1>1, <3>1 DEF LinkTypes
    <3> QED BY <2>1, <2>6, <3>1, <3>2
  <2>7. CASE DrainOutboundMessages /\ queue # <<>>
    <3>1. /\ work' = [work EXCEPT ![C] = <<CLIP(Head(queue))>>]
          /\ queue' = Tail(queue) /\ pc' = pc /\ pc[C] = "drain"
      BY <2>7 DEF DrainOutboundMessages, At
    <3>2. pc' = [pc EXCEPT ![C] = "drain"]
      BY <3>1 DEF LinkTypes
    <3>3. Head(queue) \in Nat /\ Tail(queue) \in Seq(Nat)
      BY <2>1, <2>7
    <3>4. <<CLIP(Head(queue))>> \in Seq(Frame) /\ Len(<<CLIP(Head(queue))>>) = 1
      BY <2>2, <3>3, FramesTyped
    <3> QED BY <3>1, <3>2, <3>3, <3>4
  <2> QED BY <2>4, <2>6, <2>7
<1>3. PICK place \in {"drain", "select"}, frames \in Seq(Frame) :
         /\ pc' = [pc EXCEPT ![C] = place]
         /\ work' = [work EXCEPT ![C] = frames]
         /\ \A i \in DOMAIN frames : Len(frames) = 1
         /\ place = "select" => queue' = <<>> /\ frames = <<>>
         /\ queue' \in Seq(Nat)
  BY <1>2
<1>4. /\ OneInHand' /\ ServerSendsNoMessage' /\ work' \in [End -> Seq(Frame)]
      /\ work'[C] = frames
  BY <1>1, <1>3, Ends, NewWork
<1>5. pc' \in [End -> PCs] /\ pc'[C] = place
  BY <1>3, Ends DEF LinkTypes, PCs
<1>6. LinkTypes'
  BY <1>1, <1>3, <1>4, <1>5 DEF LinkTypes
<1>7. HandsFree' /\ FreshWire' /\ NotStranded'
  BY <1>1, <1>3, <1>4, <1>5 DEF ControlInv, HandsFree, FreshWire, NotStranded
<1> QED BY <1>4, <1>6, <1>7 DEF ControlInv

LEMMA ReadableKeeps ==
    ASSUME LinkTypes, ControlInv, NEW e \in End, SelectReadable(e)
    PROVE  LinkTypes' /\ ControlInv'
<1>1. /\ UNCHANGED <<work, sent, read, late, line, wire, spoiled, closed, dead, queue, wake,
                     ringing, pushed, has, got, broken>>
      /\ pc' = [pc EXCEPT ![e] = "recv"] /\ work[e] = <<>> /\ pc[e] = "select"
  BY DEF SelectReadable, At, socket, outbox
<1>2. pc' \in [End -> PCs] /\ (IF e = C THEN pc'[C] = "recv" ELSE pc'[C] = pc[C])
  BY <1>1, Ends DEF LinkTypes, PCs
<1>3. LinkTypes'
  BY <1>1, <1>2 DEF LinkTypes
<1>4. HandsFree' /\ FreshWire' /\ NotStranded'
  BY <1>1, <1>2 DEF ControlInv, HandsFree, FreshWire, NotStranded
<1> QED BY <1>1, <1>3, <1>4, SameHands DEF ControlInv

(* What is on the wires of a connection when one end has left it.           *)
LEMMA LeaveSteps ==
    ASSUME LinkTypes, NEW e \in End, Leave(e), UNCHANGED <<outbox, has, got>>
    PROVE  /\ UNCHANGED <<queue, wake, ringing, pushed, has, got, late, line>> /\ broken' = TRUE
           /\ pc' = [pc EXCEPT ![e] = IF e = C THEN "backoff" ELSE "none"]
           /\ work' = [work EXCEPT ![e] = <<>>] /\ sent' = [sent EXCEPT ![e] = 0]
           /\ read' = [read EXCEPT ![e] = 0]
           /\ wire' \in [Channel -> Seq(Part)]
           /\ \A ch \in Channel : wire'[ch] = wire[ch] \/ wire'[ch] = <<>>
           /\ spoiled' \in [Channel -> BOOLEAN] /\ closed' \in [Channel -> BOOLEAN]
           /\ dead' \in [Serving -> BOOLEAN]
<1>1. /\ UNCHANGED <<queue, wake, ringing, pushed, has, got, late, line>> /\ broken' = TRUE
      /\ pc' = [pc EXCEPT ![e] = IF e = C THEN "backoff" ELSE "none"]
      /\ work' = [work EXCEPT ![e] = <<>>] /\ sent' = [sent EXCEPT ![e] = 0]
      /\ read' = [read EXCEPT ![e] = 0]
  BY DEF Leave, outbox
<1>2. PICK out \in Channel, in \in Channel, n \in Serving : out = Out(e) /\ in = In(e) /\ n = Cable(e)
  BY Channels DEF LinkTypes
<1>3. /\ closed' = [closed EXCEPT ![out] = TRUE] /\ spoiled' = [spoiled EXCEPT ![in] = FALSE]
      /\ dead' = [dead EXCEPT ![n] = dead[n] /\ ~closed[in]]
      /\ \E left \in {wire[out], <<>>} : wire' = [wire EXCEPT ![out] = left, ![in] = <<>>]
  BY <1>2 DEF Leave
<1>4. spoiled' \in [Channel -> BOOLEAN] /\ closed' \in [Channel -> BOOLEAN]
  BY <1>3 DEF LinkTypes
<1>5. dead' \in [Serving -> BOOLEAN]
  <2>1. PICK b \in BOOLEAN : b = (dead[n] /\ ~closed[in])
    OBVIOUS
  <2>2. dead' = [dead EXCEPT ![n] = b]
    BY <1>3, <2>1, Zenon
  <2> QED BY <2>2 DEF LinkTypes
<1>6. wire' \in [Channel -> Seq(Part)] /\ \A ch \in Channel : wire'[ch] = wire[ch] \/ wire'[ch] = <<>>
  <2>1. PICK left \in {wire[out], <<>>} : wire' = [wire EXCEPT ![out] = left, ![in] = <<>>]
    BY <1>3
  <2>2. <<>> \in Seq(Part) /\ wire[out] \in Seq(Part) /\ wire \in [Channel -> Seq(Part)]
    BY DEF LinkTypes
  <2>3. (left = wire[out] \/ left = <<>>) /\ left \in Seq(Part)
    BY <2>1, <2>2, Zenon
  <2> QED BY <2>1, <2>2, <2>3
<1> QED BY <1>1, <1>4, <1>5, <1>6

(* The end of a connection at one of its ends.                              *)
LEMMA LeaveKeeps ==
    ASSUME LinkTypes, ControlInv, NEW e \in End, Leave(e), UNCHANGED <<outbox, has, got>>
    PROVE  LinkTypes' /\ ControlInv'
<1>1. /\ UNCHANGED <<queue, wake, ringing, pushed, has, got, late, line>> /\ broken' = TRUE
      /\ pc' = [pc EXCEPT ![e] = IF e = C THEN "backoff" ELSE "none"]
      /\ work' = [work EXCEPT ![e] = <<>>] /\ sent' = [sent EXCEPT ![e] = 0]
      /\ read' = [read EXCEPT ![e] = 0]
      /\ wire' \in [Channel -> Seq(Part)]
      /\ \A ch \in Channel : wire'[ch] = wire[ch] \/ wire'[ch] = <<>>
      /\ spoiled' \in [Channel -> BOOLEAN] /\ closed' \in [Channel -> BOOLEAN]
      /\ dead' \in [Serving -> BOOLEAN]
  BY LeaveSteps
<1>2. pc' \in [End -> PCs] /\ sent' \in [End -> Nat] /\ read' \in [End -> Nat]
  BY <1>1 DEF LinkTypes, PCs
<1>3. work' \in [End -> Seq(Frame)] /\ \A d \in End : work'[d] = work[d] \/ work'[d] = <<>>
  <2>1. <<>> \in Seq(Frame)
    OBVIOUS
  <2> QED BY <1>1, <2>1 DEF LinkTypes
<1>4. LinkTypes'
  BY <1>1, <1>2, <1>3 DEF LinkTypes
<1>5. IF e = C THEN pc'[C] = "backoff" /\ work'[C] = <<>> /\ sent'[C] = 0
      ELSE pc'[C] = pc[C] /\ work'[C] = work[C] /\ sent'[C] = sent[C]
  BY <1>1, Ends DEF LinkTypes
<1>6. HandsFree' /\ FreshWire' /\ NotStranded'
  BY <1>1, <1>5 DEF ControlInv, HandsFree, FreshWire, NotStranded
<1>7. OneInHand'
  BY <1>5 DEF ControlInv, OneInHand
<1>8. ServerSendsNoMessage'
  <2>1. DOMAIN <<>> = {} /\ \A n \in Serving : n \in End /\ <<n, C>> \in Channel
    BY Ends DEF Channel
  <2> QED BY <1>1, <1>3, <2>1 DEF ControlInv, ServerSendsNoMessage
<1> QED BY <1>4, <1>6, <1>7, <1>8 DEF ControlInv

(* What SendPart does, part by part.                                        *)
LEMMA SendPartSteps ==
    ASSUME LinkTypes, NEW e \in End, SendPart(e)
    PROVE  /\ UNCHANGED <<pc, read, late, line, spoiled, closed, dead, queue, wake, ringing, pushed,
                          has, got, broken>>
           /\ pc[e] \notin {"handshake", "none"} /\ work[e] \in Seq(Frame) /\ work[e] # <<>>
           /\ \E part \in Part :
                /\ part.frame = work[e][1]
                /\ wire' = [wire EXCEPT ![Out(e)] = Append(wire[Out(e)], part)]
           /\ \/ /\ sent[e] + 1 = work[e][1].size
                 /\ sent' = [sent EXCEPT ![e] = 0] /\ work' = [work EXCEPT ![e] = Tail(work[e])]
              \/ /\ sent[e] + 1 # work[e][1].size
                 /\ sent' = [sent EXCEPT ![e] = sent[e] + 1] /\ work' = work
<1>1. /\ UNCHANGED <<pc, read, late, line, spoiled, closed, dead, queue, wake, ringing, pushed, has,
                     got, broken>>
      /\ pc[e] \notin {"handshake", "none"} /\ work[e] # <<>>
  BY DEF SendPart, Sending, outbox
<1>2. work[e] \in Seq(Frame) /\ sent[e] \in Nat /\ spoiled[Out(e)] \in BOOLEAN
  BY Channels DEF LinkTypes
<1>3. PICK f \in Frame : f = Head(work[e]) /\ f = work[e][1]
  BY <1>1, <1>2, Tailed
<1>4. PICK part : part = [frame |-> f, n |-> sent[e] + 1, good |-> ~spoiled[Out(e)]]
  OBVIOUS
<1>5. part \in Part /\ part.frame = f
  BY <1>2, <1>3, <1>4 DEF Part
<1>6. /\ wire' = [wire EXCEPT ![Out(e)] = Append(wire[Out(e)], part)]
      /\ sent' = [sent EXCEPT ![e] = IF sent[e] + 1 = f.size THEN 0 ELSE sent[e] + 1]
      /\ work' = [work EXCEPT ![e] = IF sent[e] + 1 = f.size THEN Tail(work[e]) ELSE work[e]]
  BY <1>3, <1>4 DEF SendPart
<1>7. CASE sent[e] + 1 = f.size
  <2>1. sent' = [sent EXCEPT ![e] = 0] /\ work' = [work EXCEPT ![e] = Tail(work[e])]
    BY <1>6, <1>7
  <2> QED BY <1>1, <1>2, <1>3, <1>5, <1>6, <1>7, <2>1
<1>8. CASE sent[e] + 1 # f.size
  <2>1. sent' = [sent EXCEPT ![e] = sent[e] + 1] /\ work' = [work EXCEPT ![e] = work[e]]
    BY <1>6, <1>8
  <2>2. [work EXCEPT ![e] = work[e]] = work
    BY DEF LinkTypes
  <2> QED BY <1>1, <1>2, <1>3, <1>5, <1>6, <1>8, <2>1, <2>2
<1> QED BY <1>7, <1>8

(* Of a sequence without a message, one with another such part at its end.  *)
LEMMA AppendedPart ==
    ASSUME NEW w \in Seq(Part), NEW part \in Part, part.frame.tag # "CLIP",
           \A i \in DOMAIN w : w[i].frame.tag # "CLIP"
    PROVE  \A i \in DOMAIN Append(w, part) : Append(w, part)[i].frame.tag # "CLIP"
<1>1. PICK n \in Nat : n = Len(w) /\ DOMAIN w = 1 .. n
  BY Appended
<1>2. /\ DOMAIN Append(w, part) = 1 .. (n + 1) /\ Append(w, part)[n + 1] = part
      /\ \A i \in 1 .. n : Append(w, part)[i] = w[i]
  BY <1>1, Appended
<1>3. \A i \in 1 .. (n + 1) : i \in 1 .. n \/ i = n + 1
  OBVIOUS
<1> QED BY <1>1, <1>2, <1>3

LEMMA SendPartKeeps ==
    ASSUME LinkTypes, ControlInv, NEW e \in End, SendPart(e)
    PROVE  LinkTypes' /\ ControlInv'
<1>1. /\ UNCHANGED <<pc, read, late, line, spoiled, closed, dead, queue, wake, ringing, pushed, has,
                     got, broken>>
      /\ pc[e] \notin {"handshake", "none"} /\ work[e] \in Seq(Frame) /\ work[e] # <<>>
  BY SendPartSteps
<1>2. PICK part \in Part :
         part.frame = work[e][1] /\ wire' = [wire EXCEPT ![Out(e)] = Append(wire[Out(e)], part)]
  BY SendPartSteps
<1>3. \/ /\ sent[e] + 1 = work[e][1].size
         /\ sent' = [sent EXCEPT ![e] = 0] /\ work' = [work EXCEPT ![e] = Tail(work[e])]
      \/ /\ sent[e] + 1 # work[e][1].size
         /\ sent' = [sent EXCEPT ![e] = sent[e] + 1] /\ work' = work
  BY SendPartSteps
<1>4. /\ Head(work[e]) = work[e][1] /\ work[e][1] \in Frame /\ Tail(work[e]) \in Seq(Frame)
      /\ Tail(work[e]) # <<>> => Head(Tail(work[e])) \in Frame
      /\ 1 \in DOMAIN work[e]
  BY <1>1, Tailed
<1>5. work' \in [End -> Seq(Frame)] /\ sent' \in [End -> Nat]
  <2>1. work \in [End -> Seq(Frame)] /\ sent \in [End -> Nat] /\ sent[e] + 1 \in Nat /\ 0 \in Nat
    BY DEF LinkTypes
  <2>2. \A rest \in Seq(Frame), k \in Nat :
           [work EXCEPT ![e] = rest] \in [End -> Seq(Frame)] /\ [sent EXCEPT ![e] = k] \in [End -> Nat]
    BY <2>1
  <2>3. \/ /\ sent' = [sent EXCEPT ![e] = 0]
           /\ work' = [work EXCEPT ![e] = Tail(work[e])]
        \/ /\ sent' = [sent EXCEPT ![e] = sent[e] + 1]
           /\ work' = work
    BY <1>3, Zenon
  <2>4. sent' \in [End -> Nat]
    BY <2>1, <2>2, <2>3, Zenon
  <2>5. work' \in [End -> Seq(Frame)]
    <3>1. Tail(work[e]) \in Seq(Frame)
      BY <1>4, Zenon
    <3> QED BY <2>1, <2>2, <2>3, <3>1, Zenon
  <2> QED BY <2>4, <2>5
<1>6. PICK out \in Channel : out = Out(e)
  BY Channels DEF LinkTypes
<1>7. /\ wire' \in [Channel -> Seq(Part)] /\ wire'[out] = Append(wire[out], part)
      /\ \A ch \in Channel : ch # out => wire'[ch] = wire[ch]
      /\ wire[out] \in Seq(Part)
  <2>1. wire \in [Channel -> Seq(Part)]
    BY DEF LinkTypes
  <2>2. Append(wire[out], part) \in Seq(Part)
    BY <2>1, Appended
  <2> QED BY <1>2, <1>6, <2>1, <2>2
<1>8. \A d \in End : d # e => work'[d] = work[d] /\ sent'[d] = sent[d]
  BY <1>3 DEF LinkTypes
<1>9. LinkTypes'
  BY <1>1, <1>5, <1>7 DEF LinkTypes
<1>10. line \in Serving /\ line' = line
  BY <1>1 DEF LinkTypes
<1>11. CASE e = C
  <2>1. out = <<C, line>> /\ \A n \in Serving : <<n, C>> \in Channel /\ <<n, C>> # out /\ n \in End /\ n # C
                                                /\ <<C, n>> \in Channel /\ (<<C, n>> = out => n = line)
    <3>1. out = <<C, line>>
      BY <1>6, <1>10, <1>11, Channels
    <3>2. \A n \in Serving : n \in End /\ n # C /\ <<n, C>> \in Channel /\ <<C, n>> \in Channel
      BY <1>10, Channels, Ends
    <3> QED BY <3>1, <3>2
  <2>2. ServerSendsNoMessage'
    <3>1. \A n \in Serving : work'[n] = work[n] /\ wire'[<<n, C>>] = wire[<<n, C>>]
      BY <1>7, <1>8, <1>11, <2>1
    <3> QED BY <3>1 DEF ControlInv, ServerSendsNoMessage
  <2>3. HandsFree' /\ NotStranded'
    BY <1>1, <1>11 DEF ControlInv, HandsFree, NotStranded
  <2>4. FreshWire'
    <3>1. pc[C] \notin {"connecting", "backoff"}
      BY <1>1, <1>11 DEF ControlInv, HandsFree
    <3>2. ASSUME ~broken, NEW n \in Serving, n # line PROVE wire'[<<C, n>>] = <<>>
      BY <1>7, <2>1, <3>2 DEF ControlInv, FreshWire
    <3> QED BY <1>1, <3>1, <3>2 DEF FreshWire
  <2>5. CASE sent[C] + 1 = work[C][1].size
    <3>1. work'[C] = Tail(work[C]) /\ sent'[C] = 0
      BY <1>3, <1>11, <2>5 DEF LinkTypes
    <3>2. \A i \in DOMAIN Tail(work[C]) : Tail(work[C])[i].tag # "CLIP"
      <4>1. PICK n \in Nat \ {0} : n = Len(work[C]) /\ n - 1 = Len(Tail(work[C]))
                                   /\ DOMAIN Tail(work[C]) = 1 .. (n - 1)
        BY <1>1, <1>11, Tailed
      <4>2. \A i \in 1 .. (n - 1) : Tail(work[C])[i] = work[C][i + 1] /\ i + 1 \in DOMAIN work[C] /\ n # 1
        BY <1>1, <1>11, <4>1, Tailed
      <4>3. \A i \in DOMAIN work[C] : work[C][i].tag = "CLIP" => n = 1
        BY <4>1 DEF ControlInv, OneInHand
      <4> QED BY <4>1, <4>2, <4>3
    <3>3. Tail(work[C]) # <<>> => 0 < Head(Tail(work[C])).size
      <4>1. \A f \in Frame : 0 < f.size
        BY FrameFacts
      <4> QED BY <1>4, <1>11, <4>1
    <3> QED BY <1>9, <2>2, <2>3, <2>4, <3>1, <3>2, <3>3 DEF ControlInv, OneInHand
  <2>6. CASE sent[C] + 1 # work[C][1].size
    <3>1. work'[C] = work[C] /\ sent'[C] = sent[C] + 1
      BY <1>3, <1>11, <2>6 DEF LinkTypes
    <3>2. sent[C] < work[C][1].size
      BY <1>1, <1>4, <1>11 DEF ControlInv, OneInHand
    <3>3. sent[C] + 1 < work[C][1].size
      <4>1. sent[C] \in Nat /\ work[C][1].size \in Nat
        BY <1>4, <1>11, FrameFacts DEF LinkTypes
      <4> QED BY <2>6, <3>2, <4>1
    <3>4. OneInHand'
      BY <1>1, <1>4, <1>11, <3>1, <3>3 DEF ControlInv, OneInHand
    <3> QED BY <1>9, <2>2, <2>3, <2>4, <3>4 DEF ControlInv
  <2> QED BY <2>5, <2>6
<1>12. CASE e \in Serving
  <2>1. /\ out = <<e, C>> /\ e # C /\ C \in End
        /\ \A n \in Serving : <<C, n>> \in Channel /\ <<C, n>> # out /\ <<n, C>> \in Channel
                              /\ (<<n, C>> = out => n = e) /\ n \in End
    BY <1>6, <1>10, <1>12, Channels, Ends
  <2>2. work'[C] = work[C] /\ sent'[C] = sent[C]
    BY <1>8, <2>1
  <2>3. HandsFree' /\ NotStranded' /\ OneInHand'
    BY <1>1, <2>2 DEF ControlInv, HandsFree, NotStranded, OneInHand
  <2>4. FreshWire'
    BY <1>1, <1>7, <2>1 DEF ControlInv, FreshWire
  <2>5. ASSUME NEW n \in Serving
        PROVE  /\ \A i \in DOMAIN work'[n] : work'[n][i].tag # "CLIP"
               /\ \A i \in DOMAIN wire'[<<n, C>>] : wire'[<<n, C>>][i].frame.tag # "CLIP"
    <3>1. /\ \A i \in DOMAIN work[n] : work[n][i].tag # "CLIP"
          /\ \A i \in DOMAIN wire[<<n, C>>] : wire[<<n, C>>][i].frame.tag # "CLIP"
      BY DEF ControlInv, ServerSendsNoMessage
    <3>2. CASE n # e
      BY <1>7, <1>8, <2>1, <3>1, <3>2
    <3>3. CASE n = e
      <4>1. part.frame.tag # "CLIP"
        BY <1>2, <1>4, <3>1, <3>3
      <4>2. \A i \in DOMAIN wire'[<<n, C>>] : wire'[<<n, C>>][i].frame.tag # "CLIP"
        BY <1>7, <2>1, <3>1, <3>3, <4>1, AppendedPart
      <4>3. work'[n] = work[n] \/ work'[n] = Tail(work[n])
        BY <1>3, <3>3 DEF LinkTypes
      <4>4. \A i \in DOMAIN work'[n] : work'[n][i].tag # "CLIP"
        BY <1>1, <3>1, <3>3, <4>3, TailKeepsAll
      <4> QED BY <4>2, <4>4
    <3> QED BY <3>2, <3>3
  <2>6. ServerSendsNoMessage'
    BY <2>5 DEF ServerSendsNoMessage
  <2> QED BY <1>9, <2>3, <2>4, <2>6 DEF ControlInv
<1> QED BY <1>11, <1>12, Ends

(* A digest, the end of a sync or an answer is given up, or the connection: a
   message is not given up alone.                                           *)
LEMMA SendFailsSteps ==
    ASSUME LinkTypes, ControlInv, NEW e \in End, SendFails(e)
    PROVE  \/ Leave(e) /\ UNCHANGED <<outbox, has, got>>
           \/ /\ UNCHANGED <<pc, read, line, wire, closed, dead, queue, wake, ringing, pushed, has,
                             got, broken>>
              /\ sent' = [sent EXCEPT ![e] = 0]
              /\ spoiled' \in [Channel -> BOOLEAN] /\ late' \in BOOLEAN
              /\ work[e] # <<>> /\ \A i \in DOMAIN work[e] : work[e][i].tag # "CLIP"
              /\ \E rest \in Seq(Frame) : /\ work' = [work EXCEPT ![e] = rest]
                                          /\ \A i \in DOMAIN rest : rest[i].tag # "CLIP"
<1>1. work[e] # <<>> /\ work[e] \in Seq(Frame)
  BY DEF SendFails, Sending, LinkTypes
<1>2. CASE Head(work[e]).tag \notin {"RSYN", "REOS", "REGW"}
  BY <1>2 DEF SendFails, Break
<1>3. CASE Head(work[e]).tag \in {"RSYN", "REOS", "REGW"}
  <2>1. /\ UNCHANGED <<pc, read, line, wire, closed, dead, queue, wake, ringing, pushed, has, got,
                       broken>>
        /\ sent' = [sent EXCEPT ![e] = 0]
        /\ work' = [work EXCEPT ![e] = IF Head(work[e]).tag = "REGW" THEN <<>> ELSE Tail(work[e])]
        /\ spoiled' = [spoiled EXCEPT ![Out(e)] = spoiled[Out(e)] \/ ~(TooLong(e) \/ closed[In(e)])]
        /\ late' = (late \/ (e = C /\ TimesOut(C)))
    BY <1>3 DEF SendFails, outbox
  <2>2. PICK rest \in Seq(Frame) : work' = [work EXCEPT ![e] = rest]
                                   /\ (rest = <<>> \/ rest = Tail(work[e]))
    <3>1. Tail(work[e]) \in Seq(Frame) /\ <<>> \in Seq(Frame)
      BY <1>1, Tailed
    <3>2. CASE Head(work[e]).tag = "REGW"
      BY <2>1, <3>1, <3>2
    <3>3. CASE Head(work[e]).tag # "REGW"
      BY <2>1, <3>1, <3>3
    <3> QED BY <3>2, <3>3
  <2>3. \A i \in DOMAIN work[e] : work[e][i].tag # "CLIP"
    <3>1. CASE e = C
      <4>1. PICK n \in Nat \ {0} : n = Len(work[C]) /\ DOMAIN work[C] = 1 .. n
        BY <1>1, <3>1, Tailed
      <4>2. \A i \in 1 .. n : work[C][i].tag = "CLIP" => i = 1 /\ work[C][1].tag = "CLIP"
        <5>1. \A i \in DOMAIN work[C] : work[C][i].tag = "CLIP" => n = 1
          BY <4>1 DEF ControlInv, OneInHand
        <5> QED BY <4>1, <5>1
      <4>3. Head(work[C]) = work[C][1]
        BY <1>1, <3>1, Tailed
      <4> QED BY <1>3, <3>1, <4>1, <4>2, <4>3
    <3>2. CASE e \in Serving
      BY <3>2 DEF ControlInv, ServerSendsNoMessage
    <3> QED BY <3>1, <3>2, Ends
  <2>4. \A i \in DOMAIN rest : rest[i].tag # "CLIP"
    <3>1. \A i \in DOMAIN Tail(work[e]) : Tail(work[e])[i].tag # "CLIP"
      BY <1>1, <2>3, TailKeepsAll
    <3>2. DOMAIN <<>> = {}
      OBVIOUS
    <3> QED BY <2>2, <3>1, <3>2
  <2>5. \E some \in Seq(Frame) : /\ work' = [work EXCEPT ![e] = some]
                                /\ \A i \in DOMAIN some : some[i].tag # "CLIP"
    BY <2>2, <2>4, Zenon
  <2>6. spoiled' \in [Channel -> BOOLEAN]
    <3>1. PICK b \in BOOLEAN : b = (spoiled[Out(e)] \/ ~(TooLong(e) \/ closed[In(e)]))
      OBVIOUS
    <3>2. spoiled' = [spoiled EXCEPT ![Out(e)] = b]
      BY <2>1, <3>1, Zenon
    <3> QED BY <3>2 DEF LinkTypes
  <2>7. late' \in BOOLEAN
    <3>1. PICK b \in BOOLEAN : b = (late \/ (e = C /\ TimesOut(C)))
      OBVIOUS
    <3> QED BY <2>1, <3>1, Zenon
  <2> QED BY <1>1, <2>1, <2>3, <2>5, <2>6, <2>7, Zenon
<1> QED BY <1>2, <1>3

LEMMA SendFailsKeeps ==
    ASSUME LinkTypes, ControlInv, NEW e \in End, SendFails(e)
    PROVE  LinkTypes' /\ ControlInv'
<1>1. CASE Leave(e) /\ UNCHANGED <<outbox, has, got>>
  BY <1>1, LeaveKeeps
<1>2. CASE ~(Leave(e) /\ UNCHANGED <<outbox, has, got>>)
  <2>1. /\ UNCHANGED <<pc, read, line, wire, closed, dead, queue, wake, ringing, pushed, has, got,
                       broken>>
        /\ sent' = [sent EXCEPT ![e] = 0] /\ work[e] # <<>>
        /\ spoiled' \in [Channel -> BOOLEAN] /\ late' \in BOOLEAN
    BY <1>2, SendFailsSteps
  <2>2. PICK rest \in Seq(Frame) : /\ work' = [work EXCEPT ![e] = rest]
                                   /\ \A i \in DOMAIN rest : rest[i].tag # "CLIP"
    BY <1>2, SendFailsSteps
  <2>3. /\ work' \in [End -> Seq(Frame)] /\ sent' \in [End -> Nat]
        /\ work'[e] = rest /\ sent'[e] = 0
        /\ \A d \in End : d # e => work'[d] = work[d] /\ sent'[d] = sent[d]
    BY <2>1, <2>2 DEF LinkTypes
  <2>4. LinkTypes'
    BY <2>1, <2>3 DEF LinkTypes
  <2>5. work'[C] = work[C] \/ (e = C /\ work[C] # <<>>)
    BY <2>1, <2>3, Ends
  <2>6. HandsFree' /\ FreshWire' /\ NotStranded'
    BY <2>1, <2>5 DEF ControlInv, HandsFree, FreshWire, NotStranded
  <2>7. rest # <<>> => 0 < Head(rest).size
    <3>1. rest # <<>> => Head(rest) \in Frame
      OBVIOUS
    <3> QED BY <3>1, FrameFacts
  <2>8. ServerSendsNoMessage'
    <3>1. ASSUME NEW n \in Serving PROVE \A i \in DOMAIN work'[n] : work'[n][i].tag # "CLIP"
      <4>1. n \in End /\ \A i \in DOMAIN work[n] : work[n][i].tag # "CLIP"
        BY Ends DEF ControlInv, ServerSendsNoMessage
      <4>2. work'[n] = work[n] \/ work'[n] = rest
        BY <2>3, <4>1
      <4> QED BY <2>2, <4>1, <4>2
    <3> QED BY <2>1, <3>1 DEF ControlInv, ServerSendsNoMessage
  <2>9. OneInHand'
    <3>1. CASE e = C
      BY <2>2, <2>3, <2>7, <3>1 DEF OneInHand
    <3>2. CASE e # C
      <4>1. sent'[C] = sent[C] /\ work'[C] = work[C]
        BY <2>3, <3>2, Ends
      <4> QED BY <4>1 DEF ControlInv, OneInHand
    <3> QED BY <3>1, <3>2
  <2> QED BY <2>4, <2>6, <2>8, <2>9 DEF ControlInv
<1> QED BY <1>1, <1>2

(* What an end does with a part that is as it should be: it goes on with the
   frame, or the frame is whole.                                            *)
LEMMA RecvPartSteps ==
    ASSUME LinkTypes, NEW e \in End, RecvPart(e)
    PROVE  \/ Leave(e) /\ UNCHANGED <<outbox, has, got>>
           \/ /\ pc[e] = "recv" /\ wire[In(e)] \in Seq(Part) /\ wire[In(e)] # <<>>
              /\ wire' = [wire EXCEPT ![In(e)] = Tail(wire[In(e)])]
              /\ UNCHANGED <<sent, late, line, spoiled, closed, dead, queue, wake, ringing, pushed,
                             broken>>
              /\ \/ /\ wire[In(e)][1].n < wire[In(e)][1].frame.size
                    /\ read' = [read EXCEPT ![e] = wire[In(e)][1].n]
                    /\ UNCHANGED <<pc, work, has, got>>
                 \/ /\ ~(wire[In(e)][1].n < wire[In(e)][1].frame.size)
                    /\ read' = [read EXCEPT ![e] = 0] /\ Handle(e, wire[In(e)][1].frame)
<1>1. wire[In(e)] \in Seq(Part) /\ wire[In(e)] # <<>> /\ pc[e] = "recv"
  BY Channels DEF LinkTypes, RecvPart
<1>2. Head(wire[In(e)]) = wire[In(e)][1]
  BY <1>1, Tailed
<1>3. CASE ~wire[In(e)][1].good \/ wire[In(e)][1].n # read[e] + 1
  BY <1>2, <1>3 DEF RecvPart, Break
<1>4. CASE ~(~wire[In(e)][1].good \/ wire[In(e)][1].n # read[e] + 1)
  <2>1. /\ wire' = [wire EXCEPT ![In(e)] = Tail(wire[In(e)])]
        /\ UNCHANGED <<sent, late, line, spoiled, closed, dead, outbox, broken, faults>>
        /\ IF wire[In(e)][1].n < wire[In(e)][1].frame.size
           THEN read' = [read EXCEPT ![e] = wire[In(e)][1].n] /\ UNCHANGED <<pc, work, has, got>>
           ELSE read' = [read EXCEPT ![e] = 0] /\ Handle(e, wire[In(e)][1].frame)
    BY <1>2, <1>4 DEF RecvPart
  <2> QED BY <1>1, <2>1 DEF outbox
<1> QED BY <1>3, <1>4

LEMMA HandleSteps ==
    ASSUME LinkTypes, NEW e \in End, NEW f \in Frame, Handle(e, f)
    PROVE  /\ pc' = [pc EXCEPT ![e] = IF e = C THEN "top" ELSE "select"]
           /\ has' \in [Side -> SUBSET Record]
           /\ got' = IF f.tag = "CLIP" THEN Append(got, f.message) ELSE got
           /\ \E answer \in Seq(Frame) :
                /\ work' = [work EXCEPT ![e] = answer]
                /\ \A i \in DOMAIN answer : answer[i].tag # "CLIP"
<1>1. PICK side \in Side : side = Store(e)
  BY Ends
<1>2. /\ pc' = [pc EXCEPT ![e] = IF e = C THEN "top" ELSE "select"]
      /\ got' = IF f.tag = "CLIP" THEN Append(got, f.message) ELSE got
      /\ has' = IF f.tag = "REGW" THEN [has EXCEPT ![side] = has[side] \cup {f.record}] ELSE has
  BY <1>1 DEF Handle
<1>3. has' \in [Side -> SUBSET Record]
  BY <1>2, FrameFacts DEF LinkTypes
<1>4. PICK answer \in
         CASE f.tag = "RSYN" ->
                {[i \in DOMAIN order |-> REGW(order[i])] \o <<Small("REOS")>> :
                    order \in SetToSeqs(has[side] \ f.records)}
           [] f.tag = "PING" -> {<<Small("PONG")>>}
           [] OTHER -> {<<>>} :
         work' = [work EXCEPT ![e] = answer]
  BY <1>1 DEF Handle
<1>5. answer \in Seq(Frame) /\ \A i \in DOMAIN answer : answer[i].tag # "CLIP"
  <2>1. CASE f.tag = "RSYN"
    <3>1. PICK missing \in SUBSET Record : missing = has[side] \ f.records
      BY DEF LinkTypes
    <3>2. PICK order \in SetToSeqs(missing) :
             answer = [i \in DOMAIN order |-> REGW(order[i])] \o <<Small("REOS")>>
      BY <1>4, <2>1, <3>1
    <3> QED BY <3>2, AnswerTyped
  <2>2. CASE f.tag = "PING"
    <3>1. answer = <<Small("PONG")>>
      BY <1>4, <2>2
    <3>2. Small("PONG") \in Frame /\ Small("PONG").tag # "CLIP"
      BY FramesTyped
    <3> QED BY <3>1, <3>2
  <2>3. CASE f.tag # "RSYN" /\ f.tag # "PING"
    <3>1. answer \in {<<>>}
      BY <1>4, <2>3
    <3>2. answer = <<>>
      BY <3>1, Zenon
    <3> QED BY <3>2
  <2> QED BY <2>1, <2>2, <2>3
<1> QED BY <1>2, <1>3, <1>4, <1>5

LEMMA RecvPartKeeps ==
    ASSUME LinkTypes, ControlInv, NEW e \in End, RecvPart(e)
    PROVE  LinkTypes' /\ ControlInv'
<1>1. CASE Leave(e) /\ UNCHANGED <<outbox, has, got>>
  BY <1>1, LeaveKeeps
<1>2. CASE ~(Leave(e) /\ UNCHANGED <<outbox, has, got>>)
  <2>1. PICK in \in Channel : in = In(e)
    BY Channels DEF LinkTypes
  <2>2. /\ pc[e] = "recv" /\ wire[in] \in Seq(Part) /\ wire[in] # <<>>
        /\ wire' = [wire EXCEPT ![in] = Tail(wire[in])]
        /\ UNCHANGED <<sent, late, line, spoiled, closed, dead, queue, wake, ringing, pushed, broken>>
    BY <1>2, <2>1, RecvPartSteps
  <2>3. \/ /\ read' = [read EXCEPT ![e] = wire[in][1].n]
           /\ UNCHANGED <<pc, work, has, got>>
        \/ /\ read' = [read EXCEPT ![e] = 0] /\ Handle(e, wire[in][1].frame)
    BY <1>2, <2>1, RecvPartSteps
  <2>4. wire[in][1] \in Part /\ Tail(wire[in]) \in Seq(Part)
    BY <2>2, Tailed
  <2>5. PICK f \in Frame : f = wire[in][1].frame
    BY <2>4 DEF Part
  <2>6. wire[in][1].n \in Nat /\ 0 \in Nat
    BY <2>4 DEF Part
  <2>7. read' \in [End -> Nat]
    BY <2>3, <2>6 DEF LinkTypes
  <2>8. /\ wire' \in [Channel -> Seq(Part)] /\ wire'[in] = Tail(wire[in])
        /\ \A ch \in Channel : ch # in => wire'[ch] = wire[ch]
    BY <2>2, <2>4 DEF LinkTypes
  <2>9. \A n \in Serving : <<n, C>> \in Channel /\ <<C, n>> \in Channel /\ n \in End
    BY Ends DEF Channel
  <2>10. \A n \in Serving :
            /\ \A i \in DOMAIN wire'[<<n, C>>] : wire'[<<n, C>>][i].frame.tag # "CLIP"
            /\ wire[<<C, n>>] = <<>> => wire'[<<C, n>>] = <<>>
    <3> TAKE n \in Serving
    <3>1. wire[<<C, n>>] = <<>> => wire'[<<C, n>>] = <<>>
      BY <2>2, <2>8, <2>9
    <3>2. \A i \in DOMAIN wire'[<<n, C>>] : wire'[<<n, C>>][i].frame.tag # "CLIP"
      <4>1. CASE <<n, C>> = in
        BY <2>2, <2>8, <4>1, TailKeepsAllParts DEF ControlInv, ServerSendsNoMessage
      <4>2. CASE <<n, C>> # in
        BY <2>8, <2>9, <4>2 DEF ControlInv, ServerSendsNoMessage
      <4> QED BY <4>1, <4>2
    <3> QED BY <3>1, <3>2
  <2>11. e = C => work[C] = <<>>
    BY <2>2 DEF ControlInv, HandsFree
  <2>12. CASE Handle(e, f)
    <3>1. /\ pc' = [pc EXCEPT ![e] = IF e = C THEN "top" ELSE "select"]
          /\ has' \in [Side -> SUBSET Record]
          /\ got' = IF f.tag = "CLIP" THEN Append(got, f.message) ELSE got
      BY <2>12, HandleSteps
    <3>2. PICK answer \in Seq(Frame) : /\ work' = [work EXCEPT ![e] = answer]
                                       /\ \A i \in DOMAIN answer : answer[i].tag # "CLIP"
      BY <2>12, HandleSteps
    <3>3. /\ work' \in [End -> Seq(Frame)] /\ work'[e] = answer
          /\ \A d \in End : d # e => work'[d] = work[d]
      BY <3>2 DEF LinkTypes
    <3>4. got' \in Seq(Nat)
      <4>1. got \in Seq(Nat)
        BY DEF LinkTypes
      <4>2. f.tag = "CLIP" => Append(got, f.message) \in Seq(Nat)
        <5>1. f.tag = "CLIP" => f.message \in Nat
          BY FrameFacts
        <5> QED BY <4>1, <5>1
      <4> QED BY <3>1, <4>1, <4>2
    <3>5. pc' \in [End -> PCs] /\ (e = C => pc'[C] = "top") /\ (e # C => pc'[C] = pc[C])
      BY <3>1, Ends DEF LinkTypes, PCs
    <3>6. LinkTypes'
      BY <2>2, <2>7, <2>8, <3>1, <3>3, <3>4, <3>5 DEF LinkTypes
    <3>7. HandsFree' /\ NotStranded'
      BY <2>2, <3>3, <3>5, Ends DEF ControlInv, HandsFree, NotStranded
    <3>8. FreshWire'
      BY <2>2, <2>10, <3>5 DEF ControlInv, FreshWire
    <3>9. ServerSendsNoMessage'
      <4>1. \A n \in Serving : work'[n] = work[n] \/ work'[n] = answer
        BY <2>9, <3>3
      <4> QED BY <2>10, <3>2, <4>1 DEF ControlInv, ServerSendsNoMessage
    <3>10. OneInHand'
      <4>1. CASE e = C
        <5>1. work'[C] = answer /\ sent'[C] = 0
          BY <2>2, <2>11, <3>3, <4>1 DEF ControlInv, OneInHand
        <5>2. answer # <<>> => 0 < Head(answer).size
          <6>1. answer # <<>> => Head(answer) \in Frame
            OBVIOUS
          <6> QED BY <6>1, FrameFacts
        <5> QED BY <3>2, <5>1, <5>2 DEF OneInHand
      <4>2. CASE e # C
        BY <2>2, <3>3, <4>2, Ends DEF ControlInv, OneInHand
      <4> QED BY <4>1, <4>2
    <3> QED BY <3>6, <3>7, <3>8, <3>9, <3>10 DEF ControlInv
  <2>13. CASE UNCHANGED <<pc, work, has, got>>
    <3>1. LinkTypes'
      BY <2>2, <2>7, <2>8, <2>13 DEF LinkTypes
    <3>2. HandsFree' /\ NotStranded' /\ OneInHand'
      BY <2>2, <2>13 DEF ControlInv, HandsFree, NotStranded, OneInHand
    <3>3. FreshWire'
      BY <2>2, <2>10, <2>13 DEF ControlInv, FreshWire
    <3>4. ServerSendsNoMessage'
      BY <2>10, <2>13 DEF ControlInv, ServerSendsNoMessage
    <3> QED BY <3>1, <3>2, <3>3, <3>4 DEF ControlInv
  <2> QED BY <2>3, <2>5, <2>12, <2>13
<1> QED BY <1>1, <1>2

-----------------------------------------------------------------------------
(***************************************************************************)
(* What is under way over one connection.  w, h and q stand for its wire,  *)
(* the hands of the outgoing thread and its queue; message m lies at place *)
(* i of stage k.                                                           *)
(***************************************************************************)
Lies(w, h, q, k, i, m) ==
    \/ k = 1 /\ i \in DOMAIN w /\ w[i].frame.tag = "CLIP" /\ m = w[i].frame.message
    \/ k = 2 /\ i \in DOMAIN h /\ h[i].tag = "CLIP" /\ m = h[i].message
    \/ k = 3 /\ i \in DOMAIN q /\ m = q[i]

Before(k, i, l, j) == k < l \/ (k = l /\ i < j)

(* A later stage or place holds a later message.                            *)
Increasing(w, h, q) ==
    \A k, l \in 1 .. 3, i, j, m, o \in Nat :
        Lies(w, h, q, k, i, m) /\ Lies(w, h, q, l, j, o) /\ Before(k, i, l, j) => m < o

Held(w, h, q) == {m \in Nat : \E k \in 1 .. 3, i \in Nat : Lies(w, h, q, k, i, m)}

(* Messages stay where they are; some may be lost.                          *)
LEMMA MessagesStay ==
    ASSUME NEW w, NEW h, NEW q, NEW w2, NEW h2, NEW q2, Increasing(w, h, q),
           \A k \in 1 .. 3, i \in Nat, m \in Nat : Lies(w2, h2, q2, k, i, m) => Lies(w, h, q, k, i, m)
    PROVE  Increasing(w2, h2, q2) /\ Held(w2, h2, q2) \subseteq Held(w, h, q)
<1>1. Increasing(w2, h2, q2)
  BY DEF Increasing
<1>2. Held(w2, h2, q2) \subseteq Held(w, h, q)
  BY DEF Held
<1> QED BY <1>1, <1>2

(* The first place of stage s is taken from it, and the message that lies there,
   if one does, becomes the last of the stage before it.                    *)
MovesOn(w, h, q, w2, h2, q2, s, last) ==
    /\ \A k \in 1 .. 3, i \in Nat, m \in Nat : Lies(w2, h2, q2, k, i, m) =>
           \/ Lies(w, h, q, k, i, m) /\ k # s /\ (k = s - 1 => i < last)
           \/ k = s - 1 /\ i = last /\ Lies(w, h, q, s, 1, m)
           \/ k = s /\ i > 0 /\ Lies(w, h, q, s, i + 1, m)
    /\ \A k \in 1 .. 3, i \in Nat, m \in Nat : Lies(w, h, q, k, i, m) =>
           \/ Lies(w2, h2, q2, k, i, m)
           \/ Lies(w2, h2, q2, s - 1, last, m)
           \/ i > 0 /\ Lies(w2, h2, q2, s, i - 1, m)

LEMMA FirstMovesOn ==
    ASSUME NEW w, NEW h, NEW q, NEW w2, NEW h2, NEW q2, Increasing(w, h, q),
           NEW s \in 2 .. 3, NEW last \in Nat, MovesOn(w, h, q, w2, h2, q2, s, last)
    PROVE  Increasing(w2, h2, q2) /\ Held(w2, h2, q2) = Held(w, h, q)
<1> DEFINE L(k, i, m) == Lies(w, h, q, k, i, m)
           L2(k, i, m) == Lies(w2, h2, q2, k, i, m)
<1>1. \A k \in 1 .. 3, i \in Nat, m \in Nat : L2(k, i, m) =>
         \/ L(k, i, m) /\ k # s /\ (k = s - 1 => i < last)
         \/ k = s - 1 /\ i = last /\ L(s, 1, m)
         \/ k = s /\ i > 0 /\ L(s, i + 1, m)
  BY DEF MovesOn
<1>2. \A k \in 1 .. 3, i \in Nat, m \in Nat : L(k, i, m) =>
         L2(k, i, m) \/ L2(s - 1, last, m) \/ (i > 0 /\ L2(s, i - 1, m))
  BY DEF MovesOn
<1>3. \A k, l \in 1 .. 3, i, j, m, o \in Nat :
            L(k, i, m) /\ L(l, j, o) /\ (k < l \/ (k = l /\ i < j)) => m < o
  BY DEF Increasing, Before
<1>4. /\ Increasing(w2, h2, q2)
            <=> \A k, l \in 1 .. 3, i, j, m, o \in Nat :
                  L2(k, i, m) /\ L2(l, j, o) /\ (k < l \/ (k = l /\ i < j)) => m < o
      /\ Held(w, h, q) = {m \in Nat : \E k \in 1 .. 3, i \in Nat : L(k, i, m)}
      /\ Held(w2, h2, q2) = {m \in Nat : \E k \in 1 .. 3, i \in Nat : L2(k, i, m)}
  BY DEF Increasing, Before, Held
<1> HIDE DEF L, L2
<1>5. \A k \in 1 .. 3, i \in Nat : s \in 1 .. 3 /\ s - 1 \in 1 .. 3 /\ 1 \in Nat /\ i + 1 \in Nat
                                   /\ (i > 0 => i - 1 \in Nat)
  OBVIOUS
<1>6. ASSUME NEW m \in Nat, NEW k \in 1 .. 3, NEW i \in Nat, L2(k, i, m)
      PROVE  \E l \in 1 .. 3, j \in Nat : L(l, j, m)
  BY <1>1, <1>5, <1>6
<1>7. ASSUME NEW k \in 1 .. 3, NEW l \in 1 .. 3, NEW i \in Nat, NEW j \in Nat,
             NEW m \in Nat, NEW o \in Nat,
             L2(k, i, m), L2(l, j, o), k < l \/ (k = l /\ i < j)
      PROVE  m < o
  <2>1. CASE L(k, i, m) /\ k # s /\ (k = s - 1 => i < last)
    <3>1. CASE L(l, j, o)
      BY <1>3, <1>7, <2>1, <3>1
    <3>2. CASE l = s - 1 /\ j = last /\ L(s, 1, o)
      BY <1>3, <1>5, <1>7, <2>1, <3>2
    <3>3. CASE l = s /\ j > 0 /\ L(s, j + 1, o)
      BY <1>3, <1>5, <1>7, <2>1, <3>3
    <3> QED BY <1>1, <1>7, <3>1, <3>2, <3>3
  <2>2. CASE k = s - 1 /\ i = last /\ L(s, 1, m)
    <3>1. CASE L(l, j, o) /\ l # s /\ (l = s - 1 => j < last)
      <4>1. s < l
        BY <1>7, <2>2, <3>1
      <4> QED BY <1>3, <1>5, <1>7, <2>2, <3>1, <4>1
    <3>2. CASE l = s - 1 /\ j = last /\ L(s, 1, o)
      BY <1>7, <2>2, <3>2
    <3>3. CASE l = s /\ j > 0 /\ L(s, j + 1, o)
      <4>1. 1 < j + 1
        BY <3>3
      <4> QED BY <1>3, <1>5, <1>7, <2>2, <3>3, <4>1
    <3> QED BY <1>1, <1>7, <3>1, <3>2, <3>3
  <2>3. CASE k = s /\ i > 0 /\ L(s, i + 1, m)
    <3>1. CASE L(l, j, o) /\ l # s
      <4>1. s < l
        BY <1>7, <2>3, <3>1
      <4> QED BY <1>3, <1>5, <1>7, <2>3, <3>1, <4>1
    <3>2. CASE l = s - 1 /\ j = last /\ L(s, 1, o)
      BY <1>7, <2>3, <3>2
    <3>3. CASE l = s /\ j > 0 /\ L(s, j + 1, o)
      <4>1. i + 1 < j + 1
        BY <1>7, <2>3, <3>3
      <4> QED BY <1>3, <1>5, <1>7, <2>3, <3>3, <4>1
    <3> QED BY <1>1, <1>7, <3>1, <3>2, <3>3
  <2> QED BY <1>1, <1>7, <2>1, <2>2, <2>3
<1>8. ASSUME NEW m \in Nat, NEW k \in 1 .. 3, NEW i \in Nat, L(k, i, m)
      PROVE  \E l \in 1 .. 3, j \in Nat : L2(l, j, m)
  BY <1>2, <1>5, <1>8
<1>9. Held(w2, h2, q2) = Held(w, h, q)
  BY <1>4, <1>6, <1>8
<1> QED BY <1>4, <1>7, <1>9

(* Another message, behind all the others.                                  *)
LEMMA MessageQueued ==
    ASSUME NEW w, NEW h, NEW q \in Seq(Nat), NEW n \in Nat,
           Increasing(w, h, q), Held(w, h, q) \subseteq 1 .. n
    PROVE  /\ Increasing(w, h, Append(q, n + 1))
           /\ Held(w, h, Append(q, n + 1)) = Held(w, h, q) \cup {n + 1}
<1> DEFINE q2 == Append(q, n + 1)
           L(k, i, m) == Lies(w, h, q, k, i, m)
           L2(k, i, m) == Lies(w, h, q2, k, i, m)
<1>1. PICK len \in Nat : len = Len(q)
  BY LenProperties
<1>2. /\ DOMAIN q = 1 .. len /\ DOMAIN q2 = 1 .. (len + 1) /\ q2[len + 1] = n + 1
      /\ \A i \in 1 .. len : q2[i] = q[i]
  BY <1>1, Appended
<1>3. \A i : i \in 1 .. (len + 1) <=> i \in 1 .. len \/ i = len + 1
  OBVIOUS
<1> HIDE DEF q2
<1>4. \A k \in 1 .. 3, i \in Nat, m \in Nat :
         L2(k, i, m) <=> L(k, i, m) \/ (k = 3 /\ i = len + 1 /\ m = n + 1)
  BY <1>2, <1>3 DEF Lies
<1>5. \A i \in Nat, m \in Nat : L(3, i, m) => i < len + 1
  BY <1>2 DEF Lies
<1>6. /\ \A k \in 1 .. 3, i \in Nat, m \in Nat : L(k, i, m) => m \in 1 .. n
      /\ \A k, l \in 1 .. 3, i, j, m, o \in Nat :
            L(k, i, m) /\ L(l, j, o) /\ (k < l \/ (k = l /\ i < j)) => m < o
  BY DEF Increasing, Before, Held
<1>7. /\ Increasing(w, h, q2)
            <=> \A k, l \in 1 .. 3, i, j, m, o \in Nat :
                  L2(k, i, m) /\ L2(l, j, o) /\ (k < l \/ (k = l /\ i < j)) => m < o
      /\ Held(w, h, q) = {m \in Nat : \E k \in 1 .. 3, i \in Nat : L(k, i, m)}
      /\ Held(w, h, q2) = {m \in Nat : \E k \in 1 .. 3, i \in Nat : L2(k, i, m)}
  BY DEF Increasing, Before, Held
<1> HIDE DEF L, L2
<1>8. ASSUME NEW k \in 1 .. 3, NEW l \in 1 .. 3, NEW i \in Nat, NEW j \in Nat,
             NEW m \in Nat, NEW o \in Nat,
             L2(k, i, m), L2(l, j, o), k < l \/ (k = l /\ i < j)
      PROVE  m < o
  <2>1. CASE L(k, i, m) /\ L(l, j, o)
    BY <1>6, <1>8, <2>1
  <2>2. CASE L(k, i, m) /\ o = n + 1
    BY <1>6, <2>2
  <2>3. CASE k = 3 /\ i = len + 1
    BY <1>4, <1>5, <1>8, <2>3
  <2> QED BY <1>4, <1>8, <2>1, <2>2, <2>3
<1>9. L2(3, len + 1, n + 1) /\ len + 1 \in Nat /\ n + 1 \in Nat /\ 3 \in 1 .. 3
  BY <1>4
<1>10. Held(w, h, q2) = Held(w, h, q) \cup {n + 1}
  <2>1. ASSUME NEW m \in Nat, NEW k \in 1 .. 3, NEW i \in Nat, L2(k, i, m)
        PROVE  m = n + 1 \/ \E l \in 1 .. 3, j \in Nat : L(l, j, m)
    BY <1>4, <2>1
  <2>2. ASSUME NEW m \in Nat, NEW k \in 1 .. 3, NEW i \in Nat, L(k, i, m)
        PROVE  \E l \in 1 .. 3, j \in Nat : L2(l, j, m)
    BY <1>4, <2>2
  <2>3. Held(w, h, q2) \subseteq Held(w, h, q) \cup {n + 1}
    BY <1>7, <2>1
  <2>4. Held(w, h, q) \subseteq Held(w, h, q2)
    BY <1>7, <2>2
  <2>5. n + 1 \in Held(w, h, q2)
    BY <1>7, <1>9
  <2> QED BY <2>3, <2>4, <2>5
<1> QED BY <1>7, <1>8, <1>10 DEF q2

LEMMA MessageTaken ==
    ASSUME NEW w, NEW q \in Seq(Nat), q # <<>>, Increasing(w, <<>>, q)
    PROVE  /\ Increasing(w, <<CLIP(Head(q))>>, Tail(q))
           /\ Held(w, <<CLIP(Head(q))>>, Tail(q)) = Held(w, <<>>, q)
<1>1. PICK len \in Nat \ {0} : len = Len(q)
  BY Tailed
<1>2. /\ DOMAIN q = 1 .. len /\ DOMAIN Tail(q) = 1 .. (len - 1) /\ Head(q) = q[1] /\ Head(q) \in Nat
      /\ \A i \in 1 .. (len - 1) : Tail(q)[i] = q[i + 1]
  BY <1>1, Tailed
<1>3. PICK f \in Frame : f = CLIP(Head(q)) /\ f.tag = "CLIP" /\ f.message = q[1]
  BY <1>2, FramesTyped
<1>4. DOMAIN <<f>> = {1} /\ <<f>>[1] = f /\ DOMAIN <<>> = {}
  OBVIOUS
<1>5. PICK h2, q2 : h2 = <<f>> /\ q2 = Tail(q)
  OBVIOUS
<1>6. DOMAIN q2 = 1 .. (len - 1) /\ DOMAIN h2 = {1} /\ h2[1] = f
      /\ \A i \in 1 .. (len - 1) : q2[i] = q[i + 1]
  BY <1>2, <1>4, <1>5
<1>7. \A i \in Nat : /\ i \in 1 .. (len - 1) <=> i > 0 /\ i + 1 \in 1 .. len
                     /\ i \in 1 .. len => i = 1 \/ (i > 0 /\ i - 1 \in 1 .. (len - 1) /\ i - 1 + 1 = i)
                     /\ 1 \in 1 .. len
  OBVIOUS
<1>8. PICK s \in 2 .. 3, last \in Nat : s = 3 /\ last = 1
  OBVIOUS
<1>9. \A k \in 1 .. 3, i \in Nat, m \in Nat : Lies(w, h2, q2, k, i, m) =>
         \/ Lies(w, <<>>, q, k, i, m) /\ k # s /\ (k = s - 1 => i < last)
         \/ k = s - 1 /\ i = last /\ Lies(w, <<>>, q, s, 1, m)
         \/ k = s /\ i > 0 /\ Lies(w, <<>>, q, s, i + 1, m)
  <2> TAKE k \in 1 .. 3, i \in Nat, m \in Nat
  <2>1. CASE k = 1
    BY <1>8, <2>1 DEF Lies
  <2>2. CASE k = 2
    BY <1>2, <1>3, <1>6, <1>7, <1>8, <2>2 DEF Lies
  <2>3. CASE k = 3
    BY <1>2, <1>6, <1>7, <1>8, <2>3 DEF Lies
  <2> QED BY <2>1, <2>2, <2>3
<1>10. \A k \in 1 .. 3, i \in Nat, m \in Nat : Lies(w, <<>>, q, k, i, m) =>
         \/ Lies(w, h2, q2, k, i, m)
         \/ Lies(w, h2, q2, s - 1, last, m)
         \/ i > 0 /\ Lies(w, h2, q2, s, i - 1, m)
  <2> TAKE k \in 1 .. 3, i \in Nat, m \in Nat
  <2>1. CASE k = 1
    BY <1>8, <2>1 DEF Lies
  <2>2. CASE k = 2
    BY <1>4, <1>8, <2>2 DEF Lies
  <2>3. CASE k = 3
    BY <1>2, <1>3, <1>6, <1>7, <1>8, <2>3 DEF Lies
  <2> QED BY <2>1, <2>2, <2>3
<1>11. MovesOn(w, <<>>, q, w, h2, q2, s, last)
  BY <1>9, <1>10 DEF MovesOn
<1>12. Increasing(w, h2, q2) /\ Held(w, h2, q2) = Held(w, <<>>, q)
  BY <1>11, FirstMovesOn
<1> QED BY <1>3, <1>5, <1>12

(* The frame of a message is one part: it is on the wire at once.           *)
LEMMA MessageSent ==
    ASSUME NEW w \in Seq(Part), NEW h \in Seq(Frame), NEW q, NEW part \in Part,
           h # <<>>, Len(h) = 1, part.frame = h[1], h[1].tag = "CLIP", Increasing(w, h, q)
    PROVE  /\ Increasing(Append(w, part), Tail(h), q)
           /\ Held(Append(w, part), Tail(h), q) = Held(w, h, q)
<1>1. PICK len \in Nat : len = Len(w)
  BY LenProperties
<1>2. /\ DOMAIN w = 1 .. len /\ DOMAIN Append(w, part) = 1 .. (len + 1)
      /\ Append(w, part)[len + 1] = part
      /\ \A i \in 1 .. len : Append(w, part)[i] = w[i]
  BY <1>1, Appended
<1>3. DOMAIN h = {1} /\ DOMAIN Tail(h) = {}
  <2>1. DOMAIN h = 1 .. 1 /\ DOMAIN Tail(h) = 1 .. (1 - 1)
    BY Tailed
  <2> QED BY <2>1
<1>4. PICK w2, h2 : w2 = Append(w, part) /\ h2 = Tail(h)
  OBVIOUS
<1>5. /\ DOMAIN w2 = 1 .. (len + 1) /\ w2[len + 1] = part /\ DOMAIN h2 = {}
      /\ \A i \in 1 .. len : w2[i] = w[i]
  BY <1>2, <1>3, <1>4
<1>6. \A i \in Nat : /\ i \in 1 .. (len + 1) <=> i \in 1 .. len \/ i = len + 1
                     /\ i \in 1 .. len => i < len + 1
  OBVIOUS
<1>7. PICK s \in 2 .. 3, last \in Nat : s = 2 /\ last = len + 1
  OBVIOUS
<1>8. \A k \in 1 .. 3, i \in Nat, m \in Nat : Lies(w2, h2, q, k, i, m) =>
         \/ Lies(w, h, q, k, i, m) /\ k # s /\ (k = s - 1 => i < last)
         \/ k = s - 1 /\ i = last /\ Lies(w, h, q, s, 1, m)
         \/ k = s /\ i > 0 /\ Lies(w, h, q, s, i + 1, m)
  <2> TAKE k \in 1 .. 3, i \in Nat, m \in Nat
  <2>1. CASE k = 3
    BY <1>7, <2>1 DEF Lies
  <2>2. CASE k = 1
    BY <1>2, <1>3, <1>5, <1>6, <1>7, <2>2 DEF Lies
  <2>3. CASE k = 2
    BY <1>5, <1>7, <2>3 DEF Lies
  <2> QED BY <2>1, <2>2, <2>3
<1>9. \A k \in 1 .. 3, i \in Nat, m \in Nat : Lies(w, h, q, k, i, m) =>
         \/ Lies(w2, h2, q, k, i, m)
         \/ Lies(w2, h2, q, s - 1, last, m)
         \/ i > 0 /\ Lies(w2, h2, q, s, i - 1, m)
  <2> TAKE k \in 1 .. 3, i \in Nat, m \in Nat
  <2>1. CASE k = 3
    BY <1>7, <2>1 DEF Lies
  <2>2. CASE k = 1
    BY <1>2, <1>5, <1>6, <1>7, <2>2 DEF Lies
  <2>3. CASE k = 2
    BY <1>3, <1>5, <1>6, <1>7, <2>3 DEF Lies
  <2> QED BY <2>1, <2>2, <2>3
<1>10. MovesOn(w, h, q, w2, h2, q, s, last)
  BY <1>8, <1>9 DEF MovesOn
<1>11. Increasing(w2, h2, q) /\ Held(w2, h2, q) = Held(w, h, q)
  BY <1>10, FirstMovesOn
<1> QED BY <1>4, <1>11

(* The server takes a part off the wire.  If it carries a message, that was the
   earliest one under way.                                                  *)
LEMMA PartRead ==
    ASSUME NEW w \in Seq(Part), NEW h, NEW q, w # <<>>, Increasing(w, h, q)
    PROVE  /\ Increasing(Tail(w), h, q)
           /\ IF w[1].frame.tag = "CLIP"
              THEN /\ w[1].frame.message \in Held(w, h, q)
                   /\ Held(Tail(w), h, q) = Held(w, h, q) \ {w[1].frame.message}
                   /\ \A m \in Held(Tail(w), h, q) : w[1].frame.message < m
              ELSE Held(Tail(w), h, q) = Held(w, h, q)
<1> DEFINE L(k, i, m) == Lies(w, h, q, k, i, m)
<1>1. PICK len \in Nat \ {0} : len = Len(w)
  BY Tailed
<1>2. PICK w2 : w2 = Tail(w)
  OBVIOUS
<1> DEFINE L2(k, i, m) == Lies(w2, h, q, k, i, m)
<1>3. /\ DOMAIN w = 1 .. len /\ DOMAIN w2 = 1 .. (len - 1)
      /\ \A i \in 1 .. (len - 1) : w2[i] = w[i + 1]
  BY <1>1, <1>2, Tailed
<1>4. \A i \in Nat : /\ i \in 1 .. (len - 1) <=> i > 0 /\ i + 1 \in 1 .. len
                     /\ i \in 1 .. len => i = 1 \/ (i > 0 /\ i - 1 \in 1 .. (len - 1) /\ i - 1 + 1 = i)
                     /\ 1 \in 1 .. len
  OBVIOUS
<1>5. \A k \in 1 .. 3, i \in Nat, m \in Nat : L2(k, i, m) =>
         (k # 1 /\ L(k, i, m)) \/ (k = 1 /\ i > 0 /\ L(1, i + 1, m))
  BY <1>3, <1>4 DEF Lies
<1>6. \A k \in 1 .. 3, i \in Nat, m \in Nat : L(k, i, m) =>
         (k = 1 /\ i = 1) \/ L2(k, i, m) \/ (i > 0 /\ L2(1, i - 1, m))
  <2> TAKE k \in 1 .. 3, i \in Nat, m \in Nat
  <2>1. CASE k = 1
    BY <1>3, <1>4, <2>1 DEF Lies
  <2>2. CASE k # 1
    BY <2>2 DEF Lies
  <2> QED BY <2>1, <2>2
<1>7. \A m : L(1, 1, m) <=> w[1].frame.tag = "CLIP" /\ m = w[1].frame.message
  BY <1>3, <1>4 DEF Lies
<1>8. w[1].frame.tag = "CLIP" => w[1].frame.message \in Nat
  <2>1. w[1] \in Part
    BY Tailed
  <2>2. w[1].frame \in Frame
    BY <2>1 DEF Part
  <2> QED BY <2>2, FrameFacts
<1>9. \A k, l \in 1 .. 3, i, j, m, o \in Nat :
            L(k, i, m) /\ L(l, j, o) /\ (k < l \/ (k = l /\ i < j)) => m < o
  BY DEF Increasing, Before
<1>10. /\ Increasing(w2, h, q)
            <=> \A k, l \in 1 .. 3, i, j, m, o \in Nat :
                  L2(k, i, m) /\ L2(l, j, o) /\ (k < l \/ (k = l /\ i < j)) => m < o
      /\ Held(w, h, q) = {m \in Nat : \E k \in 1 .. 3, i \in Nat : L(k, i, m)}
      /\ Held(w2, h, q) = {m \in Nat : \E k \in 1 .. 3, i \in Nat : L2(k, i, m)}
  BY DEF Increasing, Before, Held
<1> HIDE DEF L, L2
<1>11. ASSUME NEW k \in 1 .. 3, NEW l \in 1 .. 3, NEW i \in Nat, NEW j \in Nat,
             NEW m \in Nat, NEW o \in Nat,
             L2(k, i, m), L2(l, j, o), k < l \/ (k = l /\ i < j)
      PROVE  m < o
  <2>1. PICK a \in Nat : L(k, a, m) /\ a = IF k = 1 THEN i + 1 ELSE i
    BY <1>5, <1>11
  <2>2. PICK b \in Nat : L(l, b, o) /\ b = IF l = 1 THEN j + 1 ELSE j
    BY <1>5, <1>11
  <2>3. k < l \/ (k = l /\ a < b)
    BY <1>11, <2>1, <2>2
  <2> QED BY <1>9, <2>1, <2>2, <2>3
<1>12. ASSUME NEW m \in Held(w2, h, q)
       PROVE  m \in Held(w, h, q) /\ (w[1].frame.tag = "CLIP" => w[1].frame.message < m)
  <2>1. PICK k \in 1 .. 3, i \in Nat : L2(k, i, m) /\ m \in Nat
    BY <1>10
  <2>2. PICK a \in Nat : L(k, a, m) /\ (1 < k \/ (1 = k /\ 1 < a))
    <3>1. CASE k = 1
      <4>1. L(1, i + 1, m) /\ i + 1 \in Nat /\ 1 < i + 1
        BY <1>5, <2>1, <3>1
      <4> QED BY <3>1, <4>1
    <3>2. CASE k # 1
      BY <1>5, <2>1, <3>2
    <3> QED BY <3>1, <3>2
  <2>3. m \in Held(w, h, q)
    BY <1>10, <2>1, <2>2
  <2>4. ASSUME w[1].frame.tag = "CLIP" PROVE w[1].frame.message < m
    <3>1. PICK o \in Nat : o = w[1].frame.message /\ L(1, 1, o) /\ 1 \in Nat /\ 1 \in 1 .. 3
      BY <1>7, <1>8, <2>4
    <3> QED BY <1>9, <2>1, <2>2, <3>1
  <2> QED BY <2>3, <2>4
<1>13. ASSUME NEW m \in Held(w, h, q), ~(w[1].frame.tag = "CLIP" /\ m = w[1].frame.message)
       PROVE  m \in Held(w2, h, q)
  <2>1. PICK k \in 1 .. 3, i \in Nat : L(k, i, m) /\ m \in Nat
    BY <1>10
  <2>2. ~(k = 1 /\ i = 1)
    BY <1>7, <1>13, <2>1
  <2>3. \E l \in 1 .. 3, j \in Nat : L2(l, j, m)
    <3>1. L2(k, i, m) \/ (i > 0 /\ L2(1, i - 1, m))
      BY <1>6, <2>1, <2>2
    <3>2. i > 0 => i - 1 \in Nat /\ 1 \in 1 .. 3
      OBVIOUS
    <3> QED BY <3>1, <3>2
  <2> QED BY <1>10, <2>1, <2>3
<1>14. w[1].frame.tag = "CLIP" => w[1].frame.message \in Held(w, h, q)
  <2>1. 1 \in Nat /\ 1 \in 1 .. 3
    OBVIOUS
  <2> QED BY <1>7, <1>8, <1>10, <2>1
<1>15. Increasing(w2, h, q)
  BY <1>10, <1>11
<1>16. IF w[1].frame.tag = "CLIP"
       THEN /\ w[1].frame.message \in Held(w, h, q)
            /\ Held(w2, h, q) = Held(w, h, q) \ {w[1].frame.message}
            /\ \A m \in Held(w2, h, q) : w[1].frame.message < m
       ELSE Held(w2, h, q) = Held(w, h, q)
  <2>1. CASE w[1].frame.tag = "CLIP"
    <3>1. PICK o \in Nat : o = w[1].frame.message
      BY <1>8, <2>1
    <3>2. o \notin Held(w2, h, q)
      <4>1. ASSUME o \in Held(w2, h, q) PROVE FALSE
        <5>1. o < o
          BY <1>12, <2>1, <3>1, <4>1
        <5> QED BY <5>1
      <4> QED BY <4>1
    <3> QED BY <1>12, <1>13, <1>14, <2>1, <3>1, <3>2
  <2>2. CASE w[1].frame.tag # "CLIP"
    <3>1. Held(w2, h, q) \subseteq Held(w, h, q)
      BY <1>12
    <3>2. Held(w, h, q) \subseteq Held(w2, h, q)
      BY <1>13, <2>2
    <3>3. Held(w2, h, q) = Held(w, h, q)
      BY <3>1, <3>2
    <3> QED BY <2>2, <3>3
  <2> QED BY <2>1, <2>2
<1> QED BY <1>2, <1>15, <1>16

(* A frame that is no message goes on the wire.                             *)
NoMessage(frames) == \A i \in DOMAIN frames : frames[i].tag # "CLIP"

LEMMA OtherSent ==
    ASSUME NEW w \in Seq(Part), NEW h, NEW h2, NEW q, NEW part \in Part, part.frame.tag # "CLIP",
           h2 = h \/ (NoMessage(h) /\ NoMessage(h2)), Increasing(w, h, q)
    PROVE  Increasing(Append(w, part), h2, q) /\ Held(Append(w, part), h2, q) = Held(w, h, q)
<1>1. PICK len \in Nat : len = Len(w)
  BY LenProperties
<1>2. PICK w2 : w2 = Append(w, part)
  OBVIOUS
<1>3. /\ DOMAIN w = 1 .. len /\ DOMAIN w2 = 1 .. (len + 1) /\ w2[len + 1] = part
      /\ \A i \in 1 .. len : w2[i] = w[i]
  BY <1>1, <1>2, Appended
<1>4. \A i : i \in 1 .. (len + 1) <=> i \in 1 .. len \/ i = len + 1
  OBVIOUS
<1>5. \A k \in 1 .. 3, i \in Nat, m \in Nat : Lies(w2, h2, q, k, i, m) <=> Lies(w, h, q, k, i, m)
  <2> TAKE k \in 1 .. 3, i \in Nat, m \in Nat
  <2>1. CASE k # 1
    BY <2>1 DEF Lies, NoMessage
  <2>2. CASE k = 1
    BY <1>3, <1>4, <2>2 DEF Lies
  <2> QED BY <2>1, <2>2
<1>6. Increasing(w2, h2, q)
  BY <1>5, MessagesStay
<1>7. Held(w2, h2, q) \subseteq Held(w, h, q)
  BY <1>5, MessagesStay
<1>8. Held(w, h, q) \subseteq Held(w2, h2, q)
  BY <1>5, <1>6, MessagesStay
<1> QED BY <1>2, <1>6, <1>7, <1>8

(* What is queued moves to another connection, what is on the wire does not. *)
LEMMA QueueMoves ==
    ASSUME NEW w, NEW q, Increasing(w, <<>>, q)
    PROVE  /\ Increasing(w, <<>>, <<>>) /\ Held(w, <<>>, <<>>) \subseteq Held(w, <<>>, q)
           /\ Increasing(<<>>, <<>>, q) /\ Held(<<>>, <<>>, q) \subseteq Held(w, <<>>, q)
           /\ Held(w, <<>>, <<>>) \cap Held(<<>>, <<>>, q) = {}
<1>1. DOMAIN <<>> = {}
  OBVIOUS
<1>2. Increasing(w, <<>>, <<>>) /\ Held(w, <<>>, <<>>) \subseteq Held(w, <<>>, q)
  <2>1. \A k \in 1 .. 3, i \in Nat, m \in Nat :
           Lies(w, <<>>, <<>>, k, i, m) => Lies(w, <<>>, q, k, i, m)
    BY <1>1 DEF Lies
  <2> QED BY <2>1, MessagesStay
<1>3. Increasing(<<>>, <<>>, q) /\ Held(<<>>, <<>>, q) \subseteq Held(w, <<>>, q)
  <2>1. \A k \in 1 .. 3, i \in Nat, m \in Nat :
           Lies(<<>>, <<>>, q, k, i, m) => Lies(w, <<>>, q, k, i, m)
    BY <1>1 DEF Lies
  <2> QED BY <2>1, MessagesStay
<1>4. ASSUME NEW m \in Held(w, <<>>, <<>>) \cap Held(<<>>, <<>>, q) PROVE FALSE
  <2>1. PICK i \in Nat : Lies(w, <<>>, q, 1, i, m) /\ m \in Nat
    BY <1>1 DEF Held, Lies
  <2>2. PICK j \in Nat : Lies(w, <<>>, q, 3, j, m)
    BY <1>1 DEF Held, Lies
  <2>3. 1 \in 1 .. 3 /\ 3 \in 1 .. 3 /\ Before(1, i, 3, j)
    BY DEF Before
  <2>4. m < m
    BY <2>1, <2>2, <2>3 DEF Increasing
  <2> QED BY <2>1, <2>4
<1> QED BY <1>2, <1>3, <1>4

-----------------------------------------------------------------------------
(***************************************************************************)
(* What was handled and what is under way.  g stands for the messages       *)
(* handled, u[s] for those under way over the connection of s, n for how    *)
(* many were pushed; l serves the last connection, and unless one was lost  *)
(* it is the only one.                                                     *)
(***************************************************************************)
Tally(g, u, n, l, lost) ==
    /\ \A i \in DOMAIN g : g[i] \in 1 .. n
    /\ \A s \in Serving : u[s] \subseteq 1 .. n
    /\ \A i, j \in DOMAIN g : i # j => g[i] # g[j]
    /\ \A s \in Serving : \A i \in DOMAIN g : g[i] \notin u[s]
    /\ \A s, t \in Serving : s # t => u[s] \cap u[t] = {}
    /\ ~lost => /\ \A i \in DOMAIN g : g[i] = i
                /\ \A m \in 1 .. n : m \in DOMAIN g \/ m \in u[l]
                /\ \A s \in Serving : s # l => u[s] = {}

LEMMA TallyShrinks ==
    ASSUME NEW g, NEW u, NEW u2, NEW n, NEW l \in Serving, NEW lost \in BOOLEAN,
           NEW lost2 \in BOOLEAN, lost => lost2, Tally(g, u, n, l, lost),
           \A s \in Serving : u2[s] \subseteq u[s],
           ~lost2 => \A s \in Serving : u[s] \subseteq u2[s]
    PROVE  Tally(g, u2, n, l, lost2)
BY DEF Tally

LEMMA TallyPush ==
    ASSUME NEW g, NEW u, NEW u2, NEW n \in Nat, NEW l \in Serving, NEW lost \in BOOLEAN,
           Tally(g, u, n, l, lost), u2[l] = u[l] \cup {n + 1},
           \A s \in Serving : s # l => u2[s] = u[s]
    PROVE  Tally(g, u2, n + 1, l, lost)
<1>1. n + 1 \notin 1 .. n /\ 1 .. (n + 1) = (1 .. n) \cup {n + 1}
  OBVIOUS
<1>2. \A i \in DOMAIN g : g[i] \in 1 .. (n + 1)
  BY <1>1 DEF Tally
<1>3. \A s \in Serving : u2[s] \subseteq 1 .. (n + 1)
  BY <1>1 DEF Tally
<1>4. \A s \in Serving : \A i \in DOMAIN g : g[i] \notin u2[s]
  BY <1>1 DEF Tally
<1>5. \A s, t \in Serving : s # t => u2[s] \cap u2[t] = {}
  <2>1. ASSUME NEW s \in Serving, NEW t \in Serving, s # t, NEW m \in u2[s], m \in u2[t]
        PROVE  FALSE
    <3>1. m \in u[s] \/ (s = l /\ m = n + 1)
      BY <2>1
    <3>2. m \in u[t] \/ (t = l /\ m = n + 1)
      BY <2>1
    <3>3. n + 1 \notin u[s] /\ n + 1 \notin u[t] /\ u[s] \cap u[t] = {}
      BY <1>1, <2>1 DEF Tally
    <3> QED BY <2>1, <3>1, <3>2, <3>3
  <2> QED BY <2>1
<1>6. ~lost => /\ \A i \in DOMAIN g : g[i] = i
               /\ \A m \in 1 .. (n + 1) : m \in DOMAIN g \/ m \in u2[l]
               /\ \A s \in Serving : s # l => u2[s] = {}
  BY <1>1 DEF Tally
<1>7. \A i, j \in DOMAIN g : i # j => g[i] # g[j]
  BY DEF Tally
<1> QED BY <1>2, <1>3, <1>4, <1>5, <1>6, <1>7 DEF Tally

(* The earliest message of a connection is handled.                         *)
LEMMA TallyRead ==
    ASSUME NEW g \in Seq(Nat), NEW u, NEW u2, NEW n \in Nat, NEW l \in Serving,
           NEW lost \in BOOLEAN, Tally(g, u, n, l, lost),
           NEW s \in Serving, NEW m \in Nat, m \in u[s], u2[s] = u[s] \ {m},
           \A o \in u2[s] : m < o, \A t \in Serving : t # s => u2[t] = u[t]
    PROVE  Tally(Append(g, m), u2, n, l, lost)
<1>1. PICK len \in Nat : len = Len(g)
  BY LenProperties
<1>2. PICK g2 : g2 = Append(g, m)
  OBVIOUS
<1>3. /\ DOMAIN g = 1 .. len /\ DOMAIN g2 = 1 .. (len + 1) /\ g2[len + 1] = m
      /\ \A i \in 1 .. len : g2[i] = g[i]
  BY <1>1, <1>2, Appended
<1>4. \A i : i \in 1 .. (len + 1) <=> i \in 1 .. len \/ i = len + 1
  OBVIOUS
<1>5. \A t \in Serving : u2[t] \subseteq u[t] /\ m \notin u2[t]
  <2> TAKE t \in Serving
  <2>1. CASE t = s
    BY <2>1
  <2>2. CASE t # s
    <3>1. u2[t] = u[t] /\ u[t] \cap u[s] = {}
      BY <2>2 DEF Tally
    <3> QED BY <3>1
  <2> QED BY <2>1, <2>2
<1>6. m \in 1 .. n /\ \A i \in 1 .. len : g[i] # m
  BY <1>3 DEF Tally
<1>7. \A i \in DOMAIN g2 : g2[i] \in 1 .. n
  BY <1>3, <1>4, <1>6 DEF Tally
<1>8. \A t \in Serving : u2[t] \subseteq 1 .. n
  BY <1>5 DEF Tally
<1>9. \A i, j \in DOMAIN g2 : i # j => g2[i] # g2[j]
  BY <1>3, <1>4, <1>6 DEF Tally
<1>10. \A t \in Serving : \A i \in DOMAIN g2 : g2[i] \notin u2[t]
  BY <1>3, <1>4, <1>5 DEF Tally
<1>11. \A t, r \in Serving : t # r => u2[t] \cap u2[r] = {}
  <2>1. \A t, r \in Serving : t # r => u[t] \cap u[r] = {}
    BY DEF Tally
  <2> QED BY <1>5, <2>1
<1>12. ASSUME ~lost
       PROVE  /\ \A i \in DOMAIN g2 : g2[i] = i
              /\ \A o \in 1 .. n : o \in DOMAIN g2 \/ o \in u2[l]
              /\ \A t \in Serving : t # l => u2[t] = {}
  <2>1. s = l
    BY <1>12 DEF Tally
  <2>2. /\ \A i \in 1 .. len : g[i] = i
        /\ \A o \in 1 .. n : o \in 1 .. len \/ o \in u[l]
    BY <1>3, <1>12 DEF Tally
  <2>3. ~(m \in 1 .. len)
    BY <1>6, <2>2
  <2>4. m = len + 1
    <3>1. len + 1 <= m /\ m <= n
      BY <1>6, <2>3
    <3>2. len + 1 \in 1 .. n /\ len + 1 \notin 1 .. len
      BY <3>1
    <3>3. len + 1 \in u[s]
      BY <2>1, <2>2, <3>2
    <3>4. len + 1 = m \/ m < len + 1
      BY <3>3
    <3> QED BY <3>1, <3>4
  <2>5. \A i \in DOMAIN g2 : g2[i] = i
    BY <1>3, <1>4, <2>2, <2>4
  <2>6. \A o \in 1 .. n : o \in DOMAIN g2 \/ o \in u2[l]
    BY <1>3, <1>4, <2>1, <2>2, <2>4
  <2>7. \A t \in Serving : t # l => u2[t] = {}
    BY <1>12, <2>1 DEF Tally
  <2> QED BY <2>5, <2>6, <2>7
<1>13. Tally(g2, u2, n, l, lost)
  BY <1>7, <1>8, <1>9, <1>10, <1>11, <1>12 DEF Tally
<1> QED BY <1>2, <1>13

(* What is queued moves from the connection of l to that of k.              *)
LEMMA TallyConnect ==
    ASSUME NEW g, NEW u, NEW u2, NEW n, NEW l \in Serving, NEW k \in Serving,
           NEW lost \in BOOLEAN, Tally(g, u, n, l, lost), k # l,
           u2[l] \subseteq u[l], u2[k] \subseteq u[l], u2[l] \cap u2[k] = {},
           \A s \in Serving : s # l /\ s # k => u2[s] = u[s],
           ~lost => u[l] \subseteq u2[k]
    PROVE  Tally(g, u2, n, k, lost)
<1>1. \A s, t \in Serving : s # t => u[s] \cap u[t] = {}
  BY DEF Tally
<1>2. \A s, t \in Serving : s # t => u2[s] \cap u2[t] = {}
  <2>1. ASSUME NEW s \in Serving, NEW t \in Serving, s # t, NEW m \in u2[s], m \in u2[t] PROVE FALSE
    <3>1. m \in u[s] \/ (s = k /\ m \in u[l])
      BY <2>1
    <3>2. m \in u[t] \/ (t = k /\ m \in u[l])
      BY <2>1
    <3>3. CASE s = k
      BY <1>1, <2>1, <3>2, <3>3
    <3>4. CASE t = k
      BY <1>1, <2>1, <3>1, <3>4
    <3>5. CASE s # k /\ t # k
      BY <1>1, <2>1, <3>1, <3>2, <3>5
    <3> QED BY <3>3, <3>4, <3>5
  <2> QED BY <2>1
<1>3. \A s \in Serving : u2[s] \subseteq 1 .. n
  BY DEF Tally
<1>4. \A s \in Serving : \A i \in DOMAIN g : g[i] \notin u2[s]
  BY DEF Tally
<1>5. ~lost => \A s \in Serving : s # k => u2[s] = {}
  <2>1. ASSUME ~lost, NEW s \in Serving, s # k PROVE u2[s] = {}
    <3>1. CASE s = l
      <4>1. u2[l] \subseteq u2[k]
        BY <2>1
      <4> QED BY <3>1, <4>1
    <3>2. CASE s # l
      BY <2>1, <3>2 DEF Tally
    <3> QED BY <3>1, <3>2
  <2> QED BY <2>1
<1>6. ~lost => \A m \in 1 .. n : m \in DOMAIN g \/ m \in u2[k]
  BY DEF Tally
<1> QED BY <1>2, <1>3, <1>4, <1>5, <1>6 DEF Tally

-----------------------------------------------------------------------------
(***************************************************************************)
(* The messages, step by step.                                             *)
(***************************************************************************)
Hands(n)   == IF n = line THEN work[C] ELSE <<>>
Waiting(n) == IF n = line THEN queue ELSE <<>>

Under == [n \in Serving |-> Held(wire[<<C, n>>], Hands(n), Waiting(n))]

EachInOrder == \A n \in Serving : Increasing(wire[<<C, n>>], Hands(n), Waiting(n))

MessagesInOrder == EachInOrder /\ Tally(got, Under, pushed, line, broken)

LEMMA NoneEmpty == NoMessage(<<>>)
<1>1. DOMAIN <<>> = {}
  OBVIOUS
<1> QED BY <1>1 DEF NoMessage

(* Hands without a message change, or the end of a connection drops what it
   had in hand and on the wire.                                             *)
LEMMA NothingMoves ==
    ASSUME LinkTypes, MessagesInOrder, UNCHANGED <<got, queue, pushed, line>>,
           broken' \in BOOLEAN, broken => broken',
           \A n \in Serving : \/ wire'[<<C, n>>] = wire[<<C, n>>]
                              \/ wire'[<<C, n>>] = <<>> /\ broken',
           work'[C] = work[C] \/ (NoMessage(work'[C]) /\ (broken' \/ NoMessage(work[C])))
    PROVE  MessagesInOrder'
<1>1. DOMAIN <<>> = {}
  OBVIOUS
<1>2. ASSUME NEW n \in Serving
      PROVE  /\ \A k \in 1 .. 3, i \in Nat, m \in Nat :
                   Lies(wire'[<<C, n>>], Hands(n)', Waiting(n)', k, i, m)
                     => Lies(wire[<<C, n>>], Hands(n), Waiting(n), k, i, m)
             /\ ~broken' => \A k \in 1 .. 3, i \in Nat, m \in Nat :
                   Lies(wire[<<C, n>>], Hands(n), Waiting(n), k, i, m)
                     => Lies(wire'[<<C, n>>], Hands(n)', Waiting(n)', k, i, m)
  <2>1. PICK w, h, q, w2, h2 : /\ w = wire[<<C, n>>] /\ h = Hands(n) /\ q = Waiting(n)
                               /\ w2 = wire'[<<C, n>>] /\ h2 = Hands(n)'
    OBVIOUS
  <2>2. Waiting(n)' = q
    BY <2>1 DEF Waiting
  <2>3. w2 = w \/ (w2 = <<>> /\ broken')
    BY <2>1
  <2>4. h2 = h \/ (NoMessage(h2) /\ (broken' \/ NoMessage(h)))
    BY <2>1, NoneEmpty DEF Hands
  <2>5. \A k \in 1 .. 3, i \in Nat, m \in Nat : Lies(w2, h2, q, k, i, m) => Lies(w, h, q, k, i, m)
    BY <1>1, <2>3, <2>4 DEF Lies, NoMessage
  <2>6. ~broken' => \A k \in 1 .. 3, i \in Nat, m \in Nat :
           Lies(w, h, q, k, i, m) => Lies(w2, h2, q, k, i, m)
    BY <1>1, <2>3, <2>4 DEF Lies, NoMessage
  <2> QED BY <2>1, <2>2, <2>5, <2>6
<1>3. ASSUME NEW n \in Serving
      PROVE  /\ Increasing(wire'[<<C, n>>], Hands(n)', Waiting(n)')
             /\ Under'[n] \subseteq Under[n]
             /\ ~broken' => Under[n] \subseteq Under'[n]
  <2>1. PICK w, h, q, w2, h2, q2 :
           /\ w = wire[<<C, n>>] /\ h = Hands(n) /\ q = Waiting(n)
           /\ w2 = wire'[<<C, n>>] /\ h2 = Hands(n)' /\ q2 = Waiting(n)'
    OBVIOUS
  <2>2. Increasing(w, h, q)
    BY <2>1 DEF MessagesInOrder, EachInOrder
  <2>3. Increasing(w2, h2, q2) /\ Held(w2, h2, q2) \subseteq Held(w, h, q)
    BY <1>2, <2>1, <2>2, MessagesStay
  <2>4. ~broken' => Held(w, h, q) \subseteq Held(w2, h2, q2)
    BY <1>2, <2>1, <2>3, MessagesStay
  <2>5. Under[n] = Held(w, h, q) /\ Under'[n] = Held(w2, h2, q2)
    BY <2>1 DEF Under
  <2> QED BY <2>1, <2>3, <2>4, <2>5
<1>4. EachInOrder'
  BY <1>3 DEF EachInOrder
<1>4a. PICK lost2 \in BOOLEAN : lost2 = broken'
  OBVIOUS
<1>4b. PICK u, u2 : u = Under /\ u2 = Under'
  OBVIOUS
<1>5. u = Under /\ u2 = Under' /\ lost2 = broken'
  BY <1>4a, <1>4b
<1>6. Tally(got, u2, pushed, line, lost2)
  <2>1. line \in Serving /\ broken \in BOOLEAN /\ (broken => lost2)
    BY <1>5 DEF LinkTypes
  <2>2. Tally(got, u, pushed, line, broken)
    BY <1>5 DEF MessagesInOrder
  <2>3. \A s \in Serving : u2[s] \subseteq u[s]
    BY <1>3, <1>5
  <2>4. ~lost2 => \A s \in Serving : u[s] \subseteq u2[s]
    BY <1>3, <1>5
  <2> QED BY <2>1, <2>2, <2>3, <2>4, TallyShrinks
<1> QED BY <1>4, <1>5, <1>6 DEF MessagesInOrder

LEMMA PushInOrder ==
    ASSUME LinkTypes, MessagesInOrder, Push
    PROVE  MessagesInOrder'
<1>1. /\ got' = got /\ wire' = wire /\ work' = work /\ broken' = broken /\ line' = line
      /\ queue' = Append(queue, pushed + 1) /\ pushed' = pushed + 1
  BY DEF Push, threads, socket
<1>2. queue \in Seq(Nat) /\ pushed \in Nat /\ broken \in BOOLEAN /\ line \in Serving
  BY DEF LinkTypes
<1>3. Increasing(wire[<<C, line>>], work[C], queue) /\ Under[line] = Held(wire[<<C, line>>], work[C], queue)
  BY <1>2 DEF MessagesInOrder, EachInOrder, Hands, Waiting, Under
<1>4. Held(wire[<<C, line>>], work[C], queue) \subseteq 1 .. pushed
  BY <1>2, <1>3 DEF MessagesInOrder, Tally
<1>5. /\ Increasing(wire[<<C, line>>], work[C], Append(queue, pushed + 1))
      /\ Held(wire[<<C, line>>], work[C], Append(queue, pushed + 1)) = Under[line] \cup {pushed + 1}
  <2>1. PICK w, h : w = wire[<<C, line>>] /\ h = work[C]
    OBVIOUS
  <2>2. Increasing(w, h, queue) /\ Held(w, h, queue) \subseteq 1 .. pushed
    BY <1>3, <1>4, <2>1
  <2>3. /\ Increasing(w, h, Append(queue, pushed + 1))
        /\ Held(w, h, Append(queue, pushed + 1)) = Held(w, h, queue) \cup {pushed + 1}
    BY <1>2, <2>2, MessageQueued
  <2> QED BY <1>3, <2>1, <2>3
<1>6. Hands(line)' = work[C] /\ Waiting(line)' = Append(queue, pushed + 1)
  BY <1>1 DEF Hands, Waiting
<1>7. \A n \in Serving : n # line => Hands(n)' = Hands(n) /\ Waiting(n)' = Waiting(n)
  BY <1>1 DEF Hands, Waiting
<1>8. EachInOrder'
  BY <1>1, <1>5, <1>6, <1>7 DEF MessagesInOrder, EachInOrder
<1>9. Under'[line] = Under[line] \cup {pushed + 1} /\ \A n \in Serving : n # line => Under'[n] = Under[n]
  BY <1>1, <1>2, <1>5, <1>6, <1>7 DEF Under
<1>10. PICK u, u2 : u = Under /\ u2 = Under'
  OBVIOUS
<1>11. Tally(got, u2, pushed + 1, line, broken)
  BY <1>2, <1>9, <1>10, TallyPush DEF MessagesInOrder
<1> QED BY <1>1, <1>8, <1>10, <1>11 DEF MessagesInOrder

LEMMA ConnectInOrder ==
    ASSUME LinkTypes, ControlInv, MessagesInOrder, ConnectSocket
    PROVE  MessagesInOrder'
<1>1. /\ UNCHANGED <<work, queue, pushed, got, broken>>
      /\ pc[C] = "connecting" /\ line' \in Serving
      /\ wire' = [wire EXCEPT ![<<C, line'>>] = <<>>, ![<<line', C>>] = <<>>]
  BY ConnectSteps
<1>2. PICK l \in Serving, k \in Serving : l = line /\ k = line'
  BY <1>1 DEF LinkTypes
<1>3. work[C] = <<>> /\ broken \in BOOLEAN
  BY <1>1 DEF ControlInv, HandsFree, LinkTypes
<1>4. \A n \in Serving : wire'[<<C, n>>] = IF n = k THEN <<>> ELSE wire[<<C, n>>]
  <2>1. wire' = [wire EXCEPT ![<<C, k>>] = <<>>, ![<<k, C>>] = <<>>]
    BY <1>1, <1>2
  <2>2. \A n \in Serving : <<C, n>> \in Channel /\ <<C, n>> # <<k, C>>
    BY Ends DEF Channel
  <2> QED BY <2>1, <2>2 DEF LinkTypes
<1>5. \A n \in Serving : Hands(n) = <<>> /\ Hands(n)' = <<>>
                         /\ Waiting(n) = (IF n = l THEN queue ELSE <<>>)
                         /\ Waiting(n)' = IF n = k THEN queue ELSE <<>>
  BY <1>1, <1>2, <1>3 DEF Hands, Waiting
<1>6. PICK u, u2 : u = Under /\ u2 = Under'
  OBVIOUS
<1>7. \A n \in Serving :
         /\ u[n] = Held(wire[<<C, n>>], <<>>, IF n = l THEN queue ELSE <<>>)
         /\ u2[n] = Held(IF n = k THEN <<>> ELSE wire[<<C, n>>], <<>>, IF n = k THEN queue ELSE <<>>)
  BY <1>4, <1>5, <1>6 DEF Under
<1>8. \A n \in Serving : Increasing(wire[<<C, n>>], <<>>, IF n = l THEN queue ELSE <<>>)
  BY <1>5 DEF MessagesInOrder, EachInOrder
<1>9. /\ Increasing(wire[<<C, l>>], <<>>, <<>>) /\ Held(wire[<<C, l>>], <<>>, <<>>) \subseteq u[l]
      /\ Increasing(<<>>, <<>>, queue) /\ Held(<<>>, <<>>, queue) \subseteq u[l]
      /\ Held(wire[<<C, l>>], <<>>, <<>>) \cap Held(<<>>, <<>>, queue) = {}
  <2>1. Increasing(wire[<<C, l>>], <<>>, queue) /\ u[l] = Held(wire[<<C, l>>], <<>>, queue)
    BY <1>7, <1>8
  <2> QED BY <2>1, QueueMoves
<1>10. EachInOrder'
  <2>1. ASSUME NEW n \in Serving PROVE Increasing(wire'[<<C, n>>], Hands(n)', Waiting(n)')
    <3>1. CASE n = k
      BY <1>4, <1>5, <1>9, <3>1
    <3>2. CASE n # k /\ n = l
      BY <1>4, <1>5, <1>9, <3>2
    <3>3. CASE n # k /\ n # l
      BY <1>4, <1>5, <1>8, <3>3
    <3> QED BY <3>1, <3>2, <3>3
  <2> QED BY <2>1 DEF EachInOrder
<1>11. ~broken => u[l] = Held(<<>>, <<>>, queue)
  BY <1>1, <1>7 DEF ControlInv, FreshWire
<1>12. Tally(got, u, pushed, l, broken)
  BY <1>2, <1>6 DEF MessagesInOrder
<1>13. Tally(got, u2, pushed, k, broken)
  <2>1. CASE k = l
    <3>1. \A n \in Serving : n # k => u2[n] = u[n]
      BY <1>7, <2>1
    <3>2. u2[k] = Held(<<>>, <<>>, queue)
      BY <1>7
    <3>3. (\A n \in Serving : u2[n] \subseteq u[n]) /\ (~broken => \A n \in Serving : u[n] \subseteq u2[n])
      BY <1>9, <1>11, <2>1, <3>1, <3>2
    <3> QED BY <1>3, <1>12, <2>1, <3>3, TallyShrinks
  <2>2. CASE k # l
    <3>1. u2[l] = Held(wire[<<C, l>>], <<>>, <<>>) /\ u2[k] = Held(<<>>, <<>>, queue)
      BY <1>7, <2>2
    <3>2. \A n \in Serving : n # l /\ n # k => u2[n] = u[n]
      BY <1>7
    <3>3. ~broken => u[l] \subseteq u2[k]
      BY <1>11, <3>1
    <3>4. u2[l] \subseteq u[l] /\ u2[k] \subseteq u[l] /\ u2[l] \cap u2[k] = {}
      BY <1>9, <3>1
    <3> QED BY <1>3, <1>12, <2>2, <3>2, <3>3, <3>4, TallyConnect
  <2> QED BY <2>1, <2>2
<1> QED BY <1>1, <1>2, <1>6, <1>10, <1>13 DEF MessagesInOrder

(* The steps that move no message.                                          *)
LEMMA WalkInOrder ==
    ASSUME LinkTypes, ControlInv, MessagesInOrder,
           \/ Signal \/ ConnectWoken \/ ConnectFails \/ Backoff \/ ClientHandshake
           \/ Woken \/ Top \/ SelectWoken \/ SelectTimesOut
           \/ \E n \in Serving : ServerHandshake(n) \/ Cut(n)
    PROVE  MessagesInOrder'
<1>1. UNCHANGED <<got, queue, pushed, line, wire>> /\ broken' \in BOOLEAN /\ (broken => broken')
  BY DEF LinkTypes, Signal, ConnectWoken, ConnectFails, Backoff, ClientHandshake, ServerHandshake,
         Woken, Top, SelectWoken, SelectTimesOut, Cut, outbox, socket
<1>2. work'[C] = work[C] \/ (NoMessage(work'[C]) /\ NoMessage(work[C]))
  <2>1. ASSUME NEW f \in Frame, f.tag # "CLIP" PROVE NoMessage(<<f>>)
    <3>1. DOMAIN <<f>> = {1} /\ <<f>>[1] = f
      OBVIOUS
    <3> QED BY <2>1, <3>1 DEF NoMessage
  <2>2. CASE ClientHandshake
    <3>1. work[C] = <<>> /\ work' = [work EXCEPT ![C] = <<RSYN(has[C])>>]
      BY <2>2 DEF ClientHandshake, ControlInv, HandsFree
    <3>2. RSYN(has[C]) \in Frame /\ RSYN(has[C]).tag # "CLIP"
      BY FramesTyped, Ends DEF LinkTypes
    <3>3. work'[C] = <<RSYN(has[C])>>
      BY <3>1, Ends DEF LinkTypes
    <3> QED BY NoneEmpty, <2>1, <3>1, <3>2, <3>3
  <2>3. CASE \E n \in Serving : ServerHandshake(n)
    <3>1. PICK n \in Serving : work' = [work EXCEPT ![n] = <<RSYN(has[S])>>]
      BY <2>3 DEF ServerHandshake
    <3> QED BY <3>1, Ends DEF LinkTypes
  <2>4. CASE Top
    <3>1. /\ work[C] = <<>>
          /\ \E ping \in {<<>>, <<Small("PING")>>} : work' = [work EXCEPT ![C] = ping]
      BY <2>4 DEF Top, At
    <3>2. NoMessage(<<Small("PING")>>)
      BY <2>1, FramesTyped
    <3>3. work'[C] = <<>> \/ work'[C] = <<Small("PING")>>
      BY <3>1, Ends DEF LinkTypes
    <3> QED BY NoneEmpty, <3>1, <3>2, <3>3
  <2>5. CASE Signal \/ ConnectWoken \/ ConnectFails \/ Backoff \/ Woken \/ SelectWoken
             \/ SelectTimesOut \/ \E n \in Serving : Cut(n)
    BY <2>5 DEF Signal, ConnectWoken, ConnectFails, Backoff, Woken, SelectWoken, SelectTimesOut,
                Cut, threads
  <2> QED BY <2>2, <2>3, <2>4, <2>5
<1>3. \A n \in Serving : wire'[<<C, n>>] = wire[<<C, n>>]
  BY <1>1
<1> QED BY <1>1, <1>2, <1>3, NothingMoves

(* One connection is disturbed, and nothing is taken from it.               *)
LEMMA OneSteps ==
    ASSUME LinkTypes, MessagesInOrder, UNCHANGED <<got, pushed, line, broken>>, NEW n \in Serving,
           Increasing(wire'[<<C, n>>], Hands(n)', Waiting(n)'),
           Held(wire'[<<C, n>>], Hands(n)', Waiting(n)')
              = Held(wire[<<C, n>>], Hands(n), Waiting(n)),
           \A s \in Serving : s # n =>
              wire'[<<C, s>>] = wire[<<C, s>>] /\ Hands(s)' = Hands(s) /\ Waiting(s)' = Waiting(s)
    PROVE  MessagesInOrder'
<1>1. EachInOrder'
  BY DEF MessagesInOrder, EachInOrder
<1>2. \A s \in Serving : Under'[s] = Under[s]
  BY DEF Under
<1>3. PICK u, u2 : u = Under /\ u2 = Under'
  OBVIOUS
<1>4. Tally(got, u2, pushed, line, broken)
  <2>1. Tally(got, u, pushed, line, broken) /\ line \in Serving /\ broken \in BOOLEAN
    BY <1>3 DEF MessagesInOrder, LinkTypes
  <2>2. \A s \in Serving : u2[s] \subseteq u[s] /\ u[s] \subseteq u2[s]
    BY <1>2, <1>3
  <2> QED BY <2>1, <2>2, TallyShrinks
<1> QED BY <1>1, <1>3, <1>4 DEF MessagesInOrder

LEMMA DrainInOrder ==
    ASSUME LinkTypes, MessagesInOrder, DrainOutboundMessages
    PROVE  MessagesInOrder'
<1>1. UNCHANGED <<got, wire, pushed, line, broken>> /\ work[C] = <<>> /\ line \in Serving
  BY DEF DrainOutboundMessages, At, socket, LinkTypes
<1>2. CASE queue = <<>>
  <2>1. queue' = queue /\ work' = work
    BY <1>2 DEF DrainOutboundMessages
  <2>2. /\ \A n \in Serving : wire'[<<C, n>>] = wire[<<C, n>>] /\ work'[C] = work[C]
        /\ broken' \in BOOLEAN /\ (broken => broken')
    BY <1>1, <2>1 DEF LinkTypes
  <2> QED BY <1>1, <2>1, <2>2, NothingMoves
<1>3. CASE queue # <<>>
  <2>1. queue' = Tail(queue) /\ work'[C] = <<CLIP(Head(queue))>>
    BY <1>3, Ends DEF DrainOutboundMessages, LinkTypes
  <2>2. queue \in Seq(Nat)
    BY DEF LinkTypes
  <2>3. Increasing(wire[<<C, line>>], <<>>, queue)
    BY <1>1 DEF MessagesInOrder, EachInOrder, Hands, Waiting
  <2>4. /\ Increasing(wire[<<C, line>>], <<CLIP(Head(queue))>>, Tail(queue))
        /\ Held(wire[<<C, line>>], <<CLIP(Head(queue))>>, Tail(queue))
             = Held(wire[<<C, line>>], <<>>, queue)
    BY <1>3, <2>2, <2>3, MessageTaken
  <2>5. /\ Hands(line) = <<>> /\ Waiting(line) = queue
        /\ Hands(line)' = <<CLIP(Head(queue))>> /\ Waiting(line)' = Tail(queue)
    BY <1>1, <2>1 DEF Hands, Waiting
  <2>6. \A s \in Serving : s # line =>
           wire'[<<C, s>>] = wire[<<C, s>>] /\ Hands(s)' = Hands(s) /\ Waiting(s)' = Waiting(s)
    BY <1>1 DEF Hands, Waiting
  <2>7. wire'[<<C, line>>] = wire[<<C, line>>]
    BY <1>1
  <2> QED BY <1>1, <2>4, <2>5, <2>6, <2>7, OneSteps
<1> QED BY <1>2, <1>3

(* The end of a connection may lose what is under way, and says so.         *)
LEMMA LeaveInOrder ==
    ASSUME LinkTypes, MessagesInOrder, NEW e \in End, Leave(e), UNCHANGED <<outbox, has, got>>
    PROVE  MessagesInOrder'
<1>1. /\ UNCHANGED <<got, queue, pushed, line>> /\ broken' = TRUE
      /\ work' = [work EXCEPT ![e] = <<>>]
      /\ \A ch \in Channel : wire'[ch] = wire[ch] \/ wire'[ch] = <<>>
  BY LeaveSteps
<1>2. \A n \in Serving : wire'[<<C, n>>] = wire[<<C, n>>] \/ (wire'[<<C, n>>] = <<>> /\ broken')
  BY <1>1 DEF Channel
<1>3. work'[C] = work[C] \/ (NoMessage(work'[C]) /\ broken')
  BY <1>1, NoneEmpty, Ends DEF LinkTypes
<1> QED BY <1>1, <1>2, <1>3, NothingMoves

LEMMA SendPartInOrder ==
    ASSUME LinkTypes, ControlInv, MessagesInOrder, NEW e \in End, SendPart(e)
    PROVE  MessagesInOrder'
<1>1. /\ UNCHANGED <<queue, pushed, got, broken, line>>
      /\ work[e] \in Seq(Frame) /\ work[e] # <<>>
  BY SendPartSteps
<1>2. PICK part \in Part :
         part.frame = work[e][1] /\ wire' = [wire EXCEPT ![Out(e)] = Append(wire[Out(e)], part)]
  BY SendPartSteps
<1>3. \/ /\ sent[e] + 1 = work[e][1].size
         /\ sent' = [sent EXCEPT ![e] = 0] /\ work' = [work EXCEPT ![e] = Tail(work[e])]
      \/ /\ sent[e] + 1 # work[e][1].size
         /\ sent' = [sent EXCEPT ![e] = sent[e] + 1] /\ work' = work
  BY SendPartSteps
<1>4. PICK l \in Serving : l = line
  BY DEF LinkTypes
<1>5. CASE e \in Serving
  <2>1. work'[C] = work[C]
    BY <1>3, <1>5, Ends DEF LinkTypes
  <2>2. \A n \in Serving : <<C, n>> # <<e, C>> /\ <<C, n>> \in Channel
    BY <1>5, Ends DEF Channel
  <2>3. Out(e) = <<e, C>>
    BY <1>4, <1>5, Channels
  <2>4. \A n \in Serving : wire'[<<C, n>>] = wire[<<C, n>>]
    BY <1>2, <2>2, <2>3 DEF LinkTypes
  <2>5. broken' \in BOOLEAN /\ (broken => broken')
    BY <1>1 DEF LinkTypes
  <2> QED BY <1>1, <2>1, <2>4, <2>5, NothingMoves
<1>6. CASE e = C
  <2>1. Out(e) = <<C, l>> /\ <<C, l>> \in Channel
    BY <1>4, <1>6, Channels
  <2>2. PICK w \in Seq(Part) : w = wire[<<C, l>>]
    BY <2>1 DEF LinkTypes
  <2>3. wire'[<<C, l>>] = Append(w, part)
    BY <1>2, <2>1, <2>2 DEF LinkTypes
  <2>4. \A n \in Serving : n # l => wire'[<<C, n>>] = wire[<<C, n>>]
    <3>1. \A n \in Serving : n # l => <<C, n>> # <<C, l>> /\ <<C, n>> \in Channel
      BY DEF Channel
    <3> QED BY <1>2, <2>1, <3>1 DEF LinkTypes
  <2>5. /\ Hands(l) = work[C] /\ Waiting(l) = queue
        /\ Hands(l)' = work'[C] /\ Waiting(l)' = queue
        /\ \A n \in Serving : n # l => Hands(n)' = Hands(n) /\ Waiting(n)' = Waiting(n)
    BY <1>1, <1>4 DEF Hands, Waiting
  <2>6. PICK h \in Seq(Frame) : h = work[C]
    BY <1>1, <1>6
  <2>7. work'[C] = h \/ work'[C] = Tail(h)
    BY <1>3, <1>6, <2>6 DEF LinkTypes
  <2>8. h # <<>> /\ Head(h) = h[1] /\ h[1] \in Frame /\ 1 \in DOMAIN h /\ part.frame = h[1]
    BY <1>1, <1>2, <1>6, <2>6, Tailed
  <2>9. Increasing(w, h, queue)
    BY <2>2, <2>5, <2>6 DEF MessagesInOrder, EachInOrder
  <2>10. /\ Increasing(Append(w, part), work'[C], queue)
         /\ Held(Append(w, part), work'[C], queue) = Held(w, h, queue)
    <3>1. CASE h[1].tag = "CLIP"
      <4>1. Len(h) = 1
        BY <2>6, <2>8, <3>1 DEF ControlInv, OneInHand
      <4>2. sent[C] \in Nat /\ sent[C] < h[1].size
        BY <2>6, <2>8, Ends DEF ControlInv, OneInHand, LinkTypes
      <4>3. h[1].size = 1
        BY <2>8, <3>1, FrameFacts
      <4>4. sent[C] + 1 = h[1].size
        BY <4>2, <4>3
      <4>5. work'[C] = Tail(h)
        BY <1>3, <1>6, <2>6, <4>4 DEF LinkTypes
      <4> QED BY <2>8, <2>9, <3>1, <4>1, <4>5, MessageSent
    <3>2. CASE h[1].tag # "CLIP"
      <4>1. NoMessage(h)
        <5>1. PICK n \in Nat \ {0} : n = Len(h) /\ DOMAIN h = 1 .. n
          BY <2>8, Tailed
        <5>2. \A i \in DOMAIN h : h[i].tag = "CLIP" => n = 1
          BY <2>6, <5>1 DEF ControlInv, OneInHand
        <5>3. \A i \in 1 .. n : n = 1 => i = 1
          OBVIOUS
        <5> QED BY <3>2, <5>1, <5>2, <5>3 DEF NoMessage
      <4>2. NoMessage(Tail(h))
        BY <2>8, <4>1, TailKeepsAll DEF NoMessage
      <4>3. PICK h2 : h2 = work'[C] /\ (h2 = h \/ (NoMessage(h) /\ NoMessage(h2)))
        BY <2>7, <4>1, <4>2
      <4>4. part.frame.tag # "CLIP"
        BY <2>8, <3>2
      <4>5. Increasing(Append(w, part), h2, queue) /\ Held(Append(w, part), h2, queue) = Held(w, h, queue)
        BY <2>9, <4>3, <4>4, OtherSent
      <4> QED BY <4>3, <4>5
    <3> QED BY <3>1, <3>2
  <2>11. /\ Increasing(wire'[<<C, l>>], Hands(l)', Waiting(l)')
         /\ Held(wire'[<<C, l>>], Hands(l)', Waiting(l)')
               = Held(wire[<<C, l>>], Hands(l), Waiting(l))
    BY <2>2, <2>3, <2>5, <2>6, <2>10
  <2> QED BY <1>1, <2>4, <2>5, <2>11, OneSteps
<1> QED BY <1>5, <1>6, Ends

LEMMA SendFailsInOrder ==
    ASSUME LinkTypes, ControlInv, MessagesInOrder, NEW e \in End, SendFails(e)
    PROVE  MessagesInOrder'
<1>1. CASE Leave(e) /\ UNCHANGED <<outbox, has, got>>
  BY <1>1, LeaveInOrder
<1>2. CASE ~(Leave(e) /\ UNCHANGED <<outbox, has, got>>)
  <2>1. UNCHANGED <<wire, line, queue, pushed, got, broken>> /\ NoMessage(work[e])
    BY <1>2, SendFailsSteps DEF NoMessage
  <2>2. PICK rest \in Seq(Frame) : work' = [work EXCEPT ![e] = rest] /\ NoMessage(rest)
    BY <1>2, SendFailsSteps DEF NoMessage
  <2>3. work'[C] = work[C] \/ (NoMessage(work'[C]) /\ NoMessage(work[C]))
    BY <2>1, <2>2, Ends DEF LinkTypes
  <2>4. broken' \in BOOLEAN /\ (broken => broken')
    BY <2>1 DEF LinkTypes
  <2>5. \A n \in Serving : wire'[<<C, n>>] = wire[<<C, n>>]
    BY <2>1
  <2> QED BY <2>1, <2>3, <2>4, <2>5, NothingMoves
<1> QED BY <1>1, <1>2

(* A part is read: if it is a message, by the thread that serves the connection. *)
LEMMA RecvPartInOrder ==
    ASSUME LinkTypes, ControlInv, MessagesInOrder, NEW e \in End, RecvPart(e)
    PROVE  MessagesInOrder'
<1>1. CASE Leave(e) /\ UNCHANGED <<outbox, has, got>>
  BY <1>1, LeaveInOrder
<1>2. CASE ~(Leave(e) /\ UNCHANGED <<outbox, has, got>>)
  <2>1. PICK in \in Channel : in = In(e)
    BY Channels DEF LinkTypes
  <2>2. /\ pc[e] = "recv" /\ wire[in] \in Seq(Part) /\ wire[in] # <<>>
        /\ wire' = [wire EXCEPT ![in] = Tail(wire[in])]
        /\ UNCHANGED <<queue, pushed, broken, line>>
    BY <1>2, <2>1, RecvPartSteps
  <2>3. \/ /\ wire[in][1].n < wire[in][1].frame.size
           /\ UNCHANGED <<pc, work, has, got>>
        \/ Handle(e, wire[in][1].frame)
    BY <1>2, <2>1, RecvPartSteps
  <2>4. PICK part \in Part : part = wire[in][1]
    BY <2>2, Tailed
  <2>5. PICK f \in Frame : f = part.frame
    BY <2>4 DEF Part
  <2>6. f.tag = "CLIP" => ~(part.n < f.size)
    <3>1. part.n \in Nat \ {0} /\ (f.tag = "CLIP" => f.size = 1)
      BY <2>4, <2>5, FrameFacts DEF Part
    <3> QED BY <3>1
  <2>7. got' = IF f.tag = "CLIP" THEN Append(got, f.message) ELSE got
    <3>1. CASE Handle(e, f)
      BY <3>1, HandleSteps
    <3>2. CASE part.n < f.size /\ got' = got
      BY <2>6, <3>2
    <3> QED BY <2>3, <2>4, <2>5, <3>1, <3>2
  <2>8. work' = work \/ \E answer \in Seq(Frame) : /\ work' = [work EXCEPT ![e] = answer]
                                                   /\ NoMessage(answer)
    <3>1. CASE Handle(e, f)
      BY <3>1, HandleSteps DEF NoMessage
    <3> QED BY <2>3, <2>4, <2>5, <3>1
  <2>9. broken' \in BOOLEAN /\ (broken => broken') /\ line \in Serving /\ broken \in BOOLEAN
    BY <2>2 DEF LinkTypes
  <2>10. wire'[in] = Tail(wire[in]) /\ \A ch \in Channel : ch # in => wire'[ch] = wire[ch]
    BY <2>2 DEF LinkTypes
  <2>11. CASE e = C
    <3>1. in = <<line, C>> /\ \A n \in Serving : <<C, n>> # in /\ <<C, n>> \in Channel
      <4>1. in = <<line, C>>
        BY <2>1, <2>9, <2>11, Channels
      <4>2. \A n \in Serving : <<C, n>> # <<line, C>> /\ <<C, n>> \in Channel
        BY Ends DEF Channel
      <4> QED BY <4>1, <4>2
    <3>2. \A n \in Serving : wire'[<<C, n>>] = wire[<<C, n>>]
      BY <2>10, <3>1
    <3>3. got' = got
      <4>1. 1 \in DOMAIN wire[in]
        BY <2>2, Tailed
      <4>2. wire[in][1].frame.tag # "CLIP"
        BY <2>9, <3>1, <4>1 DEF ControlInv, ServerSendsNoMessage
      <4> QED BY <2>4, <2>5, <2>7, <4>2
    <3>4. NoMessage(work[C])
      BY <2>2, <2>11, NoneEmpty DEF ControlInv, HandsFree
    <3>5. work'[C] = work[C] \/ (NoMessage(work'[C]) /\ NoMessage(work[C]))
      BY <2>8, <2>11, <3>4 DEF LinkTypes
    <3> QED BY <2>2, <2>9, <3>2, <3>3, <3>5, NothingMoves
  <2>12. CASE e \in Serving
    <3>1. in = <<C, e>>
      BY <2>1, <2>9, <2>12, Channels
    <3>2. work'[C] = work[C]
      BY <2>8, <2>12, Ends DEF LinkTypes
    <3>3. \A n \in Serving : Hands(n)' = Hands(n) /\ Waiting(n)' = Waiting(n)
      BY <2>2, <3>2 DEF Hands, Waiting
    <3>4a. PICK w \in Seq(Part) : w = wire[in]
      BY <2>2
    <3>4b. PICK h : h = Hands(e)
      OBVIOUS
    <3>4c. PICK q : q = Waiting(e)
      OBVIOUS
    <3>4. w = wire[in] /\ h = Hands(e) /\ q = Waiting(e)
      BY <3>4a, <3>4b, <3>4c
    <3>5. wire'[<<C, e>>] = Tail(w) /\ w # <<>> /\ f = w[1].frame
      BY <2>2, <2>4, <2>5, <2>10, <3>1, <3>4
    <3>6. \A n \in Serving : n # e => wire'[<<C, n>>] = wire[<<C, n>>]
      <4>1. \A n \in Serving : n # e => <<C, n>> # <<C, e>> /\ <<C, n>> \in Channel
        BY DEF Channel
      <4> QED BY <2>10, <3>1, <4>1
    <3>7. Increasing(w, h, q)
      BY <2>12, <3>1, <3>4 DEF MessagesInOrder, EachInOrder
    <3>8. /\ Increasing(Tail(w), h, q)
          /\ IF f.tag = "CLIP"
             THEN /\ f.message \in Held(w, h, q)
                  /\ Held(Tail(w), h, q) = Held(w, h, q) \ {f.message}
                  /\ \A m \in Held(Tail(w), h, q) : f.message < m
             ELSE Held(Tail(w), h, q) = Held(w, h, q)
      BY <3>5, <3>7, PartRead
    <3>9. CASE f.tag # "CLIP"
      <4>1. /\ Increasing(wire'[<<C, e>>], Hands(e)', Waiting(e)')
            /\ Held(wire'[<<C, e>>], Hands(e)', Waiting(e)')
                  = Held(wire[<<C, e>>], Hands(e), Waiting(e))
        BY <2>12, <3>1, <3>3, <3>4, <3>5, <3>8, <3>9
      <4>2. got' = got
        BY <2>7, <3>9
      <4> QED BY <2>2, <2>12, <3>3, <3>6, <4>1, <4>2, OneSteps
    <3>10. CASE f.tag = "CLIP"
      <4>1. EachInOrder'
        <5>1. ASSUME NEW n \in Serving PROVE Increasing(wire'[<<C, n>>], Hands(n)', Waiting(n)')
          <6>1. CASE n = e
            BY <3>3, <3>4, <3>5, <3>8, <6>1
          <6>2. CASE n # e
            BY <3>3, <3>6, <6>2 DEF MessagesInOrder, EachInOrder
          <6> QED BY <6>1, <6>2
        <5> QED BY <5>1 DEF EachInOrder
      <4>2. PICK u, u2 : u = Under /\ u2 = Under'
        OBVIOUS
      <4>3. u[e] = Held(w, h, q) /\ u2[e] = Held(Tail(w), h, q)
        BY <2>12, <3>1, <3>3, <3>4, <3>5, <4>2 DEF Under
      <4>4. \A n \in Serving : n # e => u2[n] = u[n]
        BY <3>3, <3>6, <4>2 DEF Under
      <4>5. PICK m \in Nat : m = f.message
        BY <3>10, FrameFacts
      <4>6. Tally(got, u, pushed, line, broken)
        BY <4>2 DEF MessagesInOrder
      <4>7. got \in Seq(Nat) /\ pushed \in Nat
        BY DEF LinkTypes
      <4>8. m \in u[e] /\ u2[e] = u[e] \ {m} /\ \A o \in u2[e] : m < o
        BY <3>8, <3>10, <4>3, <4>5
      <4>9. Tally(Append(got, m), u2, pushed, line, broken)
        BY <2>9, <2>12, <4>4, <4>6, <4>7, <4>8, TallyRead
      <4>10. got' = Append(got, m)
        BY <2>7, <3>10, <4>5
      <4> QED BY <2>2, <4>1, <4>2, <4>9, <4>10 DEF MessagesInOrder
    <3> QED BY <3>9, <3>10
  <2> QED BY <2>11, <2>12, Ends
<1> QED BY <1>1, <1>2

-----------------------------------------------------------------------------
(***************************************************************************)
(* The invariant of the connections.                                       *)
(***************************************************************************)
(* The places of a connection, as they are named where the property is.     *)
LEMMA PlacesLie ==
    ASSUME LinkTypes, NEW n \in Serving
    PROVE  LET w == wire[<<C, n>>]
           IN  /\ \A k \in 1 .. 3, i \in Nat, m \in Nat :
                     Lies(w, Hands(n), Waiting(n), k, i, m)
                       <=> <<k, i>> \in Places(n) /\ m = MessageAt(n, <<k, i>>)
               /\ \A p \in Places(n) : /\ p[1] \in 1 .. 3 /\ p[2] \in Nat /\ p = <<p[1], p[2]>>
                                       /\ MessageAt(n, p) \in Nat
<1>1. PICK w \in Seq(Part) : w = wire[<<C, n>>]
  BY DEF LinkTypes, Channel
<1>2. PICK h \in Seq(Frame), q \in Seq(Nat) : h = Hands(n) /\ q = Waiting(n)
  <2>1. work[C] \in Seq(Frame) /\ <<>> \in Seq(Frame) /\ queue \in Seq(Nat) /\ <<>> \in Seq(Nat)
    BY Ends DEF LinkTypes
  <2> QED BY <2>1 DEF Hands, Waiting
<1>3. DOMAIN <<>> = {}
  OBVIOUS
<1>4. n = line => h = work[C] /\ q = queue
  BY <1>2 DEF Hands, Waiting
<1>5. n # line => h = <<>> /\ q = <<>>
  BY <1>2 DEF Hands, Waiting
<1>6. Places(n) = ({1} \X {i \in DOMAIN w : w[i].frame.tag = "CLIP"})
                  \cup ({2} \X {i \in DOMAIN h : h[i].tag = "CLIP"}) \cup ({3} \X DOMAIN q)
  <2>1. CASE n = line
    BY <1>1, <1>4, <2>1 DEF Places
  <2>2. CASE n # line
    <3>1. {i \in DOMAIN h : h[i].tag = "CLIP"} = {} /\ DOMAIN q = {}
      BY <1>3, <1>5, <2>2
    <3>2. ({2} \X {i \in DOMAIN h : h[i].tag = "CLIP"}) \cup ({3} \X DOMAIN q) = {}
      BY <3>1
    <3>3. Places(n) = ({1} \X {i \in DOMAIN w : w[i].frame.tag = "CLIP"}) \cup {}
      BY <1>1, <2>2 DEF Places
    <3> QED BY <3>2, <3>3
  <2> QED BY <2>1, <2>2
<1>7. \A k, i : <<k, i>> \in Places(n)
         <=> \/ k = 1 /\ i \in DOMAIN w /\ w[i].frame.tag = "CLIP"
             \/ k = 2 /\ i \in DOMAIN h /\ h[i].tag = "CLIP"
             \/ k = 3 /\ i \in DOMAIN q
  BY <1>6
<1>8. /\ \A i : MessageAt(n, <<1, i>>) = w[i].frame.message
      /\ \A i : <<2, i>> \in Places(n) => MessageAt(n, <<2, i>>) = h[i].message
      /\ \A i : <<3, i>> \in Places(n) => MessageAt(n, <<3, i>>) = q[i]
  <2>1. \A i : MessageAt(n, <<1, i>>) = w[i].frame.message
    BY <1>1 DEF MessageAt
  <2>2. \A i : <<2, i>> \in Places(n) \/ <<3, i>> \in Places(n) => n = line
    BY <1>3, <1>5, <1>7
  <2>3. \A i : MessageAt(n, <<2, i>>) = work[C][i].message /\ MessageAt(n, <<3, i>>) = queue[i]
    BY DEF MessageAt
  <2> QED BY <1>4, <2>1, <2>2, <2>3
<1>9. ASSUME NEW k \in 1 .. 3, NEW i \in Nat, NEW m \in Nat
      PROVE  Lies(w, h, q, k, i, m) <=> <<k, i>> \in Places(n) /\ m = MessageAt(n, <<k, i>>)
  <2>1. CASE k = 1
    BY <1>7, <1>8, <2>1 DEF Lies
  <2>2. CASE k = 2
    BY <1>7, <1>8, <2>2 DEF Lies
  <2>3. CASE k = 3
    BY <1>7, <1>8, <2>3 DEF Lies
  <2> QED BY <2>1, <2>2, <2>3
<1>10. ASSUME NEW p \in Places(n)
       PROVE  /\ p[1] \in 1 .. 3 /\ p[2] \in Nat /\ p = <<p[1], p[2]>>
              /\ MessageAt(n, p) \in Nat
  <2>1. CASE p \in {1} \X {i \in DOMAIN w : w[i].frame.tag = "CLIP"}
    <3>1. p[1] = 1 /\ p[2] \in DOMAIN w /\ w[p[2]].frame.tag = "CLIP" /\ p = <<p[1], p[2]>>
      BY <2>1
    <3>2. w[p[2]].frame \in Frame
      <4>1. \A i \in DOMAIN w : w[i] \in Part
        OBVIOUS
      <4>2. \A part \in Part : part.frame \in Frame
        BY DEF Part
      <4> QED BY <3>1, <4>1, <4>2, Zenon
    <3>3. w[p[2]].frame.message \in Nat
      BY <3>1, <3>2, FrameFacts
    <3>4. MessageAt(n, p) = w[p[2]].frame.message
      BY <1>1, <3>1 DEF MessageAt
    <3> QED BY <3>1, <3>3, <3>4
  <2>2. CASE p \in {2} \X {i \in DOMAIN h : h[i].tag = "CLIP"}
    <3>1. p[1] = 2 /\ p[2] \in DOMAIN h /\ h[p[2]].tag = "CLIP" /\ p = <<p[1], p[2]>>
      BY <2>2
    <3>2. h[p[2]] \in Frame
      BY <3>1
    <3>3. h[p[2]].message \in Nat
      BY <3>1, <3>2, FrameFacts
    <3>4. MessageAt(n, p) = h[p[2]].message
      BY <1>8, <3>1
    <3> QED BY <3>1, <3>3, <3>4
  <2>3. CASE p \in {3} \X DOMAIN q
    <3>1. p[1] = 3 /\ p[2] \in DOMAIN q /\ p = <<p[1], p[2]>>
      BY <2>3
    <3>2. MessageAt(n, p) = q[p[2]]
      BY <1>8, <3>1
    <3> QED BY <3>1, <3>2
  <2> QED BY <1>6, <2>1, <2>2, <2>3
<1> QED BY <1>1, <1>2, <1>9, <1>10

LEMMA InOrderIsAccounted ==
    ASSUME LinkTypes, MessagesInOrder
    PROVE  MessagesWerePushed /\ Accounted
<1>1. ASSUME NEW n \in Serving
      PROVE  /\ UnderWay(n) = Under[n]
             /\ \A p, r \in Places(n) : Ahead(p, r) => MessageAt(n, p) < MessageAt(n, r)
  <2>1. PICK w, h, q : w = wire[<<C, n>>] /\ h = Hands(n) /\ q = Waiting(n)
    OBVIOUS
  <2> DEFINE L(k, i, m) == Lies(w, h, q, k, i, m)
             M(p) == MessageAt(n, p)
             P == Places(n)
  <2>2. /\ \A k \in 1 .. 3, i \in Nat, m \in Nat : L(k, i, m) <=> <<k, i>> \in P /\ m = M(<<k, i>>)
        /\ \A p \in P : p[1] \in 1 .. 3 /\ p[2] \in Nat /\ p = <<p[1], p[2]>> /\ M(p) \in Nat
    BY <2>1, PlacesLie
  <2>3. Held(w, h, q) = {m \in Nat : \E k \in 1 .. 3, i \in Nat : L(k, i, m)}
    BY DEF Held
  <2>4. \A k, l \in 1 .. 3, i, j, m, o \in Nat :
           L(k, i, m) /\ L(l, j, o) /\ (k < l \/ (k = l /\ i < j)) => m < o
    BY <2>1 DEF MessagesInOrder, EachInOrder, Increasing, Before
  <2>5. UnderWay(n) = {M(p) : p \in P} /\ Under[n] = Held(w, h, q)
    BY <2>1 DEF UnderWay, Under
  <2>6. \A p, r : Ahead(p, r) <=> (p[1] < r[1] \/ (p[1] = r[1] /\ p[2] < r[2]))
    BY DEF Ahead
  <2> HIDE DEF L, M, P
  <2>7. ASSUME NEW p \in P
        PROVE  p[1] \in 1 .. 3 /\ p[2] \in Nat /\ M(p) \in Nat /\ L(p[1], p[2], M(p))
    BY <2>2
  <2>8. ASSUME NEW m \in Held(w, h, q) PROVE \E p \in P : m = M(p)
    <3>1. PICK k \in 1 .. 3, i \in Nat : L(k, i, m) /\ m \in Nat
      BY <2>3
    <3> QED BY <2>2, <3>1
  <2>9. {M(p) : p \in P} = Held(w, h, q)
    <3>1. \A p \in P : M(p) \in Held(w, h, q)
      BY <2>3, <2>7
    <3> QED BY <2>8, <3>1
  <2>10. ASSUME NEW p \in P, NEW r \in P, Ahead(p, r) PROVE M(p) < M(r)
    BY <2>4, <2>6, <2>7, <2>10
  <2> QED BY <2>5, <2>9, <2>10 DEF M, P
<1>2. PICK u : u = Under /\ \A n \in Serving : UnderWay(n) = u[n]
  BY <1>1
<1>3. /\ \A i \in DOMAIN got : got[i] \in 1 .. pushed
      /\ \A s \in Serving : u[s] \subseteq 1 .. pushed
      /\ \A i, j \in DOMAIN got : i # j => got[i] # got[j]
      /\ \A s \in Serving : \A i \in DOMAIN got : got[i] \notin u[s]
      /\ \A s, t \in Serving : s # t => u[s] \cap u[t] = {}
      /\ ~broken => /\ \A i \in DOMAIN got : got[i] = i
                    /\ \A m \in 1 .. pushed : m \in DOMAIN got \/ m \in u[line]
  BY <1>2 DEF MessagesInOrder, Tally
<1>4. Handled = {got[i] : i \in DOMAIN got} /\ line \in Serving
  BY DEF Handled, LinkTypes
<1>5. PICK all : all = UNION {UnderWay(n) : n \in Serving}
  OBVIOUS
<1>6. \A m : m \in all <=> \E n \in Serving : m \in u[n]
  BY <1>2, <1>5
<1>7. MessagesWerePushed
  BY <1>2, <1>3, <1>4 DEF MessagesWerePushed
<1>8. \A n \in Serving : UnderWay(n) \cap Handled = {}
  BY <1>2, <1>3, <1>4
<1>9. \A n, m \in Serving : n # m => UnderWay(n) \cap UnderWay(m) = {}
  BY <1>2, <1>3
<1>10. ASSUME ~broken
       PROVE  (\A i \in DOMAIN got : got[i] = i) /\ Handled \cup all = 1 .. pushed
  <2>1. \A m : m \in Handled \cup all => m \in 1 .. pushed
    BY <1>3, <1>4, <1>6
  <2>2. \A m \in 1 .. pushed : m \in Handled \cup all
    BY <1>3, <1>4, <1>6, <1>10
  <2> QED BY <1>3, <1>10, <2>1, <2>2
<1>11. Accounted
  BY <1>1, <1>3, <1>5, <1>8, <1>9, <1>10 DEF Accounted
<1> QED BY <1>7, <1>11

Inv == LinkTypes /\ ControlInv /\ MessagesInOrder

LEMMA InitEstablishesInv ==
    ASSUME Init
    PROVE  Inv
<1>1. /\ pc = [e \in End |-> IF e = C THEN "connecting" ELSE "none"]
      /\ work = [e \in End |-> <<>>] /\ sent = [e \in End |-> 0] /\ read = [e \in End |-> 0]
      /\ late = FALSE /\ line = CHOOSE n \in Serving : TRUE
      /\ wire = [ch \in Channel |-> <<>>] /\ spoiled = [ch \in Channel |-> FALSE]
      /\ closed = [ch \in Channel |-> TRUE] /\ dead = [n \in Serving |-> FALSE]
      /\ queue = <<>> /\ wake = FALSE /\ ringing = FALSE /\ pushed = 0
      /\ has \in Starts /\ got = <<>> /\ broken = FALSE
  BY DEF Init
<1>2. /\ <<>> \in Seq(Frame) /\ <<>> \in Seq(Part) /\ <<>> \in Seq(Nat) /\ 0 \in Nat
      /\ DOMAIN <<>> = {}
  OBVIOUS
<1>3. LinkTypes
  <2>1. pc \in [End -> PCs]
    BY <1>1 DEF PCs
  <2>2. work \in [End -> Seq(Frame)] /\ wire \in [Channel -> Seq(Part)]
    BY <1>1, <1>2
  <2>3. sent \in [End -> Nat] /\ read \in [End -> Nat]
    BY <1>1
  <2>4. spoiled \in [Channel -> BOOLEAN] /\ closed \in [Channel -> BOOLEAN] /\ dead \in [Serving -> BOOLEAN]
    BY <1>1
  <2>5. queue \in Seq(Nat) /\ got \in Seq(Nat) /\ pushed \in Nat
    BY <1>1, <1>2
  <2>6. has \in [Side -> SUBSET Record]
    BY <1>1, LinkAssumption DEF LinkAssumption
  <2>7. wake \in BOOLEAN /\ ringing \in BOOLEAN /\ broken \in BOOLEAN /\ late \in BOOLEAN
    BY <1>1
  <2>8. line \in Serving
    BY <1>1, LinkAssumption DEF LinkAssumption
  <2> QED BY <2>1, <2>2, <2>3, <2>4, <2>5, <2>6, <2>7, <2>8 DEF LinkTypes
<1>4. /\ \A e \in End : work[e] = <<>> /\ sent[e] = 0
      /\ \A n \in Serving : wire[<<C, n>>] = <<>> /\ wire[<<n, C>>] = <<>>
  BY <1>1 DEF Channel
<1>5. ControlInv
  <2>1. work[C] = <<>> /\ sent[C] = 0 /\ \A n \in Serving : work[n] = <<>>
    BY <1>4, Ends
  <2>2. HandsFree /\ FreshWire
    BY <1>4, <2>1 DEF HandsFree, FreshWire
  <2>3. OneInHand /\ ServerSendsNoMessage
    BY <1>2, <1>4, <2>1 DEF OneInHand, ServerSendsNoMessage
  <2>4. NotStranded
    BY <1>1 DEF NotStranded
  <2> QED BY <2>2, <2>3, <2>4 DEF ControlInv
<1>6. MessagesInOrder
  <2>1. \A k, i, m : ~Lies(<<>>, <<>>, <<>>, k, i, m)
    BY <1>2 DEF Lies
  <2>2. Increasing(<<>>, <<>>, <<>>) /\ Held(<<>>, <<>>, <<>>) = {}
    BY <2>1 DEF Increasing, Held
  <2>3. \A n \in Serving : wire[<<C, n>>] = <<>> /\ Hands(n) = <<>> /\ Waiting(n) = <<>>
    BY <1>1, <1>4, Ends DEF Hands, Waiting
  <2>4. EachInOrder
    BY <2>2, <2>3 DEF EachInOrder
  <2>5. \A n \in Serving : Under[n] = {}
    BY <2>2, <2>3 DEF Under
  <2>6. 1 .. 0 = {}
    OBVIOUS
  <2>7. PICK u : u = Under
    OBVIOUS
  <2>8. Tally(<<>>, u, 0, line, FALSE)
    BY <1>2, <2>5, <2>6, <2>7 DEF Tally
  <2> QED BY <1>1, <2>4, <2>7, <2>8 DEF MessagesInOrder
<1> QED BY <1>3, <1>5, <1>6 DEF Inv

LEMMA NextKeepsInv ==
    ASSUME Inv, [Next]_vars
    PROVE  Inv'
<1> USE DEF Inv
<1>1. CASE Push
  BY <1>1, PushKeeps, PushInOrder
<1>2. CASE Signal
  BY <1>2, PushKeeps, WalkInOrder
<1>3. CASE ConnectWoken \/ ConnectFails \/ Backoff \/ SelectWoken \/ SelectTimesOut \/ Woken
  BY <1>3, WalkKeeps, WalkInOrder
<1>4. CASE ConnectSocket
  BY <1>4, ConnectKeeps, ConnectInOrder
<1>5. CASE ClientHandshake \/ \E n \in Serving : ServerHandshake(n)
  BY <1>5, HandshakeKeeps, WalkInOrder
<1>6. CASE Top
  BY <1>6, LoopKeeps, WalkInOrder
<1>7. CASE DrainOutboundMessages
  BY <1>7, LoopKeeps, DrainInOrder
<1>8. ASSUME NEW n \in Serving, Cut(n) PROVE Inv'
  BY <1>8, CutKeeps, WalkInOrder
<1>9. ASSUME NEW e \in End, Leave(e), UNCHANGED <<outbox, has, got>> PROVE Inv'
  BY <1>9, LeaveKeeps, LeaveInOrder
<1>10. ASSUME NEW n \in Serving, Idle(n) PROVE Inv'
  <2>1. Leave(n) /\ UNCHANGED <<outbox, has, got>>
    BY <1>10 DEF Idle, Break
  <2> QED BY <1>9, <2>1, Ends
<1>11. ASSUME NEW e \in End, Thread(e) PROVE Inv'
  <2>1. CASE SendPart(e)
    BY <2>1, SendPartKeeps, SendPartInOrder
  <2>2. CASE SendFails(e)
    BY <2>2, SendFailsKeeps, SendFailsInOrder
  <2>3. CASE SelectReadable(e)
    <3>1. UNCHANGED <<got, queue, pushed, line, wire, work, broken>>
      BY <2>3 DEF SelectReadable, socket, outbox
    <3>2. /\ broken' \in BOOLEAN /\ (broken => broken') /\ work'[C] = work[C]
          /\ \A n \in Serving : wire'[<<C, n>>] = wire[<<C, n>>]
      BY <3>1 DEF LinkTypes
    <3>3. MessagesInOrder'
      BY <3>1, <3>2, NothingMoves
    <3> QED BY <2>3, <3>3, ReadableKeeps
  <2>4. CASE RecvPart(e)
    BY <2>4, RecvPartKeeps, RecvPartInOrder
  <2>5. CASE RecvFails(e)
    <3>1. Leave(e) /\ UNCHANGED <<outbox, has, got>>
      BY <2>5 DEF RecvFails, Break
    <3> QED BY <1>9, <3>1
  <2> QED BY <1>11, <2>1, <2>2, <2>3, <2>4, <2>5 DEF Thread
<1>12. ASSUME NEW e \in End, HandshakeFails(e) \/ SocketFails(e) PROVE Inv'
  <2>1. Leave(e) /\ UNCHANGED <<outbox, has, got>>
    BY <1>12 DEF HandshakeFails, SocketFails
  <2> QED BY <1>9, <2>1
<1>13. CASE UNCHANGED vars
  <2>1. UNCHANGED <<pc, work, sent, read, late, line, wire, spoiled, closed, dead, queue, wake,
                    ringing, pushed, has, got, broken>>
    BY <1>13 DEF vars, threads, socket, outbox
  <2>2. LinkTypes'
    BY <2>1 DEF LinkTypes
  <2>3. HandsFree' /\ FreshWire' /\ NotStranded'
    BY <2>1 DEF ControlInv, HandsFree, FreshWire, NotStranded
  <2>4. /\ broken' \in BOOLEAN /\ (broken => broken') /\ work'[C] = work[C]
        /\ \A n \in Serving : wire'[<<C, n>>] = wire[<<C, n>>]
    BY <2>1 DEF LinkTypes
  <2>5. MessagesInOrder'
    BY <2>1, <2>4, NothingMoves
  <2> QED BY <2>1, <2>2, <2>3, <2>5, SameHands DEF ControlInv
<1> QED BY <1>1, <1>2, <1>3, <1>4, <1>5, <1>6, <1>7, <1>8, <1>10, <1>11, <1>12, <1>13
        DEF Next, OutgoingThread

(* Where the outgoing thread has a frame in hand and how much of it is sent, and
   that every message is accounted for in every state, however many connections
   of the dialler are served at once.                                       *)
THEOREM LinkInvariant == Spec => []LinkInv
<1>1. Spec => []Inv
  <2>1. Init => Inv
    BY InitEstablishesInv
  <2>2. Inv /\ [Next]_vars => Inv'
    BY NextKeepsInv
  <2> QED BY <2>1, <2>2, PTL DEF Spec
<1>2. Inv => LinkInv
  BY InOrderIsAccounted DEF Inv, LinkInv
<1> QED BY <1>1, <1>2, PTL

(* PushMessage and DrainOutboundMessages: a thread that waits with a message in
   its queue has a wake pending, or the push is about to signal it.         *)
THEOREM QueueNeverStranded == Spec => []QueueNotStranded
<1>1. LinkInv => QueueNotStranded
  BY DEF LinkInv, ControlInv, NotStranded, QueueNotStranded, At
<1> QED BY <1>1, LinkInvariant, PTL

(* SendAll, DrainOutboundMessages, the receive loops and the accept of a new
   connection beside an old one: what is under way over one connection is in the
   order of the pushes, no message is handled twice or under way twice, and until
   a connection fails they are handled in order and none is missing.        *)
THEOREM MessagesAccounted == Spec => []Accounted
<1>1. LinkInv => Accounted
  BY DEF LinkInv
<1> QED BY <1>1, LinkInvariant, PTL

=============================================================================
