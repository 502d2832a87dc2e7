-------------------------------- MODULE Link --------------------------------
(***************************************************************************)
(* The connections of one dialler (Peer.cpp), from a dial to the break and  *)
(* again: the outgoing thread with its queue and wake event, the sockets,   *)
(* whose buffers are finite (utils_socket.h, CryptoChannel.cpp), and the    *)
(* incoming threads.  Every connection accepted gets a thread of its own,   *)
(* and nothing tells the one before that the dialler is back: it may still  *)
(* read and handle what came over its own connection.  A frame is a number  *)
(* of parts, and a thread that is sending one does not read.                *)
(***************************************************************************)
EXTENDS Naturals, SequencesExt

CONSTANTS
    Serving,     \* the threads of incoming peers: how many connections may overlap
    Record,      \* register records
    Size,        \* Size[r]: the parts of the frame that carries r
    Starts,      \* what the two stores may hold at the start
    MaxFrame,    \* kMaxCiphertextMessageBytes, in parts
    Buffer,      \* what the sockets hold of one direction, in parts
    MaxPushes, MaxFaults   \* bounds

C == "client"    \* ThreadProcSend, and its store
S == "server"    \* the store of the serving threads
Side == {C, S}
End == {C} \cup Serving
Channel == ({C} \X Serving) \cup (Serving \X {C})   \* from, to

ASSUME LinkAssumption ==
    /\ Serving # {} /\ C \notin Serving /\ IsFiniteSet(Record)
    /\ Size \in [Record -> Nat \ {0}] /\ Starts \subseteq [Side -> SUBSET Record]
    /\ MaxFrame \in Nat \ {0} /\ Buffer \in Nat \ {0} /\ MaxPushes \in Nat /\ MaxFaults \in Nat

VARIABLES
    pc,        \* where each thread is
    work,      \* work[e]: the frames its handler sends before it goes on
    sent,      \* sent[e]: the parts of the first of them already sent
    read,      \* read[e]: the parts of the current frame e has read
    late,      \* the dialler's next ping is due
    line,      \* the thread that serves the dialler's last socket
    wire,      \* wire[ch]: the parts that were sent and are not read
    spoiled,   \* spoiled[ch]: a frame was encrypted but not sent whole
    closed,    \* closed[ch]: the sender has closed its socket
    dead,      \* dead[n]: nothing crosses this connection any more
    queue,     \* messageQueue_ of the outgoing peer
    wake,      \* its wake event has a datagram
    ringing,   \* a push is between its Push and its Signal
    has,       \* has[s]: the records of a store
    pushed,    \* how many messages were pushed
    got,       \* history: the messages the serving threads handled, in order
    broken,    \* history: a connection has failed
    faults

threads == <<pc, work, sent, read, late>>
socket  == <<line, wire, spoiled, closed, dead>>
outbox  == <<queue, wake, ringing, pushed>>
vars    == <<threads, socket, outbox, has, got, broken, faults>>

RSYN(records) == [tag |-> "RSYN", records |-> records, size |-> 1]
REGW(r)       == [tag |-> "REGW", record |-> r, size |-> Size[r]]
CLIP(m)       == [tag |-> "CLIP", message |-> m, size |-> 1]
Small(tag)    == [tag |-> tag, size |-> 1]

(* The other end, the channels between the two, and the store of a thread.  *)
Other(e) == IF e = C THEN line ELSE C
Out(e)   == <<e, Other(e)>>
In(e)    == <<Other(e), e>>
Cable(e) == IF e = C THEN line ELSE e
Store(e) == IF e = C THEN C ELSE S

Init ==
    /\ pc = [e \in End |-> IF e = C THEN "connecting" ELSE "none"]
    /\ work = [e \in End |-> <<>>] /\ sent = [e \in End |-> 0] /\ read = [e \in End |-> 0]
    /\ late = FALSE /\ line = CHOOSE n \in Serving : TRUE
    /\ wire = [ch \in Channel |-> <<>>] /\ spoiled = [ch \in Channel |-> FALSE]
    /\ closed = [ch \in Channel |-> TRUE] /\ dead = [n \in Serving |-> FALSE]
    /\ queue = <<>> /\ wake = FALSE /\ ringing = FALSE /\ pushed = 0
    /\ has \in Starts /\ got = <<>> /\ broken = FALSE /\ faults = 0

Fault == faults < MaxFaults /\ faults' = faults + 1

(***************************************************************************)
(* PushMessage: another thread queues a message and then rings.            *)
(***************************************************************************)
Push ==
    /\ pushed < MaxPushes /\ ~ringing
    /\ pushed' = pushed + 1 /\ queue' = Append(queue, pushed + 1) /\ ringing' = TRUE
    /\ UNCHANGED <<threads, socket, wake, has, got, broken, faults>>

Signal ==
    /\ ringing /\ ringing' = FALSE /\ wake' = TRUE
    /\ UNCHANGED <<threads, socket, queue, pushed, has, got, broken, faults>>

(***************************************************************************)
(* From the dial to the first frames.                                      *)
(***************************************************************************)
(* A thread that is free serves the new socket, also beside one that still serves
   an earlier socket of this dialler.                                       *)
Free == {n \in Serving : pc[n] = "none"}

ConnectSocket ==
    /\ pc[C] = "connecting" /\ Free # {}
    /\ line' = CHOOSE n \in Free : TRUE
    /\ pc' = [pc EXCEPT ![C] = "handshake", ![line'] = "handshake"]
    /\ wire' = [wire EXCEPT ![<<C, line'>>] = <<>>, ![<<line', C>>] = <<>>]
    /\ spoiled' = [spoiled EXCEPT ![<<C, line'>>] = FALSE, ![<<line', C>>] = FALSE]
    /\ closed' = [closed EXCEPT ![<<C, line'>>] = FALSE, ![<<line', C>>] = FALSE]
    /\ dead' = [dead EXCEPT ![line'] = FALSE]
    /\ UNCHANGED <<work, sent, read, late, outbox, has, got, broken, faults>>

(* Any wake while the connect is pending counts as its failure.             *)
ConnectWoken ==
    /\ pc[C] = "connecting" /\ wake /\ wake' = FALSE
    /\ pc' = [pc EXCEPT ![C] = "backoff"]
    /\ UNCHANGED <<work, sent, read, late, socket, queue, ringing, pushed, has, got, broken, faults>>

ConnectFails ==
    /\ pc[C] = "connecting" /\ Fault
    /\ pc' = [pc EXCEPT ![C] = "backoff"]
    /\ UNCHANGED <<work, sent, read, late, socket, outbox, has, got, broken>>

Backoff ==
    /\ pc[C] = "backoff" /\ pc' = [pc EXCEPT ![C] = "connecting"]
    /\ UNCHANGED <<work, sent, read, late, socket, outbox, has, got, broken, faults>>

(* The client is done when it has sent its last handshake frame.            *)
ClientHandshake ==
    /\ pc[C] = "handshake" /\ pc[line] = "handshake"
    /\ pc' = [pc EXCEPT ![C] = "top"]
    /\ work' = [work EXCEPT ![C] = <<RSYN(has[C])>>] /\ late' = TRUE
    /\ UNCHANGED <<sent, read, socket, outbox, has, got, broken, faults>>

ServerHandshake(n) ==
    /\ pc[n] = "handshake" /\ (n = line => pc[C] # "handshake")
    /\ pc' = [pc EXCEPT ![n] = "select"]
    /\ work' = [work EXCEPT ![n] = <<RSYN(has[S])>>]
    /\ UNCHANGED <<sent, read, late, socket, outbox, has, got, broken, faults>>

(* CloseSocket.  What the end has sent may still be read at the other end, or
   a reset destroys it.  The outgoing thread backs off, the incoming one ends. *)
Leave(e) ==
    /\ pc' = [pc EXCEPT ![e] = IF e = C THEN "backoff" ELSE "none"]
    /\ work' = [work EXCEPT ![e] = <<>>] /\ sent' = [sent EXCEPT ![e] = 0]
    /\ read' = [read EXCEPT ![e] = 0]
    /\ closed' = [closed EXCEPT ![Out(e)] = TRUE]
    /\ \E left \in {wire[Out(e)], <<>>} :
         /\ dead[Cable(e)] => left = <<>>
         /\ wire' = [wire EXCEPT ![Out(e)] = left, ![In(e)] = <<>>]
    /\ spoiled' = [spoiled EXCEPT ![In(e)] = FALSE]
    /\ dead' = [dead EXCEPT ![Cable(e)] = @ /\ ~closed[In(e)]]
    /\ broken' = TRUE /\ UNCHANGED <<late, line>>

Break(e) == Leave(e) /\ UNCHANGED <<outbox, has, got, faults>>

(* The handshake fails at either end, or the server is at its peer limit and
   closes when the client thinks itself connected.                          *)
HandshakeFails(e) ==
    /\ pc[e] = "handshake"
    /\ IF closed[In(e)] THEN UNCHANGED faults ELSE Fault
    /\ Leave(e) /\ UNCHANGED <<outbox, has, got>>

(* The socket of one end fails, when the network of that machine changes or it
   sleeps: the other end is not told.                                       *)
SocketFails(e) ==
    /\ pc[e] \in {"select", "recv"} /\ work[e] = <<>> /\ Fault
    /\ Leave(e) /\ UNCHANGED <<outbox, has, got>>

(***************************************************************************)
(* SendFrame and SendAll.                                                  *)
(***************************************************************************)
Sending(e) == pc[e] \notin {"handshake", "none"} /\ work[e] # <<>>
Blocked(e) == Sending(e) /\ Len(wire[Out(e)]) >= Buffer

SendPart(e) ==
    /\ Sending(e) /\ Len(wire[Out(e)]) < Buffer
    /\ LET frame == Head(work[e])
           last  == sent[e] + 1 = frame.size
       IN  /\ frame.size <= MaxFrame
           /\ wire' = [wire EXCEPT ![Out(e)] =
                Append(@, [frame |-> frame, n |-> sent[e] + 1, good |-> ~spoiled[Out(e)]])]
           /\ sent' = [sent EXCEPT ![e] = IF last THEN 0 ELSE @ + 1]
           /\ work' = [work EXCEPT ![e] = IF last THEN Tail(@) ELSE @]
    /\ UNCHANGED <<pc, read, late, line, spoiled, closed, dead, outbox, has, got, broken, faults>>

(* A frame that would be too long is not sent at all; 90 seconds without room
   in the buffer, or a socket the other end has closed, end a send after the
   cipher has moved on.  An end that runs reads in 90 seconds: the other one is
   blocked itself, or gone.  Of two blocked ends a PING is not the first to give
   up: the other has waited since before the answer failed that kept the client.
   A ping is due by then.                                                   *)
TooLong(e) == Head(work[e]).size > MaxFrame
TimesOut(e) ==
    Blocked(e) /\ (dead[Cable(e)] \/ (Blocked(Other(e)) /\ Head(work[e]).tag # "PING"))

(* A failed digest or REOS is passed over, a failed record ends the answer it
   is part of, and any other failed frame ends the connection.              *)
SendFails(e) ==
    /\ Sending(e) /\ (TooLong(e) \/ TimesOut(e) \/ closed[In(e)])
    /\ IF Head(work[e]).tag \in {"RSYN", "REOS", "REGW"}
       THEN /\ work' = [work EXCEPT ![e] = IF Head(@).tag = "REGW" THEN <<>> ELSE Tail(@)]
            /\ sent' = [sent EXCEPT ![e] = 0]
            /\ spoiled' = [spoiled EXCEPT ![Out(e)] = @ \/ ~(TooLong(e) \/ closed[In(e)])]
            /\ late' = (late \/ (e = C /\ TimesOut(C)))
            /\ UNCHANGED <<pc, read, line, wire, closed, dead, outbox, has, got, broken, faults>>
       ELSE Break(e)

(* A plausible bug: a wake ends the operation.                              *)
WokenGivesUp ==
    /\ wake /\ (pc[C] = "recv" \/ Sending(C)) /\ wake' = FALSE
    /\ work' = [work EXCEPT ![C] = <<>>] /\ sent' = [sent EXCEPT ![C] = 0]
    /\ UNCHANGED <<pc, read, late, socket, queue, ringing, pushed, has, got, broken, faults>>

(* The wait for the socket ends by a wake, which it takes, and begins again. *)
Woken ==
    /\ wake /\ (pc[C] = "recv" \/ Sending(C)) /\ wake' = FALSE
    /\ UNCHANGED <<threads, socket, queue, ringing, pushed, has, got, broken, faults>>

(***************************************************************************)
(* The loops.                                                              *)
(***************************************************************************)
At(e, where) == pc[e] = where /\ work[e] = <<>>
Readable(e) == ~dead[Cable(e)] /\ (wire[In(e)] # <<>> \/ closed[In(e)])

(* A ping, if half a minute has passed since the last one.                  *)
Top ==
    /\ At(C, "top") /\ pc' = [pc EXCEPT ![C] = "drain"]
    /\ work' = [work EXCEPT ![C] = IF late THEN <<Small("PING")>> ELSE <<>>] /\ late' = FALSE
    /\ UNCHANGED <<sent, read, socket, outbox, has, got, broken, faults>>

(* A plausible bug: one message for every wake.                             *)
DrainOne ==
    /\ At(C, "drain") /\ pc' = [pc EXCEPT ![C] = "select"]
    /\ IF queue = <<>> THEN UNCHANGED <<work, queue>>
       ELSE work' = [work EXCEPT ![C] = <<CLIP(Head(queue))>>] /\ queue' = Tail(queue)
    /\ UNCHANGED <<sent, read, late, socket, wake, ringing, pushed, has, got, broken, faults>>

DrainOutboundMessages ==
    /\ At(C, "drain")
    /\ IF queue = <<>>
       THEN pc' = [pc EXCEPT ![C] = "select"] /\ UNCHANGED <<work, queue>>
       ELSE /\ work' = [work EXCEPT ![C] = <<CLIP(Head(queue))>>]
            /\ queue' = Tail(queue) /\ UNCHANGED pc
    /\ UNCHANGED <<sent, read, late, socket, wake, ringing, pushed, has, got, broken, faults>>

SelectWoken ==
    /\ At(C, "select") /\ wake /\ wake' = FALSE
    /\ pc' = [pc EXCEPT ![C] = "top"]
    /\ UNCHANGED <<work, sent, read, late, socket, queue, ringing, pushed, has, got, broken, faults>>

SelectReadable(e) ==
    /\ At(e, "select") /\ Readable(e) /\ (e = C => ~wake)
    /\ pc' = [pc EXCEPT ![e] = "recv"]
    /\ UNCHANGED <<work, sent, read, late, socket, outbox, has, got, broken, faults>>

(* Nothing came for half a minute, in which a server that had something to do
   has done it: the client pings, the server closes what has been silent.   *)
SelectTimesOut ==
    /\ At(C, "select") /\ ~wake /\ ~Readable(C)
    /\ dead[line] \/ (At(line, "select") /\ wire[Out(C)] = <<>>)
    /\ pc' = [pc EXCEPT ![C] = "top"] /\ late' = TRUE
    /\ UNCHANGED <<work, sent, read, socket, outbox, has, got, broken, faults>>

Idle(n) == At(n, "select") /\ dead[n] /\ Break(n)

(* The frame is whole: the handlers of ThreadProcSend and ThreadProcRecv and
   HandleRegisterFrame.  The store is a hash table: its order is any.       *)
Handle(e, frame) ==
    /\ pc' = [pc EXCEPT ![e] = IF e = C THEN "top" ELSE "select"]
    /\ \E answer \in
         CASE frame.tag = "RSYN" ->
                {[i \in DOMAIN order |-> REGW(order[i])] \o <<Small("REOS")>> :
                    order \in SetToSeqs(has[Store(e)] \ frame.records)}
           [] frame.tag = "PING" -> {<<Small("PONG")>>}
           [] OTHER -> {<<>>} :
         work' = [work EXCEPT ![e] = answer]
    /\ has' = IF frame.tag = "REGW" THEN [has EXCEPT ![Store(e)] = @ \cup {frame.record}] ELSE has
    /\ got' = IF frame.tag = "CLIP" THEN Append(got, frame.message) ELSE got

RecvPart(e) ==
    /\ pc[e] = "recv" /\ ~dead[Cable(e)] /\ wire[In(e)] # <<>>
    /\ LET part == Head(wire[In(e)])
       IN  IF ~part.good \/ part.n # read[e] + 1 THEN Break(e)
           ELSE /\ wire' = [wire EXCEPT ![In(e)] = Tail(@)]
                /\ IF part.n < part.frame.size
                   THEN read' = [read EXCEPT ![e] = part.n] /\ UNCHANGED <<pc, work, has, got>>
                   ELSE read' = [read EXCEPT ![e] = 0] /\ Handle(e, part.frame)
                /\ UNCHANGED <<sent, late, line, spoiled, closed, dead, outbox, broken, faults>>

(* A plausible bug: the wait for the rest of a frame has no end.            *)
RecvFailsOnClose(e) ==
    /\ pc[e] = "recv" /\ ~dead[Cable(e)] /\ wire[In(e)] = <<>> /\ closed[In(e)]
    /\ Break(e)

(* The other end closed, or the rest of the frame does not come.            *)
RecvFails(e) ==
    /\ pc[e] = "recv"
    /\ dead[Cable(e)] \/ (wire[In(e)] = <<>> /\ (closed[In(e)] \/ spoiled[In(e)]))
    /\ Break(e)

(* The network is gone without either end being told.                       *)
Cut(n) ==
    /\ ~dead[n] /\ (~closed[<<C, n>>] \/ ~closed[<<n, C>>]) /\ Fault
    /\ dead' = [dead EXCEPT ![n] = TRUE] /\ broken' = TRUE
    /\ UNCHANGED <<threads, line, wire, spoiled, closed, outbox, has, got>>

-----------------------------------------------------------------------------
OutgoingThread ==
    \/ ConnectSocket \/ ConnectWoken \/ Backoff \/ ClientHandshake
    \/ Woken \/ Top \/ DrainOutboundMessages \/ SelectWoken \/ SelectTimesOut

Thread(e) ==
    SendPart(e) \/ SendFails(e) \/ SelectReadable(e) \/ RecvPart(e) \/ RecvFails(e)

Next ==
    \/ Push \/ Signal \/ OutgoingThread \/ ConnectFails
    \/ \E n \in Serving : ServerHandshake(n) \/ Idle(n) \/ Cut(n)
    \/ \E e \in End : Thread(e) \/ HandshakeFails(e) \/ SocketFails(e)

Spec == Init /\ [][Next]_vars

(* Every thread runs, and a handshake the other end has left ends.          *)
FairSpec ==
    /\ Spec /\ WF_vars(Signal)
    /\ WF_vars(OutgoingThread \/ Thread(C) \/ (closed[In(C)] /\ HandshakeFails(C)))
    /\ \A n \in Serving :
         WF_vars(\/ ServerHandshake(n) \/ Idle(n) \/ Thread(n)
                 \/ closed[In(n)] /\ HandshakeFails(n))

-----------------------------------------------------------------------------
(* A message is never left in the queue of a thread that sleeps: the wake of
   its push is pending or about to be (the queue is drained after every wake and
   before every wait, whoever took the wake).                               *)
QueueNotStranded == At(C, "select") /\ queue # <<>> => wake \/ ringing

(* Where a message under way over the connection of n can be, in the order it
   passes through: on the wire, in the hands of the thread, in the queue.   *)
Places(n) ==
    ({1} \X {i \in DOMAIN wire[<<C, n>>] : wire[<<C, n>>][i].frame.tag = "CLIP"})
    \cup IF n = line
         THEN ({2} \X {i \in DOMAIN work[C] : work[C][i].tag = "CLIP"}) \cup ({3} \X DOMAIN queue)
         ELSE {}

MessageAt(n, p) ==
    CASE p[1] = 1 -> wire[<<C, n>>][p[2]].frame.message
      [] p[1] = 2 -> work[C][p[2]].message
      [] OTHER    -> queue[p[2]]

Ahead(p, q) == p[1] < q[1] \/ (p[1] = q[1] /\ p[2] < q[2])

UnderWay(n) == {MessageAt(n, p) : p \in Places(n)}
Handled     == {got[i] : i \in DOMAIN got}

(* What is under way over one connection is in the order of the pushes.  No
   message is handled twice, handled and still under way, or under way over two
   connections, also when the thread of a broken connection reads on beside the
   next one (a message is taken from the queue before it is sent, and never put
   back).  Until a connection fails none is missing and all are handled in order;
   after that one may be lost, or be handled after one that was pushed later. *)
Accounted ==
    /\ \A n \in Serving : \A p, q \in Places(n) :
         Ahead(p, q) => MessageAt(n, p) < MessageAt(n, q)
    /\ \A i, j \in DOMAIN got : i # j => got[i] # got[j]
    /\ \A n \in Serving : UnderWay(n) \cap Handled = {}
    /\ \A n, m \in Serving : n # m => UnderWay(n) \cap UnderWay(m) = {}
    /\ ~broken => /\ \A i \in DOMAIN got : got[i] = i
                  /\ Handled \cup UNION {UnderWay(n) : n \in Serving} = 1 .. pushed

(* What the store of one side lacks of the other's.                         *)
Lacks(s) == has[IF s = C THEN S ELSE C] \ has[s]

Fits(r)  == Size[r] <= MaxFrame

(* The frames that tell them fit the buffers, with the REOS and a PONG.      *)
AnswerFits(s) == MapThenSumSet(LAMBDA r : Size[r], {r \in Lacks(s) : Fits(r)}) + 2 <= Buffer

(* When the network has settled, the queue empties and each store gets what it
   lacks, also when both ends answer a digest at once and one of the answers is
   longer than the buffers (SendAll's idle timeout; a send that failed spoils the
   stream, and the connection ends by it).  A record that is longer than a frame
   ends every answer it is in, so the store that lacks one is promised nothing,
   but the other store is, and the messages are.  Two answers that are both longer
   than the buffers can block each other for ever: then it is the queue alone that
   is sure to empty.                                                        *)
Converges ==
    <>[](/\ queue = <<>>
         /\ (\E s \in Side : AnswerFits(s)) =>
              \A s \in Side : (\A r \in Lacks(s) : Fits(r)) => Lacks(s) = {})

=============================================================================
