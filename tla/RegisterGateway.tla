--------------------------- MODULE RegisterGateway ---------------------------
(***************************************************************************)
(* The uses of the registers: the command line (Cli.cpp), which knows no   *)
(* register itself and asks one daemon after the other until one answers   *)
(* (OneShotPeer.cpp, Peer.cpp), and the user interface of a daemon         *)
(* (ClipboardActions.cpp), whose edits are several operations of the       *)
(* store.  Stamps and merges are RegisterStore's: here a later write has a *)
(* later stamp, and what one daemon writes reaches the others in any order.*)
(***************************************************************************)
EXTENDS Naturals, FiniteSets, Sequences

CONSTANTS
    Host,         \* the daemons
    Users,        \* the daemons whose user edits registers
    Name, Value,
    Gone,         \* the value of a tombstone
    Absent,       \* no record at all
    None,
    Requests,     \* the command lines: verb, names its argument matches, wild, value
    MaxCounts,    \* the values of maxCount, a setting
    MaxEvents     \* bound: edits and failures together

Record == [stamp : Nat, value : Value \cup {Gone}, private : BOOLEAN]

(* What a client asks, and what it is answered.                             *)
Question ==
    [tag : {"RLST", "PING"}] \cup [tag : {"RGET"}, name : Name] \cup [tag : {"CLIP"}, value : Value]
        \cup [tag : {"REGW"}, name : Name, value : Value \cup {Gone}]
Reply ==
    [tag : {"ROKW", "RERR", "RDEL", "NONE", "PONG"}] \cup [tag : {"REGW"}, value : Value]
        \cup [tag : {"RLST"}, names : SUBSET Name]

ExitCode == {"ok", "refused", "absent", "no match", "unreachable"}
Command == [request : Requests, tried : SUBSET Host, todo : SUBSET Name, exit : ExitCode \cup {None}]
Connection == [to : Host, inn : Seq(Question), out : Seq(Reply)]

ASSUME GatewayAssumption ==
    /\ Users \subseteq Host /\ Gone \notin Value
    /\ Absent \notin Record /\ None \notin Connection \cup Command \cup ExitCode
    /\ \A r \in Requests :
         /\ r.verb \in {"copy", "paste", "put", "touch", "rm", "ls"} /\ r.names \subseteq Name
         /\ r.wild => r.verb \in {"touch", "rm", "ls"}
         /\ ~r.wild /\ r.verb # "ls" => \E n \in Name : r.names = {n}
         /\ r.verb = "copy" => r.value \in Value
    /\ MaxCounts \subseteq Nat /\ MaxEvents \in Nat

VARIABLES
    maxCount,  \* how many live registers a store takes
    now,       \* the latest stamp
    store,     \* store[h][n]: the record of daemon h under n, or Absent
    spread,    \* records on their way: host, name, rec
    clips,     \* what the daemons were handed as the clipboard
    cli,       \* the command being run: request, daemons tried, targets left, exit
    conn,      \* its connection: to, inn and out, the frames not yet read at either end
    orphans,   \* connections the client has left and their daemons still read
    wrote,     \* history: names and stamps the command's frames wrote, in order
    start,     \* history: the stores when the command began
    ui,        \* ui[h]: the edit its user interface is in, or None
    undo,      \* undo[h]: the register of the undo slot, or None
    rename,    \* history: the last rename: host, names, rec, and whether others touched them
    edits, faults

cliVars == <<clips, cli, conn, orphans, start>>
uiVars  == <<ui, undo>>
vars    == <<maxCount, now, store, spread, cliVars, wrote, uiVars, rename, edits, faults>>

Init ==
    /\ maxCount \in MaxCounts
    /\ now = 1 /\ spread = {} /\ clips = {} /\ cli = None /\ conn = None /\ orphans = {}
    /\ \E held \in SUBSET Name, v \in Value :
         store = [h \in Host |-> [n \in Name |->
            IF n \in held THEN [stamp |-> 1, value |-> v, private |-> FALSE] ELSE Absent]]
    /\ wrote = <<>> /\ start = store
    /\ ui = [h \in Host |-> None] /\ undo = [h \in Host |-> None] /\ rename = None
    /\ edits = 0 /\ faults = 0

Live(h, n) == store[h][n] # Absent /\ store[h][n].value # Gone
LiveNames(h) == {n \in Name : Live(h, n)}
Stamp(r) == IF r = Absent THEN 0 ELSE r.stamp

Fault == edits + faults < MaxEvents /\ faults' = faults + 1

(***************************************************************************)
(* The operations of a daemon's store, with the broadcast that follows.    *)
(***************************************************************************)
(* BroadcastRegisterRecord sends what the store holds.                      *)
Write(h, n, value, private) ==
    LET rec == [stamp |-> now + 1, value |-> value, private |-> private]
    IN  /\ now' = now + 1
        /\ store' = [store EXCEPT ![h][n] = rec]
        /\ spread' = spread \cup {[host |-> p, name |-> n, rec |-> rec] : p \in Host \ {h}}

(* UpsertWithFlags refuses a new live name beyond the cap.                  *)
Refused(h, n) == ~Live(h, n) /\ Cardinality(LiveNames(h)) >= maxCount

(* Whoever else writes a name of a rename.                                  *)
Disturb(h, n) ==
    rename' = IF rename # None /\ h = rename.host /\ n \in {rename.name, rename.to}
              THEN [rename EXCEPT !.disturbed = TRUE] ELSE rename

(* ApplyRemote.                                                             *)
Arrive(m) ==
    /\ m \in spread /\ spread' = spread \ {m}
    /\ store' = IF m.rec.stamp > Stamp(store[m.host][m.name])
                THEN [store EXCEPT ![m.host][m.name] = m.rec] ELSE store
    /\ IF m.rec.stamp > Stamp(store[m.host][m.name]) THEN Disturb(m.host, m.name) ELSE UNCHANGED rename
    /\ UNCHANGED <<maxCount, now, cliVars, wrote, uiVars, edits, faults>>

(***************************************************************************)
(* The daemon's end of a one-shot connection: HandleRegisterFrame.  Effect *)
(* is what the frame f changes, Answer what it is answered with.           *)
(***************************************************************************)
(* A plausible bug: the store's answer is not looked at.                    *)
AcceptsAll(h, f) == TRUE

Accepts(h, f) == IF f.value = Gone THEN Live(h, f.name) ELSE ~Refused(h, f.name)

Effect(h, f) ==
    CASE f.tag = "REGW" ->
            IF Accepts(h, f)
            THEN /\ Write(h, f.name, f.value, FALSE) /\ Disturb(h, f.name)
                 /\ wrote' = Append(wrote, [name |-> f.name, stamp |-> now'])
                 /\ UNCHANGED clips
            ELSE UNCHANGED <<now, store, spread, rename, wrote, clips>>
      [] f.tag = "CLIP" -> /\ clips' = clips \cup {f.value}
                           /\ UNCHANGED <<now, store, spread, rename, wrote>>
      [] OTHER -> UNCHANGED <<now, store, spread, rename, wrote, clips>>

(* A plausible bug: nothing is said of a register that is not there.        *)
AnswerHitsOnly(h, f) ==
    CASE f.tag = "REGW" -> <<[tag |-> IF f.value = Gone THEN "RDEL" ELSE "ROKW"]>>
      [] f.tag = "RGET" -> IF Live(h, f.name) THEN <<[tag |-> "REGW", value |-> store[h][f.name].value]>>
                           ELSE <<>>
      [] f.tag = "RLST" -> <<[tag |-> "RLST", names |-> LiveNames(h)]>>
      [] f.tag = "PING" -> <<[tag |-> "PONG"]>>
      [] OTHER -> <<>>

Answer(h, f) ==
    CASE f.tag = "REGW" /\ f.value = Gone -> <<[tag |-> IF Live(h, f.name) THEN "RDEL" ELSE "NONE"]>>
      [] f.tag = "REGW" /\ f.value # Gone -> <<[tag |-> IF Refused(h, f.name) THEN "RERR" ELSE "ROKW"]>>
      [] f.tag = "RGET" -> <<IF Live(h, f.name) THEN [tag |-> "REGW", value |-> store[h][f.name].value]
                             ELSE [tag |-> "NONE"]>>
      [] f.tag = "RLST" -> <<[tag |-> "RLST", names |-> LiveNames(h)]>>
      [] f.tag = "PING" -> <<[tag |-> "PONG"]>>
      [] OTHER -> <<>>

HandleFrame ==
    /\ conn # None /\ conn.inn # <<>>
    /\ Effect(conn.to, Head(conn.inn))
    /\ conn' = [conn EXCEPT !.inn = Tail(@), !.out = @ \o Answer(conn.to, Head(conn.inn))]
    /\ UNCHANGED <<maxCount, cli, orphans, start, uiVars, edits, faults>>

(* What a client left behind is read all the same; its answer goes nowhere.  *)
HandleOrphan(o) ==
    /\ o \in orphans
    /\ Effect(o.to, Head(o.inn))
    /\ orphans' = (orphans \ {o}) \cup
                  (IF Tail(o.inn) = <<>> THEN {} ELSE {[o EXCEPT !.inn = Tail(@)]})
    /\ UNCHANGED <<maxCount, cli, conn, start, uiVars, edits, faults>>

(* A close with answers unread is a reset: the daemon may never read the rest. *)
LoseOrphan(o) ==
    /\ o \in orphans /\ orphans' = orphans \ {o}
    /\ UNCHANGED <<maxCount, now, store, spread, clips, cli, conn, wrote, start, uiVars, rename, edits, faults>>

(***************************************************************************)
(* The command line.                                                       *)
(***************************************************************************)
Begin(r) ==
    /\ cli = None
    /\ cli' = [request |-> r, tried |-> {}, todo |-> {}, exit |-> None]
    /\ start' = store
    /\ UNCHANGED <<maxCount, now, store, spread, clips, conn, orphans, wrote, uiVars, rename, edits, faults>>

Running == cli # None /\ cli.exit = None

(* What is asked for one name.                                              *)
Ask(n) ==
    CASE cli.request.verb = "copy" -> [tag |-> "REGW", name |-> n, value |-> cli.request.value]
      [] cli.request.verb = "rm"   -> [tag |-> "REGW", name |-> n, value |-> Gone]
      [] OTHER                     -> [tag |-> "RGET", name |-> n]

Lists == cli.request.wild \/ cli.request.verb = "ls"

Target(todo) == CHOOSE n \in todo : TRUE

(* WithRegisterGateway: the next daemon the browse delivers, each once.  The
   daemon's own frames, its digest and its request for the history, come first
   and are skipped: they are left out.  The targets of an exchange that failed
   are forgotten.                                                           *)
Dial(h) ==
    /\ Running /\ conn = None /\ h \notin cli.tried
    /\ conn' = [to |-> h, out |-> <<>>,
                inn |-> IF Lists THEN <<[tag |-> "RLST"]>> ELSE <<Ask(Target(cli.request.names))>>]
    /\ cli' = [cli EXCEPT !.tried = @ \cup {h}, !.todo = IF Lists THEN {} ELSE cli.request.names]
    /\ UNCHANGED <<maxCount, now, store, spread, clips, orphans, wrote, start, uiVars, rename, edits, faults>>

(* Closing leaves behind what the daemon has not read, if that matters.     *)
Leave ==
    /\ conn' = None
    /\ orphans' = IF \E i \in DOMAIN conn.inn : conn.inn[i].tag \in {"REGW", "CLIP"}
                  THEN orphans \cup {[to |-> conn.to, inn |-> conn.inn]} ELSE orphans

Exit(code) == cli' = [cli EXCEPT !.exit = code] /\ Leave

Send(frames) ==
    conn' = [conn EXCEPT !.out = Tail(@), !.inn = @ \o frames] /\ UNCHANGED orphans

(* The exchange goes on with the targets left, or is done.                  *)
GoOn(todo) ==
    IF todo = {} THEN Exit("ok")
    ELSE cli' = [cli EXCEPT !.todo = todo] /\ Send(<<Ask(Target(todo))>>)

Clip(value) == [tag |-> "CLIP", value |-> value]

(* A plausible bug: put closes behind its clip.                             *)
DeliverUnfenced(value) ==
    /\ cli' = [cli EXCEPT !.exit = "ok"] /\ conn' = None
    /\ orphans' = orphans \cup {[to |-> conn.to, inn |-> <<Clip(value)>>]}

(* The clip has no acknowledgement: the PONG of a PING behind it says that it
   was read.                                                                *)
Deliver(value) == Send(<<Clip(value), [tag |-> "PING"]>>) /\ UNCHANGED cli

(* The loop of a command over the frames that come in.                      *)
Reads(verb) ==
    /\ Running /\ conn # None /\ conn.out # <<>> /\ cli.request.verb = verb
    /\ UNCHANGED <<maxCount, now, store, spread, clips, wrote, start, uiVars, rename, edits, faults>>

Got(tag) == Head(conn.out).tag = tag
Left == cli.todo \ {Target(cli.todo)}

RunRegisterCopy ==
    /\ Reads("copy")
    /\ \/ Got("ROKW") /\ Exit("ok")
       \/ Got("RERR") /\ Exit("refused")

RunRegisterPaste ==
    /\ Reads("paste")
    /\ \/ Got("REGW") /\ Exit("ok")
       \/ Got("NONE") /\ Exit("absent")

RunPut ==
    /\ Reads("put")
    /\ \/ Got("REGW") /\ Deliver(Head(conn.out).value)
       \/ Got("PONG") /\ Exit("ok")
       \/ Got("NONE") /\ Exit("absent")

RunRegisterLs == Reads("ls") /\ Got("RLST") /\ Exit("ok")

(* A wildcard's targets are those listed; one that has gone since is passed over. *)
PickTargets ==
    LET matching == Head(conn.out).names \cap cli.request.names
    IN  Got("RLST") /\ IF matching = {} THEN Exit("no match") ELSE GoOn(matching)

PassOver == Got("NONE") /\ IF cli.request.wild THEN GoOn(Left) ELSE Exit("absent")

RunRegisterRm == Reads("rm") /\ (PickTargets \/ (Got("RDEL") /\ GoOn(Left)) \/ PassOver)

RunTouch == Reads("touch") /\ (PickTargets \/ (Got("REGW") /\ GoOn(Left)) \/ PassOver)

ReadFrame ==
    RunRegisterCopy \/ RunRegisterPaste \/ RunPut \/ RunRegisterLs \/ RunRegisterRm \/ RunTouch

(* The connection breaks, or nothing comes for kIoIdleTimeout.              *)
GiveUp ==
    /\ Running /\ conn # None /\ Fault /\ Leave
    /\ UNCHANGED <<maxCount, now, store, spread, clips, cli, wrote, start, uiVars, rename, edits>>

Unreachable(h) ==
    /\ Running /\ conn = None /\ h \notin cli.tried /\ Fault
    /\ cli' = [cli EXCEPT !.tried = @ \cup {h}]
    /\ UNCHANGED <<maxCount, now, store, spread, clips, conn, orphans, wrote, start, uiVars, rename, edits>>

(* ReportNoGateway: whatever the daemons tried may have done.               *)
ReportNoGateway ==
    /\ Running /\ conn = None /\ cli.tried = Host
    /\ cli' = [cli EXCEPT !.exit = "unreachable"]
    /\ UNCHANGED <<maxCount, now, store, spread, clips, conn, orphans, wrote, start, uiVars, rename, edits, faults>>

(***************************************************************************)
(* The user interface of a daemon.  An edit that reads first is in ui[h]   *)
(* until it writes; the store is not locked in between.                    *)
(***************************************************************************)
Edit(h) == h \in Users /\ ui[h] = None /\ edits + faults < MaxEvents /\ edits' = edits + 1
Done(h) == ui' = [ui EXCEPT ![h] = None]
Disarm(h) == undo' = [undo EXCEPT ![h] = None]

SaveActivityItemAsRegister(h, n, v) ==
    /\ Edit(h) /\ ~Refused(h, n)
    /\ Write(h, n, v, FALSE) /\ Disturb(h, n) /\ Disarm(h)
    /\ UNCHANGED <<maxCount, cliVars, wrote, ui, faults>>

(* Read, the first half of three edits.                                     *)
StartEdit(h, op, n, to) ==
    /\ Edit(h) /\ (op # "delete" => Live(h, n)) /\ (op = "rename" <=> to # n)
    /\ LET rec == IF Live(h, n) THEN store[h][n] ELSE Absent
       IN  /\ ui' = [ui EXCEPT ![h] = [op |-> op, name |-> n, to |-> to, rec |-> rec]]
           /\ rename' = IF op # "rename" THEN rename
                        ELSE [host |-> h, name |-> n, to |-> to, rec |-> rec, disturbed |-> FALSE]
    /\ UNCHANGED <<maxCount, now, store, spread, cliVars, wrote, undo, faults>>

In(h, op) == ui[h] # None /\ ui[h].op = op

DeleteRegisterEverywhere(h) ==
    /\ In(h, "delete") /\ Done(h)
    /\ LET n == ui[h].name
       IN  IF ~Live(h, n) THEN UNCHANGED <<now, store, spread, undo, rename>>
           ELSE /\ Write(h, n, Gone, FALSE) /\ Disturb(h, n)
                /\ undo' = IF ui[h].rec = Absent THEN undo
                           ELSE [undo EXCEPT ![h] = [name |-> n, rec |-> ui[h].rec]]
    /\ UNCHANGED <<maxCount, cliVars, wrote, edits, faults>>

SetRegisterPrivate(h) ==
    /\ In(h, "private") /\ Done(h)
    /\ LET n == ui[h].name
       IN  IF Refused(h, n) THEN UNCHANGED <<now, store, spread, undo, rename>>
           ELSE Write(h, n, ui[h].rec.value, ~ui[h].rec.private) /\ Disturb(h, n) /\ Disarm(h)
    /\ UNCHANGED <<maxCount, cliVars, wrote, edits, faults>>

(* A plausible bug: the old name is deleted whatever became of the new one. *)
RenameUnchecked(h) ==
    /\ In(h, "rename") /\ ui' = [ui EXCEPT ![h].op = "rename: delete"]
    /\ IF Refused(h, ui[h].to) THEN UNCHANGED <<now, store, spread>>
       ELSE Write(h, ui[h].to, ui[h].rec.value, ui[h].rec.private)
    /\ UNCHANGED <<maxCount, cliVars, wrote, undo, rename, edits, faults>>

(* The value goes under the new name, and only then the old name goes.      *)
RenameRegister(h) ==
    /\ In(h, "rename")
    /\ IF Refused(h, ui[h].to) THEN Done(h) /\ UNCHANGED <<now, store, spread>>
       ELSE /\ Write(h, ui[h].to, ui[h].rec.value, ui[h].rec.private)
            /\ ui' = [ui EXCEPT ![h].op = "rename: delete"]
    /\ UNCHANGED <<maxCount, cliVars, wrote, undo, rename, edits, faults>>

DeleteOldName(h) ==
    /\ In(h, "rename: delete") /\ Done(h) /\ Disarm(h)
    /\ IF Live(h, ui[h].name) THEN Write(h, ui[h].name, Gone, FALSE)
       ELSE UNCHANGED <<now, store, spread>>
    /\ UNCHANGED <<maxCount, cliVars, wrote, rename, edits, faults>>

(* A refused restore leaves the slot armed.                                 *)
TryUndoDelete(h) ==
    /\ undo[h] # None /\ Edit(h) /\ ~Refused(h, undo[h].name)
    /\ Write(h, undo[h].name, undo[h].rec.value, undo[h].rec.private)
    /\ Disturb(h, undo[h].name) /\ Disarm(h)
    /\ UNCHANGED <<maxCount, cliVars, wrote, ui, faults>>

(* The program ends and starts again with its store.                        *)
Restart(h) ==
    /\ Fault /\ Done(h) /\ Disarm(h)
    /\ conn' = IF conn # None /\ conn.to = h THEN None ELSE conn
    /\ orphans' = {o \in orphans : o.to # h}
    /\ UNCHANGED <<maxCount, now, store, spread, clips, cli, wrote, start, rename, edits>>

Next ==
    \/ \E r \in Requests : Begin(r)
    \/ HandleFrame \/ ReadFrame \/ GiveUp \/ ReportNoGateway
    \/ \E o \in orphans : HandleOrphan(o) \/ LoseOrphan(o)
    \/ \E m \in spread : Arrive(m)
    \/ \E h \in Host :
         \/ Dial(h) \/ Unreachable(h) \/ Restart(h)
         \/ \E n \in Name, v \in Value : SaveActivityItemAsRegister(h, n, v)
         \/ \E op \in {"delete", "private", "rename"}, n, to \in Name : StartEdit(h, op, n, to)
         \/ DeleteRegisterEverywhere(h) \/ SetRegisterPrivate(h) \/ RenameRegister(h)
         \/ DeleteOldName(h) \/ TryUndoDelete(h)

Spec == Init /\ [][Next]_vars

(* The client reads what comes in, the daemon's thread too, and the browse
   delivers the daemons there are; nothing makes a connection break.        *)
FairSpec ==
    /\ Spec
    /\ WF_vars(HandleFrame) /\ WF_vars(ReadFrame) /\ WF_vars(ReportNoGateway)
    /\ \A h \in Host : WF_vars(Dial(h))

-----------------------------------------------------------------------------
Quiet == /\ spread = {} /\ conn = None /\ orphans = {}
         /\ \A h \in Host : ui[h] = None

(* A command that reports success has done it for good.  When the mesh is at
   rest, every daemon holds the copied record or a later one; no register that
   all had when rm began, and rm was to remove, is left as it was; and the clip
   of put was handed to a daemon (the acknowledgements ROKW, RDEL and PONG of
   Peer.cpp, and the loops of Cli.cpp that wait for them, over lost answers,
   repetitions at the next daemon and resets that destroy unread frames).    *)
SuccessLasts ==
    cli # None /\ cli.exit = "ok" /\ Quiet =>
        LET r == cli.request
        IN  /\ r.verb = "copy" => \E i \in DOMAIN wrote : \A n \in r.names, h \in Host :
                                    Stamp(store[h][n]) >= wrote[i].stamp
            /\ r.verb = "rm" => \A n \in r.names :
                 (\A h, p \in Host : start[h][n] = start[p][n]) =>
                    \A h \in Host : start[h][n] \notin {Absent} =>
                        store[h][n] # start[h][n] \/ start[h][n].value = Gone
            /\ r.verb = "put" => clips # {}

(* When no connection fails, a command does what it says: it writes no name
   twice and none it was not asked about, and nothing at all when it reports a
   refusal or that there is no such register (one frame in hand at a time).  *)
FaultFreeIsExact ==
    cli # None /\ cli.exit # None /\ faults = 0 =>
        /\ \A i, j \in DOMAIN wrote : wrote[i].name = wrote[j].name => i = j
        /\ \A i \in DOMAIN wrote : wrote[i].name \in cli.request.names
        /\ cli.exit # "ok" \/ cli.request.verb \notin {"copy", "rm"} => wrote = <<>>

(* A rename never leaves its value without a name, not when the new name is
   refused, nor when the program ends half way, unless somebody else writes one
   of the two names (RenameRegister stores the new name before it deletes).  *)
RenameKeepsValue ==
    rename # None /\ ~rename.disturbed =>
        \E n \in {rename.name, rename.to} :
            Live(rename.host, n) /\ store[rename.host][n].value = rename.rec.value

(* No command waits for a frame that never comes: without failures each ends,
   and none needs its idle timeout to (every question of Cli.cpp has an answer
   in HandleRegisterFrame, whatever the store holds by then).                *)
CommandEnds == Running ~> (~Running \/ faults > 0)

=============================================================================
