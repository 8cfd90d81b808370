---------------------------- MODULE PtController ----------------------------
(***************************************************************************)
(* The controller of the north camera, which turns on a pan and tilt head   *)
(* (capture_watchdog/pthandler.py, ptwatchdog.py and fshandler.py).  Two    *)
(* threads share the PTCcontroller and the objects of a manager:           *)
(*                                                                         *)
(*   - rpc serves the controllers' commands one at a time (on_rpc_request); *)
(*     a command that is no status and no stop starts a scan;              *)
(*   - job is ptcontrol, which the scheduler runs once per interval and     *)
(*     never twice at a time: it turns to the next position and orders one  *)
(*     image, until loop_cntr is 0.                                        *)
(*                                                                         *)
(* Both run _send_to_camera, restart_camera and status.  Each statement     *)
(* that accesses objects of the manager, supervisord or the broker is a     *)
(* step, a condition with more than one access (lines 323, 359) too.  The   *)
(* capture process, which Capture models, answers or does not; one that     *)
(* died and one that is slow are the same to this code.  Exposures, the     *)
(* lens's values, positions, status files and which orders make images are  *)
(* left out.                                                                *)
(***************************************************************************)
EXTENDS Integers, Sequences

CONSTANTS Commands,     \* the commands controllers send
          Faults,       \* what may raise when called: "lens", "supervisord",
                        \* "broker"
          MaxCalls,     \* bound: commands sent
          MaxTime       \* bound: where ftimestamp stops counting

\* exposure and lens: whether the command sets them, that is not to -99.
CommandType == [status : BOOLEAN, stop : BOOLEAN, exposure : BOOLEAN,
                lens : BOOLEAN, capture : Int, pt_locs : Nat]
StartsScan(c) == ~c.status /\ ~c.stop

ASSUME PtAssumption ==
  /\ Commands \subseteq CommandType
  /\ Faults \subseteq {"lens", "supervisord", "broker"}
  /\ MaxCalls \in Nat /\ MaxTime \in Nat \ {0}

VARIABLES
  inbox, sent, starts,     \* the queue; commands and scans sent
  ptc,                     \* what the threads share: loop_cntr, noimage, the
                           \* two flags, _old_ftime, whether the job is
                           \* scheduled, how many positions pt_positions has
  ftimestamp,              \* when the last image was closed
  pc, ret, resp, tmp,      \* per thread: program counter, where a call returns,
                           \* whether its answer came; a register of job
  up, camq,                \* capture process: runs; its queue
  total, visits, foreign,  \* history: positions to visit and visited, and
                           \* restarts by rpc, since the scan's start
  order                    \* history: how the order of an image at this
                           \* position went
controllers == <<inbox, sent, starts>>
camera      == <<up, camq, ftimestamp>>
count       == <<total, visits, foreign>>
history     == <<count, order>>
vars == <<controllers, ptc, pc, ret, resp, tmp, camera, history>>

Threads == {"rpc", "job"}

\* A step of one thread; one that only tests; one that assigns to a field.
Go(t, from, to) == pc[t] = from /\ pc' = [pc EXCEPT ![t] = to]
Step(t, from, to) == Go(t, from, to) /\ UNCHANGED <<controllers, ret, resp, camera>>
Test(t, from, to) == Step(t, from, to) /\ UNCHANGED <<ptc, tmp, history>>
Set(t, from, to, field, value) ==
  /\ Step(t, from, to)
  /\ ptc' = [ptc EXCEPT ![field] = value]
  /\ UNCHANGED <<tmp, history>>

\* A call, and the place it returns to.
Enter(t, from, to, return) ==
  /\ Go(t, from, to)
  /\ ret' = [ret EXCEPT ![t] = return]
  /\ UNCHANGED <<controllers, ptc, resp, tmp, camera, history>>

-----------------------------------------------------------------------------
(* The controllers and the capture process.                                 *)

Call(c) ==
  /\ sent < MaxCalls
  /\ sent' = sent + 1 /\ starts' = starts + (IF StartsScan(c) THEN 1 ELSE 0)
  /\ inbox' = Append(inbox, [id |-> sent + 1, cmd |-> c])
  /\ UNCHANGED <<ptc, pc, ret, resp, tmp, camera, history>>

\* camera_commands
CamHandle ==
  /\ up /\ camq # <<>>
  /\ resp' = [t \in Threads |-> t = Head(camq).from \/ resp[t]]
  /\ camq' = Tail(camq)
  /\ UNCHANGED <<controllers, ptc, ftimestamp, pc, ret, tmp, up, history>>

\* An image, of whatever session, is closed; process_IN_CLOSE_WRITE stores its
\* time.
Image ==
  /\ up
  /\ ftimestamp' = IF ftimestamp < MaxTime THEN ftimestamp + 1 ELSE ftimestamp
  /\ UNCHANGED <<controllers, ptc, pc, ret, resp, tmp, up, camq, history>>

-----------------------------------------------------------------------------
(* UOControllerRpcClient.call, restart_camera, status, _send_to_camera.     *)

\* A request to the capture process ...
Send(t, from, to, what) ==
  /\ Go(t, from, to)
  /\ camq' = Append(camq, [what |-> what, from |-> t])
  /\ resp' = [resp EXCEPT ![t] = FALSE]
  /\ UNCHANGED <<controllers, ptc, ret, tmp, up, ftimestamp, count>>

PurgeKeepsCaller(t) ==   \* mutant: lines 20 and 25 of rpc_client.py missing
  \/ camq' = <<>>
  \/ up /\ camq # <<>> /\ camq' = <<Head(camq)>>

\* queue_purge: a request the capture process holds unacknowledged stays, and if
\* it was t's nobody awaits its answer.
Purge(t) ==
  \/ camq' = <<>>
  \/ /\ up /\ camq # <<>>
     /\ camq' = <<[Head(camq) EXCEPT !.from = IF @ = t THEN "nobody" ELSE @]>>

\* ... and its answer, or ten seconds and a purge.
AwaitForever(t, from, answered, timeout) ==   \* mutant: line 16 of rpc_client.py missing
  /\ Go(t, from, answered) /\ resp[t]
  /\ UNCHANGED <<controllers, ptc, ret, resp, tmp, camera, count>>
Await(t, from, answered, timeout) ==
  /\ \/ Go(t, from, answered) /\ resp[t] /\ UNCHANGED camq
     \/ Go(t, from, timeout) /\ ~resp[t] /\ Purge(t)
  /\ UNCHANGED <<controllers, ptc, ret, resp, tmp, up, ftimestamp, count>>

RcFlag(t) == Set(t, "rcFlag", "rcStop", "ready_flag", FALSE)

\* stopProcess, unless it is stopped
RcStop(t) ==
  /\ Go(t, "rcStop", "rcStart")
  /\ up' = FALSE
  /\ UNCHANGED <<controllers, ptc, ret, resp, tmp, camq, ftimestamp, history>>

RcStart(t) ==
  /\ Go(t, "rcStart", "rcResend")
  /\ up' = TRUE
  /\ UNCHANGED <<controllers, ptc, ret, resp, tmp, camq, ftimestamp, history>>

RcResend(t) ==
  /\ Step(t, "rcResend", "rcReady")
  /\ ptc' = [ptc EXCEPT !.resend_flag = TRUE]
  /\ foreign' = foreign + (IF t = "rpc" THEN 1 ELSE 0)
  /\ UNCHANGED <<tmp, total, visits, order>>

\* supervisord cannot be reached, or what it is told to stop does not run.
RcFails(t) ==
  /\ "supervisord" \in Faults
  /\ Step(t, "rcStop", "rcReady") \/ Step(t, "rcStart", "rcReady")
  /\ order' = IF t = "job" THEN "failed" ELSE order
  /\ UNCHANGED <<ptc, tmp, count>>

\* Lines 128 and 132
RcReady(t) == Set(t, "rcReady", "stFlag", "ready_flag", TRUE)

RestartCamera(t) ==
  RcFlag(t) \/ RcStop(t) \/ RcStart(t) \/ RcResend(t) \/ RcFails(t) \/ RcReady(t)

\* status, whatever comes back: the camera's answer, an exception of the lens or
\* of the call.
StFlag(t)   == Set(t, "stFlag", "stCall", "ready_flag", FALSE)
StCall(t)   == Send(t, "stCall", "stAnswer", "status") /\ UNCHANGED order
StAnswer(t) == Await(t, "stAnswer", "stReady", "stReady") /\ UNCHANGED order
StReadyNever(t) ==   \* mutant: lines 222 and 223 missing
  Test(t, "stReady", IF ret[t] = "reply" THEN "reply" ELSE "sent")
StReady(t)  ==
  Set(t, "stReady", IF ret[t] = "reply" THEN "reply" ELSE "sent", "ready_flag", TRUE)
StRaises(t) == Test(t, "stCall", "stReady") /\ "broker" \in Faults
Status(t) == StFlag(t) \/ StCall(t) \/ StRaises(t) \/ StAnswer(t) \/ StReady(t)

\* _send_to_camera: lines 226 and 229, the call, and line 244 after its end.
SendWait(t) == Test(t, "wait", "hold") /\ ptc.ready_flag
SendHold(t) == Set(t, "hold", "call", "ready_flag", FALSE)
SendCall(t) ==
  /\ Send(t, "call", "answer", IF t = "job" THEN "image" ELSE "exposure")
  /\ order' = CASE t = "job" /\ order = "none" -> "sent"
                [] t = "job" /\ order = "sent" -> "again"
                [] OTHER -> order
SendAnswer(t) ==
  /\ Await(t, "answer", "stFlag", "rcFlag")
  /\ order' = IF t = "job" /\ resp[t] THEN "answered" ELSE order
SendDone(t) == Set(t, "sent", ret[t], "ready_flag", TRUE)

\* The broker refuses the connection, and nothing is sent: lines 240 to 242.
SendRaises(t) ==
  /\ Step(t, "call", "raised") /\ "broker" \in Faults
  /\ order' = IF t = "job" /\ order = "none" THEN "raised" ELSE order
  /\ UNCHANGED <<ptc, tmp, count>>

SendReturnsTrue(t) ==   \* mutant: line 242 returns True
  Set(t, "raised", ret[t], "ready_flag", TRUE)

\* Line 244 after the False of line 242, of which line 354 takes no notice but
\* not to go on to line 355.
SendReturnsFalse(t) ==
  Set(t, "raised", IF ret[t] = "resent" THEN "fin" ELSE ret[t], "ready_flag", TRUE)

SendToCamera(t) ==
  \/ SendWait(t) \/ SendHold(t) \/ SendCall(t) \/ SendAnswer(t) \/ SendDone(t)
  \/ SendRaises(t) \/ SendReturnsFalse(t) \/ RestartCamera(t) \/ Status(t)

-----------------------------------------------------------------------------
(* rpc: on_rpc_request.                                                     *)

command == Head(inbox).cmd

ReceiveAcks ==   \* mutant: the request is acknowledged at once
  /\ inbox # <<>>
  /\ Go("rpc", "idle", IF command.exposure THEN "wait" ELSE "lens")
  /\ inbox' = Tail(inbox)
  /\ UNCHANGED <<sent, starts, ptc, ret, resp, tmp, camera, history>>

Receive ==
  /\ inbox # <<>>
  /\ \/ Enter("rpc", "idle", "wait", "lens") /\ command.exposure
     \/ Test("rpc", "idle", "lens") /\ ~command.exposure

\* The lens is set, and the branches of lines 87, 94 and 100.
Lens ==
  \/ Enter("rpc", "lens", "stFlag", "reply") /\ command.status
  \/ Test("rpc", "lens", "pause") /\ ~command.status /\ command.stop
  \/ Test("rpc", "lens", "count") /\ StartsScan(command)

\* The lens raises; the request is neither answered nor acknowledged, and with
\* prefetch_count=1 no other comes.
LensFails ==
  /\ Test("rpc", "lens", "blocked")
  /\ "lens" \in Faults /\ command.lens

Pause == Set("rpc", "pause", "reply", "scheduled", FALSE)

\* Lines 102 to 110
Count     == Set("rpc", "count", "images", "loop_cntr", command.capture * command.pt_locs)
Images    == Set("rpc", "images", "test", "noimage", FALSE)
TestCount == Test("rpc", "test", IF ptc.loop_cntr = 0 THEN "none" ELSE "positions")
NoImage   == Set("rpc", "none", "one", "noimage", TRUE)
One       == Set("rpc", "one", "positions", "loop_cntr", 1)

\* start
StPositions ==
  /\ Step("rpc", "positions", "ready")
  /\ ptc' = [ptc EXCEPT !.locs = command.pt_locs, !.old_ftime = 0]
  /\ total' = ptc.loop_cntr /\ visits' = 0 /\ foreign' = 0
  /\ UNCHANGED <<tmp, order>>
StSetReady == Set("rpc", "ready", "resend", "ready_flag", TRUE)
StNoResend == Set("rpc", "resend", "schedule", "resend_flag", FALSE)
StSchedule == Set("rpc", "schedule", "reply", "scheduled", TRUE)

\* The answer and its acknowledgement.
Reply ==
  /\ Go("rpc", "reply", "idle")
  /\ inbox' = Tail(inbox)
  /\ UNCHANGED <<sent, starts, ptc, ret, resp, tmp, camera, history>>

RpcThread ==
  \/ Receive \/ Lens \/ LensFails \/ Pause \/ Count \/ Images \/ TestCount \/ NoImage
  \/ One \/ StPositions \/ StSetReady \/ StNoResend \/ StSchedule \/ Reply
  \/ SendToCamera("rpc")

-----------------------------------------------------------------------------
(* job: ptcontrol.                                                          *)

\* The interval is over, and no turn is in progress (max_instances = 1).
JobTurn == Test("job", "off", "loop") /\ ptc.scheduled

\* Lines 323 and 325
JobLoop   == Test("job", "loop", IF ptc.loop_cntr # 0 THEN "images" ELSE "off")
JobImages == Test("job", "images", IF ptc.noimage THEN "allowed" ELSE "files")

\* _new_file_captured.  The other outcome, lines 329 to 335, has no action: it
\* never happens, since _old_ftime is 0 (TypeOK) and ftimestamp starts at 1.
\* Were it to happen the job would stop here, and ScanEnds not hold.
JobFiles == Test("job", "files", "allowed") /\ ftimestamp > ptc.old_ftime

\* Lines 337 and 341
JobAllowed == Test("job", "allowed", IF ptc.ready_flag THEN "replay" ELSE "off")
JobReplay ==
  \/ Test("job", "replay", "next") /\ ~ptc.resend_flag
  \/ Enter("job", "replay", "wait", "resent") /\ ptc.resend_flag

\* The next position, or StopIteration; pantilt returns in any case.
JobNext ==
  \/ /\ Step("job", "next", "turned") /\ ptc.locs > 0
     /\ visits' = IF visits <= total THEN visits + 1 ELSE visits
     /\ order' = "none"
     /\ UNCHANGED <<ptc, tmp, total, foreign>>
  \/ Test("job", "next", "fin") /\ ptc.locs = 0
JobTurned ==
  \/ Test("job", "turned", "fin") /\ ptc.noimage
  \/ Enter("job", "turned", "wait", "fin") /\ ~ptc.noimage

JobResentKeeps == Test("job", "resent", "fin")   \* mutant: line 355 missing

\* Line 355
JobResent == Set("job", "resent", "fin", "resend_flag", FALSE)

JobFinAlways ==   \* mutant: line 359 does not look at resend_flag
  Test("job", "fin", IF ptc.loop_cntr > 0 THEN "load" ELSE "off")

\* Lines 359 and 361
JobFin ==
  Test("job", "fin",
       IF ptc.loop_cntr > 0 /\ ~ptc.resend_flag THEN "load" ELSE "off")
JobLoad ==
  /\ Step("job", "load", "store")
  /\ tmp' = ptc.loop_cntr
  /\ UNCHANGED <<ptc, history>>
JobStore == Set("job", "store", "off", "loop_cntr", tmp - 1)

JobThread ==
  \/ JobTurn \/ JobLoop \/ JobImages \/ JobFiles \/ JobAllowed \/ JobReplay
  \/ JobNext \/ JobTurned \/ JobResent \/ JobFin \/ JobLoad \/ JobStore
  \/ SendToCamera("job")

-----------------------------------------------------------------------------
Init ==
  /\ inbox = <<>> /\ sent = 0 /\ starts = 0
  /\ ptc = [loop_cntr |-> 0, noimage |-> FALSE, ready_flag |-> TRUE,
            resend_flag |-> FALSE, scheduled |-> FALSE, locs |-> 0, old_ftime |-> 0]
  /\ ftimestamp = 1
  /\ pc = [rpc |-> "idle", job |-> "off"] /\ ret = [rpc |-> "lens", job |-> "fin"]
  /\ resp = [t \in Threads |-> FALSE] /\ tmp = 0
  /\ up = TRUE  /\ camq = <<>>
  /\ total = 0 /\ visits = 0 /\ foreign = 0 /\ order = "none"

Environment == (\E c \in Commands : Call(c)) \/ CamHandle \/ Image

Next == Environment \/ RpcThread \/ JobThread

Spec == Init /\ [][Next]_vars

\* Both threads run and the scheduler's intervals end: calls have timeouts, the
\* head gets to its position, sleeps are bounded.
Fairness == WF_vars(RpcThread) /\ WF_vars(JobThread)
FairSpec == Spec /\ Fairness

-----------------------------------------------------------------------------
CallPcs == {"wait", "hold", "call", "answer", "rcFlag", "rcStop", "rcStart",
            "rcResend", "rcReady", "stFlag", "stCall", "stAnswer", "stReady", "sent", "raised"}
RpcPcs  == {"idle", "lens", "blocked", "pause", "count", "images", "test", "none",
            "one", "positions", "ready", "resend", "schedule", "reply"} \union CallPcs
JobPcs  == {"off", "loop", "images", "files", "allowed", "replay", "next",
            "turned", "resent", "fin", "load", "store"} \union CallPcs

(* Every variable has its type; rpc has a request whenever it processes one. *)
TypeOK ==
  /\ inbox \in Seq([id : 1..MaxCalls, cmd : Commands])
  /\ sent \in 0..MaxCalls /\ starts \in 0..sent
  /\ ptc \in [loop_cntr : Int, noimage : BOOLEAN, ready_flag : BOOLEAN,
              resend_flag : BOOLEAN, scheduled : BOOLEAN, locs : Nat, old_ftime : {0}]
  /\ ftimestamp \in 1..MaxTime
  /\ pc \in [Threads -> RpcPcs \union JobPcs]
  /\ pc["rpc"] \in RpcPcs /\ pc["job"] \in JobPcs
  /\ ret \in [Threads -> {"lens", "reply", "fin", "resent"}]
  /\ ret["rpc"] \in {"lens", "reply"} /\ ret["job"] \in {"fin", "resent"}
  /\ resp \in [Threads -> BOOLEAN] /\ tmp \in Int
  /\ up \in BOOLEAN
  /\ camq \in Seq([what : {"image", "exposure", "status"}, from : Threads \union {"nobody"}])
  /\ total \in Int /\ visits \in Nat /\ foreign \in Nat
  /\ order \in {"none", "sent", "again", "answered", "failed", "raised"}
  /\ pc["rpc"] # "idle" => inbox # <<>>

(* The two callers of the capture process have what RpcCalls promises: no   *)
(* answer, however late, is taken for that of a later call.                 *)
Queued(t) == \E i \in DOMAIN camq : camq[i].from = t
Awaits(t) == pc[t] \in {"answer", "stAnswer"}
CallOf(t) ==
  CASE Awaits(t) /\ resp[t] /\ ~Queued(t) -> "answered"
    [] Awaits(t) /\ ~resp[t] /\ Queued(t) -> "sent"
    [] Awaits(t) /\ ~resp[t] /\ ~Queued(t) -> "lost"
    [] ~Awaits(t) /\ ~Queued(t) -> "none"
    [] OTHER -> "mixed"
Calls == INSTANCE RpcCalls WITH Clients <- Threads, call <- [t \in Threads |-> CallOf(t)]
CallSpec == Calls!Spec

(* A finite scan visits its positions: whatever is sent again, loop_cntr    *)
(* counts each position once, but that each restart_camera of rpc, which    *)
(* sets resend_flag with nothing to send again, may cost one.  One scan: a  *)
(* start that overlaps a turn of the job mixes two counts.                  *)
PositionsKept ==
  starts <= 1 /\ ptc.locs > 0 /\ total > 0
    => visits + ptc.loop_cntr - total \in (-foreign)..1

(* A position is counted when the camera answered its order, or the order    *)
(* was repeated after a restart, or the restart failed.  There are two ways   *)
(* to count one without: the broker cannot be reached, since line 352 does    *)
(* not look at what _send_to_camera returns, and a restart by rpc, which sets *)
(* resend_flag too, may use up the repetition.  The status of rpc, which sets *)
(* ready_flag in the middle of the job's call, and line 355, which clears     *)
(* resend_flag, do not make the job pass over a position.                     *)
OrdersRepeated ==
  pc["job"] = "store" /\ starts <= 1
    => ptc.noimage \/ order \in {"answered", "again", "failed", "raised"} \/ foreign > 0

\* The job's call raises.  What is promised "or it raises" is promised again
\* after each time, so it fails to come only where the calls raise for ever.
Raises == pc["job"] = "raised"

(* A finite scan ends or is stopped: no restart is sent again for ever, if    *)
(* the broker can be reached again.  One scan: where a start comes between    *)
(* lines 359 and 361, the job stores what it read before, less one, and that  *)
(* is -1 if it was the 0 of line 102.                                         *)
ScanEnds ==
  ptc.loop_cntr > 0 /\ ptc.scheduled
    ~> ptc.loop_cntr = 0 \/ ~ptc.scheduled \/ Raises \/ starts > 1

(* A command is answered unless the lens raises, however often rpc finds the  *)
(* camera in use by the job of a finite scan.  That of an endless one, or of  *)
(* one whose calls raise, may use it at each of rpc's looks at ready_flag,    *)
(* one a second.                                                              *)
Waiting(i) == \E k \in DOMAIN inbox : inbox[k].id = i
CommandsAnswered ==
  \A i \in 1..MaxCalls :
    Waiting(i) ~> ~Waiting(i) \/ pc["rpc"] = "blocked" \/ ptc.loop_cntr < 0 \/ Raises

(* ready_flag, which both threads set and clear without looking at each     *)
(* other, is never left cleared with everybody waiting for it: one of them  *)
(* is on its way to setting it.                                             *)
Resets(t) == pc[t] \in CallPcs \ {"wait", "hold"}
ReadyHeld == ~ptc.ready_flag => \E t \in Threads : Resets(t)
=============================================================================
