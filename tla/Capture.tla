------------------------------ MODULE Capture ------------------------------
(***************************************************************************)
(* The Teledyne capture process (capture_demo/genicam_cpp_demo.cpp) and    *)
(* what it talks to.  Two threads of the process share one MY_CONTEXT      *)
(* without a lock:                                                         *)
(*                                                                         *)
(*   - the RPC thread, which runs the Boost.Asio loop: one request is      *)
(*     delivered (qos 1), camera_commands() executes it, the reply is      *)
(*     published and the delivery acknowledged;                            *)
(*   - the saver, ImageSaveThread(), which waits for a frame, writes it to *)
(*     a file, counts it and gives up after three timeouts.                *)
(*                                                                         *)
(* Every read and write of a field that the other thread also writes is a  *)
(* step of its own, as in the unoptimised build CMakeLists.txt asks for.   *)
(* The broker (RabbitMQ), the transfer engine behind Gev_Stream_* and      *)
(* supervisord are modelled from how the code uses them.                   *)
(***************************************************************************)
EXTENDS Integers, Sequences

CONSTANTS Commands,   \* the commands controllers send
          MaxCalls,   \* bound: requests made in a behaviour
          MaxFrames,  \* bound: frames the camera delivers to one session
          NumBuf      \* NUM_BUF, the buffers of the transfer

ASSUME CommandsAssumption ==
  Commands \subseteq [kill : BOOLEAN, status : BOOLEAN, stop : BOOLEAN,
                      capture : Int, interval : Nat]
ASSUME BoundsAssumption ==
  MaxCalls \in Nat /\ MaxFrames \in Nat /\ NumBuf \in Nat \ {0}

VARIABLES
  queue, unacked,    \* broker: requests ready, and delivered but not acked
  sent,              \* broker: how many requests have been made
  replies, acked,    \* broker: replies received, requests acknowledged
  up, camera,        \* the process; the camera it opened at its start
  capture, interval, frames, nullctr, recent_error,     \* MY_CONTEXT
  grab, full,        \* engine: transfer running, frames waiting in a buffer
  sv, tmp,           \* saver: program counter, register
  rp, out,           \* RPC thread: program counter, the output queue
  requested, files   \* history: size of the session, files it has written

broker  == <<queue, unacked, sent, replies, acked>>
context == <<capture, interval, frames, nullctr, recent_error>>
stream  == <<camera, grab, full>>
saver   == <<sv, tmp>>
history == <<requested, files>>
vars == <<broker, up, context, stream, saver, rp, out, history>>

Requests == [id : 1..MaxCalls, cmd : Commands]
Errors   == {"none", "grab", "invalid", "busy"}
Reply(r, e) == [type |-> "reply", req |-> r, err |-> e]
Ack(r)      == [type |-> "ack", req |-> r]
Replies     == [type : {"reply"}, req : Requests, err : Errors]
Acks        == [type : {"ack"}, req : Requests]

\* The request the RPC thread is executing.
request == Head(unacked)
cmd     == request.cmd

\* cleanup() ran, or the process holds a handle: a closed one still dangles.
Open == camera = "open"

-----------------------------------------------------------------------------
(* The process dies: its memory, the output queue and the camera handle go, *)
(* the broker puts what was not acknowledged back at the head of the queue. *)
Die ==
  /\ up' = FALSE
  /\ queue' = unacked \o queue
  /\ unacked' = <<>>
  /\ out' = <<>> /\ rp' = "idle" /\ sv' = "none" /\ tmp' = 0
  /\ capture' = 0 /\ interval' = 0 /\ frames' = 0 /\ nullctr' = 0
  /\ recent_error' = "none"
  /\ camera' = "none" /\ grab' = FALSE /\ full' = 0
  /\ requested' = 0 /\ files' = 0
  /\ UNCHANGED <<sent, replies, acked>>

\* cleanup(): abort and free the transfer, close the camera and the API.
Cleanup ==
  /\ camera' = IF Open THEN "closed" ELSE camera
  /\ grab' = FALSE
  /\ full' = 0

\* GevStopImageTransfer; the engine may or may not drop the waiting frames.  It
\* may return an error, which nobody looks at, and leave the transfer running.
StopTransfer ==
  /\ grab' \in {FALSE, grab}
  /\ full' \in {0, full}
  /\ UNCHANGED camera

-----------------------------------------------------------------------------
(* Environment: controllers, the broker's purge, supervisord, the camera.   *)

\* UOControllerRpcClient.call publishes a request.
Call(c) ==
  /\ sent < MaxCalls
  /\ sent' = sent + 1
  /\ queue' = Append(queue, [id |-> sent + 1, cmd |-> c])
  /\ UNCHANGED <<unacked, replies, acked, up, context, stream, saver, rp, out,
                 history>>

\* A client whose ten seconds are over purges the ready requests of everyone.
Purge ==
  /\ queue # <<>>
  /\ queue' = <<>>
  /\ UNCHANGED <<unacked, sent, replies, acked, up, context, stream, saver,
                 rp, out, history>>

\* supervisord (re)starts the process; initialize_cameras opens the camera and
\* starts the saver, or fails and main goes on without either.
Restart ==
  /\ ~up
  /\ up' = TRUE
  /\ \/ camera' = "open" /\ sv' = "wait"
     \/ UNCHANGED <<camera, sv>>
  /\ UNCHANGED <<broker, context, grab, full, tmp, rp, out, history>>

\* Any other end of the process: stopProcess, a signal, a fault.
Crash == up /\ Die

\* The engine fills a buffer.  With all of them full it overwrites one.  The
\* camera may fall silent at any time and does after MaxFrames frames.
FrameArrives ==
  /\ Open /\ grab /\ full < NumBuf
  /\ files + full < MaxFrames
  /\ full' = full + 1
  /\ UNCHANGED <<broker, up, context, camera, grab, saver, rp, out, history>>

-----------------------------------------------------------------------------
(* The RPC thread.                                                          *)

\* Where camera_commands goes for a command.
Branch(c) == CASE c.kill   -> "kill"
               [] ~c.kill /\ c.status -> "status"
               [] ~c.kill /\ ~c.status /\ c.stop -> "stop"
               [] OTHER    -> "check"

\* onReceived, and camera_commands down to the interval it may set.
Deliver ==
  /\ up /\ rp = "idle" /\ unacked = <<>> /\ queue # <<>>
  /\ unacked' = <<Head(queue)>>
  /\ queue' = Tail(queue)
  /\ LET c == Head(queue).cmd IN
       /\ interval' = IF c.interval > 0 THEN c.interval ELSE interval
       /\ rp' = Branch(c)
  /\ UNCHANGED <<sent, replies, acked, up, capture, frames, nullctr,
                 recent_error, stream, saver, out, history>>

Rpc(from, to) ==
  /\ up /\ rp = from
  /\ rp' = to
  /\ UNCHANGED <<broker, up, saver, out>>

RpcKill ==
  /\ Rpc("kill", "exit")
  /\ Cleanup
  /\ UNCHANGED <<context, history>>

\* killself(), two seconds later.
RpcExit == up /\ rp = "exit" /\ Die

RpcStop ==
  /\ Rpc("stop", "halt")
  /\ capture' = 0
  /\ UNCHANGED <<interval, frames, nullctr, recent_error, stream, history>>

RpcHaltFrees ==   \* mutant: line 1079 not commented out
  /\ Rpc("halt", "status")
  /\ Cleanup
  /\ UNCHANGED <<context, history>>

RpcHalt ==
  /\ Rpc("halt", "status")
  /\ StopTransfer
  /\ UNCHANGED <<context, history>>

Startable(c) == c.capture # 0 /\ c.interval > 0

RpcAccept ==
  /\ Rpc("check", "arm")
  /\ capture = 0 /\ Startable(cmd)
  /\ UNCHANGED <<context, stream, history>>

RpcRefuse ==
  /\ Rpc("check", "status")
  /\ \/ capture # 0 /\ recent_error' = "busy"
     \/ capture = 0 /\ ~Startable(cmd) /\ recent_error' = "invalid"
  /\ UNCHANGED <<capture, interval, frames, nullctr, stream, history>>

RpcArm ==
  /\ Rpc("arm", "reset")
  /\ interval' = cmd.interval
  /\ capture' = cmd.capture
  /\ requested' = cmd.capture
  /\ files' = 0
  /\ UNCHANGED <<frames, nullctr, recent_error, stream>>

\* "if capture != 0" reads the field back before frames_captured is reset.
RpcReset ==
  /\ \/ Rpc("reset", "grab") /\ capture # 0 /\ frames' = 0
     \/ Rpc("reset", "status") /\ capture = 0 /\ UNCHANGED frames
  /\ UNCHANGED <<capture, interval, nullctr, recent_error, stream, history>>

\* GevStartImageTransfer, its retries included: it succeeds or reports an error.
RpcGrab ==
  /\ Rpc("grab", "status")
  /\ \/ Open /\ grab' = TRUE /\ full' \in {0, full} /\ UNCHANGED recent_error
     \/ recent_error' = "grab" /\ UNCHANGED <<grab, full>>
  /\ UNCHANGED <<capture, interval, frames, nullctr, camera, history>>

RpcReplyKeepsError ==   \* mutant: ClearErrorMsgs without its destructor
  /\ up /\ rp = "status" /\ camera # "none"
  /\ out' = out \o <<Reply(request, recent_error), Ack(request)>>
  /\ rp' = "idle"
  /\ UNCHANGED <<broker, up, context, stream, saver, history>>

RpcReplyAcksFirst ==   \* mutant: lines 1205 and 1207 swapped
  /\ up /\ rp = "status" /\ camera # "none"
  /\ out' = out \o <<Ack(request), Reply(request, recent_error)>>
  /\ recent_error' = "none"
  /\ rp' = "idle"
  /\ UNCHANGED <<broker, up, capture, interval, frames, nullctr, stream, saver,
                 history>>

RpcReplyWithoutAck ==   \* mutant: line 1207 missing
  /\ up /\ rp = "status" /\ camera # "none"
  /\ out' = out \o <<Reply(request, recent_error)>>
  /\ recent_error' = "none"
  /\ rp' = "idle"
  /\ UNCHANGED <<broker, up, capture, interval, frames, nullctr, stream, saver,
                 history>>

\* get_status empties recent_error; publish and ack enter the output queue.
RpcReply ==
  /\ up /\ rp = "status" /\ camera # "none"
  /\ out' = out \o <<Reply(request, recent_error), Ack(request)>>
  /\ recent_error' = "none"
  /\ rp' = "idle"
  /\ UNCHANGED <<broker, up, capture, interval, frames, nullctr, stream, saver,
                 history>>

\* get_exposure dereferences the node map of a camera that never opened.
RpcFault == up /\ rp = "status" /\ camera = "none" /\ Die

\* doWrite: the socket takes the head of the output queue.
Flush ==
  /\ up /\ rp = "idle" /\ out # <<>>
  /\ out' = Tail(out)
  /\ \/ /\ Head(out).type = "reply"
        /\ replies' = replies \union {Head(out)}
        /\ UNCHANGED <<unacked, acked>>
     \/ /\ Head(out).type = "ack"
        /\ acked' = acked \union {Head(out).req}
        /\ unacked' = <<>>
        /\ UNCHANGED replies
  /\ UNCHANGED <<queue, sent, up, context, stream, saver, rp, history>>

RpcThread ==
  \/ Deliver \/ RpcKill \/ RpcExit \/ RpcStop \/ RpcHalt \/ RpcAccept
  \/ RpcRefuse \/ RpcArm \/ RpcReset \/ RpcGrab \/ RpcReply \/ RpcFault
  \/ Flush

-----------------------------------------------------------------------------
(* The saver.                                                               *)

Saver(from, to) ==
  /\ up /\ sv = from
  /\ sv' = to
  /\ UNCHANGED <<broker, up, rp, out>>

\* GevWaitForNextImage returns a waiting frame, or an error after a second.
SvWait ==
  /\ \/ Saver("wait", "frame") /\ Open /\ full > 0 /\ full' = full - 1
     \/ Saver("wait", "timeout") /\ (Open => full = 0) /\ UNCHANGED full
  /\ UNCHANGED <<context, camera, grab, tmp, history>>

Capturing == capture # 0 /\ interval > 0

SvTimeoutWaits ==   \* mutant: lines 183 to 187 missing
  /\ Saver("timeout", "wait")
  /\ \/ Capturing /\ nullctr' = nullctr + 1
     \/ ~Capturing /\ UNCHANGED nullctr
  /\ UNCHANGED <<capture, interval, frames, recent_error, stream, tmp, history>>

SvTimeoutForgives ==   \* mutant: nullctr is reset when it should end the process
  /\ Saver("timeout", "wait")
  /\ \/ Capturing /\ nullctr' = (nullctr + 1) % 3
     \/ ~Capturing /\ UNCHANGED nullctr
  /\ UNCHANGED <<capture, interval, frames, recent_error, stream, tmp, history>>

SvTimeout ==
  /\ \/ Capturing /\ nullctr' = nullctr + 1
     \/ ~Capturing /\ UNCHANGED nullctr
  /\ Saver("timeout", IF Capturing /\ nullctr' > 2 THEN "cleanup" ELSE "wait")
  /\ UNCHANGED <<capture, interval, frames, recent_error, stream, tmp, history>>

SvCleanup ==
  /\ Saver("cleanup", "exit")
  /\ Cleanup
  /\ UNCHANGED <<context, tmp, history>>

SvExit == up /\ sv = "exit" /\ Die

SvFrameAlways ==   \* mutant: a frame is saved whether a session runs or not
  /\ Saver("frame", "write")
  /\ UNCHANGED <<context, stream, tmp, history>>

SvFrame ==
  /\ Saver("frame", IF Capturing THEN "write" ELSE "wait")
  /\ UNCHANGED <<context, stream, tmp, history>>

\* The file is written and closed; then frames_captured is loaded ...
SvWrite ==
  /\ Saver("write", "count")
  /\ files' = files + 1
  /\ tmp' = frames
  /\ UNCHANGED <<context, stream, requested>>

\* ... and stored.
SvCount ==
  /\ Saver("count", "left")
  /\ frames' = tmp + 1
  /\ UNCHANGED <<capture, interval, nullctr, recent_error, stream, tmp, history>>

SvLeftAny ==   \* mutant: the continuous -1 is decremented as well
  /\ Saver("left", IF capture # 0 THEN "load" ELSE "wait")
  /\ UNCHANGED <<context, stream, tmp, history>>

\* "if capture > 0", the load and the store of "capture -= 1", "if capture == 0"
SvLeft ==
  /\ Saver("left", IF capture > 0 THEN "load" ELSE "wait")
  /\ UNCHANGED <<context, stream, tmp, history>>

SvLoad ==
  /\ Saver("load", "store")
  /\ tmp' = capture
  /\ UNCHANGED <<context, stream, history>>

SvStoreSame ==   \* mutant: line 230 missing
  /\ Saver("store", "zero")
  /\ UNCHANGED <<context, stream, tmp, history>>

SvStore ==
  /\ Saver("store", "zero")
  /\ capture' = tmp - 1
  /\ UNCHANGED <<interval, frames, nullctr, recent_error, stream, tmp, history>>

SvZero ==
  /\ Saver("zero", IF capture = 0 THEN "halt" ELSE "wait")
  /\ UNCHANGED <<context, stream, tmp, history>>

SvHalt ==
  /\ Saver("halt", "wait")
  /\ StopTransfer
  /\ UNCHANGED <<context, tmp, history>>

SaverThread ==
  \/ SvWait \/ SvTimeout \/ SvCleanup \/ SvExit \/ SvFrame \/ SvWrite
  \/ SvCount \/ SvLeft \/ SvLoad \/ SvStore \/ SvZero \/ SvHalt

-----------------------------------------------------------------------------
Init ==
  /\ queue = <<>> /\ unacked = <<>> /\ sent = 0 /\ replies = {} /\ acked = {}
  /\ up = FALSE /\ camera = "none"
  /\ capture = 0 /\ interval = 0 /\ frames = 0 /\ nullctr = 0
  /\ recent_error = "none"
  /\ grab = FALSE /\ full = 0
  /\ sv = "none" /\ tmp = 0
  /\ rp = "idle" /\ out = <<>>
  /\ requested = 0 /\ files = 0

Environment ==
  \/ \E c \in Commands : Call(c)
  \/ Purge \/ Restart \/ Crash \/ FrameArrives

Next == Environment \/ RpcThread \/ SaverThread

Spec == Init /\ [][Next]_vars

\* Each thread runs: the kernel schedules it, its waits and sleeps are bounded
\* (1000 ms, interval, 2 s).  Nothing is assumed of camera or controllers.
Fairness == WF_vars(RpcThread) /\ WF_vars(SaverThread)
FairSpec == Spec /\ Fairness

-----------------------------------------------------------------------------
(* What the process promises.                                               *)

BrokerType ==
  /\ queue \in Seq(Requests)
  /\ unacked \in Seq(Requests) /\ Len(unacked) <= 1
  /\ sent \in 0..MaxCalls
  /\ replies \subseteq Replies /\ acked \subseteq Requests

ContextType ==
  /\ capture \in Int /\ interval \in Nat /\ frames \in Nat
  /\ nullctr \in 0..3
  /\ recent_error \in Errors

StreamType ==
  camera \in {"none", "open", "closed"} /\ grab \in BOOLEAN /\ full \in 0..NumBuf

SaverType ==
  /\ sv \in {"none", "wait", "timeout", "cleanup", "exit", "frame", "write",
             "count", "left", "load", "store", "zero", "halt"}
  /\ tmp \in Int

RpcType ==
  /\ rp \in {"idle", "kill", "exit", "stop", "halt", "check", "arm", "reset",
             "grab", "status"}
  /\ rp # "idle" => unacked # <<>>
  /\ out \in Seq(Replies \union Acks)

(* Every variable has its type; a request is being executed whenever the RPC *)
(* thread is inside camera_commands, and nullctr stops at the three timeouts *)
(* that end the process.                                                     *)
TypeOK ==
  /\ BrokerType /\ ContextType /\ StreamType /\ SaverType /\ RpcType
  /\ up \in BOOLEAN
  /\ requested \in Int /\ files \in Nat

(* A request leaves the broker only with its reply there before it, however *)
(* often the process dies between the two (the order of publish and ack in  *)
(* onReceived, and the FIFO of AsioHandler's output queue).                 *)
AckedWasAnswered == \A r \in acked : \E m \in replies : m.req = r

(* recent_error is emptied by the reply that carries it: a reply tells an   *)
(* error of its own command only, and a status or stop reply tells none.    *)
Causes(c) == CASE c.status \/ c.stop -> {"none"}
               [] ~c.status /\ ~c.stop /\ c.capture # 0 /\ c.interval > 0 ->
                    {"none", "grab", "busy"}
               [] OTHER -> {"invalid", "busy"}

ErrorsAnswerTheirCommand == \A m \in replies : m.err \in Causes(m.req.cmd)

(* killself() ends the process before the reply and the ack: a kill command *)
(* is delivered again to every process that follows, until it is purged.    *)
KillNeverLeaves ==
  /\ \A r \in acked : ~r.cmd.kill
  /\ \A m \in replies : ~m.req.cmd.kill

(* Whatever interleaving sets capture, the saver never runs a session with  *)
(* interval 0: it would drop the frames and ignore the timeouts for ever.   *)
SessionHasInterval == capture # 0 => interval > 0

(* The buffers are alive while the saver holds a frame, whatever starts and *)
(* stops overlap with it, but for a kill: that one does free them under the *)
(* saver, and the RPC thread then does nothing more than end the process.   *)
SaverUsesLiveBuffers ==
  sv \in {"frame", "write"} /\ ~Open => rp = "exit" /\ cmd.kill

(* A stop that overtakes the saver's decrement costs one decrement at most: *)
(* capture never falls further than one below the continuous -1.            *)
CaptureFloor == capture >= -2 /\ (sv = "store" => tmp >= -1)

\* The file is written and capture does not know it yet.
InFlight == IF sv \in {"count", "left", "load", "store"} THEN 1 ELSE 0

(* Without stop commands no frame of a finite session is lost or saved      *)
(* twice: those left and those in files are the frames that were asked for. *)
Conservation == requested > 0 => capture + files - InFlight = requested

(* Without stop commands the test of line 1083 still holds when line 1088   *)
(* acts on it, and the saver is done with the session before.               *)
StartsWhenDone ==
  [][rp = "arm" /\ rp' = "reset" => capture = 0 /\ InFlight = 0]_vars

(* A finite session ends: in files, by a stop, or with the process.         *)
SessionEnds == capture > 0 ~> capture <= 0 \/ ~up

(* A session whose transfer does not run (a failed start, a stop of the     *)
(* saver that hits the next session, a stop that overtakes the decrement)   *)
(* does not stay: the saver's third timeout ends the process.               *)
Wedged == up /\ capture # 0 /\ ~grab
WedgeClears == Wedged ~> ~Wedged

(* The session as CaptureSession promises it: capture less the file in       *)
(* flight.  This is so without stop commands.                               *)
Session == INSTANCE CaptureSession WITH
             Sizes <- {c.capture : c \in Commands} \ {0},
             left <- IF capture > 0 THEN capture - InFlight ELSE capture,
             saved <- files
SessionSpec == Session!Spec

(* No request blocks the queue: the one at its head is acknowledged, or the *)
(* process dies.                                                            *)
Pending(i) == \E r \in Requests : r.id = i /\ (\E k \in 1..Len(unacked \o queue) :
                                                (unacked \o queue)[k] = r)
CallsSettle == \A i \in 1..MaxCalls : Pending(i) /\ up ~> ~Pending(i) \/ ~up
=============================================================================
