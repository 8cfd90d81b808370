------------------------------ MODULE Watchdog ------------------------------
(***************************************************************************)
(* The watchdog of a south camera (capture_watchdog/watchdog.py).  Two      *)
(* processes share the dictionary cam_commands:                            *)
(*                                                                         *)
(*   - main serves the controllers' commands, one at a time: it stores the *)
(*     command in the dictionary and in last_command.cmd, passes it on to  *)
(*     the capture process and asks for the status; at its start it        *)
(*     restarts the capture process and replays the file;                  *)
(*   - the monitor wakes every two seconds (check_timestamp) and restarts  *)
(*     the capture process when it does not run or no image was closed for *)
(*     too long; process_IN_CLOSE_WRITE tells it of the images.            *)
(*                                                                         *)
(* Both run restart_camera.  A step is an access to the dictionary, to      *)
(* supervisord or to the broker, or a test of check_timestamp with what it  *)
(* reads.  BUSY is left out: a timer is armed when check_timestamp is over, *)
(* so nobody reads it while it is set.                                      *)
(*                                                                         *)
(* Time is counted in the monitor's wake-ups: an elapsed time of n of them *)
(* and a little more is "greater than" a limit of n.  Of the capture        *)
(* process, which Capture models, there is what its replies and images     *)
(* show; an image is still there when its event is handled, and the broker *)
(* whenever it is called.                                                   *)
(***************************************************************************)
EXTENDS Integers, Sequences

CONSTANTS Commands,     \* the commands controllers send
          Slack,        \* the 60 seconds of lines 93 and 113
          Factor,       \* the 6 of line 128
          Faults,       \* which calls may raise: "lens", "supervisord"
          MaxCalls, MaxCrashes,   \* bounds: commands sent, watchdog's ends
          MaxAge,                 \* bound: where clocks stop counting
          MaxEvents               \* bound: images whose event is not handled

CommandType == [status : BOOLEAN, kill : BOOLEAN, stop : BOOLEAN,
                capture : Int, interval : Nat]
StatusCommand == [status |-> TRUE, kill |-> FALSE, stop |-> FALSE,
                  capture |-> 0, interval |-> 0]
\* What get(.., 0) makes of an empty dictionary.
Nothing == [StatusCommand EXCEPT !.status = FALSE]
\* What dict() has taken from the dictionary before its first item.
NoItems == [items |-> 0, cmd |-> Nothing]

\* What last_command.cmd holds besides a command.
NoFile == [file |-> "none"]
Torn   == [file |-> "torn"]

Late(i)  == Slack + i
Stale(i) == Factor * i
Limit(i) == IF Late(i) < Stale(i) THEN Late(i) ELSE Stale(i)

ASSUME WatchdogAssumption ==
  /\ Commands \subseteq CommandType
  /\ Slack \in Nat /\ Factor \in Nat /\ Faults \subseteq {"lens", "supervisord"}
  /\ MaxCalls \in Nat /\ MaxCrashes \in Nat /\ MaxAge \in Nat /\ MaxEvents \in Nat
  /\ \A c \in Commands : Late(c.interval) <= MaxAge /\ Stale(c.interval) <= MaxAge

VARIABLES
  inbox, sent,        \* the watchdog's queue; how many commands were sent
  cmds,               \* cam_commands
  saved,              \* last_command.cmd
  pc, resp,           \* of both: program counter; whether a call was answered
  job,                \* main: what it processes, a replay or a request
  ret, tmp, got,      \* monitor: where _restart_camera returns, what it has read
  cntr, age,          \* monitor: _internal_cntr, time since _current_timestamp
  events,             \* the age of each image whose event is not yet handled
  proc, session, camq,  \* capture process: its state at supervisord, what it
                      \* captures, its queue
  crashes,
  want, kept, done,   \* history: the request stored last, the one whose command
                      \* the file has, and whether the monitor has touched it
                      \* since; the id of the last one answered with "OK"
  quiet               \* history: time since an image was closed
controllers == <<inbox, sent>>
shared    == <<cmds, saved>>
registers == <<ret, tmp, got, cntr>>
clocks    == <<age, events, quiet>>
camera    == <<proc, session, camq>>
history   == <<want, kept, done>>
vars == <<controllers, shared, pc, resp, job, registers, clocks, camera, crashes, history>>

Threads == {"main", "mon"}
Running == proc = "running"
Older(clock) == IF clock < MaxAge THEN clock + 1 ELSE clock

\* A step of one thread.
Go(t, from, to) == pc[t] = from /\ pc' = [pc EXCEPT ![t] = to]

-----------------------------------------------------------------------------
(* Controllers, the camera and supervisord.                                 *)

Call(c) ==
  /\ sent < MaxCalls
  /\ sent' = sent + 1
  /\ inbox' = Append(inbox, [id |-> sent + 1, cmd |-> c])
  /\ UNCHANGED <<shared, pc, resp, job, registers, clocks, camera, crashes, history>>

\* What a command makes of the session (Capture has the details).
Executed(c) == CASE c.status -> session
                 [] ~c.status /\ c.stop -> 0
                 [] ~c.status /\ ~c.stop /\ session = 0 /\ c.interval > 0 -> c.capture
                 [] OTHER -> session

\* camera_commands; a kill is never acknowledged and stays in the queue.
CamHandle ==
  /\ Running /\ camq # <<>>
  /\ LET r == Head(camq) IN
       \/ /\ r.cmd.kill
          /\ proc' = "down" /\ session' = 0
          /\ UNCHANGED <<camq, resp>>
       \/ /\ ~r.cmd.kill
          /\ session' = Executed(r.cmd)
          /\ camq' = Tail(camq)
          /\ resp' = [t \in Threads |-> t = r.from \/ resp[t]]
          /\ UNCHANGED proc
  /\ UNCHANGED <<controllers, shared, pc, job, registers, clocks, crashes, history>>

\* "down" is any state of supervisord's but RUNNING, STOPPING and STOPPED.
CamCrash ==
  /\ Running
  /\ proc' = "down" /\ session' = 0
  /\ UNCHANGED <<controllers, shared, pc, resp, job, registers, clocks, camq, crashes,
                 history>>

\* autorestart=true
Autorestart ==
  /\ proc = "down"
  /\ proc' = "running"
  /\ UNCHANGED <<controllers, shared, pc, resp, job, registers, clocks, session, camq,
                 crashes, history>>

\* An image is closed; a watchdog that runs is told of it.
Image ==
  /\ Running /\ session # 0
  /\ session' = IF session > 0 THEN session - 1 ELSE session
  /\ quiet' = 0
  /\ IF pc["mon"] = "off" THEN UNCHANGED events
     ELSE Len(events) < MaxEvents /\ events' = Append(events, 0)
  /\ UNCHANGED <<controllers, shared, pc, resp, job, registers, age, proc, camq,
                 crashes, history>>

-----------------------------------------------------------------------------
(* restart_camera and the calls to the capture process, for both threads.   *)

\* What main is processing.
Current == IF job = "replay" THEN saved ELSE Head(inbox).cmd

\* restart_camera returns: _restart_camera sets the time, main goes on to
\* process the command it replays.
After(t) == IF t = "mon" THEN ret ELSE "update"
Returned(t) == IF t = "mon" THEN age' = 0 /\ ret' = "wait" ELSE UNCHANGED <<age, ret>>

\* stopProcess, or nothing when it is stopped, being stopped or has exited.
RcStop(t) ==
  /\ Go(t, "stop", "start")
  /\ \/ proc # "stopped" /\ proc' = "stopped" /\ session' = 0
     \/ ~Running /\ UNCHANGED <<proc, session>>
  /\ UNCHANGED <<controllers, shared, resp, job, registers, clocks, camq, crashes,
                 history>>

\* startProcess, or nothing when it runs already.
RcStart(t) ==
  /\ Go(t, "start", "send")
  /\ proc' = "running"
  /\ UNCHANGED <<controllers, shared, resp, job, registers, clocks, session, camq,
                 crashes, history>>

\* An exception ends restart_camera: supervisord cannot be reached, has nothing
\* to stop (FATAL), or the capture process does not start.
RcFails(t) ==
  /\ \/ Go(t, "stop", After(t)) /\ UNCHANGED proc
        /\ ("supervisord" \in Faults \/ proc = "down")
     \/ Go(t, "start", After(t)) /\ "supervisord" \in Faults /\ UNCHANGED proc
     \/ Go(t, "start", After(t)) /\ ~Running /\ proc' \in {proc, "down"}
  /\ Returned(t)
  /\ UNCHANGED <<controllers, shared, resp, job, tmp, got, cntr, events, quiet, session,
                 camq, crashes, history>>

\* UOControllerRpcClient.call
Send(t, from, to, c) ==
  /\ Go(t, from, to)
  /\ camq' = Append(camq, [cmd |-> c, from |-> t])
  /\ UNCHANGED <<controllers, shared, resp, job, ret, tmp, cntr, clocks, proc, session,
                 crashes, history>>

PurgeKeepsCaller(t) ==   \* mutant: lines 20 and 25 missing, a client is used again
  \/ camq' = <<>>
  \/ Running /\ camq # <<>> /\ camq' = <<Head(camq)>>

\* queue_purge, and the end of the connection with its callback_queue: what the
\* capture process was given and has not acknowledged stays, and if it was t's
\* nobody awaits its answer.
Purge(t) ==
  \/ camq' = <<>>
  \/ /\ Running /\ camq # <<>>
     /\ camq' = <<[Head(camq) EXCEPT !.from = IF @ = t THEN "nobody" ELSE @]>>

AwaitForever(t, from, answered, timeout) ==   \* mutant: line 16 missing
  Go(t, from, answered) /\ resp[t] /\ UNCHANGED camq /\ resp' = [resp EXCEPT ![t] = FALSE]

\* The answer, or ten seconds and a purge.
Await(t, from, answered, timeout) ==
  \/ Go(t, from, answered) /\ resp[t] /\ UNCHANGED camq /\ resp' = [resp EXCEPT ![t] = FALSE]
  \/ Go(t, from, timeout) /\ ~resp[t] /\ Purge(t) /\ UNCHANGED resp

\* Line 192: dict() of main's own command is one step.  On the dictionary it
\* takes one item after the other in the order of lines 268 to 274, and main
\* may store a command in between; none that is stored asks for the status.
Item(c, k) ==
  [status   |-> FALSE,
   kill     |-> IF k = 1 THEN cmds.kill     ELSE c.kill,
   capture  |-> IF k = 2 THEN cmds.capture  ELSE c.capture,
   interval |-> IF k = 3 THEN cmds.interval ELSE c.interval,
   stop     |-> IF k = 4 THEN cmds.stop     ELSE c.stop]

RcItem ==
  /\ Go("mon", "send", "send")
  /\ got.items < 3
  /\ got' = [items |-> got.items + 1, cmd |-> Item(got.cmd, got.items + 1)]
  /\ UNCHANGED <<controllers, shared, resp, job, ret, tmp, cntr, clocks, camera,
                 crashes, history>>

RcSend(t) ==
  \/ t = "main" /\ Send("main", "send", "await", Current) /\ UNCHANGED got
  \/ t = "mon" /\ got.items = 3 /\ got' = NoItems
     /\ Send("mon", "send", "await", Item(got.cmd, 4))

RcDone(t) ==
  /\ Await(t, "await", After(t), After(t))
  /\ Returned(t)
  /\ UNCHANGED <<controllers, shared, job, tmp, got, cntr, events, quiet, proc, session,
                 crashes, history>>

RestartCamera(t) ==
  RcStop(t) \/ RcStart(t) \/ RcFails(t) \/ RcSend(t) \/ RcDone(t)

-----------------------------------------------------------------------------
(* The monitor.                                                             *)

EventUnseen ==   \* mutant: line 168 missing
  /\ events # <<>> /\ events' = Tail(events)
  /\ UNCHANGED <<controllers, shared, pc, resp, job, registers, age, quiet, camera,
                 crashes, history>>

\* process_IN_CLOSE_WRITE takes the time at which the image was written.
MonEvent ==
  /\ events # <<>>
  /\ age' = Head(events) /\ events' = Tail(events)
  /\ UNCHANGED <<controllers, shared, pc, resp, job, registers, quiet, camera, crashes,
                 history>>

Mon(from, to) ==
  /\ Go("mon", from, to)
  /\ UNCHANGED <<controllers, saved, resp, job, got, camera, crashes, kept, done>>

\* Time goes on.
Ages ==
  /\ age' = Older(age) /\ quiet' = Older(quiet)
  /\ events' = [i \in DOMAIN events |-> Older(events[i])]

MonWakeFinite ==   \* mutant: line 107 tests for a positive number again
  /\ \E to \in {"finite", "second", "unused"} :
       /\ Mon("wait", to)
       /\ to = CASE cmds.interval = 0 -> "second"
                 [] cmds.interval # 0 /\ cmds.capture > 0 /\ cntr < cmds.capture -> "finite"
                 [] OTHER -> "unused"
  /\ Ages
  /\ UNCHANGED <<cmds, ret, tmp, cntr, want>>

\* The timer, and the tests of lines 83 to 86 and 107: which case it is.
MonWake ==
  /\ \E to \in {"finite", "endless", "second", "unused"} :
       /\ Mon("wait", to)
       /\ to = CASE cmds.interval = 0 -> "second"
                 [] cmds.interval # 0 /\ cmds.capture > 0 /\ cntr < cmds.capture -> "finite"
                 [] cmds.interval # 0 /\ cmds.capture = -1 -> "endless"
                 [] OTHER -> "unused"
  /\ Ages
  /\ UNCHANGED <<cmds, ret, tmp, cntr, want>>

\* Lines 88 to 96 and 108 to 116: it does not run, or no image for too long.
MonFirst(case) ==
  /\ Mon(case, "read")
  /\ ~Running \/ age >= Late(cmds.interval)
  /\ ret' = "second"
  /\ UNCHANGED <<cmds, tmp, cntr, clocks, want>>

\* The monitor stores in the dictionary, perhaps while main saves its command.
Stores(n) ==
  /\ cmds' = [cmds EXCEPT !.capture = n]
  /\ want' = [want EXCEPT !.touched =
                @ \/ (pc["main"] \in {"open", "dump"} /\ n # cmds.capture)]

\* Lines 98 to 105: main has stored a smaller number meanwhile, or count.
MonFinite ==
  /\ Mon("finite", "second")
  /\ Running /\ age < Late(cmds.interval)
  /\ \/ cntr >= cmds.capture /\ Stores(0) /\ cntr' = 0
     \/ cntr < cmds.capture /\ cntr' = cntr + 1 /\ UNCHANGED <<cmds, want>>
  /\ UNCHANGED <<ret, tmp, clocks>>

MonEndless ==
  /\ Mon("endless", "second")
  /\ Running /\ age < Late(cmds.interval)
  /\ UNCHANGED <<cmds, ret, tmp, cntr, clocks, want>>

\* Line 122
MonUnused ==
  /\ Mon("unused", "second")
  /\ age' = 0
  /\ UNCHANGED <<cmds, ret, tmp, cntr, events, quiet, want>>

\* Lines 123 to 127, and 132 to 136 when nothing is to be captured.
MonSecond ==
  /\ \/ Mon("second", "read") /\ cmds.capture # 0 /\ ~Running
        /\ ret' = "late" /\ UNCHANGED age
     \/ Mon("second", "late") /\ cmds.capture # 0 /\ Running
        /\ UNCHANGED <<ret, age>>
     \/ Mon("second", "wait") /\ cmds.capture = 0 /\ age' = 0 /\ UNCHANGED ret
  /\ UNCHANGED <<cmds, tmp, cntr, events, quiet, want>>

\* Lines 128 to 131
MonLate ==
  /\ \/ Mon("late", "read") /\ age >= Stale(cmds.interval) /\ ret' = "wait"
     \/ Mon("late", "wait") /\ age < Stale(cmds.interval) /\ UNCHANGED ret
  /\ UNCHANGED <<cmds, tmp, cntr, clocks, want>>

\* _restart_camera takes capture from the dictionary ...
MonRead ==
  /\ Mon("read", "write")
  /\ tmp' = cmds.capture
  /\ UNCHANGED <<cmds, ret, cntr, clocks, want>>

\* ... and puts it back, less _internal_cntr.
MonWrite ==
  /\ Mon("write", "stop")
  /\ Stores(tmp - cntr)
  /\ cntr' = 0 /\ tmp' = 0
  /\ UNCHANGED <<ret, clocks>>

\* getProcessInfo raises: sys.exit ends a timer's thread only, and the timer
\* is armed again.
MonFails ==
  /\ "supervisord" \in Faults
  /\ \/ Mon("finite", "wait") \/ Mon("endless", "wait")
     \/ Mon("second", "wait") /\ cmds.capture # 0
  /\ UNCHANGED <<cmds, ret, tmp, cntr, clocks, want>>

Monitor ==
  \/ MonWake \/ MonFirst("finite") \/ MonFirst("endless") \/ MonFinite
  \/ MonEndless \/ MonUnused \/ MonSecond \/ MonLate \/ MonRead \/ MonWrite
  \/ MonFails \/ RestartCamera("mon") \/ RcItem

-----------------------------------------------------------------------------
(* Main.                                                                    *)

Main(from, to) ==
  /\ Go("main", from, to)
  /\ UNCHANGED <<controllers, registers, clocks, camera, crashes>>

\* _replay_prev_command: a file that cannot be read is logged.
Boot ==
  /\ Main("boot", IF saved \in {NoFile, Torn} THEN "idle" ELSE "stop")
  /\ job' = "replay"
  /\ UNCHANGED <<shared, resp, history>>

ReceiveAcksFirst ==   \* mutant: line 328 before line 323
  /\ inbox # <<>>
  /\ Go("main", "idle", IF Head(inbox).cmd.status THEN "ask2" ELSE "update")
  /\ job' = "rpc" /\ inbox' = Tail(inbox)
  /\ UNCHANGED <<sent, shared, resp, registers, clocks, camera, crashes, history>>

\* on_rpc_request
Receive ==
  /\ inbox # <<>>
  /\ Main("idle", IF Head(inbox).cmd.status THEN "ask2" ELSE "update")
  /\ job' = "rpc"
  /\ UNCHANGED <<shared, resp, history>>

\* The lens, then cam_commands.update
Update ==
  /\ Main("update", "open")
  /\ cmds' = Current
  /\ want' = IF job = "replay" THEN kept
             ELSE [id |-> Head(inbox).id, cmd |-> Current, touched |-> FALSE]
  /\ UNCHANGED <<saved, resp, job, kept, done>>

LensFails ==
  /\ "lens" \in Faults
  /\ Main("update", "reply")
  /\ UNCHANGED <<shared, resp, job, history>>

\* open(.., "w") empties the file, json.dump fills it.
Open ==
  /\ Main("open", "dump")
  /\ saved' = Torn
  /\ UNCHANGED <<cmds, resp, job, history>>

DumpLate ==   \* mutant: the file is written, and the disk does not have it
  /\ Main("dump", "order")
  /\ UNCHANGED <<shared, resp, job, history>>

\* What the dictionary holds now.
Dump ==
  /\ Main("dump", "order")
  /\ saved' = cmds /\ kept' = want
  /\ UNCHANGED <<cmds, resp, job, want, done>>

\* Lines 293 to 295: the answer is not looked at.
OrderSent == Send("main", "order", "ordered", cmds) /\ UNCHANGED got
OrderDone ==
  /\ Await("main", "ordered", "ask1", "ask1")
  /\ UNCHANGED <<controllers, shared, job, registers, clocks, proc, session, crashes,
                 history>>

\* _status twice, for the test and for the file; without an answer it raises.
Ask ==
  /\ \/ Send("main", "ask1", "asked1", StatusCommand)
     \/ Send("main", "ask2", "asked2", StatusCommand)
  /\ UNCHANGED got
Asked ==
  /\ \/ Await("main", "asked1", "ask2", "reply")
     \/ Await("main", "asked2", "ok", "reply")
  /\ UNCHANGED <<controllers, shared, job, registers, clocks, proc, session, crashes,
                 history>>

\* _process_commands returns to _replay_prev_command ...
Replayed ==
  /\ job = "replay"
  /\ Main("ok", "idle") \/ Main("reply", "idle")
  /\ UNCHANGED <<shared, resp, job, history>>

\* ... or to on_rpc_request, which publishes the answer ...
Reply ==
  /\ job = "rpc"
  /\ \/ Main("ok", "ack")
        /\ done' = IF Head(inbox).cmd.status THEN done ELSE Head(inbox).id
     \/ Main("reply", "ack") /\ UNCHANGED done
  /\ UNCHANGED <<shared, resp, job, want, kept>>

\* ... and acknowledges the request.
Ack ==
  /\ Go("main", "ack", "idle")
  /\ inbox' = Tail(inbox)
  /\ UNCHANGED <<sent, shared, resp, job, registers, clocks, camera, crashes, history>>

MainThread ==
  \/ Boot \/ Receive \/ Update \/ LensFails \/ Open \/ Dump \/ OrderSent
  \/ OrderDone \/ Ask \/ Asked \/ Replayed \/ Reply \/ Ack \/ RestartCamera("main")

-----------------------------------------------------------------------------
(* The watchdog ends, with the dictionary and its calls, and is started.    *)

WdCrash ==
  /\ pc["main"] # "off" /\ crashes < MaxCrashes
  /\ crashes' = crashes + 1
  /\ pc' = [t \in Threads |-> "off"] /\ resp' = [t \in Threads |-> FALSE]
  /\ cmds' = Nothing /\ cntr' = 0 /\ tmp' = 0 /\ ret' = "wait" /\ got' = NoItems
  /\ age' = 0 /\ events' = <<>>
  /\ camq' = [i \in DOMAIN camq |-> [camq[i] EXCEPT !.from = "nobody"]]
  /\ UNCHANGED <<controllers, saved, job, proc, session, history, quiet>>

\* The monitor's first wake-up, in FsEventHandler.__init__, finds an empty
\* dictionary and sets the time.
WdStart ==
  /\ pc["main"] = "off"
  /\ pc' = [t \in Threads |-> IF t = "main" THEN "boot" ELSE "wait"]
  /\ UNCHANGED <<controllers, shared, resp, job, registers, clocks, camera, crashes,
                 history>>

Init ==
  /\ inbox = <<>> /\ sent = 0
  /\ cmds = Nothing /\ saved = NoFile
  /\ pc = [t \in Threads |-> "off"] /\ resp = [t \in Threads |-> FALSE]
  /\ job = "replay"
  /\ ret = "wait" /\ tmp = 0 /\ got = NoItems /\ cntr = 0
  /\ age = 0 /\ events = <<>> /\ quiet = 0
  /\ proc = "stopped" /\ session = 0 /\ camq = <<>>
  /\ crashes = 0
  /\ want = [id |-> 0, cmd |-> Nothing, touched |-> FALSE] /\ kept = want /\ done = 0

Environment ==
  \/ \E c \in Commands : Call(c)
  \/ CamHandle \/ CamCrash \/ Autorestart \/ Image \/ WdCrash \/ WdStart

Next == Environment \/ MonEvent \/ Monitor \/ MainThread

Spec == Init /\ [][Next]_vars

\* Both processes run: every call has a timeout, every sleep ends.
Fairness == WF_vars(Monitor) /\ WF_vars(MainThread)
FairSpec == Spec /\ Fairness

-----------------------------------------------------------------------------
MonPcs  == {"off", "wait", "finite", "endless", "unused", "second", "late", "read",
            "write", "stop", "start", "send", "await"}
MainPcs == {"off", "boot", "idle", "update", "open", "dump", "order", "ordered",
            "ask1", "asked1", "ask2", "asked2", "ok", "reply", "ack", "stop", "start",
            "send", "await"}

(* Every variable has its type; main holds a command whenever it processes  *)
(* one.                                                                     *)
StoredType == [id : 0..MaxCalls, cmd : CommandType, touched : BOOLEAN]
TypeOK ==
  /\ inbox \in Seq([id : 1..MaxCalls, cmd : Commands]) /\ sent \in 0..MaxCalls
  /\ cmds \in CommandType /\ saved \in CommandType \union {NoFile, Torn}
  /\ pc \in [Threads -> MainPcs \union MonPcs]
  /\ pc["main"] \in MainPcs /\ pc["mon"] \in MonPcs
  /\ resp \in [Threads -> BOOLEAN] /\ job \in {"replay", "rpc"}
  /\ ret \in {"second", "late", "wait"} /\ tmp \in Int /\ cntr \in Nat
  /\ got \in [items : 0..3, cmd : CommandType]
  /\ age \in 0..MaxAge /\ events \in Seq(0..MaxAge) /\ quiet \in 0..MaxAge
  /\ proc \in {"running", "down", "stopped"} /\ session \in Int
  /\ camq \in Seq([cmd : CommandType, from : Threads \union {"nobody"}])
  /\ crashes \in 0..MaxCrashes
  /\ want \in StoredType /\ kept \in StoredType /\ done \in 0..MaxCalls
  /\ job = "rpc" /\ pc["main"] \notin {"off", "boot", "idle"} => inbox # <<>>

(* The monitor decides to take a running capture process down (lines 96,    *)
(* 116 and 131) only when the last image was closed as long ago as the      *)
(* limit of the session that is in the dictionary then, or its event waits  *)
(* to be handled: whatever events that come late and restarts that overlap  *)
(* do to _current_timestamp.  It is a property of the decision: an image    *)
(* closed between it and line 185 does not keep the process, and a command  *)
(* stored after the last image brings its own limit.                        *)
DecisionsAreDue ==
  [][pc["mon"] # "read" /\ pc'["mon"] = "read" /\ Running
     => events # <<>> \/ quiet >= Limit(cmds.interval)]_vars

(* A command that was answered with "OK" survives the end of the watchdog:  *)
(* it or a newer one is in last_command.cmd or being written to it, or it   *)
(* or a newer one is still in the queue.  What the file has is a command as *)
(* it was sent, but for the number of images where the monitor stored one   *)
(* (lines 101 and 150) between lines 289 and 292.  (For one end, and where  *)
(* the lens works: a watchdog that ends at line 290 while it replays the    *)
(* file, or is then refused by the lens, has neither.)                      *)
FileHas(c, request) ==
  /\ c = [request.cmd EXCEPT !.capture = c.capture]
  /\ c.capture = request.cmd.capture \/ request.touched
NothingForgotten ==
  /\ saved \in CommandType => FileHas(saved, kept)
  /\ \/ done <= kept.id /\ (saved = Torn => pc["main"] = "dump")
     \/ inbox # <<>> /\ Head(inbox).id >= done /\ ~Head(inbox).cmd.status

(* The watchdog's two callers of the capture process have what RpcCalls     *)
(* promises: no answer, however late, is taken for that of a later call,    *)
(* and a purge costs the other caller no more than its call.                *)
Queued(t) == \E i \in DOMAIN camq : camq[i].from = t
Awaits(t) == pc[t] \in {"await", "ordered", "asked1", "asked2"}
CallOf(t) ==
  CASE Awaits(t) /\ resp[t] /\ ~Queued(t) -> "answered"
    [] Awaits(t) /\ ~resp[t] /\ Queued(t) -> "sent"
    [] Awaits(t) /\ ~resp[t] /\ ~Queued(t) -> "lost"
    [] ~Awaits(t) /\ ~Queued(t) -> "none"
    [] OTHER -> "mixed"
Calls == INSTANCE RpcCalls WITH Clients <- Threads, call <- [t \in Threads |-> CallOf(t)]
CallSpec == Calls!Spec

(* A request is answered after a bounded number of calls, each of which     *)
(* times out, whatever the capture process and the monitor do.              *)
Waiting(i) == \E k \in DOMAIN inbox : inbox[k].id = i
RequestsAnswered ==
  \A i \in 1..MaxCalls : Waiting(i) ~> ~Waiting(i) \/ pc["main"] = "off"

(* While the dictionary holds a continuous session and no image comes, the  *)
(* monitor restarts the capture process: its tests are repeated, a restart  *)
(* in progress ends, and no event but an image resets the time for ever.    *)
Silent == quiet = MaxAge /\ pc["mon"] # "off"
Endless(c) == c.capture = -1 /\ c.interval > 0
SilenceRestarts ==
  Endless(cmds) /\ Silent ~> ~(Endless(cmds) /\ Silent) \/ pc["mon"] = "stop"

(* "if a drift of > 3*interval requested is observed, it makes a call to    *)
(* restart the cuiccapture code" (line 73): the same for the session that   *)
(* was ordered.                                                             *)
DriftIsNoticed ==
  Endless(want.cmd) /\ Silent ~> ~(Endless(want.cmd) /\ Silent) \/ pc["mon"] = "stop"
=============================================================================
