# A verification development for cuic

`cuic` runs the visible-light cameras of an urban observatory: capture
programs that save the images of GigE cameras, watchdogs that take commands
from a controller over RabbitMQ and restart a capture program that falls
silent, and utilities that move the images to an archive.  This directory
holds TLA+ modules that model the programs, configurations for TLC, and
proofs for TLAPS.  Paths are relative to the repository; the Teledyne programs
are under `src/using_teledyne/`.

## 1. The system

| Component | Source | State it keeps | Operations |
|---|---|---|---|
| Capture process (Teledyne) | `capture_demo/genicam_cpp_demo.cpp` | one `MY_CONTEXT` (capture, interval, frames_captured, nullctr, recent_error) shared by two threads without a lock; the camera's transfer and its queue of images | RPC thread: `onReceived`, `camera_commands` (status, stop, start, kill, exposure), reply, ack. Saver: `ImageSaveThread` |
| Its AMQP transport | `capture_demo/asiohandler.cpp` | output queue, `_writeInProgress`, `_connected`, `_quit`, the `AmqpBuffer` | `doConnect`, `onData`, `doWrite`, `doRead`, `parseData`, `onClosed` |
| RPC client | `capture_watchdog/rpc_client.py` | one connection, one call, ten seconds | `call`, `connection_timeout` (which purges the queue it called) |
| South watchdog | `capture_watchdog/watchdog.py` | `cam_commands` in a manager shared by two processes; `last_command.cmd`; `_internal_cntr`, `_current_timestamp` | main: replay, `on_rpc_request`, `_process_commands`, `_status`. monitor: `check_timestamp`, `_restart_camera`, `process_IN_CLOSE_WRITE` |
| North pan and tilt controller | `capture_watchdog/pthandler.py`, `ptwatchdog.py`, `fshandler.py` | flags, counters and positions in a manager; a scheduled job | `ptcontrol`, `start`, `stop`, `status`, `_send_to_camera`, `restart_camera` |
| Movers and remover | `src/utils/copyfiles_BB_*.py`, `copyfiles_HTI.py`, `removefiles.py` | the live directory and the archive | `copyfile` every fifteen minutes, the sweep every second |
| Image queue of the GigE-V library | `w32lib/corw32/dynaqueue.c`, `csection.c` (under `teledyne_container/DALSA/src/`) | a ring of image pointers, `dataReady`, a critical section, a condition variable each | `DQueuePost`, `DQueuePostFront`, `DQueuePendEx`; `EnterCriticalSection`, `LeaveCriticalSection` |
| Pleora capture program | `src/using_pleora/src/cuic_gige.cpp` | a device, stream and pipeline per camera; `camlock`; `img_cntr`; files named by counter, suffix and time | `main` (find, connect, start threads, join), `captureImage`, `AcquireImages` |
| Database loaders | `src/utils/savetodb*.py` | a sequence number in Couchbase | one record per closed file |
| supervisord, RabbitMQ, camera | configuration, libraries | process states; queues; frames | external |

How they interact: a controller's command is a message in the watchdog's queue;
the watchdog stores it in the shared dictionary and in a file, passes it on as
an RPC to the capture process's queue and answers; the capture process answers
through its transport, and writes images into the live directory; closing one
wakes the monitor of the watchdog; the monitor wakes every two seconds anyway and
uses supervisord and the same RPC to restart the capture process; mover and
remover empty the live directory at the same time.

What is hard about it, and what makes each part correct:

- *Two threads or processes and no lock* (capture process, watchdog): the
  session's counters must survive decrements, stops and restarts that overlap.
- *Death at any step*: supervisord restarts the capture process, nobody
  restarts the movers; a request must be answered before it is acknowledged, a
  stored command must survive the watchdog, a copy cut short must not replace
  the image.
- *Calls that time out and purge everybody's requests*, answers that come late:
  every request must still be answered.
- *Time*: a camera that delivers must not be restarted, one that is silent must be.
- *Buffers at their limit*: the `AmqpBuffer`, the camera's image buffers, the ring of
  the image queue, the live directory.
- *Waits and their wake-ups*: a lock that others may take between the signal and the woken
  thread, a flag tested outside the mutex of its condition variable.
- *What outlives a program*: a camera that streams on after the program was killed, files
  whose counters start from 0 again.

`PROJECT.json` lists these as hazards, each at its line, with the properties that
would catch it going wrong, and the components with what is left out of each.

## 2. Modules

| Module | Models | Abstract specification |
|---|---|---|
| `Capture` | the capture process, its queue, the camera's engine, restarts | `CaptureSession`: one session at a time, n files for a session of n |
| `Transport` | every handler of `AsioHandler` | `Fifo`: what is accepted goes out once each, in order |
| `Watchdog` | the two processes of `watchdog.py`, with supervisord and the capture process as they see them | `RpcCalls`: a call of `rpc_client.py` ends with the answer to its own request or with a timeout |
| `Mover` | the capture program's writes, `copyfile`, the remover | |
| `PtController` | the north controller: `PTCcontroller`, its RPC handler, the file event | `RpcCalls` |
| `CriticalSection` | `csection.c`, extended by `ImageQueue` | `Section`: one thread inside |
| `ImageQueue` | `dynaqueue.c` with the macros of `dynaqueue.h`, on `CriticalSection` | `BoundedQueue`: in order, at most `Capacity`, drops at the other end or refuses |
| `PleoraCapture` | `cuic_gige.cpp`: main, its capture threads, restarts, cameras and files | |
| `MCCapture`, `MCTransport`, `MCWatchdog`, `MCMover`, `MCPtController`, `MCImageQueue`, `MCPleora` | the values that configurations give to the constants | |
| `CaptureProofs`, `CaptureCounts`, `TransportProofs`, `MoverProofs`, `WatchdogProofs`, `PtProofs`, `PleoraProofs`, `QueueProofs` | theorems | |

An operator whose comment says *mutant* is a variant of the definition after it,
changed as a bug would change the code; `Next` does not use it.  It shows which
property notices that bug.

### Capture

Both threads read and write `MY_CONTEXT`; each access to a field the other
thread writes is a step (the build is `-O0`, `capture_demo/CMakeLists.txt`), so
`capture -= 1` of line 230 is `SvLoad` and `SvStore`, and a stop of line 1077
may come between.  `rp` is the RPC thread's place in `camera_commands`, `sv` the
saver's in `ImageSaveThread`.  `Deliver` takes the one request that `setQos(1)`
lets through, `RpcAccept`, `RpcArm`, `RpcReset`, `RpcGrab` are lines 1083 to
1101, `RpcReply` is `get_status` with `ClearErrorMsgs`, the publish and the ack, which
enter `out`, the transport's queue.  `Flush` passes one on; it waits for
`rp = "idle"` since the handlers share one thread.  `Die` is what the end of the
process does, wherever it comes from: the broker puts the unacknowledged request back in
front.  `FrameArrives`, `StopTransfer`, `SvWait` stand for the GigE-V library
(`gevapi_utils.c`); whether a stop or start drops the waiting images is left open, and a stop may
return an error with the transfer still running.  The cleanup of a kill (line 1044) frees the
buffers while the saver may write from them; `SaverUsesLiveBuffers` says that nothing else does, and
that the RPC thread then does nothing but end the process.  A process whose camera did not open dies
in the status reply, and so does the next, which is given the same request: the loop is in the model,
each death satisfies `CallsSettle`, and only a purge ends it.  Images that are left from an
earlier session are counted in the next (`Conservation` takes them for the session's own).

Left out: the exposure write of lines 1049 to 1067 and camera features (they change
the camera only), the contents of images, a camera handle that the library
invalidates under a running call, a body that is no JSON.

### Transport

One thread runs all handlers, each of them an action.  `outq` is
`_outputBuffer`, `pending` what is in `async_write`, `wire` what the socket
took.  Of the input only counts of bytes are kept: `inbuf` is `_use`, `parsed`
what the library took.  `BufferWrite` is `AmqpBuffer::write`, which cuts off what
does not fit; `ParseData` leaves a part of a frame behind, of any length up to
`MaxFrame - 1`.  `longest` remembers the longest such part.

### Watchdog

`pc["main"]` and `pc["mon"]` are the places of the two processes.  Main:
`Boot` (replay), `Receive`, `Update` (lens and dictionary), `Open` and `Dump`
(`last_command.cmd`, empty between the two), `OrderSent`/`OrderDone` (the command to
the camera), `Ask`/`Asked` (`_status`, two of them), `Reply` (the publish) and `Ack`, or `Replayed`.  Monitor: `MonWake` picks the
case of `check_timestamp`, `MonFirst` to `MonLate` are its tests, `MonRead` and
`MonWrite` the read and the write of line 150.  An image that is closed enters `events`; `MonEvent`
handles it, at any time later, and sets `age` to the image's, which may set it back.  `RestartCamera(t)` is
`restart_camera`, which both run; `RcStop` stops nothing that is stopped or has exited, and the
monitor's `dict(cam_commands)` of line 192 takes one item after the other (`RcItem`, `Item`), with the
dictionary as it is at each.  `Await` is the call of `rpc_client.py`: an
answer, or ten seconds and `Purge`, which empties the camera's queue but for the request
that the capture process holds unacknowledged; if that was the caller's, its answer goes to a
callback queue that is gone with the connection, and the request is "nobody"'s.  `CallOf(t)`
is the state `RpcCalls` gives to t's call.  Of the capture
process the module has its state at supervisord, its queue and the session it
runs; `Executed` is `camera_commands` as `Capture` has it, in one step.  Time
is counted in wake-ups of the monitor, 2 s each: `age` is the time since
`_current_timestamp`, `quiet` the same since an image was closed.  Three
history variables relate commands: `want` is the request stored last, `kept` the one whose command
the file has, each with `touched`, whether the monitor stored a number of images (lines 101 and 150) between the
dictionary's update and the dump, which writes the dictionary; `done` is the last one answered with `OK`.
Assumed: an image is still there when its event is handled, and the broker whenever it is called.

`DecisionsAreDue` is about the monitor's decision (lines 96, 116 and 131), not about `stopProcess` some
steps later: an image closed between the two, or supervisord's own restart, does not keep the process.  The
limit is that of lines 93, 113 and 128, the smaller of 60 s plus the interval and 6 times the interval; the docstrings
give 3 times (lines 73 to 75) and 1.5 times (199 to 201).  The interval is the dictionary's at the decision, so a
command with a shorter one, stored after the last image, may take down a camera that was in time for the one before.
`NothingForgotten` says that the file holds a command as it was sent, but for a number of images that the monitor put there.

### Mover

A file is its place in a sorted listing: images (`Raw`) are the even ones, and each may be preceded by its
`.meta` file (`Meta`), which the watchdog writes when the image was closed.  The remover counts all files and looks at
the first `Batch` of them, but takes images only (`Oldest`), so with `Batch` `.meta` files in front
it takes nothing.  `size[f]` and `copy[f]` are the blocks of an image and of its copy, so two files
differ when these do.  `MvCheck` decides by the copy's name alone (line 49), `MvOpen`
to `MvEnd` are `shutil.copy2`, `MvCompare` the hashes.  Nothing catches an
exception: a file that the other program removed ends the mover (`MvFails`) or
the remover (`RmRemove`).  `early`, `torn` and `dropped` record why an image may be lost.
Left out: a change of the hour between two rounds.

### PtController

`pc["rpc"]` is the place of the thread that serves the controllers' commands
(`on_rpc_request`), `pc["job"]` that of the job the scheduler runs (`ptcontrol`); both may be
inside `_send_to_camera`, `restart_camera` or `status`, and `ret` says where these return to.  `ptc`
is what the two share: the values of the manager (`loop_cntr`, `noimage`, `ready_flag`,
`resend_flag`), `_old_ftime`, the job's state at the scheduler and the number of
positions.  `Count` to `One` are lines 102 to 110 of `ptwatchdog.py`, `StPositions` to
`StSchedule` are `start`, `JobLoop` to `JobStore` lines 321 to 362 of `pthandler.py`; the
decrement of line 361 is a load and a store.  With `"broker"` in `Faults` a call may find no connection:
`SendRaises` and `SendReturnsFalse` are lines 240 to 244, `StRaises` the same in `status`.  Then nothing is sent, and
line 352, which does not look at the result, lets the position be counted all the same; after line 354 `resend_flag`
stays set, and the next turn tries again.  Of the capture process the module keeps whether it runs and
its queue; an image may come whenever it runs.  One that is down and one that is slow look the same to this code.  `Send`, `Await` and `Purge` are the RPC client, as in `Watchdog`.  `total`, `visits`, `foreign` and `order` are history: how
many positions the scan has and has visited, how often the other thread restarted the camera,
what became of the order of an image.
Left out: exposures and the lens's values (whether a command sets them is kept),
positions, the interval, status files, the end of the process, a connection that fails in the middle of a call.

### CriticalSection and ImageQueue

The mutex `pCsMutex` is held throughout a call of `csection.c` but for the wait, so
`EnterFree` or `EnterWait` is a call up to its wait, and each return from `pthread_cond_wait` is `WakeUp`
(of itself) or part of `Leave` (the signal), followed by `RetryObtains` or `RetryWaits`.
A thread that comes along may enter before one that was woken.

`pc[t]` is a thread's place in a call: `post` and `front` are `DQueuePost` and
`DQueuePostFront`, `pend` to `retake` `DQueuePendEx`.  What a call does inside the section,
its `_DQueueSetEvent` and the leaving are one step, as nobody sees the ring between; the two are
apart in the code only for `dataReady`, which is written once there.  `Test`, `WaitForEvent`
and `Verdict` are the three places where `_DQueueWaitForEvent` looks at `dataReady` or begins
to wait, each a step.  `Spurious` is a wake-up without a broadcast.  `mode` is chosen
by `Init` and kept.  A pender in `Forever` gives no timeout.  `BoundedQueue` has the mode too: a full queue drops an element in mode Overwrite only.  `Capture` has the same queue as a
number (`full`); `Queue!Spec`, which `ImageQueue` implements, is what allows that.
Left out: `DQueueDestroy` (the callers that see `valid` cleared), the peeks,
`DeleteCriticalSection`, recursive entry, and `TryEnterCriticalSection`, which nobody calls: its branch
for a section that another thread has returns with `pCsMutex` locked (lines 311 to 320
of `csection.c` have no unlock).

### PleoraCapture

`main` is the main thread's place, `at` its loop index; `pc[d]` is that of the thread of
camera `d`, from `check` (`PvKbHit`) over `AcquireImages` (`lock` to `unlock`) to `getchar`
(`PvGetChar`) and `free`.  `Gone` is what the end of the process does: threads, lock, counters and
unread keys are gone, cameras and files stay.  `owner[d]` is the run that is
connected to the camera and `streaming[d]` whether it sends; `Heartbeat` lets a camera go
whose run is over.  `now` moves with the program's sleeps (`sleep(2)`, `sleep(3)`,
`sleep(8)`, and `sleep(5)` after a start), so two steps may read the same second.  A file is its name and who wrote it;
`Saved` replaces the file of the same name.  `FindDevices` finds all cameras or some of them, and what is promised of
cameras left streaming is promised of those found (`OneAtWork`).  A `Save` may fail and is not looked at; `failed` keeps
the names of the headers that are missing for that reason.  `FindGarbage`, `OpenFails` and `SpawnExits` are the
outcomes of what the code leaves undefined: an interface that was not found (line 429),
a NULL that is dereferenced (lines 367 and 383), `thread_retcode`, which is never assigned (line 408).
Left out: the exposure and the other values of the header; `captureImage` has no `return`,
whose value `pthread_join` ignores.

## 3. Runs

| Run | Instance | What it shows |
|---|---|---|
| `capture_no_stop` | 2 requests of {status, exposure, invalid start, start 1, start 2, kill}, 3 frames, 2 buffers; 225 000 states | types; an acknowledged request was answered (`AckedWasAnswered`); an error is reported for its own command (`ErrorsAnswerTheirCommand`); capture + files = requested at every step (`Conservation`); `CaptureSession` is implemented (`SessionSpec`) |
| `capture_stop` | 2 requests of {stop, start 1, start -1, kill}, 3 frames, 1 buffer; 120 000 states | stops race the saver: capture is at least -2 (`CaptureFloor`), only a kill, which then ends the process, frees the buffers under the saver (`SaverUsesLiveBuffers`); under fairness sessions end, a session without transfer is given up (`WedgeClears`), requests settle |
| `transport` | 4 buffers, 9 bytes, reads of 2, frames up to 7, buffer of 4; 10 000 states | `Fifo` is implemented, no byte lost while waiting parts are no longer than a read (`NothingDropped`), no overflow (`TypeOK`), data is sent or the process ends, a closed connection ends it |
| `watchdog` | 2 commands of {one frame, status}, supervisord may fail, 1 end of the watchdog, 1 event waits; 2.8 M states | the monitor decides to take a running capture process down only when images stayed away for the limit, or an event is not handled yet (`DecisionsAreDue`); a command answered with `OK` survives, as it was sent but for the monitor's own change (`NothingForgotten`); the calls of the two processes implement `RpcCalls` (`CallSpec`) |
| `watchdog_live` | 2 commands of {continuous, stop, kill, status}, the lens may fail; 659 000 states | every request is answered (`RequestsAnswered`); while the dictionary holds a continuous session a silent camera is restarted (`SilenceRestarts`) |
| `watchdog_drift` | 2 commands of {continuous, two frames} | **violated**: the same for the session that was *ordered* (`DriftIsNoticed`) |
| `mover` | 2 images and their `.meta` files, 1 block each, remover keeps 2 files and looks at 2, 1 interruption; 840 000 states | files are lost for three reasons only (`LossHasCause`); an image that the remover takes has newer images, at least half of the files that had to stay (`NewestSurvive`); the directory empties (`LiveEmpties`) |
| `mover_already_moved` | 2 images of 2 blocks | **violated**: "Removing file because it has already been moved" (line 61) |
| `pt` | 2 commands of {scan of two positions, pan and tilt only, the same without positions, endless scan, exposure and status, lens and stop}; the lens, supervisord and the broker may fail; 634 000 states | every position of a finite scan is counted once (`PositionsKept`) and its order was answered, repeated after a restart, or could not be sent (`OrdersRepeated`); while `ready_flag` is cleared a thread is on its way to set it (`ReadyHeld`); the calls of the two threads implement `RpcCalls` (`CallSpec`); a finite scan ends or is stopped (`ScanEnds`), commands are answered unless the lens raises (`CommandsAnswered`), both while calls do not raise again and again |
| `pleora` | 2 cameras with the same suffix, one or both found, saves that may fail, 2 headers, 2 runs, kills at any step; 456 000 states | one camera at a time is at work, of those a run found (`OneAtWork`); an image has its header, if that could be saved (`ImagesAreDescribed`), and is overwritten by a twin's of the same run only (`OnlyTwinsOverwrite`); as many keys as cameras end the program (`KeysEnd`) |
| `image_queue` | 2 posters, 2 penders, a ring of 2, 3 images, both modes; 686 000 states | the section excludes (`SectionSpec`), the ring is a bounded queue (`QueueSpec`), a queued image is taken in the end (`QueueDrains`) |
| `queue_lost_wakeup` | 1 poster, 1 pender without timeout | **violated**: the pender gets what is in the queue (`PendGetsData`) |

*Bounds.*  Two requests are needed and enough for one command to meet the
effects of another (a start and a stop, a failed start and the next); three frames
exceed the largest finite session by one, so a frame that comes too late exists.
Three timeouts in a row are the code's own limit.  Four output buffers allow a write
in flight, one waiting and two more from handlers between; nine bytes fill the
`AmqpBuffer` of four twice over.  Two images and their `.meta` files
are four names: the remover, which keeps two, meets an image first, a `.meta` file first, and two `.meta` files in front
of everything, while the mover is at another file.  `Slack` and `Factor` stand for 60 s and 6; in all runs the two limits
are equal, one wake-up, and `DecisionsHaveCause` covers all other values.  One event that is not handled yet
is enough to set the time back after a restart.  Two commands let one start a scan and the other disturb it.  A scan
of two positions has one before and one behind every restart; `MaxTime` is 1, since the
code only compares `ftimestamp` with 0.  Two cameras let one wait for
the lock of the other, two runs let one start under the cameras of the one before, and two
headers let a name come back after a restart.  Two posters and two penders let one
take the section, or the image, that another was woken for; three images fill the ring of two and one
more.  Deadlock is
checked everywhere but in `transport`, where the process ends for good after `exit(1)`,
in `pt`, whose threads wait for ever once all commands are served
and no scan is scheduled, in `pleora`, where the last run ends, and in `queue_lost_wakeup`,
whose pender waits for ever when no image comes any more.

*Fairness.*  `Capture`: each of the two threads runs (the kernel schedules them;
`GevWaitForNextImage` waits 1000 ms, sleeps are bounded); nothing is assumed of camera,
controllers, purges or supervisord.  `Transport`: the kernel completes or fails
every connect and write, and fails the read of a closed socket.  `Watchdog`: both processes run
(each call has a timeout of ten seconds, each sleep ends); nothing is assumed of
the capture process.  `PtController`: both threads run (the same timeouts; the head reaches
its position, line 273); nothing is assumed of the capture process, supervisord or the broker.
This does not serve rpc beside an endless scan, whose job may hold the camera whenever line 226 looks, once a second;
`CommandsAnswered` is for finite ones.  `Mover`: the scheduler's loop runs; not that anybody restarts
it.  `PleoraCapture`: the main thread
and each capture thread run; `camlock` need not be fair, and nothing is assumed of cameras, keys, kills or
supervisord.  `ImageQueue`: a call that was begun goes on, a timeout passes, and a pender
comes back (the saver's loop); nothing makes an image come, and no thread is woken without
a signal.  All of it is weak fairness.

### Where code and words differ

- `mover_already_moved`: a copy cut short, or one of an image still being written,
  counts as moved; the whole original is removed in the next round.
- `watchdog_drift`: `_internal_cntr` is kept across commands and line 150 (like 98 to 102)
  writes back a count read before: a continuous -1 becomes another number, and
  line 122 then resets the time at every wake-up.
- `queue_lost_wakeup`: `_DQueueWaitForEvent` tests `dataReady` before it takes the mutex (line 103) and
  does not test it again before it waits (line 131, and 120 with a timeout); a post between
  broadcasts to nobody.  `GevGetNextImage` gives a timeout, after which the flag
  is read again, so the saver gets the image late (`QueueDrains`); a call without a timeout, which the function's
  comment allows, waits on beside an image.

Read from the code while modelling, without a run of their own: `_internal_cntr`
counts wake-ups, not frames (line 105), so what line 147 calls the remaining
frames is not; `_status` raises on a call without an answer (line 244), so lines 302 to
306 never restart anything; a stop stored between the read and the write of line 150
is overwritten; of two commands the second may be judged by its shorter interval with the first one's image (line 128); the
docstrings' limits are others than the code's (see Watchdog above); `_replay_prev_command` opens `last_command.cmd` for writing with nothing left
in the queue, so with a second end of the watchdog, in the replay, `NothingForgotten`
does not hold (its run and its statement are for one), and nor does it when a watchdog that ends at
line 290 leaves its command to a successor whose lens then raises (that run has no failing lens); the mover may remove an image
that grows between comparison and removal (`LossHasCause` counts it as `early`).  In the capture process:
after `GevStartImageTransfer` fails (line 1095) `capture` stays set, and the next start is told "Image
capture is already in progress" (line 1109) while no transfer runs, until the saver's third timeout ends the
process (`WedgeClears`); a camera that does not open makes every process die in the status reply, with the
request delivered again each time; and a kill frees the buffers under the saver.  In the north controller: `_old_ftime` is 0 whenever line 302 of `pthandler.py`
reads it, and the file time starts at 1, so the check for a new image that `ptwatchdog.py` line 47 describes passes
always and lines 329 to 335 never run; line 103 of `ptwatchdog.py` clears `noimage` before
line 109 sets it, and a turn of the job in between orders an image nobody asked for; line 354 of `pthandler.py` takes a
second timeout for success, so an order is repeated once only (`OrdersRepeated` says no more); line 352 does not look at
the result at all, so a position whose order raised (lines 240 to 242) is counted with no order sent; each restart
that `set_exposure` or another command of the RPC thread makes sets `resend_flag` and so may
cost a position its image (`PositionsKept` and `OrdersRepeated` allow for them with `foreign`);
a command that sets `loop_cntr` to 0 for a moment (line 102) between lines 359 and 361 lets
the job store -1, an endless scan (`PositionsKept` and `OrdersRepeated` are for one start, and `ScanEnds` excepts what a second one does);
and a lens that raises leaves its request unacknowledged, after which, with a prefetch of
one, no command arrives (`CommandsAnswered` excepts it).

## 4. Proofs

Each theorem holds for every value of the constants that the module's
`ASSUME`s allow: any finite or infinite set of commands, any number of requests,
frames, images, bytes.

| Theorem | Property | Inductive invariant and argument |
|---|---|---|
| `CaptureProofs!TypeCorrect` | `TypeOK` | `TypeInv`: the type invariant and that nullctr is 3 only on the way out; one lemma per thread |
| `CaptureProofs!AcksFollowReplies`, `ErrorsFit`, `KillStays` | `AckedWasAnswered`, `ErrorsAnswerTheirCommand`, `KillNeverLeaves` | `ReplyInv`: the request in execution is the unacknowledged one; the output queue is a reply and its ack, or the ack of a request that was answered; `recent_error` is an error of the request in execution |
| `CaptureProofs!RequestsAdvance` | behind `CallsSettle` | `OwedInv`, on top of `ReplyInv`: outside of `camera_commands` an unacknowledged request has output left, so the last of it is its ack; `Stage` is the distance of each branch from the reply |
| `CaptureCounts!IntervalStays` | `SessionHasInterval` | `IntervalInv`: also the value in the saver's register came from a session with an interval |
| `CaptureCounts!FramesConserved`, `StartsAreExclusive`, `CaptureImplementsSession` | `Conservation`, `StartsWhenDone`, `SessionSpec` | `CountInv`, for `NoStop` (no command has `stop`): the register equals capture between load and store, and the RPC thread writes capture only when it is 0 and no file is in flight; the refinement maps `left` to capture less the file in flight |
| `CaptureCounts!FloorHolds` | `CaptureFloor` | `FloorInv`, for commands that ask for -1 or more: a store follows a test for a positive number, so the register is at least -1 |
| `CaptureCounts!BuffersAlive` | `SaverUsesLiveBuffers` | `BufferInv`, for any commands: the camera is closed by the saver's own cleanup, after which it writes no more, or by that of a kill, after which the RPC thread is at `exit` |
| `CaptureCounts!WedgesShrink` | behind `WedgeClears` | `DoomInv`: a process without saver is one whose camera never opened, and its session is between `RpcArm` and the fault of the reply.  The rank is lexicographic: timeouts counted, frames in the buffers, the saver's place in its loop (`Place`); `IntervalInv` makes each timeout count |
| `CaptureCounts!SessionsShrink` | behind `SessionEnds` | for `NoStop`: timeouts, `capture`, the saver's place between two counted frames (`Lap`); `CountInv` makes the store the decrement of what was loaded |
| `TransportProofs!TransportTypeCorrect`, `WritesAreSingle` | `TypeOK`, `OneWrite` | `WriteInv`: the buffer being written is the head of the queue, nothing is written before the connect |
| `TransportProofs!NothingWaitsUnwritten`, `CloseIsPending`, `ClosedForGood` | behind `DataIsSent`, `CloseEnds` | `WriteInv` and `StreamInv` together: the first buffer not on the wire is in `async_write`.  `CloseInv`: after `_quit` what is pending is the next buffer, so nothing is begun after it |
| `TransportProofs!BytesKept` | `NothingDropped` | `FrameInv`: what waits in the `AmqpBuffer` is at most `longest`, and a read fits behind it |
| `TransportProofs!TransportImplementsFifo` | `FifoSpec` | `StreamInv`: `wire` and the queue together are 1 to n in order |
| `MoverProofs!MoverTypeCorrect`, `NothingElseLost`, `CopiesNeverReopened` | `Mover!TypeOK`, `LossHasCause`, `CopiesStay` | `LossInv`: what is known of the current file at each step of `copyfile`, and that a short copy of a file not being copied has a cause |
| `MoverProofs!RoundsEnd`, `VisitsSettle` | behind `LiveEmpties` | `RoundInv`: nothing is left to visit between rounds, and a file that is compared or removed has a copy.  `Rank` adds the visits left (by the cardinality of `todo`) and the steps left in this one (`Left`) |
| `MoverProofs!RemoverTakesOldest` | `NewestSurvive` | `OldInv`: the live images were created, and every file in the rest of the remover's listing, and every file it dropped, has enough newer files among the created ones, and a created `.meta` file has its image behind it; the listing step needs the cardinality of what is left when the first `Batch` names are taken (`OldestLeavesEnough`), the conclusion that at least half of the newer files are images |
| `WatchdogProofs!WatchdogTypeCorrect` | `TypeOK` | `TypeInv`: the parts of the type invariant, and that main replays a command, never an empty or missing file; one lemma for the environment, for `restart_camera` in either process, for the monitor and for main |
| `WatchdogProofs!DecisionsHaveCause` | `DecisionsAreDue` | `AgeInv`: `age` is at most `quiet` unless an event waits, and then the last that waits is the last image's, so it is right again when all are handled; only the two tests of `check_timestamp` decide on a restart (`WhoReads`) |
| `WatchdogProofs!NoCommandLost` | `NothingForgotten` | `KeptInv`, for `OneEnd` (one end of the watchdog, the lens works), in four parts, and `MatchInv`. `InOrder`: the ids in the queue increase and are above `done`. `AtRequest`: past `Dump` the file holds the request that is served, which is the head of the queue. `AtReplay`: a replay writes back what it read, and there is none before the first end. `FileInv`: a torn file that main is not writing means that the watchdog ended, and that the command that tore it is still at the head of the queue. `MatchInv`: the dictionary until the dump, and the file after it, have the command as it was sent, but for a number of images that the monitor stored (`FileHas`) |
| `WatchdogProofs!WatchdogImplementsCalls` | `CallSpec` | `CallInv`: the camera's queue has at most one request of each of the two processes, and only while it awaits an answer and has none.  One lemma per way to touch the queue (`FromAppend`, `FromTail`, `FromPurge`, `FromNobody`), which give the state `CallOf` before and after |
| `WatchdogProofs!ThreadsAdvance` | behind `RequestsAnswered`, `SilenceRestarts` | `StepsLeft` numbers main's places, a replay above the requests; `Round` the monitor's, by where its restart returns (`ret`).  That both end together comes from `CallInv` |
| `WatchdogProofs!SilenceIsCounted` | behind `SilenceRestarts` | type correctness suffices: without an image, `age` is set back by the end of the monitor's own restart, by an event handled late, and by `MonUnused` (line 122) in a wake-up begun before the session was stored; `MonWake` then finds `cmds` endless |
| `PtProofs!PtTypeCorrect` | `TypeOK` | `TypeInv`: the parts of the type invariant; one lemma per form of a step (`Test`, `Set`, `Enter`, `Send`, `Await`), then one per thread |
| `PtProofs!PositionsCounted` | `PositionsKept` | `ScanQueue`: while there is one scan, it is started once and the job does not run before that. `ScanCount`: the visits are ahead of the count by one at most, and then either the job is between turning and counting or `resend_flag` is set; what is behind is covered by the other thread's restarts. `SendMoves` reduces the fifteen places of `_send_to_camera`, `restart_camera` and `status` to one form |
| `PtProofs!OrdersSettle` | `OrdersRepeated` | On top of `ScanQueue`. `ScanBegin`: a scan without positions is one without images, and when the job is scheduled `resend_flag` is not set. `OrderInv`: what is known of the order at each step of the job's turn (`Placed`): before the call, until the call or its restart failed or the call raised, and after, for the first try and for the repetition; `SendPlaced` goes through the steps of the call, `OrderRpc` shows that rpc disturbs it only by a restart of its own, which `foreign` counts |
| `PtProofs!PtImplementsCalls` | `CallSpec` | as for the watchdog; the steps of a thread are of three forms, as calls nest in restarts and status: `MovesOn`, `CallsOut`, `ComesBack` |
| `PtProofs!ReadyHolds` | `ReadyHeld` | inductive as it stands: each step that clears `ready_flag` enters a place from which it is set, and each that leaves these places sets it |
| `PtProofs!ThreadsAdvance` | behind `CommandsAnswered`, `ScanEnds` | `CallStage` numbers the fifteen places of a call, `RpcStage` and `JobStage` the others; a call lies between where it was made and where it returns (`ret`) |
| `PleoraProofs!PleoraTypes`, `PleoraOneAtWork` | `TypeOK`, `OneAtWork` | `PleoraInv`, of types, `ThreadInv` and `OwnerInv`: main connects to all cameras it found before it starts a thread and `Connect` needs a camera without owner, so while a thread runs each of these belongs to this run or is released; a camera at work is then that of the thread that holds `camlock`, and an orphan at work is one that the run did not find, or means that no thread has been started |
| `PleoraProofs!PleoraDescribes`, `PleoraOverwrites` | `ImagesAreDescribed`, `OnlyTwinsOverwrite` | `FilesInv`, on top of these: a thread between header and image has its header's name in `headers` or, if that Save failed, in `failed`; what a camera wrote in this run has a lower counter than its thread's, what an earlier run wrote has an earlier time |
| `PleoraProofs!PleoraKeys`, `PleoraLock` | behind `KeysEnd` | `KeysSpent`: the keys typed are those unread and one for each thread that has ended, by cardinality; a holder of `camlock` is in the places between lock and unlock (`ThreadInv`) |
| `QueueProofs!SectionExcludes` | `SectionSpec` | `refCount` is 0 or 1, and 0 is the only value from which a thread obtains the section: no fact about the sleepers is needed |
| `QueueProofs!NobodyOversleeps` | behind `QueueDrains` | `WaitInv`: `waitCount` is the number of sleeping and woken threads; who waits or holds is in a call that leaves the section, and not both; while somebody sleeps the section is held or somebody was woken.  A leaving thread signals iff `waitCount` is above 0, so the count has to be exact |
| `QueueProofs!FlagKept` | behind `QueueDrains` | `FlagTells` with `QueueInv`: posting sets `dataReady`, and only a pend that finds the ring empty clears it |
| `QueueProofs!QueueTypes`, `RingImplementsQueue` | `TypeOK`, `QueueSpec` | `QueueInv`: head and tail are slots, `DataLevel` is at most `Capacity`, a thread that posts has an image; `Contents` of the ring after each of `Push`, `PushFront`, `Pop` and `Dec(head)` as a sequence (one lemma each, by cases of the wrap) |

Every invariant and action property of the passing runs is proved, and so is every refinement, under
the hypotheses the table names.  `KillNeverLeaves`, `SessionHasInterval`, `StartsWhenDone`, `OneWrite`,
`CopiesStay` and the statements that the proof modules define are proved and not listed with a run.

Only model-checked is what holds under fairness, since the prover has no liveness under fairness
and no `ENABLED` here.  For most of it the part that is about safety is proved: that nothing which was
counted or done is taken back, that each step of the thread in question lowers a rank, and that someone is
there to take the step.

| Under fairness, model-checked | Its safety part, proved | What stays with TLC |
|---|---|---|
| `CallsSettle` | `RequestsAdvance`: the ack is due or the command executes; each step lowers the stage or the output | that a rank which falls reaches its end; requests further back in the queue |
| `WedgeClears`, `SessionEnds` | `WedgesShrink`, `SessionsShrink` (the latter without stop commands) | the same; `SessionEnds` with stops |
| `DataIsSent`, `CloseEnds` | `NothingWaitsUnwritten`, `CloseIsPending`, `ClosedForGood` | that a write completes or fails |
| `LiveEmpties` | `RoundsEnd`, `VisitsSettle` | that the next round comes and visits the image again |
| `RequestsAnswered`, `SilenceRestarts` | `WatchdogProofs!ThreadsAdvance`, `SilenceIsCounted` | that the timer fires again and again, and that a time which grows reaches the limit |
| `CommandsAnswered`, `ScanEnds` | `PtProofs!ThreadsAdvance`, `ReadyHolds`, `PositionsCounted` | that one thread's waiting for `ready_flag` ends, that turns come |
| `KeysEnd` | `PleoraKeys`, `PleoraLock` | that the threads read the keys |
| `QueueDrains` | `FlagKept`, `NobodyOversleeps` | that the pender's timeout ends |

## 5. Not modelled, and the plan

Done, in this order: `Capture`, `Mover`, `Transport`, `Watchdog`, `PtController`, `PleoraCapture`,
`ImageQueue`, `RpcCalls`.  What is left, most useful first:

1. A theorem: `SessionEnds` with stop commands, whose rank has to count the requests to come.
2. `SilenceRestarts` in a run with supervisord's FATAL state, in which `startProcess` is never called.

*Hazards without a property.*  An image that the camera overwrites while it is saved (line 225 of
`genicam_cpp_demo.cpp`) needs the order in which the packet engine reuses buffers, and
that is a binary.  Stale images of an earlier session (line 1094) and the redelivery to a process whose
camera does not open (line 1016) are in `Capture`, the short interval of line 128 of `watchdog.py` in `Watchdog`, a
second start between lines 359 and 361 of `pthandler.py` in `PtController`, a remover that finds
`.meta` files only (line 9 of `removefiles.py`) in `Mover`: the code does these things, and the properties allow
for them as their comments say.  The FATAL state of supervisord is configuration of a program outside
this repository.  The number that `savetodbBB.py` reads and replaces in three calls (lines 44 on) is the
whole of that program: the property would restate the three lines.

*Size.*  Nearly all lines of the repository are third-party text (json.hpp twice, spdlog with fmt,
miniz, the GigE-V framework with its register tables, GenICam bindings and X display
utilities).  Of that only the part the capture process runs through is modelled: the
transfer and the image queue.  The programs written for this project are small, and the modules cover
their control.

Left out for good: image registration and analysis (`register.py`, `uo_tools.py`,
`extractTemp.py`: arithmetic on images), loggers, transfer scripts, sample programs,
`cuic.cpp` and `config.cpp` (earlier programs for one camera), and the vendored code named above.
