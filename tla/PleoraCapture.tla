--------------------------- MODULE PleoraCapture ---------------------------
(***************************************************************************)
(* The older capture program, using_pleora/src/cuic_gige.cpp: main opens   *)
(* the cameras of eth0 one by one and starts a thread for each.  A thread  *)
(* (captureImage) writes the header of its next image, waits for camlock,  *)
(* streams one image from its camera (AcquireImages) and saves it; a key   *)
(* on the terminal ends one thread.  supervisord starts the program again  *)
(* whenever it ends (autorestart=true).                                    *)
(*                                                                         *)
(* The cameras outlive the program: what it left connected or streaming    *)
(* stays so until the camera's heartbeat times out.  A NULL device or      *)
(* stream is dereferenced (lines 367 and 383), which ends the program; so  *)
(* may the test of thread_retcode, which is never assigned (line 408).     *)
(* The clock moves with the sleeps of the program and is read in seconds:  *)
(* two steps with no sleep between them may read the same time.  It is     *)
(* assumed never to be set back.                                           *)
(***************************************************************************)
EXTENDS Integers, FiniteSets

CONSTANTS N,          \* cameras on the network
          Suffix,     \* the last two characters of each camera's MAC address
          MaxHeaders, \* bound: headers in BASEPATH when another is begun
          MaxRuns     \* bound: how often the program runs

ASSUME PleoraAssumption ==
  /\ N \in Nat \ {0} /\ MaxHeaders \in Nat /\ MaxRuns \in Nat \ {0}
  /\ Suffix \in [1..N -> STRING]

Devices   == 1..N
Free      == 0
Threads   == {"none", "check", "lock", "start", "retrieve", "store", "release",
              "halt", "unlock", "sleep", "getchar", "free", "done"}
Mains     == {"find", "connect", "open", "spawn", "join", "ended", "dead"}

VARIABLES
  main, found, todo,    \* the main thread, the cameras that this run found,
                        \* and those its loop has not come to
  run,                  \* which run of the program this is
  pc, cntr, stamp,      \* each thread: step, img_cntr, timestamp
  pipe, held,           \* its pipeline; is a buffer retrieved from it?
  camlock,              \* the thread that holds it, or Free
  owner, streaming,     \* each camera: the run connected to it; is it sending?
  typed, keys,          \* keys typed in this run, and those not read yet
  now, headers, images, \* the clock and the files in BASEPATH
  failed                \* history: names whose header could not be saved

program == <<main, found, todo, run>>
threads == <<pc, cntr, stamp>>
buffers == <<pipe, held>>
cameras == <<owner, streaming>>
input   == <<typed, keys>>
files   == <<headers, images, failed>>
vars    == <<program, threads, buffers, camlock, cameras, input, now,
             files>>

Alive == main \notin {"ended", "dead"}

\* A camera that the running program is not connected to, but that still
\* belongs to a run before.
Orphan(d) == owner[d] # 0 /\ (owner[d] # run \/ ~Alive)

-----------------------------------------------------------------------------
(* Files: both names are made of the counter, the suffix and the timestamp. *)

Name(f) == <<f.cntr, f.suffix, f.stamp>>
Header(d, time) == [cntr |-> cntr[d], suffix |-> Suffix[d], stamp |-> time]
Image(d) == [cntr |-> cntr[d], suffix |-> Suffix[d], stamp |-> stamp[d],
             run |-> run, by |-> d]
Saved(fs, f) == {g \in fs : Name(g) # Name(f)} \union {f}

-----------------------------------------------------------------------------
(* Main.                                                                    *)

\* The process is gone, with its threads, its lock, its counters and the keys
\* it did not read; the cameras stay.
Gone(how) ==
  /\ main' = how /\ found' = {} /\ todo' = {}
  /\ pc' = [d \in Devices |-> "none"] /\ camlock' = Free
  /\ cntr' = [d \in Devices |-> 0] /\ stamp' = [d \in Devices |-> 0]
  /\ pipe' = [d \in Devices |-> "none"] /\ held' = [d \in Devices |-> FALSE]
  /\ typed' = 0 /\ keys' = 0
  /\ UNCHANGED <<run, cameras, now, files>>

\* findInterface fails, or leaves its result unset: nothing to do, or an
\* interface that does not exist.
FindNothing == main = "find" /\ Gone("ended")
FindGarbage == main = "find" /\ Gone("dead")

\* The cameras that answer the discovery: all of them, or fewer.
FindDevices ==
  /\ main = "find"
  /\ main' = "connect"
  /\ found' \in SUBSET Devices \ {{}} /\ todo' = found'
  /\ UNCHANGED <<run, threads, buffers, camlock, cameras, input, now, files>>

\* The camera whose turn it is in a loop over those found.
Turn(d) == d \in todo /\ \A e \in todo : d <= e

ConnectAnyway(d) ==   \* mutant: connects to a camera of another run
  /\ main = "connect" /\ Turn(d)
  /\ main' = "open" /\ owner' = [owner EXCEPT ![d] = run]
  /\ UNCHANGED <<found, todo, run, threads, buffers, camlock, streaming, input,
                 now, files>>

\* CreateAndConnect: a camera has one controlling application.
Connect(d) ==
  /\ main = "connect" /\ Turn(d) /\ owner[d] = 0
  /\ main' = "open" /\ owner' = [owner EXCEPT ![d] = run]
  /\ UNCHANGED <<found, todo, run, threads, buffers, camlock, streaming, input,
                 now, files>>

\* It, or CreateAndOpen, returned NULL.
OpenFails == main \in {"connect", "open"} /\ Gone("dead")

OpenStream(d) ==
  /\ main = "open" /\ Turn(d)
  /\ pipe' = [pipe EXCEPT ![d] = "stopped"]
  /\ IF todo = {d} THEN main' = "spawn" /\ todo' = found
                   ELSE main' = "connect" /\ todo' = todo \ {d}
  /\ UNCHANGED <<found, run, threads, held, camlock, cameras, input, now,
                 files>>

\* pthread_create, and the sleep(3) after it.
Spawn(d) ==
  /\ main = "spawn" /\ Turn(d)
  /\ pc' = [pc EXCEPT ![d] = "check"] /\ now' = now + 1
  /\ main' = (IF todo = {d} THEN "join" ELSE main) /\ todo' = todo \ {d}
  /\ UNCHANGED <<found, run, cntr, stamp, buffers, camlock, cameras, input,
                 files>>

SpawnExits == main = "spawn" /\ Gone("dead")

Join == main = "join" /\ (\A d \in found : pc[d] = "done") /\ Gone("ended")

-----------------------------------------------------------------------------
(* The threads.                                                             *)

Goto(d, from, to) == pc[d] = from /\ pc' = [pc EXCEPT ![d] = to]

\* The thread goes on to the lock whatever Save returned.
SaveHeader(d, header) ==
  /\ keys = 0 /\ Cardinality(headers) + Cardinality(failed) < MaxHeaders
  /\ Goto(d, "check", "lock")
  /\ stamp' = [stamp EXCEPT ![d] = header.stamp]
  /\ \/ headers' = Saved(headers, header) /\ failed' = failed
     \/ headers' = headers /\ failed' = failed \union {Name(header)}
  /\ UNCHANGED <<program, cntr, buffers, camlock, cameras, input, now, images>>

DescribeUndated(d) ==   \* mutant: the names carry no time
  SaveHeader(d, Header(d, 0))

DescribeLate(d) ==  \* mutant: the counter moves before the header
  SaveHeader(d, [Header(d, now) EXCEPT !.cntr = @ + 1])

\* No key: the header is saved under the time of now, before the thread asks
\* for the lock.
Describe(d) == SaveHeader(d, Header(d, now))

SeeKey(d) ==
  /\ keys > 0 /\ Goto(d, "check", "getchar")
  /\ UNCHANGED <<program, cntr, stamp, buffers, camlock, cameras, input, now,
                 files>>

Lock(d) ==
  /\ camlock = Free
  /\ Goto(d, "lock", "start") /\ camlock' = d
  /\ UNCHANGED <<program, cntr, stamp, buffers, cameras, input, now, files>>

\* Pipeline->Start, StreamEnable, AcquisitionStart, sleep(2).
StartStream(d) ==
  /\ Goto(d, "start", "retrieve")
  /\ pipe' = [pipe EXCEPT ![d] = "running"]
  /\ streaming' = [streaming EXCEPT ![d] = TRUE] /\ now' = now + 1
  /\ UNCHANGED <<program, cntr, stamp, held, camlock, owner, input, files>>

\* RetrieveNextBuffer: an image, a buffer without one, or the timeout.
Retrieve(d) ==
  /\ \/ Goto(d, "retrieve", "store") /\ held' = [held EXCEPT ![d] = TRUE]
     \/ Goto(d, "retrieve", "release") /\ held' = [held EXCEPT ![d] = TRUE]
     \/ Goto(d, "retrieve", "halt") /\ held' = held
  /\ UNCHANGED <<program, cntr, stamp, pipe, camlock, cameras, input, now,
                 files>>

\* The image is saved, or is not: the result is not looked at.
Store(d) ==
  /\ Goto(d, "store", "release")
  /\ images' \in {Saved(images, Image(d)), images}
  /\ UNCHANGED <<program, cntr, stamp, buffers, camlock, cameras, input, now,
                 headers, failed>>

ReleaseBuffer(d) ==
  /\ Goto(d, "release", "halt") /\ held' = [held EXCEPT ![d] = FALSE]
  /\ UNCHANGED <<program, cntr, stamp, pipe, camlock, cameras, input, now,
                 files>>

\* AcquisitionStop, StreamDisable, Pipeline->Stop.
StopStream(d) ==
  /\ Goto(d, "halt", "unlock")
  /\ streaming' = [streaming EXCEPT ![d] = FALSE]
  /\ pipe' = [pipe EXCEPT ![d] = "stopped"]
  /\ UNCHANGED <<program, cntr, stamp, held, camlock, owner, input, now,
                 files>>

Unlock(d) ==
  /\ Goto(d, "unlock", "sleep") /\ camlock' = Free
  /\ UNCHANGED <<program, cntr, stamp, buffers, cameras, input, now, files>>

\* sleep(8), img_cntr++; timestamp is local to the turn of the loop.
Sleep(d) ==
  /\ Goto(d, "sleep", "check")
  /\ now' = now + 1 /\ cntr' = [cntr EXCEPT ![d] = @ + 1]
  /\ stamp' = [stamp EXCEPT ![d] = 0]
  /\ UNCHANGED <<program, buffers, camlock, cameras, input, files>>

GetCharAtOnce(d) ==   \* mutant: does not wait for a key
  /\ Goto(d, "getchar", "free") /\ keys' = keys - 1
  /\ UNCHANGED <<program, cntr, stamp, buffers, camlock, cameras, typed, now,
                 files>>

GetCharAll(d) ==   \* mutant: takes every key that was typed
  /\ keys > 0 /\ Goto(d, "getchar", "free") /\ keys' = 0
  /\ UNCHANGED <<program, cntr, stamp, buffers, camlock, cameras, typed, now,
                 files>>

\* PvGetChar waits for a key: the one seen may have been taken meanwhile.
GetChar(d) ==
  /\ keys > 0 /\ Goto(d, "getchar", "free") /\ keys' = keys - 1
  /\ UNCHANGED <<program, cntr, stamp, buffers, camlock, cameras, typed, now,
                 files>>

\* delete Pipeline, close the stream, disconnect the camera.
Release(d) ==
  /\ Goto(d, "free", "done")
  /\ pipe' = [pipe EXCEPT ![d] = "none"] /\ owner' = [owner EXCEPT ![d] = 0]
  /\ UNCHANGED <<program, cntr, stamp, held, camlock, streaming, input, now,
                 files>>

-----------------------------------------------------------------------------
(* The environment: supervisord, the cameras and the terminal.              *)

\* A signal, or a fault in the SDK.
Killed == Alive /\ Gone("dead")

Restart ==
  /\ ~Alive /\ run < MaxRuns
  /\ main' = "find" /\ run' = run + 1 /\ now' = now + 1
  /\ UNCHANGED <<found, todo, threads, buffers, camlock, cameras, input,
                 files>>

\* A camera that hears nothing from its application stops and is free again.
Heartbeat(d) ==
  /\ Orphan(d)
  /\ owner' = [owner EXCEPT ![d] = 0]
  /\ streaming' = [streaming EXCEPT ![d] = FALSE]
  /\ UNCHANGED <<program, threads, buffers, camlock, input, now, files>>

TypeKey ==
  /\ Alive /\ typed < N
  /\ typed' = typed + 1 /\ keys' = keys + 1
  /\ UNCHANGED <<program, threads, buffers, camlock, cameras, now, files>>

Init ==
  /\ main = "find" /\ found = {} /\ todo = {} /\ run = 1
  /\ pc = [d \in Devices |-> "none"] /\ cntr = [d \in Devices |-> 0]
  /\ stamp = [d \in Devices |-> 0]
  /\ pipe = [d \in Devices |-> "none"] /\ held = [d \in Devices |-> FALSE]
  /\ camlock = Free
  /\ owner = [d \in Devices |-> 0] /\ streaming = [d \in Devices |-> FALSE]
  /\ typed = 0 /\ keys = 0 /\ now = 0 /\ headers = {} /\ images = {}
  /\ failed = {}

MainThread ==
  \/ FindNothing \/ FindGarbage \/ FindDevices \/ OpenFails \/ SpawnExits
  \/ Join
  \/ \E d \in Devices : Connect(d) \/ OpenStream(d) \/ Spawn(d)

Acquire(d) ==
  \/ Lock(d) \/ StartStream(d) \/ Retrieve(d) \/ Store(d)
  \/ ReleaseBuffer(d) \/ StopStream(d) \/ Unlock(d)

CaptureThread(d) ==
  \/ Describe(d) \/ SeeKey(d) \/ Acquire(d) \/ Sleep(d) \/ GetChar(d)
  \/ Release(d)

Environment == Killed \/ Restart \/ TypeKey \/ \E d \in Devices : Heartbeat(d)

Next == MainThread \/ (\E d \in Devices : CaptureThread(d)) \/ Environment

Spec == Init /\ [][Next]_vars

\* The program's threads are scheduled.  camlock need not be fair, and no
\* camera, key or supervisord is obliged to do anything.
Fairness ==
  /\ WF_vars(MainThread)
  /\ \A d \in Devices : WF_vars(CaptureThread(d))
FairSpec == Spec /\ Fairness

-----------------------------------------------------------------------------
(* Properties.                                                              *)

Headers == [cntr : Nat, suffix : STRING, stamp : Nat]
ImageFiles == [cntr : Nat, suffix : STRING, stamp : Nat, run : Nat,
               by : Devices]

Names == Nat \X STRING \X Nat

\* The type of the state.
TypeOK ==
  /\ main \in Mains /\ found \subseteq Devices /\ todo \subseteq found
  /\ run \in 1..MaxRuns
  /\ pc \in [Devices -> Threads]
  /\ cntr \in [Devices -> Nat] /\ stamp \in [Devices -> Nat]
  /\ pipe \in [Devices -> {"none", "stopped", "running"}]
  /\ held \in [Devices -> BOOLEAN]
  /\ camlock \in Devices \union {Free}
  /\ owner \in [Devices -> 0..MaxRuns]
  /\ streaming \in [Devices -> BOOLEAN]
  /\ typed \in Nat /\ keys \in Nat /\ now \in Nat
  /\ headers \subseteq Headers /\ images \subseteq ImageFiles
  /\ failed \subseteq Names

\* A camera is at work while it streams, its pipeline runs or a buffer is out.
AtWork(d) == streaming[d] \/ pipe[d] = "running" \/ held[d]

\* One camera at a time: of those that the running program holds at most one
\* is at work, and none while camlock is free, so every way through
\* AcquireImages undoes what it did.  A camera left streaming by a run before
\* is no exception if this run found it: no thread starts before that camera
\* has stopped.  One that this run did not find may still send beside it.
OneAtWork ==
  /\ \A d, e \in Devices :
       AtWork(d) /\ AtWork(e) => d = e \/ Orphan(d) \/ Orphan(e)
  /\ camlock = Free => \A d \in Devices : AtWork(d) => Orphan(d)
  /\ main \in {"spawn", "join"} => \A d \in found : ~Orphan(d)

\* Every image has the header that goes with it, unless that header could not
\* be saved: although it is written before the wait for the lock, under a name
\* made separately, and a twin may have replaced either.
ImagesAreDescribed ==
  \A i \in images :
    Name(i) \in failed \/ \E h \in headers : Name(h) = Name(i)

\* An image is only ever lost to that of a twin in the same run, another
\* camera whose MAC address ends in the same characters: not to a later run,
\* although each run counts from 0 again.
OnlyTwinsOverwrite ==
  [][\A i \in images \ images' : \E j \in images' :
        Name(j) = Name(i) /\ j.by # i.by /\ j.run = i.run]_vars

\* Once as many keys were typed as the run has cameras, the program ends, each
\* thread by a key of its own: a key that two threads have seen, and one of
\* them has taken, keeps neither from ending.
KeysEnd == (found # {} /\ typed >= Cardinality(found)) ~> ~Alive
=============================================================================
