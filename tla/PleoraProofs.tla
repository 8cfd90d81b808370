---------------------------- MODULE PleoraProofs ----------------------------
(* Proofs about PleoraCapture, for any number of cameras, images and runs.   *)
EXTENDS PleoraCapture, FiniteSetTheorems, TLAPS

Streams == {"retrieve", "store", "release", "halt"}
Holds   == Streams \union {"start", "unlock"}

\* A thread inside AcquireImages holds camlock, and only there is its
\* pipeline running, a buffer out, or its camera sending.
ThreadInv ==
  \A d \in Devices :
    /\ pc[d] \in Holds <=> camlock = d
    /\ pipe[d] = "running" => pc[d] \in Streams
    /\ held[d] => pc[d] \in {"store", "release"}
    /\ streaming[d] => pc[d] \in Streams \/ Orphan(d)

\* A camera with a thread belongs to this run, and while threads exist no
\* camera that the run found belongs to a run before.
OwnerInv ==
  /\ \A d \in Devices :
       /\ owner[d] <= run
       /\ pc[d] # "none" => main \in {"spawn", "join"} /\ d \in found
       /\ pc[d] \notin {"none", "done"} => owner[d] = run
       /\ main \in {"connect", "open"} /\ d \in found \ todo => owner[d] = run
       /\ main = "open" /\ Turn(d) => owner[d] = run
       /\ main = "spawn" /\ d \in todo => owner[d] = run /\ pc[d] = "none"
       /\ main \in {"spawn", "join"} /\ d \in found => owner[d] \in {0, run}

\* OneAtWork follows from these, and they are inductive together.
PleoraInv == TypeOK /\ ThreadInv /\ OwnerInv

LEMMA TypeInit == Init => TypeOK
  BY PleoraAssumption DEF Init, TypeOK, Devices, Free, Mains, Threads

\* The image and the header that are saved are of their types.
LEMMA RecordTypes ==
  ASSUME TypeOK, NEW d \in Devices
  PROVE  Header(d, now) \in Headers /\ Image(d) \in ImageFiles
  BY PleoraAssumption DEF TypeOK, Header, Image, Headers, ImageFiles, Devices

LEMMA GoneTypes ==
  ASSUME TypeOK, NEW how \in {"ended", "dead"}, Gone(how)
  PROVE  TypeOK'
  BY PleoraAssumption
  DEF Gone, TypeOK, Devices, Free, Mains, Threads, cameras, files

LEMMA TypeMain == TypeOK /\ MainThread => TypeOK'
<1> SUFFICES ASSUME TypeOK, MainThread
             PROVE  TypeOK'
  OBVIOUS
<1> USE DEF TypeOK, Mains, Threads, program, threads, buffers, cameras, input,
            files
<1>1. CASE FindNothing \/ FindGarbage \/ OpenFails \/ SpawnExits \/ Join
  BY <1>1, GoneTypes DEF FindNothing, FindGarbage, OpenFails, SpawnExits, Join
<1>2. CASE FindDevices
  BY <1>2 DEF FindDevices
<1>3. ASSUME NEW d \in Devices, Connect(d)
      PROVE  TypeOK'
  BY <1>3 DEF Connect
<1>4. ASSUME NEW d \in Devices, OpenStream(d)
      PROVE  TypeOK'
  <2>1. main' \in Mains /\ found' \subseteq Devices /\ todo' \subseteq found'
    BY <1>4 DEF OpenStream
  <2>2. pipe' \in [Devices -> {"none", "stopped", "running"}]
    BY <1>4 DEF OpenStream
  <2> QED
    BY <1>4, <2>1, <2>2 DEF OpenStream
<1>5. ASSUME NEW d \in Devices, Spawn(d)
      PROVE  TypeOK'
  <2>1. main' \in Mains /\ found' \subseteq Devices /\ todo' \subseteq found'
    BY <1>5 DEF Spawn
  <2>2. pc' \in [Devices -> Threads]
    BY <1>5 DEF Spawn
  <2> QED
    BY <1>5, <2>1, <2>2 DEF Spawn
<1> QED
  BY <1>1, <1>2, <1>3, <1>4, <1>5 DEF MainThread

LEMMA TypeThread ==
  ASSUME TypeOK, NEW d \in Devices, CaptureThread(d)
  PROVE  TypeOK'
<1> USE DEF TypeOK, Mains, Threads, program, threads, buffers, cameras, input,
            files, Goto, Free
<1>1. CASE Describe(d)
  <2>1. headers' \subseteq Headers
    BY <1>1, RecordTypes DEF Describe, SaveHeader, Saved
  <2>2. Name(Header(d, now)) \in Names
    BY PleoraAssumption DEF Name, Names, Header, Devices
  <2>3. failed' \subseteq Names
    BY <1>1, <2>2 DEF Describe, SaveHeader
  <2>4. stamp' \in [Devices -> Nat]
    BY <1>1 DEF Describe, SaveHeader, Header
  <2> QED
    BY <1>1, <2>1, <2>3, <2>4 DEF Describe, SaveHeader
<1>2. CASE SeeKey(d)
  BY <1>2 DEF SeeKey
<1>3. CASE Lock(d)
  BY <1>3 DEF Lock
<1>4. CASE StartStream(d)
  BY <1>4 DEF StartStream
<1>5. CASE Retrieve(d)
  BY <1>5 DEF Retrieve
<1>6. CASE Store(d)
  <2>1. images' \subseteq ImageFiles
    BY <1>6, RecordTypes DEF Store, Saved
  <2> QED
    BY <1>6, <2>1 DEF Store
<1>7. CASE ReleaseBuffer(d)
  BY <1>7 DEF ReleaseBuffer
<1>8. CASE StopStream(d)
  BY <1>8 DEF StopStream
<1>9. CASE Unlock(d)
  BY <1>9 DEF Unlock
<1>10. CASE Sleep(d)
  BY <1>10 DEF Sleep
<1>11. CASE GetChar(d)
  BY <1>11 DEF GetChar
<1>12. CASE Release(d)
  BY <1>12, PleoraAssumption DEF Release
<1> QED
  BY <1>1, <1>2, <1>3, <1>4, <1>5, <1>6, <1>7, <1>8, <1>9, <1>10, <1>11, <1>12
  DEF CaptureThread, Acquire

LEMMA TypeEnvironment == TypeOK /\ Environment => TypeOK'
<1> SUFFICES ASSUME TypeOK, Environment
             PROVE  TypeOK'
  OBVIOUS
<1> USE DEF TypeOK, Mains, Threads, program, threads, buffers, cameras, input,
            files
<1>1. CASE Killed
  BY <1>1, GoneTypes DEF Killed
<1>2. CASE Restart
  BY <1>2, PleoraAssumption DEF Restart
<1>3. CASE TypeKey
  BY <1>3 DEF TypeKey
<1>4. ASSUME NEW d \in Devices, Heartbeat(d)
      PROVE  TypeOK'
  BY <1>4, PleoraAssumption DEF Heartbeat
<1> QED
  BY <1>1, <1>2, <1>3, <1>4 DEF Environment

\* The state keeps its type in every step of the program, its cameras and
\* its supervisor.
LEMMA TypeStep == TypeOK /\ [Next]_vars => TypeOK'
<1>1. ASSUME TypeOK, UNCHANGED vars
      PROVE  TypeOK'
  BY <1>1 DEF TypeOK, vars, program, threads, buffers, cameras, input, files
<1> QED
  BY <1>1, TypeMain, TypeThread, TypeEnvironment DEF Next

\* PleoraCapture keeps the types of its state (all of cuic_gige.cpp).
THEOREM PleoraTypes == Spec => []TypeOK
  BY TypeInit, TypeStep, PTL DEF Spec

-----------------------------------------------------------------------------

LEMMA InvInit == Init => PleoraInv
  BY TypeInit, PleoraAssumption
  DEF Init, PleoraInv, ThreadInv, OwnerInv, Devices, Holds, Streams,
      Free, Orphan, Alive

LEMMA InvGone ==
  ASSUME PleoraInv, Alive, NEW how \in {"ended", "dead"}, Gone(how)
  PROVE  PleoraInv'
<1> USE PleoraAssumption DEF PleoraInv, Devices, cameras, files
<1>1. TypeOK'
  BY GoneTypes
<1>2. ThreadInv'
  <2>1. \A d \in Devices : streaming[d] => owner[d] # 0
    <3>1. SUFFICES ASSUME NEW d \in Devices, streaming[d]
                   PROVE  owner[d] # 0
      OBVIOUS
    <3>2. CASE Orphan(d)
      BY <3>2 DEF Orphan
    <3>3. CASE pc[d] \in Streams
      <4>1. owner[d] = run
        BY <3>3 DEF OwnerInv, Streams
      <4>2. run # 0
        BY DEF TypeOK
      <4> QED
        BY <4>1, <4>2
    <3> QED
      BY <3>1, <3>2, <3>3 DEF ThreadInv
  <2>2. \A d \in Devices : pc'[d] = "none" /\ pipe'[d] = "none" /\ ~held'[d]
    BY DEF Gone
  <2>3. camlock' = Free /\ owner' = owner /\ streaming' = streaming /\ ~Alive'
    BY DEF Gone, Alive
  <2>4. \A d \in Devices : Free # d
    BY DEF Free
  <2> QED
    BY <2>1, <2>2, <2>3, <2>4 DEF ThreadInv, Orphan, Holds, Streams
<1>3. OwnerInv'
  BY DEF OwnerInv, Gone, TypeOK
<1> QED
  BY <1>1, <1>2, <1>3

LEMMA InvMain == PleoraInv /\ MainThread => PleoraInv'
<1> SUFFICES ASSUME PleoraInv, MainThread
             PROVE  PleoraInv'
  OBVIOUS
<1>0. TypeOK'
  BY TypeMain DEF PleoraInv
<1> USE PleoraAssumption DEF Devices, program, threads, buffers, cameras,
                             input, files
<1>1. CASE FindNothing \/ FindGarbage \/ OpenFails \/ SpawnExits \/ Join
  BY <1>1, InvGone
  DEF FindNothing, FindGarbage, OpenFails, SpawnExits, Join, Alive
<1>2. CASE FindDevices
  <2>1. ThreadInv'
    BY <1>2 DEF FindDevices, PleoraInv, ThreadInv, TypeOK, Orphan, Alive
  <2>2. OwnerInv'
    BY <1>2 DEF FindDevices, PleoraInv, OwnerInv, Turn, TypeOK
  <2> QED
    BY <1>0, <1>2, <2>1, <2>2 DEF PleoraInv
<1>3. ASSUME NEW d \in Devices, Connect(d)
      PROVE  PleoraInv'
  <2>1. ThreadInv'
    BY <1>3 DEF Connect, PleoraInv, ThreadInv, OwnerInv, TypeOK, Orphan, Alive
  <2>2. OwnerInv'
    BY <1>3 DEF Connect, PleoraInv, OwnerInv, Turn, TypeOK
  <2> QED
    BY <1>0, <2>1, <2>2 DEF PleoraInv
<1>4. ASSUME NEW d \in Devices, OpenStream(d)
      PROVE  PleoraInv'
  <2>1. ThreadInv'
    BY <1>4 DEF OpenStream, PleoraInv, ThreadInv, TypeOK, Orphan, Alive
  <2>2. OwnerInv'
    <3>1. CASE todo = {d}
      BY <1>4, <3>1 DEF OpenStream, PleoraInv, OwnerInv, Turn, TypeOK
    <3>2. CASE todo # {d}
      BY <1>4, <3>2 DEF OpenStream, PleoraInv, OwnerInv, Turn, TypeOK
    <3> QED
      BY <3>1, <3>2
  <2> QED
    BY <1>0, <2>1, <2>2 DEF PleoraInv
<1>5. ASSUME NEW d \in Devices, Spawn(d)
      PROVE  PleoraInv'
  <2>1. ThreadInv'
    BY <1>5 DEF Spawn, Turn, PleoraInv, ThreadInv, OwnerInv, TypeOK, Orphan,
                Alive, Holds, Streams
  <2>2. OwnerInv'
    BY <1>5 DEF Spawn, PleoraInv, OwnerInv, Turn, TypeOK
  <2> QED
    BY <1>0, <2>1, <2>2 DEF PleoraInv
<1> QED
  BY <1>1, <1>2, <1>3, <1>4, <1>5 DEF MainThread

LEMMA InvThread ==
  ASSUME PleoraInv, NEW d \in Devices, CaptureThread(d)
  PROVE  PleoraInv'
<1>0. TypeOK'
  BY TypeThread DEF PleoraInv
<1> USE PleoraAssumption DEF Devices, program, threads, buffers, cameras,
                             input, files,
                             Goto, Free, Alive, Orphan
<1>1. CASE Describe(d)
  <2>1. ThreadInv'
    BY <1>1 DEF Describe, SaveHeader, PleoraInv, ThreadInv, TypeOK, Holds,
                Streams
  <2>2. OwnerInv'
    BY <1>1 DEF Describe, SaveHeader, PleoraInv, OwnerInv, Turn, TypeOK
  <2> QED
    BY <1>0, <2>1, <2>2 DEF PleoraInv
<1>2. CASE SeeKey(d)
  <2>1. ThreadInv'
    BY <1>2 DEF SeeKey, PleoraInv, ThreadInv, TypeOK, Holds, Streams
  <2>2. OwnerInv'
    BY <1>2 DEF SeeKey, PleoraInv, OwnerInv, Turn, TypeOK
  <2> QED
    BY <1>0, <2>1, <2>2 DEF PleoraInv
<1>3. CASE Lock(d)
  <2>1. ThreadInv'
    BY <1>3 DEF Lock, PleoraInv, ThreadInv, TypeOK, Holds, Streams
  <2>2. OwnerInv'
    BY <1>3 DEF Lock, PleoraInv, OwnerInv, Turn, TypeOK
  <2> QED
    BY <1>0, <2>1, <2>2 DEF PleoraInv
<1>4. CASE StartStream(d)
  <2>1. ThreadInv'
    BY <1>4 DEF StartStream, PleoraInv, ThreadInv, OwnerInv, TypeOK, Holds,
                Streams
  <2>2. OwnerInv'
    BY <1>4 DEF StartStream, PleoraInv, OwnerInv, Turn, TypeOK
  <2> QED
    BY <1>0, <2>1, <2>2 DEF PleoraInv
<1>5. CASE Retrieve(d)
  <2>1. ThreadInv'
    <3>1. /\ pc[d] = "retrieve" /\ pc'[d] \in {"store", "release", "halt"}
          /\ held'[d] => pc'[d] \in {"store", "release"}
          /\ \A e \in Devices : e # d => pc'[e] = pc[e] /\ held'[e] = held[e]
      BY <1>5 DEF Retrieve, PleoraInv, ThreadInv, TypeOK
    <3>2. /\ pipe' = pipe /\ camlock' = camlock /\ owner' = owner
          /\ streaming' = streaming /\ main' = main /\ run' = run
      BY <1>5 DEF Retrieve
    <3> QED
      BY <3>1, <3>2 DEF PleoraInv, ThreadInv, Holds, Streams
  <2>2. OwnerInv'
    BY <1>5 DEF Retrieve, PleoraInv, OwnerInv, Turn, TypeOK
  <2> QED
    BY <1>0, <2>1, <2>2 DEF PleoraInv
<1>6. CASE Store(d)
  <2>1. ThreadInv'
    BY <1>6 DEF Store, PleoraInv, ThreadInv, TypeOK, Holds, Streams
  <2>2. OwnerInv'
    BY <1>6 DEF Store, PleoraInv, OwnerInv, Turn, TypeOK
  <2> QED
    BY <1>0, <2>1, <2>2 DEF PleoraInv
<1>7. CASE ReleaseBuffer(d)
  <2>1. ThreadInv'
    BY <1>7 DEF ReleaseBuffer, PleoraInv, ThreadInv, TypeOK, Holds, Streams
  <2>2. OwnerInv'
    BY <1>7 DEF ReleaseBuffer, PleoraInv, OwnerInv, Turn, TypeOK
  <2> QED
    BY <1>0, <2>1, <2>2 DEF PleoraInv
<1>8. CASE StopStream(d)
  <2>1. ThreadInv'
    BY <1>8 DEF StopStream, PleoraInv, ThreadInv, TypeOK, Holds, Streams
  <2>2. OwnerInv'
    BY <1>8 DEF StopStream, PleoraInv, OwnerInv, Turn, TypeOK
  <2> QED
    BY <1>0, <2>1, <2>2 DEF PleoraInv
<1>9. CASE Unlock(d)
  <2>1. ThreadInv'
    <3>1. camlock = d /\ pc'[d] = "sleep" /\ camlock' = Free
      BY <1>9 DEF Unlock, PleoraInv, ThreadInv, TypeOK, Holds
    <3>2. \A e \in Devices : pc'[e] \notin Holds
      BY <1>9, <3>1 DEF Unlock, PleoraInv, ThreadInv, TypeOK, Holds, Streams
    <3>3. \A e \in Devices : e # d => pc'[e] = pc[e]
      BY <1>9 DEF Unlock, PleoraInv, TypeOK
    <3>4. pipe[d] # "running" /\ ~held[d] /\ (streaming[d] => Orphan(d))
      BY <1>9 DEF Unlock, PleoraInv, ThreadInv, Streams
    <3> QED
      BY <1>9, <3>1, <3>2, <3>3, <3>4 DEF Unlock, PleoraInv, ThreadInv
  <2>2. OwnerInv'
    BY <1>9 DEF Unlock, PleoraInv, OwnerInv, Turn, TypeOK
  <2> QED
    BY <1>0, <2>1, <2>2 DEF PleoraInv
<1>10. CASE Sleep(d)
  <2>1. ThreadInv'
    BY <1>10 DEF Sleep, PleoraInv, ThreadInv, TypeOK, Holds, Streams
  <2>2. OwnerInv'
    BY <1>10 DEF Sleep, PleoraInv, OwnerInv, Turn, TypeOK
  <2> QED
    BY <1>0, <2>1, <2>2 DEF PleoraInv
<1>11. CASE GetChar(d)
  <2>1. ThreadInv'
    BY <1>11 DEF GetChar, PleoraInv, ThreadInv, TypeOK, Holds, Streams
  <2>2. OwnerInv'
    BY <1>11 DEF GetChar, PleoraInv, OwnerInv, Turn, TypeOK
  <2> QED
    BY <1>0, <2>1, <2>2 DEF PleoraInv
<1>12. CASE Release(d)
  <2>1. ThreadInv'
    BY <1>12 DEF Release, PleoraInv, ThreadInv, OwnerInv, TypeOK, Holds,
                 Streams
  <2>2. OwnerInv'
    BY <1>12 DEF Release, PleoraInv, OwnerInv, Turn, TypeOK
  <2> QED
    BY <1>0, <2>1, <2>2 DEF PleoraInv
<1> QED
  BY <1>1, <1>2, <1>3, <1>4, <1>5, <1>6, <1>7, <1>8, <1>9, <1>10, <1>11, <1>12
  DEF CaptureThread, Acquire

LEMMA InvEnvironment == PleoraInv /\ Environment => PleoraInv'
<1> SUFFICES ASSUME PleoraInv, Environment
             PROVE  PleoraInv'
  OBVIOUS
<1>0. TypeOK'
  BY TypeEnvironment DEF PleoraInv
<1> USE PleoraAssumption DEF Devices, program, threads, buffers, cameras,
                             input, files
<1>1. CASE Killed
  BY <1>1, InvGone DEF Killed
<1>2. CASE Restart
  <2>1. ThreadInv'
    BY <1>2 DEF Restart, PleoraInv, ThreadInv, OwnerInv, TypeOK, Orphan, Alive
  <2>2. OwnerInv'
    <3>1. \A d \in Devices : pc'[d] = "none" /\ owner'[d] <= run'
      <4>1. \A d \in Devices : pc[d] = "none" /\ owner[d] <= run
        BY <1>2 DEF Restart, PleoraInv, OwnerInv, Alive
      <4>2. run \in Nat /\ \A d \in Devices : owner[d] \in Nat
        BY DEF PleoraInv, TypeOK
      <4> QED
        BY <1>2, <4>1, <4>2 DEF Restart
    <3> QED
      BY <1>2, <3>1 DEF Restart, OwnerInv
  <2> QED
    BY <1>0, <2>1, <2>2 DEF PleoraInv
<1>3. CASE TypeKey
  BY <1>0, <1>3
  DEF TypeKey, PleoraInv, ThreadInv, OwnerInv, Turn, Orphan, Alive
<1>4. ASSUME NEW d \in Devices, Heartbeat(d)
      PROVE  PleoraInv'
  <2>1. ThreadInv'
    BY <1>4 DEF Heartbeat, PleoraInv, ThreadInv, TypeOK, Orphan, Alive
  <2>2. OwnerInv'
    BY <1>4 DEF Heartbeat, PleoraInv, OwnerInv, Turn, TypeOK, Orphan, Alive
  <2> QED
    BY <1>0, <2>1, <2>2 DEF PleoraInv
<1> QED
  BY <1>1, <1>2, <1>3, <1>4 DEF Environment

LEMMA InvStep == PleoraInv /\ [Next]_vars => PleoraInv'
<1>1. ASSUME PleoraInv, UNCHANGED vars
      PROVE  PleoraInv'
  <2>1. TypeOK'
    BY <1>1, TypeStep DEF PleoraInv
  <2> QED
    BY <1>1, <2>1
    DEF PleoraInv, ThreadInv, OwnerInv, Turn, Orphan, Alive, vars, program,
        threads, buffers, cameras
<1> QED
  BY <1>1, InvMain, InvThread, InvEnvironment DEF Next

LEMMA InvImplies == PleoraInv => OneAtWork
<1> SUFFICES ASSUME PleoraInv
             PROVE  OneAtWork
  OBVIOUS
<1>1. \A d \in Devices :
        AtWork(d) => \/ camlock = d /\ pc[d] \in Streams
                     \/ streaming[d] /\ Orphan(d)
  <2> SUFFICES ASSUME NEW d \in Devices, AtWork(d)
               PROVE  \/ camlock = d /\ pc[d] \in Streams
                      \/ streaming[d] /\ Orphan(d)
    OBVIOUS
  <2>1. pc[d] \in Streams => camlock = d
    BY DEF PleoraInv, ThreadInv, Holds
  <2>2. pipe[d] = "running" \/ held[d] => pc[d] \in Streams
    BY DEF PleoraInv, ThreadInv, Streams
  <2>3. streaming[d] => pc[d] \in Streams \/ Orphan(d)
    BY DEF PleoraInv, ThreadInv
  <2>4. CASE pc[d] \in Streams
    BY <2>1, <2>4
  <2>5. CASE pc[d] \notin Streams
    <3>1. streaming[d]
      BY <2>2, <2>5 DEF AtWork
    <3> QED
      BY <2>3, <2>5, <3>1
  <2> QED
    BY <2>4, <2>5
<1>2. \A d \in Devices : Free # d
  BY DEF Devices, Free
<1>3. \A d, e \in Devices :
        AtWork(d) /\ AtWork(e) => d = e \/ Orphan(d) \/ Orphan(e)
  BY <1>1
<1>4. main \in {"spawn", "join"} => \A d \in found : ~Orphan(d)
  BY DEF PleoraInv, OwnerInv, TypeOK, Orphan, Alive
<1> QED
  BY <1>1, <1>2, <1>3, <1>4 DEF OneAtWork

\* Of the cameras that the program holds one is at work at a time, and none
\* while camlock is free; no camera that the run found is still sending for a
\* run before when its threads run (AcquireImages and CreateAndConnect).
THEOREM PleoraOneAtWork == Spec => []OneAtWork
  BY InvInit, InvStep, InvImplies, PTL DEF Spec

-----------------------------------------------------------------------------
(* The files: no image replaces one of the same camera.                     *)

Named == {"lock", "start", "retrieve", "store"}
Fresh == Named \union {"none", "check"}

\* An image of a run before is older than any image to come.
ImagesPast ==
  \A i \in images :
    /\ i.run <= run /\ i.stamp <= now
    /\ i.run < run => i.stamp < now
    /\ i.run < run => \A d \in Devices : pc[d] \in Named => i.stamp < stamp[d]

\* An image of this run was counted before the next.
ImagesCounted ==
  Alive => \A i \in images : i.run = run =>
    /\ i.cntr <= cntr[i.by]
    /\ pc[i.by] \in Fresh => i.cntr < cntr[i.by]

\* The names whose header was saved, or whose Save failed.
Described == failed \union {Name(h) : h \in headers}

\* A thread that has a name for its image has written the header.
HeadersWritten ==
  \A d \in Devices :
    pc[d] \in Named => <<cntr[d], Suffix[d], stamp[d]>> \in Described

StampsPast == \A d \in Devices : stamp[d] <= now

FilesInv ==
  /\ ImagesPast /\ ImagesCounted /\ HeadersWritten /\ ImagesAreDescribed
  /\ StampsPast

\* Saving a file keeps every name that was there.
LEMMA SavedNames ==
  ASSUME NEW fs, NEW f
  PROVE  /\ f \in Saved(fs, f)
         /\ \A g \in fs : \E h \in Saved(fs, f) : Name(h) = Name(g)
         /\ \A g \in Saved(fs, f) : g \in fs \/ g = f
  BY DEF Saved

LEMMA FilesInit == Init => FilesInv
  BY PleoraAssumption
  DEF Init, FilesInv, ImagesPast, ImagesCounted, HeadersWritten,
      ImagesAreDescribed, StampsPast, Named, Devices

LEMMA FilesGone ==
  ASSUME TypeOK, FilesInv, NEW how \in {"ended", "dead"}, Gone(how)
  PROVE  FilesInv'
  BY DEF Gone, FilesInv, TypeOK, ImagesPast, ImagesCounted, HeadersWritten,
         ImagesAreDescribed, Described, StampsPast, Named, Alive, files, Name

\* A step that saves nothing, in which no thread takes a name, keeps FilesInv.
LEMMA FilesKept ==
  ASSUME TypeOK, TypeOK', FilesInv, files' = files, run' = run, now <= now',
         Alive' => Alive,
         \A d \in Devices :
           /\ pc'[d] \in Named => /\ pc[d] \in Named
                                  /\ stamp'[d] = stamp[d] /\ cntr'[d] = cntr[d]
           /\ cntr[d] <= cntr'[d] /\ stamp'[d] <= now'
           /\ pc'[d] \in Fresh => pc[d] \in Fresh \/ cntr[d] < cntr'[d]
  PROVE  FilesInv'
<1>1. headers' = headers /\ images' = images /\ failed' = failed
  BY DEF files
<1>2. \A i \in images : /\ i.run \in Nat /\ i.stamp \in Nat /\ i.cntr \in Nat
                         /\ i.by \in Devices
  BY DEF TypeOK, ImageFiles
<1>3. /\ now \in Nat /\ now' \in Nat /\ run \in Int
      /\ \A d \in Devices : cntr[d] \in Nat /\ cntr'[d] \in Nat
  BY PleoraAssumption DEF TypeOK
<1>4. ImagesPast'
  BY <1>1, <1>2, <1>3 DEF FilesInv, ImagesPast
<1>5. ImagesCounted'
  BY <1>1, <1>2, <1>3 DEF FilesInv, ImagesCounted
<1>6. HeadersWritten'
  BY <1>1 DEF FilesInv, HeadersWritten, Described, Name
<1>7. ImagesAreDescribed'
  BY <1>1 DEF FilesInv, ImagesAreDescribed, Name
<1>8. StampsPast'
  BY DEF StampsPast
<1> QED
  BY <1>4, <1>5, <1>6, <1>7, <1>8 DEF FilesInv

LEMMA FilesMain == TypeOK /\ OwnerInv /\ FilesInv /\ MainThread => FilesInv'
<1> SUFFICES ASSUME TypeOK, OwnerInv, FilesInv, MainThread
             PROVE  FilesInv'
  OBVIOUS
<1>0. TypeOK'
  BY TypeMain
<1> USE DEF program, threads, Alive
<1>1. CASE FindNothing \/ FindGarbage \/ OpenFails \/ SpawnExits \/ Join
  BY <1>1, FilesGone DEF FindNothing, FindGarbage, OpenFails, SpawnExits, Join
<1>2. ASSUME \/ FindDevices
             \/ \E d \in Devices : Connect(d) \/ OpenStream(d)
      PROVE  FilesInv'
  <2>1. /\ files' = files /\ run' = run /\ now' = now /\ Alive
        /\ pc' = pc /\ stamp' = stamp /\ cntr' = cntr
    BY <1>2 DEF FindDevices, Connect, OpenStream
  <2>2. /\ now <= now'
        /\ \A d \in Devices : cntr[d] <= cntr'[d] /\ stamp'[d] <= now'
    BY <2>1 DEF TypeOK, FilesInv, StampsPast
  <2> QED
    BY <1>0, <2>1, <2>2, FilesKept
<1>3. ASSUME NEW c \in Devices, Spawn(c)
      PROVE  FilesInv'
  <2>1. /\ files' = files /\ run' = run /\ stamp' = stamp /\ cntr' = cntr
        /\ Alive /\ now' = now + 1
    BY <1>3 DEF Spawn
  <2>2. /\ now <= now'
        /\ \A d \in Devices : cntr[d] <= cntr'[d] /\ stamp'[d] <= now'
    BY <2>1 DEF TypeOK, FilesInv, StampsPast
  <2>3. \A d \in Devices : /\ pc'[d] \in Named => pc[d] \in Named
                           /\ pc'[d] \in Fresh => pc[d] \in Fresh
    <3>1. pc[c] = "none" /\ pc' = [pc EXCEPT ![c] = "check"]
      BY <1>3 DEF Spawn, Turn, TypeOK, OwnerInv
    <3> QED
      BY <3>1 DEF TypeOK, Named, Fresh
  <2> QED
    BY <1>0, <2>1, <2>2, <2>3, FilesKept
<1> QED
  BY <1>1, <1>2, <1>3 DEF MainThread

LEMMA FilesDescribe ==
  ASSUME TypeOK, FilesInv, NEW d \in Devices, Describe(d)
  PROVE  FilesInv'
<1> DEFINE new == Header(d, now)
<1>0. /\ new.stamp = now /\ Name(new) = <<cntr[d], Suffix[d], now>>
  BY DEF Header, Name
<1>1. /\ images' = images /\ run' = run /\ cntr' = cntr /\ now' = now
      /\ \/ headers' = Saved(headers, new) /\ failed' = failed
         \/ headers' = headers /\ failed' = failed \union {Name(new)}
      /\ main' = main /\ stamp' = [stamp EXCEPT ![d] = now]
      /\ pc[d] = "check" /\ pc' = [pc EXCEPT ![d] = "lock"]
  BY <1>0 DEF Describe, SaveHeader, program, threads, files, Goto
<1> HIDE DEF new
<1>2. Described \union {Name(new)} \subseteq Described'
  <2>1. Described' = failed' \union {Name(h) : h \in headers'}
    BY DEF Described, Name
  <2>2. CASE headers' = Saved(headers, new) /\ failed' = failed
    <3>1. /\ new \in headers'
          /\ \A g \in headers : \E h \in headers' : Name(h) = Name(g)
      BY <2>2, SavedNames
    <3> QED
      BY <2>1, <2>2, <3>1 DEF Described
  <2>3. CASE headers' = headers /\ failed' = failed \union {Name(new)}
    BY <2>1, <2>3 DEF Described
  <2> QED
    BY <1>1, <2>2, <2>3
<1>3. ImagesPast'
  BY <1>1 DEF FilesInv, ImagesPast, TypeOK, Named
<1>4. ImagesCounted'
  BY <1>1 DEF FilesInv, ImagesCounted, TypeOK, Fresh, Named, Alive
<1>5. HeadersWritten'
  <2> SUFFICES ASSUME NEW e \in Devices, pc'[e] \in Named
               PROVE  <<cntr[e], Suffix[e], stamp'[e]>> \in Described'
    BY <1>1 DEF HeadersWritten
  <2>1. CASE e = d
    <3>1. stamp'[d] = now
      BY <1>1 DEF TypeOK
    <3> QED
      BY <1>0, <1>1, <1>2, <2>1, <3>1
  <2>2. CASE e # d
    <3>1. pc[e] \in Named /\ stamp'[e] = stamp[e]
      BY <1>1, <2>2 DEF TypeOK
    <3> QED
      BY <1>1, <1>2, <3>1 DEF FilesInv, HeadersWritten
  <2> QED
    BY <2>1, <2>2
<1>6. ImagesAreDescribed'
  <2>1. \A i \in images : Name(i) \in Described
    BY DEF FilesInv, ImagesAreDescribed, Described
  <2>2. \A i \in images : Name(i) \in Described'
    BY <1>2, <2>1
  <2> QED
    BY <1>1, <2>2 DEF ImagesAreDescribed, Described, Name
<1>7. StampsPast'
  BY <1>1 DEF FilesInv, StampsPast, TypeOK
<1> QED
  BY <1>3, <1>4, <1>5, <1>6, <1>7 DEF FilesInv

\* Store: the image's header is there, and the images it replaces are neither
\* older nor counted before, so they are a twin's.
LEMMA FilesStore ==
  ASSUME TypeOK, FilesInv, Alive, NEW d \in Devices, Store(d)
  PROVE  /\ FilesInv'
         /\ \A i \in images \ images' : \E j \in images' :
              Name(j) = Name(i) /\ j.by # i.by /\ j.run = i.run
<1> DEFINE new == Image(d)
<1>1. /\ headers' = headers /\ failed' = failed /\ run' = run /\ cntr' = cntr
      /\ now' = now /\ images' \in {Saved(images, new), images}
      /\ main' = main /\ stamp' = stamp
      /\ pc[d] = "store" /\ pc' = [pc EXCEPT ![d] = "release"]
  BY DEF Store, program, threads, files, Goto
<1>2. /\ new.run = run /\ new.by = d /\ new.cntr = cntr[d] /\ new.stamp = stamp[d]
      /\ Name(new) = <<cntr[d], Suffix[d], stamp[d]>>
  BY DEF Image, Name
<1>3. \A i \in images : /\ i.run \in Nat /\ i.stamp \in Nat /\ i.cntr \in Nat
                         /\ i.by \in Devices
  BY DEF TypeOK, ImageFiles
<1>4. /\ run \in Nat /\ now \in Nat /\ stamp[d] \in Nat /\ cntr[d] \in Nat
  BY PleoraAssumption DEF TypeOK
<1>5. stamp[d] <= now
  BY DEF FilesInv, StampsPast
<1>6. /\ pc'[d] = "release"
      /\ \A e \in Devices : e # d => pc'[e] = pc[e]
  BY <1>1 DEF TypeOK
<1>7. \A i \in images' : i \in images \/ i = new
  BY <1>1, SavedNames
<1> HIDE DEF new
<1>8. ImagesPast'
  BY <1>1, <1>2, <1>3, <1>4, <1>5, <1>6, <1>7 DEF FilesInv, ImagesPast, Named
<1>9. ImagesCounted'
  <2>1. \A i \in images : i.run = run => i.cntr <= cntr[i.by]
    BY DEF FilesInv, ImagesCounted
  <2>2. \A i \in images : i.run = run /\ pc'[i.by] \in Fresh => i.cntr < cntr[i.by]
    BY <1>3, <1>6 DEF FilesInv, ImagesCounted, Fresh, Named
  <2>3. pc'[new.by] \notin Fresh /\ new.cntr <= cntr[new.by]
    BY <1>2, <1>4, <1>6 DEF Fresh, Named
  <2> QED
    BY <1>1, <1>7, <2>1, <2>2, <2>3 DEF ImagesCounted
<1>10. HeadersWritten'
  BY <1>1, <1>6 DEF FilesInv, HeadersWritten, Described, Named, Name
<1>11. ImagesAreDescribed'
  <2>1. Name(new) \in Described
    BY <1>1, <1>2 DEF FilesInv, HeadersWritten, Named
  <2>2. \A i \in images : Name(i) \in Described
    BY DEF FilesInv, ImagesAreDescribed, Described
  <2> QED
    BY <1>1, <1>7, <2>1, <2>2 DEF ImagesAreDescribed, Described, Name
<1>12. StampsPast'
  BY <1>1 DEF FilesInv, StampsPast
<1>13. ASSUME NEW i \in images \ images'
       PROVE  \E j \in images' : /\ Name(j) = Name(i) /\ j.by # i.by
                                  /\ j.run = i.run
  <2>1. Name(i) = Name(new) /\ new \in images'
    BY <1>1, <1>13, SavedNames DEF Saved
  <2>2. i.cntr = cntr[d] /\ i.stamp = stamp[d]
    BY <1>2, <2>1 DEF Name
  <2>3. i.run = run
    BY <1>1, <1>3, <1>4, <2>2 DEF FilesInv, ImagesPast, Named
  <2>4. i.by = d => i.cntr < cntr[d]
    BY <1>1, <2>3 DEF FilesInv, ImagesCounted, Fresh, Named
  <2>5. i.by # d
    BY <1>4, <2>2, <2>4
  <2> QED
    BY <1>2, <2>1, <2>3, <2>5
<1> QED
  BY <1>8, <1>9, <1>10, <1>11, <1>12, <1>13 DEF FilesInv

\* The other steps of a thread save nothing, and it leaves the names it took.
LEMMA FilesThread ==
  ASSUME TypeOK, OwnerInv, FilesInv, NEW d \in Devices, CaptureThread(d)
  PROVE  FilesInv'
<1>0. TypeOK'
  BY TypeThread
<1>1. Alive /\ pc[d] \in Threads
  <2>1. pc[d] # "none"
    BY DEF CaptureThread, Acquire, Describe, SaveHeader, SeeKey, Lock,
           StartStream, Retrieve,
           Store, ReleaseBuffer, StopStream, Unlock, Sleep, GetChar, Release,
           Goto
  <2> QED
    BY <2>1 DEF OwnerInv, Alive, TypeOK
<1>2. CASE Describe(d)
  BY <1>2, FilesDescribe
<1>3. CASE Store(d)
  BY <1>1, <1>3, FilesStore
<1>4. CASE Lock(d) \/ StartStream(d) \/ Retrieve(d)
  <2>1. /\ files' = files /\ run' = run /\ stamp' = stamp /\ cntr' = cntr
        /\ now' \in {now, now + 1}
    BY <1>4 DEF Lock, StartStream, Retrieve, program
  <2>2. /\ pc[d] \in Named
        /\ \A e \in Devices : e # d => pc'[e] = pc[e]
    BY <1>4 DEF Lock, StartStream, Retrieve, Goto, Named, TypeOK
  <2>3. /\ now <= now'
        /\ \A e \in Devices : cntr[e] <= cntr'[e] /\ stamp'[e] <= now'
    BY <2>1 DEF TypeOK, FilesInv, StampsPast
  <2> QED
    BY <1>0, <1>1, <2>1, <2>2, <2>3, FilesKept DEF Fresh
<1>5. CASE \/ SeeKey(d) \/ ReleaseBuffer(d) \/ StopStream(d) \/ Unlock(d)
           \/ GetChar(d) \/ Release(d)
  <2>1. /\ files' = files /\ run' = run /\ stamp' = stamp /\ cntr' = cntr
        /\ now' = now
    BY <1>5 DEF SeeKey, ReleaseBuffer, StopStream, Unlock, GetChar, Release,
                program
  <2>2. /\ pc'[d] \notin Fresh
        /\ \A e \in Devices : e # d => pc'[e] = pc[e]
    BY <1>5 DEF SeeKey, ReleaseBuffer, StopStream, Unlock, GetChar, Release,
                Goto,
                Fresh, Named, TypeOK
  <2>3. /\ now <= now'
        /\ \A e \in Devices : cntr[e] <= cntr'[e] /\ stamp'[e] <= now'
    BY <2>1 DEF TypeOK, FilesInv, StampsPast
  <2> QED
    BY <1>0, <1>1, <2>1, <2>2, <2>3, FilesKept DEF Fresh
<1>6. CASE Sleep(d)
  <2>1. /\ files' = files /\ run' = run /\ now' = now + 1
        /\ stamp' = [stamp EXCEPT ![d] = 0] /\ cntr' = [cntr EXCEPT ![d] = @ + 1]
        /\ pc' = [pc EXCEPT ![d] = "check"]
    BY <1>6 DEF Sleep, Goto, program
  <2>2. /\ now <= now' /\ cntr[d] < cntr'[d]
        /\ \A e \in Devices : cntr[e] <= cntr'[e] /\ stamp'[e] <= now'
    BY <2>1 DEF TypeOK, FilesInv, StampsPast
  <2>3. /\ pc'[d] \notin Named
        /\ \A e \in Devices : e # d => /\ pc'[e] = pc[e] /\ stamp'[e] = stamp[e]
                                       /\ cntr'[e] = cntr[e]
    BY <2>1 DEF TypeOK, Named
  <2> QED
    BY <1>0, <1>1, <2>1, <2>2, <2>3, FilesKept
<1> QED
  BY <1>2, <1>3, <1>4, <1>5, <1>6 DEF CaptureThread, Acquire

LEMMA FilesEnvironment ==
  TypeOK /\ OwnerInv /\ FilesInv /\ Environment => FilesInv'
<1> SUFFICES ASSUME TypeOK, OwnerInv, FilesInv, Environment
             PROVE  FilesInv'
  OBVIOUS
<1>0. TypeOK'
  BY TypeEnvironment
<1>1. CASE Killed
  BY <1>1, FilesGone DEF Killed
<1>2. CASE Restart
  <2>1. /\ headers' = headers /\ images' = images /\ failed' = failed
        /\ pc' = pc /\ stamp' = stamp /\ cntr' = cntr /\ run' = run + 1 /\ now' = now + 1
    BY <1>2 DEF Restart, threads, files
  <2>2. \A d \in Devices : pc[d] = "none"
    BY <1>2 DEF Restart, Alive, OwnerInv
  <2>3. /\ run \in Nat /\ now \in Nat /\ \A d \in Devices : stamp[d] \in Nat
        /\ \A i \in images : i.run \in Nat /\ i.stamp \in Nat
    BY PleoraAssumption DEF TypeOK, ImageFiles
  <2>4. ImagesPast'
    BY <2>1, <2>2, <2>3 DEF FilesInv, ImagesPast, Named
  <2>5. ImagesCounted'
    BY <2>1, <2>3 DEF FilesInv, ImagesPast, ImagesCounted
  <2>6. HeadersWritten' /\ ImagesAreDescribed'
    BY <2>1, <2>2 DEF FilesInv, HeadersWritten, ImagesAreDescribed, Described,
                     Named, Name
  <2>7. StampsPast'
    BY <2>1, <2>3 DEF FilesInv, StampsPast
  <2> QED
    BY <2>4, <2>5, <2>6, <2>7 DEF FilesInv
<1>3. CASE TypeKey \/ \E d \in Devices : Heartbeat(d)
  <2>1. /\ files' = files /\ run' = run /\ now' = now /\ main' = main
        /\ pc' = pc /\ stamp' = stamp /\ cntr' = cntr
    BY <1>3 DEF TypeKey, Heartbeat, program, threads
  <2>2. /\ now <= now' /\ Alive' = Alive
        /\ \A d \in Devices : cntr[d] <= cntr'[d] /\ stamp'[d] <= now'
    BY <2>1 DEF TypeOK, FilesInv, StampsPast, Alive
  <2> QED
    BY <1>0, <2>1, <2>2, FilesKept
<1> QED
  BY <1>1, <1>2, <1>3 DEF Environment

LEMMA FilesStep == PleoraInv /\ FilesInv /\ [Next]_vars => FilesInv'
<1>1. ASSUME PleoraInv, FilesInv, UNCHANGED vars
      PROVE  FilesInv'
  <2>1. TypeOK'
    BY <1>1, TypeStep DEF PleoraInv
  <2>2. /\ files' = files /\ run' = run /\ now' = now /\ main' = main
        /\ pc' = pc /\ stamp' = stamp /\ cntr' = cntr
    BY <1>1 DEF vars, program, threads
  <2>3. /\ now <= now' /\ Alive' = Alive
        /\ \A d \in Devices : cntr[d] <= cntr'[d] /\ stamp'[d] <= now'
    BY <1>1, <2>2 DEF PleoraInv, TypeOK, FilesInv, StampsPast, Alive
  <2> QED
    BY <1>1, <2>1, <2>2, <2>3, FilesKept DEF PleoraInv
<1> QED
  BY <1>1, FilesMain, FilesThread, FilesEnvironment DEF Next, PleoraInv

\* Every image has its header unless its Save failed, whatever twins overwrite
\* and whenever the program is killed (the two names of captureImage and AcquireImages).
THEOREM PleoraDescribes == Spec => []ImagesAreDescribed
<1>1. FilesInv => ImagesAreDescribed
  BY DEF FilesInv
<1> QED
  BY <1>1, InvInit, InvStep, FilesInit, FilesStep, PTL DEF Spec

\* No image is lost but to that of a twin under the same name in the same
\* run: a later run, which counts from 0 again, overwrites none.
THEOREM PleoraOverwrites == Spec => OnlyTwinsOverwrite
<1> DEFINE Twin == \A i \in images \ images' : \E j \in images' :
                     Name(j) = Name(i) /\ j.by # i.by /\ j.run = i.run
<1>1. PleoraInv /\ FilesInv /\ [Next]_vars => [Twin]_vars
  <2> SUFFICES ASSUME PleoraInv, FilesInv, Next, images' # images
               PROVE  Twin
    OBVIOUS
  <2>1. PICK d \in Devices : Store(d)
    BY DEF Next, MainThread, Environment, CaptureThread, Acquire, Gone,
           FindNothing, FindGarbage, FindDevices, Connect, OpenFails,
           OpenStream,
           Spawn, SpawnExits, Join, Killed, Restart, TypeKey, Heartbeat,
           Describe,
           SaveHeader, SeeKey, Lock, StartStream, Retrieve, ReleaseBuffer,
           StopStream, Unlock,
           Sleep, GetChar, Release, files
  <2>2. Alive
    BY <2>1 DEF PleoraInv, OwnerInv, Store, Goto, Alive
  <2> QED
    BY <2>1, <2>2, FilesStore DEF PleoraInv
<1> HIDE DEF Twin
<1>2. Spec => [][Twin]_vars
  BY <1>1, InvInit, InvStep, FilesInit, FilesStep, PTL DEF Spec
<1> QED
  BY <1>2 DEF Twin, OnlyTwinsOverwrite

-----------------------------------------------------------------------------
(* The keys.                                                                 *)

Finished == {d \in Devices : pc[d] \in {"free", "done"}}

\* Every key that is not waiting has ended a thread, and one thread only.
KeysSpent == typed \in 0..N /\ typed = keys + Cardinality(Finished)

\* Once as many keys were typed as the run has cameras there is one left for
\* every thread that is not finished.
KeyForEach ==
  typed >= Cardinality(found) => \A d \in found \ Finished : keys > 0

\* Whoever waits for camlock waits for a thread on its way through AcquireImages,
\* none of whose steps waits for a key or a lock.
LockIsReleased == camlock # Free => camlock \in Devices /\ pc[camlock] \in Holds

LEMMA FinishedFinite ==
  ASSUME NEW T \in SUBSET Devices, NEW S \in SUBSET T
  PROVE  /\ IsFiniteSet(S) /\ Cardinality(S) \in Nat
         /\ Cardinality(T) \in Nat
         /\ S # T => Cardinality(S) < Cardinality(T)
<1>1. IsFiniteSet(Devices)
  BY FS_Interval, PleoraAssumption DEF Devices
<1>2. IsFiniteSet(T)
  BY <1>1, FS_Subset
<1>3. /\ IsFiniteSet(S) /\ Cardinality(S) <= Cardinality(T)
      /\ Cardinality(S) = Cardinality(T) => S = T
  BY <1>2, FS_Subset
<1>4. Cardinality(S) \in Nat /\ Cardinality(T) \in Nat
  BY <1>2, <1>3, FS_CardinalityType
<1> QED
  BY <1>3, <1>4

LEMMA KeysGone == ASSUME NEW how, Gone(how) PROVE KeysSpent'
<1>1. Finished' = {} /\ typed' = 0 /\ keys' = 0
  BY DEF Gone, Finished
<1> QED
  BY <1>1, FS_EmptySet, PleoraAssumption DEF KeysSpent

LEMMA KeysSame ==
  ASSUME KeysSpent, Finished' = Finished, UNCHANGED input
  PROVE  KeysSpent'
  BY DEF KeysSpent, input

LEMMA KeysStep ==
  ASSUME PleoraInv, KeysSpent, [Next]_vars
  PROVE  KeysSpent'
<1> USE DEF PleoraInv, TypeOK
<1>0. ASSUME NEW d \in Devices, NEW from, NEW to, Goto(d, from, to),
             from \notin {"free", "done"}, to \notin {"free", "done"},
             UNCHANGED input
      PROVE  KeysSpent'
  <2>1. Finished' = Finished
    BY <1>0 DEF Goto, Finished
  <2> QED
    BY <1>0, <2>1, KeysSame
<1>1. CASE FindNothing \/ FindGarbage \/ OpenFails \/ SpawnExits \/ Join \/ Killed
  BY <1>1, KeysGone DEF FindNothing, FindGarbage, OpenFails, SpawnExits, Join,
                        Killed
<1>2. ASSUME NEW c \in Devices, Spawn(c) PROVE KeysSpent'
  <2>1. pc[c] = "none" /\ pc' = [pc EXCEPT ![c] = "check"]
    BY <1>2 DEF Spawn, Turn, OwnerInv
  <2>2. Finished' = Finished
    BY <2>1 DEF Finished
  <2> QED
    BY <1>2, <2>2, KeysSame DEF Spawn
<1>3. ASSUME NEW d \in Devices, Describe(d) \/ SeeKey(d) \/ Acquire(d) \/ Sleep(d)
      PROVE  KeysSpent'
  <2>1. UNCHANGED input
    BY <1>3 DEF Describe, SaveHeader, SeeKey, Acquire, Lock, StartStream,
                Retrieve, Store,
                ReleaseBuffer, StopStream, Unlock, Sleep
  <2>2. \E from, to \in Threads \ {"free", "done"} : Goto(d, from, to)
    BY <1>3 DEF Describe, SaveHeader, SeeKey, Acquire, Lock, StartStream,
                Retrieve, Store,
                ReleaseBuffer, StopStream, Unlock, Sleep, Threads
  <2> QED
    BY <1>0, <2>1, <2>2
<1>4. ASSUME NEW d \in Devices, GetChar(d) PROVE KeysSpent'
  <2>1. pc[d] = "getchar" /\ pc' = [pc EXCEPT ![d] = "free"]
    BY <1>4 DEF GetChar, Goto
  <2>2. d \notin Finished /\ Finished' = Finished \union {d}
    BY <2>1 DEF Finished
  <2>3. Cardinality(Finished') = Cardinality(Finished) + 1
    BY <2>2, FinishedFinite, FS_AddElement DEF Finished
  <2>4. Cardinality(Finished) \in Nat
    BY FinishedFinite DEF Finished
  <2>5. keys' = keys - 1 /\ typed' = typed
    BY <1>4 DEF GetChar
  <2> QED
    BY <2>3, <2>4, <2>5 DEF KeysSpent
<1>5. ASSUME NEW d \in Devices, Release(d) PROVE KeysSpent'
  <2>1. Finished' = Finished
    BY <1>5 DEF Release, Goto, Finished
  <2> QED
    BY <1>5, <2>1, KeysSame DEF Release
<1>6. CASE TypeKey
  <2>1. Finished' = Finished /\ Cardinality(Finished) \in Nat
    BY <1>6, FinishedFinite DEF TypeKey, threads, Finished
  <2> QED
    BY <1>6, <2>1, PleoraAssumption DEF TypeKey, KeysSpent
<1>7. CASE UNCHANGED <<pc, input>>
  BY <1>7, KeysSame DEF Finished
<1> QED
  BY <1>1, <1>2, <1>3, <1>4, <1>5, <1>6, <1>7
     DEF Next, MainThread, CaptureThread, Environment, FindDevices, Connect,
         OpenStream, Restart, Heartbeat, vars, program, threads

\* No key is lost between two threads that have seen it: as many keys as the run
\* has cameras are enough for all of them, whichever thread reads which key.
THEOREM PleoraKeys == Spec => []KeyForEach
<1>1. Init => KeysSpent
  <2> SUFFICES ASSUME Init PROVE KeysSpent
    OBVIOUS
  <2>1. Finished = {}
    BY DEF Init, Finished
  <2> QED
    BY <2>1, FS_EmptySet, PleoraAssumption DEF Init, KeysSpent
<1>2. PleoraInv /\ KeysSpent /\ [Next]_vars => KeysSpent'
  BY KeysStep
<1>3. PleoraInv /\ KeysSpent => KeyForEach
  <2> SUFFICES ASSUME PleoraInv, KeysSpent, typed >= Cardinality(found),
                      NEW d \in found \ Finished
               PROVE  keys > 0
    BY DEF KeyForEach
  <2>1. Finished \in SUBSET found /\ Finished # found /\ found \in SUBSET Devices
    BY DEF Finished, PleoraInv, TypeOK, OwnerInv
  <2>2. /\ Cardinality(Finished) \in Nat /\ Cardinality(found) \in Nat
        /\ Cardinality(Finished) < Cardinality(found)
    BY <2>1, FinishedFinite
  <2> QED
    BY <2>2, PleoraAssumption DEF KeysSpent, PleoraInv, TypeOK
<1> QED
  BY <1>1, <1>2, <1>3, InvInit, InvStep, PTL DEF Spec

\* A thread that waits for camlock waits for one that will free it: the holder
\* is in AcquireImages, also after another was killed there.
THEOREM PleoraLock == Spec => []LockIsReleased
<1>1. PleoraInv => LockIsReleased
  BY DEF PleoraInv, TypeOK, ThreadInv, LockIsReleased
<1> QED
  BY <1>1, InvInit, InvStep, PTL DEF Spec
=============================================================================
