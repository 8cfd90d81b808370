--------------------------- MODULE WatchdogProofs ---------------------------
(* Proofs about Watchdog, for any commands, limits and faults.               *)
EXTENDS Watchdog, SequenceTheorems, TLAPS

Requests  == [id : 1..MaxCalls, cmd : Commands]
CamCalls  == [cmd : CommandType, from : Threads \union {"nobody"}]
FileType  == CommandType \union {NoFile, Torn}

\* TypeOK in parts, each of which few actions touch.
InboxType  == inbox \in Seq(Requests) /\ sent \in 0..MaxCalls
SharedType == cmds \in CommandType /\ saved \in FileType
PcType ==
  /\ pc \in [Threads -> MainPcs \union MonPcs]
  /\ pc["main"] \in MainPcs /\ pc["mon"] \in MonPcs
CallType   == resp \in [Threads -> BOOLEAN] /\ job \in {"replay", "rpc"}
MonitorType ==
  /\ ret \in {"second", "late", "wait"} /\ tmp \in Int /\ cntr \in Nat
  /\ got \in [items : 0..3, cmd : CommandType]
ClockType == age \in 0..MaxAge /\ events \in Seq(0..MaxAge) /\ quiet \in 0..MaxAge
CameraType ==
  proc \in {"running", "down", "stopped"} /\ session \in Int /\ camq \in Seq(CamCalls)
HistoryType ==
  /\ crashes \in 0..MaxCrashes
  /\ want \in StoredType /\ kept \in StoredType /\ done \in 0..MaxCalls

\* Main holds a command while it processes one: the request at the head of the
\* queue, or the file it replays, which nobody else writes.
Busy == {"update", "stop", "start", "send", "await"}
Holding ==
  /\ job = "rpc" /\ pc["main"] \notin {"off", "boot", "idle"} => inbox # <<>>
  /\ job = "replay" /\ pc["main"] \in Busy => saved \in CommandType
  /\ pc["main"] = "ack" => job = "rpc"

TypeInv ==
  /\ InboxType /\ SharedType /\ PcType /\ CallType /\ MonitorType /\ ClockType
  /\ CameraType /\ HistoryType /\ Holding

LEMMA TypeParts == TypeInv => TypeOK
  BY DEF TypeInv, TypeOK, InboxType, SharedType, PcType, CallType, MonitorType,
         ClockType, CameraType, HistoryType, Holding, Requests, CamCalls, FileType, StoredType

LEMMA Records ==
  /\ StatusCommand \in CommandType /\ Nothing \in CommandType
  /\ NoItems \in [items : 0..3, cmd : CommandType]
  /\ NoFile \notin CommandType /\ Torn \notin CommandType /\ NoFile # Torn
  /\ Commands \subseteq CommandType
<1>1. StatusCommand \in CommandType
  BY DEF StatusCommand, CommandType
<1>2. Nothing \in CommandType
  <2>1. \A c \in CommandType : [c EXCEPT !.status = FALSE] \in CommandType
    BY DEF CommandType
  <2> QED
    BY <1>1, <2>1 DEF Nothing
<1>3. NoFile # Torn
  <2>1. NoFile.file # Torn.file
    BY DEF NoFile, Torn
  <2> QED
    BY <2>1
<1>4. \A c \in CommandType : "kill" \in DOMAIN c
  BY DEF CommandType
<1>6. NoItems \in [items : 0..3, cmd : CommandType]
  BY <1>2 DEF NoItems
<1>5. "kill" \notin DOMAIN NoFile /\ "kill" \notin DOMAIN Torn
  BY DEF NoFile, Torn
<1> QED
  BY <1>1, <1>2, <1>3, <1>4, <1>5, <1>6, WatchdogAssumption

LEMMA Stored ==
  ASSUME NEW c \in CommandType, NEW n \in Int
  PROVE  /\ [c EXCEPT !.capture = n] \in CommandType
         /\ c.interval \in Nat /\ c.capture \in Int
  BY DEF CommandType

LEMMA TypeInit == Init => TypeInv
<1> SUFFICES ASSUME Init
             PROVE  TypeInv
  OBVIOUS
<1> USE WatchdogAssumption, Records DEF Init
<1>1. InboxType /\ CameraType /\ ClockType
  BY DEF InboxType, CameraType, ClockType
<1>2. SharedType /\ MonitorType
  BY DEF SharedType, FileType, MonitorType
<1>3. PcType /\ CallType
  BY DEF PcType, CallType, Threads, MainPcs, MonPcs
<1>4. HistoryType
  BY DEF HistoryType, StoredType
<1>5. Holding
  BY DEF Holding, Threads, Busy
<1> QED
  BY <1>1, <1>2, <1>3, <1>4, <1>5 DEF TypeInv

------------------------------------------------------------------------------
(* Type correctness, a lemma for each kind of step.                           *)

\* A step of one thread leaves the other where it is.
LEMMA GoType ==
  ASSUME PcType, NEW t \in Threads, NEW from, NEW to, Go(t, from, to),
         t = "main" => to \in MainPcs, t = "mon" => to \in MonPcs
  PROVE  /\ PcType' /\ pc[t] = from /\ pc'[t] = to
         /\ \A u \in Threads \ {t} : pc'[u] = pc[u]
  BY DEF PcType, Go, Threads

LEMMA SameParts ==
  /\ InboxType /\ UNCHANGED controllers => InboxType'
  /\ SharedType /\ UNCHANGED shared => SharedType'
  /\ PcType /\ UNCHANGED pc => PcType'
  /\ CallType /\ UNCHANGED <<resp, job>> => CallType'
  /\ MonitorType /\ UNCHANGED registers => MonitorType'
  /\ ClockType /\ UNCHANGED clocks => ClockType'
  /\ CameraType /\ UNCHANGED camera => CameraType'
  /\ HistoryType /\ UNCHANGED <<crashes, history>> => HistoryType'
  BY DEF InboxType, SharedType, PcType, CallType, MonitorType, ClockType,
         CameraType, HistoryType, controllers, shared, registers, clocks, camera, history

\* Main stays where it is, and so does what it holds.
LEMMA SameHolding ==
  ASSUME Holding, pc'["main"] = pc["main"], UNCHANGED <<job, saved>>,
         inbox # <<>> => inbox' # <<>>
  PROVE  Holding'
  BY DEF Holding

LEMMA OlderType == \A clock \in 0..MaxAge : Older(clock) \in 0..MaxAge
  BY WatchdogAssumption DEF Older

LEMMA SeqParts ==
  ASSUME NEW S, NEW q \in Seq(S)
  PROVE  Len(q) \in Nat /\ DOMAIN q = 1..Len(q) /\ \A i \in 1..Len(q) : q[i] \in S
  OBVIOUS

LEMMA AgesType == ClockType /\ Ages => ClockType'
<1> SUFFICES ASSUME ClockType, Ages
             PROVE  ClockType'
  OBVIOUS
<1>0. events \in Seq(0..MaxAge)
  BY DEF ClockType
<1>1. /\ Len(events) \in Nat /\ DOMAIN events = 1..Len(events)
      /\ \A i \in 1..Len(events) : events[i] \in 0..MaxAge
  BY <1>0, SeqParts
<1>2. [i \in DOMAIN events |-> Older(events[i])] \in [1..Len(events) -> 0..MaxAge]
  BY <1>1, OlderType
<1>3. events' \in Seq(0..MaxAge)
  BY <1>1, <1>2 DEF Ages
<1> QED
  BY <1>3, OlderType DEF Ages, ClockType

\* dict() makes a command of those it finds.
LEMMA ItemsType ==
  ASSUME SharedType, MonitorType
  PROVE  \A k : Item(got.cmd, k) \in CommandType
  BY DEF Item, CommandType, SharedType, MonitorType

LEMMA FirstCall ==
  ASSUME NEW S, NEW q \in Seq(S), q # <<>>
  PROVE  Head(q) \in S /\ Tail(q) \in Seq(S)
  BY HeadTailProperties

LEMMA CallsType ==
  ASSUME NEW q \in Seq(CamCalls)
  PROVE  /\ \A c \in CommandType, t \in Threads :
              Append(q, [cmd |-> c, from |-> t]) \in Seq(CamCalls)
         /\ [i \in DOMAIN q |-> [q[i] EXCEPT !.from = "nobody"]] \in Seq(CamCalls)
<1>1. \A c \in CommandType, t \in Threads : [cmd |-> c, from |-> t] \in CamCalls
  BY DEF CamCalls
<1>2. \A r \in CamCalls : [r EXCEPT !.from = "nobody"] \in CamCalls
  BY DEF CamCalls
<1>3. \A i \in DOMAIN q : q[i] \in CamCalls
  OBVIOUS
<1>4. DOMAIN q = 1..Len(q) /\ Len(q) \in Nat
  OBVIOUS
<1>5. [i \in DOMAIN q |-> [q[i] EXCEPT !.from = "nobody"]] \in [1..Len(q) -> CamCalls]
  BY <1>2, <1>3, <1>4
<1> QED
  BY <1>1, <1>4, <1>5

LEMMA ExecutedType == \A c \in CommandType : session \in Int => Executed(c) \in Int
  BY DEF Executed, CommandType

LEMMA AwaitCamera ==
  ASSUME CameraType, UNCHANGED <<proc, session>>,
         NEW t, NEW from, NEW answered, NEW timeout, Await(t, from, answered, timeout)
  PROVE  CameraType'
<1>1. camq \in Seq(CamCalls) /\ <<>> \in Seq(CamCalls)
  BY DEF CameraType
<1>2. CASE camq' = camq \/ camq' = <<>>
  BY <1>1, <1>2 DEF CameraType
<1>3. CASE ~(camq' = camq \/ camq' = <<>>)
  <2> DEFINE r == Head(camq)
             s == [r EXCEPT !.from = IF @ = t THEN "nobody" ELSE @]
  <2>1. camq # <<>> /\ camq' = <<s>>
    BY <1>3 DEF Await, Purge
  <2>2. r \in CamCalls
    BY <1>1, <2>1, FirstCall
  <2>3. s \in CamCalls
    BY <2>2 DEF CamCalls
  <2>4. <<s>> \in Seq(CamCalls)
    BY <2>3
  <2> QED
    BY <2>1, <2>4 DEF CameraType
<1> QED
  BY <1>2, <1>3

LEMMA AwaitType ==
  ASSUME CallType, job' = job,
         NEW t, NEW from, NEW answered, NEW timeout, Await(t, from, answered, timeout)
  PROVE  CallType'
  BY DEF Await, CallType

\* What main works on is a command.
LEMMA CurrentType ==
  ASSUME TypeInv, pc["main"] \in Busy
  PROVE  Current \in CommandType
<1>1. CASE job = "replay"
  BY <1>1 DEF TypeInv, Holding, Current
<1>2. CASE job = "rpc"
  <2>1. Head(inbox) \in Requests
    BY <1>2, FirstCall DEF TypeInv, Holding, Busy, InboxType
  <2> QED
    BY <1>2, <2>1, Records DEF Current, Requests
<1> QED
  BY <1>1, <1>2 DEF TypeInv, CallType

LEMMA EnvironmentType == TypeInv /\ Environment => TypeInv'
<1> SUFFICES ASSUME TypeInv, Environment
             PROVE  TypeInv'
  OBVIOUS
<1> USE DEF TypeInv
<1>1. ASSUME NEW c \in Commands, Call(c)
      PROVE  TypeInv'
  <2>1. sent + 1 \in 1..MaxCalls
    BY <1>1, WatchdogAssumption DEF Call, InboxType
  <2>2. [id |-> sent + 1, cmd |-> c] \in Requests
    BY <2>1 DEF Requests
  <2>3. InboxType' /\ inbox' # <<>>
    BY <1>1, <2>1, <2>2 DEF Call, InboxType
  <2> QED
    BY <1>1, <2>3, SameParts, SameHolding DEF Call, shared, history
<1>2. CASE CamHandle
  <2> DEFINE r == Head(camq)
  <2>1. r \in CamCalls /\ Tail(camq) \in Seq(CamCalls)
    BY <1>2, FirstCall DEF CamHandle, CameraType
  <2>2. Executed(r.cmd) \in Int
    BY <2>1, ExecutedType DEF CamCalls, CameraType
  <2>3. CameraType'
    <3>1. CASE r.cmd.kill
      BY <1>2, <2>1, <3>1 DEF CamHandle, CameraType
    <3>2. CASE ~r.cmd.kill
      BY <1>2, <2>1, <2>2, <3>2 DEF CamHandle, CameraType
    <3> QED
      BY <3>1, <3>2
  <2>4. CallType'
    <3>1. [u \in Threads |-> u = r.from \/ resp[u]] \in [Threads -> BOOLEAN]
      OBVIOUS
    <3>2. resp' = resp \/ resp' = [u \in Threads |-> u = r.from \/ resp[u]]
      BY <1>2 DEF CamHandle
    <3>3. job' = job
      BY <1>2 DEF CamHandle
    <3> QED
      BY <3>1, <3>2, <3>3 DEF CallType
  <2> QED
    BY <1>2, <2>3, <2>4, SameParts, SameHolding DEF CamHandle, shared, controllers
<1>3. CASE CamCrash \/ Autorestart
  <2>1. CameraType'
    BY <1>3 DEF CamCrash, Autorestart, CameraType
  <2> QED
    BY <1>3, <2>1, SameParts, SameHolding DEF CamCrash, Autorestart, shared, controllers
<1>4. CASE Image
  <2>1. CameraType'
    BY <1>4 DEF Image, CameraType
  <2>2. ClockType'
    <3>1. Append(events, 0) \in Seq(0..MaxAge)
      BY WatchdogAssumption DEF ClockType
    <3> QED
      BY <1>4, <3>1, WatchdogAssumption DEF Image, ClockType
  <2> QED
    BY <1>4, <2>1, <2>2, SameParts, SameHolding DEF Image, shared, controllers
<1>5. CASE WdCrash
  <2>1. PcType' /\ CallType' /\ pc'["main"] = "off"
    BY <1>5 DEF WdCrash, PcType, CallType, Threads, MainPcs, MonPcs
  <2>2. SharedType' /\ MonitorType' /\ ClockType'
    BY <1>5, Records, WatchdogAssumption DEF WdCrash, SharedType, MonitorType, ClockType
  <2>3. CameraType'
    BY <1>5, CallsType DEF WdCrash, CameraType
  <2>4. HistoryType'
    BY <1>5, WatchdogAssumption DEF WdCrash, HistoryType, history
  <2>5. Holding'
    BY <2>1 DEF Holding, Busy
  <2> QED
    BY <1>5, <2>1, <2>2, <2>3, <2>4, <2>5, SameParts DEF WdCrash
<1>6. CASE WdStart
  <2>1. PcType' /\ pc'["main"] = "boot"
    BY <1>6 DEF WdStart, PcType, Threads, MainPcs, MonPcs
  <2>2. Holding'
    BY <2>1 DEF Holding, Busy
  <2> QED
    BY <1>6, <2>1, <2>2, SameParts DEF WdStart
<1> QED
  BY <1>1, <1>2, <1>3, <1>4, <1>5, <1>6 DEF Environment

\* restart_camera: what it leaves to its callers is where they go on.
LEMMA RestartType ==
  ASSUME TypeInv, NEW t \in Threads, RestartCamera(t)
  PROVE  TypeInv'
<1> USE DEF TypeInv
<1>1. t \in {"main", "mon"} /\ (t = "main" => pc["main"] \in Busy)
  BY DEF RestartCamera, RcStop, RcStart, RcFails, RcSend, RcDone, Send, Await, Go,
         Threads, Busy
<1>2. /\ t = "main" => Current \in CommandType
      /\ \A k : Item(got.cmd, k) \in CommandType
  BY <1>1, CurrentType, ItemsType DEF SharedType, MonitorType
<1>3. After(t) = IF t = "mon" THEN ret ELSE "update"
  BY DEF After
<1>4. ASSUME NEW from, NEW to, Go(t, from, to), to \in Busy \union {ret},
             t = "main" => to \in Busy, t = "mon" => to # "update",
             UNCHANGED <<inbox, job, saved>>
      PROVE  PcType' /\ Holding'
  <2>1. /\ t = "main" => to \in MainPcs
        /\ t = "mon" => to \in MonPcs
    BY <1>4 DEF MonitorType, MainPcs, MonPcs, Busy
  <2>2. PcType' /\ pc'[t] = to /\ \A u \in Threads \ {t} : pc'[u] = pc[u]
    BY <1>1, <1>4, <2>1, GoType
  <2>3. CASE t = "mon"
    BY <1>4, <2>2, <2>3, SameHolding DEF Threads
  <2>4. CASE t = "main"
    BY <1>1, <1>4, <2>2, <2>4 DEF Holding, Busy
  <2> QED
    BY <1>1, <2>2, <2>3, <2>4
<1>5. CASE RcStop(t) \/ RcStart(t)
  <2>1. CameraType'
    BY <1>5 DEF RcStop, RcStart, CameraType
  <2>2. PcType' /\ Holding'
    BY <1>4, <1>5 DEF RcStop, RcStart, Busy, controllers, shared
  <2> QED
    BY <1>5, <2>1, <2>2, SameParts DEF RcStop, RcStart
<1>6. CASE RcFails(t)
  <2>1. CameraType'
    BY <1>6 DEF RcFails, CameraType
  <2>2. MonitorType' /\ ClockType'
    BY <1>6, WatchdogAssumption DEF RcFails, Returned, MonitorType, ClockType
  <2>3. PcType' /\ Holding'
    <3>1. Go(t, "stop", After(t)) \/ Go(t, "start", After(t))
      BY <1>6 DEF RcFails
    <3>2. UNCHANGED <<inbox, job, saved>>
      BY <1>6 DEF RcFails, controllers, shared
    <3> QED
      BY <1>1, <1>3, <1>4, <3>1, <3>2 DEF Busy, MonitorType
  <2> QED
    BY <1>6, <2>1, <2>2, <2>3, SameParts DEF RcFails
<1>7. CASE RcSend(t)
  <2>1. PICK c \in CommandType : Send(t, "send", "await", c)
    BY <1>2, <1>7 DEF RcSend
  <2>2. CameraType'
    BY <2>1, CallsType DEF Send, CameraType
  <2>3. MonitorType'
    BY <1>7, <2>1, Records DEF RcSend, Send, MonitorType
  <2>4. PcType' /\ Holding'
    BY <1>4, <2>1 DEF Send, Busy, controllers, shared
  <2> QED
    BY <2>1, <2>2, <2>3, <2>4, SameParts DEF Send
<1>8. CASE RcDone(t)
  <2>1. CameraType' /\ CallType'
    BY <1>8, AwaitCamera, AwaitType DEF RcDone
  <2>2. MonitorType' /\ ClockType'
    BY <1>8, WatchdogAssumption DEF RcDone, Returned, MonitorType, ClockType
  <2>3. PcType' /\ Holding'
    <3>1. Go(t, "await", After(t))
      BY <1>8 DEF RcDone, Await
    <3>2. UNCHANGED <<inbox, job, saved>>
      BY <1>8 DEF RcDone, controllers, shared
    <3> QED
      BY <1>1, <1>3, <1>4, <3>1, <3>2 DEF Busy, MonitorType
  <2> QED
    BY <1>8, <2>1, <2>2, <2>3, SameParts DEF RcDone
<1> QED
  BY <1>5, <1>6, <1>7, <1>8 DEF RestartCamera

\* The monitor's own steps.
LEMMA MonStep ==
  ASSUME TypeInv, NEW from, NEW to, to \in MonPcs, Mon(from, to)
  PROVE  /\ InboxType' /\ PcType' /\ CallType' /\ CameraType' /\ Holding'
         /\ pc["mon"] = from /\ pc'["mon"] = to
         /\ saved' = saved /\ got' = got
         /\ crashes' = crashes /\ kept' = kept /\ done' = done
<1> USE DEF TypeInv, Mon
<1>1. /\ PcType' /\ pc["mon"] = from /\ pc'["mon"] = to
      /\ pc'["main"] = pc["main"]
  BY GoType DEF Threads
<1> QED
  BY <1>1, SameParts, SameHolding DEF controllers

LEMMA MonitorStepType ==
  ASSUME TypeInv, Monitor
  PROVE  TypeInv'
<1> USE DEF TypeInv
<1>0. /\ cmds \in CommandType /\ cmds.capture \in Int /\ cmds.interval \in Nat
      /\ \A n \in Int : [cmds EXCEPT !.capture = n] \in CommandType
      /\ saved \in FileType
  <2>1. cmds \in CommandType /\ saved \in FileType
    BY DEF SharedType
  <2>2. \A n \in Int : [cmds EXCEPT !.capture = n] \in CommandType
    BY <2>1, Stored
  <2>3. cmds.capture \in Int /\ cmds.interval \in Nat
    BY <2>1 DEF CommandType
  <2> QED
    BY <2>1, <2>2, <2>3
<1>a. ASSUME NEW from, NEW to \in MonPcs, Mon(from, to), UNCHANGED <<cmds, want>>
      PROVE  SharedType' /\ HistoryType'
  BY <1>a, MonStep DEF SharedType, HistoryType
<1>b. ASSUME NEW from, NEW to \in MonPcs, Mon(from, to), NEW n \in Int, Stores(n)
      PROVE  SharedType' /\ HistoryType'
  <2>1. want' \in StoredType
    BY <1>b DEF Stores, HistoryType, StoredType
  <2> QED
    BY <1>0, <1>b, <2>1, MonStep DEF Stores, SharedType, HistoryType
<1>1. CASE MonWake
  <2>1. PICK to \in {"finite", "endless", "second", "unused"} : Mon("wait", to)
    BY <1>1 DEF MonWake
  <2>2. to \in MonPcs
    BY DEF MonPcs
  <2>3. MonitorType'
    BY <1>1, <2>1, <2>2, MonStep DEF MonWake, MonitorType
  <2>4. ClockType'
    BY <1>1, AgesType DEF MonWake
  <2>5. SharedType' /\ HistoryType'
    BY <1>1, <1>a, <2>1, <2>2 DEF MonWake
  <2> QED
    BY <2>1, <2>2, <2>3, <2>4, <2>5, MonStep
<1>2. ASSUME NEW kind \in {"finite", "endless"}, MonFirst(kind)
      PROVE  TypeInv'
  <2>1. Mon(kind, "read") /\ "read" \in MonPcs
    BY <1>2 DEF MonFirst, MonPcs
  <2>2. MonitorType' /\ ClockType'
    BY <1>2, <2>1, MonStep, SameParts DEF MonFirst, MonitorType
  <2>3. SharedType' /\ HistoryType'
    BY <1>2, <1>a, <2>1 DEF MonFirst
  <2> QED
    BY <2>1, <2>2, <2>3, MonStep
<1>3. CASE MonFinite
  <2>1. Mon("finite", "second") /\ "second" \in MonPcs
    BY <1>3 DEF MonFinite, MonPcs
  <2>2. MonitorType' /\ ClockType'
    BY <1>3, <2>1, MonStep, SameParts DEF MonFinite, MonitorType
  <2>3. SharedType' /\ HistoryType'
    BY <1>3, <1>a, <1>b, <2>1 DEF MonFinite
  <2> QED
    BY <2>1, <2>2, <2>3, MonStep
<1>4. CASE MonEndless \/ MonUnused
  <2>1. PICK from \in {"endless", "unused"} : Mon(from, "second") /\ "second" \in MonPcs
    BY <1>4 DEF MonEndless, MonUnused, MonPcs
  <2>2. MonitorType' /\ ClockType'
    BY <1>4, <2>1, MonStep, SameParts, WatchdogAssumption
    DEF MonEndless, MonUnused, MonitorType, ClockType
  <2>3. SharedType' /\ HistoryType'
    BY <1>4, <1>a, <2>1 DEF MonEndless, MonUnused
  <2> QED
    BY <2>1, <2>2, <2>3, MonStep
<1>5. CASE MonSecond
  <2>1. PICK to \in {"read", "late", "wait"} : Mon("second", to) /\ to \in MonPcs
    BY <1>5 DEF MonSecond, MonPcs
  <2>2. MonitorType' /\ ClockType'
    BY <1>5, <2>1, MonStep, WatchdogAssumption DEF MonSecond, MonitorType, ClockType
  <2>3. SharedType' /\ HistoryType'
    BY <1>5, <1>a, <2>1 DEF MonSecond
  <2> QED
    BY <2>1, <2>2, <2>3, MonStep
<1>6. CASE MonLate
  <2>1. PICK to \in {"read", "wait"} : Mon("late", to) /\ to \in MonPcs
    BY <1>6 DEF MonLate, MonPcs
  <2>2. MonitorType' /\ ClockType'
    BY <1>6, <2>1, MonStep, SameParts DEF MonLate, MonitorType
  <2>3. SharedType' /\ HistoryType'
    BY <1>6, <1>a, <2>1 DEF MonLate
  <2> QED
    BY <2>1, <2>2, <2>3, MonStep
<1>7. CASE MonRead
  <2>1. Mon("read", "write") /\ "write" \in MonPcs
    BY <1>7 DEF MonRead, MonPcs
  <2>2. MonitorType' /\ ClockType'
    BY <1>0, <1>7, <2>1, MonStep, SameParts DEF MonRead, MonitorType
  <2>3. SharedType' /\ HistoryType'
    BY <1>7, <1>a, <2>1 DEF MonRead
  <2> QED
    BY <2>1, <2>2, <2>3, MonStep
<1>8. CASE MonWrite
  <2>1. Mon("write", "stop") /\ "stop" \in MonPcs
    BY <1>8 DEF MonWrite, MonPcs
  <2>2. MonitorType' /\ ClockType'
    BY <1>8, <2>1, MonStep, SameParts DEF MonWrite, MonitorType
  <2>3. tmp - cntr \in Int
    BY DEF MonitorType
  <2>4. SharedType' /\ HistoryType'
    BY <1>8, <1>b, <2>1, <2>3 DEF MonWrite
  <2> QED
    BY <2>1, <2>2, <2>4, MonStep
<1>9. CASE MonFails
  <2>1. PICK from \in {"finite", "endless", "second"} : Mon(from, "wait")
    BY <1>9 DEF MonFails
  <2>2. "wait" \in MonPcs
    BY DEF MonPcs
  <2>3. MonitorType' /\ ClockType'
    BY <1>9, <2>1, <2>2, MonStep, SameParts DEF MonFails, MonitorType
  <2>4. SharedType' /\ HistoryType'
    BY <1>9, <1>a, <2>1, <2>2 DEF MonFails
  <2> QED
    BY <2>1, <2>2, <2>3, <2>4, MonStep
<1>10. CASE RestartCamera("mon")
  BY <1>10, RestartType DEF Threads
<1>11. CASE RcItem
  <2>1. Go("mon", "send", "send")
    BY <1>11 DEF RcItem
  <2>2. PcType' /\ pc'["main"] = pc["main"]
    BY <2>1, GoType DEF Threads, MonPcs
  <2>3. got' \in [items : 0..3, cmd : CommandType]
    BY <1>0, <1>11, ItemsType DEF RcItem, MonitorType
  <2>4. MonitorType'
    BY <1>11, <2>3 DEF RcItem, MonitorType
  <2>5. UNCHANGED <<controllers, shared, resp, job, clocks, camera, crashes, history>>
    BY <1>11 DEF RcItem
  <2>6. Holding'
    BY <2>2, <2>5, SameHolding DEF controllers, shared
  <2> QED
    BY <2>2, <2>4, <2>5, <2>6, SameParts
<1> QED
  BY <1>1, <1>2, <1>3, <1>4, <1>5, <1>6, <1>7, <1>8, <1>9, <1>10, <1>11 DEF Monitor

LEMMA MonEventType ==
  ASSUME TypeInv, MonEvent
  PROVE  TypeInv'
<1> USE DEF TypeInv
<1>1. ClockType'
  BY FirstCall DEF MonEvent, ClockType
<1> QED
  BY <1>1, SameParts, SameHolding DEF MonEvent, controllers, shared

\* Main's own steps.
LEMMA MainStep ==
  ASSUME TypeInv, NEW from, NEW to, to \in MainPcs, Main(from, to)
  PROVE  /\ InboxType' /\ PcType' /\ MonitorType' /\ ClockType' /\ CameraType'
         /\ pc["main"] = from /\ pc'["main"] = to /\ pc'["mon"] = pc["mon"]
         /\ inbox' = inbox /\ crashes' = crashes
BY GoType, SameParts DEF TypeInv, Main, Threads, controllers

LEMMA MainCallType ==
  ASSUME TypeInv, NEW c \in CommandType, NEW from, NEW to,
         from \notin {"off", "boot", "idle"}, to \in MainPcs \ (Busy \union {"ack"}),
         Send("main", from, to, c), UNCHANGED got
  PROVE  TypeInv'
<1> USE DEF TypeInv
<1>1. PcType' /\ pc["main"] = from /\ pc'["main"] = to
  BY GoType DEF Send, Threads
<1>2. CameraType'
  BY CallsType DEF Send, CameraType, Threads
<1>3. CallType' /\ MonitorType'
  BY DEF Send, CallType, MonitorType
<1>4. Holding'
  BY <1>1 DEF Send, Holding, controllers
<1> QED
  BY <1>1, <1>2, <1>3, <1>4, SameParts DEF Send

LEMMA MainAwaitType ==
  ASSUME TypeInv, NEW from, NEW answered, NEW timeout,
         from \notin {"off", "boot", "idle"},
         answered \in MainPcs \ (Busy \union {"ack"}),
         timeout \in MainPcs \ (Busy \union {"ack"}),
         Await("main", from, answered, timeout),
         UNCHANGED <<controllers, shared, job, registers, clocks, proc, session,
                     crashes, history>>
  PROVE  TypeInv'
<1> USE DEF TypeInv
<1>1. PICK to \in MainPcs \ (Busy \union {"ack"}) : Go("main", from, to)
  BY DEF Await
<1>2. PcType' /\ pc["main"] = from /\ pc'["main"] = to
  BY <1>1, GoType DEF Threads
<1>3. CameraType' /\ CallType'
  BY AwaitCamera, AwaitType
<1>4. Holding'
  BY <1>2 DEF Holding, controllers
<1> QED
  BY <1>2, <1>3, <1>4, SameParts

LEMMA MainThreadType ==
  ASSUME TypeInv, MainThread
  PROVE  TypeInv'
<1> USE DEF TypeInv
<1>1. CASE Boot
  <2> DEFINE to == IF saved \in {NoFile, Torn} THEN "idle" ELSE "stop"
  <2>1. Main("boot", to) /\ to \in MainPcs
    BY <1>1 DEF Boot, MainPcs
  <2>2. SharedType' /\ CallType' /\ HistoryType'
    BY <1>1, <2>1, MainStep DEF Boot, SharedType, CallType, HistoryType, shared, history
  <2>3. Holding'
    BY <1>1, <2>1, MainStep DEF Boot, Holding, SharedType, FileType, shared, Busy
  <2> QED
    BY <2>1, <2>2, <2>3, MainStep
<1>2. CASE Receive
  <2> DEFINE to == IF Head(inbox).cmd.status THEN "ask2" ELSE "update"
  <2>1. Main("idle", to) /\ to \in MainPcs
    BY <1>2 DEF Receive, MainPcs
  <2>2. SharedType' /\ CallType' /\ HistoryType'
    BY <1>2, <2>1, MainStep DEF Receive, SharedType, CallType, HistoryType, shared, history
  <2>3. Holding'
    BY <1>2, <2>1, MainStep DEF Receive, Holding
  <2> QED
    BY <2>1, <2>2, <2>3, MainStep
<1>3. CASE Update
  <2>1. Main("update", "open") /\ "open" \in MainPcs
    BY <1>3 DEF Update, MainPcs
  <2>2. pc["main"] = "update" /\ pc'["main"] = "open" /\ inbox' = inbox
    BY <2>1, MainStep
  <2>3. Current \in CommandType
    BY <2>2, CurrentType DEF Busy
  <2>4. job = "rpc" => Head(inbox).id \in 0..MaxCalls
    <3>1. SUFFICES ASSUME job = "rpc"
                   PROVE  Head(inbox).id \in 0..MaxCalls
      OBVIOUS
    <3>2. Head(inbox) \in Requests
      BY <2>2, <3>1, FirstCall DEF Holding, InboxType
    <3>3. Head(inbox).id \in 1..MaxCalls
      BY <3>2 DEF Requests
    <3> QED
      BY <3>3
  <2>5. want' \in StoredType
    BY <1>3, <2>3, <2>4 DEF Update, HistoryType, CallType, StoredType
  <2>6. HistoryType'
    BY <1>3, <2>1, <2>5, MainStep DEF Update, HistoryType
  <2>7. SharedType' /\ CallType'
    BY <1>3, <2>3 DEF Update, SharedType, CallType
  <2>8. Holding'
    BY <1>3, <2>2 DEF Update, Holding, Busy
  <2> QED
    BY <2>1, <2>6, <2>7, <2>8, MainStep
<1>4. CASE LensFails
  <2>1. Main("update", "reply") /\ "reply" \in MainPcs
    BY <1>4 DEF LensFails, MainPcs
  <2>2. SharedType' /\ CallType' /\ HistoryType'
    BY <1>4, <2>1, MainStep DEF LensFails, SharedType, CallType, HistoryType, shared, history
  <2>3. Holding'
    BY <1>4, <2>1, MainStep DEF LensFails, Holding, Busy
  <2> QED
    BY <2>1, <2>2, <2>3, MainStep
<1>5. CASE Open
  <2>1. Main("open", "dump") /\ "dump" \in MainPcs
    BY <1>5 DEF Open, MainPcs
  <2>2. SharedType' /\ CallType' /\ HistoryType'
    BY <1>5, <2>1, MainStep DEF Open, SharedType, CallType, HistoryType, FileType, history
  <2>3. Holding'
    BY <1>5, <2>1, MainStep DEF Open, Holding, Busy
  <2> QED
    BY <2>1, <2>2, <2>3, MainStep
<1>6. CASE Dump
  <2>1. Main("dump", "order") /\ "order" \in MainPcs
    BY <1>6 DEF Dump, MainPcs
  <2>2. SharedType' /\ CallType'
    BY <1>6 DEF Dump, SharedType, CallType, FileType
  <2>3. HistoryType'
    BY <1>6, <2>1, MainStep DEF Dump, HistoryType
  <2>4. Holding'
    BY <1>6, <2>1, MainStep DEF Dump, Holding, Busy
  <2> QED
    BY <2>1, <2>2, <2>3, <2>4, MainStep
<1>7. CASE OrderSent
  BY <1>7, MainCallType DEF OrderSent, SharedType, MainPcs, Busy
<1>8. CASE OrderDone
  BY <1>8, MainAwaitType DEF OrderDone, MainPcs, Busy
<1>9. CASE Ask
  BY <1>9, Records, MainCallType DEF Ask, MainPcs, Busy
<1>10. CASE Asked
  BY <1>10, MainAwaitType DEF Asked, MainPcs, Busy
<1>11. CASE Replayed
  <2>1. PICK from \in {"ok", "reply"} : Main(from, "idle")
    BY <1>11 DEF Replayed
  <2>2. SharedType' /\ CallType' /\ HistoryType'
    BY <1>11, <2>1 DEF Replayed, Main, SharedType, CallType, HistoryType, shared, history
  <2>3. Holding'
    BY <2>1, MainStep DEF Holding, Busy, MainPcs
  <2> QED
    BY <2>1, <2>2, <2>3, MainStep DEF MainPcs
<1>12. CASE Reply
  <2>1. PICK from \in {"ok", "reply"} : Main(from, "ack")
    BY <1>12 DEF Reply
  <2>2. pc["main"] = from /\ pc'["main"] = "ack" /\ inbox' = inbox /\ job = "rpc"
    BY <1>12, <2>1, MainStep DEF Reply, MainPcs
  <2>3. Head(inbox) \in Requests
    BY <2>2, FirstCall DEF Holding, InboxType
  <2>4. done' \in {done, Head(inbox).id} /\ Head(inbox).id \in 1..MaxCalls
    BY <1>12, <2>3 DEF Reply, Requests
  <2>5. done' \in 0..MaxCalls
    BY <2>4 DEF HistoryType
  <2>6. SharedType' /\ CallType' /\ HistoryType'
    BY <1>12, <2>1, <2>5 DEF Reply, Main, SharedType, CallType, HistoryType, shared
  <2>7. Holding'
    BY <1>12, <2>2 DEF Reply, Holding, Busy
  <2> QED
    BY <2>1, <2>6, <2>7, MainStep DEF MainPcs
<1>13. CASE Ack
  <2>1. PcType' /\ pc["main"] = "ack" /\ pc'["main"] = "idle"
    BY <1>13, GoType DEF Ack, Threads, MainPcs
  <2>2. UNCHANGED <<sent, shared, resp, job, registers, clocks, camera, crashes, history>>
    BY <1>13 DEF Ack
  <2>3. Holding'
    BY <2>1 DEF Holding, Busy
  <2>4. inbox' \in Seq(Requests)
    BY <1>13, <2>1, FirstCall DEF Ack, InboxType, Holding
  <2> QED
    BY <2>1, <2>2, <2>3, <2>4, SameParts DEF InboxType
<1>14. CASE RestartCamera("main")
  BY <1>14, RestartType DEF Threads
<1> QED
  BY <1>1, <1>2, <1>3, <1>4, <1>5, <1>6, <1>7, <1>8, <1>9, <1>10, <1>11, <1>12, <1>13,
     <1>14
  DEF MainThread

LEMMA TypeNext == TypeInv /\ [Next]_vars => TypeInv'
<1>1. CASE UNCHANGED vars
  <2>1. TypeInv /\ UNCHANGED vars => TypeInv'
    BY SameParts DEF TypeInv, vars, Holding, controllers, shared
  <2> QED
    BY <1>1, <2>1
<1> QED
  BY <1>1, EnvironmentType, MonitorStepType, MonEventType, MainThreadType DEF Next

(* Every variable keeps its type, and main never processes a request that   *)
(* is not at the head of its queue: what on_rpc_request and                 *)
(* _replay_prev_command work on is a command, whatever ends when.           *)
THEOREM WatchdogTypeCorrect == Spec => []TypeOK
<1>1. Spec => []TypeInv
  BY TypeInit, TypeNext, PTL DEF Spec
<1>2. TypeInv => TypeOK
  BY TypeParts
<1> QED
  BY <1>1, <1>2, PTL

------------------------------------------------------------------------------
(* The monitor decides to restart what is silent, and nothing else.           *)

\* _current_timestamp is never older than the last image, unless its event is
\* not handled yet; then the last event is that image's.
AgeInv ==
  /\ events = <<>> => age <= quiet
  /\ events # <<>> => events[Len(events)] = quiet
  /\ pc["mon"] = "off" => events = <<>> /\ age = 0

\* A monitor's step is made, and leaves the monitor, where it runs.
LEMMA MonRuns ==
  ASSUME TypeInv, Monitor
  PROVE  pc["mon"] # "off" /\ pc'["mon"] # "off"
<1>1. \A from, to : Go("mon", from, to) => pc["mon"] = from /\ pc'["mon"] = to
  BY DEF Go, TypeInv, PcType, Threads
<1>2. After("mon") # "off"
  BY DEF After, TypeInv, MonitorType
<1>3. \A from, to : Mon(from, to) => Go("mon", from, to)
  BY DEF Mon
<1>4. CASE RestartCamera("mon")
  BY <1>1, <1>2, <1>4 DEF RestartCamera, RcStop, RcStart, RcFails, RcSend, RcDone, Send,
                          Await
<1>5. CASE ~RestartCamera("mon")
  <2>1. \E from \in MonPcs \ {"off"}, to \in MonPcs \ {"off"} : Go("mon", from, to)
    BY <1>3, <1>5 DEF Monitor, MonWake, MonFirst, MonFinite, MonEndless, MonUnused,
                      MonSecond, MonLate, MonRead, MonWrite, MonFails, RcItem,
                      MonPcs
  <2> QED
    BY <1>1, <2>1
<1> QED
  BY <1>4, <1>5

\* Main does not move the monitor.
LEMMA MainApart ==
  ASSUME TypeInv, MainThread
  PROVE  pc'["mon"] = pc["mon"]
<1>1. \A from, to : Go("main", from, to) => pc'["mon"] = pc["mon"]
  BY DEF Go, TypeInv, PcType, Threads
<1>2. \E from, to : Go("main", from, to)
  BY DEF MainThread, Boot, Receive, Update, LensFails, Open, Dump, OrderSent, OrderDone,
         Ask, Asked, Replayed, Reply, Ack, Main, Send, Await, RestartCamera, RcStop,
         RcStart, RcFails, RcSend, RcDone
<1> QED
  BY <1>1, <1>2

\* The steps that touch the clocks.
LEMMA Clocks ==
  ASSUME TypeInv, Next
  PROVE  \/ UNCHANGED clocks /\ (pc'["mon"] = "off" => pc["mon"] = "off")
         \/ age' = 0 /\ UNCHANGED <<events, quiet>> /\ pc'["mon"] # "off"
         \/ Ages /\ pc'["mon"] # "off"
         \/ Image \/ WdCrash \/ MonEvent
<1>1. CASE Environment
  BY <1>1 DEF Environment, Call, CamHandle, CamCrash, Autorestart, WdStart, Threads
<1>2. ASSUME NEW t \in Threads, RestartCamera(t)
      PROVE  UNCHANGED clocks \/ (t = "mon" /\ age' = 0 /\ UNCHANGED <<events, quiet>>)
  <2>1. Returned(t) => age' = age \/ (t = "mon" /\ age' = 0)
    BY DEF Returned
  <2>2. RcStop(t) \/ RcStart(t) \/ RcSend(t) => UNCHANGED clocks
    BY DEF RcStop, RcStart, RcSend, Send
  <2>3. RcFails(t) \/ RcDone(t) => Returned(t) /\ UNCHANGED <<events, quiet>>
    BY DEF RcFails, RcDone
  <2> QED
    BY <1>2, <2>1, <2>2, <2>3 DEF RestartCamera, clocks
<1>3. CASE Monitor
  <2>1. UNCHANGED clocks \/ (age' = 0 /\ UNCHANGED <<events, quiet>>) \/ Ages
    <3>1. CASE RestartCamera("mon")
      BY <1>2, <3>1 DEF Threads
    <3>2. CASE MonWake \/ MonFirst("finite") \/ MonFirst("endless") \/ MonFinite \/ MonEndless
      BY <3>2 DEF MonWake, MonFirst, MonFinite, MonEndless
    <3>3. CASE MonUnused \/ MonSecond \/ MonLate \/ MonRead \/ MonWrite \/ MonFails
      BY <3>3 DEF MonUnused, MonSecond, MonLate, MonRead, MonWrite, MonFails, clocks
    <3>4. CASE RcItem
      BY <3>4 DEF RcItem
    <3> QED
      BY <1>3, <3>1, <3>2, <3>3, <3>4 DEF Monitor
  <2> QED
    BY <1>3, <2>1, MonRuns
<1>4. CASE MainThread
  <2>1. UNCHANGED clocks
    BY <1>2, <1>4 DEF MainThread, Boot, Receive, Update, LensFails, Open, Dump, OrderSent,
                      OrderDone, Ask, Asked, Replayed, Reply, Ack, Main, Send, Threads
  <2> QED
    BY <1>4, <2>1, MainApart
<1> QED
  BY <1>1, <1>3, <1>4 DEF Next

LEMMA AgeNext == TypeInv /\ AgeInv /\ [Next]_vars => AgeInv'
<1> SUFFICES ASSUME TypeInv, AgeInv, [Next]_vars
             PROVE  AgeInv'
  OBVIOUS
<1>1. age \in Nat /\ quiet \in Nat /\ MaxAge \in Nat /\ events \in Seq(0..MaxAge)
  BY WatchdogAssumption DEF TypeInv, ClockType
<1>2. CASE UNCHANGED clocks /\ (pc'["mon"] = "off" => pc["mon"] = "off")
  BY <1>2 DEF clocks, AgeInv
<1>3. CASE age' = 0 /\ UNCHANGED <<events, quiet>> /\ pc'["mon"] # "off"
  BY <1>1, <1>3 DEF AgeInv
<1>4. CASE Ages /\ pc'["mon"] # "off"
  <2>1. /\ Len(events) \in Nat /\ DOMAIN events = 1..Len(events)
        /\ Len(events') = Len(events)
        /\ \A i \in 1..Len(events) : events'[i] = Older(events[i])
    <3>1. Len(events) \in Nat /\ DOMAIN events = 1..Len(events)
      BY <1>1, SeqParts
    <3> QED
      BY <1>4, <3>1 DEF Ages
  <2>2. CASE events = <<>>
    <3>1. events' = <<>>
      <4>1. events' = [i \in 1..0 |-> Older(events[i])]
        BY <1>4, <2>1, <2>2 DEF Ages
      <4> QED
        BY <4>1
    <3> QED
      BY <1>1, <1>4, <2>2, <3>1 DEF Ages, AgeInv, Older
  <2>3. CASE events # <<>>
    <3>1. Len(events) \in 1..Len(events)
      BY <1>1, <2>1, <2>3
    <3>2. events' # <<>> /\ events'[Len(events')] = Older(events[Len(events)])
      BY <2>1, <3>1
    <3> QED
      BY <1>4, <2>3, <3>2 DEF Ages, AgeInv
  <2> QED
    BY <2>2, <2>3
<1>5. CASE Image
  <2>1. CASE pc["mon"] = "off"
    BY <1>5, <2>1 DEF Image, AgeInv
  <2>2. CASE pc["mon"] # "off"
    <3>1. events' = Append(events, 0) /\ quiet' = 0 /\ pc' = pc
      BY <1>5, <2>2 DEF Image
    <3>2. events' # <<>> /\ events'[Len(events')] = 0
      BY <1>1, <3>1, WatchdogAssumption
    <3> QED
      BY <2>2, <3>1, <3>2 DEF AgeInv
  <2> QED
    BY <2>1, <2>2
<1>6. CASE WdCrash
  BY <1>1, <1>6 DEF WdCrash, AgeInv
<1>7. CASE MonEvent
  <2>1. /\ events # <<>> /\ age' = Head(events) /\ events' = Tail(events)
        /\ quiet' = quiet /\ pc' = pc
    BY <1>7 DEF MonEvent
  <2>2. /\ Len(events) \in Nat \ {0} /\ Head(events) = events[1]
        /\ Len(events') = Len(events) - 1
        /\ \A i \in 1..Len(events') : events'[i] = events[i + 1]
    BY <1>1, <2>1
  <2>3. CASE Len(events) = 1
    <3>1. events' = <<>>
      BY <1>1, <2>1, <2>2, <2>3
    <3> QED
      BY <1>1, <2>1, <2>2, <2>3, <3>1 DEF AgeInv
  <2>4. CASE Len(events) # 1
    <3>1. Len(events') \in 1..Len(events') /\ Len(events') + 1 = Len(events)
      BY <2>2, <2>4
    <3>2. events'[Len(events')] = events[Len(events)] /\ events' # <<>>
      BY <2>2, <3>1
    <3> QED
      BY <2>1, <3>2 DEF AgeInv
  <2> QED
    BY <2>3, <2>4
<1>8. CASE UNCHANGED vars
  BY <1>8 DEF vars, clocks, AgeInv
<1> QED
  BY <1>2, <1>3, <1>4, <1>5, <1>6, <1>7, <1>8, Clocks

\* Who takes the monitor to where it restarts the capture process.
LEMMA WhoReads ==
  ASSUME TypeInv, Next, pc["mon"] # "read", pc'["mon"] = "read"
  PROVE  \/ ~Running
         \/ age >= Late(cmds.interval)
         \/ age >= Stale(cmds.interval)
<1> USE DEF TypeInv
<1>1. CASE Environment \/ MonEvent
  BY <1>1 DEF Environment, Call, CamHandle, CamCrash, Autorestart, Image, WdCrash,
              WdStart, Threads, MonEvent
<1>2. ASSUME NEW from, NEW to, Go("mon", from, to)
      PROVE  to = "read"
  BY <1>2 DEF Go, PcType, Threads
<1>3. After("mon") # "read"
  BY DEF After, MonitorType
<1>4. ~RestartCamera("mon") /\ ~RcItem
  BY <1>2, <1>3 DEF RestartCamera, RcStop, RcStart, RcFails, RcSend, RcDone, Send, Await,
                    RcItem
<1>5. CASE Monitor
  <2>1. ASSUME NEW from, NEW to, Mon(from, to)
        PROVE  to = "read"
    BY <1>2, <2>1 DEF Mon
  <2>2. ~(MonWake \/ MonFinite \/ MonEndless \/ MonUnused \/ MonRead \/ MonWrite
          \/ MonFails)
    BY <2>1 DEF MonWake, MonFinite, MonEndless, MonUnused, MonRead, MonWrite, MonFails
  <2>3. CASE MonFirst("finite") \/ MonFirst("endless")
    BY <2>3 DEF MonFirst
  <2>4. CASE MonSecond
    BY <2>1, <2>4 DEF MonSecond
  <2>5. CASE MonLate
    BY <2>1, <2>5 DEF MonLate
  <2> QED
    BY <1>4, <1>5, <2>2, <2>3, <2>4, <2>5 DEF Monitor
<1> QED
  BY <1>1, <1>5, MainApart DEF Next

(* When the monitor decides to take a running capture process down, the     *)
(* last image was closed as long ago as the limit of the session in the     *)
(* dictionary, or its event is still to be handled; for any limits and      *)
(* commands: the time check_timestamp measures from may be set back by an   *)
(* event that is late, and then a later one follows.                        *)
THEOREM DecisionsHaveCause == Spec => DecisionsAreDue
<1>1. Init => AgeInv
  BY DEF Init, AgeInv
<1>2. TypeInv /\ AgeInv /\ [Next]_vars
      => [pc["mon"] # "read" /\ pc'["mon"] = "read" /\ Running
            => events # <<>> \/ quiet >= Limit(cmds.interval)]_vars
  <2> SUFFICES ASSUME TypeInv, AgeInv, Next, Running, events = <<>>,
                      pc["mon"] # "read", pc'["mon"] = "read"
               PROVE  quiet >= Limit(cmds.interval)
    OBVIOUS
  <2>1. age >= Late(cmds.interval) \/ age >= Stale(cmds.interval)
    BY WhoReads
  <2>2. age \in 0..MaxAge /\ quiet \in 0..MaxAge /\ age <= quiet
    BY DEF TypeInv, ClockType, AgeInv
  <2>3. cmds.interval \in Nat
    BY DEF TypeInv, SharedType, CommandType
  <2>4. Late(cmds.interval) \in Int /\ Stale(cmds.interval) \in Int
    BY <2>3, WatchdogAssumption DEF Late, Stale
  <2> QED
    BY <2>1, <2>2, <2>4, WatchdogAssumption DEF Limit
<1> QED
  BY <1>1, <1>2, TypeInit, TypeNext, AgeNext, PTL DEF Spec, DecisionsAreDue

------------------------------------------------------------------------------
(* What was answered with "OK" survives one end of the watchdog.              *)

\* The watchdog ends once, and the lens works.
OneEnd == MaxCrashes <= 1 /\ "lens" \notin Faults

\* Where main is: it has no command yet; it stores one; it has stored it.
Early   == {"off", "boot", "idle"}
Storing == {"update", "open", "dump"}
Passing == {"order", "ordered", "ask1", "asked1", "ask2", "asked2", "ok"}
Restart == {"stop", "start", "send", "await"}

\* The commands in the queue are the ones sent last, in the order of sending.
InOrder ==
  /\ done <= sent
  /\ \A k \in 1..Len(inbox) : done <= inbox[k].id /\ inbox[k].id <= sent
  /\ \A j, k \in 1..Len(inbox) : j < k => inbox[j].id < inbox[k].id

\* The request at the head of the queue and the file.
AtRequest ==
  job = "rpc" =>
    /\ pc["main"] \in {"open", "dump"} => want.id = Head(inbox).id
    /\ pc["main"] \in Storing => ~Head(inbox).cmd.status
    /\ pc["main"] \in Passing /\ ~Head(inbox).cmd.status => kept.id = Head(inbox).id
    /\ pc["main"] \notin Restart

\* A replay writes back what it read; before the first end there is none.
AtReplay ==
  job = "replay" =>
    /\ pc["main"] \in {"open", "dump"} => want.id = kept.id
    /\ pc["main"] \notin Early => crashes > 0
    /\ crashes = 0 => saved = NoFile

\* A file that main does not write is torn only after the end, and then the
\* command that tore it is served again.
FileInv ==
  /\ done <= kept.id
  /\ crashes = 0 /\ pc["main"] \in {"off", "boot"} => job = "replay"
  /\ saved = Torn /\ pc["main"] # "dump" =>
       /\ crashes > 0 /\ inbox # <<>> /\ ~Head(inbox).cmd.status
       /\ pc["main"] \in Early \/ (job = "rpc" /\ pc["main"] \in {"update", "open"})

KeptInv == InOrder /\ AtRequest /\ AtReplay /\ FileInv

\* The dictionary, until main has saved it, and the file.
MatchInv ==
  /\ pc["main"] \in {"open", "dump"} => FileHas(cmds, want)
  /\ saved \in CommandType => FileHas(saved, kept)

LEMMA KeptInit == Init => KeptInv
<1> SUFFICES ASSUME Init
             PROVE  KeptInv
  OBVIOUS
<1>1. pc["main"] = "off" /\ Len(inbox) = 0
  BY DEF Init, Threads
<1>2. InOrder
  BY <1>1 DEF Init, InOrder
<1> QED
  BY <1>1, <1>2, Records DEF Init, KeptInv, AtRequest, AtReplay, FileInv, Early, Storing,
                             Passing, Restart

LEMMA KeptEnough == KeptInv /\ MatchInv /\ TypeInv => NothingForgotten
<1> SUFFICES ASSUME KeptInv, MatchInv, TypeInv
             PROVE  NothingForgotten
  OBVIOUS
<1>1. inbox # <<>> => Head(inbox) = inbox[1] /\ 1 \in 1..Len(inbox)
  BY DEF TypeInv, InboxType
<1>2. inbox # <<>> => Head(inbox).id >= done
  <2>1. inbox # <<>> => Head(inbox) \in Requests
    BY FirstCall DEF TypeInv, InboxType
  <2>2. inbox # <<>> => Head(inbox).id \in Nat
    BY <2>1 DEF Requests
  <2> QED
    BY <1>1, <2>2 DEF KeptInv, InOrder, TypeInv, HistoryType
<1> QED
  BY <1>2 DEF KeptInv, FileInv, MatchInv, NothingForgotten

\* A step of somebody else: main, the file and the head of the queue stay.
LEMMA Aside ==
  ASSUME TypeInv, KeptInv, InOrder', pc'["main"] = pc["main"],
         UNCHANGED <<saved, job, crashes, kept, done>>, want'.id = want.id,
         inbox # <<>> => inbox' # <<>> /\ Head(inbox') = Head(inbox)
  PROVE  KeptInv'
<1>1. AtRequest'
  BY DEF KeptInv, AtRequest, TypeInv, Holding, Storing, Passing
<1>2. AtReplay' /\ FileInv'
  BY DEF KeptInv, AtReplay, FileInv
<1> QED
  BY <1>1, <1>2 DEF KeptInv

LEMMA RestartAside ==
  ASSUME NEW t \in Threads, RestartCamera(t)
  PROVE  UNCHANGED <<inbox, sent, cmds, saved, job, crashes, want, kept, done>>
  BY DEF RestartCamera, RcStop, RcStart, RcFails, RcSend, RcDone, Send, controllers,
         shared, history

\* The monitor touches the dictionary and nothing else of what main stores.
LEMMA MonitorAside ==
  ASSUME TypeInv, Monitor
  PROVE  /\ UNCHANGED <<inbox, sent, saved, job, crashes, kept, done>>
         /\ pc'["main"] = pc["main"]
         /\ UNCHANGED <<cmds, want>> \/ \E n \in Int : Stores(n)
<1>1. ASSUME NEW from, NEW to, Mon(from, to)
      PROVE  /\ UNCHANGED <<inbox, sent, saved, job, crashes, kept, done>>
             /\ pc'["main"] = pc["main"]
  BY <1>1 DEF Mon, Go, controllers, TypeInv, PcType, Threads
<1>2. CASE RestartCamera("mon")
  <2>1. \E from, to : Go("mon", from, to)
    BY <1>2 DEF RestartCamera, RcStop, RcStart, RcFails, RcSend, RcDone, Send, Await
  <2>2. pc'["main"] = pc["main"]
    BY <2>1 DEF Go, TypeInv, PcType, Threads
  <2> QED
    BY <1>2, <2>2, RestartAside DEF Threads
<1>3. CASE RcItem
  BY <1>3 DEF RcItem, Go, controllers, shared, history, TypeInv, PcType, Threads
<1>4. CASE ~(RestartCamera("mon") \/ RcItem)
  <2>1. \E from, to : Mon(from, to)
    BY <1>4 DEF Monitor, MonWake, MonFirst, MonFinite, MonEndless, MonUnused, MonSecond,
                MonLate, MonRead, MonWrite, MonFails
  <2>2. 0 \in Int /\ tmp - cntr \in Int
    BY DEF TypeInv, MonitorType
  <2>3. UNCHANGED <<cmds, want>> \/ Stores(0) \/ Stores(tmp - cntr)
    BY <1>4 DEF Monitor, MonWake, MonFirst, MonFinite, MonEndless, MonUnused, MonSecond,
                MonLate, MonRead, MonWrite, MonFails
  <2> QED
    BY <1>1, <2>1, <2>2, <2>3
<1> QED
  BY <1>2, <1>3, <1>4

LEMMA MonitorKept ==
  ASSUME TypeInv, KeptInv, Monitor
  PROVE  KeptInv'
<1>1. UNCHANGED <<inbox, sent, saved, job, crashes, kept, done>> /\ pc'["main"] = pc["main"]
  BY MonitorAside
<1>2. want'.id = want.id
  <2>1. \A n : Stores(n) => want'.id = want.id
    BY DEF Stores, TypeInv, HistoryType, StoredType
  <2> QED
    BY <2>1, MonitorAside
<1>3. InOrder'
  BY <1>1 DEF KeptInv, InOrder
<1> QED
  BY <1>1, <1>2, <1>3, Aside

LEMMA KeptEnvironment ==
  ASSUME OneEnd, TypeInv, KeptInv, Environment
  PROVE  KeptInv'
<1> USE DEF TypeInv
<1>1. ASSUME NEW c \in Commands, Call(c)
      PROVE  KeptInv'
  <2> DEFINE r == [id |-> sent + 1, cmd |-> c]
  <2>1. /\ inbox \in Seq(Requests) /\ sent \in Nat /\ sent' = sent + 1
        /\ inbox' = Append(inbox, r) /\ done' = done /\ r.id = sent + 1
    BY <1>1, WatchdogAssumption DEF Call, InboxType, history
  <2>2. /\ Len(inbox') = Len(inbox) + 1 /\ inbox'[Len(inbox) + 1] = r
        /\ \A k \in 1..Len(inbox) : inbox'[k] = inbox[k] /\ inbox[k].id \in Nat
    <3>1. \A k \in 1..Len(inbox) : inbox[k] \in Requests
      BY <2>1
    <3>2. \A x \in Requests : x.id \in Nat
      BY DEF Requests
    <3>3. /\ Len(Append(inbox, r)) = Len(inbox) + 1
          /\ Append(inbox, r)[Len(inbox) + 1] = r
          /\ \A k \in 1..Len(inbox) : Append(inbox, r)[k] = inbox[k]
      BY <2>1
    <3> QED
      BY <2>1, <3>1, <3>2, <3>3
  <2>3. /\ done <= sent /\ done \in Nat /\ Len(inbox) \in Nat
        /\ \A k \in 1..Len(inbox) : done <= inbox[k].id /\ inbox[k].id <= sent
        /\ \A j, k \in 1..Len(inbox) : j < k => inbox[j].id < inbox[k].id
    BY <2>1 DEF KeptInv, InOrder, HistoryType
  <2>4. \A k \in 1..Len(inbox') : k \in 1..Len(inbox) \/ k = Len(inbox) + 1
    BY <2>2, <2>3
  <2>5. \A k \in 1..Len(inbox') : done' <= inbox'[k].id /\ inbox'[k].id <= sent'
    BY <2>1, <2>2, <2>3, <2>4
  <2>6. \A j, k \in 1..Len(inbox') : j < k => inbox'[j].id < inbox'[k].id
    <3> SUFFICES ASSUME NEW j \in 1..Len(inbox'), NEW k \in 1..Len(inbox'), j < k
                 PROVE  inbox'[j].id < inbox'[k].id
      OBVIOUS
    <3>1. j \in 1..Len(inbox)
      BY <2>2, <2>3, <2>4
    <3>2. CASE k \in 1..Len(inbox)
      BY <2>2, <2>3, <3>1, <3>2
    <3>3. CASE k = Len(inbox) + 1
      <4>1. inbox'[k].id = sent + 1 /\ inbox'[j].id = inbox[j].id
        BY <2>1, <2>2, <3>1, <3>3
      <4>2. inbox[j].id \in Nat /\ inbox[j].id <= sent /\ sent \in Nat
        BY <2>1, <2>2, <2>3, <3>1
      <4> QED
        BY <4>1, <4>2
    <3> QED
      BY <2>4, <3>2, <3>3
  <2>7. InOrder'
    BY <2>1, <2>3, <2>5, <2>6 DEF InOrder
  <2>8. inbox # <<>> => inbox' # <<>> /\ Head(inbox') = Head(inbox)
    BY <2>1
  <2> QED
    BY <1>1, <2>7, <2>8, Aside DEF Call, shared, history
<1>2. CASE CamHandle \/ CamCrash \/ Autorestart \/ Image
  <2>1. UNCHANGED <<inbox, sent, saved, pc, job, crashes, want, kept, done>>
    BY <1>2 DEF CamHandle, CamCrash, Autorestart, Image, controllers, shared, history
  <2>2. InOrder'
    BY <2>1 DEF KeptInv, InOrder
  <2> QED
    BY <2>1, <2>2, Aside
<1>3. CASE WdCrash
  <2>1. /\ UNCHANGED <<inbox, sent, saved, job, want, kept, done>>
        /\ crashes' > 0 /\ crashes = 0 /\ pc["main"] # "off" /\ pc'["main"] = "off"
    BY <1>3, WatchdogAssumption
    DEF WdCrash, controllers, history, OneEnd, HistoryType, Threads
  <2>2. saved = Torn => inbox # <<>> /\ ~Head(inbox).cmd.status
    <3>1. job = "replay" => saved # Torn
      BY <2>1, Records DEF KeptInv, AtReplay
    <3>2. CASE job = "rpc" /\ pc["main"] = "dump"
      BY <3>2 DEF KeptInv, AtRequest, Storing, Holding
    <3> QED
      BY <2>1, <3>1, <3>2 DEF KeptInv, FileInv, CallType
  <2>3. InOrder'
    BY <2>1 DEF KeptInv, InOrder
  <2>4. AtRequest' /\ AtReplay' /\ FileInv'
    BY <2>1, <2>2 DEF KeptInv, AtRequest, AtReplay, FileInv, Early, Storing, Passing, Restart
  <2> QED
    BY <2>3, <2>4 DEF KeptInv
<1>4. CASE WdStart
  <2>1. /\ UNCHANGED <<inbox, sent, saved, job, crashes, want, kept, done>>
        /\ pc["main"] = "off" /\ pc'["main"] = "boot"
    BY <1>4 DEF WdStart, controllers, shared, history, Threads
  <2>2. InOrder'
    BY <2>1 DEF KeptInv, InOrder
  <2>3. AtRequest' /\ AtReplay' /\ FileInv'
    BY <2>1 DEF KeptInv, AtRequest, AtReplay, FileInv, Early, Storing, Passing, Restart
  <2> QED
    BY <2>2, <2>3 DEF KeptInv
<1> QED
  BY <1>1, <1>2, <1>3, <1>4 DEF Environment

LEMMA KeptMain ==
  ASSUME OneEnd, TypeInv, KeptInv, MainThread
  PROVE  KeptInv'
<1> USE DEF TypeInv
<1> DEFINE Rest == UNCHANGED <<inbox, sent, crashes, done>>
<1>1. ASSUME NEW from, NEW to, to \in MainPcs, Main(from, to)
      PROVE  /\ pc["main"] = from /\ pc'["main"] = to
             /\ UNCHANGED <<inbox, sent, crashes>>
  BY <1>1, MainStep DEF Main, controllers
<1>2. ASSUME NEW from, NEW to, Go("main", from, to)
      PROVE  pc["main"] = from /\ pc'["main"] = to
  BY <1>2 DEF Go, PcType, Threads
<1>3. UNCHANGED <<inbox, sent, done>> => InOrder'
  BY DEF KeptInv, InOrder
<1>4. job \in {"replay", "rpc"}
  BY DEF CallType
<1>5. CASE Boot
  <2>1. /\ pc["main"] = "boot" /\ pc'["main"] = IF saved \in {NoFile, Torn} THEN "idle" ELSE "stop"
        /\ job' = "replay" /\ UNCHANGED <<saved, want, kept>> /\ Rest
    BY <1>1, <1>5 DEF Boot, shared, history, MainPcs
  <2>2. AtRequest' /\ AtReplay' /\ FileInv'
    BY <2>1, Records, WatchdogAssumption
    DEF KeptInv, AtRequest, AtReplay, FileInv, Early, Restart, HistoryType
  <2> QED
    BY <1>3, <2>1, <2>2 DEF KeptInv
<1>6. CASE Receive
  <2> DEFINE to == IF Head(inbox).cmd.status THEN "ask2" ELSE "update"
  <2>1. /\ pc["main"] = "idle" /\ pc'["main"] = to
        /\ job' = "rpc" /\ UNCHANGED <<saved, want, kept>> /\ Rest
    BY <1>1, <1>6 DEF Receive, shared, history, MainPcs
  <2>2. AtRequest' /\ AtReplay' /\ FileInv'
    BY <2>1 DEF KeptInv, AtRequest, AtReplay, FileInv, Early, Storing, Passing, Restart
  <2> QED
    BY <1>3, <2>1, <2>2 DEF KeptInv
<1>7. CASE Update
  <2>1. /\ pc["main"] = "update" /\ pc'["main"] = "open"
        /\ want'.id = IF job = "replay" THEN kept.id ELSE Head(inbox).id
        /\ UNCHANGED <<saved, job, kept>> /\ Rest
    BY <1>1, <1>7 DEF Update, MainPcs
  <2>2. AtRequest' /\ AtReplay' /\ FileInv'
    BY <1>4, <2>1 DEF KeptInv, AtRequest, AtReplay, FileInv, Early, Storing, Passing, Restart
  <2> QED
    BY <1>3, <2>1, <2>2 DEF KeptInv
<1>8. ~LensFails
  BY DEF LensFails, OneEnd
<1>9. CASE Open
  <2>1. /\ pc["main"] = "open" /\ pc'["main"] = "dump" /\ saved' = Torn
        /\ UNCHANGED <<job, want, kept>> /\ Rest
    BY <1>1, <1>9 DEF Open, history, MainPcs
  <2>2. AtRequest' /\ AtReplay' /\ FileInv'
    BY <1>4, <2>1, Records, WatchdogAssumption
    DEF KeptInv, AtRequest, AtReplay, FileInv, Early, Storing, Passing, Restart, HistoryType
  <2> QED
    BY <1>3, <2>1, <2>2 DEF KeptInv
<1>10. CASE Dump
  <2>1. /\ pc["main"] = "dump" /\ pc'["main"] = "order"
        /\ saved' \in CommandType /\ kept' = want
        /\ UNCHANGED <<job, want>> /\ Rest
    BY <1>1, <1>10 DEF Dump, MainPcs, SharedType
  <2>2. job = "rpc" => done <= want.id
    <3>1. job = "rpc" => 1 \in 1..Len(inbox) /\ Head(inbox) = inbox[1]
      BY <2>1 DEF Holding, InboxType
    <3> QED
      BY <2>1, <3>1 DEF KeptInv, InOrder, AtRequest
  <2>3. done' <= kept'.id
    BY <1>4, <2>1, <2>2 DEF KeptInv, AtReplay, FileInv, HistoryType
  <2>4. AtRequest' /\ AtReplay' /\ FileInv'
    BY <2>1, <2>3, Records, WatchdogAssumption
    DEF KeptInv, AtRequest, AtReplay, FileInv, Early, Storing, Passing, Restart, HistoryType
  <2> QED
    BY <1>3, <2>1, <2>4 DEF KeptInv
<1>11. CASE OrderSent \/ OrderDone \/ Ask \/ Asked
  <2>1. PICK from \in Passing, to \in Passing \union {"reply"} : Go("main", from, to)
    BY <1>11 DEF OrderSent, OrderDone, Ask, Asked, Send, Await, Passing
  <2>2. UNCHANGED <<saved, job, want, kept>> /\ Rest
    BY <1>11 DEF OrderSent, OrderDone, Ask, Asked, Send, controllers, shared, history
  <2>3. pc["main"] = from /\ pc'["main"] = to
    BY <1>2, <2>1
  <2>4. AtRequest' /\ AtReplay' /\ FileInv'
    BY <2>2, <2>3 DEF KeptInv, AtRequest, AtReplay, FileInv, Early, Storing, Passing, Restart
  <2> QED
    BY <1>3, <2>2, <2>4 DEF KeptInv
<1>12. CASE Replayed
  <2>1. PICK from \in {"ok", "reply"} : Main(from, "idle")
    BY <1>12 DEF Replayed
  <2>2. /\ pc["main"] \in {"ok", "reply"} /\ pc'["main"] = "idle"
        /\ UNCHANGED <<saved, job, want, kept>> /\ Rest
    BY <1>1, <1>12, <2>1 DEF Replayed, shared, history, MainPcs
  <2>3. AtRequest' /\ AtReplay' /\ FileInv'
    BY <2>2 DEF KeptInv, AtRequest, AtReplay, FileInv, Early, Storing, Passing, Restart
  <2> QED
    BY <1>3, <2>2, <2>3 DEF KeptInv
<1>13. CASE Reply
  <2>1. /\ pc["main"] \in {"ok", "reply"} /\ pc'["main"] = "ack" /\ job = "rpc"
        /\ UNCHANGED <<inbox, sent, crashes, saved, job, want, kept>>
        /\ \/ UNCHANGED done
           \/ /\ pc["main"] = "ok" /\ ~Head(inbox).cmd.status /\ done' = Head(inbox).id
    BY <1>1, <1>13 DEF Reply, shared, MainPcs
  <2>2. inbox # <<>> /\ inbox \in Seq(Requests)
    BY <2>1 DEF Holding, InboxType
  <2>3. /\ Head(inbox) = inbox[1] /\ Len(inbox) \in Nat /\ 1 \in 1..Len(inbox)
        /\ \A k \in 1..Len(inbox) : inbox[k].id \in Nat
    <3>1. \A k \in 1..Len(inbox) : inbox[k] \in Requests
      BY <2>2
    <3>2. \A x \in Requests : x.id \in Nat
      BY DEF Requests
    <3> QED
      BY <2>2, <3>1, <3>2
  <2>4. done' \in {done, inbox[1].id} /\ done \in Nat
    BY <2>1, <2>3 DEF HistoryType
  <2>5. \A k \in 1..Len(inbox) : inbox[1].id <= inbox[k].id
    <3>1. \A k \in 1..Len(inbox) : k = 1 \/ 1 < k
      BY <2>3
    <3> QED
      BY <2>3, <3>1 DEF KeptInv, InOrder
  <2>6. InOrder'
    BY <2>1, <2>3, <2>4, <2>5 DEF KeptInv, InOrder
  <2>7. done' <= kept.id
    BY <2>1, <2>3, <2>4 DEF KeptInv, FileInv, AtRequest, Passing
  <2>8. AtRequest' /\ AtReplay' /\ FileInv'
    BY <2>1, <2>7 DEF KeptInv, AtRequest, AtReplay, FileInv, Early, Storing, Passing, Restart
  <2> QED
    BY <2>6, <2>8 DEF KeptInv
<1>14. CASE Ack
  <2>1. /\ pc["main"] = "ack" /\ pc'["main"] = "idle" /\ job = "rpc"
        /\ inbox' = Tail(inbox)
        /\ UNCHANGED <<sent, crashes, saved, job, want, kept, done>>
    BY <1>2, <1>14 DEF Ack, shared, history, Holding
  <2>2. inbox # <<>> /\ inbox \in Seq(Requests)
    BY <2>1 DEF Holding, InboxType
  <2>3. /\ Len(inbox) \in Nat \ {0} /\ Len(inbox') = Len(inbox) - 1
        /\ \A k \in 1..Len(inbox') : inbox'[k] = inbox[k + 1]
    BY <2>1, <2>2
  <2>4. \A k \in 1..Len(inbox') : k + 1 \in 1..Len(inbox) /\ k \in Nat
    BY <2>3
  <2>5. \A k \in 1..Len(inbox') : done' <= inbox'[k].id /\ inbox'[k].id <= sent'
    BY <2>1, <2>3, <2>4 DEF KeptInv, InOrder
  <2>6. \A j, k \in 1..Len(inbox') : j < k => inbox'[j].id < inbox'[k].id
    <3> SUFFICES ASSUME NEW j \in 1..Len(inbox'), NEW k \in 1..Len(inbox'), j < k
                 PROVE  inbox'[j].id < inbox'[k].id
      OBVIOUS
    <3>1. j + 1 < k + 1 /\ j + 1 \in 1..Len(inbox) /\ k + 1 \in 1..Len(inbox)
      BY <2>4
    <3>2. inbox[j + 1].id < inbox[k + 1].id
      BY <3>1 DEF KeptInv, InOrder
    <3> QED
      BY <2>3, <3>2
  <2>7. InOrder'
    BY <2>1, <2>5, <2>6 DEF KeptInv, InOrder
  <2>8. saved # Torn
    BY <2>1 DEF KeptInv, FileInv, Early
  <2>9. AtRequest' /\ AtReplay' /\ FileInv'
    BY <2>1, <2>8 DEF KeptInv, AtRequest, AtReplay, FileInv, Early, Storing, Passing, Restart
  <2> QED
    BY <2>7, <2>9 DEF KeptInv
<1>15. CASE RestartCamera("main")
  <2>1. PICK from \in Restart, to \in Restart \union {"update"} : Go("main", from, to)
    BY <1>15 DEF RestartCamera, RcStop, RcStart, RcFails, RcSend, RcDone, Send, Await,
                 After, Restart
  <2>2. UNCHANGED <<saved, job, want, kept>> /\ Rest
    BY <1>15, RestartAside DEF Threads
  <2>3. pc["main"] = from /\ pc'["main"] = to
    BY <1>2, <2>1
  <2>4. AtRequest' /\ AtReplay' /\ FileInv'
    BY <1>4, <2>2, <2>3 DEF KeptInv, AtRequest, AtReplay, FileInv, Early, Storing, Passing, Restart
  <2> QED
    BY <1>3, <2>2, <2>4 DEF KeptInv
<1> QED
  BY <1>5, <1>6, <1>7, <1>8, <1>9, <1>10, <1>11, <1>12, <1>13, <1>14,
     <1>15 DEF MainThread

LEMMA KeptNext == OneEnd /\ TypeInv /\ KeptInv /\ [Next]_vars => KeptInv'
<1> SUFFICES ASSUME OneEnd, TypeInv, KeptInv, [Next]_vars
             PROVE  KeptInv'
  OBVIOUS
<1>1. CASE MonEvent
  <2>1. UNCHANGED <<inbox, sent, saved, pc, job, crashes, want, kept, done>>
    BY <1>1 DEF MonEvent, controllers, shared, history
  <2>2. InOrder'
    BY <2>1 DEF KeptInv, InOrder
  <2> QED
    BY <2>1, <2>2, Aside
<1>2. CASE UNCHANGED vars
  <2>1. UNCHANGED <<inbox, sent, saved, pc, job, crashes, want, kept, done>>
    BY <1>2 DEF vars, controllers, shared, history
  <2>2. InOrder'
    BY <2>1 DEF KeptInv, InOrder
  <2> QED
    BY <2>1, <2>2, Aside
<1> QED
  BY <1>1, <1>2, KeptEnvironment, MonitorKept, KeptMain DEF Next

LEMMA SameCommand ==
  ASSUME NEW c \in CommandType
  PROVE  c = [c EXCEPT !.capture = c.capture]
  BY DEF CommandType

\* What the monitor stores changes the number of images, and is noted.
LEMMA StoresMatch ==
  ASSUME TypeInv, MatchInv, pc["main"] \in {"open", "dump"}, NEW n \in Int, Stores(n)
  PROVE  FileHas(cmds', want')
<1>1. cmds \in CommandType /\ want \in StoredType /\ want.cmd \in CommandType
  BY DEF TypeInv, SharedType, HistoryType, StoredType
<1>2. /\ cmds = [want.cmd EXCEPT !.capture = cmds.capture]
      /\ cmds.capture = want.cmd.capture \/ want.touched
  BY DEF MatchInv, FileHas
<1>3. cmds' = [cmds EXCEPT !.capture = n] /\ cmds'.capture = n
  BY <1>1 DEF Stores, CommandType
<1>4. want'.cmd = want.cmd /\ want'.touched = (want.touched \/ n # cmds.capture)
  BY <1>1 DEF Stores, StoredType
<1>5. cmds' = [want.cmd EXCEPT !.capture = n]
  BY <1>1, <1>2, <1>3 DEF CommandType
<1>6. n = want.cmd.capture \/ want'.touched
  BY <1>2, <1>4
<1> QED
  BY <1>3, <1>4, <1>5, <1>6 DEF FileHas

LEMMA MatchNext == TypeInv /\ MatchInv /\ [Next]_vars => MatchInv'
<1> SUFFICES ASSUME TypeInv, MatchInv, [Next]_vars
             PROVE  MatchInv'
  OBVIOUS
<1> USE DEF TypeInv
<1>1. ASSUME UNCHANGED <<cmds, want, saved, kept>>,
             pc'["main"] \in {"open", "dump"} => pc["main"] \in {"open", "dump"}
      PROVE  MatchInv'
  BY <1>1 DEF MatchInv
<1>2. CASE Environment
  BY <1>1, <1>2 DEF Environment, Call, CamHandle, CamCrash, Autorestart, Image, WdCrash,
                    WdStart, shared, history, Threads, MatchInv
<1>3. CASE MonEvent \/ UNCHANGED vars
  BY <1>1, <1>3 DEF MonEvent, vars, shared, history
<1>4. CASE Monitor
  <2>1. UNCHANGED <<saved, kept>> /\ pc'["main"] = pc["main"]
    BY <1>4, MonitorAside
  <2>2. CASE UNCHANGED <<cmds, want>>
    BY <1>1, <2>1, <2>2
  <2>3. CASE \E n \in Int : Stores(n)
    BY <2>1, <2>3, StoresMatch DEF MatchInv
  <2> QED
    BY <1>4, <2>2, <2>3, MonitorAside
<1>5. CASE MainThread
  <2>1. ASSUME NEW from, NEW to, to \in MainPcs, Main(from, to)
        PROVE  pc["main"] = from /\ pc'["main"] = to
    BY <2>1, MainStep
  <2>2. ASSUME NEW from, NEW to, Go("main", from, to)
        PROVE  pc["main"] = from /\ pc'["main"] = to
    BY <2>2 DEF Go, PcType, Threads
  <2>3. CASE Update
    <3>1. pc["main"] = "update" /\ pc'["main"] = "open" /\ cmds' = Current
      BY <2>1, <2>3 DEF Update, MainPcs
    <3>2. UNCHANGED <<saved, kept>>
      BY <2>3 DEF Update
    <3>3. FileHas(cmds', want')
      <4>1. CASE job = "replay"
        <5>1. saved \in CommandType /\ cmds' = saved /\ want' = kept
          BY <2>3, <3>1, <4>1 DEF Update, Current, Holding, Busy
        <5> QED
          BY <5>1 DEF MatchInv
      <4>2. CASE job # "replay"
        <5>1. want'.cmd = Current
          BY <2>3, <4>2 DEF Update
        <5>2. Current \in CommandType
          BY <3>1, CurrentType DEF Busy
        <5> QED
          BY <3>1, <5>1, <5>2, SameCommand DEF FileHas
      <4> QED
        BY <4>1, <4>2
    <3> QED
      BY <3>2, <3>3 DEF MatchInv
  <2>4. CASE Open
    BY <2>1, <2>4, Records DEF Open, MainPcs, MatchInv, history
  <2>5. CASE Dump
    BY <2>1, <2>5 DEF Dump, MainPcs, MatchInv
  <2>6. CASE Boot \/ Receive \/ LensFails \/ Replayed \/ Reply
    <3>1. UNCHANGED <<cmds, want, saved, kept>>
      BY <2>6 DEF Boot, Receive, LensFails, Replayed, Reply, shared, history
    <3>2. pc'["main"] \notin {"open", "dump"}
      BY <2>1, <2>6 DEF Boot, Receive, LensFails, Replayed, Reply, MainPcs
    <3> QED
      BY <1>1, <3>1, <3>2
  <2>7. CASE OrderSent \/ OrderDone \/ Ask \/ Asked \/ Ack
    <3>1. UNCHANGED <<cmds, want, saved, kept>>
      BY <2>7 DEF OrderSent, OrderDone, Ask, Asked, Ack, Send, shared, history
    <3>2. pc'["main"] \notin {"open", "dump"}
      BY <2>2, <2>7 DEF OrderSent, OrderDone, Ask, Asked, Ack, Send, Await
    <3> QED
      BY <1>1, <3>1, <3>2
  <2>8. CASE RestartCamera("main")
    <3>1. UNCHANGED <<cmds, want, saved, kept>>
      BY <2>8, RestartAside DEF Threads
    <3>2. pc'["main"] \notin {"open", "dump"}
      BY <2>2, <2>8 DEF RestartCamera, RcStop, RcStart, RcFails, RcSend, RcDone, Send,
                        Await, After
    <3> QED
      BY <1>1, <3>1, <3>2
  <2> QED
    BY <1>5, <2>3, <2>4, <2>5, <2>6, <2>7, <2>8 DEF MainThread
<1> QED
  BY <1>2, <1>3, <1>4, <1>5 DEF Next

LEMMA MatchInit == Init => MatchInv
  BY Records DEF Init, MatchInv, Threads

(* Where the lens works, a command that was answered with "OK" survives one *)
(* end of the watchdog at any point, also between the two steps in which it *)
(* writes last_command.cmd, for any number of commands: the request that    *)
(* tore the file has not been acknowledged and is served again.  The file   *)
(* has the command as it was sent, but for a number of images the monitor   *)
(* stored while main saved it.                                              *)
THEOREM NoCommandLost == OneEnd => (Spec => []NothingForgotten)
<1> SUFFICES ASSUME OneEnd
             PROVE  Spec => []NothingForgotten
  OBVIOUS
<1>1. TypeInv /\ KeptInv /\ [Next]_vars => KeptInv'
  BY KeptNext
<1> QED
  BY <1>1, KeptInit, KeptEnough, MatchInit, MatchNext, TypeInit, TypeNext, PTL DEF Spec
------------------------------------------------------------------------------
(* The two callers have what RpcCalls promises.                               *)

\* A queue with a request of u; one with at most one request of each caller.
From(q, u) == \E i \in DOMAIN q : q[i].from = u
Single(q)  == \A i, j \in DOMAIN q : i # j /\ q[i].from = q[j].from => q[i].from = "nobody"

\* A request in the queue is that of a caller who awaits its answer, and so is
\* an answer.
CallInv ==
  /\ Single(camq)
  /\ \A t \in Threads : From(camq, t) => Awaits(t) /\ ~resp[t]
  /\ \A t \in Threads : resp[t] => Awaits(t)
  /\ pc["main"] = "off" => pc["mon"] = "off"

calls == [t \in Threads |-> CallOf(t)]
CallStep == Calls!Next \/ UNCHANGED calls

\* append, pop from the head, the purge, and a caller that is gone.
LEMMA FromAppend ==
  ASSUME NEW q \in Seq(CamCalls), NEW r \in CamCalls
  PROVE  /\ \A u : From(Append(q, r), u) <=> From(q, u) \/ u = r.from
         /\ Single(q) /\ ~From(q, r.from) => Single(Append(q, r))
<1>1. /\ DOMAIN q = 1..Len(q) /\ DOMAIN Append(q, r) = 1..(Len(q) + 1) /\ Len(q) \in Nat
      /\ Append(q, r)[Len(q) + 1] = r
      /\ \A i \in 1..Len(q) : Append(q, r)[i] = q[i]
  OBVIOUS
<1> QED
  BY <1>1 DEF From, Single

LEMMA FromTail ==
  ASSUME NEW q \in Seq(CamCalls), q # <<>>
  PROVE  /\ \A u : From(q, u) <=> From(Tail(q), u) \/ u = Head(q).from
         /\ Single(q) => /\ Single(Tail(q))
                         /\ From(Tail(q), Head(q).from) => Head(q).from = "nobody"
<1>1. /\ DOMAIN q = 1..Len(q) /\ DOMAIN Tail(q) = 1..(Len(q) - 1) /\ Len(q) \in Nat \ {0}
      /\ Head(q) = q[1]
      /\ \A i \in 1..(Len(q) - 1) : Tail(q)[i] = q[i + 1]
  OBVIOUS
<1>2. \A i \in 1..Len(q) : i = 1 \/ i - 1 \in 1..(Len(q) - 1)
  BY <1>1
<1>3. \A i \in 1..(Len(q) - 1) : i + 1 \in 1..Len(q) /\ i + 1 # 1
  BY <1>1
<1>4. \A u : From(q, u) <=> From(Tail(q), u) \/ u = Head(q).from
  <2> SUFFICES ASSUME NEW u
               PROVE  From(q, u) <=> From(Tail(q), u) \/ u = Head(q).from
    OBVIOUS
  <2>1. ASSUME NEW i \in 1..Len(q), q[i].from = u
        PROVE  From(Tail(q), u) \/ u = Head(q).from
    <3>1. CASE i = 1
      BY <1>1, <2>1, <3>1
    <3>2. CASE i # 1
      <4>1. i - 1 \in DOMAIN Tail(q) /\ Tail(q)[i - 1] = q[(i - 1) + 1]
        BY <1>1, <1>2, <3>2
      <4>2. (i - 1) + 1 = i
        OBVIOUS
      <4> QED
        BY <2>1, <4>1, <4>2 DEF From
    <3> QED
      BY <3>1, <3>2
  <2>2. ASSUME NEW i \in 1..(Len(q) - 1), Tail(q)[i].from = u
        PROVE  From(q, u)
    BY <1>1, <1>3, <2>2 DEF From
  <2>3. u = Head(q).from => From(q, u)
    BY <1>1 DEF From
  <2> QED
    BY <1>1, <2>1, <2>2, <2>3 DEF From
<1>5. ASSUME Single(q)
      PROVE  Single(Tail(q))
  <2> SUFFICES ASSUME NEW i \in DOMAIN Tail(q), NEW j \in DOMAIN Tail(q), i # j,
                      Tail(q)[i].from = Tail(q)[j].from
               PROVE  Tail(q)[i].from = "nobody"
    BY DEF Single
  <2>1. /\ i + 1 \in DOMAIN q /\ j + 1 \in DOMAIN q /\ i + 1 # j + 1
        /\ Tail(q)[i] = q[i + 1] /\ Tail(q)[j] = q[j + 1]
    BY <1>1, <1>3
  <2> QED
    BY <1>5, <2>1 DEF Single
<1>6. ASSUME Single(q), NEW i \in DOMAIN Tail(q), Tail(q)[i].from = Head(q).from
      PROVE  Head(q).from = "nobody"
  <2>1. i + 1 \in DOMAIN q /\ 1 \in DOMAIN q /\ i + 1 # 1 /\ Tail(q)[i] = q[i + 1]
    BY <1>1, <1>3
  <2> QED
    BY <1>1, <1>6, <2>1 DEF Single
<1> QED
  BY <1>4, <1>5, <1>6 DEF From

LEMMA FromPurge ==
  ASSUME CameraType, NEW t \in Threads, Purge(t)
  PROVE  /\ Single(camq')
         /\ \A u \in Threads : From(camq', u) => u # t /\ From(camq, u)
<1>1. CASE camq' = <<>>
  BY <1>1 DEF From, Single
<1>2. CASE camq' # <<>>
  <2> DEFINE r == Head(camq)
             s == [r EXCEPT !.from = IF @ = t THEN "nobody" ELSE @]
  <2>1. camq # <<>> /\ camq' = <<s>>
    BY <1>2 DEF Purge
  <2>2. camq \in Seq(CamCalls) /\ r = camq[1] /\ 1 \in DOMAIN camq
    BY <2>1 DEF CameraType
  <2>3. r \in CamCalls
    BY <2>2
  <2>4. s.from = IF r.from = t THEN "nobody" ELSE r.from
    BY <2>3 DEF CamCalls
  <2>5. DOMAIN camq' = {1} /\ camq'[1] = s
    BY <2>1
  <2>6. "nobody" \notin Threads
    BY DEF Threads
  <2> HIDE DEF r, s
  <2>7. Single(camq')
    BY <2>5 DEF Single
  <2>8. \A u \in Threads : From(camq', u) => u # t /\ r.from = u
    BY <2>4, <2>5, <2>6 DEF From
  <2> QED
    BY <2>2, <2>7, <2>8 DEF From
<1> QED
  BY <1>1, <1>2

LEMMA FromNobody ==
  ASSUME NEW q \in Seq(CamCalls)
  PROVE  LET p == [i \in DOMAIN q |-> [q[i] EXCEPT !.from = "nobody"]]
         IN  Single(p) /\ \A u \in Threads : ~From(p, u)
<1> DEFINE p == [i \in DOMAIN q |-> [q[i] EXCEPT !.from = "nobody"]]
<1>1. \A i \in DOMAIN q : q[i] \in CamCalls
  OBVIOUS
<1>2. \A r \in CamCalls : [r EXCEPT !.from = "nobody"].from = "nobody"
  BY DEF CamCalls
<1>3. DOMAIN p = DOMAIN q /\ \A i \in DOMAIN p : p[i].from = "nobody"
  BY <1>1, <1>2
<1> HIDE DEF p
<1>4. Single(p) /\ \A u \in Threads : ~From(p, u)
  BY <1>3 DEF Single, From, Threads
<1> QED
  BY <1>4 DEF p

\* What a call is worth where the invariant holds.
LEMMA CallValue ==
  ASSUME NEW t \in Threads
  PROVE  /\ CallInv => CallOf(t) = IF ~Awaits(t) THEN "none"
                                   ELSE IF resp[t] THEN "answered"
                                   ELSE IF From(camq, t) THEN "sent" ELSE "lost"
         /\ CallInv' => CallOf(t)' = IF ~Awaits(t)' THEN "none"
                                     ELSE IF resp'[t] THEN "answered"
                                     ELSE IF From(camq', t) THEN "sent" ELSE "lost"
<1>1. Queued(t) <=> From(camq, t)
  BY DEF Queued, From
<1>2. Queued(t)' <=> From(camq', t)
  BY DEF Queued, From
<1>3. ASSUME CallInv
      PROVE  CallOf(t) = IF ~Awaits(t) THEN "none"
                         ELSE IF resp[t] THEN "answered"
                         ELSE IF From(camq, t) THEN "sent" ELSE "lost"
  <2>1. From(camq, t) => Awaits(t) /\ ~resp[t]
    BY <1>3 DEF CallInv
  <2> QED
    BY <1>1, <2>1 DEF CallOf
<1>4. ASSUME CallInv'
      PROVE  CallOf(t)' = IF ~Awaits(t)' THEN "none"
                          ELSE IF resp'[t] THEN "answered"
                          ELSE IF From(camq', t) THEN "sent" ELSE "lost"
  <2>1. From(camq', t) => Awaits(t)' /\ ~resp'[t]
    BY <1>4 DEF CallInv, From
  <2> QED
    BY <1>2, <2>1 DEF CallOf
<1> QED
  BY <1>3, <1>4

\* Where a thread goes that runs.
LEMMA Turn ==
  ASSUME PcType, CallInv, NEW t \in Threads, NEW from, NEW to,
         from # "off", to # "off", Go(t, from, to)
  PROVE  /\ pc[t] = from /\ pc'[t] = to
         /\ \A u \in Threads \ {t} : pc'[u] = pc[u]
         /\ pc'["main"] = "off" => pc'["mon"] = "off"
  BY DEF PcType, Go, Threads, CallInv
\* Neither the queue nor an answer is touched, and nobody calls or returns.
LEMMA QuietCalls ==
  ASSUME CallInv, UNCHANGED <<camq, resp>>, pc'["main"] = "off" => pc'["mon"] = "off",
         \A u \in Threads : Awaits(u)' <=> Awaits(u)
  PROVE  CallInv' /\ CallStep
<1>1. CallInv'
  BY DEF CallInv, From, Single
<1>2. \A u \in Threads : CallOf(u)' = CallOf(u)
  BY <1>1, CallValue
<1> QED
  BY <1>1, <1>2 DEF CallStep, calls

LEMMA QuietTurn ==
  ASSUME PcType, CallInv, NEW t \in Threads, NEW from, NEW to, Go(t, from, to),
         from \notin {"off", "await", "ordered", "asked1", "asked2"},
         to \notin {"off", "await", "ordered", "asked1", "asked2"},
         UNCHANGED <<camq, resp>>
  PROVE  CallInv' /\ CallStep
<1>1. /\ pc[t] = from /\ pc'[t] = to
      /\ \A u \in Threads \ {t} : pc'[u] = pc[u]
      /\ pc'["main"] = "off" => pc'["mon"] = "off"
  BY Turn
<1>2. \A u \in Threads : Awaits(u)' <=> Awaits(u)
  BY <1>1 DEF Awaits
<1> QED
  BY <1>1, <1>2, QuietCalls

LEMMA SendCalls ==
  ASSUME TypeInv, CallInv, NEW t \in Threads, NEW from, NEW to, NEW c \in CommandType,
         from \notin {"off", "await", "ordered", "asked1", "asked2"},
         to \in {"await", "ordered", "asked1", "asked2"},
         Send(t, from, to, c)
  PROVE  CallInv' /\ CallStep
<1> DEFINE r == [cmd |-> c, from |-> t]
<1>1. /\ pc[t] = from /\ pc'[t] = to
      /\ \A u \in Threads \ {t} : pc'[u] = pc[u]
      /\ pc'["main"] = "off" => pc'["mon"] = "off"
  BY Turn DEF Send, TypeInv
<1>2. camq' = Append(camq, r) /\ resp' = resp
  BY DEF Send
<1>3. r \in CamCalls /\ r.from = t /\ camq \in Seq(CamCalls) /\ resp \in [Threads -> BOOLEAN]
  BY DEF CamCalls, TypeInv, CameraType, CallType
<1>4. ~Awaits(t) /\ Awaits(t)' /\ \A u \in Threads \ {t} : Awaits(u)' <=> Awaits(u)
  BY <1>1 DEF Awaits
<1>5. ~From(camq, t)
  BY <1>4 DEF CallInv
<1> HIDE DEF r
<1>6. Single(camq') /\ \A u : From(camq', u) <=> From(camq, u) \/ u = t
  BY <1>2, <1>3, <1>5, FromAppend DEF CallInv
<1>7. ~resp'[t] /\ \A u \in Threads \ {t} : resp'[u] = resp[u]
  BY <1>2, <1>4 DEF CallInv
<1>8. CallInv'
  <2>1. \A u \in Threads : From(camq', u) => Awaits(u)' /\ ~resp'[u]
    BY <1>4, <1>6, <1>7 DEF CallInv
  <2>2. (\A u \in Threads : From(camq, u) => Awaits(u) /\ ~resp[u])'
    BY <2>1 DEF From
  <2>3. Single(camq)'
    BY <1>6 DEF Single
  <2>4. \A u \in Threads : resp'[u] => Awaits(u)'
    BY <1>4, <1>7 DEF CallInv
  <2> QED
    BY <1>1, <2>2, <2>3, <2>4 DEF CallInv
<1>9. /\ CallOf(t) = "none" /\ CallOf(t)' = "sent"
      /\ \A u \in Threads \ {t} : CallOf(u)' = CallOf(u)
  <2>1. CallOf(t) = "none" /\ CallOf(t)' = "sent"
    BY <1>4, <1>6, <1>7, <1>8, CallValue
  <2>2. \A u \in Threads \ {t} : CallOf(u)' = CallOf(u)
    BY <1>4, <1>6, <1>7, <1>8, CallValue
  <2> QED
    BY <2>1, <2>2
<1>10. calls' = [calls EXCEPT ![t] = "sent"] /\ calls[t] = "none"
  BY <1>9 DEF calls
<1>11. Calls!Open(t)
  BY <1>10 DEF Calls!Open, calls
<1> QED
  BY <1>8, <1>11 DEF CallStep, Calls!Next

LEMMA AwaitCalls ==
  ASSUME TypeInv, CallInv, NEW t \in Threads, NEW from, NEW answered, NEW timeout,
         from \in {"await", "ordered", "asked1", "asked2"},
         answered \notin {"off", "await", "ordered", "asked1", "asked2"},
         timeout \notin {"off", "await", "ordered", "asked1", "asked2"},
         Await(t, from, answered, timeout)
  PROVE  CallInv' /\ CallStep
<1>1. /\ pc[t] = from /\ pc'[t] \in {answered, timeout}
      /\ \A u \in Threads \ {t} : pc'[u] = pc[u]
      /\ pc'["main"] = "off" => pc'["mon"] = "off"
  BY Turn DEF Await, TypeInv
<1>2. Awaits(t) /\ ~Awaits(t)' /\ \A u \in Threads \ {t} : Awaits(u)' <=> Awaits(u)
  BY <1>1 DEF Awaits
<1>r. ~resp'[t] /\ \A u \in Threads \ {t} : resp'[u] = resp[u]
  BY DEF Await, TypeInv, CallType
<1>s. \A u \in Threads : resp'[u] => Awaits(u)'
  BY <1>2, <1>r DEF CallInv
<1>3. CASE resp[t] /\ camq' = camq
  <2>1. CallInv'
    <3>1. \A u \in Threads : From(camq', u) => Awaits(u)' /\ ~resp'[u]
      BY <1>2, <1>3, <1>r DEF CallInv
    <3> QED
      BY <1>1, <1>3, <1>s, <3>1 DEF CallInv, From, Single
  <2>2. CallOf(t) = "answered" /\ CallOf(t)' = "none"
    BY <1>2, <1>3, <1>r, <2>1, CallValue
  <2>3. \A u \in Threads \ {t} : CallOf(u)' = CallOf(u)
    BY <1>2, <1>3, <1>r, <2>1, CallValue
  <2>4. calls' = [calls EXCEPT ![t] = "none"] /\ calls[t] = "answered"
    BY <2>2, <2>3 DEF calls
  <2>5. Calls!Close(t)
    BY <2>4 DEF Calls!Close, calls
  <2> QED
    BY <2>1, <2>5 DEF CallStep, Calls!Next
<1>4. CASE ~resp[t] /\ Purge(t)
  <2>1. Single(camq') /\ \A u \in Threads : From(camq', u) => u # t /\ From(camq, u)
    BY <1>4, FromPurge DEF TypeInv
  <2>2. CallInv'
    <3>1. \A u \in Threads : From(camq', u) => Awaits(u)' /\ ~resp'[u]
      BY <1>2, <1>r, <2>1 DEF CallInv
    <3>2. (\A u \in Threads : From(camq, u) => Awaits(u) /\ ~resp[u])'
      BY <3>1 DEF From
    <3>3. Single(camq)'
      BY <2>1 DEF Single
    <3> QED
      BY <1>1, <1>s, <3>2, <3>3 DEF CallInv
  <2>3. CallOf(t) \in {"sent", "lost"} /\ CallOf(t)' = "none"
    BY <1>2, <1>4, <2>2, CallValue
  <2>4. \A u \in Threads \ {t} :
          CallOf(u)' = CallOf(u) \/ (CallOf(u) = "sent" /\ CallOf(u)' = "lost")
    BY <1>2, <1>r, <2>1, <2>2, CallValue
  <2> DEFINE purged == {u \in Threads \ {t} : CallOf(u) = "sent" /\ CallOf(u)' = "lost"}
  <2>5. calls' = [u \in Threads |-> IF u = t THEN "none"
                                    ELSE IF u \in purged THEN "lost" ELSE calls[u]]
    BY <2>3, <2>4 DEF calls
  <2>6. purged \in SUBSET {u \in Threads \ {t} : calls[u] = "sent"} /\ calls[t] \in {"sent", "lost"}
    BY <2>3 DEF calls
  <2> HIDE DEF purged
  <2>7. Calls!Expire(t)
    BY <2>5, <2>6 DEF Calls!Expire, calls
  <2> QED
    BY <2>2, <2>7 DEF CallStep, Calls!Next
<1> QED
  BY <1>3, <1>4 DEF Await
LEMMA EnvironmentCalls ==
  ASSUME TypeInv, CallInv, Environment
  PROVE  CallInv' /\ CallStep
<1>1. CASE (\E c \in Commands : Call(c)) \/ CamCrash \/ Autorestart \/ Image
  <2>1. UNCHANGED <<pc, resp, camq>>
    BY <1>1 DEF Call, CamCrash, Autorestart, Image, camera
  <2> QED
    BY <2>1, QuietCalls DEF Awaits, CallInv
<1>2. CASE CamHandle
  <2> DEFINE r == Head(camq)
  <2>1. CASE r.cmd.kill
    <3>1. UNCHANGED <<pc, resp, camq>>
      BY <1>2, <2>1 DEF CamHandle
    <3> QED
      BY <3>1, QuietCalls DEF Awaits, CallInv
  <2>2. CASE ~r.cmd.kill
    <3>1. /\ camq # <<>> /\ camq' = Tail(camq) /\ pc' = pc
          /\ resp' = [u \in Threads |-> u = r.from \/ resp[u]]
      BY <1>2, <2>2 DEF CamHandle
    <3>2. camq \in Seq(CamCalls) /\ resp \in [Threads -> BOOLEAN]
      BY DEF TypeInv, CameraType, CallType
    <3>3. PICK w \in Threads \union {"nobody"} : w = r.from
      <4>1. r \in CamCalls
        BY <3>1, <3>2, FirstCall
      <4> QED
        BY <4>1 DEF CamCalls
    <3>4. /\ \A u : From(camq, u) <=> From(camq', u) \/ u = w
          /\ Single(camq')
          /\ From(camq', w) => w = "nobody"
      BY <3>1, <3>2, <3>3, FromTail DEF CallInv
    <3> HIDE DEF r
    <3>5. \A u \in Threads : resp'[u] <=> u = w \/ resp[u]
      BY <3>1, <3>3
    <3>6. \A u \in Threads : Awaits(u)' <=> Awaits(u)
      BY <3>1 DEF Awaits
    <3>7. CallInv'
      <4>1. \A u \in Threads : From(camq', u) => Awaits(u)' /\ ~resp'[u]
        BY <3>4, <3>5, <3>6 DEF CallInv, Threads
      <4>2. (\A u \in Threads : From(camq, u) => Awaits(u) /\ ~resp[u])'
        BY <4>1 DEF From
      <4>3. Single(camq)'
        BY <3>4 DEF Single
      <4>4. \A u \in Threads : resp'[u] => Awaits(u)'
        BY <3>4, <3>5, <3>6 DEF CallInv
      <4> QED
        BY <3>1, <4>2, <4>3, <4>4 DEF CallInv
    <3>8. \A u \in Threads : u # w => CallOf(u)' = CallOf(u)
      BY <3>4, <3>5, <3>6, <3>7, CallValue
    <3>9. CASE w \in Threads
      <4>1. From(camq, w)
        BY <3>4
      <4>2. Awaits(w) /\ ~resp[w]
        BY <3>9, <4>1 DEF CallInv
      <4>3. CallOf(w) = "sent" /\ CallOf(w)' = "answered"
        BY <3>5, <3>6, <3>7, <3>9, <4>1, <4>2, CallValue
      <4>4. calls' = [calls EXCEPT ![w] = "answered"] /\ calls[w] = "sent"
        BY <3>8, <3>9, <4>3 DEF calls
      <4>5. Calls!Answer(w)
        BY <4>4 DEF Calls!Answer, calls
      <4> QED
        BY <3>7, <3>9, <4>5 DEF CallStep, Calls!Next
    <3>10. CASE w = "nobody"
      <4>1. calls' = calls
        BY <3>8, <3>10 DEF calls, Threads
      <4> QED
        BY <3>7, <4>1 DEF CallStep
    <3> QED
      BY <3>3, <3>9, <3>10
  <2> QED
    BY <2>1, <2>2
<1>3. CASE WdCrash
  <2>1. /\ pc' = [t \in Threads |-> "off"] /\ resp' = [t \in Threads |-> FALSE]
        /\ camq' = [i \in DOMAIN camq |-> [camq[i] EXCEPT !.from = "nobody"]]
    BY <1>3 DEF WdCrash
  <2>2. Single(camq') /\ \A u \in Threads : ~From(camq', u)
    BY <2>1, FromNobody DEF TypeInv, CameraType
  <2>3. CallInv'
    <3>1. (\A u \in Threads : From(camq, u) => Awaits(u) /\ ~resp[u])'
      BY <2>2 DEF From
    <3>2. Single(camq)'
      BY <2>2 DEF Single
    <3> QED
      BY <2>1, <3>1, <3>2 DEF CallInv, Threads
  <2>4. \A u \in Threads : CallOf(u)' = "none"
    <3>1. \A u \in Threads : ~Awaits(u)'
      BY <2>1 DEF Awaits
    <3> QED
      BY <2>3, <3>1, CallValue
  <2>5. Calls!Abandon
    BY <2>4 DEF Calls!Abandon, calls
  <2> QED
    BY <2>3, <2>5 DEF CallStep, Calls!Next
<1>4. CASE WdStart
  <2>1. pc["main"] = "off" /\ pc["mon"] = "off"
    BY <1>4 DEF WdStart, CallInv
  <2>2. pc' = [t \in Threads |-> IF t = "main" THEN "boot" ELSE "wait"] /\ UNCHANGED <<camq, resp>>
    BY <1>4 DEF WdStart, camera
  <2>3. \A u \in Threads : ~Awaits(u) /\ ~Awaits(u)'
    BY <2>1, <2>2 DEF Awaits, Threads
  <2> QED
    BY <2>2, <2>3, QuietCalls DEF Threads
<1> QED
  BY <1>1, <1>2, <1>3, <1>4 DEF Environment

LEMMA RestartCalls ==
  ASSUME TypeInv, CallInv, NEW t \in Threads, RestartCamera(t)
  PROVE  CallInv' /\ CallStep
<1> USE DEF TypeInv
<1>1. After(t) \notin {"off", "await", "ordered", "asked1", "asked2"}
  BY DEF After, MonitorType
<1>2. CASE RcStop(t) \/ RcStart(t)
  BY <1>2, QuietTurn DEF RcStop, RcStart
<1>3. CASE RcFails(t)
  <2>1. PICK from \in {"stop", "start"} : Go(t, from, After(t))
    BY <1>3 DEF RcFails
  <2> QED
    BY <1>1, <1>3, <2>1, QuietTurn DEF RcFails
<1>4. CASE RcSend(t)
  <2>1. /\ t = "main" => pc["main"] \in Busy
    BY <1>4 DEF RcSend, Send, Go, Busy
  <2>2. /\ t = "main" => Current \in CommandType
        /\ \A k : Item(got.cmd, k) \in CommandType
    BY <2>1, CurrentType, ItemsType DEF SharedType, MonitorType
  <2>3. PICK c \in CommandType : Send(t, "send", "await", c)
    BY <1>4, <2>2 DEF RcSend
  <2> QED
    BY <2>3, SendCalls
<1>5. CASE RcDone(t)
  <2>1. Await(t, "await", After(t), After(t))
    BY <1>5 DEF RcDone
  <2> QED
    BY <1>1, <2>1, AwaitCalls
<1> QED
  BY <1>2, <1>3, <1>4, <1>5 DEF RestartCamera

LEMMA MonitorCalls ==
  ASSUME TypeInv, CallInv, Monitor
  PROVE  CallInv' /\ CallStep
<1>1. CASE RestartCamera("mon")
  BY <1>1, RestartCalls DEF Threads
<1>2. CASE RcItem
  <2>1. Go("mon", "send", "send")
    BY <1>2 DEF RcItem
  <2>2. UNCHANGED <<camq, resp>>
    BY <1>2 DEF RcItem, camera
  <2> QED
    BY <2>1, <2>2, QuietTurn DEF TypeInv, Threads
<1>3. CASE ~(RestartCamera("mon") \/ RcItem)
  <2>1. PICK from \in MonPcs \ {"off", "await"}, to \in MonPcs \ {"off", "await"} :
          Mon(from, to)
    BY <1>3 DEF Monitor, MonWake, MonFirst, MonFinite, MonEndless, MonUnused, MonSecond,
                MonLate, MonRead, MonWrite, MonFails, MonPcs
  <2>2. Go("mon", from, to) /\ UNCHANGED <<camq, resp>>
    BY <2>1 DEF Mon, camera
  <2> QED
    BY <2>2, QuietTurn DEF TypeInv, Threads, MonPcs
<1> QED
  BY <1>1, <1>2, <1>3

LEMMA MainCalls ==
  ASSUME TypeInv, CallInv, MainThread
  PROVE  CallInv' /\ CallStep
<1> USE DEF Threads
<1>1. CASE Boot \/ Receive \/ Update \/ LensFails \/ Open \/ Dump \/ Replayed \/ Reply \/ Ack
  <2>1. PICK from \in {"boot", "idle", "update", "open", "dump", "ok", "reply", "ack"},
             to \in {"idle", "stop", "ask2", "update", "open", "reply", "dump", "order", "ack"} :
          Go("main", from, to)
    BY <1>1 DEF Boot, Receive, Update, LensFails, Open, Dump, Replayed, Reply, Ack, Main
  <2>2. UNCHANGED <<camq, resp>>
    BY <1>1 DEF Boot, Receive, Update, LensFails, Open, Dump, Replayed, Reply, Ack, Main,
                camera
  <2> QED
    BY <2>1, <2>2, QuietTurn DEF TypeInv
<1>2. CASE OrderSent
  BY <1>2, SendCalls DEF OrderSent, TypeInv, SharedType
<1>3. CASE Ask
  BY <1>3, SendCalls, Records DEF Ask
<1>4. CASE OrderDone
  BY <1>4, AwaitCalls DEF OrderDone
<1>5. CASE Asked
  BY <1>5, AwaitCalls DEF Asked
<1>6. CASE RestartCamera("main")
  BY <1>6, RestartCalls
<1> QED
  BY <1>1, <1>2, <1>3, <1>4, <1>5, <1>6 DEF MainThread

LEMMA CallsNext == TypeInv /\ CallInv /\ [Next]_vars => CallInv' /\ CallStep
<1>1. ASSUME CallInv, UNCHANGED vars
      PROVE  CallInv' /\ CallStep
  <2>1. UNCHANGED <<pc, resp, camq>>
    BY <1>1 DEF vars, camera
  <2> QED
    BY <1>1, <2>1, QuietCalls DEF Awaits, CallInv
<1>2. ASSUME CallInv, MonEvent
      PROVE  CallInv' /\ CallStep
  <2>1. UNCHANGED <<pc, resp, camq>>
    BY <1>2 DEF MonEvent, camera
  <2> QED
    BY <1>2, <2>1, QuietCalls DEF Awaits, CallInv
<1> QED
  BY <1>1, <1>2, EnvironmentCalls, MonitorCalls, MainCalls DEF Next

LEMMA CallsInit == Init => CallInv /\ Calls!Init
<1> SUFFICES ASSUME Init
             PROVE  CallInv /\ Calls!Init
  OBVIOUS
<1>1. /\ camq = <<>> /\ pc = [t \in Threads |-> "off"]
      /\ resp = [t \in Threads |-> FALSE]
  BY DEF Init
<1>2. CallInv
  BY <1>1 DEF CallInv, From, Single, Threads
<1>3. \A u \in Threads : ~Awaits(u)
  BY <1>1 DEF Awaits
<1>4. \A u \in Threads : CallOf(u) = "none"
  BY <1>2, <1>3, CallValue
<1> QED
  BY <1>2, <1>4 DEF Calls!Init

(* The client of the watchdog implements RpcCalls, for any commands and     *)
(* faults and any number of ends: whatever the two threads, the purges of   *)
(* the shared queue, kills and restarts do to the requests, an answer is    *)
(* the one to the request its caller awaits, and a request of a call that   *)
(* is over, or of a watchdog that has ended, is nobody's.                   *)
THEOREM WatchdogImplementsCalls == Spec => CallSpec
<1>1. Init => CallInv /\ Calls!Init
  BY CallsInit
<1>2. TypeInv /\ CallInv /\ [Next]_vars => CallInv' /\ [Calls!Next]_calls
  BY CallsNext DEF CallStep
<1> QED
  BY <1>1, <1>2, TypeInit, TypeNext, PTL DEF Spec, CallSpec, Calls!Spec, calls

------------------------------------------------------------------------------
(* Both processes get on.  The ranks behind RequestsAnswered and              *)
(* SilenceRestarts; that a rank which falls reaches its end needs fairness.   *)

\* The steps main has left for what it processes, a replay before the requests.
Stage ==
  CASE pc["main"] = "stop"    -> 16 [] pc["main"] = "start"  -> 15
    [] pc["main"] = "send"    -> 14 [] pc["main"] = "await"  -> 13
    [] pc["main"] = "update"  -> 12 [] pc["main"] = "open"   -> 11
    [] pc["main"] = "dump"    -> 10 [] pc["main"] = "order"  -> 9
    [] pc["main"] = "ordered" -> 8  [] pc["main"] = "ask1"   -> 7
    [] pc["main"] = "asked1"  -> 6  [] pc["main"] = "ask2"   -> 5
    [] pc["main"] = "asked2"  -> 4  [] pc["main"] = "ok"     -> 3
    [] pc["main"] = "reply"   -> 2
    [] OTHER -> 1
StepsLeft ==
  CASE pc["main"] = "boot" -> 40
    [] pc["main"] = "idle" -> 20
    [] pc["main"] \notin {"boot", "idle"} ->
         IF job = "replay" THEN 20 + Stage ELSE Stage

\* While the watchdog lives, its queue loses the head only, which main has
\* answered, and each step of main brings it nearer to that; no step of the
\* monitor or of the camera takes it back.
MainAdvances ==
  pc["main"] # "off" /\ pc'["main"] # "off" =>
    /\ \/ inbox' = inbox /\ StepsLeft' <= StepsLeft
       \/ inbox # << >> /\ inbox' = Tail(inbox)
       \/ (\E r \in Requests : inbox' = Append(inbox, r)) /\ StepsLeft' = StepsLeft
    /\ MainThread =>
         StepsLeft' < StepsLeft \/ (inbox # << >> /\ inbox' = Tail(inbox))

LEMMA OthersWait ==
  ASSUME PcType, pc'["main"] = pc["main"], job' = job,
         inbox' = inbox \/ \E r \in Requests : inbox' = Append(inbox, r)
  PROVE  /\ StepsLeft' = StepsLeft /\ StepsLeft' <= StepsLeft
<1>1. StepsLeft' = StepsLeft
  BY DEF StepsLeft, Stage
<1>2. StepsLeft \in Nat
  BY DEF StepsLeft, Stage
<1> QED
  BY <1>1, <1>2

LEMMA MainLowers ==
  ASSUME TypeInv, MainThread
  PROVE  \/ inbox' = inbox /\ StepsLeft' < StepsLeft
         \/ inbox # << >> /\ inbox' = Tail(inbox)
<1> USE DEF TypeInv, StepsLeft, Stage, controllers
<1>0. PcType /\ "main" \in Threads /\ job \in {"replay", "rpc"}
  BY DEF Threads, CallType
<1>1. ASSUME NEW from, NEW to, to \in MainPcs, Go("main", from, to)
      PROVE  pc["main"] = from /\ pc'["main"] = to
  BY <1>0, <1>1, GoType
<1>2. CASE Boot
  <2>1. pc["main"] = "boot" /\ pc'["main"] \in {"idle", "stop"} /\ job' = "replay"
    BY <1>1, <1>2 DEF Boot, Main, MainPcs
  <2> QED
    BY <1>2, <2>1 DEF Boot, Main
<1>3. CASE Receive
  <2>1. pc["main"] = "idle" /\ pc'["main"] \in {"ask2", "update"} /\ job' = "rpc"
    BY <1>1, <1>3 DEF Receive, Main, MainPcs
  <2> QED
    BY <1>3, <2>1 DEF Receive, Main
<1>4. CASE Update \/ LensFails \/ Open \/ Dump
  <2>1. \/ pc["main"] = "update" /\ pc'["main"] \in {"open", "reply"}
        \/ pc["main"] = "open" /\ pc'["main"] = "dump"
        \/ pc["main"] = "dump" /\ pc'["main"] = "order"
    BY <1>1, <1>4 DEF Update, LensFails, Open, Dump, Main, MainPcs
  <2>2. job' = job /\ inbox' = inbox
    BY <1>4 DEF Update, LensFails, Open, Dump, Main
  <2> QED
    BY <1>0, <2>1, <2>2
<1>5. CASE OrderSent \/ Ask
  <2>1. \/ pc["main"] = "order" /\ pc'["main"] = "ordered"
        \/ pc["main"] = "ask1" /\ pc'["main"] = "asked1"
        \/ pc["main"] = "ask2" /\ pc'["main"] = "asked2"
    BY <1>1, <1>5 DEF OrderSent, Ask, Send, MainPcs
  <2>2. job' = job /\ inbox' = inbox
    BY <1>5 DEF OrderSent, Ask, Send
  <2> QED
    BY <1>0, <2>1, <2>2
<1>6. CASE OrderDone \/ Asked
  <2>1. \/ pc["main"] = "ordered" /\ pc'["main"] = "ask1"
        \/ pc["main"] = "asked1" /\ pc'["main"] \in {"ask2", "reply"}
        \/ pc["main"] = "asked2" /\ pc'["main"] \in {"ok", "reply"}
    BY <1>1, <1>6 DEF OrderDone, Asked, Await, MainPcs
  <2>2. job' = job /\ inbox' = inbox
    BY <1>6 DEF OrderDone, Asked
  <2> QED
    BY <1>0, <2>1, <2>2
<1>7. CASE Replayed \/ Reply
  <2>1. /\ pc["main"] \in {"ok", "reply"} /\ job' = job /\ inbox' = inbox
        /\ \/ pc'["main"] = "idle" /\ job = "replay"
           \/ pc'["main"] = "ack" /\ job = "rpc"
    BY <1>1, <1>7 DEF Replayed, Reply, Main, MainPcs
  <2> QED
    BY <1>0, <2>1
<1>9. CASE Ack
  <2>1. pc["main"] = "ack"
    BY <1>1, <1>9 DEF Ack, MainPcs
  <2>2. inbox # << >>
    BY <2>1 DEF Holding, Busy
  <2> QED
    BY <1>9, <2>2 DEF Ack
<1>8. CASE RestartCamera("main")
  <2>1. \/ pc["main"] = "stop" /\ pc'["main"] \in {"start", "update"}
        \/ pc["main"] = "start" /\ pc'["main"] \in {"send", "update"}
        \/ pc["main"] = "send" /\ pc'["main"] = "await"
        \/ pc["main"] = "await" /\ pc'["main"] = "update"
    BY <1>1, <1>8
       DEF RestartCamera, RcStop, RcStart, RcFails, RcSend, RcDone, Send, Await,
           After, MainPcs
  <2>2. job' = job /\ inbox' = inbox
    BY <1>8 DEF RestartCamera, RcStop, RcStart, RcFails, RcSend, RcDone, Send
  <2> QED
    BY <1>0, <2>1, <2>2
<1> QED
  BY <1>2, <1>3, <1>4, <1>5, <1>6, <1>7, <1>8, <1>9 DEF MainThread

LEMMA MainAlone ==
  ASSUME TypeInv, Monitor
  PROVE  pc'["main"] = pc["main"] /\ job' = job /\ inbox' = inbox
<1>1. ASSUME NEW from, NEW to, Go("mon", from, to)
      PROVE  pc'["main"] = pc["main"]
  BY <1>1 DEF Go, TypeInv, PcType, Threads
<1>2. CASE RestartCamera("mon")
  BY <1>1, <1>2
     DEF RestartCamera, RcStop, RcStart, RcFails, RcSend, RcDone, Send, Await,
         controllers
<1>3. CASE ~RestartCamera("mon")
  BY <1>1, <1>3
     DEF Monitor, MonWake, MonFirst, MonFinite, MonEndless, MonUnused, MonSecond,
         MonLate, MonRead, MonWrite, MonFails, RcItem, Mon, controllers
<1> QED
  BY <1>2, <1>3

\* What the capture process, the controllers and the images leave alone.
LEMMA Outside ==
  ASSUME TypeInv, Environment \/ MonEvent \/ UNCHANGED vars
  PROVE  \/ pc["main"] = "off" \/ pc'["main"] = "off"
         \/ /\ pc' = pc /\ job' = job /\ UNCHANGED registers
            /\ inbox' = inbox \/ \E r \in Requests : inbox' = Append(inbox, r)
<1>1. ASSUME NEW c \in Commands, Call(c)
      PROVE  /\ pc' = pc /\ job' = job /\ UNCHANGED registers
             /\ \E r \in Requests : inbox' = Append(inbox, r)
  <2>1. sent + 1 \in 1..MaxCalls
    BY <1>1, WatchdogAssumption DEF Call, TypeInv, InboxType
  <2>2. [id |-> sent + 1, cmd |-> c] \in Requests
    BY <2>1 DEF Requests
  <2> QED
    BY <1>1, <2>2 DEF Call
<1>2. CASE CamHandle \/ CamCrash \/ Autorestart \/ Image \/ MonEvent \/ UNCHANGED vars
  BY <1>2
     DEF CamHandle, CamCrash, Autorestart, Image, MonEvent, vars, controllers, registers
<1>3. CASE WdCrash \/ WdStart
  BY <1>3 DEF WdCrash, WdStart, Threads
<1> QED
  BY <1>1, <1>2, <1>3 DEF Environment

LEMMA MainProgress == TypeInv /\ [Next]_vars => MainAdvances
<1> SUFFICES ASSUME TypeInv, [Next]_vars, pc["main"] # "off", pc'["main"] # "off"
             PROVE  MainAdvances
  BY DEF MainAdvances
<1>1. StepsLeft \in Nat
  BY DEF StepsLeft, Stage
<1>2. MainThread => MainAdvances
  <2>1. StepsLeft' \in Nat
    BY DEF StepsLeft, Stage
  <2> QED
    BY <1>1, <2>1, MainLowers DEF MainAdvances
<1>3. ASSUME ~MainThread
      PROVE  /\ pc'["main"] = pc["main"] /\ job' = job
             /\ inbox' = inbox \/ \E r \in Requests : inbox' = Append(inbox, r)
  BY <1>3, MainAlone, Outside DEF Next
<1>4. CASE ~MainThread
  BY <1>3, <1>4, OthersWait DEF MainAdvances, TypeInv
<1> QED
  BY <1>2, <1>4

\* The steps a wake-up of the monitor has left: at most one restart, with its
\* items, for each of the places it returns to.
Base == CASE ret = "second" -> 30 [] ret = "late" -> 15 [] OTHER -> 0
Round ==
  CASE pc["mon"] \in {"finite", "endless", "unused"} -> 50
    [] pc["mon"] = "second" -> 30        [] pc["mon"] = "late"  -> 15
    [] pc["mon"] = "read"   -> Base + 9  [] pc["mon"] = "write" -> Base + 8
    [] pc["mon"] = "stop"   -> Base + 7  [] pc["mon"] = "start" -> Base + 6
    [] pc["mon"] = "send"   -> Base + 5 - got.items
    [] pc["mon"] = "await"  -> Base + 1
    [] OTHER -> 0

\* A wake-up of the monitor comes to its end: each of its steps brings it
\* nearer, whatever main, the images and the capture process do meanwhile.
RoundEnds ==
  pc["mon"] \notin {"off", "wait"} =>
    Round' <= Round /\ (Monitor => Round' < Round)

LEMMA MonitorLowers ==
  ASSUME TypeInv, TypeInv', Monitor, pc["mon"] # "wait"
  PROVE  Round' < Round
<1> USE DEF TypeInv, MonitorType, Round, Base
<1>0. PcType /\ "mon" \in Threads /\ got.items \in 0..3 /\ got'.items \in 0..3
  BY DEF Threads
<1>1. ASSUME NEW from, NEW to, to \in MonPcs, Go("mon", from, to)
      PROVE  pc["mon"] = from /\ pc'["mon"] = to
  BY <1>0, <1>1, GoType
<1>2. ASSUME NEW case \in {"finite", "endless"}, MonFirst(case)
      PROVE  Round' < Round
  <2>1. pc["mon"] = case /\ pc'["mon"] = "read" /\ ret' = "second"
    BY <1>1, <1>2 DEF MonFirst, Mon, MonPcs
  <2> QED
    BY <2>1
<1>3. CASE MonFinite \/ MonEndless \/ MonUnused
  <2>1. pc["mon"] \in {"finite", "endless", "unused"} /\ pc'["mon"] = "second"
    BY <1>1, <1>3 DEF MonFinite, MonEndless, MonUnused, Mon, MonPcs
  <2> QED
    BY <2>1
<1>4. CASE MonSecond
  <2>1. /\ pc["mon"] = "second"
        /\ \/ pc'["mon"] = "read" /\ ret' = "late"
           \/ pc'["mon"] \in {"late", "wait"}
    BY <1>1, <1>4 DEF MonSecond, Mon, MonPcs
  <2> QED
    BY <2>1
<1>5. CASE MonLate
  <2>1. /\ pc["mon"] = "late"
        /\ \/ pc'["mon"] = "read" /\ ret' = "wait"
           \/ pc'["mon"] = "wait"
    BY <1>1, <1>5 DEF MonLate, Mon, MonPcs
  <2> QED
    BY <2>1
<1>6. CASE MonRead \/ MonWrite
  <2>1. \/ pc["mon"] = "read" /\ pc'["mon"] = "write" /\ ret' = ret
        \/ pc["mon"] = "write" /\ pc'["mon"] = "stop" /\ ret' = ret
    BY <1>1, <1>6 DEF MonRead, MonWrite, Mon, MonPcs
  <2> QED
    BY <2>1
<1>7. CASE MonFails
  <2>1. pc["mon"] \in {"finite", "endless", "second"} /\ pc'["mon"] = "wait"
    BY <1>1, <1>7 DEF MonFails, Mon, MonPcs
  <2> QED
    BY <2>1
<1>8. CASE RestartCamera("mon")
  <2>1. ret \in MonPcs /\ After("mon") = ret
    BY DEF MonPcs, After
  <2>2. CASE RcStop("mon") \/ RcStart("mon") \/ RcSend("mon")
    <3>1. /\ ret' = ret
          /\ \/ pc["mon"] = "stop" /\ pc'["mon"] = "start"
             \/ pc["mon"] = "start" /\ pc'["mon"] = "send"
             \/ pc["mon"] = "send" /\ pc'["mon"] = "await"
      BY <1>1, <2>2 DEF RcStop, RcStart, RcSend, Send, registers, MonPcs
    <3> QED
      BY <1>0, <3>1
  <2>3. CASE RcFails("mon") \/ RcDone("mon")
    <3>1. pc["mon"] \in {"stop", "start", "await"} /\ pc'["mon"] = ret
      BY <1>1, <2>1, <2>3 DEF RcFails, RcDone, Await
    <3>2. Round' = CASE ret = "second" -> 30 [] ret = "late" -> 15 [] OTHER -> 0
      BY <3>1
    <3> QED
      BY <3>1, <3>2
  <2> QED
    BY <1>8, <2>2, <2>3 DEF RestartCamera
<1>9. CASE RcItem
  <2>1. pc["mon"] = "send" /\ pc'["mon"] = "send" /\ ret' = ret
        /\ got'.items = got.items + 1
    BY <1>1, <1>9 DEF RcItem, MonPcs
  <2> QED
    BY <1>0, <2>1
<1>10. ~MonWake
  BY <1>1 DEF MonWake, Mon, MonPcs
<1> QED
  BY <1>2, <1>3, <1>4, <1>5, <1>6, <1>7, <1>8, <1>9, <1>10 DEF Monitor

LEMMA MonitorProgress ==
  TypeInv /\ CallInv /\ [Next]_vars => RoundEnds
<1> SUFFICES ASSUME TypeInv, CallInv, [Next]_vars, pc["mon"] \notin {"off", "wait"}
             PROVE  Round' <= Round /\ (Monitor => Round' < Round)
  BY DEF RoundEnds
<1>0. TypeInv'
  BY TypeNext
<1>1. Round \in Nat /\ Round' \in Nat
  BY <1>0 DEF Round, Base, TypeInv, MonitorType
<1>2. pc["main"] # "off"
  BY DEF CallInv, TypeInv, PcType
<1>3. CASE Monitor
  BY <1>0, <1>1, <1>3, MonitorLowers
<1>4. ASSUME pc'["mon"] = pc["mon"], ret' = ret, got' = got, ~Monitor
      PROVE  Round' <= Round /\ (Monitor => Round' < Round)
  <2>1. Round' = Round
    BY <1>4 DEF Round, Base
  <2> QED
    BY <1>1, <1>4, <2>1
<1>5. CASE MainThread /\ ~Monitor
  <2>1. pc'["mon"] = pc["mon"]
    BY <1>5, MainApart
  <2>2. ret' = ret /\ got' = got
    <3>1. CASE RestartCamera("main")
      BY <3>1
         DEF RestartCamera, RcStop, RcStart, RcFails, RcSend, RcDone, Send, Await,
             Returned, registers
    <3>2. CASE ~RestartCamera("main")
      BY <1>5, <3>2
         DEF MainThread, Boot, Receive, Update, LensFails, Open, Dump, OrderSent,
             OrderDone, Ask, Asked, Replayed, Reply, Ack, Main, Send, Await, registers
    <3> QED
      BY <3>1, <3>2
  <2> QED
    BY <1>4, <1>5, <2>1, <2>2
<1>6. CASE (Environment \/ MonEvent \/ UNCHANGED vars) /\ ~Monitor /\ pc'["main"] # "off"
  <2>1. pc' = pc /\ ret' = ret /\ got' = got
    BY <1>2, <1>6, Outside DEF registers
  <2> QED
    BY <1>4, <1>6, <2>1
<1>7. CASE pc'["main"] = "off" /\ ~Monitor
  <2>1. pc'["mon"] = "off"
    BY <1>0, CallsNext, <1>7 DEF CallInv, TypeInv, PcType
  <2>2. Round' = 0
    BY <2>1 DEF Round
  <2> QED
    BY <1>1, <1>7, <2>2
<1> QED
  BY <1>3, <1>5, <1>6, <1>7 DEF Next

(* Whatever dies, is lost, purged or restarted beside them, main answers the *)
(* request at the head of its queue, and a wake-up of the monitor ends,      *)
(* after a bounded number of their own steps, replay and restarts included.  *)
THEOREM ThreadsAdvance == Spec => [][MainAdvances]_vars /\ [][RoundEnds]_vars
<1>1. TypeInv /\ [Next]_vars => MainAdvances
  BY MainProgress
<1>2. TypeInv /\ CallInv /\ [Next]_vars => RoundEnds
  BY MonitorProgress
<1>3. TypeInv /\ CallInv /\ [Next]_vars => CallInv'
  BY CallsNext
<1>4. Init => CallInv
  BY CallsInit
<1> QED
  BY <1>1, <1>2, <1>3, <1>4, TypeInit, TypeNext, PTL DEF Spec

\* While a continuous session is silent, line 122 sets the time back, in a
\* wake-up that began before the session was stored, line 163 at the end of a
\* restart, and an event that is only handled now; the next wake-ups count it.
SilenceAges ==
  Endless(cmds) /\ Silent /\ Endless(cmds)' /\ Silent' =>
    /\ age' >= age \/ pc["mon"] = "unused" \/ RestartCamera("mon") \/ MonEvent
    /\ pc["mon"] = "wait" /\ pc'["mon"] # "wait" =>
         pc'["mon"] = "endless" /\ age' = Older(age)

LEMMA SilenceStep == TypeInv /\ [Next]_vars => SilenceAges
<1> SUFFICES ASSUME TypeInv, [Next]_vars, Endless(cmds), Silent, Endless(cmds)', Silent'
             PROVE  /\ \/ age' >= age \/ pc["mon"] = "unused"
                       \/ RestartCamera("mon") \/ MonEvent
                    /\ pc["mon"] = "wait" /\ pc'["mon"] # "wait" =>
                         pc'["mon"] = "endless" /\ age' = Older(age)
  BY DEF SilenceAges
<1>0. /\ age \in 0..MaxAge /\ MaxAge \in Nat /\ PcType
      /\ quiet = MaxAge /\ quiet' = MaxAge /\ cmds.capture = -1 /\ cmds.interval > 0
      /\ pc["mon"] # "off" /\ pc'["mon"] # "off"
  BY WatchdogAssumption DEF TypeInv, ClockType, Silent, Endless
<1>1. ASSUME pc'["mon"] = pc["mon"], age' = age
      PROVE  /\ age' >= age
             /\ pc["mon"] = "wait" => pc'["mon"] = "wait"
  BY <1>0, <1>1
<1>2. ASSUME NEW from, NEW to, Go("mon", from, to)
      PROVE  pc["mon"] = from /\ pc'["mon"] = to
  BY <1>0, <1>2 DEF Go, PcType, Threads
<1>3. CASE MainThread
  <2>1. pc'["mon"] = pc["mon"]
    BY <1>3, MainApart
  <2>2. age' = age
    <3>1. CASE RestartCamera("main")
      BY <3>1
         DEF RestartCamera, RcStop, RcStart, RcFails, RcSend, RcDone, Send, Await,
             Returned, clocks
    <3>2. CASE ~RestartCamera("main")
      BY <1>3, <3>2
         DEF MainThread, Boot, Receive, Update, LensFails, Open, Dump, OrderSent,
             OrderDone, Ask, Asked, Replayed, Reply, Ack, Main, Send, Await, clocks
    <3> QED
      BY <3>1, <3>2
  <2> QED
    BY <1>1, <2>1, <2>2
<1>5. CASE MonWake
  <2>a. PICK to \in {"finite", "endless", "second", "unused"} :
          /\ Mon("wait", to)
          /\ to = CASE cmds.interval = 0 -> "second"
                    [] cmds.interval # 0 /\ cmds.capture > 0 /\ cntr < cmds.capture -> "finite"
                    [] cmds.interval # 0 /\ cmds.capture = -1 -> "endless"
                    [] OTHER -> "unused"
    BY <1>5 DEF MonWake
  <2>b. cmds.interval # 0 /\ ~(cmds.capture > 0)
    BY <1>0, WatchdogAssumption DEF TypeInv, SharedType
  <2>c. to = "endless"
    BY <2>a, <2>b, <1>0
  <2>d. Go("mon", "wait", to)
    BY <2>a DEF Mon
  <2>e. pc["mon"] = "wait" /\ pc'["mon"] = "endless"
    BY <1>2, <2>c, <2>d
  <2>f. age' = Older(age)
    BY <1>5 DEF MonWake, Ages
  <2>1. age' >= age
    BY <1>0, <2>f DEF Older
  <2> QED
    BY <2>e, <2>f, <2>1
<1>6. CASE Monitor /\ ~MonWake /\ ~RestartCamera("mon")
  <2>1. pc["mon"] # "wait"
    BY <1>2, <1>6
       DEF Monitor, MonFirst, MonFinite, MonEndless, MonUnused, MonSecond, MonLate,
           MonRead, MonWrite, MonFails, RcItem, Mon
  <2>2. age' = age \/ pc["mon"] = "unused"
    BY <1>0, <1>2, <1>6
       DEF Monitor, MonFirst, MonFinite, MonEndless, MonUnused, MonSecond, MonLate,
           MonRead, MonWrite, MonFails, RcItem, Mon, clocks
  <2> QED
    BY <1>0, <2>1, <2>2
<1>7. CASE RestartCamera("mon")
  <2>1. pc["mon"] \in {"stop", "start", "send", "await"}
    BY <1>2, <1>7
       DEF RestartCamera, RcStop, RcStart, RcFails, RcSend, RcDone, Send, Await
  <2> QED
    BY <1>7, <2>1
<1>8. CASE Environment \/ MonEvent \/ UNCHANGED vars
  <2>1. CASE WdCrash
    BY <1>0, <2>1 DEF WdCrash, Threads
  <2>2. CASE WdStart
    <3>1. pc["main"] = "off" /\ pc'["mon"] = "wait" /\ age' = age
      BY <2>2 DEF WdStart, Threads, clocks
    <3> QED
      BY <1>0, <3>1
  <2>3. CASE MonEvent
    <3>1. pc' = pc
      BY <2>3 DEF MonEvent
    <3> QED
      BY <2>3, <3>1
  <2>4. CASE ~(WdCrash \/ WdStart \/ MonEvent)
    <3>1. pc' = pc /\ age' = age
      BY <1>8, <2>4
         DEF Environment, Call, CamHandle, CamCrash, Autorestart, Image, vars, clocks
    <3> QED
      BY <1>1, <3>1
  <2> QED
    BY <2>1, <2>2, <2>3, <2>4
<1> QED
  BY <1>3, <1>5, <1>6, <1>7, <1>8 DEF Next, Monitor

(* Beside a silent continuous session the time of the monitor runs: but for  *)
(* the end of a restart of its own and an event handled late, nothing sets   *)
(* it back, and each wake-up counts and looks at it.  With ThreadsAdvance    *)
(* this is why the limit is reached and the camera restarted.                *)
THEOREM SilenceIsCounted == Spec => [][SilenceAges]_vars
  BY SilenceStep, TypeInit, TypeNext, PTL DEF Spec
==============================================================================
