---------------------------- MODULE CaptureCounts ----------------------------
(* Proofs about capture, interval, the saver and the files of a session.     *)
EXTENDS CaptureProofs

NoStop    == \A c \in Commands : ~c.stop
UsualSize == \A c \in Commands : c.capture >= -1

Saving == {"write", "count", "left", "load", "store"}

-----------------------------------------------------------------------------
(* interval.  A start sets it with capture, and nothing but the death of the *)
(* process resets it.                                                       *)

IntervalInv ==
  /\ capture # 0 => interval > 0
  /\ sv \in Saving => interval > 0

LEMMA IntervalSame ==
  IntervalInv /\ UNCHANGED <<capture, interval>> /\ (sv' = sv \/ sv' \notin Saving)
    => IntervalInv'
  BY DEF IntervalInv, Saving

LEMMA IntervalDie == Die => IntervalInv'
  BY DEF Die, IntervalInv, Saving

LEMMA IntervalEnvironment == IntervalInv /\ Environment => IntervalInv'
<1>1. ASSUME IntervalInv, NEW c \in Commands, Call(c)
      PROVE  IntervalInv'
  BY <1>1, IntervalSame DEF Call, context, saver
<1>2. IntervalInv /\ Purge => IntervalInv'
  BY IntervalSame DEF Purge, context, saver
<1>3. IntervalInv /\ Restart => IntervalInv'
  BY IntervalSame DEF Restart, context, Saving
<1>4. IntervalInv /\ FrameArrives => IntervalInv'
  BY IntervalSame DEF FrameArrives, context, saver
<1> QED
  BY <1>1, <1>2, <1>3, <1>4, IntervalDie DEF Environment, Crash

LEMMA IntervalRpc ==
  TypeInv /\ ReplyInv /\ IntervalInv /\ RpcThread => IntervalInv'
<1> SUFFICES ASSUME TypeInv, ReplyInv, IntervalInv, RpcThread
             PROVE  IntervalInv'
  OBVIOUS
<1> USE DEF Rpc, saver, context
<1>1. CASE Deliver
  <2>1. interval \in Nat
    BY DEF TypeInv, TypeOK, ContextType
  <2>2. interval' = interval \/ interval' > 0
    BY <1>1 DEF Deliver
  <2> QED
    BY <1>1, <2>2 DEF Deliver, IntervalInv
<1>2. CASE RpcKill \/ RpcHalt
  BY <1>2, IntervalSame DEF RpcKill, RpcHalt
<1>3. CASE RpcExit \/ RpcFault
  BY <1>3, IntervalDie DEF RpcExit, RpcFault
<1>4. CASE RpcStop
  BY <1>4 DEF RpcStop, IntervalInv
<1>5. CASE RpcAccept
  BY <1>5, IntervalSame DEF RpcAccept
<1>6. CASE RpcRefuse
  BY <1>6, IntervalSame DEF RpcRefuse
<1>7. CASE RpcArm
  BY <1>7 DEF RpcArm, IntervalInv, ReplyInv, Executing, Startable
<1>8. CASE RpcReset
  BY <1>8, IntervalSame DEF RpcReset
<1>9. CASE RpcGrab
  BY <1>9, IntervalSame DEF RpcGrab
<1>10. CASE RpcReply
  BY <1>10, IntervalSame DEF RpcReply
<1>11. CASE Flush
  BY <1>11, IntervalSame DEF Flush
<1> QED
  BY <1>1, <1>2, <1>3, <1>4, <1>5, <1>6, <1>7, <1>8, <1>9, <1>10, <1>11
     DEF RpcThread

LEMMA IntervalSaver == IntervalInv /\ SaverThread => IntervalInv'
<1> SUFFICES ASSUME IntervalInv, SaverThread
             PROVE  IntervalInv'
  OBVIOUS
<1> USE DEF Saver, context
<1>1. CASE SvWait
  BY <1>1, IntervalSame DEF SvWait, Saving
<1>2. CASE SvTimeout
  BY <1>2, IntervalSame DEF SvTimeout, Saving
<1>3. CASE SvCleanup
  BY <1>3, IntervalSame DEF SvCleanup, Saving
<1>4. CASE SvExit
  BY <1>4, IntervalDie DEF SvExit
<1>5. CASE SvFrame
  BY <1>5 DEF SvFrame, Capturing, IntervalInv, Saving
<1>6. CASE SvWrite
  BY <1>6 DEF SvWrite, IntervalInv, Saving
<1>7. CASE SvCount
  BY <1>7 DEF SvCount, IntervalInv, Saving
<1>8. CASE SvLeft
  BY <1>8 DEF SvLeft, IntervalInv, Saving
<1>9. CASE SvLoad
  BY <1>9 DEF SvLoad, IntervalInv, Saving
<1>10. CASE SvStore
  BY <1>10 DEF SvStore, IntervalInv, Saving
<1>11. CASE SvZero
  BY <1>11, IntervalSame DEF SvZero, Saving
<1>12. CASE SvHalt
  BY <1>12, IntervalSame DEF SvHalt, Saving
<1> QED
  BY <1>1, <1>2, <1>3, <1>4, <1>5, <1>6, <1>7, <1>8, <1>9, <1>10, <1>11, <1>12
     DEF SaverThread

LEMMA IntervalAlways == Spec => []IntervalInv
<1>1. Init => IntervalInv
  BY DEF Init, IntervalInv, Saving
<1>2. IntervalInv /\ UNCHANGED vars => IntervalInv'
  BY IntervalSame DEF vars, context, saver
<1>3. TypeInv /\ ReplyInv /\ IntervalInv /\ [Next]_vars => IntervalInv'
  BY <1>2, IntervalEnvironment, IntervalRpc, IntervalSaver DEF Next
<1> QED
  BY <1>1, <1>3, TypeAlways, ReplyAlways, PTL DEF Spec

(* Whoever starts, stops or counts a session in whatever order, a session    *)
(* that runs has an interval, and the saver saves its frames.                *)
THEOREM IntervalStays == Spec => []SessionHasInterval
<1>1. IntervalInv => SessionHasInterval
  BY DEF IntervalInv, SessionHasInterval
<1> QED
  BY <1>1, IntervalAlways, PTL

-----------------------------------------------------------------------------
(* The counts of a session, without stop commands.                          *)

CountInv ==
  /\ rp = "arm" => capture = 0
  /\ sv \in Saving => capture # 0
  /\ sv \in {"load", "store"} => capture > 0
  /\ sv = "store" => tmp = capture
  /\ requested > 0 => capture >= 0
  /\ Conservation

LEMMA CountSame ==
  ASSUME CountInv, UNCHANGED <<capture, sv, tmp, requested, files>>,
         rp' = rp \/ rp' # "arm"
  PROVE  CountInv'
  BY DEF CountInv, Conservation, InFlight, Saving

LEMMA CountDie == Die => CountInv'
  BY DEF Die, CountInv, Conservation, InFlight, Saving

LEMMA CountEnvironment == TypeInv /\ CountInv /\ Environment => CountInv'
<1> SUFFICES ASSUME TypeInv, CountInv, Environment
             PROVE  CountInv'
  OBVIOUS
<1>1. ASSUME NEW c \in Commands, Call(c)
      PROVE  CountInv'
  BY <1>1, CountSame DEF Call, context, saver, history
<1>2. CASE Purge
  BY <1>2, CountSame DEF Purge, context, saver, history
<1>3. CASE Restart
  <2>1. sv = "none"
    BY <1>3 DEF Restart, TypeInv, CounterType
  <2> QED
    BY <1>3, <2>1 DEF Restart, context, history, CountInv, Conservation, InFlight, Saving
<1>4. CASE FrameArrives
  BY <1>4, CountSame DEF FrameArrives, context, saver, history
<1> QED
  BY <1>1, <1>2, <1>3, <1>4, CountDie DEF Environment, Crash

LEMMA CountRpc ==
  ASSUME NoStop, TypeInv, ReplyInv, CountInv, RpcThread
  PROVE  CountInv'
<1> USE DEF Rpc, saver, context, history
<1>1. CASE Deliver
  BY <1>1, CountSame DEF Deliver, Branch
<1>2. CASE RpcKill \/ RpcHalt
  BY <1>2, CountSame DEF RpcKill, RpcHalt
<1>3. CASE RpcExit \/ RpcFault
  BY <1>3, CountDie DEF RpcExit, RpcFault
<1>4. CASE RpcStop
  BY <1>4, CommandType DEF RpcStop, NoStop, ReplyInv, Executing
<1>5. CASE RpcAccept
  BY <1>5 DEF RpcAccept, CountInv, Conservation, InFlight
<1>6. CASE RpcRefuse
  BY <1>6, CountSame DEF RpcRefuse
<1>7. CASE RpcArm
  <2>1. cmd.capture \in Int
    BY <1>7, CommandType DEF RpcArm
  <2>2. /\ sv' = sv /\ sv \notin Saving /\ rp' # "arm" /\ files' = 0
        /\ capture' = cmd.capture /\ requested' = cmd.capture
    BY <1>7 DEF RpcArm, CountInv
  <2> QED
    BY <2>1, <2>2 DEF CountInv, Conservation, InFlight, Saving
<1>8. CASE RpcReset
  BY <1>8, CountSame DEF RpcReset
<1>9. CASE RpcGrab
  BY <1>9, CountSame DEF RpcGrab
<1>10. CASE RpcReply
  BY <1>10, CountSame DEF RpcReply
<1>11. CASE Flush
  BY <1>11, CountSame DEF Flush
<1> QED
  BY <1>1, <1>2, <1>3, <1>4, <1>5, <1>6, <1>7, <1>8, <1>9, <1>10, <1>11
     DEF RpcThread

LEMMA CountSaver == TypeInv /\ CountInv /\ SaverThread => CountInv'
<1> SUFFICES ASSUME TypeInv, CountInv, SaverThread
             PROVE  CountInv'
  OBVIOUS
<1>0. capture \in Int /\ files \in Nat /\ requested \in Int /\ tmp \in Int
  BY DEF TypeInv, TypeOK, ContextType, SaverType
<1> USE DEF Saver, context, history, CountInv, Conservation, InFlight, Saving
<1>1. CASE SvWait
  BY <1>1 DEF SvWait
<1>2. CASE SvTimeout
  BY <1>2 DEF SvTimeout
<1>3. CASE SvCleanup
  BY <1>3 DEF SvCleanup
<1>4. CASE SvExit
  BY <1>4, CountDie DEF SvExit
<1>5. CASE SvFrame
  BY <1>5 DEF SvFrame, Capturing
<1>6. CASE SvWrite
  BY <1>0, <1>6 DEF SvWrite
<1>7. CASE SvCount
  BY <1>0, <1>7 DEF SvCount
<1>8. CASE SvLeft
  BY <1>0, <1>8 DEF SvLeft
<1>9. CASE SvLoad
  BY <1>0, <1>9 DEF SvLoad
<1>10. CASE SvStore
  BY <1>0, <1>10 DEF SvStore
<1>11. CASE SvZero
  BY <1>11 DEF SvZero
<1>12. CASE SvHalt
  BY <1>12 DEF SvHalt
<1> QED
  BY <1>1, <1>2, <1>3, <1>4, <1>5, <1>6, <1>7, <1>8, <1>9, <1>10, <1>11, <1>12
     DEF SaverThread

LEMMA CountAlways == NoStop => (Spec => []CountInv)
<1> SUFFICES ASSUME NoStop
             PROVE  Spec => []CountInv
  OBVIOUS
<1>1. Init => CountInv
  BY DEF Init, CountInv, Conservation, InFlight, Saving
<1>2. CountInv /\ UNCHANGED vars => CountInv'
  BY CountSame DEF vars, context, saver, history
<1>3. TypeInv /\ ReplyInv /\ CountInv /\ [Next]_vars => CountInv'
  BY <1>2, CountEnvironment, CountRpc, CountSaver DEF Next
<1> QED
  BY <1>1, <1>3, TypeAlways, ReplyAlways, PTL DEF Spec

(* Where no controller stops a session, the frames left and the files add up *)
(* to the frames that were asked for, whatever dies or falls silent.         *)
THEOREM FramesConserved == NoStop => (Spec => []Conservation)
<1>1. CountInv => Conservation
  BY DEF CountInv
<1> QED
  BY <1>1, CountAlways, PTL

(* The check of line 1083 and the assignment of line 1088 are not one step,  *)
(* yet without stop commands nothing sets capture in between.                *)
THEOREM StartsAreExclusive == NoStop => (Spec => StartsWhenDone)
<1>1. CountInv => (rp = "arm" /\ rp' = "reset" => capture = 0 /\ InFlight = 0)
  BY DEF CountInv, InFlight, Saving
<1> QED
  BY <1>1, CountAlways, PTL DEF StartsWhenDone

-----------------------------------------------------------------------------
(* Without stop commands the process implements CaptureSession.             *)

Left == IF capture > 0 THEN capture - InFlight ELSE capture

SessionStutter == Left' = Left /\ files' = files
SessionStep    == Session!Next \/ SessionStutter

LEMMA StutterSame ==
  UNCHANGED <<capture, sv, files>> => SessionStep
  BY DEF SessionStep, SessionStutter, Left, InFlight

LEMMA EndsSession == Die => SessionStep
  BY DEF Die, SessionStep, Session!Next, Session!End, InFlight

LEMMA RpcSession ==
  ASSUME NoStop, TypeInv, ReplyInv, CountInv, RpcThread
  PROVE  SessionStep
<1> USE StutterSame DEF Rpc, saver, context, history
<1>1. CASE Deliver
  BY <1>1 DEF Deliver
<1>2. CASE RpcKill \/ RpcHalt
  BY <1>2 DEF RpcKill, RpcHalt
<1>3. CASE RpcExit \/ RpcFault
  BY <1>3, EndsSession DEF RpcExit, RpcFault
<1>4. CASE RpcStop
  BY <1>4, CommandType DEF RpcStop, NoStop, ReplyInv, Executing
<1>5. CASE RpcAccept
  BY <1>5 DEF RpcAccept
<1>6. CASE RpcRefuse
  BY <1>6 DEF RpcRefuse
<1>7. CASE RpcArm
  <2>1. /\ capture = 0 /\ sv \notin Saving /\ sv' = sv /\ files' = 0
        /\ capture' = cmd.capture
    BY <1>7 DEF RpcArm, CountInv
  <2>2. cmd.capture \in {c.capture : c \in Commands} \ {0} /\ cmd.capture \in Int
    BY <1>7, CommandType DEF RpcArm, ReplyInv, Executing, Startable
  <2>3. Left = 0 /\ Left' = cmd.capture
    BY <2>1, <2>2 DEF Left, InFlight, Saving
  <2> QED
    BY <2>1, <2>2, <2>3 DEF SessionStep, Session!Next, Session!Start, Left
<1>8. CASE RpcReset
  BY <1>8 DEF RpcReset
<1>9. CASE RpcGrab
  BY <1>9 DEF RpcGrab
<1>10. CASE RpcReply
  BY <1>10 DEF RpcReply
<1>11. CASE Flush
  BY <1>11 DEF Flush
<1> QED
  BY <1>1, <1>2, <1>3, <1>4, <1>5, <1>6, <1>7, <1>8, <1>9, <1>10, <1>11
     DEF RpcThread

\* Steps of the saver that neither write a file nor store capture.
LEMMA QuietSaver ==
  ASSUME NEW from, NEW to, Saver(from, to), capture' = capture, files' = files,
         from \in {"count", "left", "load", "store"} <=>
           to \in {"count", "left", "load", "store"}
  PROVE  SessionStep
  BY DEF Saver, SessionStep, SessionStutter, Left, InFlight

LEMMA SaverSession ==
  ASSUME TypeInv, CountInv, SaverThread
  PROVE  SessionStep
<1>0. capture \in Int /\ files \in Nat
  BY DEF TypeInv, TypeOK, ContextType
<1> USE DEF context, history
<1>1. CASE SvWait
  BY <1>1, QuietSaver DEF SvWait
<1>2. CASE SvTimeout
  BY <1>2, QuietSaver DEF SvTimeout
<1>3. CASE SvCleanup
  BY <1>3, QuietSaver DEF SvCleanup
<1>4. CASE SvExit
  BY <1>4, EndsSession DEF SvExit
<1>5. CASE SvFrame
  BY <1>5, QuietSaver DEF SvFrame
<1>6. CASE SvWrite
  <2>1. /\ sv = "write" /\ sv' = "count" /\ capture' = capture /\ capture # 0
        /\ files' = files + 1
    BY <1>6 DEF SvWrite, Saver, CountInv, Saving
  <2>2. /\ Left = capture
        /\ Left' = IF Left > 0 THEN Left - 1 ELSE Left
    BY <1>0, <2>1 DEF Left, InFlight
  <2> QED
    BY <2>1, <2>2 DEF SessionStep, Session!Next, Session!Save, Left
<1>7. CASE SvCount
  BY <1>7, QuietSaver DEF SvCount
<1>8. CASE SvLeft
  <2>1. /\ sv = "left" /\ capture' = capture /\ files' = files
        /\ sv' = IF capture > 0 THEN "load" ELSE "wait"
    BY <1>8 DEF SvLeft, Saver
  <2> QED
    BY <1>0, <2>1 DEF SessionStep, SessionStutter, Left, InFlight
<1>9. CASE SvLoad
  BY <1>9, QuietSaver DEF SvLoad
<1>10. CASE SvStore
  <2>1. /\ sv = "store" /\ sv' = "zero" /\ capture > 0 /\ files' = files
        /\ capture' = capture - 1
    BY <1>10 DEF SvStore, Saver, CountInv
  <2> QED
    BY <1>0, <2>1 DEF SessionStep, SessionStutter, Left, InFlight
<1>11. CASE SvZero
  BY <1>11, QuietSaver DEF SvZero
<1>12. CASE SvHalt
  BY <1>12, QuietSaver DEF SvHalt
<1> QED
  BY <1>1, <1>2, <1>3, <1>4, <1>5, <1>6, <1>7, <1>8, <1>9, <1>10, <1>11, <1>12
     DEF SaverThread

LEMMA EnvironmentSession == TypeInv /\ Environment => SessionStep
<1> SUFFICES ASSUME TypeInv, Environment
             PROVE  SessionStep
  OBVIOUS
<1> USE StutterSame DEF context, saver, history
<1>1. ASSUME NEW c \in Commands, Call(c)
      PROVE  SessionStep
  BY <1>1 DEF Call
<1>2. CASE Purge
  BY <1>2 DEF Purge
<1>3. CASE Restart
  <2>1. sv = "none" /\ sv' \in {"none", "wait"} /\ capture' = capture /\ files' = files
    BY <1>3 DEF Restart, TypeInv, CounterType
  <2> QED
    BY <2>1 DEF SessionStep, SessionStutter, Left, InFlight
<1>4. CASE FrameArrives
  BY <1>4 DEF FrameArrives
<1> QED
  BY <1>1, <1>2, <1>3, <1>4, EndsSession DEF Environment, Crash

(* Where no controller stops a session, the capture process gives its        *)
(* controllers what CaptureSession promises: one session at a time, as many  *)
(* files as were asked for, and nothing left of it when the process dies.    *)
THEOREM CaptureImplementsSession == NoStop => (Spec => SessionSpec)
<1> SUFFICES ASSUME NoStop
             PROVE  Spec => SessionSpec
  OBVIOUS
<1>1. Init => Session!Init
  BY DEF Init, Session!Init, InFlight
<1>2. TypeInv /\ ReplyInv /\ CountInv /\ [Next]_vars => SessionStep
  <2>1. UNCHANGED vars => SessionStep
    BY StutterSame DEF vars, context, saver, history
  <2> QED
    BY <2>1, RpcSession, SaverSession, EnvironmentSession DEF Next
<1>3. SessionStep => [Session!Next]_<<Left, files>>
  BY DEF SessionStep, SessionStutter
<1> QED
  BY <1>1, <1>2, <1>3, TypeAlways, ReplyAlways, CountAlways, PTL
     DEF Spec, SessionSpec, Session!Spec, Left

-----------------------------------------------------------------------------
(* capture itself, with stop commands.                                      *)

FloorInv ==
  /\ capture >= -2
  /\ sv = "load" => capture >= -1
  /\ sv = "store" => tmp >= -1

LEMMA FloorSame ==
  FloorInv /\ UNCHANGED <<capture, tmp>> /\ (sv' = sv \/ sv' \notin {"load", "store"})
    => FloorInv'
  BY DEF FloorInv

LEMMA FloorDie == Die => FloorInv'
  BY DEF Die, FloorInv

LEMMA FloorEnvironment == FloorInv /\ Environment => FloorInv'
<1>1. ASSUME FloorInv, NEW c \in Commands, Call(c)
      PROVE  FloorInv'
  BY <1>1, FloorSame DEF Call, context, saver
<1>2. FloorInv /\ (Purge \/ FrameArrives) => FloorInv'
  BY FloorSame DEF Purge, FrameArrives, context, saver
<1>3. FloorInv /\ Restart => FloorInv'
  BY FloorSame DEF Restart, context
<1> QED
  BY <1>1, <1>2, <1>3, FloorDie DEF Environment, Crash

LEMMA FloorRpc ==
  ASSUME UsualSize, TypeInv, FloorInv, RpcThread
  PROVE  FloorInv'
<1> USE FloorSame DEF Rpc, saver, context
<1>1. CASE Deliver
  BY <1>1 DEF Deliver
<1>2. CASE RpcKill \/ RpcHalt
  BY <1>2 DEF RpcKill, RpcHalt
<1>3. CASE RpcExit \/ RpcFault
  BY <1>3, FloorDie DEF RpcExit, RpcFault
<1>4. CASE RpcStop
  BY <1>4 DEF RpcStop, FloorInv
<1>5. CASE RpcAccept \/ RpcRefuse
  BY <1>5 DEF RpcAccept, RpcRefuse
<1>6. CASE RpcArm
  <2>1. cmd.capture \in Int /\ cmd.capture >= -1
    BY <1>6, CommandType DEF RpcArm, UsualSize
  <2> QED
    BY <1>6, <2>1 DEF RpcArm, FloorInv
<1>7. CASE RpcReset
  BY <1>7 DEF RpcReset
<1>8. CASE RpcGrab
  BY <1>8 DEF RpcGrab
<1>9. CASE RpcReply
  BY <1>9 DEF RpcReply
<1>10. CASE Flush
  BY <1>10 DEF Flush
<1> QED
  BY <1>1, <1>2, <1>3, <1>4, <1>5, <1>6, <1>7, <1>8, <1>9, <1>10 DEF RpcThread

LEMMA FloorSaver == TypeInv /\ FloorInv /\ SaverThread => FloorInv'
<1> SUFFICES ASSUME TypeInv, FloorInv, SaverThread
             PROVE  FloorInv'
  OBVIOUS
<1>0. capture \in Int /\ tmp \in Int
  BY DEF TypeInv, TypeOK, ContextType, SaverType
<1> USE FloorSame DEF Saver, context
<1>1. CASE SvWait
  BY <1>1 DEF SvWait
<1>2. CASE SvTimeout
  BY <1>2 DEF SvTimeout
<1>3. CASE SvExit
  BY <1>3, FloorDie DEF SvExit
<1>4. CASE SvFrame \/ SvCleanup
  BY <1>4 DEF SvFrame, SvCleanup
<1>5. CASE SvWrite
  BY <1>5 DEF SvWrite, FloorInv
<1>6. CASE SvCount
  BY <1>6 DEF SvCount
<1>7. CASE SvLeft
  BY <1>0, <1>7 DEF SvLeft, FloorInv
<1>8. CASE SvLoad
  BY <1>0, <1>8 DEF SvLoad, FloorInv
<1>9. CASE SvStore
  BY <1>0, <1>9 DEF SvStore, FloorInv
<1>10. CASE SvZero \/ SvHalt
  BY <1>10 DEF SvZero, SvHalt
<1> QED
  BY <1>1, <1>2, <1>3, <1>4, <1>5, <1>6, <1>7, <1>8, <1>9, <1>10 DEF SaverThread

(* Stop and start commands race the saver's unlocked decrement; where no     *)
(* controller asks for less than -1 frames, capture never falls below -2.    *)
THEOREM FloorHolds == UsualSize => (Spec => []CaptureFloor)
<1> SUFFICES ASSUME UsualSize
             PROVE  Spec => []CaptureFloor
  OBVIOUS
<1>1. Init => FloorInv
  BY DEF Init, FloorInv
<1>2. FloorInv /\ UNCHANGED vars => FloorInv'
  BY FloorSame DEF vars, context, saver
<1>3. TypeInv /\ FloorInv /\ [Next]_vars => FloorInv'
  BY <1>2, FloorEnvironment, FloorRpc, FloorSaver DEF Next
<1>4. FloorInv => CaptureFloor
  BY DEF FloorInv, CaptureFloor
<1> QED
  BY <1>1, <1>3, <1>4, TypeAlways, PTL DEF Spec

-----------------------------------------------------------------------------
(* The buffers the saver writes from, kill commands included.               *)

BufferInv ==
  /\ rp \in {"kill", "exit"} => cmd.kill
  /\ sv \in {"frame", "write"} => Open \/ rp = "exit"

LEMMA BufferSame ==
  ASSUME BufferInv, UNCHANGED <<camera, unacked>>,
         sv' = sv \/ sv' \notin {"frame", "write"} \/ sv \in {"frame", "write"},
         rp' = rp \/ (rp' \notin {"kill", "exit"} /\ rp # "exit")
  PROVE  BufferInv'
  BY DEF BufferInv, Open, cmd, request

LEMMA BufferDie == Die => BufferInv'
  BY DEF Die, BufferInv

LEMMA BufferEnvironment == TypeInv /\ BufferInv /\ Environment => BufferInv'
<1>1. ASSUME BufferInv, NEW c \in Commands, Call(c)
      PROVE  BufferInv'
  BY <1>1, BufferSame DEF Call, stream, saver
<1>2. BufferInv /\ (Purge \/ FrameArrives) => BufferInv'
  BY BufferSame DEF Purge, FrameArrives, stream, saver, broker
<1>3. TypeInv /\ BufferInv /\ Restart => BufferInv'
  BY DEF Restart, BufferInv, TypeInv, CounterType, cmd, request, broker
<1> QED
  BY <1>1, <1>2, <1>3, BufferDie DEF Environment, Crash

LEMMA BufferRpc ==
  ASSUME BufferInv, RpcThread
  PROVE  BufferInv'
<1> USE BufferSame DEF Rpc, saver, stream, broker
<1>1. CASE Deliver
  <2>1. rp' = Branch(Head(queue).cmd) /\ unacked' = <<Head(queue)>>
    BY <1>1 DEF Deliver
  <2>2. rp' # "exit" /\ (rp' = "kill" => Head(queue).cmd.kill)
    BY <2>1 DEF Branch
  <2>3. cmd' = Head(queue).cmd
    BY <2>1 DEF cmd, request
  <2>4. sv' = sv /\ camera' = camera /\ rp = "idle"
    BY <1>1 DEF Deliver
  <2> QED
    BY <2>2, <2>3, <2>4 DEF BufferInv, Open
<1>2. CASE RpcKill
  BY <1>2 DEF RpcKill, BufferInv, cmd, request
<1>3. CASE RpcExit \/ RpcFault
  BY <1>3, BufferDie DEF RpcExit, RpcFault
<1>4. CASE RpcStop \/ RpcAccept \/ RpcRefuse \/ RpcReset
  BY <1>4 DEF RpcStop, RpcAccept, RpcRefuse, RpcReset
<1>5. CASE RpcHalt
  BY <1>5 DEF RpcHalt, StopTransfer
<1>6. CASE RpcArm
  BY <1>6 DEF RpcArm
<1>7. CASE RpcGrab
  BY <1>7 DEF RpcGrab
<1>8. CASE RpcReply
  BY <1>8 DEF RpcReply
<1>9. CASE Flush
  BY <1>9 DEF Flush, BufferInv, Open
<1> QED
  BY <1>1, <1>2, <1>3, <1>4, <1>5, <1>6, <1>7, <1>8, <1>9 DEF RpcThread

LEMMA BufferSaver == BufferInv /\ SaverThread => BufferInv'
<1> SUFFICES ASSUME BufferInv, SaverThread
             PROVE  BufferInv'
  OBVIOUS
<1> USE BufferSame DEF Saver, stream, broker
<1>1. CASE SvWait
  BY <1>1 DEF SvWait, BufferInv, Open, cmd, request
<1>2. CASE SvTimeout
  BY <1>2 DEF SvTimeout
<1>3. CASE SvCleanup
  BY <1>3 DEF SvCleanup, BufferInv, cmd, request
<1>4. CASE SvExit
  BY <1>4, BufferDie DEF SvExit
<1>5. CASE SvFrame
  BY <1>5 DEF SvFrame, BufferInv, Open, cmd, request
<1>6. CASE SvWrite \/ SvCount \/ SvLeft \/ SvLoad
  BY <1>6 DEF SvWrite, SvCount, SvLeft, SvLoad
<1>7. CASE SvStore \/ SvZero
  BY <1>7 DEF SvStore, SvZero
<1>8. CASE SvHalt
  BY <1>8 DEF SvHalt, StopTransfer
<1> QED
  BY <1>1, <1>2, <1>3, <1>4, <1>5, <1>6, <1>7, <1>8 DEF SaverThread

(* The saver writes from the address the engine gave it: nothing frees the   *)
(* buffers between the wait and the write but a kill command, after whose    *)
(* cleanup the RPC thread does nothing more than end the process.            *)
THEOREM BuffersAlive == Spec => []SaverUsesLiveBuffers
<1>1. Init => BufferInv
  BY DEF Init, BufferInv
<1>2. BufferInv /\ UNCHANGED vars => BufferInv'
  BY BufferSame DEF vars, stream, saver, broker
<1>3. TypeInv /\ BufferInv /\ [Next]_vars => BufferInv'
  BY <1>2, BufferEnvironment, BufferRpc, BufferSaver DEF Next
<1>4. BufferInv => SaverUsesLiveBuffers
  BY DEF BufferInv, SaverUsesLiveBuffers
<1> QED
  BY <1>1, <1>3, <1>4, TypeAlways, PTL DEF Spec

-----------------------------------------------------------------------------
(* Sessions end.  The ranks behind WedgeClears and SessionEnds, whose last   *)
(* step, from a rank that falls to a state that is left, needs fairness.     *)

\* A process whose camera did not open has no saver, and the session it starts
\* is on its way to the reply that ends the process.
DoomInv ==
  /\ camera = "none" <=> sv = "none"
  /\ camera = "none" /\ capture # 0 => rp \in {"reset", "grab", "status"}

LEMMA DoomSame ==
  DoomInv /\ UNCHANGED <<camera, sv, capture, rp>> => DoomInv'
  BY DEF DoomInv

LEMMA DoomDie == Die => DoomInv'
  BY DEF Die, DoomInv

LEMMA DoomEnvironment == TypeInv /\ DoomInv /\ Environment => DoomInv'
<1>1. ASSUME DoomInv, NEW c \in Commands, Call(c)
      PROVE  DoomInv'
  BY <1>1, DoomSame DEF Call, context, stream, saver
<1>2. DoomInv /\ Purge => DoomInv'
  BY DoomSame DEF Purge, context, stream, saver
<1>3. TypeInv /\ DoomInv /\ Restart => DoomInv'
  BY DEF Restart, DoomInv, context, TypeInv, CounterType
<1>4. DoomInv /\ FrameArrives => DoomInv'
  BY DoomSame DEF FrameArrives, context, saver
<1> QED
  BY <1>1, <1>2, <1>3, <1>4, DoomDie DEF Environment, Crash

LEMMA DoomRpc == DoomInv /\ RpcThread => DoomInv'
<1> SUFFICES ASSUME DoomInv, RpcThread
             PROVE  DoomInv'
  OBVIOUS
<1> USE DEF DoomInv, Rpc, saver, context, stream
<1>1. CASE Deliver \/ RpcRefuse \/ RpcAccept \/ RpcStop \/ RpcArm
  BY <1>1 DEF Deliver, RpcRefuse, RpcAccept, RpcStop, RpcArm
<1>2. CASE RpcKill
  BY <1>2 DEF RpcKill, Cleanup, Open
<1>3. CASE RpcHalt
  BY <1>3 DEF RpcHalt, StopTransfer
<1>4. CASE RpcExit \/ RpcFault
  BY <1>4, DoomDie DEF RpcExit, RpcFault
<1>5. CASE RpcReset \/ RpcGrab
  BY <1>5 DEF RpcReset, RpcGrab
<1>6. CASE RpcReply \/ Flush
  BY <1>6 DEF RpcReply, Flush
<1> QED
  BY <1>1, <1>2, <1>3, <1>4, <1>5, <1>6 DEF RpcThread

LEMMA DoomSaver == DoomInv /\ SaverThread => DoomInv'
<1> SUFFICES ASSUME DoomInv, SaverThread
             PROVE  DoomInv'
  OBVIOUS
<1> USE DEF DoomInv, Saver, context, stream
<1>1. CASE SvWait \/ SvTimeout \/ SvFrame \/ SvWrite \/ SvCount \/ SvLeft
  BY <1>1 DEF SvWait, SvTimeout, SvFrame, SvWrite, SvCount, SvLeft
<1>2. CASE SvLoad \/ SvStore \/ SvZero
  BY <1>2 DEF SvLoad, SvStore, SvZero
<1>3. CASE SvCleanup
  BY <1>3 DEF SvCleanup, Cleanup, Open
<1>4. CASE SvHalt
  BY <1>4 DEF SvHalt, StopTransfer
<1>5. CASE SvExit
  BY <1>5, DoomDie DEF SvExit
<1> QED
  BY <1>1, <1>2, <1>3, <1>4, <1>5 DEF SaverThread

LEMMA DoomAlways == Spec => []DoomInv
<1>1. Init => DoomInv
  BY DEF Init, DoomInv
<1>2. DoomInv /\ UNCHANGED vars => DoomInv'
  BY DoomSame DEF vars, context, stream, saver
<1>3. TypeInv /\ DoomInv /\ [Next]_vars => DoomInv'
  BY <1>2, DoomEnvironment, DoomRpc, DoomSaver DEF Next
<1> QED
  BY <1>1, <1>3, TypeAlways, PTL DEF Spec

\* A session has a saver, or the process faults before it returns.
SessionHasSaver ==
  capture # 0 =>
    sv # "none" \/ (camera = "none" /\ rp \in {"reset", "grab", "status"})

\* Where the saver is on its way round, in a session without a transfer.
Place ==
  CASE sv = "frame"             -> 9
    [] sv = "write"             -> 8
    [] sv = "count"             -> 7
    [] sv = "left"              -> 6
    [] sv = "load"              -> 5
    [] sv = "store"             -> 4
    [] sv = "zero"              -> 3
    [] sv = "halt"              -> 2
    [] sv \in {"wait", "cleanup"} -> 1
    [] OTHER                    -> 0

\* While a session is wedged no frame comes and no timeout is forgiven, and
\* each step of the saver counts a timeout, takes a frame or goes on.
WedgeShrinks ==
  Wedged /\ Wedged' =>
    /\ nullctr' >= nullctr
    /\ nullctr' = nullctr => full' <= full
    /\ SaverThread => nullctr' > nullctr \/ full' < full \/ Place' < Place

LEMMA WedgeStep == TypeInv /\ IntervalInv /\ [Next]_vars => WedgeShrinks
<1> SUFFICES ASSUME TypeInv, IntervalInv, [Next]_vars, Wedged, Wedged'
             PROVE  /\ nullctr' >= nullctr
                    /\ nullctr' = nullctr => full' <= full
                    /\ SaverThread =>
                         nullctr' > nullctr \/ full' < full \/ Place' < Place
  BY DEF WedgeShrinks
<1>0. nullctr \in Nat /\ full \in Nat /\ Capturing
  BY DEF TypeInv, TypeOK, ContextType, StreamType, IntervalInv, Wedged, Capturing
<1>1. ~Die /\ capture # 0 /\ ~grab'
  BY DEF Die, Wedged
<1>2. ASSUME SaverThread
      PROVE  /\ nullctr' >= nullctr /\ full' <= full
             /\ nullctr' > nullctr \/ full' < full \/ Place' < Place
  <2> USE DEF Saver, context, stream
  <2>1. CASE SvWait
    BY <1>0, <2>1 DEF SvWait, Place
  <2>2. CASE SvTimeout
    BY <1>0, <2>2 DEF SvTimeout
  <2>3. CASE SvFrame
    BY <1>0, <2>3 DEF SvFrame, Place
  <2>4. CASE SvExit
    BY <1>1, <2>4 DEF SvExit
  <2>5. CASE SvCleanup
    BY <1>0, <2>5 DEF SvCleanup, Cleanup, Place
  <2>6. CASE SvWrite \/ SvCount \/ SvLeft \/ SvLoad \/ SvStore \/ SvZero
    BY <1>0, <2>6 DEF SvWrite, SvCount, SvLeft, SvLoad, SvStore, SvZero, Place
  <2>7. CASE SvHalt
    BY <1>0, <2>7 DEF SvHalt, StopTransfer, Place
  <2> QED
    BY <1>2, <2>1, <2>2, <2>3, <2>4, <2>5, <2>6, <2>7 DEF SaverThread
<1>3. CASE Environment \/ UNCHANGED vars
  <2>1. nullctr' = nullctr /\ full' = full
    BY <1>1, <1>3
       DEF Environment, Call, Purge, Restart, Crash, FrameArrives, vars, Wedged,
           context, stream
  <2> QED
    BY <1>0, <1>2, <2>1
<1>4. CASE RpcThread
  <2> USE DEF Rpc, context, stream
  <2>1. nullctr' = nullctr /\ full' <= full
    <3>1. CASE RpcKill \/ RpcHalt \/ RpcGrab
      <4>1. nullctr' = nullctr
        BY <3>1 DEF RpcKill, RpcHalt, RpcGrab
      <4>2. full' \in {0, full}
        BY <3>1 DEF RpcKill, RpcHalt, RpcGrab, Cleanup, StopTransfer
      <4> QED
        BY <1>0, <4>1, <4>2
    <3>2. CASE RpcExit \/ RpcFault
      BY <1>1, <3>2 DEF RpcExit, RpcFault
    <3>3. CASE Deliver \/ RpcStop \/ RpcAccept \/ RpcRefuse \/ RpcArm
      BY <1>0, <3>3 DEF Deliver, RpcStop, RpcAccept, RpcRefuse, RpcArm
    <3>4. CASE RpcReset \/ RpcReply \/ Flush
      BY <1>0, <3>4 DEF RpcReset, RpcReply, Flush
    <3> QED
      BY <1>4, <3>1, <3>2, <3>3, <3>4 DEF RpcThread
  <2> QED
    BY <1>0, <1>2, <2>1
<1> QED
  BY <1>2, <1>3, <1>4, <1>0 DEF Next

(* A session whose transfer does not run has a saver that counts (or a       *)
(* process that is about to fault), at most three timeouts and NumBuf frames *)
(* away from the end of the process: whatever the RPC thread does meanwhile, *)
(* it hands out no frame and forgives no timeout.                            *)
THEOREM WedgesShrink == Spec => []SessionHasSaver /\ [][WedgeShrinks]_vars
<1>1. DoomInv => SessionHasSaver
  BY DEF DoomInv, SessionHasSaver
<1>2. TypeInv /\ IntervalInv /\ [Next]_vars => WedgeShrinks
  BY WedgeStep
<1> QED
  BY <1>1, <1>2, DoomAlways, IntervalAlways, TypeAlways, PTL DEF Spec

\* Where the saver is on its way from one counted frame to the next.
Lap ==
  CASE sv = "zero"                 -> 12
    [] sv = "halt"                 -> 11
    [] sv = "wait"                 -> 10
    [] sv \in {"timeout", "frame"} -> 9
    [] sv = "write"                -> 8
    [] sv = "count"                -> 7
    [] sv = "left"                 -> 6
    [] sv = "load"                 -> 5
    [] sv = "store"                -> 4
    [] sv = "cleanup"              -> 1
    [] OTHER                       -> 0

\* While a finite session lasts, each step of the saver counts a timeout or a
\* frame or goes on, and nobody gives back what is counted.
SessionShrinks ==
  capture > 0 /\ capture' > 0 =>
    /\ nullctr' >= nullctr
    /\ nullctr' = nullctr => capture' <= capture
    /\ SaverThread => nullctr' > nullctr \/ capture' < capture \/ Lap' < Lap

LEMMA SessionShrinkStep ==
  ASSUME NoStop, TypeInv, ReplyInv, IntervalInv, CountInv, [Next]_vars
  PROVE  SessionShrinks
<1> SUFFICES ASSUME capture > 0, capture' > 0
             PROVE  /\ nullctr' >= nullctr
                    /\ nullctr' = nullctr => capture' <= capture
                    /\ SaverThread =>
                         nullctr' > nullctr \/ capture' < capture \/ Lap' < Lap
  BY DEF SessionShrinks
<1>0. nullctr \in Nat /\ capture \in Int /\ Capturing
  BY DEF TypeInv, TypeOK, ContextType, IntervalInv, Capturing
<1>1. ~Die
  BY DEF Die
<1>2. ASSUME SaverThread
      PROVE  /\ nullctr' >= nullctr /\ capture' <= capture
             /\ nullctr' > nullctr \/ capture' < capture \/ Lap' < Lap
  <2> USE DEF Saver, context
  <2>1. CASE SvWait
    BY <1>0, <2>1 DEF SvWait, Lap
  <2>2. CASE SvTimeout
    BY <1>0, <2>2 DEF SvTimeout
  <2>3. CASE SvFrame
    BY <1>0, <2>3 DEF SvFrame, Lap
  <2>4. CASE SvExit
    BY <1>1, <2>4 DEF SvExit
  <2>5. CASE SvStore
    BY <1>0, <2>5 DEF SvStore, CountInv
  <2>6. CASE SvCleanup \/ SvWrite \/ SvCount \/ SvLeft \/ SvLoad
    BY <1>0, <2>6 DEF SvCleanup, SvWrite, SvCount, SvLeft, SvLoad, Lap
  <2>7. CASE SvZero \/ SvHalt
    BY <1>0, <2>7 DEF SvZero, SvHalt, Lap
  <2> QED
    BY <1>2, <2>1, <2>2, <2>3, <2>4, <2>5, <2>6, <2>7 DEF SaverThread
<1>3. CASE Environment \/ UNCHANGED vars
  <2>1. nullctr' = nullctr /\ capture' = capture
    BY <1>1, <1>3
       DEF Environment, Call, Purge, Restart, Crash, FrameArrives, vars, context
  <2> QED
    BY <1>0, <1>2, <2>1
<1>4. CASE RpcThread
  <2> USE DEF Rpc, context
  <2>1. nullctr' = nullctr /\ capture' = capture
    <3>1. CASE RpcKill \/ RpcHalt \/ RpcGrab \/ RpcReset \/ RpcReply \/ Flush
      BY <3>1 DEF RpcKill, RpcHalt, RpcGrab, RpcReset, RpcReply, Flush
    <3>2. CASE RpcExit \/ RpcFault
      BY <1>1, <3>2 DEF RpcExit, RpcFault
    <3>3. CASE Deliver \/ RpcAccept \/ RpcRefuse
      BY <3>3 DEF Deliver, RpcAccept, RpcRefuse
    <3>4. CASE RpcStop
      BY <3>4 DEF RpcStop
    <3>5. CASE RpcArm
      BY <3>5 DEF RpcArm, CountInv
    <3> QED
      BY <1>4, <3>1, <3>2, <3>3, <3>4, <3>5 DEF RpcThread
  <2> QED
    BY <1>0, <1>2, <2>1
<1> QED
  BY <1>2, <1>3, <1>4, <1>0 DEF Next

(* A finite session is three timeouts and its own frames away from its end,  *)
(* and no step of anyone takes it back: whatever is called meanwhile, the    *)
(* frames and the timeouts the saver counted stay counted.  Without stop     *)
(* commands: with them a late decrement writes over the next session's size. *)
THEOREM SessionsShrink == NoStop => (Spec => [][SessionShrinks]_vars)
<1> SUFFICES ASSUME NoStop
             PROVE  Spec => [][SessionShrinks]_vars
  OBVIOUS
<1>1. TypeInv /\ ReplyInv /\ IntervalInv /\ CountInv /\ [Next]_vars
        => SessionShrinks
  BY SessionShrinkStep
<1> QED
  BY <1>1, TypeAlways, ReplyAlways, IntervalAlways, CountAlways, PTL DEF Spec
=============================================================================
