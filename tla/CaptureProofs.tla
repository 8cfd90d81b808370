---------------------------- MODULE CaptureProofs ----------------------------
(* Proofs about Capture, for every set of commands and every bound.          *)
EXTENDS Capture, SequenceTheorems, TLAPS

HistoryType == requested \in Int /\ files \in Nat

\* TypeOK is inductive with what two of the saver's steps rely on.
CounterType ==
  /\ sv \notin {"cleanup", "exit"} => nullctr <= 2
  /\ sv = "count" => tmp \in Nat
  /\ up \/ sv = "none"

TypeInv == TypeOK /\ CounterType

-----------------------------------------------------------------------------
(* Groups of variables that a step leaves alone keep their types.           *)

LEMMA SameBroker == BrokerType /\ UNCHANGED broker => BrokerType'
  BY DEF BrokerType, broker

LEMMA SameContext == ContextType /\ UNCHANGED context => ContextType'
  BY DEF ContextType, context

LEMMA SameStream == StreamType /\ UNCHANGED stream => StreamType'
  BY DEF StreamType, stream

\* Booleans apart: one prover knows them, the other the arithmetic.
CameraType == camera \in {"none", "open", "closed"} /\ full \in 0..NumBuf

LEMMA StreamParts ==
  /\ StreamType <=> CameraType /\ grab \in BOOLEAN
  /\ StreamType' <=> CameraType' /\ grab' \in BOOLEAN
  BY DEF StreamType, CameraType

LEMMA SameSaver == SaverType /\ UNCHANGED saver => SaverType'
  BY DEF SaverType, saver

LEMMA SameHistory == HistoryType /\ UNCHANGED history => HistoryType'
  BY DEF HistoryType, history

LEMMA SameRpc == RpcType /\ UNCHANGED <<rp, out, unacked>> => RpcType'
  BY DEF RpcType

LEMMA SameCounters ==
  CounterType /\ UNCHANGED <<sv, tmp, nullctr, up>> => CounterType'
  BY DEF CounterType

\* The parts of TypeInv, for assembling it again.
LEMMA Parts ==
  TypeInv <=> /\ BrokerType /\ ContextType /\ StreamType /\ SaverType
              /\ RpcType /\ HistoryType /\ CounterType /\ up \in BOOLEAN
  BY DEF TypeInv, TypeOK, HistoryType

LEMMA PartsPrime ==
  TypeInv' <=> /\ BrokerType' /\ ContextType' /\ StreamType' /\ SaverType'
               /\ RpcType' /\ HistoryType' /\ CounterType' /\ up' \in BOOLEAN
  BY DEF TypeInv, TypeOK, HistoryType

LEMMA RequestType ==
  ASSUME BrokerType, unacked # <<>>
  PROVE  /\ request \in Requests
         /\ cmd \in Commands
         /\ cmd.capture \in Int /\ cmd.interval \in Nat
<1>1. request \in Requests
  BY HeadTailProperties DEF BrokerType, request
<1> QED
  BY <1>1, CommandsAssumption DEF Requests, cmd

LEMMA DieType == TypeInv /\ Die => TypeInv'
<1> SUFFICES ASSUME TypeInv, Die
             PROVE  TypeInv'
  OBVIOUS
<1>1. unacked \o queue \in Seq(Requests)
  BY ConcatProperties DEF TypeInv, TypeOK, BrokerType
<1>2. /\ << >> \in Seq(Requests) /\ Len(<< >>) = 0
      /\ << >> \in Seq(Replies \union Acks)
  BY EmptySeq
<1>3. BrokerType'
  BY <1>1, <1>2 DEF Die, TypeInv, TypeOK, BrokerType
<1>4. ContextType' /\ SaverType' /\ HistoryType' /\ CounterType'
  BY DEF Die, ContextType, SaverType, HistoryType, CounterType, Errors
<1>5. StreamType'
  <2>1. CameraType'
    BY BoundsAssumption DEF Die, CameraType
  <2>2. grab' \in BOOLEAN
    BY DEF Die
  <2> QED
    BY <2>1, <2>2, StreamParts
<1>6. RpcType' /\ up' \in BOOLEAN
  BY <1>2 DEF Die, RpcType
<1> QED
  BY <1>3, <1>4, <1>5, <1>6, PartsPrime

LEMMA EnvironmentType == TypeInv /\ Environment => TypeInv'
<1> SUFFICES ASSUME TypeInv, Environment
             PROVE  TypeInv'
  OBVIOUS
<1> USE Parts, PartsPrime
<1>1. ASSUME NEW c \in Commands, Call(c)
      PROVE  TypeInv'
  <2>1. sent + 1 \in 1..MaxCalls
    BY <1>1, BoundsAssumption DEF Call, BrokerType
  <2>2. [id |-> sent + 1, cmd |-> c] \in Requests
    BY <2>1 DEF Requests
  <2>3. BrokerType'
    BY <1>1, <2>1, <2>2 DEF Call, BrokerType
  <2> QED
    BY <1>1, <2>3, SameContext, SameStream, SameSaver, SameHistory, SameRpc,
       SameCounters DEF Call, context, saver
<1>2. CASE Purge
  <2>1. BrokerType'
    BY <1>2 DEF Purge, BrokerType
  <2> QED
    BY <1>2, <2>1, SameContext, SameStream, SameSaver, SameHistory, SameRpc,
       SameCounters DEF Purge, context, saver
<1>3. CASE Restart
  <2>0. sv' \in {sv, "wait"} /\ tmp' = tmp /\ nullctr' = nullctr /\ nullctr' \in 0..3
    BY <1>3 DEF Restart, context, ContextType
  <2>1. CameraType' /\ SaverType'
    BY <1>3, <2>0, StreamParts DEF Restart, CameraType, SaverType
  <2>2. CounterType'
    BY <1>3, <2>0 DEF CounterType, Restart
  <2>3. grab' \in BOOLEAN /\ up' \in BOOLEAN
    BY <1>3, StreamParts DEF Restart
  <2> QED
    BY <1>3, <2>1, <2>2, <2>3, StreamParts, SameBroker, SameContext, SameHistory, SameRpc
       DEF Restart, broker
<1>4. CASE Crash
  BY <1>4, DieType DEF Crash
<1>5. CASE FrameArrives
  <2>1. StreamType'
    BY <1>5, BoundsAssumption DEF FrameArrives, StreamType
  <2> QED
    BY <1>5, <2>1, SameBroker, SameContext, SameSaver, SameHistory, SameRpc,
       SameCounters DEF FrameArrives, broker, context, saver
<1> QED
  BY <1>1, <1>2, <1>3, <1>4, <1>5 DEF Environment

\* A step of camera_commands leaves the broker and the saver alone.
LEMMA RpcStepType ==
  ASSUME TypeInv, NEW from, NEW to, Rpc(from, to), from # "idle",
         ContextType', StreamType', HistoryType', nullctr' = nullctr,
         to \in {"idle", "kill", "exit", "stop", "halt", "check", "arm", "reset",
                "grab", "status"}
  PROVE  TypeInv'
<1>1. RpcType'
  BY DEF TypeInv, TypeOK, RpcType, Rpc, broker
<1> QED
  BY <1>1, Parts, PartsPrime, SameBroker, SameSaver, SameCounters
     DEF Rpc, saver

LEMMA DeliverType == TypeInv /\ Deliver => TypeInv'
<1> SUFFICES ASSUME TypeInv, Deliver
             PROVE  TypeInv'
  OBVIOUS
<1> DEFINE r == Head(queue)
<1>1. r \in Requests /\ queue' \in Seq(Requests) /\ unacked' = <<r>>
  BY DEF Deliver, TypeInv, TypeOK, BrokerType
<1>2. r.cmd.interval \in Nat
  BY <1>1, CommandsAssumption DEF Requests
<1>3. BrokerType'
  BY <1>1 DEF Deliver, TypeInv, TypeOK, BrokerType
<1>4. ContextType'
  BY <1>2 DEF Deliver, TypeInv, TypeOK, ContextType
<1>5. rp' \in {"kill", "status", "stop", "check"}
  BY DEF Deliver, Branch
<1>6. RpcType'
  BY <1>1, <1>5 DEF Deliver, TypeInv, TypeOK, RpcType
<1> QED
  BY <1>3, <1>4, <1>6, Parts, PartsPrime, SameStream, SameSaver, SameHistory,
     SameCounters DEF Deliver, saver

LEMMA ReplyType == TypeInv /\ RpcReply => TypeInv'
<1> SUFFICES ASSUME TypeInv, RpcReply
             PROVE  TypeInv'
  OBVIOUS
<1>1. request \in Requests
  BY RequestType DEF RpcReply, TypeInv, TypeOK, RpcType
<1>2. /\ Reply(request, recent_error) \in Replies \union Acks
      /\ Ack(request) \in Replies \union Acks
  BY <1>1 DEF TypeInv, TypeOK, ContextType, Reply, Ack, Replies, Acks
<1>3. out' \in Seq(Replies \union Acks)
  BY <1>2 DEF RpcReply, TypeInv, TypeOK, RpcType
<1>4. RpcType'
  BY <1>3 DEF RpcReply, RpcType
<1>5. ContextType'
  BY DEF RpcReply, TypeInv, TypeOK, ContextType, Errors
<1> QED
  BY <1>4, <1>5, Parts, PartsPrime, SameBroker, SameStream, SameSaver,
     SameHistory, SameCounters DEF RpcReply, saver

LEMMA FlushType == TypeInv /\ Flush => TypeInv'
<1> SUFFICES ASSUME TypeInv, Flush
             PROVE  TypeInv'
  OBVIOUS
<1>1. Head(out) \in Replies \union Acks /\ out' \in Seq(Replies \union Acks)
  BY DEF Flush, TypeInv, TypeOK, RpcType
<1>2. replies' \subseteq Replies /\ acked' \subseteq Requests
  BY <1>1 DEF Flush, TypeInv, TypeOK, BrokerType, Replies, Acks
<1>3. unacked' \in Seq(Requests) /\ Len(unacked') <= 1
  <2>1. unacked' = unacked \/ unacked' = << >>
    BY DEF Flush
  <2>2. << >> \in Seq(Requests) /\ Len(<< >>) = 0
    BY EmptySeq
  <2>3. unacked \in Seq(Requests) /\ Len(unacked) <= 1
    BY DEF TypeInv, TypeOK, BrokerType
  <2> QED
    <3>1. CASE unacked' = unacked
      BY <2>3, <3>1
    <3>2. CASE unacked' = << >>
      BY <2>2, <3>2
    <3> QED
      BY <2>1, <3>1, <3>2
<1>5. BrokerType'
  <2>1. queue' = queue /\ sent' = sent
    BY DEF Flush
  <2>2. queue \in Seq(Requests) /\ sent \in 0..MaxCalls
    BY DEF TypeInv, TypeOK, BrokerType
  <2> QED
    BY <1>2, <1>3, <2>1, <2>2 DEF BrokerType
<1>4. RpcType'
  BY <1>1 DEF Flush, TypeInv, TypeOK, RpcType
<1> QED
  BY <1>4, <1>5, Parts, PartsPrime, SameContext, SameStream, SameSaver,
     SameHistory, SameCounters DEF Flush, context, saver

LEMMA RpcThreadType == TypeInv /\ RpcThread => TypeInv'
<1> SUFFICES ASSUME TypeInv, RpcThread
             PROVE  TypeInv'
  OBVIOUS
<1> USE Parts
<1>1. CASE Deliver
  BY <1>1, DeliverType
<1>2. CASE RpcKill
  <2>1. CameraType'
    BY <1>2, BoundsAssumption, StreamParts DEF RpcKill, Cleanup, CameraType, Open
  <2>2. grab' \in BOOLEAN
    BY <1>2 DEF RpcKill, Cleanup
  <2> QED
    BY <1>2, <2>1, <2>2, StreamParts, RpcStepType, SameContext, SameHistory DEF RpcKill, context
<1>3. CASE RpcExit
  BY <1>3, DieType DEF RpcExit
<1>4. CASE RpcStop
  <2>1. ContextType'
    BY <1>4 DEF RpcStop, ContextType
  <2> QED
    BY <1>4, <2>1, RpcStepType, SameStream, SameHistory DEF RpcStop
<1>5. CASE RpcHalt
  <2>1. CameraType'
    BY <1>5, BoundsAssumption, StreamParts DEF RpcHalt, StopTransfer, CameraType
  <2>2. grab' \in BOOLEAN
    BY <1>5, StreamParts DEF RpcHalt, StopTransfer
  <2> QED
    BY <1>5, <2>1, <2>2, StreamParts, RpcStepType, SameContext, SameHistory DEF RpcHalt, context
<1>6. CASE RpcAccept
  BY <1>6, RpcStepType, SameContext, SameStream, SameHistory
     DEF RpcAccept, context
<1>7. CASE RpcRefuse
  <2>1. ContextType'
    BY <1>7 DEF RpcRefuse, ContextType, Errors
  <2> QED
    BY <1>7, <2>1, RpcStepType, SameStream, SameHistory DEF RpcRefuse
<1>8. CASE RpcArm
  <2>1. cmd.capture \in Int /\ cmd.interval \in Nat
    BY <1>8, RequestType DEF RpcArm, Rpc, RpcType
  <2>2. ContextType' /\ HistoryType'
    BY <1>8, <2>1 DEF RpcArm, ContextType, HistoryType
  <2> QED
    BY <1>8, <2>2, RpcStepType, SameStream DEF RpcArm
<1>9. CASE RpcReset
  <2>1. ContextType'
    BY <1>9 DEF RpcReset, ContextType
  <2> QED
    BY <1>9, <2>1, RpcStepType, SameStream, SameHistory DEF RpcReset
<1>10. CASE RpcGrab
  <2>1. ContextType'
    BY <1>10 DEF RpcGrab, ContextType, Errors
  <2>2. CameraType'
    BY <1>10, BoundsAssumption, StreamParts DEF RpcGrab, CameraType
  <2>3. grab' \in BOOLEAN
    BY <1>10, StreamParts DEF RpcGrab
  <2> QED
    BY <1>10, <2>1, <2>2, <2>3, StreamParts, RpcStepType, SameHistory DEF RpcGrab
<1>11. CASE RpcReply
  BY <1>11, ReplyType
<1>12. CASE RpcFault
  BY <1>12, DieType DEF RpcFault
<1>13. CASE Flush
  BY <1>13, FlushType
<1> QED
  BY <1>1, <1>2, <1>3, <1>4, <1>5, <1>6, <1>7, <1>8, <1>9, <1>10, <1>11,
     <1>12, <1>13 DEF RpcThread

\* A step of the saver leaves the broker and the RPC thread alone.
LEMMA SaverStepType ==
  ASSUME TypeInv, NEW from, NEW to, Saver(from, to),
         ContextType', StreamType', HistoryType', SaverType', CounterType'
  PROVE  TypeInv'
  BY Parts, PartsPrime, SameBroker, SameRpc DEF Saver, broker

LEMMA SaverThreadType == TypeInv /\ SaverThread => TypeInv'
<1> SUFFICES ASSUME TypeInv, SaverThread
             PROVE  TypeInv'
  OBVIOUS
<1> USE Parts, BoundsAssumption DEF HistoryType, SaverType, CounterType
<1>1. CASE SvWait
  <2>1. camera' = camera /\ (full' = full \/ (full > 0 /\ full' = full - 1))
    BY <1>1 DEF SvWait
  <2>2. CameraType'
    BY <2>1, StreamParts DEF CameraType
  <2>3. SaverType' /\ CounterType'
    BY <1>1 DEF SvWait, Saver, context
  <2>4. grab' \in BOOLEAN
    BY <1>1, StreamParts DEF SvWait
  <2> QED
    BY <1>1, <2>2, <2>3, <2>4, StreamParts, SaverStepType, SameContext,
       SameHistory DEF SvWait
<1>2. CASE SvTimeout
  <2>1. ContextType' /\ SaverType' /\ CounterType'
    BY <1>2 DEF SvTimeout, Saver, ContextType
  <2> QED
    BY <1>2, <2>1, SaverStepType, SameStream, SameHistory DEF SvTimeout
<1>3. CASE SvCleanup
  <2>1. CameraType' /\ SaverType' /\ CounterType'
    BY <1>3, StreamParts DEF SvCleanup, Saver, Cleanup, CameraType, context
  <2>2. grab' \in BOOLEAN
    BY <1>3 DEF SvCleanup, Cleanup
  <2> QED
    BY <1>3, <2>1, <2>2, StreamParts, SaverStepType, SameContext, SameHistory
       DEF SvCleanup
<1>4. CASE SvExit
  BY <1>4, DieType DEF SvExit
<1>5. CASE SvFrame
  BY <1>5, SaverStepType, SameContext, SameStream, SameHistory
     DEF SvFrame, Saver, context
<1>6. CASE SvWrite
  <2>1. HistoryType' /\ SaverType' /\ CounterType'
    BY <1>6 DEF SvWrite, Saver, ContextType, context
  <2> QED
    BY <1>6, <2>1, SaverStepType, SameContext, SameStream DEF SvWrite
<1>7. CASE SvCount
  <2>1. ContextType' /\ SaverType' /\ CounterType'
    BY <1>7 DEF SvCount, Saver, ContextType
  <2> QED
    BY <1>7, <2>1, SaverStepType, SameStream, SameHistory DEF SvCount
<1>8. CASE SvLeft
  BY <1>8, SaverStepType, SameContext, SameStream, SameHistory
     DEF SvLeft, Saver, context
<1>9. CASE SvLoad
  <2>1. SaverType' /\ CounterType'
    BY <1>9 DEF SvLoad, Saver, ContextType, context
  <2> QED
    BY <1>9, <2>1, SaverStepType, SameContext, SameStream, SameHistory
       DEF SvLoad
<1>10. CASE SvStore
  <2>1. ContextType' /\ SaverType' /\ CounterType'
    BY <1>10 DEF SvStore, Saver, ContextType
  <2> QED
    BY <1>10, <2>1, SaverStepType, SameStream, SameHistory DEF SvStore
<1>11. CASE SvZero
  BY <1>11, SaverStepType, SameContext, SameStream, SameHistory
     DEF SvZero, Saver, context
<1>12. CASE SvHalt
  <2>1. CameraType' /\ SaverType' /\ CounterType'
    BY <1>12, StreamParts DEF SvHalt, Saver, StopTransfer, CameraType, context
  <2>2. grab' \in BOOLEAN
    BY <1>12, StreamParts DEF SvHalt, Saver, StopTransfer
  <2> QED
    BY <1>12, <2>1, <2>2, StreamParts, SaverStepType, SameContext, SameHistory DEF SvHalt
<1> QED
  BY <1>1, <1>2, <1>3, <1>4, <1>5, <1>6, <1>7, <1>8, <1>9, <1>10, <1>11, <1>12
     DEF SaverThread

LEMMA TypeStep == TypeInv /\ [Next]_vars => TypeInv'
<1>1. TypeInv /\ UNCHANGED vars => TypeInv'
  BY Parts, PartsPrime, SameBroker, SameContext, SameStream, SameSaver,
     SameHistory, SameRpc, SameCounters
     DEF vars, broker, context, saver
<1> QED
  BY <1>1, EnvironmentType, RpcThreadType, SaverThreadType DEF Next

LEMMA TypeInit == Init => TypeInv
<1> SUFFICES ASSUME Init
             PROVE  TypeInv
  OBVIOUS
<1>1. /\ << >> \in Seq(Requests) /\ Len(<< >>) = 0
      /\ << >> \in Seq(Replies \union Acks)
  BY EmptySeq
<1>2. BrokerType /\ RpcType
  BY <1>1, BoundsAssumption DEF Init, BrokerType, RpcType
<1>3. ContextType /\ SaverType /\ HistoryType /\ CounterType /\ CameraType
  BY BoundsAssumption
     DEF Init, ContextType, SaverType, HistoryType, CounterType, CameraType, Errors
<1>4. grab \in BOOLEAN /\ up \in BOOLEAN
  BY DEF Init
<1> QED
  BY <1>2, <1>3, <1>4, StreamParts, Parts

(* Every variable keeps its type, whatever the commands and the bounds are:  *)
(* a request is being executed whenever the RPC thread is inside             *)
(* camera_commands, and the saver counts three timeouts at most before it    *)
(* ends the process.                                                         *)
THEOREM TypeCorrect == Spec => []TypeOK
<1>1. TypeInv => TypeOK
  BY DEF TypeInv
<1> QED
  BY <1>1, TypeInit, TypeStep, PTL DEF Spec

-----------------------------------------------------------------------------
(* The safety properties.                                                    *)

LEMMA TypeAlways == Spec => []TypeInv
  BY TypeInit, TypeStep, PTL DEF Spec

-----------------------------------------------------------------------------
(* Replies, acks and errors.                                                *)

\* Inside camera_commands: which command leads where, and what recent_error
\* holds.
Executing ==
  /\ rp \in {"stop", "halt"} => ~cmd.kill /\ cmd.stop
  /\ rp \in {"check", "arm", "reset", "grab"} =>
       ~cmd.kill /\ ~cmd.status /\ ~cmd.stop
  /\ rp \in {"arm", "reset", "grab"} => Startable(cmd)
  /\ rp = "status" => ~cmd.kill /\ recent_error \in Causes(cmd)
  /\ rp # "status" => recent_error = "none"

\* A reply that may be sent for a request.
Fits(m) == ~m.req.cmd.kill /\ m.err \in Causes(m.req.cmd)

\* The output queue: nothing, reply and ack, or the ack of a reply that left.
Replying ==
  \/ out = <<>>
  \/ /\ rp = "idle" /\ unacked # <<>>
     /\ \E e \in Errors :
          out = <<Reply(request, e), Ack(request)>> /\ Fits(Reply(request, e))
  \/ /\ rp = "idle" /\ unacked # <<>>
     /\ out = <<Ack(request)>>
     /\ \E m \in replies : m.req = request

Answered == \A r \in acked : \E m \in replies : m.req = r
Fitting  == \A m \in replies : Fits(m)

ReplyInv == Executing /\ Replying /\ Answered /\ Fitting

LEMMA SameReply ==
  ReplyInv /\ UNCHANGED <<unacked, rp, recent_error, out, replies, acked>>
    => ReplyInv'
  BY DEF ReplyInv, Executing, Replying, Answered, Fitting, Fits, request, cmd

LEMMA DieReply == ReplyInv /\ Die => ReplyInv'
  BY DEF ReplyInv, Executing, Replying, Answered, Fitting, Fits, Die

\* A step inside camera_commands sends nothing.
LEMMA InsideReply ==
  ASSUME ReplyInv, NEW from, NEW to, Rpc(from, to), from # "idle", Executing'
  PROVE  ReplyInv'
<1>1. out = << >> /\ out' = << >>
  BY DEF Rpc, ReplyInv, Replying
<1>2. replies' = replies /\ acked' = acked
  BY DEF Rpc, broker
<1>3. Replying'
  BY <1>1 DEF Replying
<1>4. Answered' /\ Fitting'
  BY <1>2 DEF Answered, Fitting, Fits, ReplyInv
<1> QED
  BY <1>3, <1>4 DEF ReplyInv

LEMMA EnvironmentReply == ReplyInv /\ Environment => ReplyInv'
<1>1. ASSUME ReplyInv, NEW c \in Commands, Call(c)
      PROVE  ReplyInv'
  BY <1>1, SameReply DEF Call, context
<1>2. ReplyInv /\ Purge => ReplyInv'
  BY SameReply DEF Purge, context
<1>3. ReplyInv /\ Restart => ReplyInv'
  BY SameReply DEF Restart, context, broker
<1>4. ReplyInv /\ Crash => ReplyInv'
  BY DieReply DEF Crash
<1>5. ReplyInv /\ FrameArrives => ReplyInv'
  BY SameReply DEF FrameArrives, context, broker
<1> QED
  BY <1>1, <1>2, <1>3, <1>4, <1>5 DEF Environment

LEMMA SaverReply == ReplyInv /\ SaverThread => ReplyInv'
<1>1. ReplyInv /\ SvExit => ReplyInv'
  BY DieReply DEF SvExit
<1> USE SameReply DEF Saver, broker, context
<1>2. ReplyInv /\ SvWait => ReplyInv'
  BY DEF SvWait
<1>3. ReplyInv /\ SvTimeout => ReplyInv'
  BY DEF SvTimeout
<1>4. ReplyInv /\ SvCleanup => ReplyInv'
  BY DEF SvCleanup
<1>7. ReplyInv /\ (SvFrame \/ SvWrite) => ReplyInv'
  BY DEF SvFrame, SvWrite
<1>5. ReplyInv /\ (SvCount \/ SvLeft \/ SvLoad) => ReplyInv'
  BY DEF SvCount, SvLeft, SvLoad
<1>6. ReplyInv /\ (SvStore \/ SvZero \/ SvHalt) => ReplyInv'
  BY DEF SvStore, SvZero, SvHalt
<1> QED
  BY <1>1, <1>2, <1>3, <1>4, <1>5, <1>6, <1>7 DEF SaverThread

LEMMA DeliverReply == TypeInv /\ ReplyInv /\ Deliver => ReplyInv'
<1> SUFFICES ASSUME TypeInv, ReplyInv, Deliver
             PROVE  ReplyInv'
  OBVIOUS
<1>1. out = << >> /\ out' = << >>
  BY DEF Deliver, ReplyInv, Replying
<1>2. /\ Head(queue) \in Requests /\ Head(queue).cmd \in Commands
      /\ cmd' = Head(queue).cmd
  <2>1. queue \in Seq(Requests) /\ queue # << >>
    BY DEF Deliver, TypeInv, TypeOK, BrokerType
  <2>2. Head(queue) \in Requests
    BY <2>1, HeadTailProperties
  <2>3. Head(queue).cmd \in Commands
    BY <2>2 DEF Requests
  <2>4. unacked' = <<Head(queue)>>
    BY DEF Deliver
  <2>5. cmd' = Head(queue).cmd
    BY <2>4 DEF cmd, request
  <2> QED
    BY <2>2, <2>3, <2>5
<1>3. recent_error' = "none"
  BY DEF Deliver, ReplyInv, Executing
<1>4. rp' = Branch(cmd')
  BY <1>2 DEF Deliver
<1>5. cmd' \in Commands
  BY <1>2
<1>6. /\ cmd'.kill \in BOOLEAN /\ cmd'.status \in BOOLEAN /\ cmd'.stop \in BOOLEAN
  BY <1>5, CommandsAssumption
<1>7. Executing'
  BY <1>3, <1>4, <1>6 DEF Executing, Branch, Causes
<1>8. Replying'
  BY <1>1 DEF Replying
<1>9. Answered' /\ Fitting'
  BY DEF Deliver, ReplyInv, Answered, Fitting, Fits
<1> QED
  BY <1>7, <1>8, <1>9 DEF ReplyInv

LEMMA CommandType ==
  ASSUME TypeInv, rp # "idle"
  PROVE  /\ cmd \in Commands /\ cmd.kill \in BOOLEAN
         /\ cmd.status \in BOOLEAN /\ cmd.stop \in BOOLEAN
         /\ cmd.capture \in Int /\ cmd.interval \in Nat
  BY RequestType, CommandsAssumption DEF TypeInv, TypeOK, RpcType

LEMMA ReplyReply == TypeInv /\ ReplyInv /\ RpcReply => ReplyInv'
<1> SUFFICES ASSUME TypeInv, ReplyInv, RpcReply
             PROVE  ReplyInv'
  OBVIOUS
<1>1. out = << >> /\ rp' = "idle"
  BY DEF RpcReply, ReplyInv, Replying
<1>2. Executing'
  BY <1>1 DEF Executing, RpcReply
<1>3. unacked' = unacked /\ unacked # << >> /\ replies' = replies /\ acked' = acked
  BY DEF RpcReply, broker, TypeInv, TypeOK, RpcType
<1>4. out' = <<Reply(request, recent_error), Ack(request)>> /\ request' = request
  BY <1>1, <1>3 DEF RpcReply, request
<1>5. recent_error \in Errors
  BY DEF TypeInv, TypeOK, ContextType
<1>6. Fits(Reply(request, recent_error)) 
  BY DEF RpcReply, ReplyInv, Executing, Fits, Reply, cmd
<1>7. Replying'
  BY <1>1, <1>3, <1>4, <1>5, <1>6 DEF Replying, Fits, Reply
<1>8. Answered' /\ Fitting'
  BY <1>3 DEF ReplyInv, Answered, Fitting, Fits
<1> QED
  BY <1>2, <1>7, <1>8 DEF ReplyInv

LEMMA FlushReply == TypeInv /\ ReplyInv /\ Flush => ReplyInv'
<1> SUFFICES ASSUME TypeInv, ReplyInv, Flush
             PROVE  ReplyInv'
  OBVIOUS
<1>1. rp' = "idle" /\ rp = "idle" /\ recent_error' = recent_error /\ recent_error = "none"
  BY DEF Flush, context, ReplyInv, Executing
<1>2. Executing'
  BY <1>1 DEF Executing
<1>3. CASE \E e \in Errors : /\ unacked # << >> 
                            /\ out = <<Reply(request, e), Ack(request)>>
                            /\ Fits(Reply(request, e))
  <2>1. PICK e \in Errors : /\ unacked # << >> 
                          /\ out = <<Reply(request, e), Ack(request)>>
                          /\ Fits(Reply(request, e))
    BY <1>3
  <2>2. Head(out) = Reply(request, e) /\ out' = <<Ack(request)>>
    BY <2>1 DEF Flush
  <2>3. /\ replies' = replies \union {Reply(request, e)}
        /\ unacked' = unacked /\ acked' = acked /\ request' = request
    <3>1. Head(out).type = "reply"
      BY <2>2 DEF Reply
    <3>2. unacked' = unacked /\ acked' = acked /\ replies' = replies \union {Head(out)}
      BY <3>1 DEF Flush
    <3> QED
      BY <2>2, <3>2 DEF request
  <2>4. Replying'
    <3>1. Reply(request, e) \in replies' /\ Reply(request, e).req = request'
      BY <2>3 DEF Reply
    <3> QED
      BY <1>1, <2>1, <2>2, <2>3, <3>1 DEF Replying
  <2>5. Answered' /\ Fitting'
    BY <2>1, <2>3 DEF ReplyInv, Answered, Fitting, Fits
  <2> QED
    BY <1>2, <2>4, <2>5 DEF ReplyInv
<1>4. CASE /\ unacked # << >> /\ out = <<Ack(request)>>
           /\ \E m \in replies : m.req = request
  <2>1. Head(out) = Ack(request) /\ out' = << >>
    BY <1>4 DEF Flush
  <2>2. replies' = replies /\ acked' = acked \union {request}
    BY <2>1 DEF Flush, Ack
  <2>3. Answered' /\ Fitting'
    BY <1>4, <2>2 DEF ReplyInv, Answered, Fitting, Fits
  <2> QED
    BY <1>2, <2>1, <2>3 DEF ReplyInv, Replying
<1> QED
  BY <1>3, <1>4 DEF Flush, ReplyInv, Replying

LEMMA RpcThreadReply == TypeInv /\ ReplyInv /\ RpcThread => ReplyInv'
<1> SUFFICES ASSUME TypeInv, ReplyInv, RpcThread
             PROVE  ReplyInv'
  OBVIOUS
<1>1. CASE Deliver
  BY <1>1, DeliverReply
<1>2. CASE RpcKill
  <2>1. Executing'
    BY <1>2 DEF RpcKill, Rpc, Executing, ReplyInv, context
  <2> QED
    BY <1>2, <2>1, InsideReply DEF RpcKill
<1>3. CASE RpcExit \/ RpcFault
  BY <1>3, DieReply DEF RpcExit, RpcFault
<1>4. CASE RpcReply
  BY <1>4, ReplyReply
<1>5. CASE Flush
  BY <1>5, FlushReply
<1>6. CASE RpcStop
  <2>1. cmd' = cmd
    BY <1>6 DEF RpcStop, Rpc, broker, cmd, request
  <2>2. Executing'
    BY <1>6, <2>1 DEF RpcStop, Rpc, Executing, ReplyInv
  <2> QED
    BY <1>6, <2>2, InsideReply DEF RpcStop
<1>7. CASE RpcHalt
  <2>1. cmd' = cmd
    BY <1>7 DEF RpcHalt, Rpc, broker, cmd, request
  <2>2. Executing'
    BY <1>7, <2>1 DEF RpcHalt, Rpc, Executing, ReplyInv, context, Causes
  <2> QED
    BY <1>7, <2>2, InsideReply DEF RpcHalt
<1>8. CASE RpcAccept
  <2>1. cmd' = cmd
    BY <1>8 DEF RpcAccept, Rpc, broker, cmd, request
  <2>2. Executing'
    BY <1>8, <2>1 DEF RpcAccept, Rpc, Executing, ReplyInv, context, Startable
  <2> QED
    BY <1>8, <2>2, InsideReply DEF RpcAccept
<1>9. CASE RpcRefuse
  <2>1. cmd' = cmd
    BY <1>9 DEF RpcRefuse, Rpc, broker, cmd, request
  <2>3. cmd.capture \in Int /\ cmd.interval \in Nat
    BY <1>9, CommandType DEF RpcRefuse, Rpc
  <2>2. Executing'
    BY <1>9, <2>1, <2>3 DEF RpcRefuse, Rpc, Executing, ReplyInv, Startable, Causes
  <2> QED
    BY <1>9, <2>2, InsideReply DEF RpcRefuse
<1>10. CASE RpcArm
  <2>1. cmd' = cmd
    BY <1>10 DEF RpcArm, Rpc, broker, cmd, request
  <2>2. Executing'
    BY <1>10, <2>1 DEF RpcArm, Rpc, Executing, ReplyInv, Startable
  <2> QED
    BY <1>10, <2>2, InsideReply DEF RpcArm
<1>11. CASE RpcReset
  <2>1. cmd' = cmd
    BY <1>11 DEF RpcReset, Rpc, broker, cmd, request
  <2>2. Executing'
    BY <1>11, <2>1 DEF RpcReset, Rpc, Executing, ReplyInv, Startable, Causes
  <2> QED
    BY <1>11, <2>2, InsideReply DEF RpcReset
<1>12. CASE RpcGrab
  <2>1. cmd' = cmd
    BY <1>12 DEF RpcGrab, Rpc, broker, cmd, request
  <2>2. Executing'
    BY <1>12, <2>1 DEF RpcGrab, Rpc, Executing, ReplyInv, Startable, Causes
  <2> QED
    BY <1>12, <2>2, InsideReply DEF RpcGrab
<1> QED
  BY <1>1, <1>2, <1>3, <1>4, <1>5, <1>6, <1>7, <1>8, <1>9, <1>10, <1>11,
     <1>12 DEF RpcThread

LEMMA ReplyStep == TypeInv /\ ReplyInv /\ [Next]_vars => ReplyInv'
<1>1. ReplyInv /\ UNCHANGED vars => ReplyInv'
  BY SameReply DEF vars, broker, context
<1> QED
  BY <1>1, EnvironmentReply, RpcThreadReply, SaverReply DEF Next

LEMMA ReplyAlways == Spec => []ReplyInv
<1>1. Init => ReplyInv
  BY DEF Init, ReplyInv, Executing, Replying, Answered, Fitting
<1> QED
  BY <1>1, ReplyStep, TypeAlways, PTL DEF Spec

(* onReceived publishes before it acknowledges, and the output queue keeps   *)
(* the order: whatever dies in between, what the broker forgets is answered. *)
THEOREM AcksFollowReplies == Spec => []AckedWasAnswered
<1>1. ReplyInv => AckedWasAnswered
  BY DEF ReplyInv, Answered, AckedWasAnswered
<1> QED
  BY <1>1, ReplyAlways, PTL

(* ClearErrorMsgs empties recent_error with every reply, so no reply carries *)
(* the error of an earlier command.                                          *)
THEOREM ErrorsFit == Spec => []ErrorsAnswerTheirCommand
<1>1. ReplyInv => ErrorsAnswerTheirCommand
  BY DEF ReplyInv, Fitting, Fits, ErrorsAnswerTheirCommand
<1> QED
  BY <1>1, ReplyAlways, PTL

(* killself() comes before the reply and the ack of a kill command, so a     *)
(* kill command is neither answered nor acknowledged, ever.                  *)
THEOREM KillStays == Spec => []KillNeverLeaves
<1>1. ReplyInv => KillNeverLeaves
  BY DEF ReplyInv, Fitting, Fits, Answered, KillNeverLeaves
<1> QED
  BY <1>1, ReplyAlways, PTL
-----------------------------------------------------------------------------
(* The request at the head of the queue.                                    *)

\* Outside camera_commands an unacknowledged request has output to come.
OwedInv == unacked # << >> /\ rp = "idle" => out # << >>

LEMMA OwedStep ==
  TypeInv /\ ReplyInv /\ OwedInv /\ [Next]_vars => OwedInv'
<1> SUFFICES ASSUME TypeInv, ReplyInv, OwedInv, [Next]_vars
             PROVE  OwedInv'
  OBVIOUS
<1>1. ASSUME UNCHANGED <<unacked, rp, out>>
      PROVE  OwedInv'
  BY <1>1 DEF OwedInv
<1>2. Die => OwedInv'
  BY DEF Die, OwedInv
<1>3. CASE UNCHANGED vars
  BY <1>1, <1>3 DEF vars, broker
<1>4. CASE Environment
  BY <1>1, <1>2, <1>4
     DEF Environment, Call, Purge, Restart, Crash, FrameArrives, broker
<1>5. CASE SaverThread
  BY <1>1, <1>2, <1>5
     DEF SaverThread, SvWait, SvTimeout, SvCleanup, SvExit, SvFrame, SvWrite,
         SvCount, SvLeft, SvLoad, SvStore, SvZero, SvHalt, Saver, broker
<1>6. CASE Deliver
  <2>1. Head(queue) \in Requests /\ rp' = Branch(Head(queue).cmd)
    BY <1>6, HeadTailProperties DEF Deliver, TypeInv, TypeOK, BrokerType
  <2>2. rp' # "idle"
    BY <2>1, CommandsAssumption DEF Branch, Requests
  <2> QED
    BY <2>2 DEF OwedInv
<1>7. CASE RpcExit \/ RpcFault
  BY <1>2, <1>7 DEF RpcExit, RpcFault
<1>8. CASE \/ RpcKill \/ RpcStop \/ RpcHalt \/ RpcAccept \/ RpcRefuse
           \/ RpcArm \/ RpcReset \/ RpcGrab
  BY <1>8
     DEF RpcKill, RpcStop, RpcHalt, RpcAccept, RpcRefuse, RpcArm, RpcReset,
         RpcGrab, Rpc, OwedInv
<1>9. CASE RpcReply
  BY <1>9 DEF RpcReply, OwedInv, ReplyInv, Replying
<1>10. CASE Flush
  <2>1. CASE Head(out).type = "ack"
    BY <1>10, <2>1 DEF Flush, OwedInv
  <2>2. CASE Head(out).type = "reply"
    <3>1. PICK e \in Errors : out = <<Reply(request, e), Ack(request)>>
      BY <1>10, <2>2 DEF Flush, ReplyInv, Replying, Ack
    <3> QED
      BY <1>10, <3>1 DEF Flush, OwedInv
  <2> QED
    BY <1>10, <2>1, <2>2 DEF Flush
<1> QED
  BY <1>3, <1>4, <1>5, <1>6, <1>7, <1>8, <1>9, <1>10 DEF Next, RpcThread

\* How far camera_commands is from the reply.
Stage ==
  CASE rp \in {"kill", "check"}  -> 5
    [] rp = "arm"                -> 4
    [] rp \in {"reset", "stop"}  -> 3
    [] rp \in {"grab", "halt"}   -> 2
    [] rp \in {"exit", "status"} -> 1
    [] OTHER                     -> 0

\* The ack of a delivered request is on its way whenever nothing executes it.
AckIsDue == unacked # << >> /\ rp = "idle" => out # << >> /\ out[Len(out)] = Ack(request)

\* No step takes a delivered request back, and each of the RPC thread's brings
\* it nearer to its ack.
RequestAdvances ==
  unacked # << >> /\ unacked' = unacked =>
    /\ Stage' < Stage \/ (rp' = rp /\ Len(out') <= Len(out))
    /\ RpcThread => Stage' < Stage \/ Len(out') < Len(out)

LEMMA RequestStep ==
  TypeInv /\ [Next]_vars => RequestAdvances
<1> SUFFICES ASSUME TypeInv, [Next]_vars, unacked # << >>, unacked' = unacked
             PROVE  /\ Stage' < Stage \/ (rp' = rp /\ Len(out') <= Len(out))
                    /\ RpcThread => Stage' < Stage \/ Len(out') < Len(out)
  BY DEF RequestAdvances
<1>0. out \in Seq(Replies \union Acks) /\ Len(out) \in Nat
  BY LenProperties DEF TypeInv, TypeOK, RpcType
<1>1. Die => FALSE
  BY DEF Die
<1>2. ASSUME RpcThread
      PROVE  Stage' < Stage \/ (rp' = rp /\ Len(out') < Len(out))
  <2>1. CASE Deliver \/ RpcExit \/ RpcFault
    BY <1>1, <2>1 DEF Deliver, RpcExit, RpcFault
  <2>2. CASE \/ RpcKill \/ RpcStop \/ RpcHalt \/ RpcAccept \/ RpcRefuse
             \/ RpcArm \/ RpcReset \/ RpcGrab \/ RpcReply
    BY <2>2
       DEF RpcKill, RpcStop, RpcHalt, RpcAccept, RpcRefuse, RpcArm, RpcReset,
           RpcGrab, RpcReply, Rpc, Stage
  <2>3. CASE Flush
    BY <1>0, <2>3, HeadTailProperties DEF Flush
  <2> QED
    BY <1>2, <2>1, <2>2, <2>3 DEF RpcThread
<1>3. CASE Environment \/ SaverThread \/ UNCHANGED vars
  <2>1. rp' = rp /\ out' = out
    BY <1>1, <1>3
       DEF Environment, Call, Purge, Restart, Crash, FrameArrives, SaverThread,
           SvWait, SvTimeout, SvCleanup, SvExit, SvFrame, SvWrite, SvCount,
           SvLeft, SvLoad, SvStore, SvZero, SvHalt, Saver, vars
  <2> QED
    BY <1>0, <1>2, <2>1
<1> QED
  BY <1>0, <1>2, <1>3 DEF Next

(* A request that was delivered is executed, or its reply or its ack is the  *)
(* next output; and every step of the RPC thread lowers what is left to do,  *)
(* at most five branches and two outputs, which nothing but the death of the *)
(* process takes back.  This is why no request blocks the queue.             *)
THEOREM RequestsAdvance == Spec => []AckIsDue /\ [][RequestAdvances]_vars
<1>1. Init => OwedInv
  BY DEF Init, OwedInv
<1>2. ReplyInv /\ OwedInv => AckIsDue
  BY DEF ReplyInv, Replying, OwedInv, AckIsDue
<1> QED
  BY <1>1, <1>2, OwedStep, RequestStep, TypeAlways, ReplyAlways, PTL DEF Spec
=============================================================================
