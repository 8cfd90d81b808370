------------------------------ MODULE PtProofs ------------------------------
(* Proofs about PtController, for any commands, faults and bounds.            *)
EXTENDS PtController, SequenceTheorems, TLAPS

Requests == [id : 1..MaxCalls, cmd : Commands]
CamCalls == [what : {"image", "exposure", "status"}, from : Threads \union {"nobody"}]
Pcs(t)   == IF t = "rpc" THEN RpcPcs ELSE JobPcs
Rets(t)  == IF t = "rpc" THEN {"lens", "reply"} ELSE {"fin", "resent"}

\* TypeOK in parts, each of which few actions touch.
InboxType == inbox \in Seq(Requests) /\ sent \in 0..MaxCalls /\ starts \in 0..sent
SharedType ==
  /\ ptc \in [loop_cntr : Int, noimage : BOOLEAN, ready_flag : BOOLEAN,
              resend_flag : BOOLEAN, scheduled : BOOLEAN, locs : Nat, old_ftime : {0}]
  /\ tmp \in Int
PcType ==
  /\ pc \in [Threads -> RpcPcs \union JobPcs]
  /\ \A t \in Threads : pc[t] \in Pcs(t)
RetType ==
  /\ ret \in [Threads -> {"lens", "reply", "fin", "resent"}]
  /\ \A t \in Threads : ret[t] \in Rets(t)
CameraType ==
  /\ up \in BOOLEAN
  /\ camq \in Seq(CamCalls) /\ ftimestamp \in 1..MaxTime
AnswerType == resp \in [Threads -> BOOLEAN]
CountType  == total \in Int /\ visits \in Nat /\ foreign \in Nat
OrderType  ==
  order \in {"none", "sent", "again", "answered", "failed", "raised"}

\* The request that rpc processes is at the head of the queue.
Holding == pc["rpc"] # "idle" => inbox # <<>>

TypeInv ==
  /\ InboxType /\ SharedType /\ PcType /\ RetType /\ CameraType /\ AnswerType
  /\ CountType /\ OrderType /\ Holding

LEMMA TypeParts == TypeInv => TypeOK
  BY DEF TypeInv, TypeOK, InboxType, SharedType, PcType, RetType, CameraType,
         AnswerType, CountType, OrderType, Holding, Requests, CamCalls, Pcs, Rets,
         Threads

LEMMA TypeInit == Init => TypeInv
<1> SUFFICES ASSUME Init
             PROVE  TypeInv
  OBVIOUS
<1> USE PtAssumption DEF Init
<1>1. InboxType /\ AnswerType
  BY DEF InboxType, AnswerType
<1>4. SharedType
  BY DEF SharedType
<1>5. CameraType
  <2>1. MaxTime \in Nat \ {0} /\ 1 \in 1..MaxTime
    OBVIOUS
  <2>2. <<>> \in Seq(CamCalls)
    OBVIOUS
  <2> QED
    BY <2>1, <2>2 DEF CameraType
<1>2. PcType /\ RetType /\ Holding
  BY DEF PcType, RetType, Holding, Threads, Pcs, Rets, RpcPcs, JobPcs, CallPcs
<1>3. CountType /\ OrderType
  BY DEF CountType, OrderType
<1> QED
  BY <1>1, <1>2, <1>3, <1>4, <1>5 DEF TypeInv

-----------------------------------------------------------------------------
(* The forms of a step.                                                       *)

LEMMA SameParts ==
  /\ InboxType /\ UNCHANGED controllers => InboxType'
  /\ SharedType /\ UNCHANGED <<ptc, tmp>> => SharedType'
  /\ PcType /\ UNCHANGED pc => PcType'
  /\ RetType /\ UNCHANGED ret => RetType'
  /\ CameraType /\ UNCHANGED camera => CameraType'
  /\ AnswerType /\ UNCHANGED resp => AnswerType'
  /\ CountType /\ UNCHANGED count => CountType'
  /\ OrderType /\ UNCHANGED order => OrderType'
  /\ Holding /\ UNCHANGED <<controllers, pc>> => Holding'
  BY DEF InboxType, SharedType, PcType, RetType, CameraType, AnswerType, CountType,
         OrderType, Holding, controllers, camera, count, history

\* A step of one thread leaves the other where it is; while rpc is busy and the
\* queue unchanged, its request is still there.
LEMMA GoType ==
  ASSUME PcType, NEW t \in Threads, NEW from, NEW to \in Pcs(t), Go(t, from, to)
  PROVE  PcType'
  BY DEF PcType, Go, Threads, Pcs

LEMMA GoHolds ==
  ASSUME PcType, Holding, UNCHANGED controllers, NEW t \in Threads, NEW from, NEW to,
         Go(t, from, to), t = "rpc" => from # "idle" \/ inbox # <<>>
  PROVE  Holding'
  BY DEF PcType, Holding, Go, Threads, controllers

\* Where the thread's place is, its step keeps the queue and its request.
LEMMA StepType ==
  ASSUME TypeInv, NEW t \in Threads, NEW from, NEW to \in Pcs(t), Step(t, from, to),
         t = "rpc" => from # "idle" \/ inbox # <<>>
  PROVE  /\ InboxType' /\ PcType' /\ RetType' /\ CameraType' /\ AnswerType' /\ Holding'
         /\ UNCHANGED ret
<1>1. Go(t, from, to) /\ UNCHANGED <<controllers, ret, resp, camera>>
  BY DEF Step
<1>2. PcType' /\ Holding'
  BY <1>1, GoType, GoHolds DEF TypeInv
<1> QED
  BY <1>1, <1>2, SameParts DEF TypeInv

LEMMA TestType ==
  ASSUME TypeInv, NEW t \in Threads, NEW from, NEW to \in Pcs(t), Test(t, from, to),
         t = "rpc" => from # "idle" \/ inbox # <<>>
  PROVE  TypeInv'
<1>1. Step(t, from, to) /\ UNCHANGED <<ptc, tmp, history>>
  BY DEF Test
<1>2. SharedType' /\ CountType' /\ OrderType'
  BY <1>1, SameParts DEF TypeInv, history
<1> QED
  BY <1>1, <1>2, StepType DEF TypeInv

Fields == {"loop_cntr", "noimage", "ready_flag", "resend_flag", "scheduled"}

LEMMA SetType ==
  ASSUME TypeInv, NEW t \in Threads, NEW from, NEW to \in Pcs(t), from # "idle",
         NEW field \in Fields, NEW value, Set(t, from, to, field, value),
         IF field = "loop_cntr" THEN value \in Int ELSE value \in BOOLEAN
  PROVE  TypeInv'
<1>1. Step(t, from, to) /\ UNCHANGED <<tmp, history>>
  BY DEF Set
<1>2. ptc' = [ptc EXCEPT ![field] = value]
  BY DEF Set
<1>3. SharedType'
  <2>1. CASE field = "loop_cntr"
    BY <1>1, <1>2, <2>1 DEF TypeInv, SharedType
  <2>2. CASE field = "noimage"
    BY <1>1, <1>2, <2>2 DEF TypeInv, SharedType
  <2>3. CASE field = "ready_flag"
    BY <1>1, <1>2, <2>3 DEF TypeInv, SharedType
  <2>4. CASE field = "resend_flag"
    BY <1>1, <1>2, <2>4 DEF TypeInv, SharedType
  <2>5. CASE field = "scheduled"
    BY <1>1, <1>2, <2>5 DEF TypeInv, SharedType
  <2> QED
    BY <2>1, <2>2, <2>3, <2>4, <2>5 DEF Fields
<1>4. CountType' /\ OrderType'
  BY <1>1, SameParts DEF TypeInv, history
<1> QED
  BY <1>1, <1>3, <1>4, StepType DEF TypeInv

LEMMA EnterType ==
  ASSUME TypeInv, NEW t \in Threads, NEW from, NEW to \in Pcs(t), NEW return \in Rets(t),
         Enter(t, from, to, return), t = "rpc" => from # "idle" \/ inbox # <<>>
  PROVE  TypeInv'
<1>1. Go(t, from, to) /\ ret' = [ret EXCEPT ![t] = return]
  BY DEF Enter
<1>2. UNCHANGED <<controllers, ptc, resp, tmp, camera, history>>
  BY DEF Enter
<1>3. PcType' /\ Holding'
  BY <1>1, <1>2, GoType, GoHolds DEF TypeInv
<1>4. RetType'
  BY <1>1 DEF TypeInv, RetType, Threads, Rets
<1> QED
  BY <1>2, <1>3, <1>4, SameParts DEF TypeInv, history

\* A thread's step that only moves, sends to the camera's queue or clears it.
LEMMA QueueType ==
  ASSUME TypeInv, NEW t \in Threads, NEW from, NEW to \in Pcs(t), from # "idle",
         Go(t, from, to), UNCHANGED <<controllers, ptc, ret, tmp>>,
         CameraType', AnswerType', CountType', OrderType'
  PROVE  TypeInv'
<1>1. PcType' /\ Holding'
  BY GoType, GoHolds DEF TypeInv
<1> QED
  BY <1>1, SameParts DEF TypeInv

-----------------------------------------------------------------------------
(* Type correctness, a lemma for each part of the next-state relation.        *)

LEMMA Places ==
  ASSUME NEW t \in Threads
  PROVE  CallPcs \subseteq Pcs(t) /\ Rets(t) \subseteq Pcs(t)
  BY DEF Threads, Pcs, Rets, RpcPcs, JobPcs, CallPcs

LEMMA RestartType ==
  ASSUME TypeInv, NEW t \in Threads, RestartCamera(t)
  PROVE  TypeInv'
<1> USE Places
<1>1. CASE RcFlag(t)
  BY <1>1, SetType DEF RcFlag, CallPcs, Fields
<1>2. CASE RcStop(t)
  <2>1. /\ Go(t, "rcStop", "rcStart") /\ up' = FALSE
        /\ UNCHANGED <<controllers, ptc, ret, resp, tmp, camq, ftimestamp, history>>
    BY <1>2 DEF RcStop
  <2>2. CameraType' /\ AnswerType' /\ CountType' /\ OrderType'
    BY <2>1, SameParts DEF TypeInv, CameraType, history
  <2> QED
    BY <2>1, <2>2, QueueType DEF CallPcs
<1>3. CASE RcStart(t)
  <2>1. /\ Go(t, "rcStart", "rcResend") /\ up' = TRUE
        /\ UNCHANGED <<controllers, ptc, ret, resp, tmp, camq, ftimestamp, count, order>>
    BY <1>3 DEF RcStart, history
  <2>2. CameraType' /\ AnswerType' /\ CountType' /\ OrderType'
    BY <2>1, SameParts DEF TypeInv, CameraType, OrderType
  <2> QED
    BY <2>1, <2>2, QueueType DEF CallPcs
<1>4. CASE RcResend(t)
  <2>1. /\ Step(t, "rcResend", "rcReady") /\ UNCHANGED <<tmp, total, visits, order>>
        /\ ptc' = [ptc EXCEPT !.resend_flag = TRUE]
        /\ foreign' = foreign + (IF t = "rpc" THEN 1 ELSE 0)
    BY <1>4 DEF RcResend
  <2>2. SharedType'
    BY <2>1 DEF TypeInv, SharedType
  <2>3. CountType' /\ OrderType'
    BY <2>1, SameParts DEF TypeInv, CountType
  <2> QED
    BY <2>1, <2>2, <2>3, StepType DEF TypeInv, CallPcs
<1>5. CASE RcFails(t)
  <2>1. /\ order' = (IF t = "job" THEN "failed" ELSE order)
        /\ UNCHANGED <<ptc, tmp, count>>
    BY <1>5 DEF RcFails
  <2>2. SharedType' /\ CountType' /\ OrderType'
    BY <2>1, SameParts DEF TypeInv, OrderType
  <2>3. CASE Step(t, "rcStop", "rcReady")
    BY <2>2, <2>3, StepType DEF TypeInv, CallPcs
  <2>4. CASE Step(t, "rcStart", "rcReady")
    BY <2>2, <2>4, StepType DEF TypeInv, CallPcs
  <2> QED
    BY <1>5, <2>3, <2>4 DEF RcFails
<1>6. CASE RcReady(t)
  BY <1>6, SetType DEF RcReady, CallPcs, Fields
<1> QED
  BY <1>1, <1>2, <1>3, <1>4, <1>5, <1>6 DEF RestartCamera

\* A request joins the camera's queue.
LEMMA SendType ==
  ASSUME TypeInv, NEW t \in Threads, NEW from, NEW to \in Pcs(t), from # "idle",
         NEW what \in {"image", "exposure", "status"}, Send(t, from, to, what), OrderType'
  PROVE  TypeInv'
<1>1. /\ Go(t, from, to) /\ camq' = Append(camq, [what |-> what, from |-> t])
      /\ resp' = [resp EXCEPT ![t] = FALSE]
      /\ UNCHANGED <<controllers, ptc, ret, tmp, up, ftimestamp, count>>
  BY DEF Send
<1>2. CameraType'
  <2>1. [what |-> what, from |-> t] \in CamCalls /\ camq \in Seq(CamCalls)
    BY DEF TypeInv, CameraType, CamCalls
  <2> QED
    BY <1>1, <2>1, AppendProperties DEF TypeInv, CameraType
<1>3. AnswerType' /\ CountType'
  BY <1>1, SameParts DEF TypeInv, AnswerType
<1> QED
  BY <1>1, <1>2, <1>3, QueueType

LEMMA AwaitType ==
  ASSUME TypeInv, NEW t \in Threads, NEW from, from # "idle", NEW answered \in Pcs(t),
         NEW timeout \in Pcs(t), Await(t, from, answered, timeout),
         order' = order \/ order' = "answered"
  PROVE  TypeInv'
<1>1. UNCHANGED <<controllers, ptc, ret, resp, tmp, up, ftimestamp, count>>
  BY DEF Await
<1>2. Go(t, from, answered) \/ Go(t, from, timeout)
  BY DEF Await
<1>3. camq' \in Seq(CamCalls)
  <2>1. <<>> \in Seq(CamCalls) /\ camq \in Seq(CamCalls)
    BY DEF TypeInv, CameraType
  <2>2. CASE camq' = camq \/ camq' = <<>>
    BY <2>1, <2>2
  <2>3. CASE ~(camq' = camq \/ camq' = <<>>)
    <3> DEFINE r == Head(camq)
               s == [r EXCEPT !.from = IF @ = t THEN "nobody" ELSE @]
    <3>1. camq # <<>> /\ camq' = <<s>>
      BY <2>3 DEF Await, Purge
    <3>2. r \in CamCalls
      BY <2>1, <3>1, HeadTailProperties
    <3>3. s \in CamCalls
      BY <3>2 DEF CamCalls
    <3>4. <<s>> \in Seq(CamCalls)
      BY <3>3
    <3> QED
      BY <3>1, <3>4
  <2> QED
    BY <2>2, <2>3
<1>4. CameraType'
  BY <1>1, <1>3 DEF TypeInv, CameraType
<1>5. AnswerType' /\ CountType' /\ OrderType'
  BY <1>1, SameParts DEF TypeInv, OrderType
<1> QED
  BY <1>1, <1>2, <1>4, <1>5, QueueType

LEMMA StatusType ==
  ASSUME TypeInv, NEW t \in Threads, Status(t)
  PROVE  TypeInv'
<1> USE Places
<1>1. CASE StFlag(t)
  BY <1>1, SetType DEF StFlag, CallPcs, Fields
<1>2. CASE StCall(t)
  <2>1. Send(t, "stCall", "stAnswer", "status") /\ OrderType'
    BY <1>2, SameParts DEF StCall, TypeInv
  <2> QED
    BY <2>1, SendType DEF CallPcs
<1>5. CASE StRaises(t)
  BY <1>5, TestType DEF StRaises, CallPcs
<1>3. CASE StAnswer(t)
  BY <1>3, AwaitType DEF StAnswer, CallPcs
<1>4. CASE StReady(t)
  <2>1. "sent" \in Pcs(t) /\ (ret[t] = "reply" => "reply" \in Pcs(t))
    BY DEF CallPcs, TypeInv, RetType
  <2> DEFINE to == IF ret[t] = "reply" THEN "reply" ELSE "sent"
  <2>2. to \in Pcs(t) /\ Set(t, "stReady", to, "ready_flag", TRUE)
    BY <1>4, <2>1 DEF StReady
  <2> HIDE DEF to
  <2> QED
    BY <2>2, SetType DEF Fields
<1> QED
  BY <1>1, <1>2, <1>3, <1>4, <1>5 DEF Status

\* False returns to a place that True returns to.
LEMMA FalseReturns ==
  ASSUME TypeInv, NEW t \in Threads
  PROVE  (IF ret[t] = "resent" THEN "fin" ELSE ret[t]) \in Rets(t)
  BY DEF TypeInv, RetType, Rets

LEMMA SendToCameraType ==
  ASSUME TypeInv, NEW t \in Threads, SendToCamera(t)
  PROVE  TypeInv'
<1> USE Places
<1>1. CASE SendWait(t)
  BY <1>1, TestType DEF SendWait, CallPcs
<1>2. CASE SendHold(t)
  BY <1>2, SetType DEF SendHold, CallPcs, Fields
<1>3. CASE SendCall(t)
  <2> DEFINE what == IF t = "job" THEN "image" ELSE "exposure"
  <2>1. Send(t, "call", "answer", what) /\ what \in {"image", "exposure", "status"}
    BY <1>3 DEF SendCall
  <2>2. order' \in {order, "sent", "again"}
    BY <1>3 DEF SendCall
  <2>3. OrderType'
    BY <2>2 DEF TypeInv, OrderType
  <2> HIDE DEF what
  <2> QED
    BY <2>1, <2>3, SendType DEF CallPcs
<1>4. CASE SendAnswer(t)
  BY <1>4, AwaitType DEF SendAnswer, CallPcs
<1>5. CASE SendDone(t)
  <2>1. ret[t] \in Pcs(t)
    BY DEF TypeInv, RetType
  <2> QED
    BY <1>5, <2>1, SetType DEF SendDone, Fields
<1>6. CASE SendRaises(t)
  <2>1. /\ Step(t, "call", "raised") /\ UNCHANGED <<ptc, tmp, count>>
        /\ order' = (IF t = "job" /\ order = "none" THEN "raised" ELSE order)
    BY <1>6 DEF SendRaises
  <2>2. SharedType' /\ CountType' /\ OrderType'
    BY <2>1, SameParts DEF TypeInv, OrderType
  <2> QED
    BY <2>1, <2>2, StepType DEF TypeInv, CallPcs
<1>7. CASE SendReturnsFalse(t)
  <2> DEFINE to == IF ret[t] = "resent" THEN "fin" ELSE ret[t]
  <2>1. to \in Rets(t)
    BY FalseReturns
  <2>2. Set(t, "raised", to, "ready_flag", TRUE)
    BY <1>7 DEF SendReturnsFalse
  <2> HIDE DEF to
  <2> QED
    BY <2>1, <2>2, SetType DEF Fields
<1> QED
  BY <1>1, <1>2, <1>3, <1>4, <1>5, <1>6, <1>7, RestartType, StatusType DEF SendToCamera

LEMMA EnvironmentType ==
  ASSUME TypeInv, Environment
  PROVE  TypeInv'
<1>1. ASSUME NEW c \in Commands, Call(c)
      PROVE  TypeInv'
  <2>1. /\ sent < MaxCalls /\ sent' = sent + 1
        /\ inbox' = Append(inbox, [id |-> sent + 1, cmd |-> c])
        /\ starts' = starts + (IF StartsScan(c) THEN 1 ELSE 0)
        /\ UNCHANGED <<ptc, pc, ret, resp, tmp, camera, history>>
    BY <1>1 DEF Call
  <2>2. sent \in 0..MaxCalls /\ MaxCalls \in Nat /\ starts \in 0..sent
    BY PtAssumption DEF TypeInv, InboxType
  <2>3. [id |-> sent + 1, cmd |-> c] \in Requests /\ inbox \in Seq(Requests)
    BY <2>1, <2>2 DEF TypeInv, InboxType, Requests
  <2>4. inbox' \in Seq(Requests) /\ inbox' # <<>>
    BY <2>1, <2>3, AppendProperties
  <2>5. sent' \in 0..MaxCalls /\ starts' \in 0..sent'
    BY <2>1, <2>2
  <2>6. InboxType' /\ Holding'
    BY <2>4, <2>5 DEF InboxType, Holding
  <2> QED
    BY <2>1, <2>6, SameParts DEF TypeInv, history
<1>2. CASE CamHandle
  <2>1. /\ camq # <<>> /\ camq' = Tail(camq)
        /\ resp' = [u \in Threads |-> u = Head(camq).from \/ resp[u]]
        /\ UNCHANGED <<controllers, ptc, ftimestamp, pc, ret, tmp, up, history>>
    BY <1>2 DEF CamHandle
  <2>2. camq' \in Seq(CamCalls)
    BY <2>1, HeadTailProperties DEF TypeInv, CameraType
  <2>4. CameraType'
    BY <2>1, <2>2 DEF TypeInv, CameraType
  <2>5. AnswerType'
    BY <2>1 DEF TypeInv, AnswerType
  <2> QED
    BY <2>1, <2>4, <2>5, SameParts DEF TypeInv, history
<1>3. CASE Image
  <2>1. /\ ftimestamp' = (IF ftimestamp < MaxTime THEN ftimestamp + 1 ELSE ftimestamp)
        /\ UNCHANGED <<controllers, ptc, pc, ret, resp, tmp, up, camq, count, order>>
    BY <1>3 DEF Image, history
  <2>2. ftimestamp' \in 1..MaxTime
    BY <2>1, PtAssumption DEF TypeInv, CameraType
  <2>3. CameraType' /\ OrderType'
    BY <2>1, <2>2 DEF TypeInv, CameraType, OrderType
  <2> QED
    BY <2>1, <2>3, SameParts DEF TypeInv
<1> QED
  BY <1>1, <1>2, <1>3 DEF Environment

LEMMA RpcType ==
  ASSUME TypeInv, RpcThread
  PROVE  TypeInv'
<1> DEFINE t == "rpc"
<1>0. t \in Threads /\ RpcPcs \subseteq Pcs(t) /\ Rets(t) = {"lens", "reply"}
  BY DEF Threads, Pcs, Rets
<1>1. CASE Receive
  BY <1>0, <1>1, EnterType, TestType DEF Receive, RpcPcs, CallPcs
<1>2. CASE Lens
  BY <1>0, <1>2, EnterType, TestType DEF Lens, RpcPcs, CallPcs
<1>3. CASE LensFails \/ TestCount
  BY <1>0, <1>3, TestType DEF LensFails, TestCount, RpcPcs
<1>4. CASE Pause \/ StSetReady \/ StNoResend \/ StSchedule
  BY <1>0, <1>4, SetType DEF Pause, StSetReady, StNoResend, StSchedule, RpcPcs, Fields
<1>5. CASE Images \/ NoImage
  BY <1>0, <1>5, SetType DEF Images, NoImage, RpcPcs, Fields
<1>10. CASE One
  BY <1>0, <1>10, SetType DEF One, RpcPcs, Fields
<1>6. ASSUME pc["rpc"] # "idle"
      PROVE  command \in CommandType
  <2>1. inbox # <<>> /\ inbox \in Seq(Requests)
    BY <1>6 DEF TypeInv, Holding, InboxType
  <2>2. Head(inbox) \in Requests
    BY <2>1, HeadTailProperties
  <2> QED
    BY <2>2, PtAssumption DEF command, Requests
<1>7. CASE Count
  <2>1. pc["rpc"] = "count"
    BY <1>7 DEF Count, Set, Step, Go
  <2>2. command.capture \in Int /\ command.pt_locs \in Int
    BY <2>1, <1>6 DEF CommandType
  <2>3. command.capture * command.pt_locs \in Int
    BY <2>2
  <2> QED
    BY <1>0, <1>7, <2>3, SetType DEF Count, RpcPcs, Fields
<1>8. CASE StPositions
  <2>1. /\ Step("rpc", "positions", "ready") /\ UNCHANGED <<tmp, order>>
        /\ ptc' = [ptc EXCEPT !.locs = command.pt_locs, !.old_ftime = 0]
        /\ total' = ptc.loop_cntr /\ visits' = 0 /\ foreign' = 0
    BY <1>8 DEF StPositions
  <2>2. pc["rpc"] = "positions"
    BY <2>1 DEF Step, Go
  <2>3. command.pt_locs \in Nat
    BY <2>2, <1>6 DEF CommandType
  <2>4. SharedType' /\ CountType' /\ OrderType'
    BY <2>1, <2>3, SameParts DEF TypeInv, SharedType, CountType
  <2> QED
    BY <1>0, <2>1, <2>4, StepType DEF TypeInv, RpcPcs
<1>9. CASE Reply
  <2>1. /\ Go("rpc", "reply", "idle") /\ inbox' = Tail(inbox)
        /\ UNCHANGED <<sent, starts, ptc, ret, resp, tmp, camera, history>>
    BY <1>9 DEF Reply
  <2>2. inbox # <<>>
    BY <2>1 DEF Go, TypeInv, Holding
  <2>3. InboxType'
    BY <2>1, <2>2, HeadTailProperties DEF TypeInv, InboxType
  <2>4. PcType'
    BY <1>0, <2>1, GoType DEF TypeInv, RpcPcs
  <2>5. Holding'
    BY <2>1 DEF TypeInv, PcType, Holding, Go, Threads
  <2> QED
    BY <2>1, <2>3, <2>4, <2>5, SameParts DEF TypeInv, history
<1> QED
  BY <1>0, <1>1, <1>2, <1>3, <1>4, <1>5, <1>7, <1>8, <1>9, <1>10,
     SendToCameraType
     DEF RpcThread

LEMMA JobType ==
  ASSUME TypeInv, JobThread
  PROVE  TypeInv'
<1> DEFINE t == "job"
<1>0. t \in Threads /\ JobPcs \subseteq Pcs(t) /\ Rets(t) = {"fin", "resent"}
  BY DEF Threads, Pcs, Rets
<1>1. CASE JobTurn \/ JobLoop \/ JobImages \/ JobFiles \/ JobAllowed
  BY <1>0, <1>1, TestType
     DEF JobTurn, JobLoop, JobImages, JobFiles, JobAllowed, JobPcs
<1>2. CASE JobReplay
  BY <1>0, <1>2, EnterType, TestType DEF JobReplay, JobPcs, CallPcs
<1>3. CASE JobNext
  <2>1. CASE Test("job", "next", "fin")
    BY <1>0, <2>1, TestType DEF JobPcs
  <2>2. CASE /\ Step("job", "next", "turned") /\ order' = "none"
             /\ visits' = (IF visits <= total THEN visits + 1 ELSE visits)
             /\ UNCHANGED <<ptc, tmp, total, foreign>>
    <3>1. SharedType' /\ CountType' /\ OrderType'
      BY <2>2, SameParts DEF TypeInv, CountType, OrderType
    <3> QED
      BY <1>0, <2>2, <3>1, StepType DEF TypeInv, JobPcs
  <2> QED
    BY <1>3, <2>1, <2>2 DEF JobNext
<1>4. CASE JobTurned
  BY <1>0, <1>4, EnterType, TestType DEF JobTurned, JobPcs, CallPcs
<1>5. CASE JobResent
  BY <1>0, <1>5, SetType DEF JobResent, JobPcs, Fields
<1>6. CASE JobFin
  BY <1>0, <1>6, TestType DEF JobFin, JobPcs
<1>7. CASE JobLoad
  <2>1. Step("job", "load", "store") /\ tmp' = ptc.loop_cntr /\ UNCHANGED <<ptc, history>>
    BY <1>7 DEF JobLoad
  <2>2. SharedType' /\ CountType' /\ OrderType'
    BY <2>1, SameParts DEF TypeInv, SharedType, history
  <2> QED
    BY <1>0, <2>1, <2>2, StepType DEF TypeInv, JobPcs
<1>8. CASE JobStore
  <2>1. tmp - 1 \in Int
    BY DEF TypeInv, SharedType
  <2> QED
    BY <1>0, <1>8, <2>1, SetType DEF JobStore, JobPcs, Fields
<1> QED
  BY <1>0, <1>1, <1>2, <1>3, <1>4, <1>5, <1>6, <1>7, <1>8, SendToCameraType
     DEF JobThread

LEMMA TypeStep == TypeInv /\ [Next]_vars => TypeInv'
<1>1. TypeInv /\ UNCHANGED vars => TypeInv'
  BY SameParts DEF TypeInv, vars, controllers, camera, history
<1> QED
  BY <1>1, EnvironmentType, RpcType, JobType DEF Next

(* Every variable of the controller keeps its type, and rpc has a request     *)
(* whenever it processes one, for any commands and faults.                     *)
THEOREM PtTypeCorrect == Spec => []TypeOK
  BY TypeInit, TypeStep, TypeParts, PTL DEF Spec

-----------------------------------------------------------------------------
(* Positions are counted once.                                                *)

\* The places of rpc from which a scan's start goes on; behind StPositions.
LatePcs == {"ready", "resend", "schedule"}
ScanPcs == {"count", "images", "test", "none", "one", "positions"} \union LatePcs
Scan(k) == StartsScan(inbox[k].cmd)

\* While there is one scan it is started once: nothing of it exists before, and
\* what it left behind is not touched by a second start.
ScanQueue ==
  /\ pc["rpc"] \in ScanPcs => inbox # <<>> /\ Scan(1)
  /\ starts = 0 =>
       /\ \A k \in DOMAIN inbox : ~Scan(k)
       /\ ~ptc.scheduled /\ pc["job"] = "off" /\ total = 0
  /\ starts = 1 =>
       /\ \A k, l \in DOMAIN inbox : Scan(k) /\ Scan(l) => k = l
       /\ total # 0 =>
            \A k \in DOMAIN inbox : Scan(k) => k = 1 /\ pc["rpc"] \in LatePcs \union {"reply"}
       /\ ptc.scheduled \/ pc["job"] # "off" =>
            \A k \in DOMAIN inbox : Scan(k) => k = 1 /\ pc["rpc"] = "reply"

\* How far the visits are ahead of loop_cntr.
Ahead == visits + ptc.loop_cntr - total

\* The places of job at which a position has been visited or is to be ordered
\* again, and those before.
BeforePcs == {"off", "loop", "images", "files", "allowed", "replay"}
AfterPcs  == {"turned", "resent", "fin", "load", "store"} \union CallPcs
Active    == starts <= 1 /\ ptc.locs > 0 /\ total > 0
Flagged   == ptc.resend_flag /\ pc["rpc"] \notin {"ready", "resend"}

ScanCount == Active =>
  /\ ptc.loop_cntr >= 0
  /\ pc["job"] \notin {"off", "loop"} => ptc.loop_cntr > 0
  /\ pc["rpc"] \in LatePcs => Ahead = 0
  /\ Ahead <= 1
  /\ pc["job"] \in BeforePcs => Ahead <= 0 \/ ptc.resend_flag
  /\ pc["job"] = "next" => Ahead <= 0
  /\ Ahead + foreign >= 0
  /\ Flagged \/ pc["job"] \in AfterPcs => Ahead + foreign >= 1
  /\ Flagged /\ pc["job"] \in {"load", "store"} => Ahead + foreign >= 2
  /\ pc["job"] = "store" => tmp = ptc.loop_cntr

\* What a step that only moves a thread leaves alone, but for resend_flag ...
Kept ==
  /\ UNCHANGED <<controllers, total, visits, tmp>>
  /\ ptc'.scheduled = ptc.scheduled /\ ptc'.locs = ptc.locs
  /\ ptc'.loop_cntr = ptc.loop_cntr
Same == UNCHANGED foreign /\ ptc'.resend_flag = ptc.resend_flag

\* ... which a restart sets.
Flags(t) ==
  /\ ptc'.resend_flag = TRUE
  /\ foreign' = foreign + (IF t = "rpc" THEN 1 ELSE 0)

LEMMA TestKept ==
  ASSUME NEW t, NEW from, NEW to, Test(t, from, to)
  PROVE  Go(t, from, to) /\ Kept /\ Same
  BY DEF Test, Step, Kept, Same, history, count

LEMMA EnterKept ==
  ASSUME NEW t, NEW from, NEW to, NEW return, Enter(t, from, to, return)
  PROVE  Go(t, from, to) /\ Kept /\ Same
  BY DEF Enter, Kept, Same, history, count

LEMMA SetKept ==
  ASSUME TypeInv, NEW t, NEW from, NEW to, NEW field \in {"ready_flag", "noimage"},
         NEW value, Set(t, from, to, field, value)
  PROVE  Go(t, from, to) /\ Kept /\ Same
<1>1. ptc' = [ptc EXCEPT ![field] = value]
  BY DEF Set
<1>2. /\ ptc'.scheduled = ptc.scheduled /\ ptc'.locs = ptc.locs
      /\ ptc'.loop_cntr = ptc.loop_cntr /\ ptc'.resend_flag = ptc.resend_flag
  BY <1>1 DEF TypeInv, SharedType
<1> QED
  BY <1>2 DEF Set, Step, Kept, Same, history, count

LEMMA SendKept ==
  ASSUME NEW t, NEW from, NEW to, NEW what, Send(t, from, to, what)
  PROVE  Go(t, from, to) /\ Kept /\ Same
  BY DEF Send, Kept, Same, count

LEMMA AwaitKept ==
  ASSUME NEW t, NEW from, NEW answered, NEW timeout, Await(t, from, answered, timeout)
  PROVE  (Go(t, from, answered) \/ Go(t, from, timeout)) /\ Kept /\ Same
  BY DEF Await, Kept, Same, count

\* _send_to_camera, whichever step: it moves, and a restart may set resend_flag.
Moves(t) ==
  \E from \in CallPcs, to \in CallPcs \union Rets(t) :
    Go(t, from, to) /\ Kept /\ (Same \/ Flags(t))

LEMMA RestartMoves ==
  ASSUME TypeInv, NEW t \in Threads, RestartCamera(t)
  PROVE  Moves(t)
<1>1. CASE RcFlag(t)
  BY <1>1, SetKept DEF RcFlag, Moves, CallPcs
<1>2. CASE RcStop(t)
  BY <1>2 DEF RcStop, Moves, Kept, Same, history, count, CallPcs
<1>3. CASE RcStart(t)
  BY <1>3 DEF RcStart, Moves, Kept, Same, count, CallPcs, history
<1>4. CASE RcResend(t)
  <2>1. Go(t, "rcResend", "rcReady") /\ Kept /\ Flags(t)
    BY <1>4 DEF RcResend, Step, Kept, Flags, TypeInv, SharedType
  <2> QED
    BY <2>1 DEF Moves, CallPcs
<1>5. CASE RcFails(t)
  <2>1. (Go(t, "rcStop", "rcReady") \/ Go(t, "rcStart", "rcReady")) /\ Kept /\ Same
    BY <1>5 DEF RcFails, Step, Kept, Same, count
  <2> QED
    BY <2>1 DEF Moves, CallPcs
<1>6. CASE RcReady(t)
  BY <1>6, SetKept DEF RcReady, Moves, CallPcs
<1> QED
  BY <1>1, <1>2, <1>3, <1>4, <1>5, <1>6 DEF RestartCamera

LEMMA StatusMoves ==
  ASSUME TypeInv, NEW t \in Threads, Status(t)
  PROVE  Moves(t)
<1>1. CASE StFlag(t)
  BY <1>1, SetKept DEF StFlag, Moves, CallPcs
<1>2. CASE StCall(t)
  BY <1>2, SendKept DEF StCall, Moves, CallPcs
<1>5. CASE StRaises(t)
  BY <1>5, TestKept DEF StRaises, Moves, CallPcs
<1>3. CASE StAnswer(t)
  BY <1>3, AwaitKept DEF StAnswer, Moves, CallPcs
<1>4. CASE StReady(t)
  <2> DEFINE to == IF ret[t] = "reply" THEN "reply" ELSE "sent"
  <2>1. to \in CallPcs \union Rets(t)
    BY DEF TypeInv, RetType, CallPcs
  <2>2. Set(t, "stReady", to, "ready_flag", TRUE)
    BY <1>4 DEF StReady
  <2> HIDE DEF to
  <2>3. Go(t, "stReady", to) /\ Kept /\ Same
    BY <2>2, SetKept
  <2> QED
    BY <2>1, <2>3 DEF Moves, CallPcs
<1> QED
  BY <1>1, <1>2, <1>3, <1>4, <1>5 DEF Status

LEMMA SendMoves ==
  ASSUME TypeInv, NEW t \in Threads, SendToCamera(t)
  PROVE  Moves(t)
<1>1. CASE SendWait(t)
  BY <1>1, TestKept DEF SendWait, Moves, CallPcs
<1>2. CASE SendHold(t)
  BY <1>2, SetKept DEF SendHold, Moves, CallPcs
<1>3. CASE SendCall(t)
  <2> DEFINE what == IF t = "job" THEN "image" ELSE "exposure"
  <2>1. Send(t, "call", "answer", what)
    BY <1>3 DEF SendCall
  <2> HIDE DEF what
  <2> QED
    BY <2>1, SendKept DEF Moves, CallPcs
<1>4. CASE SendAnswer(t)
  BY <1>4, AwaitKept DEF SendAnswer, Moves, CallPcs
<1>5. CASE SendDone(t)
  <2>1. Go(t, "sent", ret[t]) /\ Kept /\ Same
    BY <1>5, SetKept DEF SendDone
  <2> QED
    BY <2>1 DEF Moves, CallPcs, TypeInv, RetType
<1>6. CASE SendRaises(t)
  <2>1. Go(t, "call", "raised") /\ Kept /\ Same
    BY <1>6 DEF SendRaises, Step, Kept, Same, count
  <2> QED
    BY <2>1 DEF Moves, CallPcs
<1>7. CASE SendReturnsFalse(t)
  <2> DEFINE to == IF ret[t] = "resent" THEN "fin" ELSE ret[t]
  <2>1. to \in Rets(t)
    BY FalseReturns
  <2>2. Set(t, "raised", to, "ready_flag", TRUE)
    BY <1>7 DEF SendReturnsFalse
  <2> HIDE DEF to
  <2>3. Go(t, "raised", to) /\ Kept /\ Same
    BY <2>2, SetKept
  <2> QED
    BY <2>1, <2>3 DEF Moves, CallPcs
<1> QED
  BY <1>1, <1>2, <1>3, <1>4, <1>5, <1>6, <1>7, RestartMoves, StatusMoves
     DEF SendToCamera

-----------------------------------------------------------------------------
(* ScanQueue is inductive.                                                    *)

\* rpc moves within a scan's start, or outside of it.
LEMMA QueueMove ==
  ASSUME TypeInv, ScanQueue, UNCHANGED <<controllers, total>>,
         ptc'.scheduled = ptc.scheduled, NEW from, NEW to, Go("rpc", from, to),
         to \in ScanPcs => Scan(1), inbox # <<>>,
         from \in LatePcs => to \in LatePcs \union {"reply"}, from # "reply"
  PROVE  ScanQueue'
<1>1. pc["rpc"] = from /\ pc'["rpc"] = to /\ pc'["job"] = pc["job"]
  BY DEF TypeInv, PcType, Go, Threads
<1>2. inbox' = inbox /\ starts' = starts /\ total' = total
  BY DEF controllers
<1>3. \A k : Scan(k)' <=> Scan(k)
  BY <1>2 DEF Scan
<1> QED
  BY <1>1, <1>2, <1>3 DEF ScanQueue

\* The job moves, or is started by a schedule there is.
LEMMA QueueJob ==
  ASSUME TypeInv, ScanQueue, UNCHANGED <<controllers, total>>,
         ptc'.scheduled = ptc.scheduled, NEW from, NEW to, Go("job", from, to),
         from # "off" \/ ptc.scheduled
  PROVE  ScanQueue'
<1>1. pc["job"] = from /\ pc'["job"] = to /\ pc'["rpc"] = pc["rpc"]
  BY DEF TypeInv, PcType, Go, Threads
<1>2. inbox' = inbox /\ starts' = starts /\ total' = total
  BY DEF controllers
<1>3. \A k : Scan(k)' <=> Scan(k)
  BY <1>2 DEF Scan
<1> QED
  BY <1>1, <1>2, <1>3 DEF ScanQueue

LEMMA QueueSame ==
  ASSUME ScanQueue, UNCHANGED <<controllers, total, ptc, pc>>
  PROVE  ScanQueue'
<1>1. inbox' = inbox /\ starts' = starts
  BY DEF controllers
<1>2. \A k : Scan(k)' <=> Scan(k)
  BY <1>1 DEF Scan
<1> QED
  BY <1>1, <1>2 DEF ScanQueue

LEMMA QueueCall ==
  ASSUME TypeInv, ScanQueue, NEW c \in Commands, Call(c)
  PROVE  ScanQueue'
<1> DEFINE r == [id |-> sent + 1, cmd |-> c]
<1>1. /\ inbox' = Append(inbox, r) /\ UNCHANGED <<ptc, pc, total>>
      /\ starts' = starts + (IF StartsScan(c) THEN 1 ELSE 0)
  BY DEF Call, history, count
<1>2. inbox \in Seq(Requests) /\ Len(inbox) \in Nat /\ starts \in Nat
  BY DEF TypeInv, InboxType
<1>3. /\ DOMAIN inbox' = DOMAIN inbox \union {Len(inbox) + 1}
      /\ \A k \in DOMAIN inbox : inbox'[k] = inbox[k] /\ inbox'[Len(inbox) + 1] = r
      /\ Len(inbox) + 1 \notin DOMAIN inbox
      /\ inbox # <<>> => 1 \in DOMAIN inbox
      /\ inbox' # <<>>
  <2>1. Append(inbox, r) \in Seq(Requests \union {r})
    BY <1>2
  <2> HIDE DEF r
  <2> QED
    BY <1>1, <1>2, <2>1
<1>4. \A k \in DOMAIN inbox : Scan(k)' <=> Scan(k)
  BY <1>3 DEF Scan
<1>5. inbox'[Len(inbox) + 1] = r
  BY <1>1, <1>2
<1>6. \A n : n = Len(inbox) + 1 => (Scan(n)' <=> StartsScan(c))
  BY <1>5 DEF Scan
<1>7. CASE StartsScan(c)
  <2>1. starts' = starts + 1
    BY <1>1, <1>7
  <2>2. starts' = 1 => starts = 0
    BY <1>2, <2>1
  <2> QED
    BY <1>1, <1>2, <1>3, <1>4, <2>1, <2>2 DEF ScanQueue
<1>8. CASE ~StartsScan(c)
  <2>1. starts' = starts
    BY <1>1, <1>2, <1>8
  <2>2. \A k \in DOMAIN inbox' : Scan(k)' => k \in DOMAIN inbox /\ Scan(k)
    BY <1>3, <1>4, <1>6, <1>8
  <2> QED
    BY <1>1, <1>2, <1>3, <1>4, <2>1, <2>2 DEF ScanQueue
<1> QED
  BY <1>7, <1>8

LEMMA QueueReply ==
  ASSUME TypeInv, ScanQueue, Reply
  PROVE  ScanQueue'
<1>1. /\ Go("rpc", "reply", "idle") /\ inbox' = Tail(inbox)
      /\ UNCHANGED <<starts, ptc, total>>
  BY DEF Reply, history, count
<1>2. pc["rpc"] = "reply" /\ pc'["rpc"] = "idle" /\ pc'["job"] = pc["job"]
  BY <1>1 DEF TypeInv, PcType, Go, Threads
<1>3. inbox \in Seq(Requests) /\ inbox # <<>>
  BY <1>2 DEF TypeInv, InboxType, Holding
<1>4. \A k \in DOMAIN inbox' :
        k + 1 \in DOMAIN inbox /\ k + 1 # 1 /\ inbox'[k] = inbox[k + 1] /\ k \in Nat
  BY <1>1, <1>3
<1>5. \A k \in DOMAIN inbox' : Scan(k)' <=> Scan(k + 1)
  BY <1>4 DEF Scan
<1>6. starts = 1 => \A k, l \in DOMAIN inbox' : Scan(k)' /\ Scan(l)' => k = l
  <2> SUFFICES ASSUME starts = 1, NEW k \in DOMAIN inbox', NEW l \in DOMAIN inbox',
                      Scan(k)', Scan(l)'
               PROVE  k = l
    OBVIOUS
  <2>1. k + 1 = l + 1
    BY <1>4, <1>5 DEF ScanQueue
  <2> QED
    BY <1>4, <2>1
<1>7. starts = 1 /\ (total # 0 \/ ptc.scheduled \/ pc["job"] # "off")
        => \A k \in DOMAIN inbox' : ~Scan(k)'
  BY <1>4, <1>5 DEF ScanQueue
<1>8. starts = 0 => \A k \in DOMAIN inbox' : ~Scan(k)'
  BY <1>4, <1>5 DEF ScanQueue
<1>9. "idle" \notin ScanPcs
  BY DEF ScanPcs, LatePcs
<1> QED
  BY <1>1, <1>2, <1>6, <1>7, <1>8, <1>9 DEF ScanQueue

\* A scan that is being started is the request at the head of the queue, and the
\* only one.
LEMMA HeadScan ==
  ASSUME TypeInv, ScanQueue, pc["rpc"] \in ScanPcs
  PROVE  /\ inbox # <<>> /\ Scan(1) /\ starts # 0
         /\ starts = 1 => \A k \in DOMAIN inbox : Scan(k) => k = 1
         /\ starts = 1 => ~ptc.scheduled /\ pc["job"] = "off"
         /\ starts = 1 /\ total # 0 => pc["rpc"] \in LatePcs
<1>1. inbox # <<>> /\ Scan(1)
  BY DEF ScanQueue
<1>2. inbox \in Seq(Requests)
  BY DEF TypeInv, InboxType
<1>3. 1 \in DOMAIN inbox
  BY <1>1, <1>2
<1>4. pc["rpc"] # "reply"
  BY DEF ScanPcs, LatePcs
<1> QED
  BY <1>1, <1>3, <1>4 DEF ScanQueue

\* A scan's start begins with StPositions to have a total, and is scheduled at
\* its end.
LEMMA QueuePositions ==
  ASSUME TypeInv, ScanQueue, StPositions
  PROVE  ScanQueue'
<1>1. /\ Go("rpc", "positions", "ready") /\ UNCHANGED <<inbox, starts>>
      /\ ptc' = [ptc EXCEPT !.locs = command.pt_locs, !.old_ftime = 0]
  BY DEF StPositions, Step, controllers
<1>2. pc["rpc"] = "positions" /\ pc'["rpc"] = "ready" /\ pc'["job"] = pc["job"]
  BY <1>1 DEF TypeInv, PcType, Go, Threads
<1>3. ptc'.scheduled = ptc.scheduled
  BY <1>1 DEF TypeInv, SharedType
<1>4. \A k : Scan(k)' <=> Scan(k)
  BY <1>1 DEF Scan
<1> QED
  BY <1>1, <1>2, <1>3, <1>4, HeadScan DEF ScanQueue, ScanPcs, LatePcs

LEMMA QueueScheduled ==
  ASSUME TypeInv, ScanQueue, Pause \/ StSchedule
  PROVE  ScanQueue'
<1>1. UNCHANGED <<inbox, starts, total>>
  BY DEF Pause, StSchedule, Set, Step, controllers, history, count
<1>2. \A k : Scan(k)' <=> Scan(k)
  BY <1>1 DEF Scan
<1>3. CASE Pause
  <2>1. Go("rpc", "pause", "reply") /\ ptc' = [ptc EXCEPT !["scheduled"] = FALSE]
    BY <1>3 DEF Pause, Set, Step
  <2>2. /\ pc["rpc"] = "pause" /\ pc'["rpc"] = "reply" /\ pc'["job"] = pc["job"]
        /\ ptc'.scheduled = FALSE
    BY <2>1 DEF TypeInv, PcType, Go, Threads, SharedType
  <2> QED
    BY <1>1, <1>2, <2>2 DEF ScanQueue, ScanPcs, LatePcs
<1>4. CASE StSchedule
  <2>1. Go("rpc", "schedule", "reply")
    BY <1>4 DEF StSchedule, Set, Step
  <2>2. pc["rpc"] = "schedule" /\ pc'["rpc"] = "reply" /\ pc'["job"] = pc["job"]
    BY <2>1 DEF TypeInv, PcType, Go, Threads
  <2> QED
    BY <1>1, <1>2, <2>2, HeadScan DEF ScanQueue, ScanPcs, LatePcs
<1> QED
  BY <1>3, <1>4

LEMMA QueueRpc ==
  ASSUME TypeInv, ScanQueue, RpcThread
  PROVE  ScanQueue'
<1>0. /\ pc["rpc"] # "idle" => inbox # <<>>
      /\ inbox # <<>> => (Scan(1) <=> StartsScan(command))
  BY DEF TypeInv, Holding, Scan, command, InboxType
<1>1. ASSUME NEW from, NEW to, to \notin ScanPcs, Go("rpc", from, to), Kept,
             inbox # <<>>, from \notin LatePcs \union {"reply"}
      PROVE  ScanQueue'
  BY <1>1, QueueMove DEF Kept
<1>2. ASSUME NEW from \in ScanPcs, NEW to \in ScanPcs, Go("rpc", from, to),
             UNCHANGED <<controllers, total>>, ptc'.scheduled = ptc.scheduled,
             from \in LatePcs => to \in LatePcs
      PROVE  ScanQueue'
  <2>1. pc["rpc"] = from /\ from # "reply"
    BY <1>2 DEF Go, ScanPcs, LatePcs
  <2> QED
    BY <1>2, <2>1, HeadScan, QueueMove
<1>3. CASE Receive
  <2>1. inbox # <<>> /\ (Go("rpc", "idle", "wait") \/ Go("rpc", "idle", "lens")) /\ Kept
    BY <1>3, EnterKept, TestKept DEF Receive
  <2> QED
    BY <1>1, <2>1 DEF ScanPcs, LatePcs
<1>4. CASE Lens
  <2>1. CASE Enter("rpc", "lens", "stFlag", "reply")
    <3>1. Go("rpc", "lens", "stFlag") /\ Kept
      BY <2>1, EnterKept
    <3> QED
      BY <1>0, <1>1, <3>1 DEF ScanPcs, LatePcs, Go
  <2>2. CASE Test("rpc", "lens", "pause")
    <3>1. Go("rpc", "lens", "pause") /\ Kept
      BY <2>2, TestKept
    <3> QED
      BY <1>0, <1>1, <3>1 DEF ScanPcs, LatePcs, Go
  <2>3. CASE Test("rpc", "lens", "count") /\ StartsScan(command)
    <3>1. Go("rpc", "lens", "count") /\ Kept
      BY <2>3, TestKept
    <3>2. inbox # <<>> /\ Scan(1)
      BY <1>0, <2>3, <3>1 DEF Go
    <3> QED
      BY <3>1, <3>2, QueueMove DEF Kept, LatePcs
  <2> QED
    BY <1>4, <2>1, <2>2, <2>3 DEF Lens
<1>5. CASE LensFails
  <2>1. Go("rpc", "lens", "blocked") /\ Kept
    BY <1>5, TestKept DEF LensFails
  <2> QED
    BY <1>0, <1>1, <2>1 DEF ScanPcs, LatePcs, Go
<1>6. CASE Count
  <2>1. /\ Go("rpc", "count", "images") /\ UNCHANGED <<controllers, total>>
        /\ ptc' = [ptc EXCEPT !["loop_cntr"] = command.capture * command.pt_locs]
    BY <1>6 DEF Count, Set, Step, history, count
  <2>2. ptc'.scheduled = ptc.scheduled
    BY <2>1 DEF TypeInv, SharedType
  <2> QED
    BY <1>2, <2>1, <2>2 DEF ScanPcs, LatePcs
<1>7. CASE Images
  <2>1. Go("rpc", "images", "test") /\ Kept
    BY <1>7, SetKept DEF Images
  <2> QED
    BY <1>2, <2>1 DEF ScanPcs, LatePcs, Kept
<1>8. CASE TestCount
  <2>1. (Go("rpc", "test", "none") \/ Go("rpc", "test", "positions")) /\ Kept
    BY <1>8, TestKept DEF TestCount
  <2> QED
    BY <1>2, <2>1 DEF ScanPcs, LatePcs, Kept
<1>9. CASE NoImage
  <2>1. Go("rpc", "none", "one") /\ Kept
    BY <1>9, SetKept DEF NoImage
  <2> QED
    BY <1>2, <2>1 DEF ScanPcs, LatePcs, Kept
<1>10. CASE One
  <2>1. /\ Go("rpc", "one", "positions") /\ UNCHANGED <<controllers, total>>
        /\ ptc' = [ptc EXCEPT !["loop_cntr"] = 1]
    BY <1>10 DEF One, Set, Step, history, count
  <2>2. ptc'.scheduled = ptc.scheduled
    BY <2>1 DEF TypeInv, SharedType
  <2> QED
    BY <1>2, <2>1, <2>2 DEF ScanPcs, LatePcs
<1>11. CASE StSetReady
  <2>1. Go("rpc", "ready", "resend") /\ Kept
    BY <1>11, SetKept DEF StSetReady
  <2> QED
    BY <1>2, <2>1 DEF ScanPcs, LatePcs, Kept
<1>12. CASE StNoResend
  <2>1. /\ Go("rpc", "resend", "schedule") /\ UNCHANGED <<controllers, total>>
        /\ ptc' = [ptc EXCEPT !["resend_flag"] = FALSE]
    BY <1>12 DEF StNoResend, Set, Step, history, count
  <2>2. ptc'.scheduled = ptc.scheduled
    BY <2>1 DEF TypeInv, SharedType
  <2> QED
    BY <1>2, <2>1, <2>2 DEF ScanPcs, LatePcs
<1>13. CASE SendToCamera("rpc")
  <2>1. PICK from \in CallPcs, to \in CallPcs \union Rets("rpc") :
          Go("rpc", from, to) /\ Kept
    BY <1>13, SendMoves DEF Moves, Threads
  <2>2. to \notin ScanPcs /\ from \notin LatePcs \union {"reply"} /\ from # "idle"
    BY DEF CallPcs, ScanPcs, LatePcs, Rets
  <2> QED
    BY <1>0, <1>1, <2>1, <2>2 DEF Go
<1> QED
  BY <1>3, <1>4, <1>5, <1>6, <1>7, <1>8, <1>9, <1>10, <1>11, <1>12, <1>13,
     QueuePositions, QueueScheduled, QueueReply DEF RpcThread

LEMMA QueueJobThread ==
  ASSUME TypeInv, ScanQueue, JobThread
  PROVE  ScanQueue'
<1>1. ASSUME NEW from, NEW to, Test("job", from, to), from # "off" \/ ptc.scheduled
      PROVE  ScanQueue'
  BY <1>1, TestKept, QueueJob DEF Kept
<1>2. CASE JobTurn \/ JobLoop \/ JobImages \/ JobFiles \/ JobAllowed \/ JobFin
  BY <1>1, <1>2 DEF JobTurn, JobLoop, JobImages, JobFiles, JobAllowed, JobFin
<1>3. CASE JobReplay
  BY <1>1, <1>3, EnterKept, QueueJob DEF JobReplay, Kept
<1>4. CASE JobTurned
  BY <1>1, <1>4, EnterKept, QueueJob DEF JobTurned, Kept
<1>5. CASE JobNext
  <2>1. CASE Step("job", "next", "turned") /\ UNCHANGED <<ptc, total>>
    BY <2>1, QueueJob DEF Step
  <2> QED
    BY <1>1, <1>5, <2>1 DEF JobNext
<1>6. CASE JobLoad
  BY <1>6, QueueJob DEF JobLoad, Step, history, count
<1>7. CASE JobResent
  <2>1. /\ Go("job", "resent", "fin") /\ UNCHANGED <<controllers, total>>
        /\ ptc' = [ptc EXCEPT !["resend_flag"] = FALSE]
    BY <1>7 DEF JobResent, Set, Step, history, count
  <2>2. ptc'.scheduled = ptc.scheduled
    BY <2>1 DEF TypeInv, SharedType
  <2> QED
    BY <2>1, <2>2, QueueJob
<1>8. CASE JobStore
  <2>1. /\ Go("job", "store", "off") /\ UNCHANGED <<controllers, total>>
        /\ ptc' = [ptc EXCEPT !["loop_cntr"] = tmp - 1]
    BY <1>8 DEF JobStore, Set, Step, history, count
  <2>2. ptc'.scheduled = ptc.scheduled
    BY <2>1 DEF TypeInv, SharedType
  <2> QED
    BY <2>1, <2>2, QueueJob
<1>9. CASE SendToCamera("job")
  <2>1. PICK from \in CallPcs, to \in CallPcs \union Rets("job") :
          Go("job", from, to) /\ Kept
    BY <1>9, SendMoves DEF Moves, Threads
  <2>2. from # "off"
    BY DEF CallPcs
  <2> QED
    BY <2>1, <2>2, QueueJob DEF Kept
<1> QED
  BY <1>2, <1>3, <1>4, <1>5, <1>6, <1>7, <1>8, <1>9 DEF JobThread

LEMMA QueueStep ==
  ASSUME TypeInv, ScanQueue, [Next]_vars
  PROVE  ScanQueue'
<1>1. CASE CamHandle \/ Image \/ UNCHANGED vars
  <2>1. UNCHANGED <<controllers, total, ptc, pc>>
    BY <1>1 DEF CamHandle, Image, vars, history, count
  <2> QED
    BY <2>1, QueueSame
<1> QED
  BY <1>1, QueueCall, QueueRpc, QueueJobThread DEF Next, Environment

-----------------------------------------------------------------------------
(* ScanCount is inductive together with ScanQueue.                            *)

Counts ==
  /\ UNCHANGED <<starts, total, visits, tmp>>
  /\ ptc'.locs = ptc.locs /\ ptc'.loop_cntr = ptc.loop_cntr

LEMMA KeptCounts == Kept => Counts
  BY DEF Kept, Counts, controllers

LEMMA CountsKeep ==
  ASSUME Counts
  PROVE  Ahead' = Ahead /\ (Active' <=> Active) /\ tmp' = tmp
  BY DEF Counts, Ahead, Active

LEMMA CountNumbers ==
  ASSUME TypeInv
  PROVE  /\ Ahead \in Int /\ foreign \in Nat /\ ptc.loop_cntr \in Int
         /\ total \in Int /\ visits \in Nat /\ starts \in Nat
  BY DEF TypeInv, SharedType, CountType, InboxType, Ahead

\* Once the scan has a total rpc is behind StPositions, and while the job runs
\* it is out of the scan's start.
LEMMA ActivePlaces ==
  ASSUME TypeInv, ScanQueue, starts <= 1, total # 0
  PROVE  /\ pc["rpc"] \in ScanPcs => pc["rpc"] \in LatePcs
         /\ pc["job"] # "off" => pc["rpc"] \notin ScanPcs
<1>1. pc["rpc"] \in ScanPcs => starts = 1
  BY HeadScan, CountNumbers
<1> QED
  BY <1>1, HeadScan

LEMMA CountRpcMove ==
  ASSUME TypeInv, ScanCount, NEW from, from \notin LatePcs, NEW to, to \notin LatePcs,
         Go("rpc", from, to), Counts, Same \/ Flags("rpc")
  PROVE  ScanCount'
<1>1. pc["rpc"] = from /\ pc'["rpc"] = to /\ pc'["job"] = pc["job"]
  BY DEF TypeInv, PcType, Go, Threads
<1>2. Ahead' = Ahead /\ (Active' <=> Active) /\ tmp' = tmp /\ ptc'.loop_cntr = ptc.loop_cntr
  BY CountsKeep DEF Counts
<1>3. CASE Same
  <2>1. ptc'.resend_flag = ptc.resend_flag /\ foreign' = foreign
    BY <1>3 DEF Same
  <2>2. Flagged' <=> Flagged
    BY <1>1, <2>1 DEF Flagged, LatePcs
  <2> QED
    BY <1>1, <1>2, <2>1, <2>2 DEF ScanCount
<1>4. CASE Flags("rpc")
  <2>1. ptc'.resend_flag = TRUE /\ foreign' = foreign + 1
    BY <1>4 DEF Flags
  <2> QED
    BY <1>1, <1>2, <2>1, CountNumbers DEF ScanCount, AfterPcs
<1> QED
  BY <1>3, <1>4

LEMMA CountStart ==
  ASSUME TypeInv, ScanQueue, ScanCount,
         \/ Count \/ Images \/ TestCount \/ NoImage \/ One
         \/ StPositions \/ StSetReady \/ StNoResend \/ StSchedule
  PROVE  ScanCount'
<1>1. ASSUME pc["rpc"] \in ScanPcs \ LatePcs, UNCHANGED <<starts, total>>
      PROVE  ScanCount'
  <2>1. ~(starts <= 1 /\ total > 0)
    BY <1>1, ActivePlaces, CountNumbers
  <2> QED
    BY <1>1, <2>1 DEF ScanCount, Active
<1>2. CASE Count \/ Images \/ TestCount \/ NoImage \/ One
  <2>1. UNCHANGED <<starts, total>>
    BY <1>2 DEF Count, Images, TestCount, NoImage, One, Set, Test, Step, controllers,
                history, count
  <2>2. pc["rpc"] \in {"count", "images", "test", "none", "one"}
    BY <1>2 DEF Count, Images, TestCount, NoImage, One, Set, Test, Step, Go
  <2> QED
    BY <1>1, <2>1, <2>2 DEF ScanPcs, LatePcs
<1>3. CASE StPositions
  <2>1. /\ Go("rpc", "positions", "ready") /\ UNCHANGED <<starts, tmp>>
        /\ ptc' = [ptc EXCEPT !.locs = command.pt_locs, !.old_ftime = 0]
        /\ total' = ptc.loop_cntr /\ visits' = 0 /\ foreign' = 0
    BY <1>3 DEF StPositions, Step, controllers
  <2>2. pc["rpc"] = "positions" /\ pc'["rpc"] = "ready" /\ pc'["job"] = pc["job"]
    BY <2>1 DEF TypeInv, PcType, Go, Threads
  <2>3. ptc'.loop_cntr = ptc.loop_cntr
    BY <2>1 DEF TypeInv, SharedType
  <2>4. Ahead' = 0
    BY <2>1, <2>3, CountNumbers DEF Ahead
  <2>5. starts <= 1 => pc["job"] = "off"
    BY <2>2, HeadScan, CountNumbers DEF ScanPcs
  <2> QED
    BY <2>1, <2>2, <2>3, <2>4, <2>5, CountNumbers
       DEF ScanCount, Active, Flagged, BeforePcs, AfterPcs, CallPcs
<1>4. CASE StSetReady
  <2>1. Go("rpc", "ready", "resend") /\ Counts /\ Same
    BY <1>4, SetKept, KeptCounts DEF StSetReady
  <2>2. pc["rpc"] = "ready" /\ pc'["rpc"] = "resend" /\ pc'["job"] = pc["job"]
    BY <2>1 DEF TypeInv, PcType, Go, Threads
  <2>3. Ahead' = Ahead /\ (Active' <=> Active) /\ tmp' = tmp /\ ptc'.loop_cntr = ptc.loop_cntr
    BY <2>1, CountsKeep DEF Counts
  <2>4. foreign' = foreign /\ ptc'.resend_flag = ptc.resend_flag
    BY <2>1 DEF Same
  <2> QED
    BY <2>2, <2>3, <2>4 DEF ScanCount, Flagged, LatePcs
<1>5. CASE StNoResend \/ StSchedule
  <2>1. Go("rpc", "resend", "schedule") \/ Go("rpc", "schedule", "reply")
    BY <1>5 DEF StNoResend, StSchedule, Set, Step
  <2>2. pc["rpc"] \in LatePcs /\ pc'["job"] = pc["job"]
    BY <2>1 DEF TypeInv, PcType, Go, Threads, LatePcs
  <2>3. Counts /\ foreign' = foreign
    BY <1>5 DEF StNoResend, StSchedule, Set, Step, Counts, TypeInv, SharedType,
                controllers, history, count
  <2>4. Ahead' = Ahead /\ (Active' <=> Active) /\ tmp' = tmp /\ ptc'.loop_cntr = ptc.loop_cntr
    BY <2>3, CountsKeep DEF Counts
  <2>5. Active => pc["job"] = "off"
    BY <2>2, ActivePlaces, CountNumbers DEF Active, ScanPcs
  <2>6. CASE StNoResend
    <3>1. ptc'.resend_flag = FALSE
      BY <2>6 DEF StNoResend, Set, TypeInv, SharedType
    <3> QED
      BY <2>2, <2>3, <2>4, <2>5, <3>1, CountNumbers
         DEF ScanCount, Flagged, BeforePcs, AfterPcs, CallPcs
  <2>7. CASE StSchedule
    <3>1. ptc'.resend_flag = ptc.resend_flag
      BY <2>7 DEF StSchedule, Set, TypeInv, SharedType
    <3>2. pc["rpc"] = "schedule" /\ pc'["rpc"] = "reply"
      BY <2>7 DEF StSchedule, Set, Step, Go, TypeInv, PcType, Threads
    <3>3. Flagged' <=> Flagged
      BY <3>1, <3>2 DEF Flagged
    <3> QED
      BY <2>2, <2>3, <2>4, <3>1, <3>2, <3>3 DEF ScanCount, LatePcs
  <2> QED
    BY <1>5, <2>6, <2>7
<1> QED
  BY <1>2, <1>3, <1>4, <1>5

LEMMA CountRpc ==
  ASSUME TypeInv, ScanQueue, ScanCount, RpcThread
  PROVE  ScanCount'
<1>1. ASSUME NEW from, from \notin LatePcs, NEW to, to \notin LatePcs,
             Go("rpc", from, to), Kept, Same
      PROVE  ScanCount'
  BY <1>1, KeptCounts, CountRpcMove
<1>2. CASE Receive
  BY <1>1, <1>2, EnterKept, TestKept DEF Receive, LatePcs
<1>3. CASE Lens
  BY <1>1, <1>3, EnterKept, TestKept DEF Lens, LatePcs
<1>4. CASE LensFails
  BY <1>1, <1>4, TestKept DEF LensFails, LatePcs
<1>5. CASE Pause
  <2>1. Go("rpc", "pause", "reply") /\ Counts /\ Same
    BY <1>5 DEF Pause, Set, Step, Counts, Same, TypeInv, SharedType, controllers,
                history, count
  <2> QED
    BY <2>1, CountRpcMove DEF LatePcs
<1>6. CASE Reply
  <2>1. Go("rpc", "reply", "idle") /\ Counts /\ Same
    BY <1>6 DEF Reply, Counts, Same, history, count
  <2> QED
    BY <2>1, CountRpcMove DEF LatePcs
<1>7. CASE SendToCamera("rpc")
  <2>1. PICK from \in CallPcs, to \in CallPcs \union Rets("rpc") :
          Go("rpc", from, to) /\ Kept /\ (Same \/ Flags("rpc"))
    BY <1>7, SendMoves DEF Moves, Threads
  <2>2. from \notin LatePcs /\ to \notin LatePcs
    BY DEF CallPcs, LatePcs, Rets
  <2> QED
    BY <2>1, <2>2, KeptCounts, CountRpcMove
<1> QED
  BY <1>2, <1>3, <1>4, <1>5, <1>6, <1>7, CountStart DEF RpcThread

\* A step of the job in an active scan: where it is, and what rpc does not do.
LEMMA JobFacts ==
  ASSUME TypeInv, ScanQueue, NEW from, NEW to, Go("job", from, to)
  PROVE  /\ pc["job"] = from /\ pc'["job"] = to /\ pc'["rpc"] = pc["rpc"]
         /\ Active /\ from # "off" => pc["rpc"] \notin LatePcs /\ (Flagged <=> ptc.resend_flag)
<1>1. pc["job"] = from /\ pc'["job"] = to /\ pc'["rpc"] = pc["rpc"]
  BY DEF TypeInv, PcType, Go, Threads
<1>2. ASSUME Active, from # "off"
      PROVE  pc["rpc"] \notin LatePcs
  BY <1>1, <1>2, ActivePlaces, CountNumbers DEF Active, ScanPcs
<1> QED
  BY <1>1, <1>2 DEF Flagged, LatePcs

LEMMA CountJob ==
  ASSUME TypeInv, ScanQueue, ScanCount, JobThread
  PROVE  ScanCount'
\* Steps that change nothing but the job's place.
<1>1. ASSUME NEW from, NEW to, Go("job", from, to), Kept, Same,
             /\ to \notin {"off", "loop"} /\ from \in {"off", "loop"} => ptc.loop_cntr # 0
             /\ to \in BeforePcs =>
                  from \in BeforePcs \/ (from = "fin" /\ (ptc.resend_flag \/ ptc.loop_cntr <= 0))
             /\ to = "next" => from = "replay" /\ ~ptc.resend_flag
             /\ to \in AfterPcs =>
                  from \in AfterPcs \/ (from = "replay" /\ ptc.resend_flag) \/ ptc.locs = 0
             /\ to = "load" => ~ptc.resend_flag
             /\ to # "store"
      PROVE  ScanCount'
  <2>1. /\ Ahead' = Ahead /\ (Active' <=> Active)
        /\ ptc'.loop_cntr = ptc.loop_cntr /\ ptc'.resend_flag = ptc.resend_flag
        /\ foreign' = foreign
    BY <1>1, KeptCounts, CountsKeep DEF Kept, Same
  <2>2. Flagged' <=> Flagged
    BY <1>1, <2>1, JobFacts DEF Flagged
  <2>3. SUFFICES ASSUME Active
                 PROVE  ScanCount'
    BY <2>1 DEF ScanCount
  <2>4. ptc.locs # 0
    BY <2>3 DEF Active
  <2>5. Flagged => ptc.resend_flag
    BY DEF Flagged
  <2>6. from = "replay" => (Flagged <=> ptc.resend_flag)
    BY <1>1, <2>3, JobFacts
  <2>7. from = "fin" => ptc.loop_cntr > 0
    BY <1>1, <2>3, JobFacts DEF ScanCount
  <2>8. pc["job"] = from /\ pc'["job"] = to /\ pc'["rpc"] = pc["rpc"]
    BY <1>1, JobFacts
  <2>9. /\ ptc.loop_cntr >= 0
        /\ to \notin {"off", "loop"} => ptc.loop_cntr > 0
    BY <1>1, <2>3, <2>8, CountNumbers DEF ScanCount
  <2>10. to \in BeforePcs => Ahead <= 0 \/ ptc.resend_flag
    BY <1>1, <2>3, <2>7, <2>8, CountNumbers DEF ScanCount
  <2>11. to = "next" => Ahead <= 0
    BY <1>1, <2>3, <2>8 DEF ScanCount, BeforePcs
  <2>12. Flagged \/ to \in AfterPcs => Ahead + foreign >= 1
    BY <1>1, <2>3, <2>4, <2>6, <2>8 DEF ScanCount
  <2>13. Flagged /\ to \in {"load", "store"} => Ahead + foreign >= 2
    BY <1>1, <2>5
  <2> QED
    BY <1>1, <2>1, <2>2, <2>3, <2>8, <2>9, <2>10, <2>11, <2>12, <2>13 DEF ScanCount
<1>2. CASE JobTurn \/ JobImages \/ JobFiles \/ JobAllowed
  <2>1. CASE JobTurn
    BY <1>1, <2>1, TestKept DEF JobTurn, BeforePcs, AfterPcs, CallPcs
  <2>2. CASE JobImages
    BY <1>1, <2>2, TestKept DEF JobImages, BeforePcs, AfterPcs, CallPcs
  <2>3. CASE JobFiles
    BY <1>1, <2>3, TestKept DEF JobFiles, BeforePcs, AfterPcs, CallPcs
  <2>4. CASE JobAllowed
    BY <1>1, <2>4, TestKept DEF JobAllowed, BeforePcs, AfterPcs, CallPcs
  <2> QED
    BY <1>2, <2>1, <2>2, <2>3, <2>4
<1>3. CASE JobLoop
  BY <1>1, <1>3, TestKept DEF JobLoop, BeforePcs, AfterPcs, CallPcs
<1>4. CASE JobReplay
  <2>1. CASE Test("job", "replay", "next") /\ ~ptc.resend_flag
    BY <1>1, <2>1, TestKept DEF BeforePcs, AfterPcs, CallPcs
  <2>2. CASE Enter("job", "replay", "wait", "resent") /\ ptc.resend_flag
    BY <1>1, <2>2, EnterKept DEF BeforePcs, AfterPcs, CallPcs
  <2> QED
    BY <1>4, <2>1, <2>2 DEF JobReplay
<1>5. CASE JobNext
  <2>1. CASE Test("job", "next", "fin") /\ ptc.locs = 0
    BY <1>1, <2>1, TestKept DEF BeforePcs, AfterPcs, CallPcs
  <2>2. CASE /\ Step("job", "next", "turned")
             /\ visits' = (IF visits <= total THEN visits + 1 ELSE visits)
             /\ UNCHANGED <<ptc, tmp, total, foreign>>
    <3>1. Go("job", "next", "turned") /\ starts' = starts
      BY <2>2 DEF Step, controllers
    <3>2. (Active' <=> Active) /\ (Flagged' <=> Flagged)
      BY <2>2, <3>1, JobFacts DEF Active, Flagged
    <3>3. SUFFICES ASSUME Active
                   PROVE  ScanCount'
      BY <3>2 DEF ScanCount
    <3>4. Ahead <= 0 /\ Ahead + foreign >= 0 /\ ptc.loop_cntr > 0
      BY <3>1, <3>3, JobFacts DEF ScanCount
    <3>5. visits <= total
      BY <3>4, CountNumbers DEF Ahead
    <3>6. Ahead' = Ahead + 1
      BY <2>2, <3>5, CountNumbers DEF Ahead
    <3>7. pc'["job"] = "turned" /\ pc'["rpc"] \notin LatePcs
      BY <3>1, <3>3, JobFacts
    <3> QED
      BY <2>2, <3>4, <3>6, <3>7, CountNumbers
         DEF ScanCount, BeforePcs, AfterPcs
  <2> QED
    BY <1>5, <2>1, <2>2 DEF JobNext
<1>6. CASE JobTurned
  <2>1. CASE Test("job", "turned", "fin")
    BY <1>1, <2>1, TestKept DEF BeforePcs, AfterPcs, CallPcs
  <2>2. CASE Enter("job", "turned", "wait", "fin")
    BY <1>1, <2>2, EnterKept DEF BeforePcs, AfterPcs, CallPcs
  <2> QED
    BY <1>6, <2>1, <2>2 DEF JobTurned
<1>7. CASE JobResent
  <2>1. /\ Go("job", "resent", "fin") /\ Counts /\ foreign' = foreign
        /\ ptc'.resend_flag = FALSE
    BY <1>7 DEF JobResent, Set, Step, Counts, TypeInv, SharedType, controllers,
                history, count
  <2>2. Ahead' = Ahead /\ (Active' <=> Active) /\ ptc'.loop_cntr = ptc.loop_cntr
    BY <2>1, CountsKeep DEF Counts
  <2>3. ~Flagged'
    BY <2>1 DEF Flagged
  <2> QED
    BY <2>1, <2>2, <2>3, JobFacts DEF ScanCount, BeforePcs, AfterPcs
<1>8. CASE JobFin
  <2>1. Kept /\ Same /\ (Go("job", "fin", "load") \/ Go("job", "fin", "off"))
    BY <1>8, TestKept DEF JobFin
  <2>2. CASE ptc.loop_cntr > 0 /\ ~ptc.resend_flag
    <3>1. Go("job", "fin", "load")
      BY <1>8, <2>2, TestKept DEF JobFin
    <3> QED
      BY <1>1, <2>1, <2>2, <3>1 DEF BeforePcs, AfterPcs, CallPcs
  <2>3. CASE ~(ptc.loop_cntr > 0 /\ ~ptc.resend_flag)
    <3>1. Go("job", "fin", "off")
      BY <1>8, <2>3, TestKept DEF JobFin
    <3> QED
      BY <1>1, <2>1, <2>3, <3>1, CountNumbers DEF BeforePcs, AfterPcs, CallPcs
  <2> QED
    BY <2>2, <2>3
<1>9. CASE JobLoad
  <2>1. /\ Go("job", "load", "store") /\ tmp' = ptc.loop_cntr
        /\ UNCHANGED <<starts, ptc, total, visits, foreign>>
    BY <1>9 DEF JobLoad, Step, controllers, history, count
  <2>2. Ahead' = Ahead /\ (Active' <=> Active) /\ (Flagged' <=> Flagged)
    BY <2>1, JobFacts DEF Ahead, Active, Flagged
  <2> QED
    BY <2>1, <2>2, JobFacts DEF ScanCount, BeforePcs, AfterPcs
<1>10. CASE JobStore
  <2>1. /\ Go("job", "store", "off") /\ UNCHANGED <<starts, total, visits, foreign>>
        /\ ptc' = [ptc EXCEPT !["loop_cntr"] = tmp - 1]
    BY <1>10 DEF JobStore, Set, Step, controllers, history, count
  <2>2. /\ ptc'.loop_cntr = tmp - 1 /\ ptc'.resend_flag = ptc.resend_flag
        /\ ptc'.locs = ptc.locs
    BY <2>1 DEF TypeInv, SharedType
  <2>3. (Active' <=> Active) /\ (Flagged' <=> Flagged)
    BY <2>1, <2>2, JobFacts DEF Active, Flagged
  <2>4. SUFFICES ASSUME Active
                 PROVE  ScanCount'
    BY <2>3 DEF ScanCount
  <2>5. tmp = ptc.loop_cntr /\ ptc.loop_cntr > 0 /\ Ahead <= 1
    BY <2>1, <2>4, JobFacts DEF ScanCount
  <2>6. Ahead' = Ahead - 1
    BY <2>1, <2>2, <2>5, CountNumbers DEF Ahead
  <2>7. Ahead + foreign >= 1 /\ (Flagged => Ahead + foreign >= 2)
    BY <2>1, <2>4, JobFacts DEF ScanCount, AfterPcs
  <2>8. pc'["job"] = "off" /\ pc'["rpc"] \notin LatePcs
    BY <2>1, <2>4, JobFacts
  <2> QED
    BY <2>1, <2>2, <2>3, <2>5, <2>6, <2>7, <2>8, CountNumbers
       DEF ScanCount, BeforePcs, AfterPcs, CallPcs
<1>11. CASE SendToCamera("job")
  <2>1. PICK from \in CallPcs, to \in CallPcs \union Rets("job") :
          Go("job", from, to) /\ Kept /\ (Same \/ Flags("job"))
    BY <1>11, SendMoves DEF Moves, Threads
  <2>2. from \in AfterPcs /\ from # "store" /\ to \in AfterPcs \ {"load", "store"}
    BY DEF CallPcs, AfterPcs, Rets
  <2>3. to \notin BeforePcs /\ to # "next" /\ from \notin {"off", "loop"}
    BY DEF CallPcs, BeforePcs, Rets
  <2>4. CASE Same
    BY <1>1, <2>1, <2>2, <2>3, <2>4
  <2>5. CASE Flags("job")
    <3>1. Ahead' = Ahead /\ (Active' <=> Active) /\ ptc'.loop_cntr = ptc.loop_cntr
      BY <2>1, KeptCounts, CountsKeep DEF Kept
    <3>2. foreign' = foreign
      BY <2>5, CountNumbers DEF Flags
    <3> QED
      BY <2>1, <2>2, <2>3, <3>1, <3>2, JobFacts, CountNumbers DEF ScanCount
  <2> QED
    BY <2>1, <2>4, <2>5
<1> QED
  BY <1>2, <1>3, <1>4, <1>5, <1>6, <1>7, <1>8, <1>9, <1>10, <1>11 DEF JobThread

LEMMA CountStep ==
  ASSUME TypeInv, ScanQueue, ScanCount, [Next]_vars
  PROVE  ScanCount'
<1>1. CASE CamHandle \/ Image \/ UNCHANGED vars
  <2>1. UNCHANGED <<starts, ptc, pc, tmp, total, visits, foreign>>
    BY <1>1 DEF CamHandle, Image, vars, controllers, history, count
  <2> QED
    BY <2>1 DEF ScanCount, Active, Ahead, Flagged
<1>2. ASSUME NEW c \in Commands, Call(c)
      PROVE  ScanCount'
  <2>1. /\ UNCHANGED <<ptc, pc, tmp, total, visits, foreign>>
        /\ starts' = starts + (IF StartsScan(c) THEN 1 ELSE 0)
    BY <1>2 DEF Call, history, count
  <2>2. starts' <= 1 => starts <= 1
    BY <2>1, CountNumbers
  <2> QED
    BY <2>1, <2>2 DEF ScanCount, Active, Ahead, Flagged
<1> QED
  BY <1>1, <1>2, CountRpc, CountJob DEF Next, Environment

(* Every position of a finite scan is counted once, but that each restart by  *)
(* rpc may cost one: for any commands, faults and scans of any length.        *)
THEOREM PositionsCounted == Spec => []PositionsKept
<1> DEFINE Inv == TypeInv /\ ScanQueue /\ ScanCount
<1>1. Init => Inv
  <2>1. Init => ScanQueue /\ ScanCount
    BY DEF Init, ScanQueue, ScanCount, Active, ScanPcs, LatePcs
  <2> QED
    BY <2>1, TypeInit
<1>2. Inv /\ [Next]_vars => Inv'
  BY TypeStep, QueueStep, CountStep
<1>3. Inv => PositionsKept
  <2>1. Inv /\ Active => Ahead \in (-foreign)..1
    BY CountNumbers DEF ScanCount
  <2> QED
    BY <2>1 DEF PositionsKept, Active, Ahead
<1> QED
  BY <1>1, <1>2, <1>3, PTL DEF Spec

-----------------------------------------------------------------------------
(* No position is counted whose order came to nothing.                        *)

\* What is known of the order while the job tries to have it carried out: before
\* the call, until the call or its restart failed, and after.
BeginPcs == {"wait", "hold", "call"}
TriedPcs == {"answer", "rcFlag", "rcStop", "rcStart", "rcResend"}
EndedPcs == {"rcReady", "stFlag", "stCall", "stAnswer", "stReady", "sent"}
Settled  == order \in {"again", "answered", "failed", "raised"}
Covered  == Settled \/ (order = "sent" /\ ptc.resend_flag)

Placed ==
  /\ pc["job"] \in BeforePcs /\ ptc.resend_flag => order # "none"
  /\ pc["job"] = "turned" => order = "none"
  /\ pc["job"] \in BeginPcs => IF ret["job"] = "fin" THEN order = "none" ELSE Covered
  /\ pc["job"] \in TriedPcs => IF ret["job"] = "fin" THEN order = "sent" ELSE Settled
  /\ pc["job"] \in EndedPcs => IF ret["job"] = "fin" THEN Covered ELSE Settled
  /\ pc["job"] \in {"raised", "fin"} => Covered
  /\ pc["job"] \in {"resent", "load", "store"} => Settled

\* A scan without positions is one without images, and starts with nothing to
\* order again.
ScanBegin == starts <= 1 =>
  /\ pc["rpc"] \in {"images", "test"} => ptc.loop_cntr = command.capture * command.pt_locs
  /\ pc["rpc"] = "one" => ptc.noimage
  /\ pc["rpc"] = "positions" => ptc.noimage \/ command.pt_locs > 0
  /\ pc["rpc"] \in LatePcs \/ ptc.scheduled \/ pc["job"] # "off"
       => ptc.noimage \/ ptc.locs > 0
  /\ pc["rpc"] = "schedule" => ~ptc.resend_flag

OrderInv ==
  starts <= 1 /\ pc["rpc"] \notin ScanPcs /\ ~ptc.noimage /\ foreign = 0 => Placed

\* The fields of ptc that a call does not touch.
LEMMA FieldsKept ==
  ASSUME TypeInv, NEW field \in Fields, NEW value, ptc' = [ptc EXCEPT ![field] = value]
  PROVE  /\ ptc'.locs = ptc.locs /\ ptc'[field] = value
         /\ \A g \in Fields \ {field} : ptc'[g] = ptc[g]
  BY DEF TypeInv, SharedType, Fields

LEMMA SendRest ==
  ASSUME TypeInv, NEW t \in Threads, SendToCamera(t)
  PROVE  /\ ret' = ret /\ ptc'.noimage = ptc.noimage
         /\ t = "rpc" => order' = order
<1>1. ASSUME NEW from, NEW to, NEW value, Set(t, from, to, "ready_flag", value)
      PROVE  ret' = ret /\ ptc'.noimage = ptc.noimage /\ order' = order
  BY <1>1, FieldsKept DEF Set, Step, history, Fields
<1>2. CASE RestartCamera(t)
  <2>1. CASE RcFlag(t) \/ RcReady(t)
    BY <1>1, <2>1 DEF RcFlag, RcReady
  <2>2. CASE RcStop(t) \/ RcStart(t) \/ RcFails(t)
    BY <2>2 DEF RcStop, RcStart, RcFails, Step, history
  <2>3. CASE RcResend(t)
    BY <2>3 DEF RcResend, Step, TypeInv, SharedType
  <2> QED
    BY <1>2, <2>1, <2>2, <2>3 DEF RestartCamera
<1>3. CASE Status(t)
  <2>1. CASE StFlag(t) \/ StReady(t)
    BY <1>1, <2>1 DEF StFlag, StReady
  <2>2. CASE StCall(t) \/ StAnswer(t)
    BY <2>2 DEF StCall, StAnswer, Send, Await
  <2>3. CASE StRaises(t)
    BY <2>3 DEF StRaises, Test, Step, history
  <2> QED
    BY <1>3, <2>1, <2>2, <2>3 DEF Status
<1>4. CASE SendHold(t) \/ SendDone(t) \/ SendReturnsFalse(t)
  BY <1>1, <1>4 DEF SendHold, SendDone, SendReturnsFalse
<1>5. CASE SendWait(t)
  BY <1>5 DEF SendWait, Test, Step, history
<1>6. CASE SendCall(t) \/ SendAnswer(t) \/ SendRaises(t)
  BY <1>6 DEF SendCall, SendAnswer, SendRaises, Send, Await, Step
<1> QED
  BY <1>2, <1>3, <1>4, <1>5, <1>6 DEF SendToCamera

\* A call of the job: each of its steps keeps what is known of the order.
LEMMA SendPlaced ==
  ASSUME TypeInv, Placed, SendToCamera("job")
  PROVE  Placed'
<1>0. /\ ret' = ret /\ ret["job"] \in {"fin", "resent"}
      /\ order \in {"none", "sent", "again", "answered", "failed", "raised"}
  BY SendRest DEF Threads, TypeInv, RetType, Rets, OrderType
<1>1. ASSUME NEW from, NEW to, Go("job", from, to)
      PROVE  pc["job"] = from /\ pc'["job"] = to
  BY <1>1 DEF Go, TypeInv, PcType, Threads
\* Steps that change neither the order nor resend_flag.
<1>2. ASSUME NEW from, NEW to, Go("job", from, to), order' = order,
             ptc'.resend_flag = ptc.resend_flag,
             \/ from \in BeginPcs /\ to \in BeginPcs
             \/ from \in TriedPcs /\ to \in TriedPcs
             \/ from \in EndedPcs /\ to \in EndedPcs \union {ret["job"]}
      PROVE  Placed'
  BY <1>0, <1>1, <1>2
  DEF Placed, Settled, Covered, BeforePcs, BeginPcs, TriedPcs, EndedPcs
<1>3. ASSUME NEW from, NEW to, NEW value, Set("job", from, to, "ready_flag", value)
      PROVE  /\ Go("job", from, to) /\ order' = order
             /\ ptc'.resend_flag = ptc.resend_flag
  BY <1>3, FieldsKept DEF Set, Step, history, Fields
<1>4. CASE SendWait("job")
  <2>1. Go("job", "wait", "hold") /\ order' = order /\ ptc' = ptc
    BY <1>4 DEF SendWait, Test, Step, history
  <2> QED
    BY <1>2, <2>1 DEF BeginPcs
<1>5. CASE SendHold("job")
  BY <1>2, <1>3, <1>5 DEF SendHold, BeginPcs
<1>6. CASE SendCall("job")
  <2>1. /\ Go("job", "call", "answer")
        /\ order' = CASE order = "none" -> "sent"
                      [] order = "sent" -> "again"
                      [] OTHER -> order
    BY <1>6 DEF SendCall, Send
  <2> QED
    BY <1>0, <1>1, <2>1
    DEF Placed, Settled, Covered, BeforePcs, BeginPcs, TriedPcs, EndedPcs
<1>7. CASE SendAnswer("job")
  <2>1. \/ Go("job", "answer", "stFlag") /\ order' = "answered"
        \/ Go("job", "answer", "rcFlag") /\ order' = order
    BY <1>7 DEF SendAnswer, Await
  <2>2. ptc' = ptc
    BY <1>7 DEF SendAnswer, Await
  <2>3. CASE Go("job", "answer", "stFlag") /\ order' = "answered"
    BY <1>0, <1>1, <2>3
    DEF Placed, Settled, Covered, BeforePcs, BeginPcs, TriedPcs, EndedPcs
  <2> QED
    BY <1>2, <2>1, <2>2, <2>3 DEF TriedPcs
<1>8. CASE RestartCamera("job")
  <2>1. CASE RcFlag("job")
    BY <1>2, <1>3, <2>1 DEF RcFlag, TriedPcs
  <2>2. CASE RcStop("job") \/ RcStart("job")
    <3>1. /\ Go("job", "rcStop", "rcStart") \/ Go("job", "rcStart", "rcResend")
          /\ order' = order /\ ptc' = ptc
      BY <2>2 DEF RcStop, RcStart, history
    <3> QED
      BY <1>2, <3>1 DEF TriedPcs
  <2>3. CASE RcResend("job")
    <3>1. Go("job", "rcResend", "rcReady") /\ order' = order /\ ptc'.resend_flag = TRUE
      BY <2>3 DEF RcResend, Step, TypeInv, SharedType
    <3> QED
      BY <1>0, <1>1, <3>1
      DEF Placed, Settled, Covered, BeforePcs, BeginPcs, TriedPcs, EndedPcs
  <2>4. CASE RcFails("job")
    <3>1. /\ Go("job", "rcStop", "rcReady") \/ Go("job", "rcStart", "rcReady")
          /\ order' = "failed"
      BY <2>4 DEF RcFails, Step
    <3> QED
      BY <1>0, <1>1, <3>1
      DEF Placed, Settled, Covered, BeforePcs, BeginPcs, TriedPcs, EndedPcs
  <2>5. CASE RcReady("job")
    BY <1>2, <1>3, <2>5 DEF RcReady, EndedPcs
  <2> QED
    BY <1>8, <2>1, <2>2, <2>3, <2>4, <2>5 DEF RestartCamera
<1>9. CASE Status("job")
  <2>1. CASE StFlag("job")
    BY <1>2, <1>3, <2>1 DEF StFlag, EndedPcs
  <2>2. CASE StCall("job") \/ StAnswer("job")
    <3>1. /\ Go("job", "stCall", "stAnswer") \/ Go("job", "stAnswer", "stReady")
          /\ order' = order /\ ptc' = ptc
      BY <2>2 DEF StCall, StAnswer, Send, Await
    <3> QED
      BY <1>2, <3>1 DEF EndedPcs
  <2>3. CASE StReady("job")
    <3>1. Set("job", "stReady", "sent", "ready_flag", TRUE)
      BY <1>0, <2>3 DEF StReady
    <3> QED
      BY <1>2, <1>3, <3>1 DEF EndedPcs
  <2>4. CASE StRaises("job")
    <3>1. Go("job", "stCall", "stReady") /\ order' = order /\ ptc' = ptc
      BY <2>4 DEF StRaises, Test, Step, history
    <3> QED
      BY <1>2, <3>1 DEF EndedPcs
  <2> QED
    BY <1>9, <2>1, <2>2, <2>3, <2>4 DEF Status
<1>10. CASE SendDone("job")
  BY <1>2, <1>3, <1>10 DEF SendDone, EndedPcs
<1>11. CASE SendRaises("job")
  <2>1. /\ Go("job", "call", "raised") /\ ptc' = ptc
        /\ order' = IF order = "none" THEN "raised" ELSE order
    BY <1>11 DEF SendRaises, Step
  <2> QED
    BY <1>0, <1>1, <2>1
    DEF Placed, Settled, Covered, BeforePcs, BeginPcs, TriedPcs, EndedPcs
<1>12. CASE SendReturnsFalse("job")
  <2>1. Set("job", "raised", "fin", "ready_flag", TRUE)
    BY <1>0, <1>12 DEF SendReturnsFalse
  <2>2. Go("job", "raised", "fin") /\ order' = order /\ ptc'.resend_flag = ptc.resend_flag
    BY <1>3, <2>1
  <2> QED
    BY <1>0, <1>1, <2>2
    DEF Placed, Settled, Covered, BeforePcs, BeginPcs, TriedPcs, EndedPcs
<1> QED
  BY <1>4, <1>5, <1>6, <1>7, <1>8, <1>9, <1>10, <1>11, <1>12 DEF SendToCamera

\* A step of the job: there is a schedule or a turn of it in progress, and it
\* leaves alone what the scan's start has set.
Untouched ==
  /\ UNCHANGED <<controllers, foreign>>
  /\ ptc'.noimage = ptc.noimage /\ ptc'.locs = ptc.locs
  /\ ptc'.scheduled = ptc.scheduled

JobForm ==
  /\ Untouched
  /\ \E from, to : Go("job", from, to) /\ (ptc.scheduled \/ from # "off")

LEMMA JobForms ==
  ASSUME TypeInv, JobThread
  PROVE  JobForm
<1>1. ASSUME NEW from, NEW to, Test("job", from, to), ptc.scheduled \/ from # "off"
      PROVE  JobForm
  BY <1>1 DEF Test, Step, Untouched, history, count, JobForm
<1>2. ASSUME NEW from, NEW to, NEW return, Enter("job", from, to, return), from # "off"
      PROVE  JobForm
  BY <1>2 DEF Enter, Untouched, history, count, JobForm
<1>3. ASSUME NEW from, NEW to, NEW field \in {"loop_cntr", "resend_flag"}, NEW value,
             Set("job", from, to, field, value), from # "off"
      PROVE  JobForm
  <2>1. ptc'.noimage = ptc.noimage /\ ptc'.locs = ptc.locs /\ ptc'.scheduled = ptc.scheduled
    BY <1>3, FieldsKept DEF Set, Fields
  <2> QED
    BY <1>3, <2>1 DEF Set, Step, Untouched, history, count, JobForm
<1>4. CASE JobTurn \/ JobLoop \/ JobImages \/ JobFiles \/ JobAllowed \/ JobFin
  BY <1>1, <1>4 DEF JobTurn, JobLoop, JobImages, JobFiles, JobAllowed, JobFin
<1>5. CASE JobReplay \/ JobTurned
  BY <1>1, <1>2, <1>5 DEF JobReplay, JobTurned
<1>6. CASE JobNext
  <2>1. CASE Step("job", "next", "turned") /\ UNCHANGED <<ptc, foreign>>
    BY <2>1 DEF Step, Untouched, JobForm
  <2> QED
    BY <1>1, <1>6, <2>1 DEF JobNext
<1>7. CASE JobLoad
  BY <1>7 DEF JobLoad, Step, Untouched, history, count, JobForm
<1>8. CASE JobResent \/ JobStore
  BY <1>3, <1>8 DEF JobResent, JobStore
<1>9. CASE SendToCamera("job")
  <2>1. PICK from \in CallPcs, to \in CallPcs \union Rets("job") :
          Go("job", from, to) /\ Kept /\ (Same \/ Flags("job"))
    BY <1>9, SendMoves DEF Moves, Threads
  <2>2. from # "off"
    BY DEF CallPcs
  <2>3. foreign' = foreign
    BY <2>1, CountNumbers DEF Same, Flags
  <2>4. Untouched
    BY <1>9, <2>1, <2>3, SendRest DEF Kept, Untouched, Threads
  <2> QED
    BY <2>1, <2>2, <2>4 DEF JobForm
<1> QED
  BY <1>4, <1>5, <1>6, <1>7, <1>8, <1>9 DEF JobThread

LEMMA JobKeeps ==
  ASSUME TypeInv, ScanQueue, JobThread
  PROVE  /\ Untouched /\ pc'["rpc"] = pc["rpc"]
         /\ ptc.scheduled \/ pc["job"] # "off"
         /\ starts <= 1 => pc["rpc"] \notin ScanPcs
<1>1. PICK from, to : Go("job", from, to) /\ (ptc.scheduled \/ from # "off")
  BY JobForms DEF JobForm
<1>2. /\ pc["job"] = from /\ pc'["job"] = to /\ pc'["rpc"] = pc["rpc"]
  BY <1>1, JobFacts
<1>3. starts <= 1 => pc["rpc"] \notin ScanPcs
  BY <1>1, <1>2, HeadScan, CountNumbers
<1> QED
  BY <1>1, <1>2, <1>3, JobForms DEF JobForm

LEMMA BeginJob ==
  ASSUME TypeInv, ScanQueue, ScanBegin, JobThread
  PROVE  ScanBegin'
<1>1. starts' = starts
  BY JobKeeps DEF Untouched, controllers
<1> QED
  BY <1>1, JobKeeps DEF ScanBegin, ScanPcs, LatePcs, Untouched

\* rpc moves, and not into a scan's start.
LEMMA BeginMove ==
  ASSUME TypeInv, ScanQueue, ScanBegin, NEW from, NEW to, Go("rpc", from, to),
         to \notin ScanPcs \/ to = "count", starts' = starts,
         ptc'.noimage = ptc.noimage, ptc'.locs = ptc.locs,
         ptc'.scheduled => ptc.scheduled \/ from \in LatePcs
  PROVE  ScanBegin'
<1>1. pc["rpc"] = from /\ pc'["rpc"] = to /\ pc'["job"] = pc["job"]
  BY DEF TypeInv, PcType, Go, Threads
<1> QED
  BY <1>1 DEF ScanBegin, ScanPcs, LatePcs

LEMMA BeginScan ==
  ASSUME TypeInv, ScanQueue, ScanBegin,
         \/ Count \/ Images \/ TestCount \/ NoImage \/ One
         \/ StPositions \/ StSetReady \/ StNoResend \/ StSchedule
  PROVE  ScanBegin'
<1>0. command.pt_locs \in Nat /\ command.capture \in Int
  <2>1. inbox # <<>> /\ inbox \in Seq(Requests)
    BY DEF TypeInv, InboxType, Holding, Count, Images, TestCount, NoImage, One,
           StPositions, StSetReady, StNoResend, StSchedule, Set, Test, Step, Go
  <2>2. Head(inbox) \in Requests
    BY <2>1
  <2>3. command \in CommandType
    BY <2>2, PtAssumption DEF command, Requests
  <2> QED
    BY <2>3 DEF CommandType
<1>1. UNCHANGED <<inbox, starts>> /\ command' = command
  BY DEF Count, Images, TestCount, NoImage, One, StPositions, StSetReady, StNoResend,
         StSchedule, Set, Test, Step, controllers, command
<1>2. SUFFICES ASSUME starts <= 1
               PROVE  ScanBegin'
  BY <1>1 DEF ScanBegin
<1>3. pc["rpc"] \in ScanPcs => ~ptc.scheduled /\ pc["job"] = "off"
  BY <1>2, HeadScan, CountNumbers
<1>4. ASSUME NEW from, NEW to, Go("rpc", from, to)
      PROVE  /\ pc["rpc"] = from /\ pc'["rpc"] = to /\ pc'["job"] = pc["job"]
  BY <1>4 DEF TypeInv, PcType, Go, Threads
<1>5. ASSUME NEW from, NEW to, NEW field \in Fields, NEW value,
             Set("rpc", from, to, field, value)
      PROVE  /\ pc["rpc"] = from /\ pc'["rpc"] = to /\ pc'["job"] = pc["job"]
             /\ ptc'.locs = ptc.locs /\ ptc'[field] = value
             /\ field # "loop_cntr" => ptc'.loop_cntr = ptc.loop_cntr
             /\ field # "noimage" => ptc'.noimage = ptc.noimage
             /\ field # "resend_flag" => ptc'.resend_flag = ptc.resend_flag
             /\ field # "scheduled" => ptc'.scheduled = ptc.scheduled
  BY <1>4, <1>5, FieldsKept DEF Set, Step, Fields
<1>6. CASE Count
  <2> DEFINE n == command.capture * command.pt_locs
  <2>0. Set("rpc", "count", "images", "loop_cntr", n)
    BY <1>6 DEF Count
  <2> HIDE DEF n
  <2>1. /\ pc["rpc"] = "count" /\ pc'["rpc"] = "images" /\ pc'["job"] = pc["job"]
        /\ ptc'.loop_cntr = n /\ ptc'.scheduled = ptc.scheduled
    BY <1>5, <2>0 DEF Fields
  <2> USE DEF n
  <2> QED
    BY <1>1, <1>2, <1>3, <2>1 DEF ScanBegin, ScanPcs, LatePcs
<1>7. CASE Images
  <2>1. /\ pc["rpc"] = "images" /\ pc'["rpc"] = "test" /\ pc'["job"] = pc["job"]
        /\ ptc'.loop_cntr = ptc.loop_cntr /\ ptc'.scheduled = ptc.scheduled
    BY <1>5, <1>7 DEF Images, Fields
  <2> QED
    BY <1>1, <1>2, <1>3, <2>1 DEF ScanBegin, ScanPcs, LatePcs
<1>8. CASE TestCount
  <2>1. /\ pc["rpc"] = "test" /\ pc'["job"] = pc["job"] /\ ptc' = ptc
        /\ pc'["rpc"] = IF ptc.loop_cntr = 0 THEN "none" ELSE "positions"
    BY <1>4, <1>8 DEF TestCount, Test, Step
  <2>2. ptc.loop_cntr = command.capture * command.pt_locs
    BY <1>2, <2>1 DEF ScanBegin
  <2>3. command.pt_locs = 0 => ptc.loop_cntr = 0
    BY <1>0, <2>2
  <2> QED
    BY <1>0, <1>1, <1>3, <2>1, <2>3 DEF ScanBegin, ScanPcs, LatePcs
<1>9. CASE NoImage
  <2>1. /\ pc["rpc"] = "none" /\ pc'["rpc"] = "one" /\ pc'["job"] = pc["job"]
        /\ ptc'.noimage /\ ptc'.scheduled = ptc.scheduled
    BY <1>5, <1>9 DEF NoImage, Fields
  <2> QED
    BY <1>1, <1>2, <1>3, <2>1 DEF ScanBegin, ScanPcs, LatePcs
<1>10. CASE One
  <2>1. /\ pc["rpc"] = "one" /\ pc'["rpc"] = "positions" /\ pc'["job"] = pc["job"]
        /\ ptc'.noimage = ptc.noimage /\ ptc'.scheduled = ptc.scheduled
    BY <1>5, <1>10 DEF One, Fields
  <2> QED
    BY <1>1, <1>2, <1>3, <2>1 DEF ScanBegin, ScanPcs, LatePcs
<1>11. CASE StPositions
  <2>1. /\ pc["rpc"] = "positions" /\ pc'["rpc"] = "ready" /\ pc'["job"] = pc["job"]
        /\ ptc' = [ptc EXCEPT !.locs = command.pt_locs, !.old_ftime = 0]
    BY <1>4, <1>11 DEF StPositions, Step
  <2>2. ptc'.locs = command.pt_locs /\ ptc'.noimage = ptc.noimage
    BY <2>1 DEF TypeInv, SharedType
  <2> QED
    BY <1>2, <2>1, <2>2 DEF ScanBegin, LatePcs
<1>12. CASE StSetReady
  <2>1. /\ pc["rpc"] = "ready" /\ pc'["rpc"] = "resend" /\ pc'["job"] = pc["job"]
        /\ ptc'.noimage = ptc.noimage /\ ptc'.locs = ptc.locs
    BY <1>5, <1>12 DEF StSetReady, Fields
  <2> QED
    BY <1>1, <1>2, <1>3, <2>1 DEF ScanBegin, ScanPcs, LatePcs
<1>13. CASE StNoResend
  <2>1. /\ pc["rpc"] = "resend" /\ pc'["rpc"] = "schedule" /\ pc'["job"] = pc["job"]
        /\ ptc'.noimage = ptc.noimage /\ ptc'.locs = ptc.locs /\ ~ptc'.resend_flag
    BY <1>5, <1>13 DEF StNoResend, Fields
  <2> QED
    BY <1>1, <1>2, <1>3, <2>1 DEF ScanBegin, ScanPcs, LatePcs
<1>14. CASE StSchedule
  <2>1. /\ pc["rpc"] = "schedule" /\ pc'["rpc"] = "reply" /\ pc'["job"] = pc["job"]
        /\ ptc'.noimage = ptc.noimage /\ ptc'.locs = ptc.locs
    BY <1>5, <1>14 DEF StSchedule, Fields
  <2> QED
    BY <1>1, <1>2, <1>3, <2>1 DEF ScanBegin, ScanPcs, LatePcs
<1> QED
  BY <1>6, <1>7, <1>8, <1>9, <1>10, <1>11, <1>12, <1>13, <1>14

LEMMA BeginRpc ==
  ASSUME TypeInv, ScanQueue, ScanBegin, RpcThread
  PROVE  ScanBegin'
<1>1. CASE Receive
  BY <1>1, BeginMove DEF Receive, Enter, Test, Step, controllers, ScanPcs, LatePcs
<1>2. CASE Lens
  BY <1>2, BeginMove DEF Lens, Enter, Test, Step, controllers, ScanPcs, LatePcs
<1>3. CASE LensFails
  BY <1>3, BeginMove DEF LensFails, Test, Step, controllers, ScanPcs, LatePcs
<1>4. CASE Pause
  <2>1. ptc'.noimage = ptc.noimage /\ ptc'.locs = ptc.locs /\ ptc'.scheduled = FALSE
    BY <1>4, FieldsKept DEF Pause, Set, Fields
  <2>2. Go("rpc", "pause", "reply") /\ starts' = starts
    BY <1>4 DEF Pause, Set, Step, controllers
  <2> QED
    BY <2>1, <2>2, BeginMove DEF ScanPcs, LatePcs
<1>5. CASE Reply
  BY <1>5, BeginMove DEF Reply, ScanPcs, LatePcs
<1>6. CASE SendToCamera("rpc")
  <2>1. PICK from \in CallPcs, to \in CallPcs \union Rets("rpc") :
          Go("rpc", from, to) /\ Kept
    BY <1>6, SendMoves DEF Moves, Threads
  <2>2. to \notin ScanPcs
    BY DEF CallPcs, ScanPcs, LatePcs, Rets
  <2> QED
    BY <1>6, <2>1, <2>2, SendRest, BeginMove DEF Kept, controllers, Threads
<1> QED
  BY <1>1, <1>2, <1>3, <1>4, <1>5, <1>6, BeginScan DEF RpcThread

LEMMA OrderJob ==
  ASSUME TypeInv, ScanQueue, ScanBegin, OrderInv, JobThread
  PROVE  OrderInv'
<1>1. /\ starts' = starts /\ foreign' = foreign /\ ptc'.noimage = ptc.noimage
      /\ pc'["rpc"] = pc["rpc"] /\ (starts <= 1 => pc["rpc"] \notin ScanPcs)
      /\ ptc.scheduled \/ pc["job"] # "off"
  BY JobKeeps DEF Untouched, controllers
<1>2. SUFFICES ASSUME starts <= 1, ~ptc.noimage, Placed
               PROVE  Placed'
  BY <1>1 DEF OrderInv
<1>3. ptc.locs > 0
  BY <1>1, <1>2 DEF ScanBegin
<1>4. /\ ret["job"] \in {"fin", "resent"}
      /\ order \in {"none", "sent", "again", "answered", "failed", "raised"}
  BY DEF Threads, TypeInv, RetType, Rets, OrderType
<1>5. ASSUME NEW from, NEW to, Go("job", from, to)
      PROVE  pc["job"] = from /\ pc'["job"] = to
  BY <1>5 DEF Go, TypeInv, PcType, Threads
\* Steps that change neither the order nor resend_flag.
<1>6. ASSUME NEW from, NEW to, Test("job", from, to),
             \/ from \in BeforePcs /\ to \in BeforePcs \union {"next"}
             \/ from = "fin" /\ (to = "off" \/ (to = "load" /\ ~ptc.resend_flag))
      PROVE  Placed'
  <2>1. Go("job", from, to) /\ ret' = ret /\ order' = order /\ ptc' = ptc
    BY <1>6 DEF Test, Step, history
  <2> QED
    BY <1>2, <1>4, <1>5, <1>6, <2>1
    DEF Placed, Settled, Covered, BeforePcs, BeginPcs, TriedPcs, EndedPcs
<1>7. CASE JobTurn \/ JobLoop \/ JobImages \/ JobFiles \/ JobAllowed
  BY <1>6, <1>7 DEF JobTurn, JobLoop, JobImages, JobFiles, JobAllowed, BeforePcs
<1>8. CASE JobFin
  BY <1>6, <1>8 DEF JobFin
<1>9. CASE JobReplay
  <2>1. CASE Test("job", "replay", "next")
    BY <1>6, <2>1 DEF BeforePcs
  <2>2. CASE Enter("job", "replay", "wait", "resent") /\ ptc.resend_flag
    <3>1. /\ Go("job", "replay", "wait") /\ ret'["job"] = "resent"
          /\ order' = order /\ ptc' = ptc
      BY <2>2 DEF Enter, history, TypeInv, RetType, Threads
    <3> QED
      BY <1>2, <1>4, <1>5, <2>2, <3>1
      DEF Placed, Settled, Covered, BeforePcs, BeginPcs, TriedPcs, EndedPcs
  <2> QED
    BY <1>9, <2>1, <2>2 DEF JobReplay
<1>10. CASE JobNext
  <2>1. Go("job", "next", "turned") /\ order' = "none"
    BY <1>3, <1>10 DEF JobNext, Step
  <2> QED
    BY <1>5, <2>1
    DEF Placed, Settled, Covered, BeforePcs, BeginPcs, TriedPcs, EndedPcs
<1>11. CASE JobTurned
  <2>1. Enter("job", "turned", "wait", "fin")
    BY <1>2, <1>11 DEF JobTurned
  <2>2. Go("job", "turned", "wait") /\ ret'["job"] = "fin" /\ order' = order
    BY <2>1 DEF Enter, history, TypeInv, RetType, Threads
  <2> QED
    BY <1>2, <1>5, <2>2
    DEF Placed, Settled, Covered, BeforePcs, BeginPcs, TriedPcs, EndedPcs
<1>12. CASE JobResent
  <2>1. Go("job", "resent", "fin") /\ order' = order
    BY <1>12 DEF JobResent, Set, Step, history
  <2> QED
    BY <1>2, <1>5, <2>1
    DEF Placed, Settled, Covered, BeforePcs, BeginPcs, TriedPcs, EndedPcs
<1>13. CASE JobLoad \/ JobStore
  <2>1. /\ Go("job", "load", "store") \/ Go("job", "store", "off")
        /\ order' = order
    BY <1>13 DEF JobLoad, JobStore, Set, Step, history
  <2> QED
    BY <1>2, <1>5, <2>1
    DEF Placed, Settled, Covered, BeforePcs, BeginPcs, TriedPcs, EndedPcs
<1> QED
  BY <1>2, <1>7, <1>8, <1>9, <1>10, <1>11, <1>12, <1>13, SendPlaced DEF JobThread

LEMMA OrderRpc ==
  ASSUME TypeInv, ScanQueue, ScanBegin, OrderInv, RpcThread
  PROVE  OrderInv'
<1>1. ASSUME NEW from, NEW to, Go("rpc", from, to)
      PROVE  pc["rpc"] = from /\ pc'["rpc"] = to /\ pc'["job"] = pc["job"]
  BY <1>1 DEF Go, TypeInv, PcType, Threads
\* Steps that leave alone what Placed is about.
<1>2. ASSUME NEW from, NEW to, from \notin ScanPcs, Go("rpc", from, to),
             UNCHANGED <<starts, foreign, order>>, ptc'.noimage = ptc.noimage,
             ptc'.resend_flag = ptc.resend_flag, ret'["job"] = ret["job"]
      PROVE  OrderInv'
  <2>1. pc["rpc"] = from /\ pc'["job"] = pc["job"]
    BY <1>1, <1>2
  <2> QED
    BY <1>2, <2>1 DEF OrderInv, Placed, Settled, Covered
<1>3. ASSUME NEW from, NEW to \in ScanPcs, Go("rpc", from, to)
      PROVE  OrderInv'
  BY <1>1, <1>3 DEF OrderInv
<1>4. CASE Receive \/ Lens \/ LensFails
  <2>1. ASSUME NEW from, NEW to, from \notin ScanPcs, Test("rpc", from, to)
        PROVE  OrderInv'
    BY <1>2, <2>1 DEF Test, Step, controllers, history, count
  <2>2. ASSUME NEW from, NEW to, NEW return, from \notin ScanPcs,
               Enter("rpc", from, to, return)
        PROVE  OrderInv'
    BY <1>2, <2>2 DEF Enter, controllers, history, count, TypeInv, RetType, Threads
  <2> QED
    BY <1>4, <2>1, <2>2 DEF Receive, Lens, LensFails, ScanPcs, LatePcs
<1>5. CASE Pause
  <2>1. ptc'.noimage = ptc.noimage /\ ptc'.resend_flag = ptc.resend_flag
    BY <1>5, FieldsKept DEF Pause, Set, Fields
  <2>2. Go("rpc", "pause", "reply") /\ UNCHANGED <<starts, foreign, order, ret>>
    BY <1>5 DEF Pause, Set, Step, controllers, history, count
  <2> QED
    BY <1>2, <2>1, <2>2 DEF ScanPcs, LatePcs
<1>6. CASE Reply
  BY <1>2, <1>6 DEF Reply, ScanPcs, LatePcs, history, count
<1>7. CASE Count \/ Images \/ TestCount \/ NoImage \/ One
  BY <1>3, <1>7 DEF Count, Images, TestCount, NoImage, One, Set, Test, Step, ScanPcs, LatePcs
<1>8. CASE StPositions \/ StSetReady \/ StNoResend
  BY <1>3, <1>8 DEF StPositions, StSetReady, StNoResend, Set, Step, ScanPcs, LatePcs
<1>9. CASE StSchedule
  <2>1. /\ pc["rpc"] = "schedule" /\ pc'["rpc"] = "reply" /\ pc'["job"] = pc["job"]
        /\ starts' = starts
    BY <1>1, <1>9 DEF StSchedule, Set, Step, controllers
  <2>2. ptc'.resend_flag = ptc.resend_flag
    BY <1>9, FieldsKept DEF StSchedule, Set, Fields
  <2>3. starts <= 1 => pc["job"] = "off" /\ ~ptc.resend_flag
    BY <2>1, HeadScan, CountNumbers DEF ScanBegin, ScanPcs, LatePcs
  <2>4. starts <= 1 => Placed'
    BY <2>1, <2>2, <2>3 DEF Placed, BeginPcs, TriedPcs, EndedPcs
  <2> QED
    BY <2>1, <2>4 DEF OrderInv
<1>10. CASE SendToCamera("rpc")
  <2>1. PICK from \in CallPcs, to \in CallPcs \union Rets("rpc") :
          Go("rpc", from, to) /\ Kept /\ (Same \/ Flags("rpc"))
    BY <1>10, SendMoves DEF Moves, Threads
  <2>2. from \notin ScanPcs /\ starts' = starts
    BY <2>1 DEF CallPcs, ScanPcs, LatePcs, Kept, controllers
  <2>3. ret' = ret /\ ptc'.noimage = ptc.noimage /\ order' = order
    BY <1>10, SendRest DEF Threads
  <2>4. CASE Same
    BY <1>2, <2>1, <2>2, <2>3, <2>4 DEF Same
  <2>5. CASE Flags("rpc")
    BY <2>5, CountNumbers DEF Flags, OrderInv
  <2> QED
    BY <2>1, <2>4, <2>5
<1> QED
  BY <1>4, <1>5, <1>6, <1>7, <1>8, <1>9, <1>10 DEF RpcThread

LEMMA OrderStep ==
  ASSUME TypeInv, ScanQueue, ScanBegin, OrderInv, [Next]_vars
  PROVE  ScanBegin' /\ OrderInv'
<1>1. CASE CamHandle \/ Image \/ UNCHANGED vars
  <2>1. UNCHANGED <<starts, inbox, ptc, pc, ret, foreign, order>>
    BY <1>1 DEF CamHandle, Image, vars, controllers, history, count
  <2> QED
    BY <2>1 DEF ScanBegin, OrderInv, Placed, Settled, Covered, command
<1>2. ASSUME NEW c \in Commands, Call(c)
      PROVE  ScanBegin' /\ OrderInv'
  <2>1. /\ UNCHANGED <<ptc, pc, ret, foreign, order>>
        /\ starts' = starts + (IF StartsScan(c) THEN 1 ELSE 0)
    BY <1>2 DEF Call, history, count
  <2>2. starts' <= 1 => starts <= 1
    BY <2>1, CountNumbers
  <2>3. pc["rpc"] # "idle" => command' = command
    BY <1>2 DEF Call, TypeInv, Holding, InboxType, command
  <2> QED
    BY <2>1, <2>2, <2>3 DEF ScanBegin, OrderInv, Placed, Settled, Covered
<1>3. CASE RpcThread
  BY <1>3, BeginRpc, OrderRpc
<1>4. CASE JobThread
  BY <1>4, BeginJob, OrderJob
<1> QED
  BY <1>1, <1>2, <1>3, <1>4 DEF Next, Environment

(* While there is one scan, the job counts a position only when its order was *)
(* answered, repeated after the restart, or the restart failed, when the      *)
(* order's call raised, or when a restart by rpc may have used up the         *)
(* repetition.  For any commands, faults and scans, in every interleaving of  *)
(* job and rpc.                                                               *)
THEOREM OrdersSettle == Spec => []OrdersRepeated
<1> DEFINE Inv == TypeInv /\ ScanQueue /\ ScanBegin /\ OrderInv
<1>1. Init => Inv
  <2>1. Init => ScanQueue
    BY DEF Init, ScanQueue, ScanPcs, LatePcs
  <2>2. Init => ScanBegin /\ OrderInv
    BY DEF Init, ScanBegin, OrderInv, Placed, LatePcs, BeginPcs, TriedPcs, EndedPcs
  <2> QED
    BY <2>1, <2>2, TypeInit
<1>2. Inv /\ [Next]_vars => Inv'
  BY TypeStep, QueueStep, OrderStep
<1>3. Inv => OrdersRepeated
  <2> SUFFICES ASSUME Inv, pc["job"] = "store", starts <= 1, ~ptc.noimage, foreign <= 0
               PROVE  Settled
    BY CountNumbers DEF OrdersRepeated, Settled
  <2>1. foreign = 0
    BY CountNumbers
  <2>2. pc["rpc"] \notin ScanPcs
    BY HeadScan, CountNumbers
  <2> QED
    BY <2>1, <2>2 DEF OrderInv, Placed
<1> QED
  BY <1>1, <1>2, <1>3, PTL DEF Spec
-----------------------------------------------------------------------------
(* The two callers have what RpcCalls promises.                               *)

\* A queue with a request of u; one with at most one request of each caller.
From(q, u) == \E i \in DOMAIN q : q[i].from = u
Single(q)  == \A i, j \in DOMAIN q : i # j /\ q[i].from = q[j].from => q[i].from = "nobody"

\* A request in the queue is that of a caller who awaits its answer.
CallInv ==
  /\ Single(camq)
  /\ \A t \in Threads : From(camq, t) => Awaits(t) /\ ~resp[t]

calls == [t \in Threads |-> CallOf(t)]
CallStep == Calls!Next \/ UNCHANGED calls

\* append, pop from the head, the purge, and a caller that is gone.
LEMMA FromAppend ==
  ASSUME NEW q \in Seq(CamCalls), NEW r \in CamCalls
  PROVE  /\ \A u : From(Append(q, r), u) <=> From(q, u) \/ u = r.from
         /\ Single(q) /\ ~From(q, r.from) => Single(Append(q, r))
<1>1. /\ DOMAIN q = 1..Len(q) /\ DOMAIN Append(q, r) = 1..(Len(q) + 1) /\ Len(q) \in Nat
      /\ Append(q, r)[Len(q) + 1] = r
      /\ \A i \in 1..Len(q) : Append(q, r)[i] = q[i]
  OBVIOUS
<1> QED
  BY <1>1 DEF From, Single

LEMMA FromTail ==
  ASSUME NEW q \in Seq(CamCalls), q # <<>>
  PROVE  /\ \A u : From(q, u) <=> From(Tail(q), u) \/ u = Head(q).from
         /\ Single(q) => /\ Single(Tail(q))
                         /\ From(Tail(q), Head(q).from) => Head(q).from = "nobody"
<1>1. /\ DOMAIN q = 1..Len(q) /\ DOMAIN Tail(q) = 1..(Len(q) - 1) /\ Len(q) \in Nat \ {0}
      /\ Head(q) = q[1]
      /\ \A i \in 1..(Len(q) - 1) : Tail(q)[i] = q[i + 1]
  OBVIOUS
<1>2. \A i \in 1..Len(q) : i = 1 \/ i - 1 \in 1..(Len(q) - 1)
  BY <1>1
<1>3. \A i \in 1..(Len(q) - 1) : i + 1 \in 1..Len(q) /\ i + 1 # 1
  BY <1>1
<1>4. \A u : From(q, u) <=> From(Tail(q), u) \/ u = Head(q).from
  <2> SUFFICES ASSUME NEW u
               PROVE  From(q, u) <=> From(Tail(q), u) \/ u = Head(q).from
    OBVIOUS
  <2>1. ASSUME NEW i \in 1..Len(q), q[i].from = u
        PROVE  From(Tail(q), u) \/ u = Head(q).from
    <3>1. CASE i = 1
      BY <1>1, <2>1, <3>1
    <3>2. CASE i # 1
      <4>1. i - 1 \in DOMAIN Tail(q) /\ Tail(q)[i - 1] = q[(i - 1) + 1]
        BY <1>1, <1>2, <3>2
      <4>2. (i - 1) + 1 = i
        OBVIOUS
      <4> QED
        BY <2>1, <4>1, <4>2 DEF From
    <3> QED
      BY <3>1, <3>2
  <2>2. ASSUME NEW i \in 1..(Len(q) - 1), Tail(q)[i].from = u
        PROVE  From(q, u)
    BY <1>1, <1>3, <2>2 DEF From
  <2>3. u = Head(q).from => From(q, u)
    BY <1>1 DEF From
  <2> QED
    BY <1>1, <2>1, <2>2, <2>3 DEF From
<1>5. ASSUME Single(q)
      PROVE  Single(Tail(q))
  <2> SUFFICES ASSUME NEW i \in DOMAIN Tail(q), NEW j \in DOMAIN Tail(q), i # j,
                      Tail(q)[i].from = Tail(q)[j].from
               PROVE  Tail(q)[i].from = "nobody"
    BY DEF Single
  <2>1. /\ i + 1 \in DOMAIN q /\ j + 1 \in DOMAIN q /\ i + 1 # j + 1
        /\ Tail(q)[i] = q[i + 1] /\ Tail(q)[j] = q[j + 1]
    BY <1>1, <1>3
  <2> QED
    BY <1>5, <2>1 DEF Single
<1>6. ASSUME Single(q), NEW i \in DOMAIN Tail(q), Tail(q)[i].from = Head(q).from
      PROVE  Head(q).from = "nobody"
  <2>1. i + 1 \in DOMAIN q /\ 1 \in DOMAIN q /\ i + 1 # 1 /\ Tail(q)[i] = q[i + 1]
    BY <1>1, <1>3
  <2> QED
    BY <1>1, <1>6, <2>1 DEF Single
<1> QED
  BY <1>4, <1>5, <1>6 DEF From

LEMMA FromPurge ==
  ASSUME CameraType, NEW t \in Threads, Purge(t)
  PROVE  /\ Single(camq')
         /\ \A u \in Threads : From(camq', u) => u # t /\ From(camq, u)
<1>1. CASE camq' = <<>>
  BY <1>1 DEF From, Single
<1>2. CASE camq' # <<>>
  <2> DEFINE r == Head(camq)
             s == [r EXCEPT !.from = IF @ = t THEN "nobody" ELSE @]
  <2>1. camq # <<>> /\ camq' = <<s>>
    BY <1>2 DEF Purge
  <2>2. camq \in Seq(CamCalls) /\ r = camq[1] /\ 1 \in DOMAIN camq
    BY <2>1 DEF CameraType
  <2>3. r \in CamCalls
    BY <2>2
  <2>4. s.from = IF r.from = t THEN "nobody" ELSE r.from
    BY <2>3 DEF CamCalls
  <2>5. DOMAIN camq' = {1} /\ camq'[1] = s
    BY <2>1
  <2>6. "nobody" \notin Threads
    BY DEF Threads
  <2> HIDE DEF r, s
  <2>7. Single(camq')
    BY <2>5 DEF Single
  <2>8. \A u \in Threads : From(camq', u) => u # t /\ r.from = u
    BY <2>4, <2>5, <2>6 DEF From
  <2> QED
    BY <2>2, <2>7, <2>8 DEF From
<1> QED
  BY <1>1, <1>2

LEMMA FromNobody ==
  ASSUME NEW q \in Seq(CamCalls)
  PROVE  LET p == [i \in DOMAIN q |-> [q[i] EXCEPT !.from = "nobody"]]
         IN  Single(p) /\ \A u \in Threads : ~From(p, u)
<1> DEFINE p == [i \in DOMAIN q |-> [q[i] EXCEPT !.from = "nobody"]]
<1>1. \A i \in DOMAIN q : q[i] \in CamCalls
  OBVIOUS
<1>2. \A r \in CamCalls : [r EXCEPT !.from = "nobody"].from = "nobody"
  BY DEF CamCalls
<1>3. DOMAIN p = DOMAIN q /\ \A i \in DOMAIN p : p[i].from = "nobody"
  BY <1>1, <1>2
<1> HIDE DEF p
<1>4. Single(p) /\ \A u \in Threads : ~From(p, u)
  BY <1>3 DEF Single, From, Threads
<1> QED
  BY <1>4 DEF p

\* What a call is worth where the invariant holds.
LEMMA CallValue ==
  ASSUME NEW t \in Threads
  PROVE  /\ CallInv => CallOf(t) = IF ~Awaits(t) THEN "none"
                                   ELSE IF resp[t] THEN "answered"
                                   ELSE IF From(camq, t) THEN "sent" ELSE "lost"
         /\ CallInv' => CallOf(t)' = IF ~Awaits(t)' THEN "none"
                                     ELSE IF resp'[t] THEN "answered"
                                     ELSE IF From(camq', t) THEN "sent" ELSE "lost"
<1>1. Queued(t) <=> From(camq, t)
  BY DEF Queued, From
<1>2. Queued(t)' <=> From(camq', t)
  BY DEF Queued, From
<1>3. ASSUME CallInv
      PROVE  CallOf(t) = IF ~Awaits(t) THEN "none"
                         ELSE IF resp[t] THEN "answered"
                         ELSE IF From(camq, t) THEN "sent" ELSE "lost"
  <2>1. From(camq, t) => Awaits(t) /\ ~resp[t]
    BY <1>3 DEF CallInv
  <2> QED
    BY <1>1, <2>1 DEF CallOf
<1>4. ASSUME CallInv'
      PROVE  CallOf(t)' = IF ~Awaits(t)' THEN "none"
                          ELSE IF resp'[t] THEN "answered"
                          ELSE IF From(camq', t) THEN "sent" ELSE "lost"
  <2>1. From(camq', t) => Awaits(t)' /\ ~resp'[t]
    BY <1>4 DEF CallInv, From
  <2> QED
    BY <1>2, <2>1 DEF CallOf
<1> QED
  BY <1>3, <1>4


\* The three forms of a thread's step: it only moves, it calls, its call ends.
AnswerPcs == {"answer", "stAnswer"}
Elsewhere(t) == Pcs(t) \ AnswerPcs
MovesOn(t) ==
  \E from \in Elsewhere(t), to \in Elsewhere(t) : Go(t, from, to) /\ UNCHANGED <<resp, camq>>
CallsOut(t) ==
  \E from \in Elsewhere(t), to \in AnswerPcs, what \in {"image", "exposure", "status"} :
    Send(t, from, to, what)
ComesBack(t) ==
  \E from \in AnswerPcs, answered \in Elsewhere(t), timeout \in Elsewhere(t) :
    Await(t, from, answered, timeout)
CallForm(t) == MovesOn(t) \/ CallsOut(t) \/ ComesBack(t)

LEMMA ElsewherePcs ==
  ASSUME NEW t \in Threads
  PROVE  CallPcs \ AnswerPcs \subseteq Elsewhere(t) /\ Rets(t) \subseteq Elsewhere(t)
  BY DEF Threads, Pcs, Rets, RpcPcs, JobPcs, Elsewhere, AnswerPcs

LEMMA SendForm ==
  ASSUME TypeInv, NEW t \in Threads, SendToCamera(t)
  PROVE  CallForm(t)
<1> USE ElsewherePcs
<1>1. CASE SendWait(t) \/ SendHold(t) \/ SendDone(t)
  <2>1. ret[t] \in Elsewhere(t)
    BY DEF TypeInv, RetType
  <2>2. PICK from \in CallPcs \ AnswerPcs, to \in (CallPcs \ AnswerPcs) \union {ret[t]} :
          Step(t, from, to)
    BY <1>1 DEF SendWait, SendHold, SendDone, Test, Set, CallPcs, AnswerPcs
  <2> QED
    BY <2>1, <2>2 DEF CallForm, MovesOn, Step, camera
<1>2. CASE SendCall(t)
  <2> DEFINE what == IF t = "job" THEN "image" ELSE "exposure"
  <2>1. Send(t, "call", "answer", what) /\ what \in {"image", "exposure", "status"}
    BY <1>2 DEF SendCall
  <2> HIDE DEF what
  <2>2. "call" \in Elsewhere(t) /\ "answer" \in AnswerPcs
    BY DEF CallPcs, AnswerPcs
  <2> QED
    BY <2>1, <2>2 DEF CallForm, CallsOut
<1>3. CASE SendAnswer(t)
  <2>1. Await(t, "answer", "stFlag", "rcFlag")
    BY <1>3 DEF SendAnswer
  <2> QED
    BY <2>1 DEF CallForm, ComesBack, CallPcs, AnswerPcs
<1>4. CASE RestartCamera(t)
  <2>1. PICK from \in CallPcs \ AnswerPcs, to \in CallPcs \ AnswerPcs :
          Go(t, from, to) /\ UNCHANGED <<resp, camq>>
    BY <1>4 DEF RestartCamera, RcFlag, RcStop, RcStart, RcResend, RcFails, RcReady, Set,
                Step, camera, CallPcs, AnswerPcs
  <2> QED
    BY <2>1 DEF CallForm, MovesOn
<1>5. CASE Status(t)
  <2>1. CASE StFlag(t)
    <3>1. Go(t, "stFlag", "stCall") /\ UNCHANGED <<resp, camq>>
      BY <2>1 DEF StFlag, Set, Step, camera
    <3> QED
      BY <3>1 DEF CallForm, MovesOn, CallPcs, AnswerPcs
  <2>2. CASE StCall(t)
    <3>1. Send(t, "stCall", "stAnswer", "status")
      BY <2>2 DEF StCall
    <3> QED
      BY <3>1 DEF CallForm, CallsOut, CallPcs, AnswerPcs
  <2>3. CASE StAnswer(t)
    <3>1. Await(t, "stAnswer", "stReady", "stReady")
      BY <2>3 DEF StAnswer
    <3> QED
      BY <3>1 DEF CallForm, ComesBack, CallPcs, AnswerPcs
  <2>4. CASE StReady(t)
    <3> DEFINE to == IF ret[t] = "reply" THEN "reply" ELSE "sent"
    <3>1. to \in Elsewhere(t)
      BY DEF TypeInv, RetType, CallPcs, AnswerPcs
    <3>2. Go(t, "stReady", to) /\ UNCHANGED <<resp, camq>>
      BY <2>4 DEF StReady, Set, Step, camera
    <3> HIDE DEF to
    <3> QED
      BY <3>1, <3>2 DEF CallForm, MovesOn, CallPcs, AnswerPcs
  <2>5. CASE StRaises(t)
    <3>1. Go(t, "stCall", "stReady") /\ UNCHANGED <<resp, camq>>
      BY <2>5 DEF StRaises, Test, Step, camera
    <3> QED
      BY <3>1 DEF CallForm, MovesOn, CallPcs, AnswerPcs
  <2> QED
    BY <1>5, <2>1, <2>2, <2>3, <2>4, <2>5 DEF Status
<1>6. CASE SendRaises(t)
  <2>1. Go(t, "call", "raised") /\ UNCHANGED <<resp, camq>>
    BY <1>6 DEF SendRaises, Step, camera
  <2> QED
    BY <2>1 DEF CallForm, MovesOn, CallPcs, AnswerPcs
<1>7. CASE SendReturnsFalse(t)
  <2> DEFINE to == IF ret[t] = "resent" THEN "fin" ELSE ret[t]
  <2>1. to \in Rets(t)
    BY FalseReturns
  <2>2. Go(t, "raised", to) /\ UNCHANGED <<resp, camq>>
    BY <1>7 DEF SendReturnsFalse, Set, Step, camera
  <2> HIDE DEF to
  <2>3. to \in Elsewhere(t) /\ "raised" \in Elsewhere(t)
    BY <2>1 DEF CallPcs, AnswerPcs
  <2> QED
    BY <2>2, <2>3 DEF CallForm, MovesOn
<1> QED
  BY <1>1, <1>2, <1>3, <1>4, <1>5, <1>6, <1>7 DEF SendToCamera

LEMMA RpcForm ==
  ASSUME TypeInv, RpcThread
  PROVE  CallForm("rpc")
<1>1. CASE SendToCamera("rpc")
  BY <1>1, SendForm DEF Threads
<1>2. CASE Receive \/ Lens
  <2>1. PICK from \in {"idle", "lens"},
             to \in {"wait", "lens", "stFlag", "pause", "count"} :
          Go("rpc", from, to) /\ UNCHANGED <<resp, camq>>
    BY <1>2 DEF Receive, Lens, Enter, Test, Step, camera
  <2> QED
    BY <2>1 DEF CallForm, MovesOn, Elsewhere, Pcs, RpcPcs, CallPcs, AnswerPcs
<1>3. CASE Reply
  BY <1>3 DEF Reply, camera, CallForm, MovesOn, Elsewhere, Pcs, RpcPcs, AnswerPcs
<1>4. CASE ~(SendToCamera("rpc") \/ Receive \/ Lens \/ Reply)
  <2>1. PICK from \in RpcPcs \ CallPcs, to \in RpcPcs \ CallPcs : Step("rpc", from, to)
    BY <1>4 DEF RpcThread, LensFails, Pause, Count, Images, TestCount, NoImage, One,
                StPositions, StSetReady, StNoResend, StSchedule, Set, Test, RpcPcs, CallPcs
  <2> QED
    BY <2>1 DEF CallForm, MovesOn, Step, camera, Elsewhere, Pcs, CallPcs, AnswerPcs
<1> QED
  BY <1>1, <1>2, <1>3, <1>4

LEMMA JobCallForm ==
  ASSUME TypeInv, JobThread
  PROVE  CallForm("job")
<1>1. CASE SendToCamera("job")
  BY <1>1, SendForm DEF Threads
<1>2. CASE JobReplay \/ JobTurned
  <2>1. PICK from \in {"replay", "turned"}, to \in {"next", "wait", "fin"} :
          Go("job", from, to) /\ UNCHANGED <<resp, camq>>
    BY <1>2 DEF JobReplay, JobTurned, Enter, Test, Step, camera
  <2> QED
    BY <2>1 DEF CallForm, MovesOn, Elsewhere, Pcs, JobPcs, CallPcs, AnswerPcs
<1>3. CASE ~(SendToCamera("job") \/ JobReplay \/ JobTurned)
  <2>1. PICK from \in JobPcs \ CallPcs, to \in JobPcs \ CallPcs : Step("job", from, to)
    BY <1>3 DEF JobThread, JobTurn, JobLoop, JobImages, JobFiles, JobAllowed, JobNext,
                JobResent, JobFin, JobLoad, JobStore, Set, Test, JobPcs, CallPcs
  <2> QED
    BY <2>1 DEF CallForm, MovesOn, Step, camera, Elsewhere, Pcs, CallPcs, AnswerPcs
<1> QED
  BY <1>1, <1>2, <1>3
\* Neither the queue nor an answer is touched, and nobody calls or returns.
LEMMA QuietCalls ==
  ASSUME CallInv, UNCHANGED <<camq, resp>>, \A u \in Threads : Awaits(u)' <=> Awaits(u)
  PROVE  CallInv' /\ CallStep
<1>1. CallInv'
  BY DEF CallInv, From, Single
<1>2. \A u \in Threads : CallOf(u)' = CallOf(u)
  BY <1>1, CallValue
<1> QED
  BY <1>1, <1>2 DEF CallStep, calls

LEMMA MovesOnCalls ==
  ASSUME TypeInv, CallInv, NEW t \in Threads, MovesOn(t)
  PROVE  CallInv' /\ CallStep
<1>1. PICK from \in Elsewhere(t), to \in Elsewhere(t) :
        Go(t, from, to) /\ UNCHANGED <<resp, camq>>
  BY DEF MovesOn
<1>2. pc[t] = from /\ pc'[t] = to /\ \A u \in Threads \ {t} : pc'[u] = pc[u]
  BY <1>1 DEF Go, TypeInv, PcType
<1>3. \A u \in Threads : Awaits(u)' <=> Awaits(u)
  BY <1>2 DEF Awaits, Elsewhere, AnswerPcs
<1> QED
  BY <1>1, <1>3, QuietCalls

LEMMA CallsOutCalls ==
  ASSUME TypeInv, CallInv, NEW t \in Threads, CallsOut(t)
  PROVE  CallInv' /\ CallStep
<1>1. PICK from \in Elsewhere(t), to \in AnswerPcs, what \in {"image", "exposure", "status"} :
        Send(t, from, to, what)
  BY DEF CallsOut
<1> DEFINE r == [what |-> what, from |-> t]
<1>2. /\ pc[t] = from /\ pc'[t] = to /\ \A u \in Threads \ {t} : pc'[u] = pc[u]
      /\ camq' = Append(camq, r) /\ resp' = [resp EXCEPT ![t] = FALSE]
  BY <1>1 DEF Send, Go, TypeInv, PcType
<1>3. r \in CamCalls /\ r.from = t /\ camq \in Seq(CamCalls) /\ resp \in [Threads -> BOOLEAN]
  BY DEF CamCalls, TypeInv, CameraType, AnswerType
<1>4. ~Awaits(t) /\ Awaits(t)' /\ \A u \in Threads \ {t} : Awaits(u)' <=> Awaits(u)
  BY <1>2 DEF Awaits, Elsewhere, AnswerPcs
<1>5. ~From(camq, t)
  BY <1>4 DEF CallInv
<1> HIDE DEF r
<1>6. Single(camq') /\ \A u : From(camq', u) <=> From(camq, u) \/ u = t
  BY <1>2, <1>3, <1>5, FromAppend DEF CallInv
<1>7. ~resp'[t] /\ \A u \in Threads \ {t} : resp'[u] = resp[u]
  BY <1>2, <1>3
<1>8. CallInv'
  <2>1. \A u \in Threads : From(camq', u) => Awaits(u)' /\ ~resp'[u]
    BY <1>4, <1>6, <1>7 DEF CallInv
  <2> QED
    BY <1>6, <2>1 DEF CallInv, From, Single
<1>9. CallOf(t) = "none" /\ CallOf(t)' = "sent"
  BY <1>4, <1>6, <1>7, <1>8, CallValue
<1>10. \A u \in Threads \ {t} : CallOf(u)' = CallOf(u)
  BY <1>4, <1>6, <1>7, <1>8, CallValue
<1>11. calls' = [calls EXCEPT ![t] = "sent"] /\ calls[t] = "none"
  BY <1>9, <1>10 DEF calls
<1>12. Calls!Open(t)
  BY <1>11 DEF Calls!Open, calls
<1> QED
  BY <1>8, <1>12 DEF CallStep, Calls!Next

LEMMA ComesBackCalls ==
  ASSUME TypeInv, CallInv, NEW t \in Threads, ComesBack(t)
  PROVE  CallInv' /\ CallStep
<1>1. PICK from \in AnswerPcs, answered \in Elsewhere(t), timeout \in Elsewhere(t) :
        Await(t, from, answered, timeout)
  BY DEF ComesBack
<1>0. pc[t] = from /\ pc'[t] \in Elsewhere(t) /\ resp' = resp
      /\ \A u \in Threads \ {t} : pc'[u] = pc[u]
  BY <1>1 DEF Await, Go, TypeInv, PcType
<1>2. Awaits(t) /\ ~Awaits(t)' /\ \A u \in Threads \ {t} : Awaits(u)' <=> Awaits(u)
  BY <1>0 DEF Awaits, Elsewhere, AnswerPcs
<1>3. CASE resp[t] /\ camq' = camq
  <2>1. CallInv'
    <3>1. \A u \in Threads : From(camq', u) => Awaits(u)' /\ ~resp'[u]
      BY <1>0, <1>2, <1>3 DEF CallInv
    <3> QED
      BY <1>0, <1>3, <3>1 DEF CallInv, From, Single
  <2>2. CallOf(t) = "answered" /\ CallOf(t)' = "none"
    BY <1>0, <1>2, <1>3, <2>1, CallValue
  <2>3. \A u \in Threads \ {t} : CallOf(u)' = CallOf(u)
    BY <1>0, <1>2, <1>3, <2>1, CallValue
  <2>4. calls' = [calls EXCEPT ![t] = "none"] /\ calls[t] = "answered"
    BY <2>2, <2>3 DEF calls
  <2>5. Calls!Close(t)
    BY <2>4 DEF Calls!Close, calls
  <2> QED
    BY <2>1, <2>5 DEF CallStep, Calls!Next
<1>4. CASE ~resp[t] /\ Purge(t)
  <2>1. Single(camq') /\ \A u \in Threads : From(camq', u) => u # t /\ From(camq, u)
    BY <1>4, FromPurge DEF TypeInv
  <2>2. CallInv'
    <3>1. \A u \in Threads : From(camq', u) => Awaits(u)' /\ ~resp'[u]
      BY <1>0, <1>2, <2>1 DEF CallInv
    <3>2. (\A u \in Threads : From(camq, u) => Awaits(u) /\ ~resp[u])'
      BY <3>1 DEF From
    <3>3. Single(camq)'
      BY <2>1 DEF Single
    <3> QED
      BY <3>2, <3>3 DEF CallInv
  <2>3. CallOf(t) \in {"sent", "lost"} /\ CallOf(t)' = "none"
    BY <1>0, <1>2, <1>4, <2>2, CallValue
  <2>4. \A u \in Threads \ {t} :
          CallOf(u)' = CallOf(u) \/ (CallOf(u) = "sent" /\ CallOf(u)' = "lost")
    BY <1>0, <1>2, <2>1, <2>2, CallValue
  <2> DEFINE purged == {u \in Threads \ {t} : CallOf(u) = "sent" /\ CallOf(u)' = "lost"}
  <2>5. calls' = [u \in Threads |-> IF u = t THEN "none"
                                    ELSE IF u \in purged THEN "lost" ELSE calls[u]]
    BY <2>3, <2>4 DEF calls
  <2>6. purged \in SUBSET {u \in Threads \ {t} : calls[u] = "sent"} /\ calls[t] \in {"sent", "lost"}
    BY <2>3 DEF calls
  <2> HIDE DEF purged
  <2>7. Calls!Expire(t)
    BY <2>5, <2>6 DEF Calls!Expire, calls
  <2> QED
    BY <2>2, <2>7 DEF CallStep, Calls!Next
<1> QED
  BY <1>1, <1>3, <1>4 DEF Await
LEMMA HandledCalls ==
  ASSUME TypeInv, CallInv, CamHandle
  PROVE  CallInv' /\ CallStep
<1> DEFINE r == Head(camq)
<1>1. /\ camq # <<>> /\ camq' = Tail(camq) /\ pc' = pc
      /\ resp' = [u \in Threads |-> u = r.from \/ resp[u]]
  BY DEF CamHandle
<1>2. camq \in Seq(CamCalls) /\ resp \in [Threads -> BOOLEAN]
  BY DEF TypeInv, CameraType, AnswerType
<1>3. PICK w \in Threads \union {"nobody"} : w = r.from
  <2>1. r \in CamCalls
    BY <1>1, <1>2, HeadTailProperties
  <2> QED
    BY <2>1 DEF CamCalls
<1>4. /\ \A u : From(camq, u) <=> From(camq', u) \/ u = w
      /\ Single(camq')
      /\ From(camq', w) => w = "nobody"
  BY <1>1, <1>2, <1>3, FromTail DEF CallInv
<1> HIDE DEF r
<1>5. \A u \in Threads : resp'[u] <=> u = w \/ resp[u]
  BY <1>1, <1>3
<1>6. \A u \in Threads : Awaits(u)' <=> Awaits(u)
  BY <1>1 DEF Awaits
<1>7. CallInv'
  <2>1. \A u \in Threads : From(camq', u) => Awaits(u)' /\ ~resp'[u]
    BY <1>4, <1>5, <1>6 DEF CallInv, Threads
  <2>2. (\A u \in Threads : From(camq, u) => Awaits(u) /\ ~resp[u])'
    BY <2>1 DEF From
  <2>3. Single(camq)'
    BY <1>4 DEF Single
  <2> QED
    BY <1>1, <2>2, <2>3 DEF CallInv
<1>8. \A u \in Threads : u # w => CallOf(u)' = CallOf(u)
  BY <1>4, <1>5, <1>6, <1>7, CallValue
<1>9. CASE w \in Threads
  <2>1. From(camq, w)
    BY <1>4
  <2>2. Awaits(w) /\ ~resp[w]
    BY <1>9, <2>1 DEF CallInv
  <2>3. CallOf(w) = "sent" /\ CallOf(w)' = "answered"
    BY <1>5, <1>6, <1>7, <1>9, <2>1, <2>2, CallValue
  <2>4. calls' = [calls EXCEPT ![w] = "answered"] /\ calls[w] = "sent"
    BY <1>8, <1>9, <2>3 DEF calls
  <2>5. Calls!Answer(w)
    BY <2>4 DEF Calls!Answer, calls
  <2> QED
    BY <1>7, <1>9, <2>5 DEF CallStep, Calls!Next
<1>10. CASE w = "nobody"
  <2>1. calls' = calls
    BY <1>8, <1>10 DEF calls, Threads
  <2> QED
    BY <1>7, <2>1 DEF CallStep
<1> QED
  BY <1>3, <1>9, <1>10

LEMMA CallsNext == TypeInv /\ CallInv /\ [Next]_vars => CallInv' /\ CallStep
<1> SUFFICES ASSUME TypeInv, CallInv, [Next]_vars
             PROVE  CallInv' /\ CallStep
  OBVIOUS
<1>1. CASE (\E c \in Commands : Call(c)) \/ Image \/ UNCHANGED vars
  <2>1. UNCHANGED <<pc, resp, camq>>
    BY <1>1 DEF Call, Image, vars, camera
  <2> QED
    BY <2>1, QuietCalls DEF Awaits
<1>2. ASSUME NEW t \in Threads, CallForm(t)
      PROVE  CallInv' /\ CallStep
  BY <1>2, MovesOnCalls, CallsOutCalls, ComesBackCalls DEF CallForm
<1>3. CASE RpcThread \/ JobThread
  BY <1>2, <1>3, RpcForm, JobCallForm DEF Threads
<1> QED
  BY <1>1, <1>3, HandledCalls DEF Next, Environment

(* The client of the north controller implements RpcCalls too: rpc and job    *)
(* share the camera's queue, and a timeout of the one may cost the other its  *)
(* call, but neither takes an answer for another than its own request's.      *)
THEOREM PtImplementsCalls == Spec => CallSpec
<1>1. Init => CallInv /\ Calls!Init
  <2> SUFFICES ASSUME Init
               PROVE  CallInv /\ Calls!Init
    OBVIOUS
  <2>1. camq = <<>> /\ \A u \in Threads : ~Awaits(u)
    BY DEF Init, Awaits, Threads
  <2>2. CallInv
    BY <2>1 DEF CallInv, From, Single
  <2>3. \A u \in Threads : CallOf(u) = "none"
    BY <2>1, <2>2, CallValue
  <2> QED
    BY <2>2, <2>3 DEF Calls!Init
<1>2. TypeInv /\ CallInv /\ [Next]_vars => CallInv' /\ [Calls!Next]_calls
  BY CallsNext DEF CallStep
<1> QED
  BY <1>1, <1>2, TypeInit, TypeStep, PTL DEF Spec, CallSpec, Calls!Spec, calls
-----------------------------------------------------------------------------
(* Somebody resets ready_flag.                                                *)

\* What a step of t does to it: it sets it, it goes on within the code that
\* does, or it neither touches it nor was there.
ReadyStep(t) ==
  /\ \A u \in Threads \ {t} : pc'[u] = pc[u]
  /\ \/ ptc'.ready_flag
     \/ Resets(t)'
     \/ ptc'.ready_flag = ptc.ready_flag /\ ~Resets(t)

LEMMA ReadySet ==
  ASSUME TypeInv, NEW t \in Threads, NEW from, NEW to, NEW field \in Fields, NEW value,
         Set(t, from, to, field, value)
  PROVE  /\ pc[t] = from /\ pc'[t] = to /\ \A u \in Threads \ {t} : pc'[u] = pc[u]
         /\ IF field = "ready_flag" THEN ptc'.ready_flag = value
            ELSE ptc'.ready_flag = ptc.ready_flag
<1>1. /\ pc[t] = from /\ pc'[t] = to /\ \A u \in Threads \ {t} : pc'[u] = pc[u]
      /\ ptc' = [ptc EXCEPT ![field] = value]
  BY DEF Set, Step, Go, TypeInv, PcType
<1>2. CASE field = "ready_flag"
  BY <1>1, <1>2 DEF TypeInv, SharedType
<1>3. CASE field # "ready_flag"
  BY <1>1, <1>3 DEF TypeInv, SharedType, Fields
<1> QED
  BY <1>1, <1>2, <1>3

LEMMA ReadyGo ==
  ASSUME TypeInv, NEW t \in Threads, NEW from, NEW to, Go(t, from, to),
         ptc'.ready_flag = ptc.ready_flag,
         from \in CallPcs \ {"wait", "hold"} => to \in CallPcs \ {"wait", "hold"}
  PROVE  ReadyStep(t)
  BY DEF Go, TypeInv, PcType, ReadyStep, Resets

LEMMA SendReady ==
  ASSUME TypeInv, NEW t \in Threads, SendToCamera(t)
  PROVE  ReadyStep(t)
<1> USE DEF CallPcs
<1>1. CASE SendWait(t)
  BY <1>1, ReadyGo DEF SendWait, Test, Step
<1>2. CASE SendHold(t) \/ RcFlag(t) \/ StFlag(t)
  <2>1. PICK from \in CallPcs, to \in {"call", "rcStop", "stCall"} :
          Set(t, from, to, "ready_flag", FALSE)
    BY <1>2 DEF SendHold, RcFlag, StFlag
  <2>2. pc'[t] = to /\ \A u \in Threads \ {t} : pc'[u] = pc[u]
    BY <2>1, ReadySet DEF Fields
  <2> QED
    BY <2>2 DEF ReadyStep, Resets
<1>3. CASE RcReady(t)
  BY <1>3, ReadySet DEF RcReady, Fields, ReadyStep
<1>4. CASE SendDone(t)
  <2>1. Set(t, "sent", ret[t], "ready_flag", TRUE)
    BY <1>4 DEF SendDone
  <2> QED
    BY <2>1, ReadySet DEF Fields, ReadyStep
<1>5. CASE StReady(t)
  <2> DEFINE to == IF ret[t] = "reply" THEN "reply" ELSE "sent"
  <2>1. Set(t, "stReady", to, "ready_flag", TRUE)
    BY <1>5 DEF StReady
  <2> HIDE DEF to
  <2> QED
    BY <2>1, ReadySet DEF Fields, ReadyStep
<1>6. CASE StCall(t) \/ SendCall(t)
  <2>1. PICK from \in CallPcs, to \in {"answer", "stAnswer"} :
          Go(t, from, to) /\ ptc' = ptc
    BY <1>6 DEF StCall, SendCall, Send
  <2> QED
    BY <2>1, ReadyGo
<1>7. CASE StAnswer(t) \/ SendAnswer(t)
  <2>1. PICK from \in CallPcs, to \in {"stReady", "stFlag", "rcFlag"} :
          Go(t, from, to) /\ ptc' = ptc
    BY <1>7 DEF StAnswer, SendAnswer, Await
  <2> QED
    BY <2>1, ReadyGo
<1>8. CASE RcStop(t) \/ RcStart(t) \/ RcFails(t) \/ RcResend(t)
  <2>1. PICK from \in CallPcs, to \in {"rcStart", "rcResend", "rcReady"} : Go(t, from, to)
    BY <1>8 DEF RcStop, RcStart, RcFails, RcResend, Step
  <2>2. ptc'.ready_flag = ptc.ready_flag
    BY <1>8 DEF RcStop, RcStart, RcFails, RcResend, TypeInv, SharedType
  <2> QED
    BY <2>1, <2>2, ReadyGo
<1>9. CASE StRaises(t) \/ SendRaises(t)
  <2>1. PICK to \in {"stReady", "raised"} : Go(t, IF to = "raised" THEN "call" ELSE "stCall", to)
                                           /\ ptc' = ptc
    BY <1>9 DEF StRaises, SendRaises, Test, Step
  <2> QED
    BY <2>1, ReadyGo
<1>10. CASE SendReturnsFalse(t)
  <2> DEFINE to == IF ret[t] = "resent" THEN "fin" ELSE ret[t]
  <2>1. Set(t, "raised", to, "ready_flag", TRUE)
    BY <1>10 DEF SendReturnsFalse
  <2> HIDE DEF to
  <2> QED
    BY <2>1, ReadySet DEF Fields, ReadyStep
<1> QED
  BY <1>1, <1>2, <1>3, <1>4, <1>5, <1>6, <1>7, <1>8, <1>9, <1>10
  DEF SendToCamera, RestartCamera, Status

LEMMA RpcReady ==
  ASSUME TypeInv, RpcThread
  PROVE  ReadyStep("rpc")
<1> USE DEF Threads
<1>1. CASE SendToCamera("rpc")
  BY <1>1, SendReady
<1>2. CASE Receive \/ Lens \/ LensFails \/ TestCount \/ Reply
  <2>1. \E from \in {"idle", "lens", "test", "reply"} : \E to : Go("rpc", from, to)
    BY <1>2 DEF Receive, Lens, LensFails, TestCount, Reply, Enter, Test, Step
  <2>2. ptc' = ptc
    BY <1>2 DEF Receive, Lens, LensFails, TestCount, Reply, Enter, Test, Step
  <2>3. PICK from \in {"idle", "lens", "test", "reply"} : \E to : Go("rpc", from, to)
    BY <2>1
  <2>4. PICK to : Go("rpc", from, to)
    BY <2>3
  <2> QED
    BY <2>2, <2>3, <2>4, ReadyGo DEF CallPcs
<1>3. CASE Pause \/ Count \/ Images \/ NoImage \/ One \/ StSetReady \/ StNoResend \/ StSchedule
  <2>1. ASSUME NEW from \in RpcPcs \ CallPcs, NEW to, NEW field \in Fields, NEW value,
               Set("rpc", from, to, field, value), field = "ready_flag" => value
        PROVE  ReadyStep("rpc")
    <3>1. /\ pc["rpc"] = from /\ pc'["rpc"] = to
          /\ \A u \in Threads \ {"rpc"} : pc'[u] = pc[u]
          /\ ptc'.ready_flag \/ ptc'.ready_flag = ptc.ready_flag
      BY <2>1, ReadySet
    <3> QED
      BY <2>1, <3>1 DEF ReadyStep, Resets
  <2> USE DEF RpcPcs, CallPcs, Fields
  <2>2. CASE Pause \/ StSchedule
    BY <2>1, <2>2 DEF Pause, StSchedule
  <2>3. CASE Count
    BY <2>1, <2>3 DEF Count
  <2>4. CASE Images \/ NoImage
    BY <2>1, <2>4 DEF Images, NoImage
  <2>5. CASE One \/ StNoResend
    BY <2>1, <2>5 DEF One, StNoResend
  <2>6. CASE StSetReady
    BY <2>1, <2>6 DEF StSetReady
  <2> QED
    BY <1>3, <2>2, <2>3, <2>4, <2>5, <2>6
<1>4. CASE StPositions
  <2>1. Go("rpc", "positions", "ready")
    BY <1>4 DEF StPositions, Step
  <2>2. ptc'.ready_flag = ptc.ready_flag
    BY <1>4 DEF StPositions, TypeInv, SharedType
  <2> QED
    BY <2>1, <2>2, ReadyGo DEF CallPcs
<1> QED
  BY <1>1, <1>2, <1>3, <1>4 DEF RpcThread

LEMMA JobReady ==
  ASSUME TypeInv, JobThread
  PROVE  ReadyStep("job")
<1> USE DEF Threads
<1>1. CASE SendToCamera("job")
  BY <1>1, SendReady
<1>2. CASE ~SendToCamera("job")
  <2>1. \E from \in JobPcs \ CallPcs : \E to : Go("job", from, to)
    BY <1>2 DEF JobThread, JobTurn, JobLoop, JobImages, JobFiles, JobAllowed, JobReplay,
                JobNext, JobTurned, JobResent, JobFin, JobLoad, JobStore, Enter, Set, Test,
                Step, JobPcs, CallPcs
  <2>2. ptc'.ready_flag = ptc.ready_flag
    <3>1. CASE JobResent \/ JobStore
      BY <3>1, ReadySet DEF JobResent, JobStore, Fields
    <3>2. CASE ~(JobResent \/ JobStore)
      BY <1>2, <3>2 DEF JobThread, JobTurn, JobLoop, JobImages, JobFiles, JobAllowed,
                        JobReplay, JobNext, JobTurned, JobFin, JobLoad, Enter, Test
    <3> QED
      BY <3>1, <3>2
  <2>3. PICK from \in JobPcs \ CallPcs : \E to : Go("job", from, to)
    BY <2>1
  <2>4. PICK to : Go("job", from, to)
    BY <2>3
  <2> QED
    BY <2>2, <2>3, <2>4, ReadyGo
<1> QED
  BY <1>1, <1>2

(* However the two threads set and clear ready_flag in the middle of each     *)
(* other's calls, it is never cleared with both of them waiting for it or     *)
(* elsewhere: the thread that will set it again has not gone.  For any        *)
(* commands and faults.                                                       *)
THEOREM ReadyHolds == Spec => []ReadyHeld
<1>1. Init => ReadyHeld
  BY DEF Init, ReadyHeld
<1>2. TypeInv /\ ReadyHeld /\ [Next]_vars => ReadyHeld'
  <2> SUFFICES ASSUME TypeInv, ReadyHeld, [Next]_vars, ~ptc'.ready_flag
               PROVE  \E t \in Threads : Resets(t)'
    BY DEF ReadyHeld
  <2>1. CASE Environment \/ UNCHANGED vars
    <3>1. UNCHANGED <<ptc, pc>>
      BY <2>1 DEF Environment, Call, CamHandle, Image, vars
    <3> QED
      BY <3>1 DEF ReadyHeld, Resets
  <2>2. ASSUME NEW t \in Threads, ReadyStep(t)
        PROVE  \E u \in Threads : Resets(u)'
    <3>1. CASE Resets(t)'
      BY <3>1
    <3>2. CASE ptc'.ready_flag = ptc.ready_flag /\ ~Resets(t)
      <4>1. PICK u \in Threads \ {t} : Resets(u)
        BY <3>2 DEF ReadyHeld
      <4>2. pc'[u] = pc[u]
        BY <2>2 DEF ReadyStep
      <4> QED
        BY <4>1, <4>2 DEF Resets
    <3> QED
      BY <2>2, <3>1, <3>2 DEF ReadyStep
  <2> QED
    BY <2>1, <2>2, RpcReady, JobReady DEF Next, Threads
<1> QED
  BY <1>1, <1>2, TypeInit, TypeStep, PTL DEF Spec

-----------------------------------------------------------------------------
(* Both threads get on.  The ranks behind CommandsAnswered and ScanEnds.      *)

\* The places of a call in their order: each step of _send_to_camera,
\* restart_camera and status goes on or returns.
CallStage(p) ==
  CASE p = "wait"     -> 14 [] p = "hold"     -> 13 [] p = "call"    -> 12
    [] p = "answer"   -> 11 [] p = "rcFlag"   -> 10 [] p = "rcStop"  -> 9
    [] p = "rcStart"  -> 8  [] p = "rcResend" -> 7  [] p = "rcReady" -> 6
    [] p = "stFlag"   -> 5  [] p = "stCall"   -> 4  [] p = "stAnswer" -> 3
    [] p = "stReady"  -> 2  [] p \in {"sent", "raised"} -> 1  [] OTHER -> 0

\* The steps rpc has left until the request is answered, and the job until its
\* turn is over.
RpcStage(p) ==
  CASE p = "idle"     -> 60 [] p = "lens"  -> 39 [] p = "count" -> 38
    [] p = "images"   -> 37 [] p = "test"  -> 36 [] p = "none"  -> 35
    [] p = "one"      -> 34 [] p = "positions" -> 33 [] p = "ready" -> 32
    [] p = "resend"   -> 31 [] p \in {"schedule", "pause"} -> 30
    [] p = "reply"    -> 1  [] OTHER       -> 0
RpcLeft ==
  IF pc["rpc"] \in CallPcs
  THEN (IF ret["rpc"] = "lens" THEN 40 ELSE 10) + CallStage(pc["rpc"])
  ELSE RpcStage(pc["rpc"])
JobStage(p) ==
  CASE p = "loop"     -> 60 [] p = "images" -> 59 [] p = "files" -> 58
    [] p = "allowed"  -> 57 [] p = "replay" -> 56 [] p = "next"  -> 55
    [] p = "turned"   -> 54 [] p = "resent" -> 10 [] p = "fin"   -> 5
    [] p = "load"     -> 4  [] p = "store"  -> 3  [] OTHER       -> 0
JobLeft ==
  IF pc["job"] \in CallPcs THEN 20 + CallStage(pc["job"]) ELSE JobStage(pc["job"])

LEMMA LeftNumbers == RpcLeft \in Nat /\ RpcLeft' \in Nat /\ JobLeft \in Nat /\ JobLeft' \in Nat
  BY DEF RpcLeft, JobLeft, CallStage, RpcStage, JobStage

\* The queue loses its head only, which rpc has answered, and each step of rpc
\* brings it nearer to that.
RpcAdvances ==
  /\ \/ inbox' = inbox /\ RpcLeft' <= RpcLeft
     \/ inbox # << >> /\ inbox' = Tail(inbox)
     \/ (\E r \in Requests : inbox' = Append(inbox, r)) /\ RpcLeft' = RpcLeft
  /\ RpcThread => RpcLeft' < RpcLeft \/ (inbox # << >> /\ inbox' = Tail(inbox))

\* A turn of the job comes to its end.
JobAdvances ==
  pc["job"] # "off" => JobLeft' <= JobLeft /\ (JobThread => JobLeft' < JobLeft)

\* A step inside a call: on, or back to where the call was made, or, with False,
\* past the line after it.
Onward(t) ==
  /\ pc[t] \in CallPcs /\ ret' = ret /\ inbox' = inbox
  /\ \A u \in Threads \ {t} : pc'[u] = pc[u]
  /\ \/ pc'[t] \in CallPcs /\ CallStage(pc'[t]) < CallStage(pc[t])
     \/ pc'[t] = ret[t] \/ (ret[t] = "resent" /\ pc'[t] = "fin")

LEMMA GoOnward ==
  ASSUME TypeInv, NEW t \in Threads, NEW from \in CallPcs, NEW to, Go(t, from, to),
         ret' = ret, inbox' = inbox,
         \/ to = ret[t] \/ (ret[t] = "resent" /\ to = "fin")
         \/ to \in CallPcs /\ CallStage(to) < CallStage(from)
  PROVE  Onward(t)
  BY DEF Onward, Go, TypeInv, PcType, Threads

LEMMA SendOnward ==
  ASSUME TypeInv, NEW t \in Threads, SendToCamera(t)
  PROVE  Onward(t)
<1> USE GoOnward DEF CallPcs, CallStage, controllers
<1>1. CASE SendWait(t) \/ SendHold(t) \/ SendDone(t)
  <2>1. CASE SendWait(t)
    BY <2>1 DEF SendWait, Test, Step
  <2>2. CASE SendHold(t)
    BY <2>2 DEF SendHold, Set, Step
  <2>3. CASE SendDone(t)
    BY <2>3 DEF SendDone, Set, Step
  <2> QED
    BY <1>1, <2>1, <2>2, <2>3
<1>2. CASE SendCall(t)
  BY <1>2 DEF SendCall, Send
<1>3. CASE SendAnswer(t)
  BY <1>3 DEF SendAnswer, Await
<1>4. CASE RcFlag(t) \/ RcReady(t)
  BY <1>4 DEF RcFlag, RcReady, Set, Step
<1>5. CASE RcStop(t)
  BY <1>5 DEF RcStop
<1>6. CASE RcStart(t)
  BY <1>6 DEF RcStart
<1>7. CASE RcResend(t)
  BY <1>7 DEF RcResend, Step
<1>8. CASE RcFails(t)
  BY <1>8 DEF RcFails, Step
<1>9. CASE StFlag(t)
  BY <1>9 DEF StFlag, Set, Step
<1>10. CASE StCall(t)
  BY <1>10 DEF StCall, Send
<1>11. CASE StAnswer(t)
  BY <1>11 DEF StAnswer, Await
<1>12. CASE StReady(t)
  <2>1. CASE ret[t] = "reply"
    BY <1>12, <2>1 DEF StReady, Set, Step
  <2>2. CASE ret[t] # "reply"
    BY <1>12, <2>2 DEF StReady, Set, Step
  <2> QED
    BY <2>1, <2>2
<1>13. CASE StRaises(t) \/ SendRaises(t)
  BY <1>13 DEF StRaises, SendRaises, Test, Step
<1>14. CASE SendReturnsFalse(t)
  <2>1. CASE ret[t] = "resent"
    BY <1>14, <2>1 DEF SendReturnsFalse, Set, Step
  <2>2. CASE ret[t] # "resent"
    BY <1>14, <2>2 DEF SendReturnsFalse, Set, Step
  <2> QED
    BY <2>1, <2>2
<1> QED
  BY <1>1, <1>2, <1>3, <1>4, <1>5, <1>6, <1>7, <1>8, <1>9, <1>10, <1>11, <1>12, <1>13,
     <1>14 DEF SendToCamera, RestartCamera, Status

LEMMA RpcLowers ==
  ASSUME TypeInv, RpcThread
  PROVE  /\ pc'["job"] = pc["job"]
         /\ \/ inbox' = inbox /\ RpcLeft' < RpcLeft
            \/ inbox # << >> /\ inbox' = Tail(inbox)
<1>0. /\ pc \in [Threads -> RpcPcs \union JobPcs] /\ "rpc" \in Threads
      /\ ret \in [Threads -> {"lens", "reply", "fin", "resent"}]
      /\ ret["rpc"] \in {"lens", "reply"} /\ "job" \in Threads
  BY DEF TypeInv, PcType, RetType, Threads, Rets
<1>1. ASSUME NEW from, NEW to, Go("rpc", from, to)
      PROVE  pc["rpc"] = from /\ pc'["rpc"] = to /\ pc'["job"] = pc["job"]
  BY <1>0, <1>1 DEF Go
<1>2. CASE SendToCamera("rpc")
  <2>1. Onward("rpc")
    BY <1>0, <1>2, SendOnward
  <2>2. /\ pc'["job"] = pc["job"] /\ inbox' = inbox /\ ret' = ret
        /\ pc["rpc"] \in CallPcs
    BY <1>0, <2>1 DEF Onward
  <2>3. CallStage(pc["rpc"]) \in 1..14
    BY <2>2 DEF CallStage, CallPcs
  <2>4. CASE pc'["rpc"] \in CallPcs /\ CallStage(pc'["rpc"]) < CallStage(pc["rpc"])
    <3>1. CallStage(pc'["rpc"]) \in Nat
      BY DEF CallStage
    <3>2. PICK base \in Nat : base = (IF ret["rpc"] = "lens" THEN 40 ELSE 10)
      OBVIOUS
    <3>3. /\ RpcLeft = base + CallStage(pc["rpc"])
          /\ RpcLeft' = base + CallStage(pc'["rpc"])
      BY <2>2, <2>4, <3>2 DEF RpcLeft
    <3>4. RpcLeft' < RpcLeft
      BY <2>3, <2>4, <3>1, <3>3
    <3> QED
      BY <2>2, <3>4
  <2>5. CASE pc'["rpc"] = ret["rpc"]
    <3>1. pc'["rpc"] \notin CallPcs
      BY <1>0, <2>5 DEF CallPcs
    <3>2. RpcLeft' = RpcStage(ret["rpc"])
      BY <2>5, <3>1 DEF RpcLeft
    <3>3. RpcLeft = (IF ret["rpc"] = "lens" THEN 40 ELSE 10) + CallStage(pc["rpc"])
      BY <2>2 DEF RpcLeft
    <3> QED
      BY <1>0, <2>2, <2>3, <3>2, <3>3 DEF RpcStage
  <2> QED
    BY <1>0, <2>1, <2>2, <2>4, <2>5 DEF Onward
<1>3. CASE Receive
  <2>1. /\ pc["rpc"] = "idle" /\ inbox' = inbox /\ pc'["job"] = pc["job"]
        /\ \/ pc'["rpc"] = "wait" /\ ret'["rpc"] = "lens"
           \/ pc'["rpc"] = "lens"
    BY <1>0, <1>1, <1>3 DEF Receive, Enter, Test, Step, controllers
  <2> QED
    BY <2>1 DEF RpcLeft, RpcStage, CallStage, CallPcs
<1>4. CASE Lens \/ LensFails
  <2>1. /\ pc["rpc"] = "lens" /\ inbox' = inbox /\ pc'["job"] = pc["job"]
        /\ \/ pc'["rpc"] = "stFlag" /\ ret'["rpc"] = "reply"
           \/ pc'["rpc"] \in {"pause", "count", "blocked"}
    BY <1>0, <1>1, <1>4 DEF Lens, LensFails, Enter, Test, Step, controllers
  <2> QED
    BY <2>1 DEF RpcLeft, RpcStage, CallStage, CallPcs
<1>5. CASE Reply
  <2>1. inbox # << >>
    BY <1>1, <1>5 DEF Reply, TypeInv, Holding
  <2> QED
    BY <1>1, <1>5, <2>1 DEF Reply
<1>6. CASE Pause \/ Count \/ Images \/ TestCount \/ NoImage \/ One
  <2>1. /\ inbox' = inbox /\ pc'["job"] = pc["job"]
        /\ \/ pc["rpc"] = "pause"  /\ pc'["rpc"] = "reply"
           \/ pc["rpc"] = "count"  /\ pc'["rpc"] = "images"
           \/ pc["rpc"] = "images" /\ pc'["rpc"] = "test"
           \/ pc["rpc"] = "test"   /\ pc'["rpc"] \in {"none", "positions"}
           \/ pc["rpc"] = "none"   /\ pc'["rpc"] = "one"
           \/ pc["rpc"] = "one"    /\ pc'["rpc"] = "positions"
    BY <1>1, <1>6
       DEF Pause, Count, Images, TestCount, NoImage, One, Set, Test, Step, controllers
  <2> QED
    BY <2>1 DEF RpcLeft, RpcStage, CallPcs
<1>7. CASE StPositions \/ StSetReady \/ StNoResend \/ StSchedule
  <2>1. /\ inbox' = inbox /\ pc'["job"] = pc["job"]
        /\ \/ pc["rpc"] = "positions" /\ pc'["rpc"] = "ready"
           \/ pc["rpc"] = "ready"     /\ pc'["rpc"] = "resend"
           \/ pc["rpc"] = "resend"    /\ pc'["rpc"] = "schedule"
           \/ pc["rpc"] = "schedule"  /\ pc'["rpc"] = "reply"
    BY <1>1, <1>7
       DEF StPositions, StSetReady, StNoResend, StSchedule, Set, Step, controllers
  <2> QED
    BY <2>1 DEF RpcLeft, RpcStage, CallPcs
<1> QED
  BY <1>2, <1>3, <1>4, <1>5, <1>6, <1>7 DEF RpcThread

LEMMA JobLowers ==
  ASSUME TypeInv, JobThread
  PROVE  /\ pc'["rpc"] = pc["rpc"] /\ ret'["rpc"] = ret["rpc"] /\ inbox' = inbox
         /\ pc["job"] # "off" => JobLeft' < JobLeft
<1>0. /\ pc \in [Threads -> RpcPcs \union JobPcs] /\ "rpc" \in Threads
      /\ ret \in [Threads -> {"lens", "reply", "fin", "resent"}]
      /\ ret["job"] \in {"fin", "resent"} /\ "job" \in Threads
  BY DEF TypeInv, PcType, RetType, Threads, Rets
<1>1. ASSUME NEW from, NEW to, Go("job", from, to)
      PROVE  pc["job"] = from /\ pc'["job"] = to /\ pc'["rpc"] = pc["rpc"]
  BY <1>0, <1>1 DEF Go
<1>2. CASE SendToCamera("job")
  <2>1. Onward("job")
    BY <1>0, <1>2, SendOnward
  <2>2. /\ pc'["rpc"] = pc["rpc"] /\ inbox' = inbox /\ ret' = ret
        /\ pc["job"] \in CallPcs
    BY <1>0, <2>1 DEF Onward
  <2>3. CallStage(pc["job"]) \in 1..14
    BY <2>2 DEF CallStage, CallPcs
  <2>4. CASE pc'["job"] \in CallPcs /\ CallStage(pc'["job"]) < CallStage(pc["job"])
    <3>1. CallStage(pc'["job"]) \in Nat
      BY DEF CallStage
    <3> QED
      BY <2>2, <2>3, <2>4, <3>1 DEF JobLeft
  <2>5. CASE pc'["job"] \in {"fin", "resent"}
    <3>1. pc'["job"] \notin CallPcs
      BY <2>5 DEF CallPcs
    <3>2. JobLeft' = JobStage(pc'["job"])
      BY <3>1 DEF JobLeft
    <3>3. JobLeft = 20 + CallStage(pc["job"])
      BY <2>2 DEF JobLeft
    <3> QED
      BY <2>2, <2>3, <2>5, <3>2, <3>3 DEF JobStage
  <2> QED
    BY <1>0, <2>1, <2>2, <2>4, <2>5 DEF Onward
<1>3. CASE JobTurn \/ JobLoop \/ JobImages \/ JobFiles \/ JobAllowed
  <2>1. /\ inbox' = inbox /\ pc'["rpc"] = pc["rpc"] /\ ret' = ret
        /\ \/ pc["job"] = "off"
           \/ pc["job"] = "loop"    /\ pc'["job"] \in {"images", "off"}
           \/ pc["job"] = "images"  /\ pc'["job"] \in {"allowed", "files"}
           \/ pc["job"] = "files"   /\ pc'["job"] = "allowed"
           \/ pc["job"] = "allowed" /\ pc'["job"] \in {"replay", "off"}
    BY <1>1, <1>3
       DEF JobTurn, JobLoop, JobImages, JobFiles, JobAllowed, Test, Step, controllers
  <2> QED
    BY <2>1 DEF JobLeft, JobStage, CallPcs
<1>4. CASE JobReplay \/ JobTurned
  <2>1. /\ inbox' = inbox /\ pc'["rpc"] = pc["rpc"] /\ ret'["rpc"] = ret["rpc"]
        /\ \/ pc["job"] = "replay" /\ pc'["job"] \in {"next", "wait"}
           \/ pc["job"] = "turned" /\ pc'["job"] \in {"fin", "wait"}
    BY <1>0, <1>1, <1>4 DEF JobReplay, JobTurned, Enter, Test, Step, controllers
  <2> QED
    BY <2>1 DEF JobLeft, JobStage, CallStage, CallPcs
<1>5. CASE JobNext \/ JobResent \/ JobFin \/ JobLoad \/ JobStore
  <2>1. /\ inbox' = inbox /\ pc'["rpc"] = pc["rpc"] /\ ret' = ret
        /\ \/ pc["job"] = "next"   /\ pc'["job"] \in {"turned", "fin"}
           \/ pc["job"] = "resent" /\ pc'["job"] = "fin"
           \/ pc["job"] = "fin"    /\ pc'["job"] \in {"load", "off"}
           \/ pc["job"] = "load"   /\ pc'["job"] = "store"
           \/ pc["job"] = "store"  /\ pc'["job"] = "off"
    BY <1>1, <1>5
       DEF JobNext, JobResent, JobFin, JobLoad, JobStore, Set, Test, Step, controllers
  <2> QED
    BY <2>1 DEF JobLeft, JobStage, CallPcs
<1> QED
  BY <1>2, <1>3, <1>4, <1>5 DEF JobThread

LEMMA OutsideStays ==
  ASSUME TypeInv, Environment \/ UNCHANGED vars
  PROVE  /\ pc' = pc /\ ret' = ret
         /\ inbox' = inbox \/ \E r \in Requests : inbox' = Append(inbox, r)
<1>1. ASSUME NEW c \in Commands, Call(c)
      PROVE  /\ pc' = pc /\ ret' = ret
             /\ \E r \in Requests : inbox' = Append(inbox, r)
  <2>1. sent + 1 \in 1..MaxCalls
    BY <1>1, PtAssumption DEF Call, TypeInv, InboxType
  <2>2. [id |-> sent + 1, cmd |-> c] \in Requests
    BY <2>1 DEF Requests
  <2> QED
    BY <1>1, <2>2 DEF Call
<1>2. CASE CamHandle \/ Image \/ UNCHANGED vars
  BY <1>2 DEF CamHandle, Image, vars, controllers
<1> QED
  BY <1>1, <1>2 DEF Environment

LEMMA ThreadsStep == TypeInv /\ [Next]_vars => RpcAdvances /\ JobAdvances
<1> SUFFICES ASSUME TypeInv, [Next]_vars
             PROVE  RpcAdvances /\ JobAdvances
  OBVIOUS
<1>1. CASE RpcThread
  <2>1. JobLeft' = JobLeft
    BY <1>1, RpcLowers DEF JobLeft
  <2> QED
    BY <1>1, <2>1, RpcLowers, JobLowers, LeftNumbers DEF RpcAdvances, JobAdvances
<1>2. ASSUME ~RpcThread, pc'["rpc"] = pc["rpc"], ret'["rpc"] = ret["rpc"],
             inbox' = inbox \/ \E r \in Requests : inbox' = Append(inbox, r)
      PROVE  RpcAdvances
  <2>1. RpcLeft' = RpcLeft
    BY <1>2 DEF RpcLeft
  <2> QED
    BY <1>2, <2>1, LeftNumbers DEF RpcAdvances
<1>3. CASE ~RpcThread /\ JobThread
  BY <1>2, <1>3, JobLowers, LeftNumbers DEF JobAdvances
<1>4. CASE ~RpcThread /\ ~JobThread
  <2>1. /\ pc' = pc /\ ret' = ret
        /\ inbox' = inbox \/ \E r \in Requests : inbox' = Append(inbox, r)
    BY <1>4, OutsideStays DEF Next
  <2>2. JobLeft' = JobLeft
    BY <2>1 DEF JobLeft
  <2> QED
    BY <1>2, <1>4, <2>1, <2>2, LeftNumbers DEF JobAdvances
<1> QED
  BY <1>1, <1>3, <1>4

(* Both threads use one camera and one flag, yet neither sets the other      *)
(* back: rpc answers the request at the head of its queue, and the job ends  *)
(* its turn, after a bounded number of their own steps, calls and restarts   *)
(* included.  What may hold up such a step is ready_flag (ReadyHolds), or a  *)
(* lens that raised.                                                         *)
THEOREM ThreadsAdvance == Spec => [][RpcAdvances]_vars /\ [][JobAdvances]_vars
  BY ThreadsStep, TypeInit, TypeStep, PTL DEF Spec
=============================================================================
