----------------------------- MODULE ImageQueue -----------------------------
(***************************************************************************)
(* The queue through which the GigE-V library hands images to the saver:   *)
(* DQUEUE of w32lib/corw32/dynaqueue.c, a ring of Capacity + 1 slots under *)
(* a CRITICAL_SECTION, with a flag and a condition variable for the wait.  *)
(*                                                                         *)
(* Posters are the threads of the library that post images, Penders those  *)
(* that call GevGetNextImage; one in Forever gives no timeout (INFINITE).  *)
(* What a call does inside the section touches nothing that is used        *)
(* outside but dataReady, which it writes once, so it is one step with the *)
(* leaving.  The wait is not: dataReady is tested without wait_signal_mutex*)
(* (line 103) and the waiting begins after (lines 118 and 129).            *)
(* Creating and destroying the queue are left out.                         *)
(***************************************************************************)
EXTENDS CriticalSection, Sequences

CONSTANTS Posters, Penders, Forever,
          Capacity,   \* maxElements of DQueueCreate
          MaxPosts    \* bound: how many images are posted

ASSUME QueueAssumption ==
  /\ Threads = Posters \union Penders /\ Posters \intersect Penders = {}
  /\ Forever \subseteq Penders /\ Nobody \notin Threads
  /\ Capacity \in Nat \ {0} /\ MaxPosts \in Nat

Size   == Capacity + 1
Slots  == 0..Capacity
Images == 1..MaxPosts
Modes  == {"Overwrite", "Block"}
Steps  == {"idle", "post", "front", "pend", "test", "wait", "waiting",
           "verdict", "retake"}

VARIABLES
  mode, data, head, tail,   \* the ring
  dataReady,                \* set by a post, cleared by a pend that finds nothing
  pc, arg,                  \* each thread: its step, the image it posts
  posted,                   \* how many images were posted
  taken                     \* history: the images the pends returned

ring    == <<data, head, tail>>
threads == <<pc, arg>>
vars    == <<section, mode, ring, dataReady, threads, posted, taken>>

-----------------------------------------------------------------------------
(* The macros of dynaqueue.h.                                               *)

IncPast(i) == IF i = Size THEN 0 ELSE i + 1   \* mutant: off by one

Inc(i) == IF i + 1 = Size THEN 0 ELSE i + 1
Dec(i) == IF i - 1 < 0 THEN Size - 1 ELSE i - 1

DataLevel == IF head >= tail THEN head - tail ELSE Size - (tail - head)

FreeSpaceAll ==   \* mutant: counts the slot that tells full from empty
  IF head >= tail THEN Size - (head - tail) ELSE tail - head

FreeSpace == IF head >= tail THEN Size - (head - tail) - 1 ELSE tail - head - 1

Push(e) == data' = [data EXCEPT ![head] = e] /\ head' = Inc(head)
PushFront(e) == tail' = Dec(tail) /\ data' = [data EXCEPT ![Dec(tail)] = e]
Pop  == tail' = Inc(tail)

-----------------------------------------------------------------------------
(* Entering the section, and the event.                                     *)

Inside(t) == Holder = t

\* A call that has to enter enters, or waits its turn.
EnterSection(t) ==
  /\ pc[t] \in {"post", "front", "pend", "retake"} /\ ~Inside(t)
  /\ Enter(t)
  /\ UNCHANGED <<mode, ring, dataReady, threads, posted, taken>>

WakeInSection(t) ==
  /\ WakeUp(t)
  /\ UNCHANGED <<mode, ring, dataReady, threads, posted, taken>>

Goto(t, from, to) == pc[t] = from /\ pc' = [pc EXCEPT ![t] = to]

\* _DQueueSetEvent wakes every pender that waits; t has finished its call.
SetEvent(t) ==
  /\ dataReady' = TRUE
  /\ pc' = [u \in Threads |-> IF u = t THEN "idle"
                              ELSE IF pc[u] = "waiting" THEN "verdict"
                              ELSE pc[u]]

-----------------------------------------------------------------------------
(* DQueuePost and DQueuePostFront.                                          *)

CallPost(p) ==
  /\ posted < MaxPosts
  /\ Goto(p, "idle", "post") \/ Goto(p, "idle", "front")
  /\ posted' = posted + 1 /\ arg' = [arg EXCEPT ![p] = posted + 1]
  /\ UNCHANGED <<section, mode, ring, dataReady, taken>>

Post(p) ==
  /\ Inside(p) /\ pc[p] = "post" /\ Leave(p)
  /\ FreeSpace > 0 \/ mode = "Overwrite"
  /\ Push(arg[p])
  /\ IF FreeSpace > 0 THEN tail' = tail ELSE Pop
  /\ SetEvent(p) /\ arg' = [arg EXCEPT ![p] = 0]
  /\ UNCHANGED <<mode, posted, taken>>

\* Full: POP_HEAD drops the newest element, then PUSH_LIFO.
PostFront(p) ==
  /\ Inside(p) /\ pc[p] = "front" /\ Leave(p)
  /\ FreeSpace # 0 \/ mode = "Overwrite"
  /\ PushFront(arg[p])
  /\ head' = IF FreeSpace # 0 THEN head ELSE Dec(head)
  /\ SetEvent(p) /\ arg' = [arg EXCEPT ![p] = 0]
  /\ UNCHANGED <<mode, posted, taken>>

\* QUEUE_ERROR_FULL
PostFull(p) ==
  /\ Inside(p) /\ Leave(p)
  /\ Goto(p, "post", "idle") \/ Goto(p, "front", "idle")
  /\ FreeSpace = 0 /\ mode = "Block"
  /\ arg' = [arg EXCEPT ![p] = 0]
  /\ UNCHANGED <<mode, ring, dataReady, posted, taken>>

-----------------------------------------------------------------------------
(* DQueuePendEx with _DQueueWaitForEvent.                                   *)

CallPend(c) ==
  /\ Goto(c, "idle", "pend")
  /\ UNCHANGED <<section, mode, ring, dataReady, arg, posted, taken>>

TakeOne ==
  /\ DataLevel > 0 /\ Pop
  /\ taken' = Append(taken, data[tail])
  /\ UNCHANGED <<data, head>>

PendTake(c) ==
  /\ Inside(c) /\ Leave(c)
  /\ Goto(c, "pend", "idle") \/ Goto(c, "retake", "idle")
  /\ TakeOne
  /\ UNCHANGED <<mode, dataReady, arg, posted>>

PendEmpty(c) ==
  /\ Inside(c) /\ Leave(c) /\ Goto(c, "pend", "test")
  /\ DataLevel = 0 /\ dataReady' = FALSE
  /\ UNCHANGED <<mode, ring, arg, posted, taken>>

\* Another pender was faster: the call returns NULL.
RetakeNone(c) ==
  /\ Inside(c) /\ Leave(c) /\ Goto(c, "retake", "idle")
  /\ DataLevel = 0
  /\ UNCHANGED <<mode, ring, dataReady, arg, posted, taken>>

Test(c) ==
  /\ Goto(c, "test", IF dataReady THEN "verdict" ELSE "wait")
  /\ UNCHANGED <<section, mode, ring, dataReady, arg, posted, taken>>

WaitForEvent(c) ==
  /\ Goto(c, "wait", "waiting")
  /\ UNCHANGED <<section, mode, ring, dataReady, arg, posted, taken>>

Timeout(c) ==
  /\ c \notin Forever /\ Goto(c, "waiting", "verdict")
  /\ UNCHANGED <<section, mode, ring, dataReady, arg, posted, taken>>

\* pthread_cond_wait returns without a broadcast.
Spurious(c) ==
  /\ Goto(c, "waiting", "verdict")
  /\ UNCHANGED <<section, mode, ring, dataReady, arg, posted, taken>>

Verdict(c) ==
  /\ Goto(c, "verdict", IF dataReady THEN "retake" ELSE "idle")
  /\ UNCHANGED <<section, mode, ring, dataReady, arg, posted, taken>>

-----------------------------------------------------------------------------

Init ==
  /\ SectionInit
  /\ mode \in Modes /\ data = [s \in Slots |-> 0] /\ head = 0 /\ tail = 0
  /\ dataReady = FALSE
  /\ pc = [t \in Threads |-> "idle"] /\ arg = [t \in Threads |-> 0]
  /\ posted = 0 /\ taken = <<>>

Posting(p) == EnterSection(p) \/ Post(p) \/ PostFront(p) \/ PostFull(p)

Pending(c) ==
  \/ CallPend(c) \/ EnterSection(c) \/ PendTake(c) \/ PendEmpty(c)
  \/ RetakeNone(c) \/ Test(c) \/ WaitForEvent(c) \/ Timeout(c) \/ Verdict(c)

Next ==
  \/ \E p \in Posters : CallPost(p) \/ Posting(p)
  \/ \E c \in Penders : Pending(c) \/ Spurious(c)
  \/ \E t \in Threads : WakeInSection(t)

Spec == Init /\ [][Next]_vars

\* The threads are scheduled and the timeouts pass; a saver calls pend again and
\* again.  No image has to come, and no wake-up without a signal.
Fairness ==
  /\ \A p \in Posters : WF_vars(Posting(p))
  /\ \A c \in Penders : WF_vars(Pending(c))
FairSpec == Spec /\ Fairness

-----------------------------------------------------------------------------
(* Properties.                                                              *)

\* The type of the state.
TypeOK ==
  /\ refCount \in Nat /\ ownerThread \in Threads \union {Nobody}
  /\ asleep \subseteq Threads /\ woken \subseteq Threads
  /\ waitCount \in Int
  /\ mode \in Modes /\ data \in [Slots -> Images \union {0}]
  /\ head \in Slots /\ tail \in Slots
  /\ dataReady \in BOOLEAN
  /\ pc \in [Threads -> Steps] /\ arg \in [Threads -> Images \union {0}]
  /\ posted \in 0..MaxPosts /\ taken \in Seq(Images \union {0})

\* csection.c keeps the promise of a critical section, whatever threads come
\* between the signal and the thread it wakes.
Lock == INSTANCE Section WITH holder <- Holder
SectionSpec == Lock!Spec

\* The elements between tail and head, in the order they will be taken.
Slot(i) == IF tail + i - 1 < Size THEN tail + i - 1 ELSE tail + i - 1 - Size
Contents == [i \in 1..DataLevel |-> data[Slot(i)]]

\* dynaqueue.c keeps the promise of a bounded queue: the ring never loses,
\* repeats or reorders an image, but for the one that a post to a full queue
\* in mode Overwrite drops at the other end.
Queue == INSTANCE BoundedQueue WITH Elements <- Images, q <- Contents
QueueSpec == Queue!Spec

\* A queued image is taken, although the wake-up for it may get lost between
\* the pender's test of dataReady and its wait: the timeout makes up for it.
QueueDrains == DataLevel > 0 ~> DataLevel = 0

\* What the documentation of DQueuePendEx says (lines 446-450): without a
\* timeout the call waits for an empty queue to have data.  The code may go on
\* waiting when it has: the lost wake-up.
PendGetsData ==
  \A c \in Forever : pc[c] \in {"wait", "waiting"} /\ DataLevel > 0 ~> pc[c] = "idle"
=============================================================================
