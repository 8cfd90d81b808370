-------------------------- MODULE CriticalSection --------------------------
(***************************************************************************)
(* CRITICAL_SECTION of w32lib/corw32/csection.c: a count of entries, their *)
(* owner, and a condition variable for those that wait.  The mutex is held *)
(* throughout each call but for the wait, so a call is one step up to its  *)
(* wait and one step from each time it is woken.  A thread that comes      *)
(* along may enter before one that was woken.                              *)
(* The thread that has the section never enters it again here: the queue   *)
(* that uses it does not.                                                  *)
(***************************************************************************)
EXTENDS Integers

CONSTANTS Threads, Nobody

VARIABLES refCount, ownerThread, waitCount,
          asleep, woken   \* in pthread_cond_wait, and out of it again
section == <<refCount, ownerThread, waitCount, asleep, woken>>

\* ownerThread is not reset when the section is left.
Holder == IF refCount > 0 THEN ownerThread ELSE Nobody
Waits(t) == t \in asleep \union woken

ObtainCriticalSection(t) == refCount' = refCount + 1 /\ ownerThread' = t

EnterFree(t) ==
  /\ ~Waits(t) /\ refCount = 0
  /\ ObtainCriticalSection(t)
  /\ UNCHANGED <<waitCount, asleep, woken>>

EnterWait(t) ==
  /\ ~Waits(t) /\ refCount > 0 /\ ownerThread # t
  /\ waitCount' = waitCount + 1 /\ asleep' = asleep \union {t}
  /\ UNCHANGED <<refCount, ownerThread, woken>>

\* pthread_cond_wait may return without a signal.
WakeUp(t) ==
  /\ t \in asleep
  /\ asleep' = asleep \ {t} /\ woken' = woken \union {t}
  /\ UNCHANGED <<refCount, ownerThread, waitCount>>

RetryBlind(t) ==   \* mutant: "if" instead of "while" around the wait
  /\ t \in woken
  /\ ObtainCriticalSection(t) /\ waitCount' = waitCount - 1
  /\ woken' = woken \ {t} /\ asleep' = asleep

RetryObtains(t) ==
  /\ t \in woken /\ refCount = 0
  /\ ObtainCriticalSection(t) /\ waitCount' = waitCount - 1
  /\ woken' = woken \ {t} /\ asleep' = asleep

RetryWaits(t) ==
  /\ t \in woken /\ refCount > 0
  /\ woken' = woken \ {t} /\ asleep' = asleep \union {t}
  /\ UNCHANGED <<refCount, ownerThread, waitCount>>

LeaveSilent(t) ==   \* mutant: the condition variable is not signalled
  /\ ownerThread = t /\ refCount > 0
  /\ refCount' = refCount - 1
  /\ UNCHANGED <<ownerThread, waitCount, asleep, woken>>

\* The last to leave signals the condition variable, which wakes one thread.
Leave(t) ==
  /\ ownerThread = t /\ refCount > 0
  /\ refCount' = refCount - 1
  /\ IF refCount' = 0 /\ waitCount > 0 /\ asleep # {}
       THEN \E w \in asleep : asleep' = asleep \ {w} /\ woken' = woken \union {w}
       ELSE UNCHANGED <<asleep, woken>>
  /\ UNCHANGED <<ownerThread, waitCount>>

SectionInit ==
  /\ refCount = 0 /\ ownerThread = Nobody /\ waitCount = 0
  /\ asleep = {} /\ woken = {}

\* The steps of EnterCriticalSection a scheduled thread takes; WakeUp is luck.
Enter(t) == EnterFree(t) \/ EnterWait(t) \/ RetryObtains(t) \/ RetryWaits(t)
=============================================================================
