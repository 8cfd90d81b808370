---------------------------- MODULE QueueProofs ----------------------------
(* Proofs about ImageQueue, for any threads, capacity and number of posts.   *)
EXTENDS ImageQueue, SequenceTheorems, FiniteSetTheorems, TLAPS

-----------------------------------------------------------------------------
(* The ring as a sequence: what the macros of dynaqueue.h do to it.          *)

Level(h, t) == IF h >= t THEN h - t ELSE Size - (t - h)
At(t, i)    == IF t + i - 1 < Size THEN t + i - 1 ELSE t + i - 1 - Size

\* A ring that is not full gets e in slot s.
Fills(S, d, d2, s, h, t, e) ==
  /\ d \in [Slots -> S] /\ d2 \in [Slots -> S] /\ h \in Slots /\ t \in Slots
  /\ e \in S /\ Level(h, t) < Capacity
  /\ d2 = [d EXCEPT ![s] = e]
RingSeq(d, h, t) == [i \in 1..Level(h, t) |-> d[At(t, i)]]

LEMMA LevelBounds ==
  ASSUME NEW h \in Slots, NEW t \in Slots
  PROVE  /\ Level(h, t) \in 0..Capacity
         /\ \A i \in 1..Capacity : At(t, i) \in Slots
  BY QueueAssumption DEF Level, At, Size, Slots

\* q lists what is in a ring.
Lists(q, S, d, h, t) ==
  /\ q \in Seq(S) /\ Len(q) = Level(h, t) /\ Level(h, t) \in Nat
  /\ \A i \in 1..Level(h, t) : q[i] = d[At(t, i)] /\ At(t, i) \in Slots

LEMMA RingSeqIs ==
  ASSUME NEW S, NEW d \in [Slots -> S], NEW h \in Slots, NEW t \in Slots
  PROVE  Lists(RingSeq(d, h, t), S, d, h, t)
<1>0. \A i \in 1..Level(h, t) : At(t, i) \in Slots
  BY LevelBounds, QueueAssumption
<1>1. Level(h, t) \in Nat /\ \A i \in 1..Level(h, t) : d[At(t, i)] \in S
  BY LevelBounds, QueueAssumption
<1>2. RingSeq(d, h, t) \in Seq(S)
  BY <1>1 DEF RingSeq
<1> QED
  BY <1>0, <1>1, <1>2 DEF RingSeq, Lists

LEMMA RingMoves ==
  ASSUME NEW i \in Slots
  PROVE  Inc(i) \in Slots /\ Dec(i) \in Slots
  BY QueueAssumption DEF Inc, Dec, Slots, Size

\* PUSH_FIFO appends.
LEMMA PutRing ==
  ASSUME NEW S, NEW d, NEW d2, NEW h, NEW t, NEW e, Fills(S, d, d2, h, h, t, e)
  PROVE  RingSeq(d2, Inc(h), t) = Append(RingSeq(d, h, t), e)
<1> DEFINE q  == RingSeq(d, h, t)
           q2 == RingSeq(d2, Inc(h), t)
<1>1. /\ d \in [Slots -> S] /\ d2 \in [Slots -> S] /\ h \in Slots /\ t \in Slots
      /\ e \in S /\ Level(h, t) < Capacity
  BY DEF Fills
<1>2. Inc(h) \in Slots
  BY <1>1, RingMoves
<1>3. /\ Level(Inc(h), t) = Level(h, t) + 1
      /\ At(t, Level(h, t) + 1) = h
      /\ \A i \in 1..Level(h, t) : At(t, i) # h
  BY <1>1, QueueAssumption DEF Level, At, Inc, Size, Slots
<1>4. Lists(q, S, d, h, t)
  BY <1>1, RingSeqIs
<1>5. q \in Seq(S) /\ Len(q) = Level(h, t) /\ Level(h, t) \in Nat
      /\ \A i \in 1..Level(h, t) : q[i] = d[At(t, i)] /\ At(t, i) \in Slots
  BY <1>4 DEF Lists
<1>6. Lists(q2, S, d2, Inc(h), t)
  BY <1>1, <1>2, RingSeqIs
<1>7. /\ q2 \in Seq(S) /\ Len(q2) = Level(Inc(h), t) /\ Level(Inc(h), t) \in Nat
      /\ \A i \in 1..Level(Inc(h), t) : q2[i] = d2[At(t, i)] /\ At(t, i) \in Slots
  <2> HIDE DEF q2
  <2> QED
    BY <1>6 DEF Lists
<1>8. q2 \in Seq(S) /\ Len(q2) = Level(h, t) + 1
      /\ \A i \in 1..(Level(h, t) + 1) : q2[i] = d2[At(t, i)]
  BY <1>7, <1>3, <1>5
<1>9. ASSUME NEW i \in 1..Level(h, t) PROVE q2[i] = q[i]
  <2>1. i \in 1..(Level(h, t) + 1)
    BY <1>5
  <2>2. q2[i] = d2[At(t, i)] /\ q[i] = d[At(t, i)] /\ At(t, i) \in Slots \ {h}
    BY <2>1, <1>3, <1>5, <1>8
  <2> HIDE DEF q, q2
  <2> QED
    BY <2>2, <1>1 DEF Fills
<1>10. q2[Level(h, t) + 1] = e
  <2>1. q2[Level(h, t) + 1] = d2[h]
    <3> HIDE DEF q, q2
    <3> QED
      BY <1>3, <1>5, <1>8
  <2> QED
    BY <2>1, <1>1 DEF Fills
<1>11. /\ Append(q, e) \in Seq(S) /\ Len(Append(q, e)) = Level(h, t) + 1
      /\ \A i \in 1..Level(h, t) : Append(q, e)[i] = q[i]
      /\ Append(q, e)[Level(h, t) + 1] = e
  BY <1>1, <1>5, AppendProperties
<1> HIDE DEF q, q2
<1>12. ASSUME NEW i \in 1..Len(q2) PROVE q2[i] = Append(q, e)[i]
  <2>1. i \in 1..Level(h, t) \/ i = Level(h, t) + 1
    BY <1>5, <1>8
  <2> QED
    <3>1. CASE i \in 1..Level(h, t)
      <4>1. q2[i] = q[i] /\ Append(q, e)[i] = q[i]
        BY <3>1, <1>9, <1>11
      <4> QED
        BY <4>1
    <3>2. CASE i = Level(h, t) + 1
      BY <3>2, <1>10, <1>11
    <3> QED
      BY <2>1, <3>1, <3>2
<1>13. q2 = Append(q, e)
  BY <1>8, <1>11, <1>12, SeqEqual
<1> QED
  BY <1>13 DEF q, q2

\* POP_FIFO takes the head of the sequence.
LEMMA TakeRing ==
  ASSUME NEW S, NEW d \in [Slots -> S], NEW h \in Slots, NEW t \in Slots,
         Level(h, t) > 0
  PROVE  /\ RingSeq(d, h, t) # <<>>
         /\ RingSeq(d, h, Inc(t)) = Tail(RingSeq(d, h, t))
         /\ Level(h, Inc(t)) = Level(h, t) - 1
         /\ Head(RingSeq(d, h, t)) = d[t]
<1> DEFINE q  == RingSeq(d, h, t)
           q2 == RingSeq(d, h, Inc(t))
<1>1. Inc(t) \in Slots
  BY RingMoves
<1>2. /\ Level(h, Inc(t)) = Level(h, t) - 1
      /\ At(t, 1) = t
      /\ \A i \in 1..(Level(h, t) - 1) : At(Inc(t), i) = At(t, i + 1)
  BY QueueAssumption DEF Level, At, Inc, Size, Slots
<1>3. Lists(q, S, d, h, t)
  BY RingSeqIs
<1>4. q \in Seq(S) /\ Len(q) = Level(h, t) /\ Level(h, t) \in Nat
      /\ \A i \in 1..Level(h, t) : q[i] = d[At(t, i)] /\ At(t, i) \in Slots
  BY <1>3 DEF Lists
<1>5. Lists(q2, S, d, h, Inc(t))
  BY <1>1, RingSeqIs
<1>6. /\ q2 \in Seq(S) /\ Len(q2) = Level(h, Inc(t)) /\ Level(h, Inc(t)) \in Nat
      /\ \A i \in 1..Level(h, Inc(t)) : q2[i] = d[At(Inc(t), i)] /\ At(Inc(t), i) \in Slots
  <2> HIDE DEF q2
  <2> QED
    BY <1>5 DEF Lists
<1>7. q2 \in Seq(S) /\ Len(q2) = Level(h, t) - 1
      /\ \A i \in 1..(Level(h, t) - 1) : q2[i] = d[At(Inc(t), i)]
  BY <1>6, <1>2, <1>4
<1> HIDE DEF q, q2
<1>8. q # <<>>
  BY <1>4, EmptySeq
<1>9. Tail(q) \in Seq(S) /\ Len(Tail(q)) = Level(h, t) - 1
      /\ \A i \in 1..(Level(h, t) - 1) : Tail(q)[i] = q[i + 1]
  BY <1>4, <1>8, HeadTailProperties
<1>10. \A i \in 1..Len(q2) : q2[i] = Tail(q)[i]
  BY <1>2, <1>4, <1>7, <1>9
<1>11. q2 = Tail(q)
  BY <1>7, <1>9, <1>10, SeqEqual
<1>12. Head(q) = d[t]
  BY <1>2, <1>4, <1>8
<1> QED
  BY <1>2, <1>8, <1>11, <1>12 DEF q, q2

\* PUSH_LIFO puts before the head.
LEMMA FrontRing ==
  ASSUME NEW S, NEW d, NEW d2, NEW h, NEW t, NEW e, Fills(S, d, d2, Dec(t), h, t, e)
  PROVE  RingSeq(d2, h, Dec(t)) = <<e>> \o RingSeq(d, h, t)
<1> DEFINE q  == RingSeq(d, h, t)
           q2 == RingSeq(d2, h, Dec(t))
<1>1. /\ d \in [Slots -> S] /\ d2 \in [Slots -> S] /\ h \in Slots /\ t \in Slots
      /\ e \in S /\ Level(h, t) < Capacity
  BY DEF Fills
<1>2. Dec(t) \in Slots
  BY <1>1, RingMoves
<1>3. /\ Level(h, Dec(t)) = Level(h, t) + 1
      /\ At(Dec(t), 1) = Dec(t)
      /\ \A i \in 1..Level(h, t) : At(Dec(t), i + 1) = At(t, i) /\ At(t, i) # Dec(t)
  BY <1>1, QueueAssumption DEF Level, At, Dec, Size, Slots
<1>4. Lists(q, S, d, h, t)
  BY <1>1, RingSeqIs
<1>5. q \in Seq(S) /\ Len(q) = Level(h, t) /\ Level(h, t) \in Nat
      /\ \A i \in 1..Level(h, t) : q[i] = d[At(t, i)] /\ At(t, i) \in Slots
  BY <1>4 DEF Lists
<1>6. Lists(q2, S, d2, h, Dec(t))
  BY <1>1, <1>2, RingSeqIs
<1>7. /\ q2 \in Seq(S) /\ Len(q2) = Level(h, Dec(t)) /\ Level(h, Dec(t)) \in Nat
      /\ \A i \in 1..Level(h, Dec(t)) : q2[i] = d2[At(Dec(t), i)] /\ At(Dec(t), i) \in Slots
  <2> HIDE DEF q2
  <2> QED
    BY <1>6 DEF Lists
<1>8. q2 \in Seq(S) /\ Len(q2) = Level(h, t) + 1
      /\ \A i \in 1..(Level(h, t) + 1) : q2[i] = d2[At(Dec(t), i)]
  BY <1>7, <1>3, <1>5
<1>9. ASSUME NEW i \in 1..Level(h, t) PROVE q2[i + 1] = q[i]
  <2>1. i + 1 \in 1..(Level(h, t) + 1)
    BY <1>5
  <2>2. /\ q2[i + 1] = d2[At(Dec(t), i + 1)] /\ q[i] = d[At(t, i)]
        /\ At(Dec(t), i + 1) = At(t, i) /\ At(t, i) \in Slots \ {Dec(t)}
    <3> HIDE DEF q, q2
    <3> QED
      BY <2>1, <1>3, <1>5, <1>8
  <2> HIDE DEF q, q2
  <2> QED
    BY <2>2, <1>1 DEF Fills
<1>10. q2[1] = e
  <2>1. q2[1] = d2[Dec(t)]
    <3> HIDE DEF q, q2
    <3> QED
      BY <1>3, <1>5, <1>8
  <2> QED
    BY <2>1, <1>1, <1>2 DEF Fills
<1>11. <<e>> \in Seq(S) /\ Len(<<e>>) = 1 /\ <<e>>[1] = e
  BY <1>1
<1> HIDE DEF q, q2
<1>12. /\ <<e>> \o q \in Seq(S) /\ Len(<<e>> \o q) = Level(h, t) + 1
      /\ \A i \in 1..(Level(h, t) + 1) :
           (<<e>> \o q)[i] = IF i <= 1 THEN <<e>>[i] ELSE q[i - 1]
  <2>1. /\ <<e>> \o q \in Seq(S) /\ Len(<<e>> \o q) = Len(<<e>>) + Len(q)
        /\ \A i \in 1..(Len(<<e>>) + Len(q)) :
             (<<e>> \o q)[i] = IF i <= Len(<<e>>) THEN <<e>>[i] ELSE q[i - Len(<<e>>)]
    BY <1>5, <1>11, ConcatProperties
  <2> QED
    BY <2>1, <1>5, <1>11
<1>13. ASSUME NEW i \in 1..Len(q2) PROVE q2[i] = (<<e>> \o q)[i]
  <2>1. CASE i = 1
    BY <2>1, <1>5, <1>8, <1>10, <1>11, <1>12
  <2>2. CASE i # 1
    <3>1. i - 1 \in 1..Level(h, t) /\ (i - 1) + 1 = i
      BY <2>2, <1>5, <1>8
    <3>2. q2[i] = q[i - 1]
      BY <3>1, <1>9
    <3> QED
      BY <3>1, <3>2, <2>2, <1>5, <1>8, <1>12
  <2> QED
    BY <2>1, <2>2
<1>14. q2 = <<e>> \o q
  BY <1>8, <1>12, <1>13, SeqEqual
<1> QED
  BY <1>14 DEF q, q2

\* POP_HEAD drops the last element.
LEMMA DropRing ==
  ASSUME NEW S, NEW d \in [Slots -> S], NEW h \in Slots, NEW t \in Slots,
         Level(h, t) > 0
  PROVE  /\ RingSeq(d, Dec(h), t)
              = SubSeq(RingSeq(d, h, t), 1, Len(RingSeq(d, h, t)) - 1)
         /\ Level(Dec(h), t) = Level(h, t) - 1
<1> DEFINE q  == RingSeq(d, h, t)
           q2 == RingSeq(d, Dec(h), t)
           n  == Level(h, t) - 1
<1>1. Dec(h) \in Slots
  BY RingMoves
<1>2. Level(Dec(h), t) = n
  BY QueueAssumption DEF Level, Dec, Size, Slots
<1>3. Lists(q, S, d, h, t)
  BY RingSeqIs
<1>4. q \in Seq(S) /\ Len(q) = Level(h, t) /\ Level(h, t) \in Nat
      /\ \A i \in 1..Level(h, t) : q[i] = d[At(t, i)] /\ At(t, i) \in Slots
  BY <1>3 DEF Lists
<1>5. q \in Seq(S) /\ Len(q) = Level(h, t) /\ n \in Nat
  BY <1>4
<1>6. Lists(q2, S, d, Dec(h), t)
  BY <1>1, RingSeqIs
<1>7. /\ q2 \in Seq(S) /\ Len(q2) = Level(Dec(h), t) /\ Level(Dec(h), t) \in Nat
      /\ \A i \in 1..Level(Dec(h), t) : q2[i] = d[At(t, i)] /\ At(t, i) \in Slots
  <2> HIDE DEF q2
  <2> QED
    BY <1>6 DEF Lists
<1>8. q2 \in Seq(S) /\ Len(q2) = n /\ \A i \in 1..n : q2[i] = d[At(t, i)]
  BY <1>7, <1>2, <1>5
<1>9. Level(h, t) \in Int /\ \A i \in 1..n : i \in 1..Level(h, t)
  BY LevelBounds, QueueAssumption
<1> HIDE DEF q, q2
<1>10. \A i \in 1..n : q[i] \in S
  BY <1>5, <1>9, ElementOfSeq
<1>11. /\ SubSeq(q, 1, n) \in Seq(S) /\ Len(SubSeq(q, 1, n)) = n
      /\ \A i \in 1..n : SubSeq(q, 1, n)[i] = q[i]
  <2>1. /\ SubSeq(q, 1, n) \in Seq(S)
        /\ Len(SubSeq(q, 1, n)) = IF 1 <= n THEN n - 1 + 1 ELSE 0
        /\ \A i \in 1..(n - 1 + 1) : SubSeq(q, 1, n)[i] = q[1 + i - 1]
    BY <1>5, <1>10, SubSeqProperties
  <2> QED
    BY <2>1, <1>5
<1>12. ASSUME NEW i \in 1..Len(q2) PROVE q2[i] = SubSeq(q, 1, n)[i]
  <2>1. i \in 1..n /\ i \in 1..Level(h, t)
    BY <1>8, <1>9
  <2> HIDE DEF n
  <2> QED
    BY <2>1, <1>4, <1>8, <1>11
<1>13. q2 = SubSeq(q, 1, n)
  BY <1>8, <1>11, <1>12, SeqEqual
<1> QED
  BY <1>2, <1>5, <1>13 DEF q, q2

-----------------------------------------------------------------------------
(* The invariant, in the parts that change together.                         *)

SectionType ==
  /\ refCount \in {0, 1} /\ ownerThread \in Threads \union {Nobody}
  /\ asleep \subseteq Threads /\ woken \subseteq Threads
  /\ waitCount \in Int

Elements == Images \union {0}

RingType ==
  /\ mode \in Modes /\ data \in [Slots -> Elements]
  /\ head \in Slots /\ tail \in Slots
  /\ dataReady \in BOOLEAN

\* A call that posts has something to post.
CallType ==
  /\ pc \in [Threads -> Steps] /\ arg \in [Threads -> Elements]
  /\ posted \in 0..MaxPosts
  /\ \A t \in Threads : pc[t] \in {"post", "front"} => arg[t] \in Images

TakenType == taken \in Seq(Elements)

QueueInv == SectionType /\ RingType /\ CallType /\ TakenType

LEMMA InvIsTyped == QueueInv => TypeOK
  BY DEF QueueInv, SectionType, RingType, CallType, TakenType, Elements, TypeOK

LEMMA InvInit == Init => QueueInv
<1> SUFFICES ASSUME Init PROVE QueueInv
  OBVIOUS
<1> USE DEF Init, SectionInit
<1>1. SectionType
  BY DEF SectionType
<1>2. RingType
  BY QueueAssumption DEF RingType, Slots, Elements
<1>3. CallType
  BY QueueAssumption DEF CallType, Steps, Elements
<1>4. TakenType
  BY DEF TakenType
<1> QED
  BY <1>1, <1>2, <1>3, <1>4 DEF QueueInv

-----------------------------------------------------------------------------
(* The critical section.                                                     *)

LEMMA EnterSteps ==
  ASSUME NEW t \in Threads, SectionType, Enter(t)
  PROVE  SectionType' /\ (Holder' = Holder \/ (Holder = Nobody /\ Holder' = t))
<1> USE DEF SectionType, Holder
<1>1. CASE EnterFree(t)
  BY <1>1 DEF EnterFree, ObtainCriticalSection
<1>2. CASE EnterWait(t)
  BY <1>2 DEF EnterWait
<1>3. CASE RetryObtains(t)
  BY <1>3 DEF RetryObtains, ObtainCriticalSection
<1>4. CASE RetryWaits(t)
  BY <1>4 DEF RetryWaits
<1> QED
  BY <1>1, <1>2, <1>3, <1>4 DEF Enter

LEMMA LeaveSteps ==
  ASSUME NEW t \in Threads, SectionType, Leave(t)
  PROVE  SectionType' /\ Holder = t /\ Holder' = Nobody
<1>1. refCount = 1 /\ refCount' = 0 /\ ownerThread = t
  BY DEF Leave, SectionType
<1>2. asleep' \subseteq Threads /\ woken' \subseteq Threads
  BY DEF Leave, SectionType
<1> QED
  BY <1>1, <1>2 DEF Leave, SectionType, Holder

LEMMA WakeUpSteps ==
  ASSUME NEW t \in Threads, SectionType, WakeUp(t)
  PROVE  SectionType' /\ Holder' = Holder
  BY DEF SectionType, Holder, WakeUp

LEMMA SectionStays ==
  SectionType /\ UNCHANGED section => SectionType' /\ Holder' = Holder
  BY DEF SectionType, Holder, section

-----------------------------------------------------------------------------
(* What each step of the queue keeps.                                        *)

LEMMA GotoKeeps ==
  ASSUME NEW t \in Threads, NEW from, NEW to \in Steps \ {"post", "front"},
         CallType, Goto(t, from, to),
         arg' = arg \/ arg' = [arg EXCEPT ![t] = 0], UNCHANGED posted
  PROVE  CallType'
<1>1. pc' = [pc EXCEPT ![t] = to]
  BY DEF Goto
<1>2. pc' \in [Threads -> Steps] /\ arg' \in [Threads -> Elements]
  BY <1>1 DEF CallType, Elements
<1>3. ASSUME NEW u \in Threads, pc'[u] \in {"post", "front"}
      PROVE  arg'[u] \in Images
  BY <1>1, <1>3 DEF CallType
<1> QED
  BY <1>2, <1>3 DEF CallType

LEMMA SetEventKeeps ==
  ASSUME NEW t \in Threads, CallType, SetEvent(t),
         arg' = [arg EXCEPT ![t] = 0], UNCHANGED posted
  PROVE  CallType'
<1>1. pc' \in [Threads -> Steps] /\ arg' \in [Threads -> Elements]
  BY DEF SetEvent, CallType, Steps, Elements
<1>2. ASSUME NEW u \in Threads, pc'[u] \in {"post", "front"}
      PROVE  arg'[u] \in Images
  <2>1. u # t /\ pc[u] = pc'[u]
    BY <1>2 DEF SetEvent, CallType, Steps
  <2> QED
    BY <2>1, <1>2 DEF CallType
<1> QED
  BY <1>1, <1>2 DEF CallType

LEMMA CallPostKeeps ==
  ASSUME NEW t \in Threads, CallType, CallPost(t)
  PROVE  CallType'
<1>1. posted + 1 \in Images /\ posted' = posted + 1
  BY QueueAssumption DEF CallPost, CallType, Images
<1>2. PICK to \in {"post", "front"} : pc' = [pc EXCEPT ![t] = to]
  BY DEF CallPost, Goto
<1>3. arg' = [arg EXCEPT ![t] = posted + 1]
  BY DEF CallPost
<1>4. pc' \in [Threads -> Steps] /\ arg' \in [Threads -> Elements]
  BY <1>1, <1>2, <1>3 DEF CallType, Steps, Elements
<1>5. posted' \in 0..MaxPosts
  BY <1>1, QueueAssumption DEF Images
<1>6. ASSUME NEW u \in Threads, pc'[u] \in {"post", "front"}
      PROVE  arg'[u] \in Images
  BY <1>1, <1>2, <1>3, <1>6 DEF CallType
<1> QED
  BY <1>4, <1>5, <1>6 DEF CallType

-----------------------------------------------------------------------------
(* The steps that change the ring are those of BoundedQueue.                 *)

LEMMA ContentsAre ==
  /\ Contents = RingSeq(data, head, tail) /\ DataLevel = Level(head, tail)
  /\ Contents' = RingSeq(data', head', tail') /\ DataLevel' = Level(head', tail')
<1>1. \A i : Slot(i) = At(tail, i) /\ Slot(i)' = At(tail', i)
  BY DEF Slot, At
<1>2. DataLevel = Level(head, tail) /\ DataLevel' = Level(head', tail')
  BY DEF DataLevel, Level
<1> QED
  BY <1>1, <1>2 DEF Contents, RingSeq, Slot, At

LEMMA FreeSpaceIs ==
  ASSUME RingType
  PROVE  FreeSpace = Capacity - Level(head, tail)
  BY QueueAssumption DEF RingType, FreeSpace, Level, Size, Slots

LEMMA ContentsLists ==
  ASSUME RingType
  PROVE  /\ Contents \in Seq(Elements) /\ Len(Contents) = Level(head, tail)
         /\ Level(head, tail) \in 0..Capacity
<1>1. Lists(RingSeq(data, head, tail), Elements, data, head, tail)
  BY RingSeqIs DEF RingType
<1>2. Level(head, tail) \in 0..Capacity
  BY LevelBounds DEF RingType
<1> QED
  BY <1>1, <1>2, ContentsAre DEF Lists

LEMMA RingSame ==
  RingType /\ UNCHANGED <<mode, ring>> /\ dataReady' \in BOOLEAN
    => RingType' /\ Contents' = Contents
  BY ContentsAre DEF RingType, ring

LEMMA PostSteps ==
  ASSUME NEW p \in Threads, RingType, CallType, Post(p)
  PROVE  RingType' /\ Queue!Put(arg[p])
<1> DEFINE e == arg[p]
<1>1. e \in Images /\ e \in Elements
  BY DEF Post, CallType, Elements
<1>2. /\ head \in Slots /\ tail \in Slots /\ data \in [Slots -> Elements]
      /\ Inc(head) \in Slots /\ Inc(tail) \in Slots
  BY RingMoves DEF RingType
<1>3. data' = [data EXCEPT ![head] = e] /\ head' = Inc(head)
  BY DEF Post, Push
<1>4. data' \in [Slots -> Elements]
  BY <1>1, <1>2, <1>3
<1>5. /\ UNCHANGED <<mode, taken>> /\ dataReady' = TRUE
      /\ tail' = IF FreeSpace > 0 THEN tail ELSE Inc(tail)
      /\ FreeSpace > 0 \/ mode = "Overwrite"
  BY DEF Post, SetEvent, Pop
<1>6. RingType'
  BY <1>2, <1>3, <1>4, <1>5 DEF RingType
<1> HIDE DEF e
<1>7. CASE FreeSpace > 0
  <2>1. Level(head, tail) < Capacity /\ Len(Contents) < Capacity
    BY <1>7, FreeSpaceIs, ContentsLists, QueueAssumption
  <2>2. Contents' = Append(Contents, e)
    <3>1. RingSeq(data', Inc(head), tail) = Append(RingSeq(data, head, tail), e)
      <4>1. Fills(Elements, data, data', head, head, tail, e)
        BY <2>1, <1>1, <1>2, <1>3, <1>4 DEF Fills
      <4> QED
        BY <4>1, PutRing
    <3> QED
      BY <3>1, <1>3, <1>5, <1>7, ContentsAre
  <2> QED
    BY <2>1, <2>2, <1>5, <1>6 DEF Queue!Put, Queue!Accepts, e
<1>8. CASE ~(FreeSpace > 0)
  <2>1. Level(head, tail) > 0 /\ Len(Contents) = Capacity /\ Capacity \in Nat
        /\ Level(head, tail) = Capacity
    BY <1>8, FreeSpaceIs, ContentsLists, QueueAssumption
  <2>2. /\ RingSeq(data, head, Inc(tail)) = Tail(RingSeq(data, head, tail))
        /\ Level(head, Inc(tail)) = Level(head, tail) - 1
    BY <2>1, <1>2, TakeRing
  <2>3. Level(head, Inc(tail)) < Capacity
    BY <2>1, <2>2
  <2>4. RingSeq(data', Inc(head), Inc(tail)) = Append(RingSeq(data, head, Inc(tail)), e)
    <3>1. Fills(Elements, data, data', head, head, Inc(tail), e)
      BY <2>3, <1>1, <1>2, <1>3, <1>4 DEF Fills
    <3> QED
      BY <3>1, PutRing
  <2>5. Contents' = Append(Tail(Contents), e)
    BY <2>2, <2>4, <1>3, <1>5, <1>8, ContentsAre
  <2>6. ~(Len(Contents) < Capacity)
    BY <2>1
  <2> QED
    BY <2>5, <2>6, <1>5, <1>6, <1>8 DEF Queue!Put, Queue!Accepts, e
<1> QED
  BY <1>7, <1>8

LEMMA PostFrontSteps ==
  ASSUME NEW p \in Threads, RingType, CallType, PostFront(p)
  PROVE  RingType' /\ Queue!PutFront(arg[p])
<1> DEFINE e == arg[p]
<1>1. e \in Images /\ e \in Elements
  BY DEF PostFront, CallType, Elements
<1>2. /\ head \in Slots /\ tail \in Slots /\ data \in [Slots -> Elements]
      /\ Dec(head) \in Slots /\ Dec(tail) \in Slots
  BY RingMoves DEF RingType
<1>3. data' = [data EXCEPT ![Dec(tail)] = e] /\ tail' = Dec(tail)
  BY DEF PostFront, PushFront
<1>4. data' \in [Slots -> Elements]
  BY <1>1, <1>2, <1>3
<1>5. /\ UNCHANGED <<mode, taken>> /\ dataReady' = TRUE
      /\ head' = IF FreeSpace # 0 THEN head ELSE Dec(head)
      /\ FreeSpace # 0 \/ mode = "Overwrite"
  BY DEF PostFront, SetEvent
<1>6. RingType'
  BY <1>2, <1>3, <1>4, <1>5 DEF RingType
<1> HIDE DEF e
<1>7. CASE FreeSpace # 0
  <2>1. Level(head, tail) < Capacity /\ Len(Contents) < Capacity
    BY <1>7, FreeSpaceIs, ContentsLists, QueueAssumption
  <2>2. Contents' = <<e>> \o Contents
    <3>1. RingSeq(data', head, Dec(tail)) = <<e>> \o RingSeq(data, head, tail)
      <4>1. Fills(Elements, data, data', Dec(tail), head, tail, e)
        BY <2>1, <1>1, <1>2, <1>3, <1>4 DEF Fills
      <4> QED
        BY <4>1, FrontRing
    <3> QED
      BY <3>1, <1>3, <1>5, <1>7, ContentsAre
  <2> QED
    BY <2>1, <2>2, <1>5, <1>6 DEF Queue!PutFront, Queue!Accepts, e
<1>8. CASE FreeSpace = 0
  <2>1. Level(head, tail) > 0 /\ Len(Contents) = Capacity /\ Capacity \in Nat
        /\ Level(head, tail) = Capacity
    BY <1>8, FreeSpaceIs, ContentsLists, QueueAssumption
  <2>2. /\ RingSeq(data, Dec(head), tail)
             = SubSeq(RingSeq(data, head, tail), 1, Len(RingSeq(data, head, tail)) - 1)
        /\ Level(Dec(head), tail) = Level(head, tail) - 1
    BY <2>1, <1>2, DropRing
  <2>3. Level(Dec(head), tail) < Capacity
    BY <2>1, <2>2
  <2>4. RingSeq(data', Dec(head), Dec(tail)) = <<e>> \o RingSeq(data, Dec(head), tail)
    <3>1. Fills(Elements, data, data', Dec(tail), Dec(head), tail, e)
      BY <2>3, <1>1, <1>2, <1>3, <1>4 DEF Fills
    <3> QED
      BY <3>1, FrontRing
  <2>5. Contents' = <<e>> \o SubSeq(Contents, 1, Len(Contents) - 1)
    BY <2>2, <2>4, <1>3, <1>5, <1>8, ContentsAre
  <2>6. ~(Len(Contents) < Capacity)
    BY <2>1
  <2> QED
    BY <2>5, <2>6, <1>5, <1>6, <1>8 DEF Queue!PutFront, Queue!Accepts, e
<1> QED
  BY <1>7, <1>8

LEMMA TakeSteps ==
  ASSUME RingType, TakenType, TakeOne, UNCHANGED <<mode, dataReady>>
  PROVE  RingType' /\ TakenType' /\ Queue!Take
<1>1. /\ head \in Slots /\ tail \in Slots /\ data \in [Slots -> Elements]
      /\ Inc(tail) \in Slots
  BY RingMoves DEF RingType
<1>2. /\ tail' = Inc(tail) /\ UNCHANGED <<data, head>> /\ DataLevel > 0
      /\ taken' = Append(taken, data[tail])
  BY DEF TakeOne, Pop
<1>3. RingType'
  BY <1>1, <1>2 DEF RingType
<1>4. Level(head, tail) > 0
  BY <1>2, ContentsAre
<1>5. /\ Contents # <<>> /\ Contents' = Tail(Contents)
      /\ Head(Contents) = data[tail]
  <2>1. /\ RingSeq(data, head, tail) # <<>>
        /\ RingSeq(data, head, Inc(tail)) = Tail(RingSeq(data, head, tail))
        /\ Head(RingSeq(data, head, tail)) = data[tail]
    BY <1>1, <1>4, TakeRing
  <2> QED
    BY <2>1, <1>2, ContentsAre
<1>6. TakenType'
  <2>1. data[tail] \in Elements
    BY <1>1
  <2> QED
    BY <2>1, <1>2, AppendProperties DEF TakenType
<1> QED
  BY <1>2, <1>3, <1>5, <1>6 DEF Queue!Take

-----------------------------------------------------------------------------
(* Every step keeps the invariant and is a step of Section and BoundedQueue. *)

SectionStep == Holder' = Holder \/ Lock!Next
QueueStep == <<mode, Contents, taken>>' = <<mode, Contents, taken>> \/ Queue!Next
Good == QueueInv' /\ SectionStep /\ QueueStep

LEMMA PosterSteps ==
  ASSUME NEW p \in Threads, QueueInv, CallPost(p) \/ Posting(p)
  PROVE  Good
<1> USE DEF QueueInv, Good
<1>1. CASE CallPost(p)
  <2>1. UNCHANGED <<section, mode, ring, dataReady, taken>>
    BY <1>1 DEF CallPost
  <2>2. SectionType' /\ Holder' = Holder
    BY <2>1, SectionStays
  <2>3. RingType' /\ Contents' = Contents
    BY <2>1, RingSame DEF RingType
  <2>4. CallType'
    BY <1>1, CallPostKeeps
  <2> QED
    BY <2>1, <2>2, <2>3, <2>4 DEF TakenType, SectionStep, QueueStep
<1>2. CASE EnterSection(p)
  <2>1. Enter(p) /\ UNCHANGED <<mode, ring, dataReady, threads, posted, taken>>
    BY <1>2 DEF EnterSection
  <2>2. SectionType' /\ SectionStep
    BY <2>1, EnterSteps DEF SectionStep, Lock!Next, Lock!Enter
  <2>3. RingType' /\ Contents' = Contents
    BY <2>1, RingSame DEF RingType
  <2>4. CallType'
    BY <2>1 DEF CallType, threads
  <2> QED
    BY <2>1, <2>2, <2>3, <2>4 DEF TakenType, QueueStep
<1>3. CASE Post(p)
  <2>1. Leave(p) /\ pc[p] = "post" /\ UNCHANGED taken
    BY <1>3 DEF Post
  <2>2. SectionType' /\ SectionStep
    BY <2>1, LeaveSteps DEF SectionStep, Lock!Next, Lock!Leave
  <2>3. RingType' /\ Queue!Put(arg[p])
    BY <1>3, PostSteps
  <2>4. arg[p] \in Images
    BY <2>1 DEF CallType
  <2>5. CallType'
    BY <1>3, SetEventKeeps DEF Post
  <2> QED
    BY <2>1, <2>2, <2>3, <2>4, <2>5 DEF TakenType, QueueStep, Queue!Next
<1>4. CASE PostFront(p)
  <2>1. Leave(p) /\ pc[p] = "front" /\ UNCHANGED taken
    BY <1>4 DEF PostFront
  <2>2. SectionType' /\ SectionStep
    BY <2>1, LeaveSteps DEF SectionStep, Lock!Next, Lock!Leave
  <2>3. RingType' /\ Queue!PutFront(arg[p])
    BY <1>4, PostFrontSteps
  <2>4. arg[p] \in Images
    BY <2>1 DEF CallType
  <2>5. CallType'
    BY <1>4, SetEventKeeps DEF PostFront
  <2> QED
    BY <2>1, <2>2, <2>3, <2>4, <2>5 DEF TakenType, QueueStep, Queue!Next
<1>5. CASE PostFull(p)
  <2>1. /\ Leave(p) /\ UNCHANGED <<mode, ring, dataReady, posted, taken>>
        /\ arg' = [arg EXCEPT ![p] = 0]
    BY <1>5 DEF PostFull
  <2>2. SectionType' /\ SectionStep
    BY <2>1, LeaveSteps DEF SectionStep, Lock!Next, Lock!Leave
  <2>3. RingType' /\ Contents' = Contents
    BY <2>1, RingSame DEF RingType
  <2>4. "idle" \in Steps \ {"post", "front"}
    BY DEF Steps
  <2>5. Goto(p, "post", "idle") \/ Goto(p, "front", "idle")
    BY <1>5 DEF PostFull
  <2>6. CallType'
    BY <2>1, <2>4, <2>5, GotoKeeps
  <2> QED
    BY <2>1, <2>2, <2>3, <2>6 DEF TakenType, QueueStep
<1> QED
  BY <1>1, <1>2, <1>3, <1>4, <1>5 DEF Posting

\* A step of a pender outside the section.
LEMMA OutsideSteps ==
  ASSUME NEW c \in Threads, QueueInv,
         NEW from, NEW to \in Steps \ {"post", "front"}, Goto(c, from, to),
         UNCHANGED <<section, mode, ring, dataReady, arg, posted, taken>>
  PROVE  Good
<1> USE DEF QueueInv, Good
<1>1. SectionType' /\ Holder' = Holder
  BY SectionStays
<1>2. RingType' /\ Contents' = Contents
  BY RingSame DEF RingType
<1>3. CallType'
  BY GotoKeeps
<1> QED
  BY <1>1, <1>2, <1>3 DEF TakenType, SectionStep, QueueStep

\* The last step of a pender in the section, without an image.
LEMMA LeavingSteps ==
  ASSUME NEW c \in Threads, QueueInv, Leave(c), dataReady' \in BOOLEAN,
         NEW from, NEW to \in Steps \ {"post", "front"}, Goto(c, from, to),
         UNCHANGED <<mode, ring, arg, posted, taken>>
  PROVE  Good
<1> USE DEF QueueInv, Good
<1>1. SectionType' /\ SectionStep
  BY LeaveSteps DEF SectionStep, Lock!Next, Lock!Leave
<1>2. RingType' /\ Contents' = Contents
  BY RingSame
<1>3. CallType'
  BY GotoKeeps
<1> QED
  BY <1>1, <1>2, <1>3 DEF TakenType, QueueStep

LEMMA PenderSteps ==
  ASSUME NEW c \in Threads, QueueInv, Pending(c) \/ Spurious(c)
  PROVE  Good
<1>0. {"idle", "pend", "test", "wait", "waiting", "verdict", "retake"}
        \subseteq Steps \ {"post", "front"}
  BY DEF Steps
<1>1. CASE CallPend(c)
  BY <1>0, <1>1, OutsideSteps DEF CallPend
<1>2. CASE EnterSection(c)
  BY <1>2, PosterSteps DEF Posting
<1>3. CASE PendTake(c)
  <2> USE DEF QueueInv, Good
  <2>1. /\ Leave(c) /\ TakeOne /\ UNCHANGED <<mode, dataReady, arg, posted>>
        /\ Goto(c, "pend", "idle") \/ Goto(c, "retake", "idle")
    BY <1>3 DEF PendTake
  <2>2. SectionType' /\ SectionStep
    BY <2>1, LeaveSteps DEF SectionStep, Lock!Next, Lock!Leave
  <2>3. RingType' /\ TakenType' /\ Queue!Take
    BY <2>1, TakeSteps
  <2>4. CallType'
    BY <1>0, <2>1, GotoKeeps
  <2> QED
    BY <2>2, <2>3, <2>4 DEF QueueStep, Queue!Next
<1>4. CASE PendEmpty(c)
  BY <1>0, <1>4, LeavingSteps DEF PendEmpty
<1>5. CASE RetakeNone(c)
  <2>1. dataReady' \in BOOLEAN
    BY <1>5 DEF RetakeNone, QueueInv, RingType
  <2> QED
    BY <1>0, <1>5, <2>1, LeavingSteps DEF RetakeNone
<1>6. CASE Test(c)
  BY <1>0, <1>6, OutsideSteps DEF Test
<1>7. CASE WaitForEvent(c)
  BY <1>0, <1>7, OutsideSteps DEF WaitForEvent
<1>8. CASE Timeout(c)
  BY <1>0, <1>8, OutsideSteps DEF Timeout
<1>9. CASE Verdict(c)
  BY <1>0, <1>9, OutsideSteps DEF Verdict
<1>10. CASE Spurious(c)
  BY <1>0, <1>10, OutsideSteps DEF Spurious
<1> QED
  BY <1>1, <1>2, <1>3, <1>4, <1>5, <1>6, <1>7, <1>8, <1>9, <1>10 DEF Pending

LEMMA WakeSteps ==
  ASSUME NEW t \in Threads, QueueInv, WakeInSection(t)
  PROVE  Good
<1> USE DEF QueueInv, Good
<1>1. WakeUp(t) /\ UNCHANGED <<mode, ring, dataReady, threads, posted, taken>>
  BY DEF WakeInSection
<1>2. SectionType' /\ Holder' = Holder
  BY <1>1, WakeUpSteps
<1>3. RingType' /\ Contents' = Contents
  BY <1>1, RingSame DEF RingType
<1>4. CallType'
  BY <1>1 DEF CallType, threads
<1> QED
  BY <1>1, <1>2, <1>3, <1>4 DEF TakenType, SectionStep, QueueStep

LEMMA AllSteps == QueueInv /\ [Next]_vars => Good
<1> SUFFICES ASSUME QueueInv, [Next]_vars PROVE Good
  OBVIOUS
<1>0. Posters \subseteq Threads /\ Penders \subseteq Threads
  BY QueueAssumption
<1>1. ASSUME NEW p \in Posters, CallPost(p) \/ Posting(p) PROVE Good
  BY <1>0, <1>1, PosterSteps
<1>2. ASSUME NEW c \in Penders, Pending(c) \/ Spurious(c) PROVE Good
  BY <1>0, <1>2, PenderSteps
<1>3. ASSUME NEW t \in Threads, WakeInSection(t) PROVE Good
  BY <1>3, WakeSteps
<1>4. CASE UNCHANGED vars
  <2>1. UNCHANGED <<section, mode, ring, dataReady, threads, posted, taken>>
    BY <1>4 DEF vars
  <2>2. SectionType' /\ Holder' = Holder
    BY <2>1, SectionStays DEF QueueInv
  <2>3. RingType' /\ Contents' = Contents
    BY <2>1, RingSame DEF RingType, QueueInv
  <2>4. CallType' /\ TakenType'
    BY <2>1 DEF CallType, TakenType, threads, QueueInv
  <2> QED
    BY <2>1, <2>2, <2>3, <2>4 DEF QueueInv, Good, SectionStep, QueueStep
<1> QED
  BY <1>1, <1>2, <1>3, <1>4 DEF Next

-----------------------------------------------------------------------------
(* The waits of the section: who is counted, and who is there to serve them. *)

Waiting == asleep \union woken
Serving == {"post", "front", "pend", "retake"}

\* waitCount counts those that wait, so Leave does not miss a sleeper.
CountInv ==
  /\ asleep \intersect woken = {}
  /\ IsFiniteSet(Waiting) /\ waitCount = Cardinality(Waiting)

\* Who waits or is inside is in a call that enters the section, and not both.
PlaceInv ==
  /\ Holder \notin Waiting /\ (refCount > 0 => Holder \in Threads)
  /\ \A t \in Threads : t \in Waiting \/ Holder = t => pc[t] \in Serving

SignalInv == asleep # {} => refCount > 0 \/ woken # {}

\* While a thread sleeps at the section, one that does not sleep is to act there:
\* it is woken, or inside and in a call that will leave.
SleepersAreServed ==
  asleep # {} =>
    \E t \in Threads \ asleep :
      /\ t \in woken \/ Holder = t
      /\ pc[t] \in Serving

LEMMA CountEnter ==
  ASSUME NEW t \in Threads, SectionType, CountInv, Enter(t)
  PROVE  CountInv'
<1>1. CASE EnterFree(t)
  BY <1>1 DEF EnterFree, CountInv, Waiting
<1>2. CASE EnterWait(t)
  <2>1. t \notin Waiting /\ Waiting' = Waiting \union {t}
    BY <1>2 DEF EnterWait, Waits, Waiting
  <2>2. IsFiniteSet(Waiting') /\ Cardinality(Waiting') = Cardinality(Waiting) + 1
    BY <2>1, FS_AddElement DEF CountInv
  <2> QED
    BY <1>2, <2>1, <2>2 DEF EnterWait, CountInv, Waiting
<1>3. CASE RetryObtains(t)
  <2>1. t \in Waiting /\ Waiting' = Waiting \ {t}
    BY <1>3 DEF RetryObtains, Waiting, CountInv
  <2>2. IsFiniteSet(Waiting') /\ Cardinality(Waiting') = Cardinality(Waiting) - 1
    BY <2>1, FS_RemoveElement DEF CountInv
  <2> QED
    BY <1>3, <2>2 DEF RetryObtains, CountInv
<1>4. CASE RetryWaits(t)
  <2>1. Waiting' = Waiting
    BY <1>4 DEF RetryWaits, Waiting
  <2> QED
    BY <1>4, <2>1 DEF RetryWaits, CountInv
<1> QED
  BY <1>1, <1>2, <1>3, <1>4 DEF Enter

LEMMA CountLeave ==
  ASSUME NEW t \in Threads, SectionType, CountInv, Leave(t)
  PROVE  CountInv' /\ Waiting' = Waiting /\ SignalInv'
<1>1. Waiting' = Waiting /\ asleep' \intersect woken' = {} /\ waitCount' = waitCount
  BY DEF Leave, CountInv, Waiting
<1>2. refCount' = 0
  BY DEF Leave, SectionType
<1>3. CASE asleep = {}
  BY <1>1, <1>2, <1>3 DEF Leave, CountInv, SignalInv
<1>4. CASE asleep # {}
  <2>1. Waiting # {} /\ Cardinality(Waiting) \in Nat
    BY <1>4, FS_CardinalityType DEF Waiting, CountInv
  <2>2. waitCount > 0
    BY <2>1, FS_EmptySet DEF CountInv
  <2>3. woken' # {}
    BY <1>2, <1>4, <2>2 DEF Leave
  <2> QED
    BY <1>1, <2>3 DEF CountInv, SignalInv
<1> QED
  BY <1>3, <1>4

WaitInv == SectionType /\ CountInv /\ PlaceInv /\ SignalInv

\* A call that enters the section, or waits for it.
LEMMA PlaceEnter ==
  ASSUME NEW t \in Threads, WaitInv, Enter(t), pc[t] \in Serving, UNCHANGED pc
  PROVE  WaitInv'
<1>0. SectionType' /\ CountInv'
  BY EnterSteps, CountEnter DEF WaitInv
<1>1. PlaceInv' /\ SignalInv'
  <2> USE DEF WaitInv, SectionType, CountInv, PlaceInv, SignalInv, Waiting, Holder
  <2>0. Nobody \notin Threads /\ asleep \intersect woken = {}
    BY QueueAssumption
  <2>1. CASE EnterFree(t)
    BY <2>0, <2>1 DEF EnterFree, ObtainCriticalSection, Waits
  <2>2. CASE EnterWait(t)
    BY <2>0, <2>2 DEF EnterWait
  <2>3. CASE RetryObtains(t)
    BY <2>0, <2>3 DEF RetryObtains, ObtainCriticalSection
  <2>4. CASE RetryWaits(t)
    BY <2>0, <2>4 DEF RetryWaits
  <2> QED
    BY <2>1, <2>2, <2>3, <2>4 DEF Enter
<1> QED
  BY <1>0, <1>1 DEF WaitInv

\* A call that leaves the section; it may wake penders, which are not in it.
LEMMA PlaceLeave ==
  ASSUME NEW t \in Threads, WaitInv, Leave(t),
         \A u \in Threads \ {t} : pc[u] \in Serving => pc'[u] \in Serving
  PROVE  WaitInv'
<1>1. SectionType' /\ Holder = t /\ Holder' = Nobody
  BY LeaveSteps DEF WaitInv
<1>2. CountInv' /\ Waiting' = Waiting /\ SignalInv'
  BY CountLeave DEF WaitInv
<1>3. Waiting \subseteq Threads
  BY DEF WaitInv, SectionType, Waiting
<1>4. refCount' = 0
  BY DEF Leave, WaitInv, SectionType
<1>5. PlaceInv'
  BY <1>1, <1>2, <1>3, <1>4, QueueAssumption DEF WaitInv, PlaceInv
<1> QED
  BY <1>1, <1>2, <1>5 DEF WaitInv

\* A step of a thread outside the section.
LEMMA PlaceGoto ==
  ASSUME NEW t \in Threads, WaitInv, NEW from, NEW to, Goto(t, from, to),
         from \notin Serving, UNCHANGED section
  PROVE  WaitInv'
<1>1. /\ SectionType' /\ CountInv' /\ SignalInv'
      /\ Waiting' = Waiting /\ Holder' = Holder /\ refCount' = refCount
  BY DEF WaitInv, SectionType, CountInv, SignalInv, Waiting, Holder, section
<1>2. \A u \in Threads : pc[u] \in Serving => pc'[u] \in Serving
  BY DEF Goto
<1>3. PlaceInv'
  BY <1>1, <1>2 DEF WaitInv, PlaceInv
<1> QED
  BY <1>1, <1>3 DEF WaitInv

LEMMA PlaceWakeUp ==
  ASSUME NEW t \in Threads, WaitInv, WakeUp(t), UNCHANGED pc
  PROVE  WaitInv'
<1>1. SectionType' /\ Holder' = Holder
  BY WakeUpSteps DEF WaitInv
<1>2. Waiting' = Waiting /\ woken' # {} /\ asleep' \intersect woken' = {}
  BY DEF WakeUp, WaitInv, CountInv, Waiting
<1>3. waitCount' = waitCount /\ refCount' = refCount
  BY DEF WakeUp
<1> QED
  BY <1>1, <1>2, <1>3 DEF WaitInv, CountInv, PlaceInv, SignalInv

LEMMA GotoOthers ==
  ASSUME NEW t \in Threads, NEW from, NEW to, Goto(t, from, to), CallType
  PROVE  \A u \in Threads \ {t} : pc[u] \in Serving => pc'[u] \in Serving
  BY DEF Goto, CallType

LEMMA WaitStep ==
  ASSUME WaitInv, CallType, [Next]_vars
  PROVE  WaitInv'
<1>0. Posters \subseteq Threads /\ Penders \subseteq Threads
  BY QueueAssumption
<1>1. ASSUME NEW t \in Threads, EnterSection(t) PROVE WaitInv'
  BY <1>1, PlaceEnter DEF EnterSection, Serving, threads
<1>2. ASSUME NEW p \in Threads, CallPost(p) PROVE WaitInv'
  <2>1. PICK to : Goto(p, "idle", to)
    BY <1>2 DEF CallPost
  <2> QED
    BY <1>2, <2>1, PlaceGoto DEF CallPost, Serving
<1>3. ASSUME NEW p \in Threads, Post(p) \/ PostFront(p) PROVE WaitInv'
  <2>1. Leave(p) /\ SetEvent(p)
    BY <1>3 DEF Post, PostFront
  <2>2. \A u \in Threads \ {p} : pc[u] \in Serving => pc'[u] \in Serving
    BY <2>1 DEF SetEvent, Serving, CallType
  <2> QED
    BY <2>1, <2>2, PlaceLeave
<1>4. ASSUME NEW t \in Threads,
             PostFull(t) \/ PendTake(t) \/ PendEmpty(t) \/ RetakeNone(t)
      PROVE  WaitInv'
  <2>1. Leave(t) /\ \E from : \E to : Goto(t, from, to)
    BY <1>4 DEF PostFull, PendTake, PendEmpty, RetakeNone
  <2>2. PICK from : \E to : Goto(t, from, to)
    BY <2>1
  <2>3. PICK to : Goto(t, from, to)
    BY <2>2
  <2> QED
    BY <2>1, <2>3, GotoOthers, PlaceLeave
<1>5. ASSUME NEW c \in Threads,
             \/ CallPend(c) \/ Test(c) \/ WaitForEvent(c) \/ Timeout(c)
             \/ Spurious(c) \/ Verdict(c)
      PROVE  WaitInv'
  <2>1. UNCHANGED section /\ \E from \in {"idle", "test", "wait", "waiting", "verdict"} :
          \E to : Goto(c, from, to)
    BY <1>5 DEF CallPend, Test, WaitForEvent, Timeout, Spurious, Verdict
  <2>2. PICK from \in {"idle", "test", "wait", "waiting", "verdict"} :
          \E to : Goto(c, from, to)
    BY <2>1
  <2>3. PICK to : Goto(c, from, to)
    BY <2>2
  <2> QED
    BY <2>1, <2>2, <2>3, PlaceGoto DEF Serving
<1>6. ASSUME NEW t \in Threads, WakeInSection(t) PROVE WaitInv'
  BY <1>6, PlaceWakeUp DEF WakeInSection, threads
<1>7. CASE UNCHANGED vars
  BY <1>7 DEF vars, section, threads, WaitInv, SectionType, CountInv, PlaceInv,
              SignalInv, Waiting, Holder
<1> QED
  BY <1>0, <1>1, <1>2, <1>3, <1>4, <1>5, <1>6, <1>7 DEF Next, Posting, Pending

-----------------------------------------------------------------------------
(* The flag of the event.                                                    *)

\* dataReady tells of every image that is in the ring.
FlagTells == DataLevel > 0 => dataReady

LEMMA FlagStep ==
  ASSUME QueueInv, FlagTells, [Next]_vars
  PROVE  FlagTells'
<1>0. RingType /\ CallType
  BY DEF QueueInv
<1>1. ASSUME NEW p \in Threads, Post(p) \/ PostFront(p) PROVE FlagTells'
  BY <1>1 DEF Post, PostFront, SetEvent, FlagTells
<1>2. ASSUME NEW c \in Threads, PendTake(c) PROVE FlagTells'
  <2>1. DataLevel > 0 /\ dataReady' = dataReady
    BY <1>2 DEF PendTake, TakeOne
  <2> QED
    BY <2>1 DEF FlagTells
<1>3. ASSUME NEW c \in Threads, PendEmpty(c) PROVE FlagTells'
  <2>1. DataLevel = 0 /\ UNCHANGED ring
    BY <1>3 DEF PendEmpty
  <2> QED
    BY <2>1 DEF FlagTells, DataLevel, ring
<1>4. CASE UNCHANGED <<ring, dataReady>>
  BY <1>4 DEF FlagTells, DataLevel, ring
<1> QED
  BY <1>1, <1>2, <1>3, <1>4, QueueAssumption
  DEF Next, Posting, Pending, CallPost, EnterSection, PostFull, CallPend, RetakeNone,
      Test, WaitForEvent, Timeout, Spurious, Verdict, WakeInSection, vars

-----------------------------------------------------------------------------
(* The theorems.                                                             *)

(* Every variable keeps its type: head and tail stay in the ring, whatever   *)
(* its size.                                                                 *)
THEOREM QueueTypes == Spec => []TypeOK
<1>1. QueueInv /\ [Next]_vars => QueueInv'
  BY AllSteps DEF Good
<1> QED
  BY <1>1, InvInit, InvIsTyped, PTL DEF Spec

(* csection.c excludes: of any number of threads, one is inside, although    *)
(* one that comes along may enter before one that was woken, and waits end   *)
(* without a signal.                                                         *)
THEOREM SectionExcludes == Spec => SectionSpec
<1>1. Init => Lock!Init
  BY DEF Init, SectionInit, Holder, Lock!Init
<1>2. QueueInv /\ [Next]_vars => QueueInv' /\ [Lock!Next]_Holder
  BY AllSteps DEF Good, SectionStep
<1> QED
  BY <1>1, <1>2, InvInit, PTL DEF Spec, SectionSpec, Lock!Spec

(* dynaqueue.c is a bounded queue: for any capacity, any number of threads   *)
(* and of images, in both modes.                                             *)
THEOREM RingImplementsQueue == Spec => QueueSpec
<1>1. Init => Queue!Init
  <2>1. ASSUME Init PROVE Contents = <<>> /\ taken = <<>>
    <3>1. QueueInv /\ head = 0 /\ tail = 0 /\ taken = <<>>
      BY <2>1, InvInit DEF Init
    <3>2. Contents \in Seq(Elements) /\ Len(Contents) = 0
      BY <3>1, ContentsLists DEF QueueInv, Level
    <3> QED
      BY <3>1, <3>2, EmptySeq
  <2>2. ASSUME Init PROVE mode \in {"Overwrite", "Block"}
    BY <2>2 DEF Init, Modes
  <2> QED
    BY <2>1, <2>2 DEF Queue!Init
<1>2. QueueInv /\ [Next]_vars => QueueInv' /\ [Queue!Next]_<<mode, Contents, taken>>
  BY AllSteps DEF Good, QueueStep
<1> QED
  BY <1>1, <1>2, InvInit, PTL DEF Spec, QueueSpec, Queue!Spec

(* The section wakes its sleepers, for any number of threads: while one sleeps *)
(* in EnterCriticalSection, another is woken, or inside in a call that leaves, *)
(* whatever enters between a signal and the thread it wakes and whoever wakes  *)
(* without one.                                                                *)
THEOREM NobodyOversleeps == Spec => []SleepersAreServed
<1>1. Init => WaitInv
  <2> SUFFICES ASSUME Init PROVE WaitInv
    OBVIOUS
  <2>1. SectionType /\ QueueInv
    BY InvInit DEF QueueInv
  <2>2. asleep = {} /\ woken = {} /\ waitCount = 0 /\ refCount = 0 /\ Holder = Nobody
    BY DEF Init, SectionInit, Holder
  <2> QED
    BY <2>1, <2>2, FS_EmptySet, QueueAssumption
    DEF WaitInv, CountInv, PlaceInv, SignalInv, Waiting
<1>2. QueueInv /\ WaitInv /\ [Next]_vars => QueueInv' /\ WaitInv'
  BY AllSteps, WaitStep DEF Good, QueueInv
<1>3. WaitInv => SleepersAreServed
  <2> SUFFICES ASSUME WaitInv, asleep # {}
               PROVE  \E t \in Threads \ asleep :
                         (t \in woken \/ Holder = t) /\ pc[t] \in Serving
    BY DEF SleepersAreServed
  <2> USE DEF WaitInv, SectionType, CountInv, PlaceInv, SignalInv, Waiting
  <2>1. CASE woken # {}
    BY <2>1
  <2>2. CASE refCount > 0
    BY <2>2
  <2> QED
    BY <2>1, <2>2
<1> QED
  BY <1>1, <1>2, <1>3, InvInit, PTL DEF Spec

(* dataReady is set while the ring holds an image: a pender whose timeout ends  *)
(* finds it, also when the broadcast came between its test and its wait.        *)
THEOREM FlagKept == Spec => []FlagTells
<1>1. Init => FlagTells
  BY DEF Init, FlagTells, DataLevel
<1>2. QueueInv /\ FlagTells /\ [Next]_vars => QueueInv' /\ FlagTells'
  BY AllSteps, FlagStep DEF Good
<1> QED
  BY <1>1, <1>2, InvInit, PTL DEF Spec
=============================================================================
