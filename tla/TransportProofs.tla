--------------------------- MODULE TransportProofs ---------------------------
(* Proofs about Transport, for any number of buffers and bytes and any sizes. *)
EXTENDS Transport, SequenceTheorems, TLAPS

\* The sequence of buffers: those on the wire, then those in _outputBuffer.
Numbered(w, q, n) ==
  /\ w \in Seq(Nat) /\ q \in Seq(Nat) /\ n \in Nat
  /\ Len(w) + Len(q) = n
  /\ \A i \in 1..Len(w) : w[i] = i
  /\ \A i \in 1..Len(q) : q[i] = Len(w) + i

StreamInv == Numbered(wire, outq, submitted)

\* OneWrite is inductive with: nothing is written before the connect, and the
\* buffer that is written stays at the front of the queue.
WriteInv ==
  /\ OneWrite
  /\ inProgress => connected
  /\ connected <=> socket # "connecting"

\* What parseData left in the buffer is known to longest.
FrameInv == inbuf <= longest /\ NothingDropped

LEMMA TypeInit == Init => TypeOK /\ WriteInv
<1>1. Init => TypeOK
  <2>1. <<>> \in Seq(1..MaxData)
    OBVIOUS
  <2>2. 0 \in 0..MaxData /\ 0 \in 0..MaxBytes /\ 0 \in 0..Capacity
    BY TransportAssumption DEF Capacity
  <2> SUFFICES ASSUME Init
               PROVE  TypeOK
    OBVIOUS
  <2>3. /\ outq \in Seq(1..MaxData) /\ pending \in Seq(1..MaxData)
        /\ wire \in Seq(1..MaxData)
    BY <2>1 DEF Init
  <2>4. submitted \in 0..MaxData /\ received \in 0..MaxBytes
        /\ inbuf \in 0..Capacity /\ parsed \in Nat /\ longest \in Nat
    BY <2>2 DEF Init
  <2>5. /\ inProgress \in BOOLEAN /\ connected \in BOOLEAN /\ quit \in BOOLEAN
        /\ socket \in {"connecting", "open", "closed"} /\ alive \in BOOLEAN
    BY DEF Init
  <2> QED
    BY <2>3, <2>4, <2>5 DEF TypeOK
<1>2. Init => WriteInv
  BY DEF Init, WriteInv, OneWrite
<1> QED
  BY <1>1, <1>2

LEMMA TypeStep == TypeOK /\ WriteInv /\ [Next]_vars => TypeOK' /\ WriteInv'
<1> SUFFICES ASSUME TypeOK, WriteInv, [Next]_vars
             PROVE  TypeOK' /\ WriteInv'
  OBVIOUS
<1> USE TransportAssumption DEF TypeOK, WriteInv, OneWrite, output, input
<1>1. CASE OnData
  <2>1. /\ submitted + 1 \in 1..MaxData
        /\ outq' \in Seq(1..MaxData) /\ outq' # <<>>
        /\ outq # <<>> => Head(outq') = Head(outq)
    <3> HIDE DEF TypeOK, WriteInv, OneWrite
    <3>1. submitted + 1 \in 1..MaxData /\ outq \in Seq(1..MaxData)
      BY <1>1 DEF OnData, TypeOK
    <3>2. outq' = Append(outq, submitted + 1)
      BY <1>1 DEF OnData
    <3> QED
      BY <3>1, <3>2, AppendProperties
  <2>2. Head(outq') \in 1..MaxData
    BY <2>1, HeadTailProperties
  <2>3. CASE ~inProgress /\ connected
    <3>1. pending' = <<Head(outq')>> /\ inProgress' = TRUE
      BY <1>1, <2>3 DEF OnData, DoWrite
    <3> QED
      BY <1>1, <2>1, <2>2, <2>3, <3>1 DEF OnData
  <2>4. CASE ~(~inProgress /\ connected)
    <3>1. pending' = pending /\ inProgress' = inProgress
      BY <1>1, <2>4 DEF OnData, NoWrite
    <3> QED
      BY <1>1, <2>1, <2>2, <2>4, <3>1 DEF OnData
  <2> QED
    BY <2>3, <2>4
<1>2. CASE Connected
  <2>1. CASE outq # <<>>
    <3>1. Head(outq) \in 1..MaxData
      BY <2>1, HeadTailProperties
    <3>2. pending' = <<Head(outq)>> /\ inProgress' = TRUE
      BY <1>2, <2>1 DEF Connected, DoWrite
    <3> QED
      BY <1>2, <2>1, <3>1, <3>2 DEF Connected
  <2>2. CASE outq = <<>>
    BY <1>2, <2>2 DEF Connected, NoWrite
  <2> QED
    BY <2>1, <2>2
<1>3. CASE Written
  <2>1. inProgress /\ outq # <<>> /\ pending = <<Head(outq)>>
    BY <1>3 DEF Written
  <2>2. Head(outq) \in 1..MaxData /\ Tail(outq) \in Seq(1..MaxData)
    BY <2>1, HeadTailProperties
  <2>3. Tail(pending) = <<>> /\ Head(pending) = Head(outq)
    BY <2>1
  <2>4. wire' \in Seq(1..MaxData) /\ outq' \in Seq(1..MaxData)
    BY <1>3, <2>2, <2>3 DEF Written
  <2>5. CASE outq' # <<>>
    <3>1. Head(outq') \in 1..MaxData
      BY <2>4, <2>5, HeadTailProperties
    <3>2. pending' = <<Head(outq')>> /\ inProgress' = TRUE
      BY <1>3, <2>3, <2>5 DEF Written
    <3>3. pending' \in Seq(1..MaxData)
      BY <3>1, <3>2
    <3>4. TypeOK'
      BY <1>3, <2>4, <3>2, <3>3 DEF Written, Capacity
    <3>5. WriteInv'
      BY <1>3, <2>1, <2>5, <3>2 DEF Written
    <3> QED
      BY <3>4, <3>5
  <2>6. CASE outq' = <<>>
    BY <1>3, <2>1, <2>3, <2>4, <2>6 DEF Written
  <2> QED
    BY <2>5, <2>6
<1>4. CASE ConnectFails \/ WriteFails \/ ReadFails
  <2>1. Exit
    BY <1>4 DEF ConnectFails, WriteFails, ReadFails
  <2> QED
    BY <2>1 DEF Exit, Capacity
<1>5. CASE Received
  BY <1>5 DEF Received, ParseData, BufferWrite, Capacity
<1>6. CASE OnClosed
  BY <1>6 DEF OnClosed
<1>7. CASE UNCHANGED vars
  BY <1>7 DEF vars
<1> QED
  BY <1>1, <1>2, <1>3, <1>4, <1>5, <1>6, <1>7 DEF Next

LEMMA TypeAndWrites == Spec => [](TypeOK /\ WriteInv)
  BY TypeInit, TypeStep, PTL DEF Spec

(* Every variable has its type, and the AmqpBuffer never holds more than it   *)
(* has room for, however long a frame is (AmqpBuffer::write).                 *)
THEOREM TransportTypeCorrect == Spec => []TypeOK
  BY TypeAndWrites, PTL

(* One async_write at a time, and one whenever a buffer waits on a connection *)
(* (onData, the handlers of async_connect and async_write).                   *)
THEOREM WritesAreSingle == Spec => []OneWrite
<1>1. WriteInv => OneWrite
  BY DEF WriteInv
<1> QED
  BY <1>1, TypeAndWrites, PTL

------------------------------------------------------------------------------
LEMMA FrameStep == TypeOK /\ FrameInv /\ [Next]_vars => FrameInv'
<1> SUFFICES ASSUME TypeOK, FrameInv, [Next]_vars
             PROVE  FrameInv'
  OBVIOUS
<1> USE TransportAssumption DEF TypeOK, FrameInv, NothingDropped
<1>1. CASE Received
  BY <1>1 DEF Received, ParseData, BufferWrite, Capacity
<1>2. CASE UNCHANGED input
  BY <1>2 DEF input
<1> QED
  BY <1>1, <1>2 DEF Next, OnData, Connected, ConnectFails, Written, WriteFails,
                    ReadFails, OnClosed, Exit, vars

(* No byte of the broker is lost in AmqpBuffer::write while no part of a      *)
(* frame that waits there is longer than a read (doRead, parseData).          *)
THEOREM BytesKept == Spec => []NothingDropped
<1>1. Init => FrameInv
  BY TransportAssumption DEF Init, FrameInv, NothingDropped
<1>2. TypeOK /\ FrameInv /\ [Next]_vars => FrameInv'
  BY FrameStep
<1>3. FrameInv => NothingDropped
  BY DEF FrameInv
<1> QED
  BY <1>1, <1>2, <1>3, TransportTypeCorrect, PTL DEF Spec

------------------------------------------------------------------------------
\* A new buffer gets the next number.
LEMMA NumberedAppend ==
  ASSUME NEW w, NEW q, NEW n, Numbered(w, q, n)
  PROVE  Numbered(w, Append(q, n + 1), n + 1)
<1> DEFINE r == Append(q, n + 1)
<1> USE DEF Numbered
<1>1. r \in Seq(Nat) /\ Len(r) = Len(q) + 1 /\ Len(w) \in Nat /\ Len(q) \in Nat
  OBVIOUS
<1>2. ASSUME NEW i \in 1..Len(r)
      PROVE  r[i] = Len(w) + i
  <2>1. CASE i \in 1..Len(q)
    BY <2>1
  <2>2. CASE i = Len(q) + 1
    BY <2>2
  <2> QED
    BY <1>1, <2>1, <2>2
<1> HIDE DEF r
<1> QED
  BY <1>1, <1>2

\* The front of the queue has the number that comes next on the wire.
LEMMA NumberedMove ==
  ASSUME NEW w, NEW q, NEW n, Numbered(w, q, n), q # <<>>
  PROVE  /\ Head(q) = Len(w) + 1 /\ Len(w) < n
         /\ Numbered(Append(w, Head(q)), Tail(q), n)
<1> DEFINE v == Append(w, Head(q))
           r == Tail(q)
<1> USE DEF Numbered
<1>1. Len(w) \in Nat /\ Len(q) \in Nat /\ Len(q) > 0
  OBVIOUS
<1>2. Head(q) = Len(w) + 1 /\ Len(w) < n
  BY <1>1
<1>3. v \in Seq(Nat) /\ Len(v) = Len(w) + 1
  BY <1>1, <1>2
<1>4. /\ r \in Seq(Nat) /\ Len(r) = Len(q) - 1
      /\ \A i \in 1..Len(r) : r[i] = q[i + 1]
  BY HeadTailProperties
<1>5. ASSUME NEW i \in 1..Len(v)
      PROVE  v[i] = i
  <2>1. CASE i \in 1..Len(w)
    BY <2>1
  <2>2. CASE i = Len(w) + 1
    BY <1>2, <2>2
  <2> QED
    BY <1>1, <1>3, <2>1, <2>2
<1>6. ASSUME NEW i \in 1..Len(r)
      PROVE  r[i] = Len(v) + i
  <2>1. i + 1 \in 1..Len(q)
    BY <1>1, <1>4
  <2>2. q[i + 1] = Len(w) + (i + 1)
    BY <2>1
  <2> QED
    BY <1>1, <1>3, <1>4, <2>2
<1>7. Len(v) + Len(r) = n
  <2>1. Len(w) + Len(q) = n /\ Len(v) = Len(w) + 1 /\ Len(r) = Len(q) - 1
    BY <1>3, <1>4
  <2> HIDE DEF Numbered, v, r
  <2> QED
    BY <1>1, <2>1
<1> HIDE DEF v, r
<1>8. Numbered(v, r, n)
  BY <1>3, <1>4, <1>5, <1>6, <1>7
<1> QED
  BY <1>2, <1>8 DEF v, r

LEMMA StreamStep ==
  ASSUME TypeOK, WriteInv, StreamInv, [Next]_vars
  PROVE  StreamInv' /\ [Stream!Next]_<<submitted, wire>>
<1> USE DEF StreamInv, output, input
<1>1. CASE OnData
  BY <1>1, NumberedAppend DEF OnData, Stream!Next, Stream!Accept
<1>2. CASE Written
  <2>1. outq # <<>> /\ Head(pending) = Head(outq)
    BY <1>2 DEF Written, WriteInv, OneWrite
  <2>2. wire' = Append(wire, Head(outq)) /\ outq' = Tail(outq)
        /\ submitted' = submitted
    BY <1>2, <2>1 DEF Written
  <2>3. Stream!Deliver
    BY <2>1, <2>2, NumberedMove DEF Stream!Deliver
  <2> QED
    BY <2>1, <2>2, <2>3, NumberedMove DEF Stream!Next
<1>3. CASE UNCHANGED <<submitted, outq, wire>>
  BY <1>3
<1> QED
  BY <1>1, <1>2, <1>3
     DEF Next, Connected, ConnectFails, WriteFails, Received, ReadFails,
         OnClosed, Exit, vars

(* The connection implements Fifo: what onData accepted reaches the socket    *)
(* once each and in that order, whatever the handlers' order is.              *)
THEOREM TransportImplementsFifo == Spec => FifoSpec
<1>1. Init => StreamInv /\ Stream!Init
  BY DEF Init, StreamInv, Numbered, Stream!Init
<1>2. TypeOK /\ WriteInv /\ StreamInv /\ [Next]_vars
      => StreamInv' /\ [Stream!Next]_<<submitted, wire>>
  BY StreamStep
<1> QED
  BY <1>1, <1>2, TypeAndWrites, PTL DEF Spec, FifoSpec, Stream!Spec

------------------------------------------------------------------------------
\* What the next write has to bring is what is being written.
NextInWriting == connected /\ Len(wire) < submitted => pending = <<Len(wire) + 1>>

(* On a connection the buffer whose turn it is, is in async_write: none of    *)
(* the three places that start a write forgets one, or starts another.  The   *)
(* completion of that write, or its failure, is all that DataIsSent needs.    *)
THEOREM NothingWaitsUnwritten == Spec => []NextInWriting
<1>1. Init => StreamInv
  BY DEF Init, StreamInv, Numbered
<1>2. TypeOK /\ WriteInv /\ StreamInv /\ [Next]_vars => StreamInv'
  BY StreamStep
<1>3. TypeOK /\ WriteInv /\ StreamInv => NextInWriting
  <2> SUFFICES ASSUME TypeOK, WriteInv, StreamInv, connected, Len(wire) < submitted
               PROVE  pending = <<Len(wire) + 1>>
    BY DEF NextInWriting
  <2>1. Numbered(wire, outq, submitted)
    BY DEF StreamInv
  <2>2. outq # <<>>
    BY <2>1 DEF Numbered
  <2>3. Head(outq) = Len(wire) + 1
    BY <2>1, <2>2, NumberedMove
  <2> QED
    BY <2>2, <2>3 DEF WriteInv, OneWrite
<1> QED
  BY <1>1, <1>2, <1>3, TypeAndWrites, PTL DEF Spec

\* The close that onClosed puts off is the business of the write in flight.
CloseInv == quit => connected /\ (socket = "closed" \/ inProgress)

\* After quit nothing but the one write in flight reaches the socket.
LastWrite == quit => socket = "closed" \/ pending = <<Len(wire) + 1>>

\* A closed socket takes nothing, and is never opened again.
ClosedStays == socket = "closed" => socket' = "closed" /\ wire' = wire

LEMMA CloseStep ==
  ASSUME TypeOK, WriteInv, CloseInv, [Next]_vars
  PROVE  CloseInv'
<1> USE DEF CloseInv, output
<1>1. CASE Written
  BY <1>1 DEF Written
<1>2. CASE OnData
  BY <1>2 DEF OnData, DoWrite, NoWrite
<1>3. CASE Connected
  BY <1>3 DEF Connected, WriteInv
<1>4. CASE OnClosed
  BY <1>4 DEF OnClosed
<1>5. CASE UNCHANGED <<quit, connected, socket, inProgress>>
  BY <1>5
<1> QED
  BY <1>1, <1>2, <1>3, <1>4, <1>5
     DEF Next, ConnectFails, WriteFails, Received, ReadFails, Exit, vars

(* When the broker has closed the connection, the socket is closed or one     *)
(* write is in flight, whose handler closes it: onClosed never leaves the     *)
(* close to nobody, and no second write is started behind it.                 *)
THEOREM CloseIsPending == Spec => []LastWrite
<1>1. Init => CloseInv /\ StreamInv
  BY DEF Init, CloseInv, StreamInv, Numbered
<1>2. TypeOK /\ WriteInv /\ CloseInv /\ StreamInv /\ [Next]_vars
      => CloseInv' /\ StreamInv'
  BY CloseStep, StreamStep
<1>3. TypeOK /\ WriteInv /\ CloseInv /\ StreamInv => LastWrite
  <2> SUFFICES ASSUME WriteInv, CloseInv, StreamInv, quit, socket # "closed"
               PROVE  pending = <<Len(wire) + 1>>
    BY DEF LastWrite
  <2>1. inProgress /\ outq # <<>> /\ pending = <<Head(outq)>>
    BY DEF CloseInv, WriteInv, OneWrite
  <2> QED
    BY <2>1, NumberedMove DEF StreamInv
<1> QED
  BY <1>1, <1>2, <1>3, TypeAndWrites, PTL DEF Spec

(* Once the socket is closed it stays closed, and no handler that was already *)
(* on its way writes to it.                                                   *)
THEOREM ClosedForGood == Spec => [][ClosedStays]_vars
<1>1. TypeOK /\ WriteInv /\ [Next]_vars => [ClosedStays]_vars
  <2> SUFFICES ASSUME WriteInv, [Next]_vars, socket = "closed"
               PROVE  (socket' = "closed" /\ wire' = wire) \/ UNCHANGED vars
    BY DEF ClosedStays
  <2> QED
    BY DEF Next, OnData, Connected, ConnectFails, Written, WriteFails, Received,
           ReadFails, OnClosed, Exit, WriteInv, vars, output
<1> QED
  BY <1>1, TypeAndWrites, PTL DEF Spec
==============================================================================
