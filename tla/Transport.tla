----------------------------- MODULE Transport -----------------------------
(***************************************************************************)
(* AsioHandler (capture_demo/asiohandler.cpp): the capture process's       *)
(* connection to the broker.  Everything runs in handlers of one           *)
(* io_service thread, each of them a step here; the library calls onData   *)
(* and onClosed, the kernel completes connects, writes and reads.          *)
(*                                                                         *)
(* Output: buffers, numbered as onData gets them, wait in _outputBuffer    *)
(* and are written one by one.  Input: the bytes of a read are appended to *)
(* an AmqpBuffer and whole frames are parsed off its front; of the bytes   *)
(* only their number is kept.  Whatever fails ends in exit(1).             *)
(***************************************************************************)
EXTENDS Integers, Sequences

CONSTANTS MaxData,    \* bound: buffers the library sends
          MaxBytes,   \* bound: bytes the broker sends
          ReadSize,   \* ASIO_INPUT_BUFFER_SIZE
          MaxFrame    \* the largest frame the broker sends

ASSUME TransportAssumption ==
  /\ MaxData \in Nat /\ MaxBytes \in Nat
  /\ ReadSize \in Nat \ {0} /\ MaxFrame \in Nat \ {0}

VARIABLES
  submitted, outq, pending, wire,   \* output: buffers onData got, those in
                    \* _outputBuffer, in async_write, and out on the socket
  inProgress, connected, quit,      \* _writeInProgress, _connected, _quit
  socket, alive,                    \* the socket; exit() was not called
  received, inbuf, parsed,          \* input: bytes read, in the AmqpBuffer,
                                    \* and taken by the library
  longest           \* history: the most that a part of a frame left in it
output == <<submitted, outq, pending, wire, inProgress>>
input  == <<received, inbuf, parsed, longest>>
vars   == <<output, connected, quit, socket, alive, input>>

\* new AmqpBuffer(ASIO_INPUT_BUFFER_SIZE * 2)
CapacityHalf == ReadSize   \* mutant
Capacity == 2 * ReadSize

\* doWrite hands the front of the queue to async_write.
DoWrite(queue) == inProgress' = TRUE /\ pending' = pending \o <<Head(queue)>>
NoWrite(flag)  == inProgress' = flag /\ UNCHANGED pending

\* exit(1), also when the kernel resets the connection.
Exit ==
  /\ alive' = FALSE
  /\ UNCHANGED <<output, connected, quit, socket, input>>

-----------------------------------------------------------------------------
OnDataAlwaysWrites ==   \* mutant: line 123 does not look at _writeInProgress
  /\ alive /\ submitted < MaxData
  /\ submitted' = submitted + 1
  /\ outq' = Append(outq, submitted + 1)
  /\ IF connected THEN DoWrite(outq') ELSE NoWrite(inProgress)
  /\ UNCHANGED <<wire, connected, quit, socket, alive, input>>

\* onData: the library sends a buffer, the first in its constructor.
OnData ==
  /\ alive /\ submitted < MaxData
  /\ submitted' = submitted + 1
  /\ outq' = Append(outq, submitted + 1)
  /\ IF ~inProgress /\ connected THEN DoWrite(outq') ELSE NoWrite(inProgress)
  /\ UNCHANGED <<wire, connected, quit, socket, alive, input>>

ConnectedOnly ==   \* mutant: lines 103 to 106 missing
  /\ alive /\ socket = "connecting"
  /\ socket' = "open" /\ connected' = TRUE
  /\ UNCHANGED <<output, quit, alive, input>>

\* async_connect's handler: start reading, and write what is waiting.
Connected ==
  /\ alive /\ socket = "connecting"
  /\ socket' = "open" /\ connected' = TRUE
  /\ IF outq # <<>> THEN DoWrite(outq) ELSE NoWrite(inProgress)
  /\ UNCHANGED <<submitted, outq, wire, quit, alive, input>>

\* The connect fails, or its fifteen seconds end first.
ConnectFails == alive /\ socket = "connecting" /\ Exit

\* async_write's handler: the next buffer, and the close that was put off.
Written ==
  /\ alive /\ pending # <<>> /\ socket = "open"
  /\ wire' = Append(wire, Head(pending))
  /\ outq' = Tail(outq)
  /\ pending' = IF outq' # <<>> THEN Append(Tail(pending), Head(outq')) ELSE Tail(pending)
  /\ inProgress' = (outq' # <<>>)
  /\ socket' = IF quit THEN "closed" ELSE socket
  /\ UNCHANGED <<submitted, connected, quit, alive, input>>

\* A write fails: the broker is gone, or the socket was closed under it.
WriteFails == alive /\ pending # <<>> /\ Exit

BufferWriteUnchecked(length) == inbuf + length   \* mutant: line 24 takes all

\* AmqpBuffer::write takes what fits; nobody looks at how much that was.
BufferWrite(length) ==
  LET room == Capacity - inbuf IN inbuf + (IF length < room THEN length ELSE room)

\* parseData: the library takes the whole frames at the front, the rest moves
\* to the front.
ParseData(use) ==
  \E rest \in 0..(MaxFrame - 1) :
    /\ rest <= use
    /\ inbuf' = rest
    /\ parsed' = parsed + (use - rest)
    /\ longest' = IF rest > longest THEN rest ELSE longest

\* async_receive's handler.
Received ==
  /\ alive /\ socket = "open" /\ wire # <<>>
  /\ \E length \in 1..ReadSize :
       /\ received + length <= MaxBytes
       /\ received' = received + length
       /\ ParseData(BufferWrite(length))
  /\ UNCHANGED <<output, connected, quit, socket, alive>>

\* The broker is gone, or onClosed closed the socket.
ReadFails == alive /\ connected /\ Exit

OnClosedCloses ==   \* mutant: line 218 missing and _quit not set
  /\ alive /\ connected /\ ~quit
  /\ quit' = TRUE
  /\ UNCHANGED <<output, connected, socket, alive, input>>

\* onClosed: the broker ended the AMQP connection.
OnClosed ==
  /\ alive /\ connected /\ ~quit
  /\ quit' = TRUE
  /\ socket' = IF inProgress THEN socket ELSE "closed"
  /\ UNCHANGED <<output, connected, alive, input>>

-----------------------------------------------------------------------------
Init ==
  /\ submitted = 0 /\ outq = <<>> /\ pending = <<>> /\ wire = <<>>
  /\ inProgress = FALSE /\ connected = FALSE /\ quit = FALSE
  /\ socket = "connecting" /\ alive = TRUE
  /\ received = 0 /\ inbuf = 0 /\ parsed = 0 /\ longest = 0

Next ==
  \/ OnData \/ Connected \/ ConnectFails \/ Written \/ WriteFails
  \/ Received \/ ReadFails \/ OnClosed

Spec == Init /\ [][Next]_vars

\* The kernel completes every connect and write, or fails it; a closed socket
\* fails the read that waits on it.
Fairness ==
  /\ WF_vars(Connected \/ ConnectFails)
  /\ WF_vars(Written \/ WriteFails)
  /\ WF_vars(socket = "closed" /\ ReadFails)
FairSpec == Spec /\ Fairness

-----------------------------------------------------------------------------
(* Every variable has its type.                                             *)
TypeOK ==
  /\ submitted \in 0..MaxData
  /\ outq \in Seq(1..MaxData) /\ pending \in Seq(1..MaxData)
  /\ wire \in Seq(1..MaxData)
  /\ inProgress \in BOOLEAN /\ connected \in BOOLEAN /\ quit \in BOOLEAN
  /\ socket \in {"connecting", "open", "closed"} /\ alive \in BOOLEAN
  /\ received \in 0..MaxBytes /\ parsed \in Nat
  /\ inbuf \in 0..Capacity /\ longest \in Nat

(* One async_write at a time, the one _writeInProgress tells of, and never  *)
(* none while buffers wait on a connection: the three places that call      *)
(* doWrite and the one that does not agree.                                 *)
OneWrite ==
  /\ inProgress => outq # <<>>
  /\ pending = IF inProgress THEN <<Head(outq)>> ELSE <<>>
  /\ connected /\ outq # <<>> => inProgress

(* The buffers reach the socket once each and in the order of onData, so a  *)
(* reply stays before its ack.                                              *)
Stream == INSTANCE Fifo WITH accepted <- submitted, delivered <- wire
FifoSpec == Stream!Spec

(* AmqpBuffer::write cuts off what does not fit and nobody looks: no byte   *)
(* of the broker is lost as long as what a frame leaves to wait for its     *)
(* end is not longer than a read.                                           *)
NothingDropped == longest <= ReadSize => parsed + inbuf = received

(* What onData accepts is written, or the process ends.                     *)
DataIsSent == \A n \in 1..MaxData : submitted >= n ~> Len(wire) >= n \/ ~alive

(* When the broker closes the AMQP connection the process ends, whatever is *)
(* being written: supervisord starts one that connects again.               *)
CloseEnds == quit ~> ~alive
=============================================================================
