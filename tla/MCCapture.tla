----------------------------- MODULE MCCapture -----------------------------
(* Small instances of Capture.                                              *)
EXTENDS Capture

Command(k, s, x, n, i) ==
  [kill |-> k, status |-> s, stop |-> x, capture |-> n, interval |-> i]

Status   == Command(FALSE, TRUE, FALSE, 0, 0)    \* _status, _cam_status
Exposure == Command(FALSE, FALSE, FALSE, 0, 0)   \* set_exposure
NoPeriod == Command(FALSE, FALSE, FALSE, 1, 0)
Stop     == Command(FALSE, FALSE, TRUE, 0, 0)
Kill     == Command(TRUE, FALSE, FALSE, 0, 0)
Start(n) == Command(FALSE, FALSE, FALSE, n, 1)

\* What the pan-tilt controller sends, a finite session of two frames, a start
\* without an interval, and a kill.
NoStopCommands == {Status, Exposure, NoPeriod, Start(1), Start(2), Kill}
\* Controllers that stop sessions, finite and continuous, and kill the process.
WithStop == {Stop, Start(1), Start(-1), Kill}
=============================================================================
