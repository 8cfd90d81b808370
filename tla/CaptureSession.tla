--------------------------- MODULE CaptureSession ---------------------------
(***************************************************************************)
(* What a capture process promises to the controller that starts it: one   *)
(* session at a time; a session of n frames writes n files and no more, a  *)
(* session of -1 writes files until the process ends.                      *)
(***************************************************************************)
EXTENDS Integers

CONSTANT Sizes   \* the sessions that may be asked for

VARIABLES left,   \* files still to write, negative: no end
          saved   \* files the session has written

Init == left = 0 /\ saved = 0

Start == left = 0 /\ left' \in Sizes /\ saved' = 0

Save ==
  /\ left # 0
  /\ left' = IF left > 0 THEN left - 1 ELSE left
  /\ saved' = saved + 1

\* The process dies and the session with it.
End == left' = 0 /\ saved' = 0

Next == Start \/ Save \/ End

Spec == Init /\ [][Next]_<<left, saved>>
=============================================================================
