---------------------------- MODULE BoundedQueue ----------------------------
(***************************************************************************)
(* What a queue of at most Capacity elements promises.  A queue that is    *)
(* full drops the element at the other end in mode "Overwrite"; in mode    *)
(* "Block" it takes no more.                                               *)
(***************************************************************************)
EXTENDS Integers, Sequences
CONSTANTS Elements, Capacity
VARIABLES mode,  \* "Overwrite" or "Block", for good
          q,     \* the elements, the next to be taken first
          taken  \* those taken, in their order

Accepts == Len(q) < Capacity \/ mode = "Overwrite"

Put(e) ==
  /\ Accepts
  /\ q' = IF Len(q) < Capacity THEN Append(q, e) ELSE Append(Tail(q), e)
  /\ UNCHANGED <<mode, taken>>

PutFront(e) ==
  /\ Accepts
  /\ q' = <<e>> \o (IF Len(q) < Capacity THEN q ELSE SubSeq(q, 1, Len(q) - 1))
  /\ UNCHANGED <<mode, taken>>

Take ==
  /\ q # <<>>
  /\ q' = Tail(q) /\ taken' = Append(taken, Head(q))
  /\ UNCHANGED mode

Init == mode \in {"Overwrite", "Block"} /\ q = <<>> /\ taken = <<>>
Next == Take \/ \E e \in Elements : Put(e) \/ PutFront(e)
Spec == Init /\ [][Next]_<<mode, q, taken>>
=============================================================================
