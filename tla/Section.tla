------------------------------ MODULE Section ------------------------------
(* What a critical section promises: one thread at a time is inside.         *)
CONSTANTS Threads, Nobody
VARIABLE holder

Enter(t) == holder = Nobody /\ holder' = t
Leave(t) == holder = t /\ holder' = Nobody

Init == holder = Nobody
Next == \E t \in Threads : Enter(t) \/ Leave(t)
Spec == Init /\ [][Next]_holder
=============================================================================
