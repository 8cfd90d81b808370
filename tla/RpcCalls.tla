------------------------------ MODULE RpcCalls ------------------------------
(***************************************************************************)
(* What UOControllerRpcClient (capture_watchdog/rpc_client.py) promises     *)
(* those that call the capture process: a call ends with the answer to its  *)
(* own request or with a timeout, and after a timeout its request is        *)
(* nobody's, whatever still becomes of it.  A timeout purges the queue all  *)
(* clients share, which may cost the others their requests: such a call     *)
(* can only time out.                                                       *)
(*                                                                         *)
(* call[c] is "none" when c has no call, "sent" when its request may still  *)
(* be answered, "answered" when c has the answer and has not gone on,       *)
(* "lost" when its request is purged.                                       *)
(***************************************************************************)
CONSTANT Clients

VARIABLE call

CallStates == {"none", "sent", "answered", "lost"}

Open(c)   == call[c] = "none" /\ call' = [call EXCEPT ![c] = "sent"]
Answer(c) == call[c] = "sent" /\ call' = [call EXCEPT ![c] = "answered"]
Close(c)  == call[c] = "answered" /\ call' = [call EXCEPT ![c] = "none"]

\* The timeout, and the requests of others that are purged with it.
Expire(c) ==
  /\ call[c] \in {"sent", "lost"}
  /\ \E purged \in SUBSET {d \in Clients \ {c} : call[d] = "sent"} :
       call' = [d \in Clients |-> IF d = c THEN "none"
                                  ELSE IF d \in purged THEN "lost" ELSE call[d]]

\* The process the clients are part of ends.
Abandon == call' = [c \in Clients |-> "none"]

Init == call = [c \in Clients |-> "none"]

Next == Abandon \/ \E c \in Clients : Open(c) \/ Answer(c) \/ Expire(c) \/ Close(c)

Spec == Init /\ [][Next]_call
=============================================================================
