------------------------------ MODULE MCPleora ------------------------------
(* Small instances of PleoraCapture: two cameras with the same suffix.       *)
EXTENDS PleoraCapture
MCTwins == <<"5f", "5f">>
=============================================================================
