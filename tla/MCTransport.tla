---------------------------- MODULE MCTransport ----------------------------
(* Small instances of Transport: the sizes are given by the configurations. *)
EXTENDS Transport
=============================================================================
