------------------------------ MODULE MCMover ------------------------------
(* Small instances of Mover: the sizes are given by the configurations.     *)
EXTENDS Mover
=============================================================================
