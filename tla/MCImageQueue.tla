---------------------------- MODULE MCImageQueue ----------------------------
(* Small instances of ImageQueue: the library's threads and the savers.      *)
EXTENDS ImageQueue
CONSTANTS p1, p2, c1, c2
=============================================================================
