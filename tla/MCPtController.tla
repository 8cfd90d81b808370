--------------------------- MODULE MCPtController ---------------------------
(* Small instances of PtController: the commands the configurations choose   *)
(* from.                                                                     *)
EXTENDS PtController

MCCommand(status, stop, exposure, lens, n, places) ==
  [status |-> status, stop |-> stop, exposure |-> exposure, lens |-> lens,
   capture |-> n, pt_locs |-> places]
MCScan(n, places) == MCCommand(FALSE, FALSE, FALSE, FALSE, n, places)
MCExposure == MCCommand(TRUE, FALSE, TRUE, FALSE, 0, 0)
MCStop     == MCCommand(FALSE, TRUE, FALSE, TRUE, 0, 0)

MCOneScan   == {MCScan(1, 2), MCScan(0, 1), MCScan(0, 0), MCScan(-1, 1),
                MCExposure, MCStop}
=============================================================================
