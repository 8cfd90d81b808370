----------------------------- MODULE MCWatchdog -----------------------------
(* Small instances of Watchdog: the commands the configurations choose from. *)
EXTENDS Watchdog

MCStart(n, i) == [Nothing EXCEPT !.capture = n, !.interval = i]
MCStop == [Nothing EXCEPT !.stop = TRUE]
MCKill == [Nothing EXCEPT !.kill = TRUE]

MCSessions == {MCStart(1, 1), StatusCommand}
MCFinite   == {MCStart(-1, 1), MCStart(2, 1)}
MCAll      == {MCStart(-1, 1), MCStop, MCKill, StatusCommand}
=============================================================================
