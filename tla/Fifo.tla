-------------------------------- MODULE Fifo --------------------------------
(***************************************************************************)
(* A stream of buffers, numbered in the order they are accepted: it        *)
(* delivers each of them once, in that order, or stops.                    *)
(***************************************************************************)
EXTENDS Naturals, Sequences

VARIABLES accepted,   \* how many buffers were accepted
          delivered   \* the buffers at the other end

Init == accepted = 0 /\ delivered = <<>>

Accept == accepted' = accepted + 1 /\ UNCHANGED delivered

Deliver ==
  /\ Len(delivered) < accepted
  /\ delivered' = Append(delivered, Len(delivered) + 1)
  /\ UNCHANGED accepted

Next == Accept \/ Deliver

Spec == Init /\ [][Next]_<<accepted, delivered>>
=============================================================================
