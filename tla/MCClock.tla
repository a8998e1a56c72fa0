------------------------------ MODULE MCClock -------------------------------
(* A counter of four nanoseconds a tick and delays of no, one and two      *)
(* whole ticks, with a part of a tick and without.                         *)
EXTENDS Clock

MCDelays == {0, 3, 4, 6, 11}
=============================================================================
