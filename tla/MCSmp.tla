------------------------------- MODULE MCSmp --------------------------------
(* The macros used twice on a chip with two harts.                         *)
EXTENDS Smp

TwoHarts == {0, 1}
=============================================================================
