---------------------------- MODULE MCInterrupts ----------------------------
(* Three devices on a PLIC of four sources, two to a byte of enable bits:  *)
(* the first masks itself and is alone in its byte, the second masks       *)
(* itself in the byte it shares with the third, and the last source is in  *)
(* a byte of its own, the one a rounding error would miss.                 *)
EXTENDS Interrupts

MCDevices == {1, 2, 3}
MCMasking == {1, 2}
=============================================================================
