------------------------------- MODULE MCI2c --------------------------------
(* Calls with up to two bytes in each direction, with and without a STOP,  *)
(* on a clock that wraps around after four seconds of two ticks.           *)
EXTENDS I2c

Asks(operation, tx, rx, stop) ==
  [op |-> operation, tx |-> tx, rx |-> rx, stop |-> stop, there |-> TRUE]
MCCalls == {Asks("write", 0, 0, TRUE), Asks("write", 2, 0, TRUE), Asks("write", 1, 0, FALSE),
            Asks("read", 0, 2, TRUE), Asks("read", 0, 1, FALSE),
            Asks("transfer", 0, 0, TRUE), Asks("transfer", 1, 0, TRUE),
            Asks("transfer", 0, 2, TRUE), Asks("transfer", 2, 1, TRUE),
            [Asks("write", 1, 0, TRUE) EXCEPT !.there = FALSE]}

(* The clock of 90 is divided by 5 * divisor, with divisors up to 16: a    *)
(* rate too slow for the prescaler, one that it makes exactly, one between *)
(* two that it makes (90 / 35 is 2 and a half), and one faster than all.   *)
MCBauds == {1, 2, 7, 19}
=============================================================================
