----------------------------- MODULE MCDrivers ------------------------------
(* The calls of MCI2c and the devices of MCInterrupts.                     *)
EXTENDS Drivers, MCI2c, MCInterrupts
=============================================================================
