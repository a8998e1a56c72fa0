------------------------------ MODULE Drivers -------------------------------
(***************************************************************************)
(* A program on NONSMP_HART that uses the polled I2C driver, or turns      *)
(* external interrupts on and off and takes them.  The two drivers share   *)
(* no register and no memory, so one program needs only one of them: what  *)
(* they do is the sum of the modules I2c and Interrupts.                   *)
(***************************************************************************)
EXTENDS I2c, Interrupts

VARIABLE part  \* the driver the program uses

driverVars == <<part, vars, plicVars>>

UsesI2c  == part = "i2c" /\ UNCHANGED <<part, plicVars>>
UsesPlic == part = "plic" /\ UNCHANGED <<part, vars>>

(* What the other driver's registers hold does not matter.                 *)
DriversInit == /\ Init /\ PlicInit
               /\ \/ part = "i2c" /\ enabled = {} /\ threshold = 0 /\ priority[0] = 0
                  \/ part = "plic" /\ lo = 0

DriversNext == \/ UsesI2c /\ Next
               \/ UsesPlic /\ PlicNext

(* The fairness of the two modules.                                        *)
DriversSpec == /\ DriversInit /\ [][DriversNext]_driverVars
               /\ WF_driverVars(UsesI2c /\ Work) /\ SF_driverVars(UsesI2c /\ TimeUp /\ Work)
               /\ SF_driverVars(UsesI2c /\ GiveUp) /\ WF_driverVars(UsesI2c /\ Tick)
               /\ WF_driverVars(UsesPlic /\ Trap)
=============================================================================
