-------------------------------- MODULE Trng --------------------------------
(***************************************************************************)
(* The TRNG driver, trng/trng.c, as the application at the end of main()   *)
(* uses it (main.c:473-496), register access by register access, over a    *)
(* generator that has its number ready at some time or never.              *)
(***************************************************************************)
EXTENDS Integers, Sequences

CONSTANTS MaxWait,  \* MAX_WAIT_TIME
          Numbers,  \* how many numbers main asks for, 10
          Values    \* numbers the generator may make

ERROR_WAIT   == -1
ERROR_RANDOM == 0

ASSUME TrngAssumption == /\ MaxWait \in Nat \ {0} /\ Numbers \in Nat
                         /\ Values \subseteq Nat /\ ERROR_RANDOM \in Values

VARIABLES ctl,    \* bits of the control register
          valid,  \* the valid bit of the status register
          random, \* the random register: the number and how many there were
          m,      \* main: at, the loop counters max and i, status and rand
          nums    \* which of the generator's numbers main has printed

gvars == <<ctl, valid, random>>
tvars == <<gvars, m, nums>>

TrngInit == /\ ctl = {} /\ valid = FALSE
            /\ random = [made |-> 0, value |-> 0]
            /\ m = [at |-> "reset", max |-> 0, i |-> 0, status |-> 0, rand |-> 0]
            /\ nums = <<>>

(* The generator: reset stops it; enabled, it calibrates itself and has a  *)
(* number; when NEXT goes up the number is spent and the next one is made. *)
Write(bits) == /\ ctl' = bits
               /\ valid' = (valid /\ "reset" \notin bits /\ ~("next" \in bits /\ "next" \notin ctl))
               /\ UNCHANGED random
Make == /\ "enable" \in ctl /\ "reset" \notin ctl /\ ~valid
        /\ \E v \in Values : random' = [made |-> random.made + 1, value |-> v]
        /\ valid' = TRUE
        /\ UNCHANGED <<ctl, m, nums>>

Goto(here, there) == m.at = here /\ m' = [m EXCEPT !.at = there, !.max = 0]

(* trng_setup: trng_reset, the delay (which only the generator reads), the *)
(* enable bit.                                                             *)
Reset   == Goto("reset", "release") /\ Write({"reset"}) /\ UNCHANGED nums
Release == Goto("release", "enable") /\ Write({}) /\ UNCHANGED nums
Enable  == Goto("enable", "calibrate") /\ Write(ctl \cup {"enable"}) /\ UNCHANGED nums

(* The loops that wait for the valid bit.                                  *)
GiveUpNever(max) == FALSE                         \* mutant: no bound on the wait
GiveUp(max) == max + 1 = MaxWait
Poll(here, ready, failed) ==
  /\ m.at = here
  /\ m' = IF valid THEN [m EXCEPT !.at = ready, !.max = 0]
          ELSE IF GiveUp(m.max) THEN [failed EXCEPT !.max = 0]
          ELSE [m EXCEPT !.max = IF @ < MaxWait THEN @ + 1 ELSE @]
  /\ UNCHANGED <<gvars, nums>>
Calibrate == Poll("calibrate", "first", [m EXCEPT !.at = "check", !.status = ERROR_WAIT])

(* trng_setup has no return statement for success: main compares whatever  *)
(* the register of the return value holds.                                 *)
First == /\ m.at = "first"
         /\ \E left \in {ERROR_WAIT, ERROR_RANDOM, 1} :
              m' = [m EXCEPT !.at = "check",
                             !.status = IF random.value = 0 THEN ERROR_RANDOM ELSE left]
         /\ UNCHANGED <<gvars, nums>>
Check == /\ Goto("check", IF m.status \in {ERROR_WAIT, ERROR_RANDOM} THEN "say error"
                          ELSE IF Numbers = 0 THEN "disable" ELSE "clear next")
         /\ UNCHANGED <<gvars, nums>>

(* trng_get_random: NEXT down and up again, the wait and the number.       *)
ClearNextNot == Goto("clear next", "next") /\ UNCHANGED <<gvars, nums>>   \* mutant: NEXT stays up
ClearNext == Goto("clear next", "next") /\ Write(ctl \ {"next"}) /\ UNCHANGED nums
SetNext   == Goto("next", "await") /\ Write(ctl \cup {"next"}) /\ UNCHANGED nums
Await     == Poll("await", "read", [m EXCEPT !.at = "say error"])
ReadRandom == /\ m.at = "read"
              /\ m' = [m EXCEPT !.at = IF random.value = ERROR_RANDOM THEN "say error" ELSE "print",
                                !.rand = random.value]
              /\ UNCHANGED <<gvars, nums>>

(* main prints the number and goes on.  After a failure one message stands *)
(* for that of the driver and that of main.                                *)
Printed == /\ m.at = "print"
           /\ nums' = Append(nums, random.made)
           /\ m' = [m EXCEPT !.at = "printing"]
           /\ UNCHANGED gvars
NextNumber == /\ m.at = "printing"
              /\ m' = [m EXCEPT !.at = IF m.i + 1 < Numbers THEN "clear next" ELSE "disable",
                                !.i = @ + 1]
              /\ UNCHANGED <<gvars, nums>>
SayError == Goto("say error", "saying") /\ UNCHANGED <<gvars, nums>>
Said     == Goto("saying", "disable") /\ UNCHANGED <<gvars, nums>>

(* trng_reset_disable, and while(1).                                       *)
Disable == Goto("disable", "loop") /\ Write({"reset"}) /\ UNCHANGED nums

DriverStep == \/ Reset \/ Release \/ Enable \/ Calibrate \/ First \/ Check
              \/ ClearNext \/ SetNext \/ Await \/ ReadRandom \/ Disable

(* main with the driver and the generator, however long it takes to print. *)
TrngNext == DriverStep \/ Printed \/ NextNumber \/ SayError \/ Said \/ Make
TrngSpec == TrngInit /\ [][TrngNext]_tvars

----------------------------------------------------------------------------
(* Every number that main prints was made for its own request: none is     *)
(* printed twice, and none is the number of the calibration                *)
(* (trng.c:63-64: without the edge of NEXT the valid bit is still up).     *)
NumbersFresh == /\ \A i \in DOMAIN nums : 1 < nums[i]
                /\ \A i, j \in DOMAIN nums : i < j => nums[i] < nums[j]
=============================================================================
