------------------------------- MODULE Clock --------------------------------
(***************************************************************************)
(* The time functions of clkutils/clkutils.h over a counter that counts    *)
(* on between any two loads.  On a 32-bit hart the counter is read in two  *)
(* halves.  clkutils_read_mcycle and metal_time read theirs as             *)
(* clkutils_read_mtime does.  Time passes in nanoseconds, of which mtime   *)
(* counts every Period-th.                                                 *)
(***************************************************************************)
EXTENDS Integers

CONSTANTS Period,  \* period_ns of the counter
          HalfMod, \* values of half of the counter, 2^32
          Delays,  \* values of delay_ns
          MaxNs    \* the time at which the model ends

ASSUME ClockAssumption == /\ Period \in Nat \ {0} /\ HalfMod \in Nat \ {0}
                          /\ Delays \subseteq Nat /\ MaxNs \in Nat

VARIABLES ns,  \* the time
          rd   \* the call in progress, or what the last one did

cvars == <<ns, rd>>

Mtime == ns \div Period

(* at: the load made next.  goal: what the value is for, to be returned,   *)
(* or now in or in front of the loop of clkutils_delay_ns.  began, value   *)
(* and delay say when the call began, what it read last and how long it    *)
(* has to wait; half and low are mtime_hi_0 and mtime_lo.                  *)
NoCall == [at |-> "none", goal |-> "none", began |-> 0, delay |-> 0, until |-> 0,
           half |-> 0, low |-> 0, value |-> 0]

ClockInit == ns \in 0 .. Period * HalfMod - 1 /\ rd = NoCall

Tick == /\ rd.at # "none"                     \* nobody sees it count in between
        /\ ns < MaxNs
        /\ ns' = ns + 1
        /\ UNCHANGED rd

FirstLoad(xlen) == IF xlen = 32 THEN "high" ELSE "whole"

ReadMtime(xlen) == /\ rd.at = "none"
                   /\ rd' = [NoCall EXCEPT !.at = FirstLoad(xlen), !.goal = "return", !.began = ns]
                   /\ UNCHANGED ns

DelayNs(d, xlen) == /\ rd.at = "none"
                    /\ rd' = [NoCall EXCEPT !.at = FirstLoad(xlen), !.goal = "start",
                                            !.began = ns, !.delay = d]
                    /\ UNCHANGED ns

LoadHigh == /\ rd.at = "high"
            /\ rd' = [rd EXCEPT !.at = "low", !.half = Mtime \div HalfMod]
            /\ UNCHANGED ns
LoadLow == /\ rd.at = "low"
           /\ rd' = [rd EXCEPT !.at = "high again", !.low = Mtime % HalfMod]
           /\ UNCHANGED ns

(* then = now + delay_ns / period_ns + 1                                   *)
Then(now, d) == now + d \div Period + 1

(* What becomes of a value: the call returns it, or goes on.               *)
Got(v, xlen) ==
  rd' = CASE rd.goal = "return" -> [rd EXCEPT !.at = "none", !.value = v]
          [] rd.goal = "start"  -> [rd EXCEPT !.at = FirstLoad(xlen), !.goal = "wait",
                                              !.until = Then(v, rd.delay), !.half = 0, !.low = 0]
          [] rd.goal = "wait"   -> IF v < rd.until
                                     THEN [rd EXCEPT !.at = FirstLoad(xlen), !.half = 0, !.low = 0]
                                   ELSE [rd EXCEPT !.at = "none", !.value = v]

AnyHigh(half) == TRUE                           \* mutant: halves not compared
SameHigh(half) == half = Mtime \div HalfMod

LoadHighAgain == /\ rd.at = "high again"
                 /\ IF SameHigh(rd.half) THEN Got((Mtime \div HalfMod) * HalfMod + rd.low, 32)
                    ELSE rd' = [rd EXCEPT !.at = "high", !.half = 0, !.low = 0]
                 /\ UNCHANGED ns
LoadWhole == /\ rd.at = "whole"
             /\ Got(Mtime, 64)
             /\ UNCHANGED ns

ClockStep == LoadHigh \/ LoadLow \/ LoadHighAgain \/ LoadWhole

(* Any sequence of calls.                                                  *)
ClockCall(xlen) == ReadMtime(xlen) \/ \E d \in Delays : DelayNs(d, xlen)
ClockNext == Tick \/ ClockStep \/ \E xlen \in {32, 64} : ClockCall(xlen)
ClockSpec == ClockInit /\ [][ClockNext]_cvars

----------------------------------------------------------------------------
(* A value read in halves is one the counter had during the call, however  *)
(* it carried in between (clkutils.h:24-28).                               *)
ClockExact == rd.at = "none" /\ rd.goal = "return" =>
                rd.began \div Period <= rd.value /\ rd.value <= Mtime

(* A delay lasts longer than all the whole periods in it.                  *)
Delayed == rd.at = "none" /\ rd.goal = "wait"
WholePeriods == Delayed => ns - rd.began > (rd.delay \div Period) * Period

(* clkutils.h:61, of the tick added to then: "So this function delays AT   *)
(* LEAST delay_ns."                                                        *)
DelaysAtLeast == Delayed => ns - rd.began >= rd.delay
=============================================================================
