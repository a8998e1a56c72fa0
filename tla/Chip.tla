-------------------------------- MODULE Chip --------------------------------
(***************************************************************************)
(* The programs of module Program, and one in which the harts, once they   *)
(* are out of smp_resume, meet at the barrier of include/barrier.h         *)
(* ("barrier").  A hart may come to the barrier while others are still in  *)
(* the macros.                                                             *)
(***************************************************************************)
EXTENDS Program, Barrier

(* Each hart is one of the barrier's threads.                              *)
ASSUME ChipAssumption == Procs = Harts

chipVars == <<vars, bvars>>

ChipInit == ProgramInit /\ BarrierInit

(* Barrier_Wait, on one hart.                                              *)
AtBarrier(h) == At(h, "barrier") /\ UNCHANGED vars

ChipNext == \/ ProgramNext /\ UNCHANGED bvars
            \/ \E h \in Harts : AtBarrier(h) /\ (Call(h) \/ Inside(h))

(* The fairness of the two modules.                                        *)
ChipSpec == /\ ChipInit /\ [][ChipNext]_chipVars
            /\ WF_chipVars(Sends /\ UNCHANGED bvars)
            /\ \A h \in Harts : /\ WF_chipVars(GoesOn(h) /\ UNCHANGED bvars)
                                /\ WF_chipVars(AtBarrier(h) /\ Inside(h))
=============================================================================
