------------------------------ MODULE Barrier -------------------------------
(***************************************************************************)
(* Barrier_Wait of include/barrier.h: numProcs threads wait for each other *)
(* in shared memory, as often as they like, on counters that are kept      *)
(* twice and used in turn.  Every access to the shared barrier is a step   *)
(* of its own (the fields are atomic).                                     *)
(***************************************************************************)
EXTENDS Integers, FiniteSets

CONSTANTS Procs,   \* the threads
          Waits    \* how often each of them calls Barrier_Wait, at most

ASSUME BarrierAssumption == /\ IsFiniteSet(Procs)
                            /\ Procs # {}
                            /\ Waits \in Nat

numProcs == Cardinality(Procs)

VARIABLES gen, entered, wait,  \* struct Barrier
          place,     \* place[p]: the access p makes next
          mygen,     \* mygen[p]: the gen in p's frame
          called,    \* called[p]: calls p has begun
          returned   \* returned[p]: calls p has come back from

bvars == <<gen, entered, wait, place, mygen, called, returned>>

(* "everything zero is correct initial state"                              *)
BarrierInit == /\ gen = 0
               /\ entered = [i \in {0, 1} |-> 0]
               /\ wait = [i \in {0, 1} |-> 0]
               /\ place = [p \in Procs |-> "out"]
               /\ mygen = [p \in Procs |-> 0]
               /\ called = [p \in Procs |-> 0]
               /\ returned = [p \in Procs |-> 0]

BarrierGoto(p, from, to) == place[p] = from /\ place' = [place EXCEPT ![p] = to]

Entered(p, delta) == entered' = [entered EXCEPT ![mygen[p]] = @ + delta]

Call(p) == /\ called[p] < Waits
           /\ BarrierGoto(p, "out", IF numProcs = 1 THEN "return" ELSE "read gen")
           /\ called' = [called EXCEPT ![p] = @ + 1]
           /\ UNCHANGED <<gen, entered, wait, mygen, returned>>

ReadGen(p) == /\ BarrierGoto(p, "read gen", "arrive")
              /\ mygen' = [mygen EXCEPT ![p] = gen]
              /\ UNCHANGED <<gen, entered, wait, called, returned>>

ArriveOneShort(p) ==                               \* mutant: counted from one
  /\ BarrierGoto(p, "arrive", IF entered[mygen[p]] + 2 >= numProcs THEN "new gen" ELSE "spin")
  /\ Entered(p, 1)
  /\ UNCHANGED <<gen, wait, mygen, called, returned>>
Arrive(p) == /\ BarrierGoto(p, "arrive", IF entered[mygen[p]] + 1 = numProcs THEN "new gen" ELSE "spin")
             /\ Entered(p, 1)
             /\ UNCHANGED <<gen, wait, mygen, called, returned>>

(* The last to arrive starts the next generation, takes itself off and     *)
(* lets the others go.                                                     *)
NewGen(p) == /\ BarrierGoto(p, "new gen", "leave last")
             /\ gen' = 1 - mygen[p]
             /\ UNCHANGED <<entered, wait, mygen, called, returned>>

LeaveLastStays(p) ==                               \* mutant: does not take itself off
  BarrierGoto(p, "leave last", "release") /\ UNCHANGED <<gen, entered, wait, mygen, called, returned>>
LeaveLast(p) == /\ BarrierGoto(p, "leave last", "release")
                /\ Entered(p, -1)
                /\ UNCHANGED <<gen, wait, mygen, called, returned>>

LetGo(p) == /\ BarrierGoto(p, "release", "return")
            /\ wait' = [wait EXCEPT ![mygen[p]] = 1]
            /\ UNCHANGED <<gen, entered, mygen, called, returned>>

(* The others spin, and the last of them to leave takes the flag down.     *)
Spin(p) == /\ wait[mygen[p]] # 0
           /\ BarrierGoto(p, "spin", "leave")
           /\ UNCHANGED <<gen, entered, wait, mygen, called, returned>>

Leave(p) == /\ BarrierGoto(p, "leave", IF entered[mygen[p]] = 1 THEN "clear" ELSE "return")
            /\ Entered(p, -1)
            /\ UNCHANGED <<gen, wait, mygen, called, returned>>

ClearFlagNot(p) ==                                 \* mutant: the flag stays up
  BarrierGoto(p, "clear", "return") /\ UNCHANGED <<gen, entered, wait, mygen, called, returned>>
ClearFlag(p) == /\ BarrierGoto(p, "clear", "return")
                /\ wait' = [wait EXCEPT ![mygen[p]] = 0]
                /\ UNCHANGED <<gen, entered, mygen, called, returned>>

Return(p) == /\ BarrierGoto(p, "return", "out")
             /\ returned' = [returned EXCEPT ![p] = @ + 1]
             /\ UNCHANGED <<gen, entered, wait, mygen, called>>

Inside(p) == \/ ReadGen(p) \/ Arrive(p)
             \/ NewGen(p) \/ LeaveLast(p) \/ LetGo(p)
             \/ Spin(p) \/ Leave(p) \/ ClearFlag(p)
             \/ Return(p)

BarrierNext == \E p \in Procs : Call(p) \/ Inside(p)

BarrierSpec == BarrierInit /\ [][BarrierNext]_bvars

(* A hart does not stop inside Barrier_Wait; it need not call it again.    *)
BarrierFairSpec == BarrierSpec /\ \A p \in Procs : WF_bvars(Inside(p))

----------------------------------------------------------------------------
Places == {"out", "read gen", "arrive", "new gen", "leave last", "release",
           "spin", "leave", "clear", "return"}

BarrierTypeOK == /\ gen \in {0, 1}
                 /\ entered \in [{0, 1} -> 0 .. numProcs]
                 /\ wait \in [{0, 1} -> {0, 1}]
                 /\ place \in [Procs -> Places]
                 /\ mygen \in [Procs -> {0, 1}]
                 /\ called \in [Procs -> 0 .. Waits]
                 /\ returned \in [Procs -> 0 .. Waits]

(* The barrier is a rendezvous: nobody returns from its k-th call before   *)
(* everybody has begun its own, and if everybody has and the threads keep  *)
(* running inside it, everybody returns.                                   *)
Abstract == INSTANCE Rendezvous WITH Parties <- Procs, Rounds <- Waits,
                                        arrived <- called, left <- returned
BarrierMeeting == Abstract!FairSpec

(* barrier.h:27: "gen only changes when everyone is waiting"; all of them  *)
(* in the same call, with none on its way in that has not read gen.        *)
GenOnlyWhenWaiting ==
  [][gen' # gen => \A p, q \in Procs : /\ place[p] \in {"spin", "new gen"}
                                       /\ called[p] = called[q]]_bvars

(* barrier.h:12: "everything zero is correct initial state": when nobody   *)
(* is inside, the counters and flags are zero again, whatever gen is.      *)
Reusable == (\A p \in Procs : place[p] = "out") => \A i \in {0, 1} : entered[i] = 0 /\ wait[i] = 0

(* The inductive invariant, for k generations begun so far: a thread is    *)
(* between calls, on its way into call k + 1 or on its way out of call k;  *)
(* the counters count those who wait on either side; the last to arrive    *)
(* leaves with all others still waiting; the flag is only up while         *)
(* somebody is left to take it down.                                       *)
Gathered(k) == {p \in Procs : called[p] = k + 1 /\ place[p] \in {"spin", "new gen"}}
Leaving(k)  == {p \in Procs : called[p] = k /\ place[p] \in {"leave last", "spin", "leave"}}

Between(p, k) == called[p] = k /\ returned[p] = k /\ place[p] = "out"
Coming(p, k)  == /\ called[p] = k + 1 /\ returned[p] = k
                 /\ \/ place[p] = "read gen"
                    \/ place[p] \in {"arrive", "spin", "new gen"} /\ mygen[p] = gen
Going(p, k)   == /\ called[p] = k /\ returned[p] = k - 1
                 /\ \/ place[p] = "return"
                    \/ place[p] \in {"leave last", "release", "spin", "leave", "clear"} /\ mygen[p] = 1 - gen

Placed(k)    == \A p \in Procs : Between(p, k) \/ Coming(p, k) \/ Going(p, k)
Counted(k)   == /\ entered[gen] = Cardinality(Gathered(k))
                /\ entered[1 - gen] = Cardinality(Leaving(k))
AllIn(k)     == \A p \in Procs : place[p] = "new gen" =>
                  \A q \in Procs \ {p} : place[q] = "spin" /\ called[q] = k + 1
AllHeld(k)   == \A p \in Procs : place[p] \in {"leave last", "release"} =>
                  /\ wait[1 - gen] = 0
                  /\ \A q \in Procs \ {p} : place[q] = "spin" /\ called[q] = k
Flagged(k)   == /\ wait[gen] = 0
                /\ wait[1 - gen] = 1 =>
                     \E p \in Procs : called[p] = k /\ place[p] \in {"spin", "leave", "clear"}
LastOne(k)   == \A p \in Procs : place[p] = "clear" => Leaving(k) = {}

Generation(k) == Placed(k) /\ Counted(k) /\ AllIn(k) /\ AllHeld(k) /\ Flagged(k) /\ LastOne(k)

InGeneration == \E k \in 0 .. Waits : Generation(k)
=============================================================================
