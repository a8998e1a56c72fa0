----------------------------- MODULE Rendezvous -----------------------------
(***************************************************************************)
(* What a rendezvous promises, independently of how it is built: parties   *)
(* meet once per round, and a party leaves the meeting of its round only   *)
(* when every party has arrived at it.  The IPI rendezvous of include/smp.h *)
(* (module Smp) and the spinning barrier of include/barrier.h (module      *)
(* Barrier) are both shown to implement it.                                *)
(***************************************************************************)
EXTENDS Integers

CONSTANTS Parties,  \* who meets
          Rounds    \* how often they meet

VARIABLES arrived,  \* arrived[p]: meetings p has come to so far
          left      \* left[p]: meetings p has come out of so far

rvars == <<arrived, left>>

Init == /\ arrived = [p \in Parties |-> 0]
        /\ left = [p \in Parties |-> 0]

(* A party comes to the next meeting once it is out of the previous one.   *)
Arrive(p) == /\ arrived[p] = left[p]
             /\ arrived[p] < Rounds
             /\ arrived' = [arrived EXCEPT ![p] = @ + 1]
             /\ UNCHANGED left

(* A party leaves when nobody is still missing from its meeting.           *)
Leave(p) == /\ left[p] < arrived[p]
            /\ \A q \in Parties : arrived[q] >= arrived[p]
            /\ left' = [left EXCEPT ![p] = @ + 1]
            /\ UNCHANGED arrived

Next == \E p \in Parties : Arrive(p) \/ Leave(p)

Spec == Init /\ [][Next]_rvars

(* A meeting everybody has come to is one everybody comes out of.          *)
FairSpec == Spec /\ \A p \in Parties : WF_rvars(Leave(p))
=============================================================================
