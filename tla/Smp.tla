-------------------------------- MODULE Smp ---------------------------------
(***************************************************************************)
(* The smp_pause / smp_resume macros of include/smp.h, as every hart       *)
(* executes them.  smp_pause sends all harts but NONSMP_HART straight to   *)
(* the wfi loop of smp_resume; NONSMP_HART does its single-threaded work,  *)
(* raises the software interrupt (MSIP) of hart 0, 1, ..., MAX_HARTS-1 in  *)
(* turn and joins the others; a hart that finds its interrupt pending      *)
(* clears it and then scans all MSIP registers in turn, staying on each    *)
(* one until it reads zero.                                                *)
(*                                                                         *)
(* A step is one load or store of an MSIP register (or one CSR access)     *)
(* together with the register instructions around it, which no other hart  *)
(* can see.  The accesses of a hart reach the CLINT in program order: the   *)
(* macros hold no fence, so this is an assumption on the bus they run on.  *)
(***************************************************************************)
EXTENDS Integers

CONSTANTS Harts,       \* ids of the harts the chip has
          MaxHarts,    \* MAX_HARTS: number of MSIP registers touched
          NonSmpHart,  \* NONSMP_HART: the hart that works while others wait
          Rounds       \* how many pause/resume pairs each hart executes

ASSUME SmpAssumption == /\ MaxHarts \in Nat \ {0}
                        /\ Harts \subseteq 0 .. MaxHarts - 1
                        /\ NonSmpHart \in Harts
                        /\ Rounds \in Nat \ {0}

VARIABLES pc,     \* pc[h]: where hart h is in the two macros
          msip,   \* msip[h]: the software interrupt of hart h, in the CLINT
          mie,    \* mie[h]: hart h has its software interrupt enabled
          idx,    \* idx[h]: register number a loop of hart h is at (reg1)
          round   \* round[h]: pause/resume pairs hart h has begun

svars == <<pc, msip, mie, idx, round>>

Asleep == {"pause", "work", "raise", "wait", "clear"}  \* MSIP not consumed yet
Awake  == {"scan", "multi"}                            \* MSIP consumed

TypeOK == /\ pc \in [Harts -> Asleep \cup Awake]
          /\ msip \in [Harts -> {0, 1}]
          /\ mie \in [Harts -> {0, 1}]
          /\ idx \in [Harts -> 0 .. MaxHarts]
          /\ round \in [Harts -> 1 .. Rounds]

Init == /\ pc = [h \in Harts |-> "pause"]
        /\ msip = [h \in Harts |-> 0]
        /\ mie = [h \in Harts |-> 0]
        /\ idx = [h \in Harts |-> 0]
        /\ round = [h \in Harts |-> 1]

(* The loops end at CLINT_END_HART_IPI (blt reg1, reg2): there is a next   *)
(* register after i.                                                       *)
InLoop(i) == i + 1 < MaxHarts

(* What a load of MSIP register i returns: the registers of harts the chip *)
(* does not have read as zero and ignore stores.                           *)
Msip(i) == IF i \in Harts THEN msip[i] ELSE 0

----------------------------------------------------------------------------
Branch(h, there) ==   \* hart h goes to label there, with its interrupt enabled
  /\ pc[h] = "pause"
  /\ mie' = [mie EXCEPT ![h] = 1]
  /\ pc' = [pc EXCEPT ![h] = there]
  /\ UNCHANGED <<msip, idx, round>>

PauseDisabled(h) == /\ pc[h] = "pause"           \* mutant: no csrsi mie
                    /\ pc' = [pc EXCEPT ![h] = IF h = NonSmpHart THEN "work" ELSE "wait"]
                    /\ UNCHANGED <<msip, mie, idx, round>>

(* smp_pause: enable the software interrupt; only NONSMP_HART falls        *)
(* through into the work, the others jump to label 42 of smp_resume.       *)
Pause(h) == Branch(h, IF h = NonSmpHart THEN "work" ELSE "wait")

(* The single-threaded work is over: smp_resume begins at register 0.      *)
Resume(h) == /\ pc[h] = "work"
             /\ pc' = [pc EXCEPT ![h] = "raise"]
             /\ idx' = [idx EXCEPT ![h] = 0]
             /\ UNCHANGED <<msip, mie, round>>

(* One turn of the loop that stores 1 to every MSIP register.              *)
Raise(h) == /\ pc[h] = "raise"
            /\ msip' = [k \in Harts |-> IF k = idx[h] THEN 1 ELSE msip[k]]
            /\ idx' = [idx EXCEPT ![h] = @ + 1]
            /\ pc' = [pc EXCEPT ![h] = IF InLoop(idx[h]) THEN "raise" ELSE "wait"]
            /\ UNCHANGED <<mie, round>>

WakeUnchecked(h) == /\ pc[h] = "wait"           \* mutant: mip not tested after wfi
                    /\ pc' = [pc EXCEPT ![h] = "clear"]
                    /\ UNCHANGED <<msip, mie, idx, round>>

(* The wfi loop ends when mip shows the hart's own software interrupt.  A  *)
(* wfi that returns for no reason finds the bit clear and changes nothing. *)
Wake(h) == /\ pc[h] = "wait"
           /\ msip[h] = 1
           /\ pc' = [pc EXCEPT ![h] = "clear"]
           /\ UNCHANGED <<msip, mie, idx, round>>

(* The hart clears its own interrupt and starts to scan at register 0.     *)
Clear(h) == /\ pc[h] = "clear"
            /\ msip' = [msip EXCEPT ![h] = 0]
            /\ idx' = [idx EXCEPT ![h] = 0]
            /\ pc' = [pc EXCEPT ![h] = "scan"]
            /\ UNCHANGED <<mie, round>>

(* The test of the scan loop: bnez reg2, 41b.                              *)
NoTest(i) == TRUE                              \* mutant: the scan does not spin
Cleared(i) == Msip(i) = 0

(* One register of the scan reads zero; after the last one the hart is out *)
(* of smp_resume.  While a register reads one the hart reads it again.     *)
Scan(h) == /\ pc[h] = "scan"
           /\ Cleared(idx[h])
           /\ idx' = [idx EXCEPT ![h] = @ + 1]
           /\ pc' = [pc EXCEPT ![h] = IF InLoop(idx[h]) THEN "scan" ELSE "multi"]
           /\ UNCHANGED <<msip, mie, round>>

(* A program that uses the macros again comes back to smp_pause after its  *)
(* multi-threaded work.                                                    *)
Again(h) == /\ pc[h] = "multi"
            /\ round[h] < Rounds
            /\ round' = [round EXCEPT ![h] = @ + 1]
            /\ pc' = [pc EXCEPT ![h] = "pause"]
            /\ UNCHANGED <<msip, mie, idx>>

Next == \E h \in Harts : \/ Pause(h)
                         \/ Resume(h)
                         \/ Raise(h)
                         \/ Wake(h)
                         \/ Clear(h)
                         \/ Scan(h)
                         \/ Again(h)

Spec == Init /\ [][Next]_svars

(* Every hart keeps executing instructions; wfi is only sure to return for *)
(* an interrupt that is enabled as well as pending.                        *)
Fairness == \A h \in Harts :
              /\ WF_svars(Pause(h) \/ Resume(h) \/ Raise(h) \/ Clear(h) \/ Scan(h) \/ Again(h))
              /\ WF_svars(Wake(h) /\ mie[h] = 1)

FairSpec == Spec /\ Fairness

----------------------------------------------------------------------------
(* The rendezvous inside smp_resume: a hart has arrived when it has        *)
(* consumed its interrupt, and has left when it is out of the scan.        *)
came == [h \in Harts |-> IF pc[h] \in Awake THEN round[h] ELSE round[h] - 1]
gone == [h \in Harts |-> IF pc[h] = "multi" THEN round[h] ELSE round[h] - 1]

Meeting == INSTANCE Rendezvous WITH Parties <- Harts, arrived <- came, left <- gone

(* smp_resume is a rendezvous: no hart gets past the scan loop before      *)
(* every hart of the chip has woken up and consumed its interrupt, and     *)
(* when all have, all get past it (smp.h, the loops at labels 42 and 41).  *)
MeetingSpec == Meeting!FairSpec

(* Once a hart is out of smp_resume no software interrupt is left pending, *)
(* so none can fire in the multi-threaded code that follows.               *)
NoStaleIPI == (\E h \in Harts : pc[h] = "multi") => \A k \in Harts : msip[k] = 0

(* An interrupt is raised only when the single-threaded work is over:      *)
(* nobody starts to wake while NONSMP_HART still works.                    *)
WorkUndisturbed == pc[NonSmpHart] \in {"pause", "work"} =>
                     \A h \in Harts : pc[h] \in Asleep /\ msip[h] = 0

(* Why smp_resume works when it is used once (the inductive invariant):    *)
(* the loop has raised the interrupt of hart h when it is past register h, *)
(* a register reads one exactly while its hart has been raised and has not *)
(* consumed it, only raised harts are awake, and a scanning hart has seen  *)
(* everybody below its index awake.                                        *)
Raised(h) == \/ pc[NonSmpHart] \in {"wait", "clear"} \cup Awake
             \/ pc[NonSmpHart] = "raise" /\ h < idx[NonSmpHart]

LoopsInRange == \A h \in Harts : pc[h] \in {"raise", "scan"} => idx[h] < MaxHarts
OneWorker    == \A h \in Harts \ {NonSmpHart} : pc[h] \notin {"work", "raise"}
MsipExact    == \A h \in Harts : msip[h] = IF Raised(h) /\ pc[h] \in Asleep THEN 1 ELSE 0
AwakeRaised  == \A h \in Harts : pc[h] \in {"clear"} \cup Awake => Raised(h)
ScanSeen     == \A h, k \in Harts :
                  pc[h] = "multi" \/ (pc[h] = "scan" /\ k < idx[h]) => pc[k] \in Awake

OnceInv == LoopsInRange /\ OneWorker /\ MsipExact /\ AwakeRaised /\ ScanSeen

(* No hart is left behind in the wfi loop or the scan: every hart of the   *)
(* chip comes out of its last smp_resume, to the multi-threaded work that  *)
(* the comment above the macros (smp.h:29-34) has follow it.               *)
EveryHartResumes == \A h \in Harts : <>(pc[h] = "multi" /\ round[h] = Rounds)

(* Why they keep in step when they are used again and again: a hart has    *)
(* been raised once for each time it consumed its interrupt, and once more *)
(* while that is pending; a hart in round n has seen everybody consume     *)
(* that of round n-1, and while it scans, those below its index that of n. *)
Raises(h) == IF Raised(h) THEN round[NonSmpHart] ELSE round[NonSmpHart] - 1

RaisesExact  == \A h \in Harts : Raises(h) = came[h] + msip[h]
ClearPending == \A h \in Harts : pc[h] = "clear" => msip[h] = 1
SeenLast     == \A h, k \in Harts : came[k] >= round[h] - 1
SeenNow      == \A h, k \in Harts :
                  pc[h] = "multi" \/ (pc[h] = "scan" /\ k < idx[h]) => came[k] >= round[h]

RoundsInv == /\ LoopsInRange /\ OneWorker
             /\ RaisesExact /\ ClearPending /\ SeenLast /\ SeenNow

(* Used again and again the macros may stop, but they never let one hart   *)
(* run away: no hart is two rounds ahead of another.                       *)
RoundsInStep == \A h, k \in Harts : round[h] <= round[k] + 1
=============================================================================
