------------------------------ MODULE SmpBoot -------------------------------
(***************************************************************************)
(* Start-up of all harts, src/start.S from smp_pause to the calls of main  *)
(* and slave_main.  The single-threaded work between smp_pause and         *)
(* smp_resume is to load .data from its image and to zero .bss; after      *)
(* smp_resume each hart takes its stack and calls its entry function.      *)
(* The macros themselves are module Smp, with one round.                   *)
(***************************************************************************)
EXTENDS Smp

CONSTANTS DataWords,  \* words of .data ... .sdata (_data up to _edata)
          BssWords,   \* words of .bss (_fbss up to _ebss)
          StackRoom   \* bytes from _ebss up to _sp, link.lds checks >= 4096

ASSUME BootAssumption == /\ DataWords \in Nat
                         /\ BssWords \in Nat
                         /\ StackRoom \in Nat
                         /\ StackRoom >= 4096
                         /\ Rounds = 1

VARIABLES inPlace,  \* _data_lma = _data: the image is where it runs
          phase,    \* the loop of the single-threaded work the boot hart is in
          ptr,      \* index of the word that loop is at
          data,     \* data[i]: what word i of .data holds
          bss,      \* bss[i]: what word i of .bss holds
          sp,       \* sp[h]: stack pointer, as bytes above _ebss
          stage     \* stage[h]: the function hart h is in

bvars == <<inPlace, phase, ptr, data, bss, sp, stage>>
bootVars == <<svars, bvars>>

DataIndex == 0 .. DataWords - 1
BssIndex  == 0 .. BssWords - 1
StackStep == 1024          \* slli t1, t0, 10

BootTypeOK == /\ TypeOK
              /\ inPlace \in BOOLEAN
              /\ phase \in {"data", "bss", "done"}
              /\ ptr \in 0 .. IF phase = "data" THEN DataWords ELSE BssWords
              /\ data \in [DataIndex -> {"junk", "image"}]
              /\ bss \in [BssIndex -> {"junk", "zero"}]
              /\ sp \in [Harts -> Int]
              /\ stage \in [Harts -> {"boot", "main", "slave"}]

(* Out of reset RAM holds anything; only when the image already lies where *)
(* it runs does .data hold its initial values.                             *)
BootInit == /\ Init
            /\ inPlace \in BOOLEAN
            /\ phase = "data"
            /\ ptr = 0
            /\ data = [i \in DataIndex |-> IF inPlace THEN "image" ELSE "junk"]
            /\ bss = [i \in BssIndex |-> "junk"]
            /\ sp = [h \in Harts |-> 0]
            /\ stage = [h \in Harts |-> "boot"]

----------------------------------------------------------------------------
Working == pc[NonSmpHart] = "work"
LoadingDone == inPlace \/ ptr >= DataWords

(* One word of .data is loaded from its image.                             *)
LoadWord == /\ Working
            /\ phase = "data"
            /\ ~LoadingDone
            /\ data' = [data EXCEPT ![ptr] = "image"]
            /\ ptr' = ptr + 1
            /\ UNCHANGED <<svars, inPlace, phase, bss, sp, stage>>

(* The load loop ends, or is skipped when there is nothing to load.        *)
EndLoad == /\ Working
           /\ phase = "data"
           /\ LoadingDone
           /\ phase' = "bss"
           /\ ptr' = 0
           /\ UNCHANGED <<svars, inPlace, data, bss, sp, stage>>

(* One word of .bss is zeroed.                                             *)
ZeroWord == /\ Working
            /\ phase = "bss"
            /\ ptr < BssWords
            /\ bss' = [bss EXCEPT ![ptr] = "zero"]
            /\ ptr' = ptr + 1
            /\ UNCHANGED <<svars, inPlace, phase, data, sp, stage>>

EndZeroEarly == /\ Working                             \* mutant: last word left out
                /\ phase = "bss"
                /\ ptr + 1 >= BssWords
                /\ phase' = "done"
                /\ UNCHANGED <<svars, inPlace, ptr, data, bss, sp, stage>>

EndZero == /\ Working
           /\ phase = "bss"
           /\ ptr >= BssWords
           /\ phase' = "done"
           /\ UNCHANGED <<svars, inPlace, ptr, data, bss, sp, stage>>

(* A step of smp_pause or smp_resume; smp_resume follows the two loops.    *)
Sync(h) == /\ \/ Pause(h)
              \/ phase = "done" /\ Resume(h)
              \/ Raise(h)
              \/ Wake(h)
              \/ Clear(h)
              \/ Scan(h)
           /\ UNCHANGED bvars

(* Out of smp_resume, each hart takes the stack its id selects and calls   *)
(* main or, on the other harts, slave_main.                                *)
Launch(h) == /\ pc[h] = "multi"
             /\ stage[h] = "boot"
             /\ sp' = [sp EXCEPT ![h] = StackRoom - h * StackStep]
             /\ stage' = [stage EXCEPT ![h] = IF h = NonSmpHart THEN "main" ELSE "slave"]
             /\ UNCHANGED <<svars, inPlace, phase, ptr, data, bss>>

BootNext == \/ LoadWord
            \/ EndLoad
            \/ ZeroWord
            \/ EndZero
            \/ \E h \in Harts : Sync(h) \/ Launch(h)

BootSpec == BootInit /\ [][BootNext]_bootVars

(* Every hart keeps executing; a sleeping one is only sure to wake for an  *)
(* interrupt it has enabled.                                               *)
BootFairness == /\ WF_bootVars(LoadWord \/ EndLoad \/ ZeroWord \/ EndZero)
                /\ \A h \in Harts :
                     /\ WF_bootVars(Sync(h) /\ (pc[h] = "wait" => mie[h] = 1))
                     /\ WF_bootVars(Launch(h))

BootFairSpec == BootSpec /\ BootFairness

----------------------------------------------------------------------------
(* How far the single-threaded work is: the words the loops have passed    *)
(* are initialised, and the boot hart raises interrupts only when both     *)
(* loops are done.                                                         *)
WorkInv == /\ phase = "data" => \A i \in DataIndex : inPlace \/ i < ptr => data[i] = "image"
           /\ phase # "data" => \A i \in DataIndex : data[i] = "image"
           /\ phase = "bss" => \A i \in BssIndex : i < ptr => bss[i] = "zero"
           /\ phase = "done" => \A i \in BssIndex : bss[i] = "zero"
           /\ pc[NonSmpHart] \notin {"pause", "work"} => phase = "done"
           /\ \A h \in Harts : stage[h] # "boot" => pc[h] = "multi"

(* No hart starts main or slave_main before every word of .data holds its  *)
(* initial value and every word of .bss is zero (start.S:66-93).           *)
MemoryReady == (\E h \in Harts : stage[h] # "boot") =>
                 /\ \A i \in DataIndex : data[i] = "image"
                 /\ \A i \in BssIndex : bss[i] = "zero"

(* Memory is not initialised under the feet of a hart that has been let    *)
(* go: once any hart has consumed its interrupt, .data and .bss stay as    *)
(* they are until the programs run (start.S:66-93).                        *)
NoLateInit == [][(\E h \in Harts : pc[h] \in Awake) => UNCHANGED <<data, bss>>]_bootVars

(* start.S:95: "Allocate 4 KiB stack for each hart": the 4 KiB below the   *)
(* stack pointer of each hart lie above .bss, and no other hart has a byte *)
(* of them (start.S:96-100).                                               *)
StackSize == 4096
StackOfItsOwn == \A h \in Harts : stage[h] # "boot" =>
                   /\ sp[h] - StackSize >= 0
                   /\ \A k \in Harts \ {h} : stage[k] # "boot" =>
                        \/ sp[h] <= sp[k] - StackSize
                        \/ sp[k] <= sp[h] - StackSize

(* Start-up finishes on every hart: NONSMP_HART gets to main and each      *)
(* other hart to slave_main.                                               *)
EveryHartStarts == \A h \in Harts : <>(stage[h] # "boot")
=============================================================================
