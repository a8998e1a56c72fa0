-------------------------------- MODULE Boot --------------------------------
(***************************************************************************)
(* From power on to the application: start-up of all harts (start.S,       *)
(* module SmpBoot), then main on hart 0 (main.c, module BootMain), which   *)
(* start.S:105 calls.  main reads and writes nothing that start-up of      *)
(* another hart uses, so it is run once they all have started.             *)
(***************************************************************************)
EXTENDS SmpBoot, BootMain

VARIABLE entered   \* hart 0 has called main

powerVars == <<bootVars, mvars, entered>>

(* Which tree the ROM left is not fixed before main reads it.              *)
PowerOnInit == /\ BootInit
               /\ dtb = CHOOSE t \in Dtbs : TRUE
               /\ MainInit
               /\ entered = FALSE

StartUp == BootNext /\ UNCHANGED <<mvars, entered>>

EnterMain == /\ ~entered
             /\ \A h \in Harts : stage[h] # "boot"
             /\ entered' = TRUE
             /\ dtb' \in Dtbs
             /\ target' = dtb'
             /\ UNCHANGED <<bootVars, section, node, regs, at>>

RunMain == entered /\ MainNext /\ UNCHANGED <<bootVars, entered>>

PowerOnNext == StartUp \/ EnterMain \/ RunMain

PowerOnSpec == PowerOnInit /\ [][PowerOnNext]_powerVars /\ BootFairness
=============================================================================
