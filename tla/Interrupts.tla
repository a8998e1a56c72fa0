----------------------------- MODULE Interrupts -----------------------------
(***************************************************************************)
(* External interrupts on the hart that runs main(): the PLIC driver       *)
(* (plic/plic_driver.c), the trap handler (trap_entry in start.S,          *)
(* handle_trap and handle_m_ext_interrupt in main.c) and a program that    *)
(* uses the driver.  A trap comes between any two accesses of the program  *)
(* to the PLIC; the program does not run while a trap is being handled.    *)
(***************************************************************************)
EXTENDS Integers, FiniteSets

CONSTANTS NumSources,  \* plic_ndevs, the last source of the PLIC
          PerByte,     \* sources in a byte of the enable bits, 8
          TableSize,   \* entries of g_ext_interrupt_handlers, 32
          MaxPriority, \* plic_max_priority
          Devices,     \* the sources the program uses
          Masking      \* those whose handler disables its own source

Sources == 0 .. NumSources                          \* 0 is nobody's
ByteOf(s) == {t \in Sources : t \div PerByte = s \div PerByte}

(* Nothing is assumed of how the devices lie in the bytes of enable bits:  *)
(* a handler may disable a source in the byte the program is changing, and *)
(* is then undone by it (plic_driver.c:77, 89 neither forbid nor detect    *)
(* it).  Those are the sources that are exposed to it.                     *)
Exposed == {m \in Masking : ByteOf(m) \cap Devices # {m}}

ASSUME InterruptsAssumption ==
  /\ NumSources \in Nat /\ PerByte \in Nat \ {0} /\ TableSize \in Nat /\ MaxPriority \in Nat
  /\ Devices \subseteq (Sources \ {0}) \cap (0 .. TableSize - 1)
  /\ Masking \subseteq Devices

VARIABLES enabled,   \* the enable bits of the hart
          priority,  \* the priority registers
          threshold, \* the threshold register
          claimed,   \* sources claimed and not completed
          line,      \* sources that ask for service
          handlers,  \* entries of the table that are not null
          mie,       \* mstatus.MIE and mie.MEIE as the program set them
          op,        \* what the program is doing
          trap,      \* what the trap handler is doing
          want       \* what the completed calls asked to be enabled

plic == <<enabled, priority, threshold, claimed>>
plicVars == <<plic, line, handlers, mie, op, trap, want>>

Running   == [kind |-> "run", k |-> 0, current |-> {}]
NoTrap    == [at |-> "none", source |-> 0]
Boot(kind, k) == [kind |-> kind, k |-> k, current |-> {}]
Booting   == op.kind \in {"enables", "priorities", "threshold"}

PlicTypeOK == /\ enabled \subseteq Sources /\ claimed \subseteq Devices
              /\ priority \in [Sources -> 0 .. MaxPriority] /\ threshold \in 0 .. MaxPriority
              /\ line \subseteq Devices /\ handlers \subseteq Devices /\ mie \in BOOLEAN
              /\ op \in [kind : {"enables", "priorities", "threshold", "run", "enable", "disable"},
                         k : Sources, current : SUBSET Sources]
              /\ trap \in [at : {"none", "claim", "call", "complete", "failed"}, source : Sources]
              /\ want \subseteq Devices

(* main() gets here with interrupts off and the PLIC in any state, but for *)
(* claims; the table is in .bss.                                           *)
PlicInit == /\ enabled \in {{}, Sources \ {0}}
            /\ priority \in {[s \in Sources |-> p] : p \in 0 .. MaxPriority}
            /\ threshold \in 0 .. MaxPriority
            /\ claimed = {} /\ line = {} /\ handlers = {} /\ want = {}
            /\ mie = FALSE
            /\ op = Boot("enables", 0)
            /\ trap = NoTrap

----------------------------------------------------------------------------
(* PLIC_init, one register at a time.                                      *)
EnableBytesShort == (NumSources + PerByte - 1) \div PerByte     \* mutant: + 7 for + 8
EnableBytes == (NumSources + PerByte) \div PerByte

ZeroEnables == /\ op.kind = "enables"
               /\ enabled' = enabled \ ByteOf(op.k * PerByte)
               /\ op' = IF op.k + 1 < EnableBytes THEN Boot("enables", op.k + 1)
                        ELSE Boot("priorities", 0)
               /\ UNCHANGED <<priority, threshold, claimed, line, handlers, mie, trap, want>>
ZeroPriorities == /\ op.kind = "priorities"
                  /\ priority' = [priority EXCEPT ![op.k] = 0]
                  /\ op' = IF op.k < NumSources THEN Boot("priorities", op.k + 1)
                           ELSE Boot("threshold", 0)
                  /\ UNCHANGED <<enabled, threshold, claimed, line, handlers, mie, trap, want>>
SetThreshold(t) == /\ op.kind = "run" \/ (op.kind = "threshold" /\ t = 0)
                   /\ trap.at = "none"
                   /\ threshold' = t
                   /\ op' = Running
                   /\ UNCHANGED <<enabled, priority, claimed, line, handlers, mie, trap, want>>

(* The program between two calls of the driver.                            *)
Free == op.kind = "run" /\ trap.at = "none"

SetPriority(s, p) == /\ Free
                     /\ MaxPriority > 0
                     /\ priority' = [priority EXCEPT ![s] = p]
                     /\ UNCHANGED <<enabled, threshold, claimed, line, handlers, mie, op, trap, want>>
SetMie(b) == /\ Free
             /\ mie' = b
             /\ UNCHANGED <<plic, line, handlers, op, trap, want>>
Install(s) == /\ Free
              /\ handlers' = handlers \cup {s}
              /\ UNCHANGED <<plic, line, mie, op, trap, want>>

(* PLIC_enable_interrupt and PLIC_disable_interrupt: read the byte ...     *)
(* The program enables only what it has a handler for.                     *)
ReadByte(kind, s) == /\ Free
                     /\ kind = "enable" => s \in handlers
                     /\ op' = [kind |-> kind, k |-> s, current |-> enabled \cap ByteOf(s)]
                     /\ UNCHANGED <<plic, line, handlers, mie, trap, want>>

(* ... and write it back with one bit changed.                             *)
ChangedBit(kind, s, current) ==                     \* mutant: bit of another source
  IF kind = "enable" THEN current \cup {CHOOSE t \in ByteOf(s) : \A u \in ByteOf(s) : u <= t}
  ELSE current \ {s}
Changed(kind, s, current) ==
  IF kind = "enable" THEN current \cup {s} ELSE current \ {s}

WriteByte ==
  /\ op.kind \in {"enable", "disable"} /\ trap.at = "none"
  /\ enabled' = (enabled \ ByteOf(op.k)) \cup Changed(op.kind, op.k, op.current)
  /\ want' = IF op.kind = "enable" THEN want \cup {op.k} ELSE want \ {op.k}
  /\ op' = Running
  /\ UNCHANGED <<priority, threshold, claimed, line, handlers, mie, trap>>

----------------------------------------------------------------------------
(* The PLIC: who may interrupt the hart, and whom a claim returns.         *)
Pending == {s \in (line \cap enabled) \ claimed : priority[s] > 0}
Outranks(s, t) == priority[s] > priority[t] \/ (priority[s] = priority[t] /\ s <= t)
Claimable == {s \in Pending : \A t \in Pending : Outranks(s, t)}

Raise(s) == /\ s \notin line
            /\ line' = line \cup {s}
            /\ UNCHANGED <<plic, handlers, mie, op, trap, want>>

(* The trap handler: trap_entry to the claim; the call through the table,  *)
(* or boot_fail(), which never returns; the completion and mret.           *)
Enter == /\ mie /\ trap.at = "none" /\ ~Booting
         /\ \E s \in Pending : priority[s] > threshold
         /\ trap' = [at |-> "claim", source |-> 0]
         /\ UNCHANGED <<plic, line, handlers, mie, op, want>>
Claim == /\ trap.at = "claim"
         /\ LET s == IF Claimable = {} THEN 0 ELSE CHOOSE c \in Claimable : TRUE
            IN  /\ trap' = [at |-> IF s \in 1 .. TableSize - 1 /\ s \in handlers THEN "call" ELSE "failed",
                            source |-> s]
                /\ claimed' = claimed \cup ({s} \ {0})
         /\ UNCHANGED <<enabled, priority, threshold, line, handlers, mie, op, want>>
CallHandler == /\ trap.at = "call"
               /\ line' = line \ {trap.source}
               /\ trap' = [trap EXCEPT !.at = "complete"]
               /\ enabled' = enabled \ (Masking \cap {trap.source})
               /\ want' = want \ (Masking \cap {trap.source})
               /\ UNCHANGED <<priority, threshold, claimed, handlers, mie, op>>
CompleteClaim == /\ trap.at = "complete"
                 /\ claimed' = claimed \ {trap.source}
                 /\ trap' = NoTrap
                 /\ UNCHANGED <<enabled, priority, threshold, line, handlers, mie, op, want>>

Trap == Enter \/ Claim \/ CallHandler \/ CompleteClaim

Program == \/ ZeroEnables \/ ZeroPriorities
           \/ \E t \in 0 .. MaxPriority : SetThreshold(t)
           \/ \E s \in Devices : \/ \E p \in 0 .. MaxPriority : SetPriority(s, p)
                                 \/ Install(s)
                                 \/ \E kind \in {"enable", "disable"} : ReadByte(kind, s)
           \/ WriteByte
           \/ \E b \in BOOLEAN : SetMie(b)

PlicNext == Program \/ Trap \/ \E s \in Devices : Raise(s)

(* The hart takes an interrupt it may take, and its handler keeps running. *)
PlicSpec == PlicInit /\ [][PlicNext]_plicVars /\ WF_plicVars(Trap)

----------------------------------------------------------------------------
(* Traps come in the middle of the calls that change a byte of enable      *)
(* bits.  No source that was asked for is ever lost by it, and nothing is  *)
(* left of what was enabled before PLIC_init; what is enabled although it  *)
(* is not asked for any more is a source its own handler has disabled, in  *)
(* a byte it shares with another one: the program has then written back a  *)
(* byte it read before (plic_driver.c:35-39, 70-94).                       *)
EnableAsAsked == ~Booting => want \subseteq enabled /\ enabled \ want \subseteq Exposed

(* The trap handler never fails: a claim never comes back empty or with a  *)
(* source that has no handler, and the handler called is that of a source  *)
(* that is asked for, or one of those a write back has enabled again       *)
(* (main.c:43-54).                                                         *)
NoStray == trap.at # "failed" /\ (trap.at = "call" => trap.source \in want \cup Exposed)

(* A device that asks for service, is enabled, outranks the others and is  *)
(* above the threshold does not wait for ever (main.c:55: each claim is    *)
(* completed, or the PLIC would never deliver the source again).           *)
Waiting(s) == /\ mie /\ ~Booting
              /\ s \in line \cap want /\ priority[s] > threshold
              /\ \A t \in line \cap enabled : Outranks(s, t)
=============================================================================
