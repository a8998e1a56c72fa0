-------------------------- MODULE InterruptsProofs --------------------------
(***************************************************************************)
(* Proofs about external interrupts for any number of sources, devices and *)
(* priorities, however the devices lie in the bytes of enable bits: how    *)
(* far the enable bits are what was asked for, and that the trap handler   *)
(* never fails.                                                            *)
(***************************************************************************)
EXTENDS Interrupts, WellFoundedInduction, TLAPS

(* While PLIC_init runs nothing else goes on, and the bytes it has been    *)
(* through are clear.                                                      *)
SetUp == /\ Booting => want = {} /\ handlers = {} /\ trap.at = "none" /\ ~mie
         /\ op.kind = "enables" => op.k < EnableBytes /\ \A s \in enabled : s \div PerByte >= op.k
         /\ op.kind \in {"priorities", "threshold"} => enabled = {}

(* A byte on its way between a read and a write has every other source    *)
(* that is asked for, and of the others only such as a handler may have    *)
(* disabled since; it has a handler for the bit that is to be set, as      *)
(* there is one for all that is enabled.                                   *)
InHand == /\ ~Booting => enabled \subseteq handlers
          /\ op.kind \in {"enable", "disable"} =>
               /\ op.k \in Devices
               /\ (want \cap ByteOf(op.k)) \ {op.k} \subseteq op.current
               /\ op.current \ {op.k} \subseteq handlers \cap ByteOf(op.k) \cap (want \cup Exposed)
          /\ op.kind = "enable" => op.k \in handlers

(* What the trap handler has in hand when it claims, calls and completes.  *)
Handling == /\ trap.at = "claim" => Pending # {}
            /\ trap.at = "call" => trap.source \in want \cup Exposed
            /\ trap.at = "complete" => trap.source \in Devices
            /\ trap.at # "failed"

IInv == PlicTypeOK /\ SetUp /\ EnableAsAsked /\ InHand /\ Handling

-----------------------------------------------------------------------------
(* The bytes PLIC_init clears are those of all sources (plic_driver.c:40). *)
LEMMA BytesCover == /\ EnableBytes \in 1 .. NumSources + 1
                    /\ \A s \in Sources : s \div PerByte < EnableBytes /\ s \div PerByte \in Nat
  BY InterruptsAssumption DEF EnableBytes, Sources

LEMMA DevicesAreSources == Devices \subseteq Sources \ {0} /\ Devices \subseteq 1 .. TableSize - 1
                           /\ Sources \subseteq Nat
  BY InterruptsAssumption DEF Sources

LEMMA Lowest == ASSUME NEW S \in SUBSET Nat, S # {}
                PROVE  \E m \in S : \A n \in S : m <= n
<1>1. \E m \in S : \A n \in S : ~(<<n, m>> \in OpToRel(<, Nat))
  <2> HIDE DEF OpToRel
  <2> QED
    BY WFMin, NatLessThanWellFounded, Zenon
<1>2. ASSUME NEW m \in S, NEW n \in S, ~(<<n, m>> \in OpToRel(<, Nat))
      PROVE  m <= n
  <2>1. m \in Nat /\ n \in Nat
    OBVIOUS
  <2>2. ~(n < m)
    BY <1>2, <2>1 DEF OpToRel
  <2> QED
    BY <2>1, <2>2
<1> QED
  BY <1>1, <1>2

(* Some pending source outranks the others: one of the highest priority,   *)
(* and of those the lowest.                                                *)
LEMMA SomeClaimable == ASSUME PlicTypeOK, Pending # {}
                       PROVE  Claimable # {}
<1> DEFINE Short(s) == MaxPriority - priority[s]
           Shorts == {Short(s) : s \in Pending}
<1>1. Pending \subseteq Sources /\ Pending \subseteq Nat
  BY DevicesAreSources DEF PlicTypeOK, Pending
<1>2. \A s \in Pending : priority[s] \in 0 .. MaxPriority /\ Short(s) \in Nat
  <2>1. priority \in [Sources -> 0 .. MaxPriority] /\ MaxPriority \in Nat
    BY InterruptsAssumption DEF PlicTypeOK
  <2> QED
    BY <2>1, <1>1
<1>3. Shorts \subseteq Nat /\ Shorts # {}
  BY <1>2
<1>4. PICK m \in Shorts : \A n \in Shorts : m <= n
  <2> HIDE DEF Shorts
  <2> QED
    BY <1>3, Lowest
<1> DEFINE Best == {s \in Pending : Short(s) = m}
<1>5. Best \subseteq Nat /\ Best # {}
  BY <1>1
<1>6. PICK b \in Best : \A c \in Best : b <= c
  <2> HIDE DEF Best
  <2> QED
    BY <1>5, Lowest
<1>7. ASSUME NEW t \in Pending
      PROVE  Outranks(b, t)
  <2>1. m <= Short(t) /\ Short(b) = m
    BY <1>4
  <2>2. priority[b] \in Nat /\ priority[t] \in Nat /\ MaxPriority \in Nat
    BY <1>2, InterruptsAssumption
  <2>3. priority[b] >= priority[t]
    BY <2>1, <2>2
  <2>4. priority[b] = priority[t] => b <= t
    BY <2>1, <1>6
  <2> QED
    BY <2>2, <2>3, <2>4 DEF Outranks
<1> QED
  BY <1>7 DEF Claimable

-----------------------------------------------------------------------------
LEMMA IInvInit == PlicInit => IInv
<1> SUFFICES ASSUME PlicInit
             PROVE  IInv
  OBVIOUS
<1>1. 0 \in Sources /\ EnableBytes > 0
  BY BytesCover, InterruptsAssumption DEF Sources
<1>2. PlicTypeOK
  <2>1. MaxPriority \in Nat /\ NumSources \in Nat
    BY InterruptsAssumption
  <2>2. priority \in [Sources -> 0 .. MaxPriority] /\ enabled \subseteq Sources
    BY <2>1 DEF PlicInit
  <2> QED
    BY <1>1, <2>1, <2>2 DEF PlicInit, PlicTypeOK, Boot, NoTrap
<1>3. SetUp
  <2>1. \A s \in enabled : s \div PerByte >= 0
    BY <1>2, BytesCover DEF PlicTypeOK
  <2> QED
    BY <1>1, <2>1 DEF PlicInit, SetUp, Boot, NoTrap
<1>4. EnableAsAsked /\ InHand /\ Handling
  BY DEF PlicInit, EnableAsAsked, Booting, InHand, Handling, Boot, NoTrap
<1> QED
  BY <1>2, <1>3, <1>4 DEF IInv

(* PLIC_init.                                                              *)
LEMMA BootSteps == ASSUME IInv, ZeroEnables \/ ZeroPriorities
                   PROVE  IInv'
<1> USE DEF IInv
<1>1. 0 \in Sources /\ MaxPriority \in Nat /\ NumSources \in Nat
  BY InterruptsAssumption DEF Sources
<1>2. CASE ZeroEnables
  <2>1. op.k \in Nat /\ op.k < EnableBytes /\ EnableBytes \in 1 .. NumSources + 1
    BY <1>2, BytesCover DEF ZeroEnables, SetUp, PlicTypeOK, Sources
  <2>2. \A s \in enabled' : s \in enabled /\ s \div PerByte >= op.k + 1
    <3>1. ASSUME NEW s \in enabled \ ByteOf(op.k * PerByte)
          PROVE  s \div PerByte >= op.k + 1
      <4>1. s \in Sources /\ s \div PerByte >= op.k /\ s \div PerByte \in Nat
        BY <1>2, <3>1, BytesCover DEF ZeroEnables, SetUp, PlicTypeOK
      <4>2. (op.k * PerByte) \div PerByte = op.k
        BY <2>1, InterruptsAssumption
      <4>3. s \div PerByte # op.k
        BY <3>1, <4>1, <4>2 DEF ByteOf
      <4> QED
        BY <2>1, <4>1, <4>3
    <3> QED
      BY <1>2, <3>1 DEF ZeroEnables
  <2>3. op.k + 1 >= EnableBytes => enabled' = {}
    <3>1. \A s \in enabled' : s \div PerByte < EnableBytes /\ s \div PerByte \in Nat
      BY <2>2, BytesCover DEF PlicTypeOK
    <3> QED
      BY <2>1, <2>2, <3>1
  <2>4. op.k + 1 < EnableBytes => op.k + 1 \in Sources
    BY <1>1, <2>1 DEF Sources
  <2>5. op' \in {Boot("enables", op.k + 1), Boot("priorities", 0)}
    BY <1>2 DEF ZeroEnables
  <2>6. PlicTypeOK'
    <3>1. enabled' \subseteq Sources
      BY <2>2 DEF PlicTypeOK
    <3>2. op' \in [kind : {"enables", "priorities"}, k : Sources, current : SUBSET Sources]
      BY <1>2, <1>1, <2>4 DEF ZeroEnables, Boot
    <3> QED
      BY <1>2, <3>1, <3>2 DEF PlicTypeOK, ZeroEnables
  <2>7. SetUp'
    BY <1>2, <2>1, <2>2, <2>3 DEF SetUp, ZeroEnables, Boot, Booting
  <2>8. EnableAsAsked' /\ InHand' /\ Handling'
    BY <1>2, <2>5 DEF SetUp, EnableAsAsked, InHand, Handling, ZeroEnables, Boot, Booting
  <2> QED
    BY <2>6, <2>7, <2>8
<1>3. CASE ZeroPriorities
  <2>1. op.k \in Nat /\ (op.k < NumSources => op.k + 1 \in Sources)
    BY <1>1 DEF PlicTypeOK, Sources
  <2>2. op' \in {Boot("priorities", op.k + 1), Boot("threshold", 0)}
    BY <1>3 DEF ZeroPriorities
  <2>3. PlicTypeOK'
    BY <1>3, <1>1, <2>1 DEF PlicTypeOK, ZeroPriorities, Boot
  <2>4. SetUp'
    BY <1>3, <2>2 DEF SetUp, ZeroPriorities, Boot, Booting
  <2>5. EnableAsAsked' /\ InHand' /\ Handling'
    BY <1>3, <2>2 DEF SetUp, EnableAsAsked, InHand, Handling, ZeroPriorities, Boot, Booting
  <2> QED
    BY <2>3, <2>4, <2>5
<1> QED
  BY <1>2, <1>3

LEMMA SetThresholdStep == ASSUME IInv, NEW t \in 0 .. MaxPriority, SetThreshold(t)
                          PROVE  IInv'
<1> USE DEF IInv
<1>1. 0 \in Sources
  BY InterruptsAssumption DEF Sources
<1>2. PlicTypeOK'
  BY <1>1 DEF PlicTypeOK, SetThreshold, Running
<1>3. EnableAsAsked'
  <2>1. CASE op.kind = "run"
    BY <2>1 DEF SetThreshold, EnableAsAsked, Booting
  <2>2. CASE op.kind = "threshold"
    BY <2>2 DEF SetThreshold, EnableAsAsked, Booting, SetUp
  <2> QED
    BY <2>1, <2>2 DEF SetThreshold
<1>4. SetUp' /\ InHand' /\ Handling'
  BY DEF SetThreshold, SetUp, InHand, Handling, Booting, Running
<1> QED
  BY <1>2, <1>3, <1>4

LEMMA ProgramSteps == ASSUME IInv, NEW s \in Devices,
                             (\E p \in 0 .. MaxPriority : SetPriority(s, p)) \/ Install(s)
                      PROVE  IInv'
<1> USE DEF IInv, Free, plic
<1>1. PlicTypeOK'
  <2>1. ASSUME NEW p \in 0 .. MaxPriority, SetPriority(s, p)
        PROVE  PlicTypeOK'
    BY <2>1, DevicesAreSources DEF PlicTypeOK, SetPriority
  <2>2. Install(s) => PlicTypeOK'
    BY DEF PlicTypeOK, Install
  <2> QED
    BY <2>1, <2>2
<1>2. SetUp'
  BY DEF SetUp, Booting, SetPriority, Install
<1>3. EnableAsAsked' /\ InHand'
  BY DEF EnableAsAsked, Booting, InHand, SetPriority, Install
<1>4. Handling'
  BY DEF Handling, Pending, SetPriority, Install
<1> QED
  BY <1>1, <1>2, <1>3, <1>4

LEMMA SetMieStep == ASSUME IInv, NEW b \in BOOLEAN, SetMie(b)
                    PROVE  IInv'
<1> USE DEF IInv, Free, plic
<1>1. PlicTypeOK' /\ SetUp' /\ EnableAsAsked' /\ InHand'
  BY DEF PlicTypeOK, SetUp, EnableAsAsked, Booting, InHand, SetMie
<1>2. Handling'
  BY DEF Handling, SetMie
<1> QED
  BY <1>1, <1>2

LEMMA ReadByteStep == ASSUME IInv, NEW s \in Devices, NEW kind \in {"enable", "disable"},
                             ReadByte(kind, s)
                      PROVE  IInv'
<1> USE DEF IInv
<1>1. ByteOf(s) \subseteq Sources
  BY DEF ByteOf
<1>2. PlicTypeOK'
  BY <1>1, DevicesAreSources DEF PlicTypeOK, ReadByte, plic
<1>3. SetUp' /\ EnableAsAsked'
  BY DEF SetUp, EnableAsAsked, Booting, ReadByte, Free, plic
<1>4. InHand'
  <2>1. want \subseteq enabled /\ enabled \subseteq handlers /\ enabled \ want \subseteq Exposed
    BY DEF ReadByte, Free, EnableAsAsked, InHand, Booting
  <2>2. op' = [kind |-> kind, k |-> s, current |-> enabled \cap ByteOf(s)]
    BY DEF ReadByte
  <2>3. UNCHANGED <<enabled, want, handlers>> /\ (kind = "enable" => s \in handlers)
    BY DEF ReadByte, plic
  <2> QED
    BY <2>1, <2>2, <2>3 DEF InHand, ByteOf, Exposed
<1>5. Handling'
  BY DEF Handling, ReadByte, Free, Pending, plic
<1> QED
  BY <1>2, <1>3, <1>4, <1>5

LEMMA WriteByteStep == ASSUME IInv, WriteByte
                       PROVE  IInv'
<1> USE DEF IInv
<1>1. op.k \in Devices /\ op.k \in Sources /\ op.k \in ByteOf(op.k)
  BY DevicesAreSources DEF WriteByte, InHand, ByteOf
<1>2. want' \subseteq enabled' /\ enabled' \ want' \subseteq Exposed /\ enabled' \subseteq handlers
  <2>1. want \subseteq enabled /\ enabled \ want \subseteq Exposed /\ enabled \subseteq handlers
    BY DEF WriteByte, EnableAsAsked, InHand, Booting
  <2>2. /\ (want \cap ByteOf(op.k)) \ {op.k} \subseteq op.current
        /\ op.current \ {op.k} \subseteq handlers \cap ByteOf(op.k) \cap (want \cup Exposed)
    BY DEF WriteByte, InHand
  <2>3. enabled' = (enabled \ ByteOf(op.k)) \cup Changed(op.kind, op.k, op.current)
    BY DEF WriteByte
  <2>4. CASE op.kind = "enable"
    <3>1. want' = want \cup {op.k} /\ op.k \in handlers /\ enabled' = (enabled \ ByteOf(op.k)) \cup op.current \cup {op.k}
      BY <2>3, <2>4 DEF WriteByte, Changed, InHand
    <3> QED
      BY <1>1, <2>1, <2>2, <3>1
  <2>5. CASE op.kind = "disable"
    <3>1. want' = want \ {op.k} /\ enabled' = (enabled \ ByteOf(op.k)) \cup (op.current \ {op.k})
      BY <2>3, <2>5 DEF WriteByte, Changed
    <3> QED
      BY <1>1, <2>1, <2>2, <3>1
  <2> QED
    BY <2>4, <2>5 DEF WriteByte
<1>3. want' \subseteq Devices /\ handlers \subseteq Devices
  BY <1>1 DEF WriteByte, PlicTypeOK
<1>4. PlicTypeOK'
  <2>1. want' \subseteq Devices /\ Devices \subseteq Sources /\ 0 \in Sources
    BY <1>3, DevicesAreSources, InterruptsAssumption DEF Sources
  <2>2. enabled' \subseteq Sources
    BY <2>1, <1>2, <1>3
  <2> QED
    BY <2>1, <2>2 DEF PlicTypeOK, WriteByte, Running
<1>5. SetUp' /\ Handling'
  BY DEF SetUp, Handling, Booting, WriteByte, Running
<1>6. EnableAsAsked' /\ InHand'
  BY <1>2 DEF EnableAsAsked, InHand, WriteByte, Running
<1> QED
  BY <1>4, <1>5, <1>6

-----------------------------------------------------------------------------
LEMMA EnterStep == ASSUME IInv, Enter
                   PROVE  IInv'
<1> USE DEF IInv, plic
<1>1. 0 \in Sources
  BY InterruptsAssumption DEF Sources
<1>2. PlicTypeOK'
  BY <1>1 DEF PlicTypeOK, Enter
<1>3. SetUp' /\ EnableAsAsked' /\ InHand'
  BY DEF SetUp, EnableAsAsked, Booting, InHand, Enter
<1>4. Handling'
  BY DEF Handling, Enter, Pending
<1> QED
  BY <1>2, <1>3, <1>4

(* The claim returns a source that is enabled, so one with a handler in    *)
(* the table, and asked for or exposed.                                    *)
LEMMA ClaimStep == ASSUME IInv, Claim
                   PROVE  IInv'
<1> USE DEF IInv
<1>1. Claimable # {} /\ ~Booting
  BY SomeClaimable DEF Claim, Handling, SetUp
<1> DEFINE s == CHOOSE c \in Claimable : TRUE
<1>2. s \in Claimable
  BY <1>1
<1>3. s \in enabled /\ s \in line
  BY <1>2 DEF Claimable, Pending
<1>4. s \in want \cup Exposed /\ s \in handlers /\ s \in Devices /\ s \in Sources /\ s \in 1 .. TableSize - 1
  BY <1>1, <1>3, DevicesAreSources DEF EnableAsAsked, InHand, PlicTypeOK
<1>5. /\ trap' = [at |-> "call", source |-> s]
      /\ claimed' = claimed \cup ({s} \ {0})
  <2> HIDE DEF s
  <2> QED
    BY <1>1, <1>4 DEF Claim, s
<1>6. UNCHANGED <<enabled, priority, threshold, line, handlers, mie, op, want>>
  BY DEF Claim
<1> HIDE DEF s
<1>7. PlicTypeOK'
  <2>1. claimed' \subseteq Devices
    BY <1>4, <1>5 DEF PlicTypeOK
  <2>2. trap' \in [at : {"none", "claim", "call", "complete", "failed"}, source : Sources]
    BY <1>4, <1>5
  <2> QED
    BY <1>6, <2>1, <2>2 DEF PlicTypeOK
<1>8. SetUp' /\ EnableAsAsked' /\ InHand'
  BY <1>1, <1>6 DEF SetUp, EnableAsAsked, Booting, InHand, ByteOf
<1>9. Handling'
  BY <1>4, <1>5, <1>6 DEF Handling
<1> QED
  BY <1>7, <1>8, <1>9

(* A handler that masks its source may do so in the byte the program is    *)
(* changing; the byte in hand then still has the source, which is exposed. *)
LEMMA CallStep == ASSUME IInv, CallHandler
                  PROVE  IInv'
<1> USE DEF IInv
<1>1. trap.source \in Devices /\ want \subseteq Devices
  BY InterruptsAssumption DEF CallHandler, Handling, PlicTypeOK, Exposed
<1>2. ~Booting
  BY DEF CallHandler, SetUp
<1>3. PlicTypeOK'
  <2>1. trap' \in [at : {"none", "claim", "call", "complete", "failed"}, source : Sources]
    BY DEF PlicTypeOK, CallHandler
  <2>2. enabled' \subseteq enabled /\ want' \subseteq want /\ line' \subseteq line
    BY DEF CallHandler
  <2> QED
    BY <2>1, <2>2 DEF PlicTypeOK, CallHandler
<1>4. EnableAsAsked' /\ SetUp'
  <2>1. ~Booting' /\ op' = op
    BY <1>2 DEF CallHandler, Booting
  <2>2. want \subseteq enabled /\ enabled \ want \subseteq Exposed
    BY <1>2 DEF EnableAsAsked
  <2>3. /\ want' = want \ (Masking \cap {trap.source})
        /\ enabled' = enabled \ (Masking \cap {trap.source})
    BY DEF CallHandler
  <2> QED
    BY <1>2, <2>1, <2>2, <2>3 DEF EnableAsAsked, SetUp
<1>5. InHand'
  <2>1. /\ enabled' \subseteq enabled /\ UNCHANGED <<op, handlers>>
        /\ want' = want \ (Masking \cap {trap.source})
    BY DEF CallHandler
  <2>2. ASSUME op.kind \in {"enable", "disable"}
        PROVE  op.current \ {op.k} \subseteq handlers \cap ByteOf(op.k) \cap (want' \cup Exposed)
    <3>1. op.k \in Devices /\ op.current \ {op.k} \subseteq handlers \cap ByteOf(op.k) \cap (want \cup Exposed)
      BY <2>2 DEF InHand
    <3>2. ASSUME trap.source \in Masking, trap.source \in ByteOf(op.k), trap.source # op.k
          PROVE  trap.source \in Exposed
      <4>1. op.k \in ByteOf(trap.source)
        BY <3>1, <3>2, DevicesAreSources DEF ByteOf
      <4> QED
        BY <3>1, <3>2, <4>1 DEF Exposed
    <3> QED
      BY <2>1, <3>1, <3>2
  <2> QED
    BY <2>1, <2>2, <1>2 DEF InHand, ByteOf, Booting
<1>6. Handling'
  BY <1>1 DEF Handling, CallHandler
<1> QED
  BY <1>3, <1>4, <1>5, <1>6

LEMMA CompleteStep == ASSUME IInv, CompleteClaim
                      PROVE  IInv'
<1> USE DEF IInv
<1>1. 0 \in Sources
  BY InterruptsAssumption DEF Sources
<1>2. PlicTypeOK'
  BY <1>1 DEF PlicTypeOK, CompleteClaim, NoTrap
<1>3. SetUp' /\ EnableAsAsked' /\ InHand' /\ Handling'
  BY DEF SetUp, EnableAsAsked, Booting, InHand, Handling, CompleteClaim, NoTrap
<1> QED
  BY <1>2, <1>3

LEMMA RaiseStep == ASSUME IInv, NEW s \in Devices, Raise(s)
                   PROVE  IInv'
<1> USE DEF IInv, plic
<1>1. PlicTypeOK' /\ SetUp' /\ EnableAsAsked' /\ InHand'
  BY DEF PlicTypeOK, SetUp, EnableAsAsked, Booting, InHand, Raise
<1>2. Pending \subseteq Pending'
  BY DEF Raise, Pending
<1>3. Handling'
  BY <1>2 DEF Handling, Raise
<1> QED
  BY <1>1, <1>3

LEMMA IInvStep == IInv /\ [PlicNext]_plicVars => IInv'
<1> SUFFICES ASSUME IInv, [PlicNext]_plicVars
             PROVE  IInv'
  OBVIOUS
<1>1. CASE Program
  <2>1. CASE ZeroEnables \/ ZeroPriorities
    BY <2>1, BootSteps
  <2>2. CASE \E t \in 0 .. MaxPriority : SetThreshold(t)
    BY <2>2, SetThresholdStep
  <2>3. CASE \E s \in Devices : (\E p \in 0 .. MaxPriority : SetPriority(s, p)) \/ Install(s)
    BY <2>3, ProgramSteps
  <2>4. CASE \E s \in Devices : \E kind \in {"enable", "disable"} : ReadByte(kind, s)
    BY <2>4, ReadByteStep
  <2>5. CASE WriteByte
    BY <2>5, WriteByteStep
  <2>6. CASE \E b \in BOOLEAN : SetMie(b)
    BY <2>6, SetMieStep
  <2> QED
    BY <1>1, <2>1, <2>2, <2>3, <2>4, <2>5, <2>6 DEF Program
<1>2. CASE Trap
  BY <1>2, EnterStep, ClaimStep, CallStep, CompleteStep DEF Trap
<1>3. CASE \E s \in Devices : Raise(s)
  BY <1>3, RaiseStep
<1>4. CASE UNCHANGED plicVars
  BY <1>4 DEF IInv, PlicTypeOK, SetUp, EnableAsAsked, Booting, InHand, ByteOf, Handling, Pending, plicVars, plic
<1> QED
  BY <1>1, <1>2, <1>3, <1>4 DEF PlicNext

(* The inductive invariant of the PLIC driver and the trap handler.        *)
THEOREM InterruptsInvariant == PlicSpec => []IInv
  BY IInvInit, IInvStep, PTL DEF PlicSpec

(* The registers and the program's and the trap handler's variables keep   *)
(* their types (plic_driver.c, main.c:43-56).                              *)
THEOREM InterruptsTypeCorrect == PlicSpec => []PlicTypeOK
<1>1. IInv => PlicTypeOK
  BY DEF IInv
<1> QED
  BY <1>1, InterruptsInvariant, PTL

(* Whatever trap comes between the read of a byte of enable bits and its   *)
(* write back, no source that is asked for is lost; and what is enabled    *)
(* though it is not asked for is a source its handler has disabled in a    *)
(* byte it shares (plic_driver.c:70-94).                                   *)
THEOREM EnableBitsAreAsAsked == PlicSpec => []EnableAsAsked
<1>1. IInv => EnableAsAsked
  BY DEF IInv
<1> QED
  BY <1>1, InterruptsInvariant, PTL

(* The trap handler calls only handlers that are there, of sources that    *)
(* are asked for or exposed, and never ends in boot_fail (main.c:43-54).   *)
THEOREM TrapsSucceed == PlicSpec => []NoStray
<1>1. IInv => NoStray
  BY DEF IInv, Handling, NoStray
<1> QED
  BY <1>1, InterruptsInvariant, PTL
=============================================================================
