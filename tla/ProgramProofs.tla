--------------------------- MODULE ProgramProofs ----------------------------
(***************************************************************************)
(* Proofs about what is built on the macros: start-up, and what the harts  *)
(* do after it.  First start-up (SmpBoot), for any set of harts, any       *)
(* number of MSIP registers and any sizes of .data and .bss, with          *)
(* NONSMP_HART the lowest hart id (Makefile: -DNONSMP_HART=0).  Then the   *)
(* time functions (Clock) and the TRNG driver (Trng), for a counter of any *)
(* width and period, any delays, any bound on the waits and any numbers of *)
(* a generator that answers whenever it likes.  Then Program: it uses the  *)
(* macros, the time functions and the TRNG only as their own               *)
(* specifications allow, so what is proved about those holds of every      *)
(* program; and it prints exactly what its calls mean.                     *)
(***************************************************************************)
EXTENDS SmpBoot, Program, SmpProofs, SequenceTheorems

(* start.S uses the macros as module Smp has them.                         *)
LEMMA BootStepIsSmpStep == [BootNext]_bootVars => [Next]_svars
  BY DEF BootNext, LoadWord, EndLoad, ZeroWord, EndZero, Sync, Launch, Next, bootVars, bvars

THEOREM BootUsesSmp == BootSpec => Spec
<1>1. BootInit => Init
  BY DEF BootInit
<1> QED
  BY <1>1, BootStepIsSmpStep, PTL DEF BootSpec, Spec

Boots == \A h \in Harts : NonSmpHart <= h

BInv == IInv /\ BootTypeOK /\ WorkInv

LEMMA BootOnce == ASSUME Boots PROVE Once
  BY BootAssumption DEF Boots, Once

LEMMA BootTypedStep == BootTypeOK /\ TypeOK' /\ [BootNext]_bootVars => BootTypeOK'
<1> SUFFICES ASSUME BootTypeOK, TypeOK', [BootNext]_bootVars
             PROVE  BootTypeOK'
  OBVIOUS
<1> USE BootAssumption, SmpAssumption DEF BootTypeOK, DataIndex, BssIndex
<1>1. CASE UNCHANGED bootVars
  BY <1>1 DEF bootVars, bvars
<1>2. CASE LoadWord
  <2>1. data' \in [DataIndex -> {"junk", "image"}]
    <3>1. ptr \in DataIndex
      BY <1>2 DEF LoadWord, LoadingDone
    <3> QED
      BY <1>2, <3>1 DEF LoadWord
  <2>2. phase' = "data" /\ ptr' \in 0 .. DataWords
    BY <1>2 DEF LoadWord, LoadingDone
  <2>3. UNCHANGED <<inPlace, phase, bss, sp, stage>>
    BY <1>2 DEF LoadWord
  <2> QED
    BY <2>1, <2>2, <2>3
<1>3. CASE EndLoad
  BY <1>3 DEF EndLoad, svars
<1>4. CASE ZeroWord
  BY <1>4 DEF ZeroWord, svars
<1>5. CASE EndZero
  BY <1>5 DEF EndZero, svars
<1>6. ASSUME NEW h \in Harts, Sync(h) PROVE BootTypeOK'
  BY <1>6 DEF Sync, bvars
<1>7. ASSUME NEW h \in Harts, Launch(h) PROVE BootTypeOK'
  <2>1. StackRoom - h * StackStep \in Int
    BY DEF StackStep
  <2> QED
    BY <1>7, <2>1 DEF Launch, svars
<1> QED
  BY <1>1, <1>2, <1>3, <1>4, <1>5, <1>6, <1>7 DEF BootNext

LEMMA WorkStep == BootTypeOK /\ WorkInv /\ [BootNext]_bootVars => WorkInv'
<1> SUFFICES ASSUME BootTypeOK, WorkInv, [BootNext]_bootVars
             PROVE  WorkInv'
  OBVIOUS
<1> USE BootAssumption, SmpAssumption DEF BootTypeOK, WorkInv, DataIndex, BssIndex
<1>1. CASE UNCHANGED bootVars
  BY <1>1 DEF bootVars, svars, bvars
<1>2. CASE LoadWord
  BY <1>2 DEF LoadWord, svars, Working, LoadingDone
<1>3. CASE EndLoad
  BY <1>3 DEF EndLoad, svars, Working, LoadingDone
<1>4. CASE ZeroWord
  BY <1>4 DEF ZeroWord, svars, Working
<1>5. CASE EndZero
  BY <1>5 DEF EndZero, svars, Working
<1>6. ASSUME NEW h \in Harts, Sync(h) PROVE WorkInv'
  <2>1. \A k \in Harts : pc[k] = "multi" => pc'[k] = "multi"
    BY <1>6 DEF Sync, TypeOK, Pause, Branch, Resume, Raise, Wake, Clear, Scan
  <2>2. pc[NonSmpHart] \in {"pause", "work"} =>
          pc'[NonSmpHart] \in {"pause", "work"} \/ phase = "done"
    BY <1>6 DEF Sync, TypeOK, Pause, Branch, Resume, Raise, Wake, Clear, Scan
  <2> QED
    BY <1>6, <2>1, <2>2 DEF Sync, bvars
<1>7. ASSUME NEW h \in Harts, Launch(h) PROVE WorkInv'
  BY <1>7 DEF Launch, svars
<1> QED
  BY <1>1, <1>2, <1>3, <1>4, <1>5, <1>6, <1>7 DEF BootNext

LEMMA BootInvariant == ASSUME Boots PROVE BootSpec => []BInv
<1>1. BootInit => BootTypeOK /\ WorkInv
  <2>1. Init => TypeOK
    BY SmpAssumption DEF Init, TypeOK, Asleep, Awake
  <2>2. BootInit => BootTypeOK
    <3> SUFFICES ASSUME BootInit PROVE BootTypeOK
      OBVIOUS
    <3>1. phase = "data" /\ ptr \in 0 .. DataWords
      BY BootAssumption DEF BootInit
    <3>2. data \in [DataIndex -> {"junk", "image"}]
      BY DEF BootInit
    <3>3. bss \in [BssIndex -> {"junk", "zero"}] /\ sp \in [Harts -> Int]
      BY DEF BootInit
    <3>4. stage \in [Harts -> {"boot", "main", "slave"}] /\ inPlace \in BOOLEAN
      BY DEF BootInit
    <3> QED
      BY <2>1, <3>1, <3>2, <3>3, <3>4 DEF BootInit, BootTypeOK
  <2>3. BootInit => WorkInv
    BY SmpAssumption DEF BootInit, Init, WorkInv, DataIndex, BssIndex
  <2> QED
    BY <2>2, <2>3
<1>2. IInv' => TypeOK'
  BY DEF IInv, Typed
<1>3. BootTypeOK /\ WorkInv /\ TypeOK' /\ [BootNext]_bootVars => (BootTypeOK /\ WorkInv)'
  BY BootTypedStep, WorkStep
<1>4. Spec => []IInv
  BY BootOnce, OnceInvariant
<1>5. BInv <=> IInv /\ BootTypeOK /\ WorkInv
  BY DEF BInv
<1> QED
  BY <1>1, <1>2, <1>3, <1>4, <1>5, BootUsesSmp, PTL DEF BootSpec

(* The types of the start-up code hold in every state.                     *)
THEOREM BootTypeCorrect == ASSUME Boots PROVE BootSpec => []BootTypeOK
<1>1. BInv => BootTypeOK
  BY DEF BInv
<1> QED
  BY <1>1, BootInvariant, PTL

(* While the boot hart works nobody is awake, and when a hart is awake     *)
(* both loops are done.                                                    *)
LEMMA AwakeAfterWork ==
  ASSUME BInv, NEW h \in Harts, pc[h] \in Awake
  PROVE  ~Working /\ phase = "done"
<1>1. pc[NonSmpHart] \notin {"pause", "work"}
  BY DEF BInv, IInv, OnceInv, AwakeRaised, Raised, Awake
<1> QED
  BY <1>1 DEF BInv, WorkInv, Working

(* No program starts on any hart before .data and .bss hold their initial  *)
(* values (start.S:66-147).                                                *)
THEOREM MemoryReadyAtStart == ASSUME Boots PROVE BootSpec => []MemoryReady
<1>1. BInv => MemoryReady
  <2> SUFFICES ASSUME BInv, NEW h \in Harts, stage[h] # "boot"
               PROVE  /\ \A i \in DataIndex : data[i] = "image"
                      /\ \A i \in BssIndex : bss[i] = "zero"
    BY DEF MemoryReady
  <2>1. pc[h] \in Awake
    BY DEF BInv, WorkInv, Awake
  <2>2. phase = "done"
    BY <2>1, AwakeAfterWork
  <2> QED
    BY <2>2 DEF BInv, WorkInv
<1> QED
  BY <1>1, BootInvariant, PTL

(* No word is initialised any more once a hart has been let go.            *)
THEOREM NoInitAfterRelease == ASSUME Boots PROVE BootSpec => NoLateInit
<1>1. BInv /\ [BootNext]_bootVars =>
        [(\E h \in Harts : pc[h] \in Awake) => UNCHANGED <<data, bss>>]_bootVars
  <2> SUFFICES ASSUME BInv, BootNext, NEW h \in Harts, pc[h] \in Awake
               PROVE  UNCHANGED <<data, bss>>
    OBVIOUS
  <2>1. ~LoadWord /\ ~ZeroWord
    BY AwakeAfterWork DEF LoadWord, ZeroWord
  <2> QED
    BY <2>1 DEF BootNext, EndLoad, EndZero, Sync, Launch, bvars
<1> QED
  BY <1>1, BootInvariant, PTL DEF BootSpec, NoLateInit

-----------------------------------------------------------------------------
(* Quotients of natural numbers.                                           *)
LEMMA DivMod == ASSUME NEW a \in Nat, NEW b \in Nat \ {0}
                PROVE  /\ a \div b \in Nat /\ a % b \in Nat
                       /\ a = b * (a \div b) + (a % b)
                       /\ a % b < b
<1>1. a \div b \in Nat /\ a % b \in Nat /\ a % b < b
  OBVIOUS
<1>2. a % b = a - b * (a \div b)
  OBVIOUS
<1> DEFINE x == b * (a \div b)
<1>3. x \in Nat
  BY <1>1
<1>4. a = x + (a % b)
  <2>1. a % b = a - x
    BY <1>2
  <2> HIDE DEF x
  <2> QED
    BY <1>3, <2>1
<1> QED
  BY <1>1, <1>4, Zenon

LEMMA Times == ASSUME NEW a \in Nat, NEW b \in Nat, NEW c \in Nat, a <= b
               PROVE  c * a <= c * b /\ c * a \in Nat /\ c * b \in Nat
  OBVIOUS

LEMMA Transitive == ASSUME NEW a \in Nat, NEW b \in Nat, NEW c \in Nat, a <= b, b <= c
                    PROVE  a <= c
  OBVIOUS

LEMMA DivMono == ASSUME NEW a \in Nat, NEW c \in Nat, NEW b \in Nat \ {0}, a <= c
                 PROVE  a \div b <= c \div b
<1> DEFINE x == a \div b
           y == c \div b
<1>1. x \in Nat /\ y \in Nat /\ b * x <= a /\ c < b * y + b
  BY DivMod
<1>2. ASSUME y + 1 <= x PROVE FALSE
  <2>1. b * (y + 1) <= b * x /\ b * (y + 1) = b * y + b
    BY <1>1, <1>2, Times
  <2> QED
    BY <1>1, <2>1
<1> QED
  BY <1>1, <1>2

LEMMA Joined == ASSUME NEW a \in Nat, NEW b \in Nat \ {0}
                PROVE  (a \div b) * b + (a % b) = a
<1>1. (a \div b) * b = b * (a \div b)
  BY DivMod
<1> QED
  BY <1>1, DivMod

-----------------------------------------------------------------------------
(* A call of the time functions is in one of these states; Calls says what *)
(* it has read so far: the first half is none of the future, and behind it *)
(* the value m1 that the counter had at the second load.                   *)
Places == {"none", "high", "low", "high again", "whole"}
Goals  == {"none", "return", "start", "wait"}

ClockTyped ==
  /\ ns \in Nat
  /\ rd \in [at : Places, goal : Goals, began : Nat, delay : Nat, until : Nat,
             half : Nat, low : Nat, value : Nat]
  /\ rd.began <= ns

FirstHalf  == rd.at = "low" => rd.half <= Mtime \div HalfMod
BothHalves == rd.at = "high again" =>
                \E m1 \in Nat : /\ rd.began \div Period <= m1 /\ m1 <= Mtime
                                /\ rd.half <= m1 \div HalfMod /\ rd.low = m1 % HalfMod
WaitsLong  == rd.goal = "wait" =>
                rd.began \div Period + rd.delay \div Period + 1 <= rd.until
ValueRead  == rd.at = "none" /\ rd.goal = "return" =>
                rd.began \div Period <= rd.value /\ rd.value <= Mtime
WaitOver   == rd.at = "none" /\ rd.goal = "wait" => rd.until <= Mtime
Underway   == rd.at # "none" => rd.goal # "none"
NoneStart  == rd.at = "none" => rd.goal # "start"

ClockInv == /\ ClockTyped /\ FirstHalf /\ BothHalves /\ WaitsLong /\ ValueRead /\ WaitOver
            /\ Underway /\ NoneStart

LEMMA MtimeNat == ClockTyped => Mtime \in Nat /\ rd.began \div Period <= Mtime
  BY ClockAssumption, DivMod, DivMono DEF ClockTyped, Mtime

(* The value that a read in halves or in one returns: Got preserves the    *)
(* invariant for any value the counter had since the call began.           *)
LEMMA GotStep ==
  ASSUME ClockInv, NEW v \in Nat, NEW xlen \in {32, 64},
         rd.began \div Period <= v, v <= Mtime, rd.at # "none", Got(v, xlen), UNCHANGED ns
  PROVE  ClockInv'
<1> USE ClockAssumption
<1> USE DEF ClockTyped, Places, Goals
<1>0. Mtime' = Mtime /\ Mtime \in Nat
  BY MtimeNat DEF Mtime, ClockInv
<1>1. rd.goal \in {"return", "start", "wait"} /\ FirstLoad(xlen) \in {"high", "whole"}
  BY DEF ClockInv, Underway, FirstLoad
<1>2. rd.began \div Period \in Nat /\ rd.delay \div Period \in Nat
  BY DivMod DEF ClockInv
<1>3. CASE rd.goal = "return"
  <2>1. rd' = [rd EXCEPT !.at = "none", !.value = v]
    BY <1>3 DEF Got
  <2> QED
    BY <1>0, <1>3, <2>1 DEF ClockInv, FirstHalf, BothHalves, WaitsLong, ValueRead, WaitOver,
                            Underway, NoneStart
<1>4. CASE rd.goal = "start"
  <2>1. rd' = [rd EXCEPT !.at = FirstLoad(xlen), !.goal = "wait",
                         !.until = Then(v, rd.delay), !.half = 0, !.low = 0]
    BY <1>4 DEF Got
  <2>2. Then(v, rd.delay) \in Nat
        /\ rd.began \div Period + rd.delay \div Period + 1 <= Then(v, rd.delay)
    BY <1>2 DEF Then
  <2> QED
    BY <1>0, <1>1, <2>1, <2>2 DEF ClockInv, FirstHalf, BothHalves, WaitsLong, ValueRead, WaitOver,
                                  Underway, NoneStart
<1>5. CASE rd.goal = "wait" /\ v < rd.until
  <2>1. rd' = [rd EXCEPT !.at = FirstLoad(xlen), !.half = 0, !.low = 0]
    BY <1>5 DEF Got
  <2> QED
    BY <1>0, <1>1, <1>5, <2>1 DEF ClockInv, FirstHalf, BothHalves, WaitsLong, ValueRead, WaitOver,
                                  Underway, NoneStart
<1>6. CASE rd.goal = "wait" /\ ~(v < rd.until)
  <2>1. rd' = [rd EXCEPT !.at = "none", !.value = v]
    BY <1>6 DEF Got
  <2>2. /\ rd'.at = "none" /\ rd'.goal = "wait" /\ rd'.began = rd.began
        /\ rd'.delay = rd.delay /\ rd'.until = rd.until
    BY <1>6, <2>1 DEF ClockInv
  <2>3. ClockTyped'
    BY <2>1 DEF ClockInv
  <2>4. rd.until <= Mtime
    <3>1. rd.until \in Nat
      BY DEF ClockInv
    <3> QED
      BY <1>0, <1>6, <3>1
  <2>5. WaitsLong'
    BY <1>6, <2>2, Zenon DEF ClockInv, WaitsLong
  <2>7. WaitOver'
    BY <1>0, <2>2, <2>4, Zenon DEF WaitOver
  <2>6. FirstHalf' /\ BothHalves' /\ ValueRead' /\ Underway' /\ NoneStart'
    BY <2>2 DEF FirstHalf, BothHalves, ValueRead, Underway, NoneStart
  <2> QED
    BY <2>3, <2>5, <2>6, <2>7 DEF ClockInv
<1> QED
  BY <1>1, <1>3, <1>4, <1>5, <1>6

LEMMA ClockStart == ClockInit => ClockInv
<1> SUFFICES ASSUME ClockInit PROVE ClockInv
  OBVIOUS
<1> USE ClockAssumption
<1>1. Period * HalfMod \in Nat /\ ns \in Nat
  BY Times DEF ClockInit
<1> QED
  BY <1>1 DEF ClockInit, NoCall, ClockInv, ClockTyped, Places, Goals, FirstHalf, BothHalves,
              WaitsLong, ValueRead, WaitOver, Underway, NoneStart

LEMMA ClockPreserved == ClockInv /\ [ClockNext]_cvars => ClockInv'
<1> SUFFICES ASSUME ClockInv, [ClockNext]_cvars PROVE ClockInv'
  OBVIOUS
<1> USE ClockAssumption
<1>0. ClockTyped /\ Mtime \in Nat /\ rd.began \div Period <= Mtime
  BY MtimeNat DEF ClockInv
<1>1. CASE UNCHANGED cvars
  BY <1>1 DEF cvars, ClockInv, ClockTyped, FirstHalf, BothHalves, WaitsLong, ValueRead, WaitOver,
              Underway, NoneStart, Mtime
<1>2. CASE Tick
  <2>1. ns' = ns + 1 /\ rd' = rd /\ rd.at # "none"
    BY <1>2 DEF Tick
  <2>2. Mtime <= Mtime' /\ Mtime' \in Nat
    BY <1>0, <2>1, DivMod, DivMono DEF Mtime, ClockTyped
  <2>3. Mtime \div HalfMod <= Mtime' \div HalfMod /\ Mtime \div HalfMod \in Nat
        /\ Mtime' \div HalfMod \in Nat
    BY <1>0, <2>2, DivMod, DivMono
  <2>4. FirstHalf'
    BY <1>0, <2>1, <2>3 DEF ClockInv, FirstHalf, ClockTyped
  <2>5. BothHalves'
    <3> SUFFICES ASSUME rd.at = "high again"
                 PROVE  \E m1 \in Nat : /\ rd.began \div Period <= m1 /\ m1 <= Mtime'
                                        /\ rd.half <= m1 \div HalfMod /\ rd.low = m1 % HalfMod
      BY <2>1 DEF BothHalves
    <3>1. PICK m1 \in Nat : /\ rd.began \div Period <= m1 /\ m1 <= Mtime
                            /\ rd.half <= m1 \div HalfMod /\ rd.low = m1 % HalfMod
      BY DEF ClockInv, BothHalves
    <3>2. m1 <= Mtime'
      <4>1. m1 <= Mtime /\ Mtime \in Nat
        BY <1>0, <3>1, Zenon
      <4> QED
        BY <2>2, <4>1, Transitive, Zenon
    <3> WITNESS m1 \in Nat
    <3> QED
      BY <3>1, <3>2, Zenon
  <2> QED
    BY <1>0, <2>1, <2>4, <2>5 DEF ClockInv, ClockTyped, WaitsLong, ValueRead, WaitOver, Underway,
                                  NoneStart
<1>3. ASSUME NEW xlen \in {32, 64}, ClockCall(xlen) PROVE ClockInv'
  <2>1. FirstLoad(xlen) \in {"high", "whole"} /\ ns' = ns
    BY <1>3 DEF FirstLoad, ClockCall, ReadMtime, DelayNs
  <2>2. \/ rd' = [NoCall EXCEPT !.at = FirstLoad(xlen), !.goal = "return", !.began = ns]
        \/ \E d \in Delays : rd' = [NoCall EXCEPT !.at = FirstLoad(xlen), !.goal = "start",
                                                  !.began = ns, !.delay = d]
    BY <1>3 DEF ClockCall, ReadMtime, DelayNs
  <2>3. /\ rd'.at \in {"high", "whole"} /\ rd'.goal \in {"return", "start"} /\ rd'.began = ns
    <3>1. CASE rd' = [NoCall EXCEPT !.at = FirstLoad(xlen), !.goal = "return", !.began = ns]
      BY <2>1, <3>1 DEF NoCall
    <3>2. ASSUME NEW d \in Delays,
                 rd' = [NoCall EXCEPT !.at = FirstLoad(xlen), !.goal = "start", !.began = ns,
                                      !.delay = d]
          PROVE  /\ rd'.at \in {"high", "whole"} /\ rd'.goal \in {"return", "start"}
                 /\ rd'.began = ns
      BY <2>1, <3>2 DEF NoCall
    <3> QED
      BY <2>2, <3>1, <3>2
  <2>4. ClockTyped'
    <3>1. NoCall \in [at : Places, goal : Goals, began : Nat, delay : Nat, until : Nat,
                      half : Nat, low : Nat, value : Nat]
      BY DEF NoCall, Places, Goals
    <3>2. ns \in Nat /\ FirstLoad(xlen) \in Places /\ {"return", "start"} \subseteq Goals
      BY <1>0, <2>1 DEF ClockTyped, Places, Goals
    <3>3. rd' \in [at : Places, goal : Goals, began : Nat, delay : Nat, until : Nat,
                   half : Nat, low : Nat, value : Nat]
      <4>1. CASE rd' = [NoCall EXCEPT !.at = FirstLoad(xlen), !.goal = "return", !.began = ns]
        BY <3>1, <3>2, <4>1
      <4>2. ASSUME NEW d \in Delays,
                   rd' = [NoCall EXCEPT !.at = FirstLoad(xlen), !.goal = "start", !.began = ns,
                                        !.delay = d]
            PROVE  rd' \in [at : Places, goal : Goals, began : Nat, delay : Nat, until : Nat,
                            half : Nat, low : Nat, value : Nat]
        BY <3>1, <3>2, <4>2
      <4> QED
        BY <2>2, <4>1, <4>2
    <3>4. ns' \in Nat /\ rd'.began <= ns'
      BY <2>1, <2>3, <3>2
    <3> QED
      BY <3>3, <3>4, Zenon DEF ClockTyped
  <2> QED
    BY <2>3, <2>4 DEF ClockInv, FirstHalf, BothHalves, WaitsLong, ValueRead, WaitOver, Underway,
                      NoneStart
<1>4. CASE LoadHigh
  <2>1. rd' = [rd EXCEPT !.at = "low", !.half = Mtime \div HalfMod] /\ ns' = ns
        /\ rd.at = "high"
    BY <1>4 DEF LoadHigh
  <2>2. Mtime' = Mtime /\ Mtime \div HalfMod \in Nat
    BY <1>0, <2>1, DivMod DEF Mtime
  <2>3. ClockTyped'
    BY <1>0, <2>1, <2>2 DEF ClockTyped, Places
  <2>4. /\ rd'.at = "low" /\ rd'.half = Mtime \div HalfMod /\ rd'.goal = rd.goal
        /\ rd'.began = rd.began /\ rd'.delay = rd.delay /\ rd'.until = rd.until
    BY <1>0, <2>1 DEF ClockTyped
  <2> QED
    BY <1>0, <2>1, <2>2, <2>3, <2>4 DEF ClockInv, FirstHalf, BothHalves, WaitsLong, ValueRead,
                                        WaitOver, Underway, NoneStart
<1>5. CASE LoadLow
  <2>1. rd' = [rd EXCEPT !.at = "high again", !.low = Mtime % HalfMod] /\ ns' = ns
        /\ rd.at = "low"
    BY <1>5 DEF LoadLow
  <2>2. Mtime' = Mtime /\ Mtime % HalfMod \in Nat
    BY <1>0, <2>1, DivMod DEF Mtime
  <2>3. BothHalves'
    BY <1>0, <2>1, <2>2 DEF ClockInv, ClockTyped, FirstHalf, BothHalves
  <2> QED
    BY <1>0, <2>1, <2>2, <2>3 DEF ClockInv, ClockTyped, Places, Goals, FirstHalf,
                            WaitsLong, ValueRead, WaitOver, Underway, NoneStart
<1>6. CASE LoadHighAgain
  <2>1. rd.at = "high again" /\ ns' = ns
    BY <1>6 DEF LoadHighAgain
  <2>2. CASE SameHigh(rd.half)
    <3> DEFINE v == (Mtime \div HalfMod) * HalfMod + rd.low
    <3>1. Got(v, 32)
      BY <1>6, <2>2 DEF LoadHighAgain
    <3>2. PICK m1 \in Nat : /\ rd.began \div Period <= m1 /\ m1 <= Mtime
                            /\ rd.half <= m1 \div HalfMod /\ rd.low = m1 % HalfMod
      BY <2>1 DEF ClockInv, BothHalves
    (* The upper half did not change between its two loads, nor before.    *)
    <3>3. m1 \div HalfMod = Mtime \div HalfMod
      <4>1. m1 \div HalfMod <= Mtime \div HalfMod
        BY <1>0, <3>2, DivMono
      <4>2. m1 \div HalfMod \in Nat /\ Mtime \div HalfMod \in Nat
        BY <1>0, DivMod
      <4> QED
        BY <2>2, <3>2, <4>1, <4>2 DEF SameHigh
    <3>4. v = m1
      BY <3>2, <3>3, Joined
    <3> QED
      BY <2>1, <3>1, <3>2, <3>4, GotStep
  <2>3. CASE ~SameHigh(rd.half)
    <3>1. rd' = [rd EXCEPT !.at = "high", !.half = 0, !.low = 0]
      BY <1>6, <2>3 DEF LoadHighAgain
    <3> QED
      BY <1>0, <2>1, <3>1 DEF ClockInv, ClockTyped, Places, Goals, FirstHalf, BothHalves,
                              WaitsLong, ValueRead, WaitOver, Underway, NoneStart
  <2> QED
    BY <2>2, <2>3
<1>7. CASE LoadWhole
  <2>1. rd.at = "whole" /\ ns' = ns /\ Got(Mtime, 64)
    BY <1>7 DEF LoadWhole
  <2> QED
    BY <1>0, <2>1, GotStep
<1> QED
  BY <1>1, <1>2, <1>3, <1>4, <1>5, <1>6, <1>7 DEF ClockNext, ClockStep

(* A counter read in halves is read right, however it carries in between   *)
(* (clkutils.h:24-28).                                                     *)
THEOREM ClockReadsExact == ClockSpec => []ClockExact
<1>1. ClockInv => ClockExact
  BY DEF ClockInv, ValueRead, ClockExact
<1> QED
  BY <1>1, ClockStart, ClockPreserved, PTL DEF ClockSpec

(* A delay lasts longer than its whole periods (clkutils.h:62-70); all of  *)
(* delay_ns it need not last.                                              *)
THEOREM DelaysWholePeriods == ClockSpec => []WholePeriods
<1>1. ClockInv => WholePeriods
  <2> SUFFICES ASSUME ClockInv, rd.at = "none", rd.goal = "wait"
               PROVE  ns - rd.began > (rd.delay \div Period) * Period
    BY DEF WholePeriods, Delayed
  <2> USE ClockAssumption DEF ClockInv, ClockTyped
  <2> DEFINE a == rd.began \div Period
             d == rd.delay \div Period
  <2>1. a \in Nat /\ d \in Nat /\ rd.began < Period * a + Period
    <3>1. rd.began \in Nat /\ rd.delay \in Nat
      OBVIOUS
    <3>2. /\ a \in Nat /\ d \in Nat
          /\ rd.began = Period * a + (rd.began % Period)
          /\ rd.began % Period \in Nat /\ rd.began % Period < Period
      BY <3>1, DivMod
    <3>3. Period * a \in Nat
      <4> HIDE DEF a
      <4> QED
        BY <3>2
    <3> HIDE DEF a
    <3> QED
      BY <3>1, <3>2, <3>3
  <2>2. Mtime \in Nat /\ Period * Mtime <= ns
    BY DivMod DEF Mtime
  <2>3. a + d + 1 <= Mtime
    BY <2>1, <2>2 DEF WaitsLong, WaitOver
  <2>4. Period * (a + d + 1) <= Period * Mtime
    BY <2>1, <2>2, <2>3, Times
  <2>5. Period * (a + d + 1) = Period * a + d * Period + Period
    BY <2>1
  <2>6. Period * a \in Nat /\ d * Period \in Nat /\ Period * Mtime \in Nat
    BY <2>1, <2>2, Times
  <2> QED
    BY <2>1, <2>2, <2>4, <2>5, <2>6
<1> QED
  BY <1>1, ClockStart, ClockPreserved, PTL DEF ClockSpec

-----------------------------------------------------------------------------
(* Where main stands: Begun behind a set-up that went well, Holding while  *)
(* the number asked for is in the random register.                         *)
Holding == {"read", "print"}
Begun   == {"first", "clear next", "next", "await", "printing", "read", "print"}

Stops   == {"reset", "release", "enable", "calibrate", "first", "check", "clear next", "next", "await",
            "read", "print", "printing", "say error", "saying", "disable", "loop"}

TrngTyped ==
  /\ valid \in BOOLEAN
  /\ random \in [made : Nat, value : Values]
  /\ m \in [at : Stops, max : Nat, i : Nat, status : Int, rand : Nat]
  /\ nums \in Seq(Nat)

Old    == \A i \in DOMAIN nums : nums[i] <= random.made
Newer  == 1 < random.made /\ \A i \in DOMAIN nums : nums[i] < random.made
MadeOne == valid \/ m.at \in Begun \/ (m.at = "check" /\ m.status \notin {ERROR_WAIT, ERROR_RANDOM})
             => 1 <= random.made
EdgeAhead == m.at = "next" => "next" \notin ctl
Asked  == /\ m.at = "await" /\ valid => Newer
          /\ m.at \in Holding => valid /\ Newer

TrngInv == TrngTyped /\ NumbersFresh /\ Old /\ MadeOne /\ EdgeAhead /\ Asked

LEMMA TrngStart == TrngInit => TrngInv
<1> SUFFICES ASSUME TrngInit PROVE TrngInv
  OBVIOUS
<1>1. /\ m.at = "reset" /\ valid = FALSE
      /\ m \in [at : Stops, max : Nat, i : Nat, status : Int, rand : Nat]
  BY DEF TrngInit, Stops
<1>2. random \in [made : Nat, value : Values]
  BY TrngAssumption DEF TrngInit, ERROR_RANDOM
<1>3. nums \in Seq(Nat) /\ DOMAIN nums = {}
  BY DEF TrngInit
<1>4. TrngTyped /\ NumbersFresh /\ Old
  BY <1>1, <1>2, <1>3 DEF TrngTyped, NumbersFresh, Old
<1>5. MadeOne /\ EdgeAhead /\ Asked
  BY <1>1 DEF MadeOne, Begun, EdgeAhead, Asked, Holding
<1> QED
  BY <1>4, <1>5 DEF TrngInv

(* A step of the driver that leaves the generator's numbers and those      *)
(* printed alone, and does not wait: what is to show is about m and ctl.   *)
LEMMA QuietStep ==
  ASSUME TrngInv, UNCHANGED <<random, nums>>, valid' \in BOOLEAN, valid' => valid,
         m' \in [at : Stops, max : Nat, i : Nat, status : Int, rand : Nat],
         m'.at \in Begun => 1 <= random.made,
         m'.at = "check" => m'.status \in {ERROR_WAIT, ERROR_RANDOM} \/ 1 <= random.made,
         m'.at = "next" => "next" \notin ctl',
         m'.at = "await" => ~valid' \/ (m.at = "await" /\ valid' = valid),
         m'.at \in Holding => valid' /\ (m.at = "await" \/ m.at \in Holding)
  PROVE  TrngInv'
<1> USE DEF TrngInv
<1>1. TrngTyped' /\ NumbersFresh' /\ Old' /\ EdgeAhead'
  BY DEF TrngTyped, NumbersFresh, Old, EdgeAhead
<1>2. MadeOne'
  BY DEF TrngTyped, MadeOne
<1>3. Newer' <=> Newer
  BY DEF Newer
<1>4. Asked'
  BY <1>3 DEF Asked, Holding
<1> QED
  BY <1>1, <1>2, <1>4

LEMMA PollStep ==
  ASSUME NEW here \in Stops, NEW ready \in Stops, NEW failed, Poll(here, ready, failed),
         m \in [at : Stops, max : Nat, i : Nat, status : Int, rand : Nat],
         failed \in [at : Stops, max : Nat, i : Nat, status : Int, rand : Nat]
  PROVE  m' \in [at : Stops, max : Nat, i : Nat, status : Int, rand : Nat]
<1>1. (IF m.max < MaxWait THEN m.max + 1 ELSE m.max) \in Nat
  BY TrngAssumption
<1>2. \/ m' = [m EXCEPT !.at = ready, !.max = 0]
      \/ m' = [failed EXCEPT !.max = 0]
      \/ \E k \in Nat : m' = [m EXCEPT !.max = k]
  <2>1. m' = IF valid THEN [m EXCEPT !.at = ready, !.max = 0]
             ELSE IF GiveUp(m.max) THEN [failed EXCEPT !.max = 0]
             ELSE [m EXCEPT !.max = IF m.max < MaxWait THEN m.max + 1 ELSE m.max]
    BY DEF Poll
  <2> QED
    BY <1>1, <2>1, Zenon
<1>3. CASE m' = [m EXCEPT !.at = ready, !.max = 0]
  BY <1>3
<1>4. CASE m' = [failed EXCEPT !.max = 0]
  BY <1>4
<1>5. ASSUME NEW k \in Nat, m' = [m EXCEPT !.max = k]
      PROVE  m' \in [at : Stops, max : Nat, i : Nat, status : Int, rand : Nat]
  BY <1>5
<1> QED
  BY <1>2, <1>3, <1>4, <1>5, Zenon

LEMMA TrngPreserved == TrngInv /\ [TrngNext]_tvars => TrngInv'
<1> SUFFICES ASSUME TrngInv, [TrngNext]_tvars PROVE TrngInv'
  OBVIOUS
<1> USE TrngAssumption
<1> USE DEF Begun, Holding, ERROR_WAIT, ERROR_RANDOM
<1> DEFINE Type  == [at : Stops, max : Nat, i : Nat, status : Int, rand : Nat]
           Still == ctl' = ctl /\ valid' = valid /\ random' = random /\ nums' = nums
<1>0. TrngTyped /\ MadeOne /\ EdgeAhead /\ Asked
  BY DEF TrngInv
<1>t. m \in Type /\ valid \in BOOLEAN
  BY <1>0 DEF TrngTyped
<1>1. CASE UNCHANGED tvars
  <2>1. Still /\ m' = m
    BY <1>1 DEF tvars, gvars
  <2> QED
    BY <2>1 DEF TrngInv, TrngTyped, NumbersFresh, Old, Newer, MadeOne, EdgeAhead, Asked
<1>2. CASE Make
  <2>1. /\ random' \in [made : Nat, value : Values] /\ random'.made = random.made + 1
        /\ ~valid /\ valid' = TRUE /\ ctl' = ctl /\ m' = m /\ nums' = nums
    BY <1>0, <1>2 DEF Make, TrngTyped
  <2>2. random.made \in Nat /\ nums \in Seq(Nat) /\ \A i \in DOMAIN nums : nums[i] \in Nat
    BY <1>0 DEF TrngTyped
  <2>3. \A i \in DOMAIN nums : nums[i] < random'.made
    BY <2>1, <2>2 DEF TrngInv, Old
  <2>4. Old'
    BY <2>1, <2>2, <2>3 DEF Old
  <2>5. MadeOne'
    BY <2>1, <2>2 DEF MadeOne
  <2>6. 1 <= random.made => Newer'
    BY <2>1, <2>2, <2>3 DEF Newer
  <2>7. Asked'
    BY <1>0, <2>1, <2>6 DEF Asked, MadeOne
  <2> QED
    BY <1>0, <2>1, <2>4, <2>5, <2>7 DEF TrngInv, TrngTyped, NumbersFresh, EdgeAhead
<1>3. ASSUME NEW here \in Stops, NEW there \in Stops \ Begun, NEW bits, there # "check",
             Goto(here, there), Write(bits), UNCHANGED nums
      PROVE  TrngInv'
  <2>1. m'.at = there /\ m' \in Type
    BY <1>t, <1>3 DEF Goto, Stops
  <2>2. random' = random /\ valid' \in BOOLEAN /\ (valid' => valid)
    BY <1>t, <1>3 DEF Write
  <2> QED
    BY <1>3, <2>1, <2>2, QuietStep
<1>4. CASE Reset \/ Release \/ Enable \/ Disable
  BY <1>3, <1>4 DEF Reset, Release, Enable, Disable, Stops
<1>5. CASE Calibrate
  <2>1. Still
    BY <1>5 DEF Calibrate, Poll, gvars
  <2>2. m.at = "calibrate" /\ m' \in Type
    <3>1. [m EXCEPT !.at = "check", !.status = ERROR_WAIT] \in Type
      <4>1. "check" \in Stops /\ -1 \in Int
        BY DEF Stops
      <4> QED
        BY <1>t, <4>1
    <3>2. m.at = "calibrate" /\ "calibrate" \in Stops /\ "first" \in Stops
      BY <1>5 DEF Calibrate, Poll, Stops
    <3> QED
      BY <1>t, <1>5, <3>1, <3>2, PollStep DEF Calibrate
  <2>3. \/ valid /\ m'.at = "first"
        \/ m'.at = "check" /\ m'.status = ERROR_WAIT
        \/ m'.at = "calibrate"
    BY <1>t, <1>5 DEF Calibrate, Poll
  <2>4. valid => 1 <= random.made
    BY <1>0 DEF MadeOne
  <2> QED
    BY <1>t, <2>1, <2>2, <2>3, <2>4, QuietStep
<1>6. CASE Await
  <2>1. Still
    BY <1>6 DEF Await, Poll, gvars
  <2>2. m.at = "await" /\ m' \in Type
    <3>1. [m EXCEPT !.at = "say error"] \in Type
      BY <1>t DEF Stops
    <3>2. m.at = "await" /\ "await" \in Stops /\ "read" \in Stops
      BY <1>6 DEF Await, Poll, Stops
    <3> QED
      BY <1>t, <1>6, <3>1, <3>2, PollStep DEF Await
  <2>3. (valid /\ m'.at = "read") \/ m'.at = "say error" \/ m'.at = "await"
    BY <1>t, <1>6 DEF Await, Poll
  <2>4. 1 <= random.made
    BY <1>0, <2>2 DEF MadeOne
  <2> QED
    BY <1>t, <2>1, <2>2, <2>3, <2>4, QuietStep
<1>7. CASE First
  <2>1. Still
    BY <1>7 DEF First, gvars
  <2>2. m.at = "first" /\ m'.at = "check" /\ m' \in Type
    <3>1. m.at = "first" /\ \E s \in Int : m' = [m EXCEPT !.at = "check", !.status = s]
      <4>1. PICK left \in {-1, 0, 1} :
               m' = [m EXCEPT !.at = "check", !.status = IF random.value = 0 THEN 0 ELSE left]
        BY <1>7 DEF First
      <4>2. (IF random.value = 0 THEN 0 ELSE left) \in Int
        OBVIOUS
      <4> QED
        BY <1>7, <4>1, <4>2, Zenon DEF First
    <3> QED
      BY <1>t, <3>1 DEF Stops
  <2>3. 1 <= random.made
    BY <1>0, <2>2 DEF MadeOne
  <2> QED
    BY <1>t, <2>1, <2>2, <2>3, QuietStep
<1>8. CASE Check
  <2>1. Still
    BY <1>8 DEF Check, gvars
  <2>2. m.at = "check" /\ m' \in Type
    BY <1>t, <1>8 DEF Check, Goto, Stops
  <2>3. \/ m'.at = "say error"
        \/ m'.at = "disable"
        \/ m'.at = "clear next" /\ m.status \notin {ERROR_WAIT, ERROR_RANDOM}
    BY <1>t, <1>8 DEF Check, Goto
  <2>4. m'.at = "clear next" => 1 <= random.made
    BY <1>0, <2>2, <2>3 DEF MadeOne
  <2> QED
    BY <1>t, <2>1, <2>2, <2>3, <2>4, QuietStep
<1>9. CASE ClearNext
  <2>1. /\ m.at = "clear next" /\ m'.at = "next" /\ m' \in Type /\ nums' = nums
    BY <1>t, <1>9 DEF ClearNext, Goto, Stops
  <2>2. /\ random' = random /\ valid' \in BOOLEAN /\ (valid' => valid)
        /\ "next" \notin ctl'
    BY <1>t, <1>9 DEF ClearNext, Write
  <2>3. 1 <= random.made
    BY <1>0, <2>1 DEF MadeOne
  <2> QED
    BY <2>1, <2>2, <2>3, QuietStep
<1>10. CASE SetNext
  <2>1. /\ m.at = "next" /\ m'.at = "await" /\ m' \in Type /\ nums' = nums
    BY <1>t, <1>10 DEF SetNext, Goto, Stops
  <2>2. random' = random /\ ~valid' /\ valid' \in BOOLEAN
    BY <1>0, <1>t, <1>10, <2>1 DEF SetNext, Write, EdgeAhead
  <2>3. 1 <= random.made
    BY <1>0, <2>1 DEF MadeOne
  <2> QED
    BY <2>1, <2>2, <2>3, QuietStep
<1>11. CASE ReadRandom
  <2>1. Still
    BY <1>11 DEF ReadRandom, gvars
  <2>2. m.at = "read" /\ random.value \in Nat
    BY <1>0, <1>11 DEF ReadRandom, TrngTyped
  <2>3. m' \in Type /\ (m'.at = "say error" \/ m'.at = "print")
    BY <1>t, <1>11, <2>2 DEF ReadRandom, Stops
  <2>4. 1 <= random.made /\ valid
    BY <1>0, <2>2 DEF MadeOne, Asked
  <2> QED
    BY <1>t, <2>1, <2>2, <2>3, <2>4, QuietStep
<1>12. CASE Printed
  <2>1. /\ ctl' = ctl /\ valid' = valid /\ random' = random
        /\ nums' = Append(nums, random.made)
    BY <1>12 DEF Printed, gvars
  <2>2. m.at = "print" /\ m'.at = "printing" /\ m' \in Type
    BY <1>t, <1>12 DEF Printed, Stops
  <2>3. /\ random.made \in Nat /\ 1 < random.made /\ nums \in Seq(Nat)
        /\ \A i \in DOMAIN nums : nums[i] \in Nat /\ nums[i] < random.made
    BY <1>0, <2>2 DEF TrngTyped, Asked, Newer
  <2>4. /\ nums' \in Seq(Nat) /\ Len(nums') = Len(nums) + 1 /\ Len(nums) \in Nat
        /\ DOMAIN nums' = 1 .. Len(nums) + 1 /\ DOMAIN nums = 1 .. Len(nums)
        /\ nums'[Len(nums) + 1] = random.made
        /\ \A i \in DOMAIN nums : nums'[i] = nums[i]
    BY <2>1, <2>3
  <2>5. Old'
    BY <2>1, <2>3, <2>4 DEF Old
  <2>6. NumbersFresh'
    BY <2>1, <2>3, <2>4 DEF TrngInv, NumbersFresh
  <2>7. TrngTyped'
    BY <1>0, <2>1, <2>2, <2>4 DEF TrngTyped
  <2>8. MadeOne' /\ EdgeAhead' /\ Asked'
    BY <2>1, <2>2, <2>3 DEF MadeOne, EdgeAhead, Asked
  <2> QED
    BY <2>5, <2>6, <2>7, <2>8 DEF TrngInv
<1>13. CASE NextNumber
  <2>1. Still
    BY <1>13 DEF NextNumber, gvars
  <2>2. m.at = "printing" /\ m' \in Type /\ m'.at \in {"clear next", "disable"}
    <3>1. /\ m.at = "printing" /\ m.i + 1 \in Nat
          /\ \/ m' = [m EXCEPT !.at = "clear next", !.i = m.i + 1]
             \/ m' = [m EXCEPT !.at = "disable", !.i = m.i + 1]
      <4>1. /\ m.at = "printing"
            /\ m' = [m EXCEPT !.at = IF m.i + 1 < Numbers THEN "clear next" ELSE "disable",
                              !.i = m.i + 1]
        BY <1>13 DEF NextNumber
      <4>2. m.i + 1 \in Nat
        BY <1>t
      <4>3. CASE m.i + 1 < Numbers
        BY <4>1, <4>2, <4>3, Zenon
      <4>4. CASE ~(m.i + 1 < Numbers)
        BY <4>1, <4>2, <4>4, Zenon
      <4> QED
        BY <4>3, <4>4
    <3> QED
      BY <1>t, <3>1 DEF Stops
  <2>3. 1 <= random.made
    BY <1>0, <2>2 DEF MadeOne
  <2> QED
    BY <1>t, <2>1, <2>2, <2>3, QuietStep
<1>14. CASE SayError \/ Said
  <2>1. Still
    BY <1>14 DEF SayError, Said, gvars
  <2>2. m' \in Type /\ m'.at \in {"saying", "disable"}
    BY <1>t, <1>14 DEF SayError, Said, Goto, Stops
  <2> QED
    BY <1>t, <2>1, <2>2, QuietStep
<1> QED
  BY <1>1, <1>2, <1>4, <1>5, <1>6, <1>7, <1>8, <1>9, <1>10, <1>11, <1>12, <1>13, <1>14
  DEF TrngNext, DriverStep

(* Every number that main prints was made for its own request, for any     *)
(* number of requests and a generator as late as it likes (trng.c:60-81).  *)
THEOREM TrngNumbersFresh == TrngSpec => []NumbersFresh
<1>1. TrngInv => NumbersFresh
  BY DEF TrngInv
<1> QED
  BY <1>1, TrngStart, TrngPreserved, PTL DEF TrngSpec

-----------------------------------------------------------------------------
(* Programs.                                                               *)

Chosen == program \in Programs

LEMMA StartsAll == ProgramInit => Chosen /\ Init /\ ClockInit /\ TrngInit
  BY DEF ProgramInit, Chosen

LEMMA StepsAll ==
  Chosen /\ [ProgramNext]_vars
    => [Next]_svars /\ [ClockNext]_cvars /\ [TrngNext]_tvars /\ Chosen'
<1> SUFFICES ASSUME Chosen, [ProgramNext]_vars
             PROVE  [Next]_svars /\ [ClockNext]_cvars /\ [TrngNext]_tvars /\ Chosen'
  OBVIOUS
<1> USE DEF Chosen
<1>1. CASE UNCHANGED vars
  BY <1>1 DEF vars
<1>2. ASSUME NEW h \in Harts, Macros(h) PROVE Next /\ UNCHANGED <<program, cvars, tvars>>
  BY <1>2 DEF Macros, Next
<1>3. ASSUME NEW h \in Harts, Talk(h) \/ Putc(h) PROVE UNCHANGED <<program, svars, cvars, tvars>>
  BY <1>3 DEF Talk, Putc
<1>4. ASSUME NEW h \in Harts, Returned(h)
      PROVE  [TrngNext]_tvars /\ UNCHANGED <<program, svars, cvars>>
  BY <1>4 DEF Returned, TrngNext
<1>5. ASSUME Main PROVE TrngNext /\ UNCHANGED <<program, svars, cvars>>
  BY <1>5 DEF Main, TrngNext
<1>6. ASSUME Time PROVE ClockNext /\ UNCHANGED <<program, svars, tvars>>
  <2>1. program.xlen \in {32, 64}
    BY ProgramAssumption
  <2> QED
    BY <1>6, <2>1 DEF Time, ClockNext
<1>7. ASSUME Sends \/ Counts \/ Makes
      PROVE  [ClockNext]_cvars /\ [TrngNext]_tvars /\ UNCHANGED <<program, svars>>
  BY <1>7 DEF Sends, Counts, Makes, ClockNext, TrngNext
<1> QED
  BY <1>1, <1>2, <1>3, <1>4, <1>5, <1>6, <1>7 DEF ProgramNext, HartStep, GoesOn

(* Every program uses the macros, the clock and the generator as their     *)
(* specifications allow, whatever it prints in between.                    *)
THEOREM ProgramImplements == ProgramSpec => Spec /\ ClockSpec /\ TrngSpec
<1>1. ProgramInit => Chosen /\ Init /\ ClockInit /\ TrngInit
  BY StartsAll
<1>2. Chosen /\ [ProgramNext]_vars => [Next]_svars /\ [ClockNext]_cvars /\ [TrngNext]_tvars /\ Chosen'
  BY StepsAll
<1> QED
  BY <1>1, <1>2, PTL DEF ProgramSpec, Spec, ClockSpec, TrngSpec

(* So no hart gets ahead by two rounds, a value of the counter is right    *)
(* and no number is printed twice in any program.                          *)
THEOREM ProgramSafe ==
  ASSUME Lowest PROVE ProgramSpec => [](RoundsInStep /\ ClockExact /\ NumbersFresh)
  BY ProgramImplements, HartsInStep, ClockReadsExact, TrngNumbersFresh, PTL
-----------------------------------------------------------------------------
(* A call's characters are in the FIFO or still to come.  A hart that      *)
(* found room stores into it: with the amoor nobody waits between the two, *)
(* without it nobody else prints.                                          *)
Wanted(h) == Text(asked[h], program.xlen)
Whole(h) == /\ out[h] \in Seq(Alphabet(Wanted(h))) /\ todo[h] \in Seq(Alphabet(Wanted(h)))
            /\ out[h] \o todo[h] = Wanted(h)
Texts == \A h \in Harts : IF Idle(h) THEN out[h] = <<>> /\ todo[h] = <<>>
                         ELSE asked[h] \in Spoken /\ Whole(h)
Tables == /\ asked \in [Harts -> Spoken \cup {NoText}]
          /\ DOMAIN out = Harts /\ DOMAIN todo = Harts /\ queued \in 0 .. Depth
Alone == /\ program.atomic => polled = {}
         /\ ~program.atomic => \A h \in Harts \ {NonSmpHart} : Idle(h) /\ h \notin polled
Room == polled # {} => queued < Depth
Polled == polled \subseteq Harts

(* The numbers main asks for.                                              *)
Setup == {"reset", "release", "enable", "calibrate", "first", "check"}
Turns == {"clear next", "next", "await", "read", "print", "printing"}
Counted == /\ m.rand \in Values
           /\ m.at \in Setup => m.i = 0
           /\ m.at \in Turns => m.i \in 0 .. Numbers - 1

ConInv == Texts /\ Tables /\ Alone /\ Room /\ Polled

LEMMA Turn == ASSUME NEW n \in Nat
              PROVE  /\ n # 0 => 0 \in 0 .. n - 1
                     /\ \A k \in 0 .. n - 1 : k + 1 < n => k + 1 \in 0 .. n - 1
  OBVIOUS

LEMMA CountedStep == TrngTyped /\ Counted /\ [TrngNext]_tvars => Counted'
<1> SUFFICES ASSUME TrngTyped, Counted, [TrngNext]_tvars
             PROVE  Counted'
  OBVIOUS
<1> USE DEF TrngTyped, Counted, Setup, Turns, Stops
<1>1. CASE UNCHANGED tvars
  BY <1>1 DEF tvars
<1>2. CASE Reset \/ Release \/ Enable \/ ClearNext \/ SetNext \/ Disable \/ SayError \/ Said
  BY <1>2 DEF Reset, Release, Enable, ClearNext, SetNext, Disable, SayError, Said, Goto
<1>3. CASE Check
  <2>1. m.at = "check" /\ m.i = 0 /\ m.rand \in Values /\ Numbers \in Nat
    BY <1>3, TrngAssumption DEF Check, Goto
  <2>2. m'.i = 0 /\ m'.rand \in Values
    BY <1>3, <2>1 DEF Check, Goto
  <2>3. m'.at \in {"say error", "disable"} \/ (m'.at = "clear next" /\ Numbers # 0)
    BY <1>3, <2>1 DEF Check, Goto
  <2>4. Numbers # 0 => 0 \in 0 .. Numbers - 1
    BY <2>1, Turn
  <2>5. m'.at \in Turns => m'.i \in 0 .. Numbers - 1
    BY <2>2, <2>3, <2>4
  <2> QED
    BY <2>2, <2>5
<1>4. CASE Calibrate \/ Await
  BY <1>4 DEF Calibrate, Await, Poll
<1>5. CASE First
  BY <1>5 DEF First
<1>6. CASE ReadRandom
  BY <1>6 DEF ReadRandom
<1>7. CASE Printed \/ NextNumber
  <2>1. m.at \in {"print", "printing"} /\ m.rand \in Values /\ Numbers \in Nat
    BY <1>7, TrngAssumption DEF Printed, NextNumber
  <2>2. m'.rand \in Values
    BY <1>7, <2>1 DEF Printed, NextNumber
  <2>3. m.i \in 0 .. Numbers - 1
    BY <2>1
  <2>4. \/ m'.at = "printing" /\ m'.i = m.i
        \/ m'.at = "disable"
        \/ m'.at = "clear next" /\ m'.i = m.i + 1 /\ m.i + 1 < Numbers
    BY <1>7 DEF Printed, NextNumber
  <2>5. m.i + 1 < Numbers => m.i + 1 \in 0 .. Numbers - 1
    BY <2>1, <2>3, Turn
  <2>6. m'.at \in Turns => m'.i \in 0 .. Numbers - 1
    BY <2>3, <2>4, <2>5
  <2>7. m'.at \notin Setup
    BY <2>4
  <2> QED
    BY <2>2, <2>6, <2>7
<1>8. CASE Make
  BY <1>8 DEF Make
<1> QED
  BY <1>1, <1>2, <1>3, <1>4, <1>5, <1>6, <1>7, <1>8 DEF TrngNext, DriverStep

(* A character goes from the front of what is to come to the end of what   *)
(* went out.                                                               *)
LEMMA MoveOne == ASSUME NEW S, NEW o \in Seq(S), NEW t \in Seq(S), t # <<>>
                 PROVE  /\ Append(o, Head(t)) \in Seq(S) /\ Tail(t) \in Seq(S)
                        /\ Append(o, Head(t)) \o Tail(t) = o \o t
<1>1. Head(t) \in S /\ Tail(t) \in Seq(S) /\ Len(t) \in Nat \ {0} /\ Len(Tail(t)) = Len(t) - 1
  BY HeadTailProperties, EmptySeq
<1>2. Append(o, Head(t)) \in Seq(S) /\ Append(o, Head(t)) = o \o <<Head(t)>> /\ <<Head(t)>> \in Seq(S)
  BY <1>1, AppendProperties, AppendIsConcat
<1>3. (o \o <<Head(t)>>) \o Tail(t) = o \o (<<Head(t)>> \o Tail(t))
  BY <1>1, <1>2, ConcatAssociative
<1>4. <<Head(t)>> \o Tail(t) = t
  <2>1. Len(t) \in 1 .. Len(t) /\ 1 \in 1 .. Len(t)
    BY <1>1
  <2>2. SubSeq(t, 1, Len(t)) = <<t[1]>> \o SubSeq(t, 2, Len(t))
    BY <2>1, SubSeqRecursiveFirst
  <2>3. SubSeq(t, 1, Len(t)) = t /\ Tail(t) = SubSeq(t, 2, Len(t)) /\ Head(t) = t[1]
    BY SubSeqFull, TailIsSubSeq
  <2> QED
    BY <2>2, <2>3
<1> QED
  BY <1>1, <1>2, <1>3, <1>4

LEMMA BeginTexts == ASSUME ConInv, Spells, Chosen, NEW h \in Harts, NEW call \in Spoken,
                           Begin(h, call, program.xlen), program.atomic \/ h = NonSmpHart,
                           program' = program
                    PROVE  ConInv'
<1>1. program.xlen \in {32, 64} /\ program.atomic \in BOOLEAN
  BY ProgramAssumption DEF Chosen
<1> DEFINE text == Text(call, program.xlen)
<1>2. call # NoText /\ text \in Seq(Alphabet(text))
  BY <1>1 DEF Spells
<1>3. /\ Idle(h) /\ asked' = [asked EXCEPT ![h] = call] /\ todo' = [todo EXCEPT ![h] = text]
      /\ out' = out /\ queued' = queued /\ polled' = polled
  BY DEF Begin
<1>4. out[h] = <<>> /\ DOMAIN todo = Harts /\ asked \in [Harts -> Spoken \cup {NoText}]
  BY <1>3 DEF ConInv, Texts, Tables
<1>5. \A g \in Harts \ {h} : asked'[g] = asked[g] /\ todo'[g] = todo[g] /\ out'[g] = out[g]
  <2> HIDE DEF text
  <2> QED
    BY <1>3, <1>4
<1>6. asked'[h] = call /\ todo'[h] = text /\ out'[h] = <<>>
  <2> HIDE DEF text
  <2> QED
    BY <1>3, <1>4
<1>7. Wanted(h)' = text /\ \A g \in Harts \ {h} : Wanted(g)' = Wanted(g) /\ Idle(g)' = Idle(g)
  BY <1>5, <1>6, Zenon DEF Wanted, Idle
<1>8. Texts'
  <2> SUFFICES ASSUME NEW g \in Harts
               PROVE  (IF Idle(g) THEN out[g] = <<>> /\ todo[g] = <<>>
                       ELSE asked[g] \in Spoken /\ Whole(g))'
    BY DEF Texts
  <2>1. CASE g = h
    <3>1. out'[h] \in Seq(Alphabet(text)) /\ out'[h] \o todo'[h] = text
      <4> HIDE DEF text
      <4>1. <<>> \in Seq(Alphabet(text)) /\ <<>> \o text = text
        BY <1>2, ConcatEmptySeq, EmptySeq
      <4> QED
        BY <1>6, <4>1
    <3>2. Whole(h)'
      BY <1>2, <1>6, <1>7, <3>1, Zenon DEF Whole
    <3>3. ~Idle(h)'
      BY <1>2, <1>6 DEF Idle
    <3> QED
      BY <1>6, <2>1, <3>2, <3>3
  <2>2. CASE g # h
    <3>1. Whole(g)' = Whole(g)
      BY <1>5, <1>7, <2>2, Zenon DEF Whole
    <3> QED
      BY <1>5, <1>7, <2>2, <3>1 DEF ConInv, Texts
  <2> QED
    BY <2>1, <2>2
<1>9. Tables'
  BY <1>3, <1>4 DEF ConInv, Tables
<1>10. Alone'
  BY <1>3, <1>7 DEF ConInv, Alone
<1>11. Room' /\ Polled'
  BY <1>3 DEF ConInv, Room, Polled
<1> QED
  BY <1>8, <1>9, <1>10, <1>11 DEF ConInv

LEMMA FinishTexts == ASSUME ConInv, NEW h \in Harts, Finish(h), program' = program
                     PROVE  ConInv'
<1>1. /\ asked' = [asked EXCEPT ![h] = NoText] /\ out' = [out EXCEPT ![h] = <<>>] /\ todo[h] = <<>>
      /\ todo' = todo /\ queued' = queued /\ polled' = polled
  BY DEF Finish
<1>2. DOMAIN out = Harts /\ asked \in [Harts -> Spoken \cup {NoText}]
  BY DEF ConInv, Tables
<1>3. /\ asked'[h] = NoText /\ out'[h] = <<>> /\ todo'[h] = <<>>
      /\ \A g \in Harts \ {h} : asked'[g] = asked[g] /\ out'[g] = out[g] /\ todo'[g] = todo[g]
  BY <1>1, <1>2
<1>4. /\ Idle(h)'
      /\ \A g \in Harts \ {h} : Wanted(g)' = Wanted(g) /\ Idle(g)' = Idle(g) /\ Whole(g)' = Whole(g)
  BY <1>3, Zenon DEF Wanted, Idle, Whole
<1>5. Texts'
  BY <1>3, <1>4 DEF ConInv, Texts
<1>6. Tables'
  BY <1>1, <1>2 DEF ConInv, Tables
<1>7. Alone' /\ Room' /\ Polled'
  BY <1>1, <1>4 DEF ConInv, Alone, Room, Polled
<1> QED
  BY <1>5, <1>6, <1>7 DEF ConInv

(* One character goes into a FIFO that has room.                           *)
LEMMA StoreTexts == ASSUME ConInv, NEW h \in Harts, Enqueue(h), queued < Depth,
                           polled' \in SUBSET Harts, program' = program,
                           polled' # {} => queued' < Depth, program.atomic => polled' = {},
                           ~program.atomic => polled' \subseteq polled
                    PROVE  ConInv'
<1>1. /\ todo[h] # <<>> /\ todo' = [todo EXCEPT ![h] = Tail(todo[h])] /\ asked' = asked
      /\ queued' = queued + 1 /\ out' = [out EXCEPT ![h] = Append(out[h], Head(todo[h]))]
  BY DEF Enqueue
<1>2. DOMAIN out = Harts /\ DOMAIN todo = Harts
  BY DEF ConInv, Tables
<1>3. ~Idle(h) /\ asked[h] \in Spoken /\ Whole(h)
  BY <1>1 DEF ConInv, Texts
<1>4. /\ todo'[h] = Tail(todo[h]) /\ out'[h] = Append(out[h], Head(todo[h]))
      /\ \A g \in Harts \ {h} : out'[g] = out[g] /\ todo'[g] = todo[g]
  BY <1>1, <1>2
<1>5. \A g \in Harts : Wanted(g)' = Wanted(g) /\ Idle(g)' = Idle(g)
  BY <1>1, Zenon DEF Wanted, Idle
<1>6. Whole(h)'
  <2> DEFINE S == Alphabet(Wanted(h))
  <2>1. out[h] \in Seq(S) /\ todo[h] \in Seq(S) /\ todo[h] # <<>> /\ out[h] \o todo[h] = Wanted(h)
    BY <1>1, <1>3 DEF Whole
  <2> HIDE DEF S
  <2>2. /\ Append(out[h], Head(todo[h])) \in Seq(S) /\ Tail(todo[h]) \in Seq(S)
        /\ Append(out[h], Head(todo[h])) \o Tail(todo[h]) = out[h] \o todo[h]
    BY <2>1, MoveOne
  <2>3. /\ out'[h] \in Seq(S) /\ todo'[h] \in Seq(S) /\ out'[h] \o todo'[h] = Wanted(h)
    BY <1>4, <2>1, <2>2
  <2>4. Wanted(h)' = Wanted(h)
    BY <1>5
  <2> QED
    BY <2>3, <2>4, Zenon DEF Whole, S
<1>7. \A g \in Harts \ {h} : Whole(g)' = Whole(g)
  BY <1>4, <1>5, Zenon DEF Whole
<1>8. Texts'
  <2> SUFFICES ASSUME NEW g \in Harts
               PROVE  (IF Idle(g) THEN out[g] = <<>> /\ todo[g] = <<>>
                       ELSE asked[g] \in Spoken /\ Whole(g))'
    BY DEF Texts
  <2>1. CASE g = h
    BY <1>1, <1>3, <1>5, <1>6, <2>1
  <2>2. CASE g # h
    BY <1>1, <1>4, <1>5, <1>7, <2>2 DEF ConInv, Texts
  <2> QED
    BY <2>1, <2>2
<1>9. Tables'
  BY <1>1, <1>2, ConsoleAssumption DEF ConInv, Tables
<1>10. Alone'
  BY <1>5 DEF ConInv, Alone
<1>11. Room' /\ Polled'
  BY DEF Room, Polled
<1> QED
  BY <1>8, <1>9, <1>10, <1>11 DEF ConInv

LEMMA PutTexts == ASSUME ConInv, Chosen, NEW h \in Harts, PutChar(h, program.atomic), program' = program
                  PROVE  ConInv'
<1>1. program.atomic \in BOOLEAN
  BY ProgramAssumption DEF Chosen
<1>2. CASE program.atomic /\ PutAtomic(h)
  <2>1. Enqueue(h) /\ queued < Depth /\ polled' = {} /\ polled = {}
    BY <1>2 DEF PutAtomic, Ready, ConInv, Alone
  <2> QED
    BY <1>2, <2>1, StoreTexts
<1>3. CASE ~program.atomic /\ PollFifo(h)
  <2>1. /\ asked' = asked /\ out' = out /\ todo' = todo /\ queued' = queued /\ polled' = polled \cup {h}
        /\ queued < Depth /\ todo[h] # <<>>
    BY <1>3 DEF PollFifo, Ready
  <2>2. ~Idle(h)
    BY <2>1 DEF ConInv, Texts
  <2>3. \A g \in Harts : Wanted(g)' = Wanted(g) /\ Idle(g)' = Idle(g) /\ Whole(g)' = Whole(g)
    BY <2>1, Zenon DEF Wanted, Idle, Whole
  <2>4. Texts' /\ Tables'
    BY <2>1, <2>3 DEF ConInv, Texts, Tables
  <2>5. Alone' /\ Room' /\ Polled'
    BY <1>3, <2>1, <2>2, <2>3 DEF ConInv, Alone, Room, Polled
  <2> QED
    BY <2>4, <2>5 DEF ConInv
<1>4. CASE ~program.atomic /\ StoreFifo(h)
  <2>1. Enqueue(h) /\ h \in polled /\ polled' = polled \ {h}
    BY <1>4 DEF StoreFifo
  <2>2. polled \subseteq {NonSmpHart} /\ queued < Depth /\ polled \subseteq Harts
    BY <1>4, <2>1 DEF ConInv, Alone, Room, Polled
  <2>3. polled' = {}
    BY <2>1, <2>2
  <2> QED
    BY <1>4, <2>1, <2>2, <2>3, StoreTexts
<1> QED
  BY <1>2, <1>3, <1>4 DEF PutChar

LEMMA TextsStart == ProgramInit => ConInv /\ Counted
<1> SUFFICES ASSUME ProgramInit
             PROVE  ConInv /\ Counted
  OBVIOUS
<1>1. ConsoleInit(Harts) /\ TrngInit
  BY DEF ProgramInit
<1>2. /\ asked = [h \in Harts |-> NoText] /\ todo = [h \in Harts |-> <<>>] /\ out = [h \in Harts |-> <<>>]
      /\ queued = 0 /\ polled = {}
  BY <1>1 DEF ConsoleInit
<1>3. Texts /\ Alone /\ Room /\ Polled
  BY <1>2 DEF Texts, Alone, Room, Polled, Idle
<1>4. Tables
  BY <1>2, ConsoleAssumption DEF Tables
<1>5. Counted
  BY <1>1, TrngAssumption DEF TrngInit, Counted, Setup, Turns, ERROR_RANDOM
<1> QED
  BY <1>3, <1>4, <1>5 DEF ConInv

LEMMA TextsStay == ASSUME ConInv, UNCHANGED conVars, program' = program
                   PROVE  ConInv'
<1>1. asked' = asked /\ todo' = todo /\ out' = out /\ queued' = queued /\ polled' = polled
  BY DEF conVars
<1>2. \A h \in Harts : Wanted(h)' = Wanted(h) /\ Idle(h)' = Idle(h) /\ Whole(h)' = Whole(h)
  BY <1>1, Zenon DEF Wanted, Idle, Whole
<1> QED
  BY <1>1, <1>2 DEF ConInv, Texts, Tables, Alone, Room, Polled

LEMMA SendTexts == ASSUME ConInv, Drain, program' = program
                   PROVE  ConInv'
<1>1. /\ asked' = asked /\ todo' = todo /\ out' = out /\ polled' = polled
      /\ queued > 0 /\ queued' = queued - 1 /\ queued \in 0 .. Depth
  BY DEF Drain, ConInv, Tables
<1>2. \A h \in Harts : Wanted(h)' = Wanted(h) /\ Idle(h)' = Idle(h) /\ Whole(h)' = Whole(h)
  BY <1>1, Zenon DEF Wanted, Idle, Whole
<1>3. queued' \in 0 .. Depth /\ queued' < Depth
  BY <1>1, ConsoleAssumption
<1> QED
  BY <1>1, <1>2, <1>3 DEF ConInv, Texts, Tables, Alone, Room, Polled

(* The whole program: what is printed is a call of Spoken, by a hart that  *)
(* may print.                                                              *)
LEMMA TextsStep == ASSUME Spells, Chosen, Counted, ConInv, NonSmpHart \in Harts, [ProgramNext]_vars
                   PROVE  ConInv'
<1>1. CASE UNCHANGED vars
  BY <1>1, TextsStay DEF vars
<1>2. ASSUME NEW h \in Harts, Macros(h) PROVE ConInv'
  BY <1>2, TextsStay DEF Macros
<1>3. ASSUME NEW h \in Harts, Talk(h) PROVE ConInv'
  <2>1. PICK call \in Calls[program.job] : Begin(h, call, program.xlen)
    BY <1>3 DEF Talk
  <2>2. program.job \in {"smp", "print"} /\ (program.atomic \/ h = NonSmpHart) /\ program' = program
    BY <1>3 DEF Talk, At
  <2>3. call \in Spoken
    BY <2>1, <2>2 DEF Spoken
  <2> QED
    BY <2>1, <2>2, <2>3, BeginTexts
<1>4. ASSUME NEW h \in Harts, Putc(h) PROVE ConInv'
  BY <1>4, PutTexts DEF Putc
<1>5. ASSUME NEW h \in Harts, Returned(h) PROVE ConInv'
  BY <1>5, FinishTexts DEF Returned
<1>6. ASSUME Main PROVE ConInv'
  <2>1. program' = program
    BY <1>6 DEF Main
  <2>2. CASE UNCHANGED conVars
    BY <2>1, <2>2, TextsStay
  <2>3. CASE Printed /\ Begin(NonSmpHart, NumberCall, program.xlen)
    <3>1. m.i \in 0 .. Numbers - 1 /\ m.rand \in Values
      BY <2>3 DEF Printed, Counted, Turns
    <3>2. NumberCall = NumberOf(m.i, m.rand)
      BY DEF NumberCall, NumberOf
    <3>3. NumberCall \in Spoken
      BY <3>1, <3>2 DEF Spoken
    <3> QED
      BY <2>1, <2>3, <3>3, BeginTexts
  <2>4. CASE SayError /\ Begin(NonSmpHart, ErrorCall, program.xlen)
    <3>1. ErrorCall \in Spoken
      BY DEF Spoken
    <3> QED
      BY <2>1, <2>4, <3>1, BeginTexts
  <2> QED
    BY <1>6, <2>2, <2>3, <2>4 DEF Main
<1>7. ASSUME Time \/ Counts \/ Makes PROVE ConInv'
  BY <1>7, TextsStay DEF Time, Counts, Makes
<1>8. ASSUME Sends PROVE ConInv'
  BY <1>8, SendTexts DEF Sends
<1> QED
  BY <1>1, <1>2, <1>3, <1>4, <1>5, <1>6, <1>7, <1>8 DEF ProgramNext, HartStep, GoesOn

(* Nothing of what a hart prints is lost or out of order, whoever prints   *)
(* meanwhile: in every program, for every call whose characters are the    *)
(* right ones when nobody disturbs it (uart.c:13-28).                      *)
THEOREM PrintsExactly == ASSUME Spells, NonSmpHart \in Harts
                         PROVE  ProgramSpec => []TextsExact
<1>1. Chosen /\ ConInv => TextsExact
  <2> SUFFICES ASSUME Chosen, ConInv, NEW h \in Harts, ~Idle(h), Printable(asked[h], program.xlen)
               PROVE  out[h] \o todo[h] = Meant(asked[h], program.xlen)
    BY DEF TextsExact, TextExact, ConInv, Tables
  <2>1. asked[h] \in Spoken /\ out[h] \o todo[h] = Text(asked[h], program.xlen)
    BY DEF ConInv, Texts, Whole, Wanted
  <2>2. program.xlen \in {32, 64}
    BY ProgramAssumption DEF Chosen
  <2> QED
    BY <2>1, <2>2 DEF Spells
<1>2. Chosen /\ TrngInv /\ Counted /\ ConInv /\ [ProgramNext]_vars => ConInv'
  BY TextsStep
<1>3. Chosen /\ TrngInv /\ Counted /\ [ProgramNext]_vars => Chosen' /\ TrngInv' /\ Counted'
  <2>1. TrngInv => TrngTyped
    BY DEF TrngInv
  <2> QED
    BY <2>1, StepsAll, TrngPreserved, CountedStep
<1>4. ProgramInit => Chosen /\ TrngInv /\ Counted /\ ConInv
  BY StartsAll, TrngStart, TextsStart
<1> QED
  BY <1>1, <1>2, <1>3, <1>4, PTL DEF ProgramSpec
=============================================================================
