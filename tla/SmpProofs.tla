----------------------------- MODULE SmpProofs ------------------------------
(***************************************************************************)
(* Proofs about smp_pause / smp_resume for any set of harts and any number *)
(* of MSIP registers, with NONSMP_HART the lowest hart id, as the Makefile *)
(* has it: the rendezvous for any number of uses of the macros, and what   *)
(* holds of the first use only (Once): that no interrupt is left over and  *)
(* nobody wakes early.  A second use raises bits again (README).           *)
(***************************************************************************)
EXTENDS Smp, TLAPS

Typed == TypeOK /\ LoopsInRange

(* The state of the two macros keeps its type, however often they run.     *)
LEMMA TypedStep == Typed /\ [Next]_svars => Typed'
<1> SUFFICES ASSUME Typed, [Next]_svars
             PROVE  Typed'
  OBVIOUS
<1> USE SmpAssumption DEF Typed, TypeOK, LoopsInRange, Asleep, Awake, InLoop, Branch
<1>1. CASE UNCHANGED svars
  BY <1>1 DEF svars
<1>2. ASSUME NEW h \in Harts, Pause(h) PROVE Typed'
  BY <1>2 DEF Pause
<1>3. ASSUME NEW h \in Harts, Resume(h) PROVE Typed'
  BY <1>3 DEF Resume
<1>4. ASSUME NEW h \in Harts, Raise(h) PROVE Typed'
  BY <1>4 DEF Raise
<1>5. ASSUME NEW h \in Harts, Wake(h) PROVE Typed'
  BY <1>5 DEF Wake
<1>6. ASSUME NEW h \in Harts, Clear(h) PROVE Typed'
  BY <1>6 DEF Clear
<1>7. ASSUME NEW h \in Harts, Scan(h) PROVE Typed'
  BY <1>7 DEF Scan
<1>8. ASSUME NEW h \in Harts, Again(h) PROVE Typed'
  BY <1>8 DEF Again
<1> QED
  BY <1>1, <1>2, <1>3, <1>4, <1>5, <1>6, <1>7, <1>8 DEF Next

LEMMA TypedInvariant == Spec => []Typed
<1>1. Init => Typed
  BY SmpAssumption DEF Init, Typed, TypeOK, LoopsInRange, Asleep, Awake
<1> QED
  BY <1>1, TypedStep, PTL DEF Spec

(* TypeOK holds in every state, for any number of rounds.                  *)
THEOREM TypeCorrect == Spec => []TypeOK
<1>1. Typed => TypeOK
  BY DEF Typed
<1> QED
  BY <1>1, TypedInvariant, PTL

-----------------------------------------------------------------------------
(* The invariant of one use of the macros.                                 *)
Once == Rounds = 1 /\ \A h \in Harts : NonSmpHart <= h

IInv == Typed /\ OnceInv

LEMMA OnceInit == Init => OnceInv
  BY SmpAssumption DEF Init, OnceInv, LoopsInRange, OneWorker, MsipExact,
                       AwakeRaised, ScanSeen, Raised, Asleep, Awake

(* Each action preserves the five parts of OnceInv.                        *)
LEMMA OnceStep == Once /\ IInv /\ [Next]_svars => OnceInv'
<1> SUFFICES ASSUME Once, IInv, [Next]_svars
             PROVE  OnceInv'
  OBVIOUS
<1> USE SmpAssumption DEF Once, IInv
<1>0. LoopsInRange'
  BY TypedStep DEF Typed
<1>1. CASE UNCHANGED svars
  BY <1>1, <1>0 DEF OnceInv, OneWorker, MsipExact, AwakeRaised, ScanSeen, Raised, svars
<1> USE DEF Typed, TypeOK, OnceInv, OneWorker, MsipExact, AwakeRaised, ScanSeen, Raised, Asleep, Awake, InLoop, Branch
<1>2. ASSUME NEW h \in Harts, Pause(h) PROVE OnceInv'
  BY <1>0, <1>2 DEF Pause
<1>3. ASSUME NEW h \in Harts, Resume(h) PROVE OnceInv'
  BY <1>0, <1>3 DEF Resume
<1>4. ASSUME NEW h \in Harts, Raise(h) PROVE OnceInv'
  <2>1. h = NonSmpHart
    BY <1>4 DEF Raise
  <2>2. \A k \in Harts : k # h => pc'[k] = pc[k] /\ idx'[k] = idx[k]
    BY <1>4 DEF Raise
  <2>3. \A k \in Harts : Raised(k)' <=> Raised(k) \/ k = idx[h]
    BY <1>4, <2>1 DEF Raise, LoopsInRange
  <2>4. pc'[h] \in {"raise", "wait"}
    BY <1>4 DEF Raise
  <2>5. OneWorker'
    BY <2>1, <2>2
  <2>6. MsipExact'
    BY <1>4, <2>1, <2>2, <2>3, <2>4 DEF Raise
  <2>7. AwakeRaised'
    BY <1>4, <2>2, <2>3, <2>4
  <2>8. ScanSeen'
    BY <1>4, <2>2, <2>4 DEF Raise
  <2> QED
    BY <1>0, <2>5, <2>6, <2>7, <2>8
<1>5. ASSUME NEW h \in Harts, Wake(h) PROVE OnceInv'
  BY <1>0, <1>5 DEF Wake
<1>6. ASSUME NEW h \in Harts, Clear(h) PROVE OnceInv'
  BY <1>0, <1>6 DEF Clear
<1>7. ASSUME NEW h \in Harts, Scan(h) PROVE OnceInv'
  <2>1. \A k \in Harts : k = idx[h] => pc[k] \in Awake
    <3> SUFFICES ASSUME idx[h] \in Harts PROVE pc[idx[h]] \in Awake
      OBVIOUS
    <3>1. msip[idx[h]] = 0
      BY <1>7 DEF Scan, Cleared, Msip
    <3>2. Raised(h)
      BY <1>7 DEF Scan
    (* The boot hart is the first to be raised and the first to be scanned. *)
    <3>3. Raised(idx[h])
      <4>1. CASE idx[h] = NonSmpHart
        BY <3>2, <4>1
      <4>2. CASE idx[h] # NonSmpHart
        <5>1. NonSmpHart < idx[h]
          BY <4>2
        <5>2. pc[NonSmpHart] \in Awake
          BY <1>7, <5>1 DEF Scan
        <5> QED
          BY <5>2
      <4> QED
        BY <4>1, <4>2
    <3> QED
      BY <3>1, <3>3
  <2>2. h \in Harts /\ pc[h] = "scan" /\ pc'[h] \in Awake /\ idx'[h] = idx[h] + 1
    BY <1>7 DEF Scan
  <2>3. \A k \in Harts \ {h} : pc'[k] = pc[k] /\ idx'[k] = idx[k]
    BY <1>7 DEF Scan
  <2>4. \A k \in Harts : pc'[k] \in Awake <=> pc[k] \in Awake
    BY <2>2, <2>3
  <2>5. ScanSeen'
    <3> SUFFICES ASSUME NEW g \in Harts, NEW k \in Harts,
                        pc'[g] = "multi" \/ (pc'[g] = "scan" /\ k < idx'[g])
                 PROVE  pc[k] \in Awake
      BY <2>4
    <3>1. CASE g # h
      BY <2>3, <3>1
    <3>2. CASE g = h
      <4>1. k < idx[h] + 1
        BY <1>7, <3>2 DEF Scan
      <4> QED
        BY <2>1, <2>2, <4>1
    <3> QED
      BY <3>1, <3>2
  <2>6. \A k \in Harts : Raised(k)' <=> Raised(k)
    BY <2>2, <2>3, <2>4
  <2>7. OneWorker' /\ MsipExact' /\ AwakeRaised'
    <3>1. msip' = msip
      BY <1>7 DEF Scan
    <3> QED
      BY <2>2, <2>3, <2>4, <2>6, <3>1
  <2> QED
    BY <1>0, <2>5, <2>7
<1>8. ASSUME NEW h \in Harts, Again(h) PROVE OnceInv'
  BY <1>8 DEF Again
<1> QED
  BY <1>1, <1>2, <1>3, <1>4, <1>5, <1>6, <1>7, <1>8 DEF Next

LEMMA OnceInvariant == ASSUME Once PROVE Spec => []IInv
<1>1. Init => IInv
  <2>1. Init => Typed
    BY SmpAssumption DEF Init, Typed, TypeOK, LoopsInRange, Asleep, Awake
  <2> QED
    BY <2>1, OnceInit DEF IInv
<1>2. IInv /\ [Next]_svars => IInv'
  BY TypedStep, OnceStep DEF IInv
<1> QED
  BY <1>1, <1>2, PTL DEF Spec

(* OnceInv, the inductive invariant itself, holds in every state.          *)
THEOREM ResumeInvariant == ASSUME Once PROVE Spec => []OnceInv
<1>1. IInv => OnceInv
  BY DEF IInv
<1> QED
  BY <1>1, OnceInvariant, PTL

(* No software interrupt is pending any more once a hart is out of         *)
(* smp_resume (smp.h:43-66).                                               *)
THEOREM NoStaleInterrupt == ASSUME Once PROVE Spec => []NoStaleIPI
<1>1. IInv => NoStaleIPI
  <2> SUFFICES ASSUME IInv, NEW h \in Harts, pc[h] = "multi", NEW k \in Harts
               PROVE  msip[k] = 0
    BY DEF NoStaleIPI
  <2>1. pc[k] \in Awake
    BY DEF IInv, OnceInv, ScanSeen
  <2>2. pc[k] \notin Asleep
    BY <2>1 DEF Asleep, Awake
  <2> QED
    BY <2>2 DEF IInv, OnceInv, MsipExact
<1> QED
  BY <1>1, OnceInvariant, PTL

(* Nobody is woken while the boot hart still works between smp_pause and   *)
(* smp_resume (smp.h:36-43).                                               *)
THEOREM NobodyWokenEarly == ASSUME Once PROVE Spec => []WorkUndisturbed
<1>1. IInv => WorkUndisturbed
  <2> SUFFICES ASSUME IInv, pc[NonSmpHart] \in {"pause", "work"}, NEW h \in Harts
               PROVE  pc[h] \in Asleep /\ msip[h] = 0
    BY DEF WorkUndisturbed
  <2>1. ~Raised(h)
    BY DEF Raised, Awake
  <2>2. pc[h] \in Asleep
    BY <2>1 DEF IInv, OnceInv, AwakeRaised, Typed, TypeOK
  <2> QED
    BY <2>1, <2>2 DEF IInv, OnceInv, MsipExact
<1> QED
  BY <1>1, OnceInvariant, PTL

-----------------------------------------------------------------------------
(* Any number of uses, with NONSMP_HART the lowest hart id.                *)
Lowest == \A h \in Harts : NonSmpHart <= h

UsedInv == Typed /\ RoundsInv

LEMMA RoundsInit == Init => RoundsInv
  BY SmpAssumption DEF Init, RoundsInv, LoopsInRange, OneWorker, RaisesExact, ClearPending,
                       SeenLast, SeenNow, Raises, Raised, came, Asleep, Awake

(* Counting consumed interrupts: only Clear adds one.                      *)
LEMMA CameTyped == Typed => came \in [Harts -> Nat]
  BY DEF Typed, TypeOK, came

LEMMA CameStays ==
  ASSUME Typed, NEW h \in Harts, Pause(h) \/ Resume(h) \/ Raise(h) \/ Wake(h) \/ Scan(h) \/ Again(h)
  PROVE  came' = came
<1> USE DEF Typed, TypeOK, Asleep, Awake
<1>1. \A k \in Harts : k # h => pc'[k] = pc[k] /\ round'[k] = round[k]
  BY DEF Pause, Branch, Resume, Raise, Wake, Scan, Again
<1>2. came'[h] = came[h]
  BY DEF came, Pause, Branch, Resume, Raise, Wake, Scan, Again
<1> QED
  BY <1>1, <1>2 DEF came

LEMMA CameOne ==
  ASSUME Typed, NEW h \in Harts, Clear(h)
  PROVE  /\ came' = [came EXCEPT ![h] = @ + 1]
         /\ came[h] = round[h] - 1
<1> USE DEF Typed, TypeOK, Asleep, Awake
<1>1. \A k \in Harts : k # h => pc'[k] = pc[k] /\ round'[k] = round[k]
  BY DEF Clear
<1>2. came[h] = round[h] - 1 /\ came'[h] = round[h]
  BY DEF Clear, came
<1>3. \A k \in Harts : k # h => came'[k] = came[k]
  BY <1>1 DEF came
<1>4. came \in [Harts -> Int] /\ came' = [k \in Harts |-> came'[k]]
  BY DEF came
<1> QED
  BY <1>2, <1>3, <1>4

(* A hart that reads zero from register idx[h] in its scan has seen the    *)
(* hart of that register consume the interrupt of this round: the boot     *)
(* hart is raised first and scanned first.                                 *)
LEMMA ScanSees ==
  ASSUME Lowest, UsedInv, NEW h \in Harts, Scan(h), idx[h] \in Harts
  PROVE  came[idx[h]] >= round[h]
<1> USE SmpAssumption DEF Lowest, UsedInv, RoundsInv, Typed, TypeOK, Awake, Asleep
<1> DEFINE k == idx[h]
<1>1. msip[k] = 0 /\ pc[h] = "scan"
  BY DEF Scan, Cleared, Msip
<1>2. came[h] = round[h] /\ came[k] \in Nat /\ round[NonSmpHart] \in Nat /\ round[h] \in Nat
  BY <1>1, CameTyped DEF came
<1>3. came[k] = Raises(k)
  BY <1>1, <1>2 DEF RaisesExact
<1>4. Raises(h) >= round[h]
  BY <1>2 DEF RaisesExact
<1>5. CASE k = NonSmpHart
  <2>1. Raised(h) => Raised(k)
    BY <1>5 DEF Raised
  <2> QED
    BY <1>2, <1>3, <1>4, <2>1 DEF Raises
<1>6. CASE k # NonSmpHart
  <2>1. NonSmpHart < k
    BY <1>6
  <2>2. came[NonSmpHart] >= round[h]
    BY <1>1, <2>1 DEF SeenNow
  <2>3. round[NonSmpHart] > round[h] \/ Raised(k)
    BY <1>2, <2>2 DEF came, Raised
  <2>4. round[NonSmpHart] >= round[h]
    BY <1>2, <2>2 DEF came
  <2> QED
    BY <1>2, <1>3, <2>3, <2>4 DEF Raises
<1> QED
  BY <1>5, <1>6

(* Each action preserves the parts of RoundsInv.                           *)
LEMMA RoundsStep == Lowest /\ UsedInv /\ [Next]_svars => RoundsInv'
<1> SUFFICES ASSUME Lowest, UsedInv, [Next]_svars
             PROVE  RoundsInv'
  OBVIOUS
<1> USE SmpAssumption
<1>0. LoopsInRange' /\ came \in [Harts -> Nat] /\ Typed
  BY TypedStep, CameTyped DEF Typed, UsedInv
<1>1. CASE UNCHANGED svars
  BY <1>1, <1>0 DEF UsedInv, RoundsInv, OneWorker, RaisesExact, ClearPending, SeenLast, SeenNow,
                    Raises, Raised, came, svars
<1> USE DEF UsedInv, RoundsInv, Typed, TypeOK, OneWorker, RaisesExact, ClearPending, SeenLast,
            SeenNow, Asleep, Awake
<1>2. ASSUME NEW h \in Harts, Pause(h) PROVE RoundsInv'
  <2>1. came' = came
    BY <1>0, <1>2, CameStays
  <2>2. \A k \in Harts : Raises(k)' = Raises(k)
    BY <1>2 DEF Pause, Branch, Raises, Raised
  <2> QED
    BY <1>0, <1>2, <2>1, <2>2 DEF Pause, Branch
<1>3. ASSUME NEW h \in Harts, Resume(h) PROVE RoundsInv'
  <2>1. came' = came
    BY <1>0, <1>3, CameStays
  <2>2. \A k \in Harts : Raises(k)' = Raises(k)
    BY <1>3 DEF Resume, Raises, Raised
  <2> QED
    BY <1>0, <1>3, <2>1, <2>2 DEF Resume
<1>4. ASSUME NEW h \in Harts, Raise(h) PROVE RoundsInv'
  <2>1. came' = came
    BY <1>0, <1>4, CameStays
  <2>2. h = NonSmpHart
    BY <1>4 DEF Raise
  <2>3. \A k \in Harts : k # h => pc'[k] = pc[k] /\ idx'[k] = idx[k]
    BY <1>4 DEF Raise
  <2>4. \A k \in Harts : Raised(k)' <=> Raised(k) \/ k = idx[h]
    BY <1>4, <2>2 DEF Raise, Raised, LoopsInRange, InLoop
  <2>5. pc'[h] \in {"raise", "wait"} /\ UNCHANGED round
    BY <1>4 DEF Raise
  (* The register raised now was clear: its hart has consumed every        *)
  (* interrupt but the one of this round, which only comes now.            *)
  <2>6. idx[h] \in Harts => ~Raised(idx[h]) /\ msip[idx[h]] = 0
    <3> SUFFICES ASSUME idx[h] \in Harts PROVE ~Raised(idx[h]) /\ msip[idx[h]] = 0
      OBVIOUS
    <3>1. ~Raised(idx[h])
      BY <1>4, <2>2 DEF Raise, Raised
    <3>2. came[idx[h]] >= round[h] - 1
      BY <1>4
    <3>3. came[idx[h]] + msip[idx[h]] = round[h] - 1
      BY <2>2, <3>1 DEF Raises
    <3> QED
      BY <1>0, <3>1, <3>2, <3>3
  <2>7. RaisesExact'
    <3> SUFFICES ASSUME NEW k \in Harts PROVE Raises(k)' = came[k] + msip'[k]
      BY <2>1
    <3>1. CASE k = idx[h]
      BY <1>0, <1>4, <2>4, <2>5, <2>6, <3>1 DEF Raise, Raises
    <3>2. CASE k # idx[h]
      BY <1>4, <2>4, <2>5, <3>2 DEF Raise, Raises
    <3> QED
      BY <3>1, <3>2
  <2>8. OneWorker'
    BY <2>2, <2>3
  <2>9. ClearPending'
    BY <1>4, <2>3, <2>5 DEF Raise
  <2>10. SeenLast' /\ SeenNow'
    BY <2>1, <2>3, <2>5
  <2> QED
    BY <1>0, <2>7, <2>8, <2>9, <2>10
<1>5. ASSUME NEW h \in Harts, Wake(h) PROVE RoundsInv'
  <2>1. came' = came
    BY <1>0, <1>5, CameStays
  <2>2. \A k \in Harts : Raises(k)' = Raises(k)
    BY <1>5 DEF Wake, Raises, Raised
  <2> QED
    BY <1>0, <1>5, <2>1, <2>2 DEF Wake
<1>6. ASSUME NEW h \in Harts, Clear(h) PROVE RoundsInv'
  <2>1. came' = [came EXCEPT ![h] = @ + 1] /\ came[h] = round[h] - 1
    BY <1>0, <1>6, CameOne
  <2>2. \A k \in Harts : Raises(k)' = Raises(k)
    BY <1>6 DEF Clear, Raises, Raised
  <2>3. msip[h] = 1 /\ msip' = [msip EXCEPT ![h] = 0] /\ UNCHANGED round /\ pc'[h] = "scan"
        /\ idx'[h] = 0
    BY <1>6 DEF Clear
  <2>4. \A k \in Harts : k # h => pc'[k] = pc[k] /\ idx'[k] = idx[k]
    BY <1>6 DEF Clear
  <2>5. RaisesExact'
    BY <1>0, <2>1, <2>2, <2>3
  <2>6. SeenLast'
    BY <1>0, <2>1, <2>3
  <2>7. SeenNow'
    BY <1>0, <2>1, <2>3, <2>4
  <2>8. OneWorker' /\ ClearPending'
    BY <2>3, <2>4
  <2> QED
    BY <1>0, <2>5, <2>6, <2>7, <2>8
<1>7. ASSUME NEW h \in Harts, Scan(h) PROVE RoundsInv'
  <2>1. came' = came
    BY <1>0, <1>7, CameStays
  <2>2. \A k \in Harts : Raises(k)' = Raises(k)
    BY <1>7 DEF Scan, Raises, Raised
  <2>3. \A k \in Harts : k # h => pc'[k] = pc[k] /\ idx'[k] = idx[k]
    BY <1>7 DEF Scan
  <2>4. pc[h] = "scan" /\ pc'[h] \in {"scan", "multi"} /\ idx'[h] = idx[h] + 1
        /\ UNCHANGED <<round, msip>> /\ (pc'[h] = "multi" => idx[h] + 1 >= MaxHarts)
    BY <1>7 DEF Scan, InLoop
  <2>5. idx[h] \in Harts => came[idx[h]] >= round[h]
    BY <1>7, ScanSees
  <2>6. SeenNow'
    <3> SUFFICES ASSUME NEW g \in Harts, NEW k \in Harts,
                        pc'[g] = "multi" \/ (pc'[g] = "scan" /\ k < idx'[g])
                 PROVE  came[k] >= round[g]
      BY <2>1, <2>4
    <3>1. CASE g # h
      BY <2>3, <3>1
    <3>2. CASE g = h
      <4>1. k < idx[h] \/ k = idx[h]
        BY <2>4, <3>2
      <4> QED
        BY <2>4, <2>5, <3>2, <4>1
    <3> QED
      BY <3>1, <3>2
  <2>7. RaisesExact' /\ SeenLast'
    BY <2>1, <2>2, <2>4
  <2>8. OneWorker' /\ ClearPending'
    BY <2>3, <2>4
  <2> QED
    BY <1>0, <2>6, <2>7, <2>8
<1>8. ASSUME NEW h \in Harts, Again(h) PROVE RoundsInv'
  <2>1. came' = came
    BY <1>0, <1>8, CameStays
  <2>2. pc[h] = "multi" /\ pc'[h] = "pause" /\ round'[h] = round[h] + 1 /\ UNCHANGED <<idx, msip>>
    BY <1>8 DEF Again
  <2>3. \A k \in Harts : k # h => pc'[k] = pc[k] /\ round'[k] = round[k]
    BY <1>8 DEF Again
  <2>4. \A k \in Harts : Raises(k)' = Raises(k)
    <3> SUFFICES ASSUME NEW k \in Harts PROVE Raises(k)' = Raises(k)
      OBVIOUS
    <3>1. CASE h = NonSmpHart
      BY <2>2, <3>1 DEF Raises, Raised
    <3>2. CASE h # NonSmpHart
      BY <2>2, <2>3, <3>2 DEF Raises, Raised
    <3> QED
      BY <3>1, <3>2
  <2>5. SeenLast' /\ SeenNow'
    BY <1>0, <2>1, <2>2, <2>3
  <2>6. RaisesExact' /\ OneWorker' /\ ClearPending'
    BY <2>1, <2>2, <2>3, <2>4
  <2> QED
    BY <1>0, <2>5, <2>6
<1> QED
  BY <1>1, <1>2, <1>3, <1>4, <1>5, <1>6, <1>7, <1>8 DEF Next

LEMMA RoundsInvariant == ASSUME Lowest PROVE Spec => []UsedInv
<1>1. Init => UsedInv
  <2>1. Init => Typed
    BY SmpAssumption DEF Init, Typed, TypeOK, LoopsInRange, Asleep, Awake
  <2> QED
    BY <2>1, RoundsInit DEF UsedInv
<1>2. UsedInv /\ [Next]_svars => UsedInv'
  BY TypedStep, RoundsStep DEF UsedInv
<1> QED
  BY <1>1, <1>2, PTL DEF Spec

(* However often the macros are used, no hart is two rounds ahead of       *)
(* another (smp.h:61-66).                                                  *)
THEOREM HartsInStep == ASSUME Lowest PROVE Spec => []RoundsInStep
<1>1. UsedInv => RoundsInStep
  <2> SUFFICES ASSUME UsedInv, NEW h \in Harts, NEW k \in Harts
               PROVE  round[h] <= round[k] + 1
    BY DEF RoundsInStep
  <2>1. came[k] >= round[h] - 1
    BY DEF UsedInv, RoundsInv, SeenLast
  <2>2. came[k] <= round[k] /\ came[k] \in Int /\ round[h] \in Int /\ round[k] \in Int
    BY DEF came, UsedInv, Typed, TypeOK
  <2> QED
    BY <2>1, <2>2
<1> QED
  BY <1>1, RoundsInvariant, PTL

-----------------------------------------------------------------------------
(* Every step of the macros is a step of the rendezvous or a stutter: a    *)
(* hart arrives when it clears its interrupt, leaves after the scan.       *)
LEMMA MeetingStep == Lowest /\ UsedInv /\ [Next]_svars => [Meeting!Next]_(Meeting!rvars)
<1> SUFFICES ASSUME Lowest, UsedInv, [Next]_svars
             PROVE  [Meeting!Next]_(Meeting!rvars)
  OBVIOUS
<1>0. Typed /\ Typed' /\ RoundsInv'
  BY TypedStep, RoundsStep DEF UsedInv
<1> USE SmpAssumption DEF Typed, TypeOK, Asleep, Awake
<1>1. CASE UNCHANGED svars
  BY <1>1 DEF Meeting!rvars, came, gone, svars
<1>2. ASSUME NEW h \in Harts, Pause(h) \/ Resume(h) \/ Raise(h) \/ Wake(h) \/ Again(h)
      PROVE  UNCHANGED Meeting!rvars
  <2>1. came' = came
    BY <1>0, <1>2, CameStays
  <2>2. \A k \in Harts : k # h => pc'[k] = pc[k] /\ round'[k] = round[k]
    BY <1>0, <1>2 DEF Pause, Branch, Resume, Raise, Wake, Again
  <2>3. gone'[h] = gone[h]
    <3>1. CASE Again(h)
      <4>1. pc[h] = "multi" /\ pc'[h] = "pause" /\ round'[h] = round[h] + 1
        BY <1>0, <3>1 DEF Again
      <4> QED
        BY <1>0, <4>1 DEF gone
    <3>2. CASE Pause(h) \/ Resume(h) \/ Raise(h) \/ Wake(h)
      <4>1. pc[h] # "multi" /\ pc'[h] # "multi" /\ round'[h] = round[h]
        BY <1>0, <3>2 DEF Pause, Branch, Resume, Raise, Wake
      <4> QED
        BY <4>1 DEF gone
    <3> QED
      BY <1>2, <3>1, <3>2
  <2>4. gone' = gone
    BY <2>2, <2>3 DEF gone
  <2> QED
    BY <2>1, <2>4 DEF Meeting!rvars
<1>3. ASSUME NEW h \in Harts, Clear(h) PROVE Meeting!Arrive(h)
  <2>1. came' = [came EXCEPT ![h] = @ + 1] /\ came[h] = round[h] - 1
    BY <1>0, <1>3, CameOne
  <2>2. gone' = gone /\ gone[h] = round[h] - 1
    <3>1. \A k \in Harts : (pc'[k] = "multi" <=> pc[k] = "multi") /\ round'[k] = round[k]
      BY <1>0, <1>3 DEF Clear
    <3> QED
      BY <1>3, <3>1 DEF gone, Clear
  <2>3. round[h] - 1 < Rounds
    BY <1>0
  <2> QED
    BY <2>1, <2>2, <2>3 DEF Meeting!Arrive
<1>4. ASSUME NEW h \in Harts, Scan(h), pc'[h] = "scan"
      PROVE  UNCHANGED Meeting!rvars
  <2>1. \A k \in Harts : pc'[k] = pc[k] /\ round'[k] = round[k]
    BY <1>4 DEF Scan
  <2> QED
    BY <2>1 DEF Meeting!rvars, came, gone
<1>5. ASSUME NEW h \in Harts, Scan(h), pc'[h] = "multi"
      PROVE  Meeting!Leave(h)
  <2>1. came' = came
    BY <1>0, <1>5, CameStays
  <2>2. \A k \in Harts : k # h => pc'[k] = pc[k]
    BY <1>5 DEF Scan
  <2>3. pc[h] = "scan" /\ UNCHANGED round
    BY <1>5 DEF Scan
  (* After the step the scan of h is complete: everybody has consumed the  *)
  (* interrupt of this round.                                              *)
  <2>4. \A k \in Harts : came[k] >= round[h]
    BY <1>0, <1>5, <2>1, <2>3 DEF RoundsInv, SeenNow
  <2>5. came[h] = round[h] /\ gone[h] = round[h] - 1
    BY <2>3 DEF came, gone
  <2>6. gone' = [gone EXCEPT ![h] = @ + 1]
    <3>1. gone'[h] = round[h] /\ \A k \in Harts \ {h} : gone'[k] = gone[k]
      BY <1>5, <2>2, <2>3 DEF gone
    <3>2. gone \in [Harts -> Int] /\ gone' = [k \in Harts |-> gone'[k]]
      BY <1>0 DEF gone
    <3> QED
      BY <1>0, <2>5, <3>1, <3>2
  <2> QED
    BY <1>0, <2>1, <2>4, <2>5, <2>6 DEF Meeting!Leave
<1>6. ASSUME NEW h \in Harts, Scan(h) PROVE pc'[h] \in {"scan", "multi"}
  BY <1>0, <1>6 DEF Scan
<1> QED
  BY <1>1, <1>2, <1>3, <1>4, <1>5, <1>6 DEF Next, Meeting!Next

(* smp_resume implements the rendezvous, however often it is used: no hart *)
(* leaves it before all have consumed their interrupt of the round.        *)
THEOREM ImplementsRendezvous == ASSUME Lowest PROVE Spec => Meeting!Spec
<1>1. Init => Meeting!Init
  BY SmpAssumption DEF Init, Meeting!Init, Awake, came, gone
<1>2. UsedInv /\ [Next]_svars => [Meeting!Next]_(Meeting!rvars)
  BY MeetingStep
<1> QED
  BY <1>1, <1>2, RoundsInvariant, PTL DEF Spec, Meeting!Spec
=============================================================================
