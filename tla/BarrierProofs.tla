--------------------------- MODULE BarrierProofs ----------------------------
(***************************************************************************)
(* Proofs about Barrier_Wait for any finite set of threads and any number  *)
(* of meetings: it is a rendezvous, it ends as it began, and its           *)
(* generation changes only when everybody waits.                           *)
(***************************************************************************)
EXTENDS Barrier, FiniteSetTheorems, TLAPS

(* Types without the bounds that only the counting gives.                  *)
Typed == /\ gen \in {0, 1}
         /\ entered \in [{0, 1} -> Int]
         /\ wait \in [{0, 1} -> {0, 1}]
         /\ place \in [Procs -> Places]
         /\ mygen \in [Procs -> {0, 1}]
         /\ called \in [Procs -> 0 .. Waits]
         /\ returned \in [Procs -> Nat]

LEMMA NumProcs == numProcs \in Nat \ {0}
  BY BarrierAssumption, FS_CardinalityType, FS_EmptySet DEF numProcs

(* Of two threads neither is the only one.                                 *)
LEMMA Others == ASSUME NEW p \in Procs, numProcs # 1
                PROVE  \E q \in Procs : q # p
  BY BarrierAssumption, FS_Singleton DEF numProcs

LEMMA OneProc == ASSUME NEW p \in Procs, numProcs = 1
                 PROVE  Procs = {p}
  BY BarrierAssumption, FS_Singleton DEF numProcs

(* Sets of threads have the sizes that counting them one by one gives.     *)
LEMMA Sizes == ASSUME NEW S \in SUBSET Procs
               PROVE  /\ Cardinality(S) \in 0 .. numProcs
                      /\ Cardinality(S) = 0 => S = {}
                      /\ Cardinality(S) = numProcs => S = Procs
                      /\ \A p \in Procs \ S : Cardinality(S \cup {p}) = Cardinality(S) + 1
                      /\ \A p \in S : Cardinality(S \ {p}) = Cardinality(S) - 1
<1>1. IsFiniteSet(S)
  BY BarrierAssumption, FS_Subset
<1>2. Cardinality(S) \in 0 .. numProcs
  BY <1>1, BarrierAssumption, FS_Subset, FS_CardinalityType, NumProcs DEF numProcs
<1>3. Cardinality(S) = numProcs => S = Procs
  BY BarrierAssumption, FS_Subset DEF numProcs
<1>4. Cardinality(S) = 0 => S = {}
  BY <1>1, FS_EmptySet
<1>5. \A p \in Procs \ S : Cardinality(S \cup {p}) = Cardinality(S) + 1
  BY <1>1, FS_AddElement
<1>6. \A p \in S : Cardinality(S \ {p}) = Cardinality(S) - 1
  BY <1>1, FS_RemoveElement
<1> QED
  BY <1>2, <1>3, <1>4, <1>5, <1>6

-----------------------------------------------------------------------------
LEMMA TypedInit == BarrierInit => Typed
  BY BarrierAssumption DEF BarrierInit, Typed, Places

LEMMA EnteredType == ASSUME Typed, NEW p \in Procs
                     PROVE  Entered(p, 1) \/ Entered(p, -1) => entered' \in [{0, 1} -> Int]
<1>1. mygen[p] \in {0, 1}
  BY DEF Typed
<1>2. entered[mygen[p]] + 1 \in Int /\ entered[mygen[p]] + (-1) \in Int
  BY <1>1 DEF Typed
<1> QED
  BY <1>1, <1>2 DEF Typed, Entered

LEMMA GotoType == ASSUME Typed, NEW p \in Procs, NEW from, NEW to \in Places, BarrierGoto(p, from, to)
                  PROVE  place' \in [Procs -> Places]
  BY DEF Typed, BarrierGoto

LEMMA TypedStep == Typed /\ [BarrierNext]_bvars => Typed'
<1> SUFFICES ASSUME Typed, [BarrierNext]_bvars
             PROVE  Typed'
  OBVIOUS
<1>1. CASE UNCHANGED bvars
  BY <1>1 DEF bvars, Typed
<1>p. "out" \in Places /\ "read gen" \in Places /\ "arrive" \in Places /\ "new gen" \in Places
      /\ "leave last" \in Places /\ "release" \in Places /\ "spin" \in Places
      /\ "leave" \in Places /\ "clear" \in Places /\ "return" \in Places
  BY DEF Places
<1>2. ASSUME NEW p \in Procs, Call(p) PROVE Typed'
  <2>1. place' \in [Procs -> Places]
    BY <1>2, <1>p, GotoType DEF Call
  <2>2. called' \in [Procs -> 0 .. Waits]
    <3>1. called[p] \in 0 .. Waits /\ called[p] < Waits
      BY <1>2 DEF Call, Typed
    <3>2. called[p] + 1 \in 0 .. Waits
      BY <3>1, BarrierAssumption
    <3> QED
      BY <1>2, <3>2 DEF Call, Typed
  <2> QED
    BY <1>2, <2>1, <2>2 DEF Call, Typed
<1>3. ASSUME NEW p \in Procs, ReadGen(p) PROVE Typed'
  <2>1. place' \in [Procs -> Places]
    BY <1>3, <1>p, GotoType DEF ReadGen
  <2> QED
    BY <1>3, <2>1 DEF ReadGen, Typed
<1>4. ASSUME NEW p \in Procs, Arrive(p) PROVE Typed'
  <2>1. place' \in [Procs -> Places]
    BY <1>4, <1>p, GotoType DEF Arrive
  <2>2. entered' \in [{0, 1} -> Int]
    BY <1>4, EnteredType DEF Arrive
  <2> QED
    BY <1>4, <2>1, <2>2 DEF Arrive, Typed
<1>5. ASSUME NEW p \in Procs, NewGen(p) PROVE Typed'
  <2>1. place' \in [Procs -> Places]
    BY <1>5, <1>p, GotoType DEF NewGen
  <2>2. mygen[p] \in {0, 1} /\ gen' = 1 - mygen[p]
    BY <1>5 DEF NewGen, Typed
  <2>3. gen' \in {0, 1}
    BY <2>2
  <2> QED
    BY <1>5, <2>1, <2>3 DEF NewGen, Typed
<1>6. ASSUME NEW p \in Procs, LeaveLast(p) PROVE Typed'
  <2>1. place' \in [Procs -> Places]
    BY <1>6, <1>p, GotoType DEF LeaveLast
  <2>2. entered' \in [{0, 1} -> Int]
    BY <1>6, EnteredType DEF LeaveLast
  <2> QED
    BY <1>6, <2>1, <2>2 DEF LeaveLast, Typed
<1>7. ASSUME NEW p \in Procs, LetGo(p) PROVE Typed'
  <2>1. place' \in [Procs -> Places]
    BY <1>7, <1>p, GotoType DEF LetGo
  <2> QED
    BY <1>7, <2>1 DEF LetGo, Typed
<1>8. ASSUME NEW p \in Procs, Spin(p) PROVE Typed'
  <2>1. place' \in [Procs -> Places]
    BY <1>8, <1>p, GotoType DEF Spin
  <2> QED
    BY <1>8, <2>1 DEF Spin, Typed
<1>9. ASSUME NEW p \in Procs, Leave(p) PROVE Typed'
  <2>1. place' \in [Procs -> Places]
    BY <1>9, <1>p, GotoType DEF Leave
  <2>2. entered' \in [{0, 1} -> Int]
    BY <1>9, EnteredType DEF Leave
  <2> QED
    BY <1>9, <2>1, <2>2 DEF Leave, Typed
<1>10. ASSUME NEW p \in Procs, ClearFlag(p) PROVE Typed'
  <2>1. place' \in [Procs -> Places]
    BY <1>10, <1>p, GotoType DEF ClearFlag
  <2> QED
    BY <1>10, <2>1 DEF ClearFlag, Typed
<1>11. ASSUME NEW p \in Procs, Return(p) PROVE Typed'
  <2>1. place' \in [Procs -> Places]
    BY <1>11, <1>p, GotoType DEF Return
  <2>2. returned' \in [Procs -> Nat]
    <3>1. returned[p] + 1 \in Nat
      BY DEF Typed
    <3> QED
      BY <1>11, <3>1 DEF Return, Typed
  <2> QED
    BY <1>11, <2>1, <2>2 DEF Return, Typed
<1> QED
  BY <1>1, <1>2, <1>3, <1>4, <1>5, <1>6, <1>7, <1>8, <1>9, <1>10, <1>11 DEF BarrierNext, Inside

LEMMA GenerationInit == BarrierInit => Generation(0)
<1> SUFFICES ASSUME BarrierInit PROVE Generation(0)
  OBVIOUS
<1>1. Gathered(0) = {} /\ Leaving(0) = {}
  BY DEF BarrierInit, Gathered, Leaving
<1>2. Counted(0)
  BY <1>1, FS_EmptySet DEF BarrierInit, Counted
<1> QED
  BY <1>1, <1>2 DEF BarrierInit, Generation, Placed, Between, AllIn, AllHeld, Flagged, LastOne

-----------------------------------------------------------------------------
(* What a step of p changes in the frames of the threads.                  *)
LEMMA Moves == ASSUME Typed, NEW p \in Procs, NEW from, NEW to, BarrierGoto(p, from, to)
               PROVE  /\ place[p] = from
                      /\ place'[p] = to
                      /\ \A q \in Procs \ {p} : place'[q] = place[q]
  BY DEF Typed, BarrierGoto

LEMMA Rounding == ASSUME NEW k \in 0 .. Waits
                  PROVE  /\ k \in Int
                         /\ k + 1 # k /\ k - 1 # k /\ k - 1 # k + 1
                         /\ k < Waits => k + 1 \in 0 .. Waits
  BY BarrierAssumption

(* The two counters are different ones.                                    *)
LEMMA TwoGens == ASSUME Typed
                 PROVE  gen \in {0, 1} /\ 1 - gen \in {0, 1} /\ 1 - gen # gen /\ 1 - (1 - gen) = gen
  BY DEF Typed

LEMMA Counting == ASSUME Typed, NEW p \in Procs
                  PROVE  /\ Entered(p, 1) => entered'[mygen[p]] = entered[mygen[p]] + 1
                         /\ Entered(p, -1) => entered'[mygen[p]] = entered[mygen[p]] - 1
                         /\ Entered(p, 1) \/ Entered(p, -1) =>
                              \A i \in {0, 1} : i # mygen[p] => entered'[i] = entered[i]
<1>1. mygen[p] \in {0, 1} /\ entered[mygen[p]] \in Int
  BY DEF Typed
<1>2. entered[mygen[p]] + (-1) = entered[mygen[p]] - 1
  BY <1>1
<1> QED
  BY <1>1, <1>2 DEF Entered, Typed

LEMMA CallStep == ASSUME Typed, NEW k \in 0 .. Waits, Generation(k), NEW p \in Procs, Call(p),
                         numProcs # 1
                  PROVE  Generation(k)'
<1>1. /\ place[p] = "out" /\ place'[p] = "read gen"
      /\ \A q \in Procs \ {p} : place'[q] = place[q]
  BY Moves DEF Call
<1>2. called[p] = k /\ returned[p] = k
  BY <1>1 DEF Generation, Placed, Between, Coming, Going
<1>3. /\ called'[p] = k + 1
      /\ \A q \in Procs \ {p} : called'[q] = called[q]
  BY <1>2 DEF Call, Typed
<1>4. UNCHANGED <<gen, entered, wait, mygen, returned>>
  BY DEF Call
<1>5. Gathered(k)' = Gathered(k) /\ Leaving(k)' = Leaving(k)
  BY <1>1, <1>3 DEF Gathered, Leaving
<1>6. Placed(k)'
  <2> SUFFICES ASSUME NEW q \in Procs PROVE Between(q, k)' \/ Coming(q, k)' \/ Going(q, k)'
    BY DEF Placed
  <2>1. CASE q = p
    BY <2>1, <1>1, <1>2, <1>3, <1>4 DEF Coming
  <2>2. CASE q # p
    BY <2>2, <1>1, <1>3, <1>4 DEF Generation, Placed, Between, Coming, Going
  <2> QED
    BY <2>1, <2>2
<1>7. Counted(k)'
  BY <1>4, <1>5 DEF Generation, Counted
<1>8. AllIn(k)' /\ AllHeld(k)'
  BY <1>1, <1>3, <1>4 DEF Generation, AllIn, AllHeld
<1>9. Flagged(k)' /\ LastOne(k)'
  BY <1>1, <1>3, <1>4, <1>5 DEF Generation, Flagged, LastOne
<1> QED
  BY <1>6, <1>7, <1>8, <1>9 DEF Generation

(* With one thread, Barrier_Wait returns at once: a generation of its own. *)
LEMMA CallAloneStep == ASSUME Typed, NEW k \in 0 .. Waits, Generation(k), NEW p \in Procs, Call(p),
                              numProcs = 1
                       PROVE  k + 1 \in 0 .. Waits /\ Generation(k + 1)'
<1>1. place[p] = "out" /\ place'[p] = "return"
  BY Moves DEF Call
<1>2. called[p] = k /\ returned[p] = k /\ called[p] < Waits
  BY <1>1 DEF Generation, Placed, Between, Coming, Going, Call
<1>3. called'[p] = k + 1
  BY <1>2 DEF Call, Typed
<1>4. UNCHANGED <<gen, entered, wait, mygen, returned>>
  BY DEF Call
<1>5. Procs = {p}
  BY OneProc
<1>6. k + 1 \in 0 .. Waits
  BY <1>2, Rounding
<1>7. /\ Gathered(k) = {} /\ Leaving(k) = {}
      /\ Gathered(k + 1)' = {} /\ Leaving(k + 1)' = {}
  BY <1>1, <1>5 DEF Gathered, Leaving
<1>8. Placed(k + 1)'
  <2>1. returned'[p] = (k + 1) - 1
    BY <1>2, <1>4, Rounding
  <2> QED
    BY <2>1, <1>1, <1>3, <1>5 DEF Placed, Going
<1>9. Counted(k + 1)'
  BY <1>4, <1>7 DEF Generation, Counted
<1>10. AllIn(k + 1)' /\ AllHeld(k + 1)' /\ LastOne(k + 1)'
  BY <1>1, <1>5 DEF AllIn, AllHeld, LastOne
<1>11. Flagged(k + 1)'
  BY <1>1, <1>4, <1>5 DEF Generation, Flagged
<1> QED
  BY <1>6, <1>8, <1>9, <1>10, <1>11 DEF Generation

LEMMA ReadGenStep == ASSUME Typed, NEW k \in 0 .. Waits, Generation(k), NEW p \in Procs, ReadGen(p)
                     PROVE  Generation(k)'
<1>1. /\ place[p] = "read gen" /\ place'[p] = "arrive"
      /\ \A q \in Procs \ {p} : place'[q] = place[q]
  BY Moves DEF ReadGen
<1>2. called[p] = k + 1 /\ returned[p] = k
  BY <1>1 DEF Generation, Placed, Between, Coming, Going
<1>3. /\ mygen'[p] = gen
      /\ \A q \in Procs \ {p} : mygen'[q] = mygen[q]
  BY DEF ReadGen, Typed
<1>4. UNCHANGED <<gen, entered, wait, called, returned>>
  BY DEF ReadGen
<1>5. Gathered(k)' = Gathered(k) /\ Leaving(k)' = Leaving(k)
  BY <1>1, <1>4 DEF Gathered, Leaving
<1>6. Placed(k)'
  <2> SUFFICES ASSUME NEW q \in Procs PROVE Between(q, k)' \/ Coming(q, k)' \/ Going(q, k)'
    BY DEF Placed
  <2>1. CASE q = p
    BY <2>1, <1>1, <1>2, <1>3, <1>4 DEF Coming
  <2>2. CASE q # p
    BY <2>2, <1>1, <1>3, <1>4 DEF Generation, Placed, Between, Coming, Going
  <2> QED
    BY <2>1, <2>2
<1>7. Counted(k)'
  BY <1>4, <1>5 DEF Generation, Counted
<1>8. AllIn(k)' /\ AllHeld(k)'
  BY <1>1, <1>4 DEF Generation, AllIn, AllHeld
<1>9. Flagged(k)' /\ LastOne(k)'
  BY <1>1, <1>4, <1>5 DEF Generation, Flagged, LastOne
<1> QED
  BY <1>6, <1>7, <1>8, <1>9 DEF Generation

(* A thread that arrives is counted; the last one has all others waiting.  *)
LEMMA ArriveStep == ASSUME Typed, NEW k \in 0 .. Waits, Generation(k), NEW p \in Procs, Arrive(p)
                    PROVE  Generation(k)'
<1>1. /\ place[p] = "arrive"
      /\ place'[p] = IF entered[mygen[p]] + 1 = numProcs THEN "new gen" ELSE "spin"
      /\ \A q \in Procs \ {p} : place'[q] = place[q]
  BY Moves DEF Arrive
<1>2. called[p] = k + 1 /\ returned[p] = k /\ mygen[p] = gen
  BY <1>1 DEF Generation, Placed, Between, Coming, Going
<1>3. UNCHANGED <<gen, wait, mygen, called, returned>>
  BY DEF Arrive
<1>4. entered'[gen] = entered[gen] + 1 /\ entered'[1 - gen] = entered[1 - gen]
  BY <1>2, TwoGens, Counting DEF Arrive
<1>5. place'[p] \in {"new gen", "spin"}
  BY <1>1
<1>6. /\ Gathered(k)' = Gathered(k) \cup {p} /\ p \notin Gathered(k)
      /\ Leaving(k)' = Leaving(k)
  <2>1. called[p] # k
    BY <1>2, Rounding
  <2> QED
    BY <2>1, <1>1, <1>2, <1>3, <1>5 DEF Gathered, Leaving
<1>7. Cardinality(Gathered(k)') = Cardinality(Gathered(k)) + 1
  <2>1. Gathered(k) \in SUBSET Procs
    BY DEF Gathered
  <2>2. p \in Procs \ Gathered(k)
    BY <1>6
  <2>3. Cardinality(Gathered(k) \cup {p}) = Cardinality(Gathered(k)) + 1
    BY <2>1, <2>2, Sizes
  <2> QED
    BY <2>3, <1>6
<1>8. Placed(k)'
  <2> SUFFICES ASSUME NEW q \in Procs PROVE Between(q, k)' \/ Coming(q, k)' \/ Going(q, k)'
    BY DEF Placed
  <2>1. CASE q = p
    BY <2>1, <1>2, <1>3, <1>5 DEF Coming
  <2>2. CASE q # p
    BY <2>2, <1>1, <1>3 DEF Generation, Placed, Between, Coming, Going
  <2> QED
    BY <2>1, <2>2
<1>9. Counted(k)'
  <2>1. entered'[gen'] = Cardinality(Gathered(k)')
    BY <1>3, <1>4, <1>7 DEF Generation, Counted
  <2>2. entered'[1 - gen'] = Cardinality(Leaving(k)')
    BY <1>3, <1>4, <1>6 DEF Generation, Counted
  <2> QED
    BY <2>1, <2>2 DEF Counted
<1>10. AllIn(k)'
  <2> SUFFICES ASSUME NEW q \in Procs, place'[q] = "new gen", NEW r \in Procs \ {q}
               PROVE  place'[r] = "spin" /\ called'[r] = k + 1
    BY DEF AllIn
  <2>1. q = p
    BY <1>1 DEF Generation, AllIn
  <2>2. entered[gen] + 1 = numProcs
    BY <2>1, <1>1, <1>2
  <2>3. Cardinality(Gathered(k)') = numProcs
    BY <2>2, <1>7 DEF Generation, Counted
  <2>4. Gathered(k)' = Procs
    BY <2>3, <1>6, Sizes DEF Gathered
  <2>5. r \in Gathered(k)
    BY <2>1, <2>4, <1>6
  <2>6. called[r] = k + 1 /\ place[r] \in {"spin", "new gen"} /\ r # p
    BY <2>1, <2>5 DEF Gathered
  <2>7. place[r] # "new gen"
    BY <2>6, <1>1 DEF Generation, AllIn
  <2> QED
    BY <2>6, <2>7, <1>1, <1>3
<1>11. AllHeld(k)'
  BY <1>1, <1>3, <1>5 DEF Generation, AllHeld
<1>12. Flagged(k)' /\ LastOne(k)'
  BY <1>1, <1>3, <1>5, <1>6 DEF Generation, Flagged, LastOne
<1> QED
  BY <1>8, <1>9, <1>10, <1>11, <1>12 DEF Generation

(* The next generation begins: everybody was on the way in and is now on   *)
(* the way out.                                                            *)
LEMMA NewGenStep == ASSUME Typed, NEW k \in 0 .. Waits, Generation(k), NEW p \in Procs, NewGen(p)
                    PROVE  k + 1 \in 0 .. Waits /\ Generation(k + 1)'
<1>1. /\ place[p] = "new gen" /\ place'[p] = "leave last"
      /\ \A q \in Procs \ {p} : place'[q] = place[q]
  BY Moves DEF NewGen
<1>2. called[p] = k + 1 /\ mygen[p] = gen
  BY <1>1 DEF Generation, Placed, Between, Coming, Going
<1>3. UNCHANGED <<entered, wait, mygen, called, returned>>
  BY DEF NewGen
<1>4. \A q \in Procs \ {p} : place[q] = "spin" /\ called[q] = k + 1
  BY <1>1 DEF Generation, AllIn
<1>5. gen \in {0, 1} /\ gen' = 1 - gen
  BY <1>2 DEF NewGen, Typed
<1>6. 1 - gen' = gen
  BY <1>5
<1>7. k + 1 \in 0 .. Waits
  BY <1>2 DEF Typed
<1>8. /\ Gathered(k) = Procs /\ Leaving(k) = {}
      /\ Gathered(k + 1)' = {} /\ Leaving(k + 1)' = Procs
  <2>1. (k + 1) + 1 # k + 1 /\ k + 1 # k
    BY Rounding
  <2> QED
    BY <2>1, <1>1, <1>2, <1>3, <1>4 DEF Gathered, Leaving
<1>9. Placed(k + 1)'
  <2> SUFFICES ASSUME NEW q \in Procs PROVE Going(q, k + 1)'
    BY DEF Placed
  <2>1. called[q] = k + 1 /\ returned[q] = k /\ mygen[q] = gen
    <3>1. called[q] = k + 1 /\ called[q] # k /\ place[q] \in {"spin", "new gen"}
      BY <1>1, <1>2, <1>4, Rounding
    <3> QED
      BY <3>1 DEF Generation, Placed, Between, Coming, Going
  <2>2. place'[q] \in {"leave last", "spin"}
    BY <1>1, <1>4
  <2>3. k = (k + 1) - 1
    BY Rounding
  <2> QED
    BY <2>1, <2>2, <2>3, <1>3, <1>6 DEF Going
<1>10. Counted(k + 1)'
  BY <1>3, <1>5, <1>6, <1>8 DEF Generation, Counted
<1>11. AllIn(k + 1)' /\ LastOne(k + 1)'
  BY <1>1, <1>4 DEF AllIn, LastOne
<1>12. AllHeld(k + 1)'
  BY <1>1, <1>3, <1>4, <1>6 DEF Generation, AllHeld, Flagged
<1>13. Flagged(k + 1)'
  <2>1. wait[1 - gen] # 1
    <3>1. \A q \in Procs : called[q] # k
      BY <1>2, <1>4, Rounding
    <3> QED
      BY <3>1 DEF Generation, Flagged
  <2>2. wait[1 - gen] = 0
    BY <2>1, <1>5 DEF Typed
  <2> QED
    BY <2>2, <1>3, <1>5, <1>6 DEF Generation, Flagged
<1> QED
  BY <1>7, <1>9, <1>10, <1>11, <1>12, <1>13 DEF Generation

(* The last to arrive has all others waiting until it lets them go.       *)
LEMMA LeaveLastStep == ASSUME Typed, NEW k \in 0 .. Waits, Generation(k), NEW p \in Procs, LeaveLast(p)
                       PROVE  Generation(k)'
<1>1. /\ place[p] = "leave last" /\ place'[p] = "release"
      /\ \A q \in Procs \ {p} : place'[q] = place[q]
  BY Moves DEF LeaveLast
<1>2. called[p] = k /\ returned[p] = k - 1 /\ mygen[p] = 1 - gen
  BY <1>1 DEF Generation, Placed, Between, Coming, Going
<1>3. UNCHANGED <<gen, wait, mygen, called, returned>>
  BY DEF LeaveLast
<1>4. entered'[1 - gen] = entered[1 - gen] - 1 /\ entered'[gen] = entered[gen]
  BY <1>2, TwoGens, Counting DEF LeaveLast
<1>5. /\ Leaving(k)' = Leaving(k) \ {p} /\ p \in Leaving(k)
      /\ Gathered(k)' = Gathered(k)
  <2>1. called[p] # k + 1
    BY <1>2, Rounding
  <2> QED
    BY <2>1, <1>1, <1>2, <1>3 DEF Gathered, Leaving
<1>6. Cardinality(Leaving(k)') = Cardinality(Leaving(k)) - 1
  <2>1. Leaving(k) \in SUBSET Procs
    BY DEF Leaving
  <2>2. Cardinality(Leaving(k) \ {p}) = Cardinality(Leaving(k)) - 1
    BY <2>1, <1>5, Sizes
  <2> QED
    BY <2>2, <1>5
<1>7. Placed(k)'
  <2> SUFFICES ASSUME NEW q \in Procs PROVE Between(q, k)' \/ Coming(q, k)' \/ Going(q, k)'
    BY DEF Placed
  <2>1. CASE q = p
    BY <2>1, <1>1, <1>2, <1>3 DEF Going
  <2>2. CASE q # p
    BY <2>2, <1>1, <1>3 DEF Generation, Placed, Between, Coming, Going
  <2> QED
    BY <2>1, <2>2
<1>8. Counted(k)'
  <2>1. entered'[gen'] = Cardinality(Gathered(k)')
    BY <1>3, <1>4, <1>5 DEF Generation, Counted
  <2>2. entered'[1 - gen'] = Cardinality(Leaving(k)')
    BY <1>3, <1>4, <1>6 DEF Generation, Counted
  <2> QED
    BY <2>1, <2>2 DEF Counted
<1>9. AllIn(k)'
  BY <1>1, <1>3 DEF Generation, AllIn, AllHeld
<1>10. AllHeld(k)'
  <2>1. /\ wait[1 - gen] = 0
        /\ \A q \in Procs \ {p} : place[q] = "spin" /\ called[q] = k
    BY <1>1 DEF Generation, AllHeld
  <2> QED
    BY <2>1, <1>1, <1>3 DEF AllHeld
<1>11. Flagged(k)'
  <2>1. wait[1 - gen] = 0
    BY <1>1 DEF Generation, AllHeld
  <2> QED
    BY <2>1, <1>3 DEF Generation, Flagged
<1>12. LastOne(k)'
  BY <1>1, <1>5 DEF Generation, LastOne
<1> QED
  BY <1>7, <1>8, <1>9, <1>10, <1>11, <1>12 DEF Generation

LEMMA ReleaseStep == ASSUME Typed, NEW k \in 0 .. Waits, Generation(k), NEW p \in Procs, LetGo(p), numProcs # 1
                     PROVE  Generation(k)'
<1>1. /\ place[p] = "release" /\ place'[p] = "return"
      /\ \A q \in Procs \ {p} : place'[q] = place[q]
  BY Moves DEF LetGo
<1>2. called[p] = k /\ returned[p] = k - 1 /\ mygen[p] = 1 - gen
  BY <1>1 DEF Generation, Placed, Between, Coming, Going
<1>3. UNCHANGED <<gen, entered, mygen, called, returned>>
  BY DEF LetGo
<1>4. wait'[gen] = wait[gen]
  BY <1>2, TwoGens DEF LetGo, Typed
<1>5. Gathered(k)' = Gathered(k) /\ Leaving(k)' = Leaving(k)
  BY <1>1, <1>3 DEF Gathered, Leaving
<1>6. Placed(k)'
  <2> SUFFICES ASSUME NEW q \in Procs PROVE Between(q, k)' \/ Coming(q, k)' \/ Going(q, k)'
    BY DEF Placed
  <2>1. CASE q = p
    BY <2>1, <1>1, <1>2, <1>3 DEF Going
  <2>2. CASE q # p
    BY <2>2, <1>1, <1>3 DEF Generation, Placed, Between, Coming, Going
  <2> QED
    BY <2>1, <2>2
<1>7. Counted(k)'
  BY <1>3, <1>5 DEF Generation, Counted
<1>8. \A q \in Procs \ {p} : place[q] = "spin" /\ called[q] = k
  BY <1>1 DEF Generation, AllHeld
<1>9. AllIn(k)' /\ AllHeld(k)' /\ LastOne(k)'
  BY <1>1, <1>8 DEF AllIn, AllHeld, LastOne
<1>10. Flagged(k)'
  <2>1. PICK q \in Procs : q # p
    BY Others
  <2>2. called'[q] = k /\ place'[q] = "spin"
    BY <2>1, <1>1, <1>3, <1>8
  <2> QED
    BY <2>2, <1>3, <1>4 DEF Generation, Flagged
<1> QED
  BY <1>6, <1>7, <1>9, <1>10 DEF Generation

(* Only a thread on its way out gets past the flag.                        *)
LEMMA SpinStep == ASSUME Typed, NEW k \in 0 .. Waits, Generation(k), NEW p \in Procs, Spin(p)
                  PROVE  Generation(k)'
<1>1. /\ place[p] = "spin" /\ place'[p] = "leave" /\ wait[mygen[p]] # 0
      /\ \A q \in Procs \ {p} : place'[q] = place[q]
  BY Moves DEF Spin
<1>2. called[p] = k /\ returned[p] = k - 1 /\ mygen[p] = 1 - gen
  BY <1>1 DEF Generation, Placed, Between, Coming, Going, Flagged
<1>3. UNCHANGED <<gen, entered, wait, mygen, called, returned>>
  BY DEF Spin
<1>4. Gathered(k)' = Gathered(k) /\ Leaving(k)' = Leaving(k)
  <2>1. called[p] # k + 1
    BY <1>2, Rounding
  <2> QED
    BY <2>1, <1>1, <1>3 DEF Gathered, Leaving
<1>5. Placed(k)'
  <2> SUFFICES ASSUME NEW q \in Procs PROVE Between(q, k)' \/ Coming(q, k)' \/ Going(q, k)'
    BY DEF Placed
  <2>1. CASE q = p
    BY <2>1, <1>1, <1>2, <1>3 DEF Going
  <2>2. CASE q # p
    BY <2>2, <1>1, <1>3 DEF Generation, Placed, Between, Coming, Going
  <2> QED
    BY <2>1, <2>2
<1>6. Counted(k)'
  BY <1>3, <1>4 DEF Generation, Counted
<1>7. \A q \in Procs : place[q] # "new gen"
  <2>1. called[p] # k + 1
    BY <1>2, Rounding
  <2> QED
    BY <2>1, <1>1 DEF Generation, AllIn
<1>8. \A q \in Procs : place[q] \notin {"leave last", "release"}
  BY <1>1, <1>2 DEF Generation, AllHeld
<1>9. AllIn(k)' /\ AllHeld(k)'
  BY <1>1, <1>7, <1>8 DEF AllIn, AllHeld
<1>10. Flagged(k)'
  BY <1>1, <1>2, <1>3 DEF Generation, Flagged
<1>11. LastOne(k)'
  BY <1>1, <1>4 DEF Generation, LastOne
<1> QED
  BY <1>5, <1>6, <1>9, <1>10, <1>11 DEF Generation

(* The thread that leaves with nobody left behind takes the flag down.     *)
LEMMA LeaveStep == ASSUME Typed, NEW k \in 0 .. Waits, Generation(k), NEW p \in Procs, Leave(p)
                   PROVE  Generation(k)'
<1>1. /\ place[p] = "leave"
      /\ place'[p] = IF entered[mygen[p]] = 1 THEN "clear" ELSE "return"
      /\ \A q \in Procs \ {p} : place'[q] = place[q]
  BY Moves DEF Leave
<1>2. called[p] = k /\ returned[p] = k - 1 /\ mygen[p] = 1 - gen
  BY <1>1 DEF Generation, Placed, Between, Coming, Going
<1>3. UNCHANGED <<gen, wait, mygen, called, returned>>
  BY DEF Leave
<1>4. entered'[1 - gen] = entered[1 - gen] - 1 /\ entered'[gen] = entered[gen]
  BY <1>2, TwoGens, Counting DEF Leave
<1>5. place'[p] \in {"clear", "return"}
  BY <1>1
<1>6. /\ Leaving(k)' = Leaving(k) \ {p} /\ p \in Leaving(k)
      /\ Gathered(k)' = Gathered(k)
  BY <1>1, <1>2, <1>3, <1>5 DEF Gathered, Leaving
<1>7. Cardinality(Leaving(k)') = Cardinality(Leaving(k)) - 1
  <2>1. Leaving(k) \in SUBSET Procs
    BY DEF Leaving
  <2>2. Cardinality(Leaving(k) \ {p}) = Cardinality(Leaving(k)) - 1
    BY <2>1, <1>6, Sizes
  <2> QED
    BY <2>2, <1>6
<1>8. Placed(k)'
  <2> SUFFICES ASSUME NEW q \in Procs PROVE Between(q, k)' \/ Coming(q, k)' \/ Going(q, k)'
    BY DEF Placed
  <2>1. CASE q = p
    BY <2>1, <1>2, <1>3, <1>5 DEF Going
  <2>2. CASE q # p
    BY <2>2, <1>1, <1>3 DEF Generation, Placed, Between, Coming, Going
  <2> QED
    BY <2>1, <2>2
<1>9. Counted(k)'
  <2>1. entered'[gen'] = Cardinality(Gathered(k)')
    BY <1>3, <1>4, <1>6 DEF Generation, Counted
  <2>2. entered'[1 - gen'] = Cardinality(Leaving(k)')
    BY <1>3, <1>4, <1>7 DEF Generation, Counted
  <2> QED
    BY <2>1, <2>2 DEF Counted
<1>10. \A q \in Procs : place[q] \notin {"new gen", "leave last", "release"}
  BY <1>1 DEF Generation, AllIn, AllHeld
<1>11. AllIn(k)' /\ AllHeld(k)'
  BY <1>5, <1>1, <1>10 DEF AllIn, AllHeld
<1>12. Flagged(k)'
  <2>1. CASE place'[p] = "clear"
    BY <2>1, <1>2, <1>3 DEF Generation, Flagged
  <2>2. CASE place'[p] = "return"
    <3>1. entered[1 - gen] # 1
      BY <2>2, <1>1, <1>2
    <3>2. Cardinality(Leaving(k)') # 0
      <4>1. Leaving(k) \in SUBSET Procs
        BY DEF Leaving
      <4>2. Cardinality(Leaving(k)) \in Int
        BY <4>1, Sizes, NumProcs
      <4> QED
        BY <4>2, <3>1, <1>7 DEF Generation, Counted
    <3>3. Leaving(k)' # {}
      BY <3>2, FS_EmptySet
    <3>4. PICK q \in Procs : q \in Leaving(k)'
      BY <3>3 DEF Leaving
    <3>5. called'[q] = k /\ place'[q] \in {"spin", "leave"}
      BY <3>4, <1>1, <1>5, <1>10 DEF Leaving
    <3> QED
      BY <3>5, <1>3 DEF Generation, Flagged
  <2> QED
    BY <2>1, <2>2, <1>5
<1>13. LastOne(k)'
  <2> SUFFICES ASSUME NEW q \in Procs, place'[q] = "clear" PROVE Leaving(k)' = {}
    BY DEF LastOne
  <2>1. CASE q = p
    <3>1. entered[1 - gen] = 1
      BY <2>1, <1>1, <1>2
    <3>2. Cardinality(Leaving(k)') = 0
      <4>1. Cardinality(Leaving(k)) = 1
        BY <3>1 DEF Generation, Counted
      <4> QED
        BY <4>1, <1>7
    <3>3. Leaving(k)' \in SUBSET Procs
      BY DEF Leaving
    <3> QED
      BY <3>2, <3>3, Sizes
  <2>2. CASE q # p
    BY <2>2, <1>1, <1>6 DEF Generation, LastOne
  <2> QED
    BY <2>1, <2>2
<1> QED
  BY <1>8, <1>9, <1>11, <1>12, <1>13 DEF Generation

LEMMA ClearStep == ASSUME Typed, NEW k \in 0 .. Waits, Generation(k), NEW p \in Procs, ClearFlag(p)
                   PROVE  Generation(k)'
<1>1. /\ place[p] = "clear" /\ place'[p] = "return"
      /\ \A q \in Procs \ {p} : place'[q] = place[q]
  BY Moves DEF ClearFlag
<1>2. called[p] = k /\ returned[p] = k - 1 /\ mygen[p] = 1 - gen
  BY <1>1 DEF Generation, Placed, Between, Coming, Going
<1>3. UNCHANGED <<gen, entered, mygen, called, returned>>
  BY DEF ClearFlag
<1>4. wait'[1 - gen] = 0 /\ wait'[gen] = wait[gen]
  BY <1>2, TwoGens DEF ClearFlag, Typed
<1>5. Gathered(k)' = Gathered(k) /\ Leaving(k)' = Leaving(k)
  BY <1>1, <1>3 DEF Gathered, Leaving
<1>6. Placed(k)'
  <2> SUFFICES ASSUME NEW q \in Procs PROVE Between(q, k)' \/ Coming(q, k)' \/ Going(q, k)'
    BY DEF Placed
  <2>1. CASE q = p
    BY <2>1, <1>1, <1>2, <1>3 DEF Going
  <2>2. CASE q # p
    BY <2>2, <1>1, <1>3 DEF Generation, Placed, Between, Coming, Going
  <2> QED
    BY <2>1, <2>2
<1>7. Counted(k)'
  BY <1>3, <1>5 DEF Generation, Counted
<1>8. \A q \in Procs : place[q] \notin {"new gen", "leave last", "release"}
  BY <1>1 DEF Generation, AllIn, AllHeld
<1>9. AllIn(k)' /\ AllHeld(k)' /\ LastOne(k)'
  BY <1>1, <1>5, <1>8 DEF Generation, AllIn, AllHeld, LastOne
<1>10. Flagged(k)'
  BY <1>3, <1>4 DEF Generation, Flagged
<1> QED
  BY <1>6, <1>7, <1>9, <1>10 DEF Generation

LEMMA ReturnStep == ASSUME Typed, NEW k \in 0 .. Waits, Generation(k), NEW p \in Procs, Return(p)
                    PROVE  Generation(k)'
<1>1. /\ place[p] = "return" /\ place'[p] = "out"
      /\ \A q \in Procs \ {p} : place'[q] = place[q]
  BY Moves DEF Return
<1>2. called[p] = k /\ returned[p] = k - 1
  BY <1>1 DEF Generation, Placed, Between, Coming, Going
<1>3. UNCHANGED <<gen, entered, wait, mygen, called>>
  BY DEF Return
<1>4. /\ returned'[p] = k
      /\ \A q \in Procs \ {p} : returned'[q] = returned[q]
  <2>1. (k - 1) + 1 = k
    BY Rounding
  <2> QED
    BY <2>1, <1>2 DEF Return, Typed
<1>5. Gathered(k)' = Gathered(k) /\ Leaving(k)' = Leaving(k)
  BY <1>1, <1>3 DEF Gathered, Leaving
<1>6. Placed(k)'
  <2> SUFFICES ASSUME NEW q \in Procs PROVE Between(q, k)' \/ Coming(q, k)' \/ Going(q, k)'
    BY DEF Placed
  <2>1. CASE q = p
    BY <2>1, <1>1, <1>2, <1>3, <1>4 DEF Between
  <2>2. CASE q # p
    BY <2>2, <1>1, <1>3, <1>4 DEF Generation, Placed, Between, Coming, Going
  <2> QED
    BY <2>1, <2>2
<1>7. Counted(k)'
  BY <1>3, <1>5 DEF Generation, Counted
<1>8. AllIn(k)' /\ AllHeld(k)'
  BY <1>1, <1>3 DEF Generation, AllIn, AllHeld
<1>9. Flagged(k)' /\ LastOne(k)'
  BY <1>1, <1>3, <1>5 DEF Generation, Flagged, LastOne
<1> QED
  BY <1>6, <1>7, <1>8, <1>9 DEF Generation

-----------------------------------------------------------------------------
(* Alone, a thread never gets past the test for one thread.                *)
Alone == numProcs = 1 => \A p \in Procs : place[p] \in {"out", "return"}

LEMMA AloneStep == Typed /\ Alone /\ [BarrierNext]_bvars => Alone'
<1> SUFFICES ASSUME Typed, Alone, [BarrierNext]_bvars, numProcs = 1, NEW q \in Procs
             PROVE  place'[q] \in {"out", "return"}
  BY DEF Alone, numProcs
<1>1. CASE UNCHANGED bvars
  BY <1>1 DEF bvars, Alone
<1>2. ASSUME NEW p \in Procs, Call(p) \/ Inside(p)
      PROVE  place'[q] \in {"out", "return"}
  <2>1. q = p /\ place[p] \in {"out", "return"}
    BY OneProc DEF Alone
  <2>2. CASE Call(p)
    BY <2>1, <2>2 DEF Call, BarrierGoto, Typed
  <2>3. CASE Return(p)
    BY <2>1, <2>3 DEF Return, BarrierGoto, Typed
  <2> QED
    BY <1>2, <2>1, <2>2, <2>3 DEF Inside, ReadGen, Arrive, NewGen, LeaveLast, LetGo,
                                  Spin, Leave, ClearFlag, BarrierGoto
<1> QED
  BY <1>1, <1>2 DEF BarrierNext

Inv == Typed /\ Alone /\ InGeneration

LEMMA InvStep == Inv /\ [BarrierNext]_bvars => Inv'
<1> SUFFICES ASSUME Inv, [BarrierNext]_bvars PROVE Inv'
  OBVIOUS
<1>1. Typed' /\ Alone'
  BY TypedStep, AloneStep DEF Inv
<1>2. Typed /\ Alone
  BY DEF Inv
<1>3. PICK k \in 0 .. Waits : Generation(k)
  BY DEF Inv, InGeneration
<1>4. InGeneration'
  <2>1. CASE UNCHANGED bvars
    <3>1. UNCHANGED <<gen, entered, wait, place, mygen, called, returned>>
      BY <2>1 DEF bvars
    <3>2. Gathered(k)' = Gathered(k) /\ Leaving(k)' = Leaving(k)
      BY <3>1 DEF Gathered, Leaving
    <3>3. Counted(k)' /\ LastOne(k)'
      BY <1>3, <3>1, <3>2 DEF Generation, Counted, LastOne
    <3>4. Placed(k)' /\ AllIn(k)' /\ AllHeld(k)' /\ Flagged(k)'
      BY <1>3, <3>1 DEF Generation, Placed, Between, Coming, Going, AllIn, AllHeld, Flagged
    <3> QED
      BY <3>3, <3>4 DEF InGeneration, Generation
  <2>2. ASSUME NEW p \in Procs, Call(p) \/ Inside(p) PROVE InGeneration'
    <3>1. CASE Call(p) /\ numProcs # 1
      BY <3>1, <1>2, <1>3, CallStep DEF InGeneration
    <3>2. CASE Call(p) /\ numProcs = 1
      BY <3>2, <1>2, <1>3, CallAloneStep DEF InGeneration
    <3>3. CASE ReadGen(p)
      BY <3>3, <1>2, <1>3, ReadGenStep DEF InGeneration
    <3>4. CASE Arrive(p)
      BY <3>4, <1>2, <1>3, ArriveStep DEF InGeneration
    <3>5. CASE NewGen(p)
      BY <3>5, <1>2, <1>3, NewGenStep DEF InGeneration
    <3>6. CASE LeaveLast(p)
      BY <3>6, <1>2, <1>3, LeaveLastStep DEF InGeneration
    <3>7. CASE LetGo(p)
      <4>1. numProcs # 1
        BY <3>7, <1>2 DEF Alone, LetGo, BarrierGoto
      <4> QED
        BY <4>1, <3>7, <1>2, <1>3, ReleaseStep DEF InGeneration
    <3>8. CASE Spin(p)
      BY <3>8, <1>2, <1>3, SpinStep DEF InGeneration
    <3>9. CASE Leave(p)
      BY <3>9, <1>2, <1>3, LeaveStep DEF InGeneration
    <3>10. CASE ClearFlag(p)
      BY <3>10, <1>2, <1>3, ClearStep DEF InGeneration
    <3>11. CASE Return(p)
      BY <3>11, <1>2, <1>3, ReturnStep DEF InGeneration
    <3> QED
      BY <2>2, <3>1, <3>2, <3>3, <3>4, <3>5, <3>6, <3>7, <3>8, <3>9, <3>10, <3>11 DEF Inside
  <2> QED
    BY <2>1, <2>2 DEF BarrierNext
<1> QED
  BY <1>1, <1>4 DEF Inv

LEMMA Invariance == BarrierSpec => []Inv
<1>1. BarrierInit => Inv
  <2> SUFFICES ASSUME BarrierInit PROVE Inv
    OBVIOUS
  <2>1. 0 \in 0 .. Waits
    BY BarrierAssumption
  <2>2. Alone
    BY DEF BarrierInit, Alone
  <2> QED
    BY <2>1, <2>2, TypedInit, GenerationInit DEF Inv, InGeneration
<1> QED
  BY <1>1, InvStep, PTL DEF BarrierSpec

-----------------------------------------------------------------------------
(* In every state of any number of threads: some generation k is under     *)
(* way, every thread is at most one call away from it, and the counters    *)
(* and flags say who waits.                                                *)
THEOREM GenerationInvariant == BarrierSpec => []InGeneration
<1>1. Inv => InGeneration
  BY DEF Inv
<1> QED
  BY <1>1, Invariance, PTL

(* The barrier can be used again: with nobody inside it is as it was when  *)
(* everything was zero, up to gen.                                         *)
THEOREM BarrierReusable == BarrierSpec => []Reusable
<1>1. Inv => Reusable
  <2> SUFFICES ASSUME Inv, \A p \in Procs : place[p] = "out", NEW i \in {0, 1}
               PROVE  entered[i] = 0 /\ wait[i] = 0
    BY DEF Reusable
  <2>1. PICK k \in 0 .. Waits : Generation(k)
    BY DEF Inv, InGeneration
  <2>2. Gathered(k) = {} /\ Leaving(k) = {}
    BY DEF Gathered, Leaving
  <2>3. entered[gen] = 0 /\ entered[1 - gen] = 0
    BY <2>1, <2>2, FS_EmptySet DEF Generation, Counted
  <2>4. wait[gen] = 0 /\ wait[1 - gen] # 1
    BY <2>1 DEF Generation, Flagged
  <2>5. gen \in {0, 1} /\ 1 - gen \in {0, 1} /\ i \in {gen, 1 - gen} /\ wait[1 - gen] \in {0, 1}
    BY DEF Inv, Typed
  <2> QED
    BY <2>3, <2>4, <2>5
<1> QED
  BY <1>1, Invariance, PTL

(* The counters never leave 0 .. numProcs.                                 *)
THEOREM BarrierTypeCorrect == BarrierSpec => []BarrierTypeOK
<1>1. Inv => BarrierTypeOK
  <2> SUFFICES ASSUME Inv PROVE BarrierTypeOK
    OBVIOUS
  <2>1. PICK k \in 0 .. Waits : Generation(k)
    BY DEF Inv, InGeneration
  <2>2. Gathered(k) \in SUBSET Procs /\ Leaving(k) \in SUBSET Procs
    BY DEF Gathered, Leaving
  <2>3. entered[gen] \in 0 .. numProcs /\ entered[1 - gen] \in 0 .. numProcs
    BY <2>1, <2>2, Sizes DEF Generation, Counted
  <2>4. \A i \in {0, 1} : i \in {gen, 1 - gen}
    BY DEF Inv, Typed
  <2>5. entered \in [{0, 1} -> 0 .. numProcs]
    BY <2>3, <2>4 DEF Inv, Typed
  <2>6. returned \in [Procs -> 0 .. Waits]
    <3> SUFFICES ASSUME NEW p \in Procs PROVE returned[p] \in 0 .. Waits
      BY DEF Inv, Typed
    <3>1. called[p] \in 0 .. Waits
      BY DEF Inv, Typed
    <3>2. returned[p] \in {k, k - 1}
      BY <2>1 DEF Generation, Placed, Between, Coming, Going
    <3>3. returned[p] \in Nat
      BY DEF Inv, Typed
    <3> QED
      BY <3>1, <3>2, <3>3, BarrierAssumption
  <2> QED
    BY <2>5, <2>6 DEF Inv, Typed, BarrierTypeOK
<1> QED
  BY <1>1, Invariance, PTL

(* The generation changes only when everybody waits in the same call.      *)
THEOREM GenerationChange == BarrierSpec => GenOnlyWhenWaiting
<1>1. Inv /\ [BarrierNext]_bvars =>
        [gen' # gen => \A p, q \in Procs : /\ place[p] \in {"spin", "new gen"}
                                           /\ called[p] = called[q]]_bvars
  <2> SUFFICES ASSUME Inv, BarrierNext, gen' # gen, NEW a \in Procs, NEW b \in Procs
               PROVE  place[a] \in {"spin", "new gen"} /\ called[a] = called[b]
    BY DEF bvars
  <2>1. PICK p \in Procs : NewGen(p)
    BY DEF BarrierNext, Inside, Call, ReadGen, Arrive, LeaveLast, LetGo, Spin, Leave, ClearFlag, Return
  <2>2. PICK k \in 0 .. Waits : Generation(k)
    BY DEF Inv, InGeneration
  <2>3. place[p] = "new gen"
    BY <2>1 DEF NewGen, BarrierGoto
  <2>4. called[p] = k + 1
    BY <2>2, <2>3 DEF Generation, Placed, Between, Coming, Going
  <2>5. \A q \in Procs \ {p} : place[q] = "spin" /\ called[q] = k + 1
    BY <2>2, <2>3 DEF Generation, AllIn
  <2> QED
    BY <2>3, <2>4, <2>5
<1> QED
  BY <1>1, Invariance, PTL DEF BarrierSpec, GenOnlyWhenWaiting

(* The barrier implements the rendezvous, for any number of threads and    *)
(* meetings: nobody returns from call k before everybody has begun it.     *)
THEOREM BarrierIsRendezvous == BarrierSpec => Abstract!Spec
<1>1. BarrierInit => Abstract!Init
  BY DEF BarrierInit, Abstract!Init
<1>2. Inv /\ [BarrierNext]_bvars => [Abstract!Next]_Abstract!rvars
  <2> SUFFICES ASSUME Inv, [BarrierNext]_bvars PROVE [Abstract!Next]_Abstract!rvars
    OBVIOUS
  <2>1. PICK k \in 0 .. Waits : Generation(k)
    BY DEF Inv, InGeneration
  <2>2. ASSUME NEW p \in Procs, Call(p) PROVE Abstract!Arrive(p)
    <3>1. place[p] = "out"
      BY <2>2 DEF Call, BarrierGoto
    <3>2. called[p] = returned[p]
      BY <3>1, <2>1 DEF Generation, Placed, Between, Coming, Going
    <3> QED
      BY <3>2, <2>2 DEF Call, Abstract!Arrive
  <2>3. ASSUME NEW p \in Procs, Return(p) PROVE Abstract!Leave(p)
    <3>1. place[p] = "return"
      BY <2>3 DEF Return, BarrierGoto
    <3>2. called[p] = k /\ returned[p] = k - 1
      BY <3>1, <2>1 DEF Generation, Placed, Between, Coming, Going
    <3>3. \A q \in Procs : called[q] \in {k, k + 1}
      BY <2>1 DEF Generation, Placed, Between, Coming, Going
    <3>4. returned[p] < called[p] /\ \A q \in Procs : called[q] >= called[p]
      BY <3>2, <3>3
    <3> QED
      BY <3>4, <2>3 DEF Return, Abstract!Leave
  <2>4. ASSUME NEW p \in Procs, Inside(p), ~Return(p) PROVE UNCHANGED <<called, returned>>
    BY <2>4 DEF Inside, ReadGen, Arrive, NewGen, LeaveLast, LetGo, Spin, Leave, ClearFlag
  <2> QED
    BY <2>2, <2>3, <2>4 DEF BarrierNext, bvars, Abstract!Next, Abstract!rvars
<1> QED
  BY <1>1, <1>2, Invariance, PTL DEF BarrierSpec, Abstract!Spec
=============================================================================
