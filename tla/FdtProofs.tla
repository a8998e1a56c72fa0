--------------------------- MODULE FdtProofs --------------------------------
(***************************************************************************)
(* Proofs about changing a device tree in place, for any blobs as          *)
(* compilers deliver them, any names, values and buffers, any offsets and  *)
(* any order of operations: its blocks never overlap, an operation that    *)
(* fails has changed nothing, and one that succeeds does to the tree what  *)
(* its name says.  And about main, which changes its copy of the boot      *)
(* ROM's tree: it can be packed.                                           *)
(***************************************************************************)
EXTENDS FdtBlob, BootMain, FdtReadProofs
-----------------------------------------------------------------------------
(* Layout.  What holds of a blob between operations, and what those of     *)
(* fdt_rw.c find in addition.                                              *)
Sound(t) == t \in Blobs /\ WellLaidOut(t) /\ Terminated(t)

Ordered(t) == /\ HeaderWords <= t.offRsv
              /\ t.offRsv + RsvWords * Len(t.rsv) <= t.offStruct
              /\ t.offStruct + Len(t.struct) <= t.offStrings
              /\ StringsEnd(t) <= t.total

(* What an operation may leave: a sound blob, in order if it was, and      *)
(* after a failure the same.                                               *)
Safe(t, r) == /\ Sound(r.t) /\ (Ordered(t) => Ordered(r.t))
              /\ r.ret < 0 => r.t = t
              /\ r.ret \in Int

LEMMA BlobSizes == ASSUME NEW t \in Blobs
                   PROVE  /\ t.offRsv \in Nat /\ t.offStruct \in Nat /\ t.offStrings \in Nat
                          /\ t.total \in Nat /\ t.rsv \in Seq(Nat) /\ t.struct \in Structs
                          /\ t.strings \in Seq(PropNames)
                          /\ Len(t.rsv) \in Nat /\ Len(t.struct) \in Nat
                          /\ SumWords(t.strings) \in Nat
                          /\ StringsEnd(t) = t.offStrings + SumWords(t.strings)
                          /\ StringsEnd(t) \in Nat
<1>1. /\ t.offRsv \in Nat /\ t.offStruct \in Nat /\ t.offStrings \in Nat
      /\ t.total \in Nat /\ t.rsv \in Seq(Nat) /\ t.struct \in Structs
      /\ t.strings \in Seq(PropNames)
  BY DEF Blobs, Structs
<1>2. Len(t.rsv) \in Nat /\ Len(t.struct) \in Nat
  BY <1>1, LenProperties DEF Structs
<1>3. SumWords(t.strings) \in Nat
  BY <1>1, SumIs
<1> QED
  BY <1>1, <1>2, <1>3 DEF StringsEnd

LEMMA InARow ==
  ASSUME NEW a \in Nat, NEW b \in Nat, NEW c \in Nat, NEW d \in Nat, NEW e \in Nat, NEW f \in Nat,
         NEW g \in Nat, NEW h \in Nat, a <= b, b <= c, c <= d, d <= e, e <= f, f <= g, g <= h,
         NEW B, B = {<<0, a>>, <<b, c>>, <<d, e>>, <<f, g>>, <<h, h + 1>>}
  PROVE  /\ \A x, y \in B : x = y \/ x[2] <= y[1] \/ y[2] <= x[1]
         /\ \A x \in B : x[1] <= h
OBVIOUS

LEMMA OrderedLaidOut == ASSUME NEW t \in Blobs, Ordered(t) PROVE WellLaidOut(t)
<1> DEFINE a == HeaderWords
           b == t.offRsv
           c == t.offRsv + RsvWords * Len(t.rsv)
           d == t.offStruct
           e == t.offStruct + Len(t.struct)
           f == t.offStrings
           g == StringsEnd(t)
           h == t.total
           B == Blocks(t)
<1>1. /\ a \in Nat /\ b \in Nat /\ c \in Nat /\ d \in Nat /\ e \in Nat /\ f \in Nat /\ g \in Nat
      /\ h \in Nat
      /\ a <= b /\ b <= c /\ c <= d /\ d <= e /\ e <= f /\ f <= g /\ g <= h
  <2>1. /\ b \in Nat /\ d \in Nat /\ f \in Nat /\ g \in Nat /\ h \in Nat
        /\ Len(t.rsv) \in Nat /\ Len(t.struct) \in Nat /\ SumWords(t.strings) \in Nat
        /\ g = f + SumWords(t.strings)
    BY BlobSizes
  <2>2. a = 10 /\ c = b + 4 * Len(t.rsv) /\ e = d + Len(t.struct)
    BY DEF HeaderWords, RsvWords
  <2>3. a <= b /\ c <= d /\ e <= f /\ g <= h
    BY DEF Ordered
  <2> HIDE DEF a, b, c, d, e, f, g, h
  <2> QED
    BY SMTT(30), <2>1, <2>2, <2>3
<1>2. B = {<<0, a>>, <<b, c>>, <<d, e>>, <<f, g>>, <<h, h + 1>>}
  BY DEF Blocks
<1> HIDE DEF a, b, c, d, e, f, g, h, B
<1>3. (\A x, y \in B : x = y \/ x[2] <= y[1] \/ y[2] <= x[1]) /\ (\A x \in B : x[1] <= h)
  BY <1>1, <1>2, InARow
<1> QED
  BY <1>3 DEF WellLaidOut, B, h

LEMMA InOrder == ASSUME NEW t, Sound(t), ~Misordered(t, RsvWords) PROVE Ordered(t)
<1> DEFINE r == <<t.offRsv, t.offRsv + RsvWords * Len(t.rsv)>>
           s == <<t.offStruct, t.offStruct + Len(t.struct)>>
<1>1. t \in Blobs /\ WellLaidOut(t)
  BY DEF Sound
<1>2. r \in Blocks(t) /\ s \in Blocks(t)
  BY DEF Blocks
<1>3. r = s \/ r[2] <= s[1] \/ s[2] <= r[1]
  BY <1>1, <1>2 DEF WellLaidOut
<1>4. /\ HeaderWords <= t.offRsv /\ t.offRsv + RsvWords <= t.offStruct
      /\ t.offStruct + Len(t.struct) <= t.offStrings /\ StringsEnd(t) <= t.total
  BY SMTT(30), <1>1, BlobSizes DEF Misordered, HeaderWords, RsvWords
<1>5. t.offRsv + RsvWords * Len(t.rsv) <= t.offStruct
  <2>1. r[1] = t.offRsv /\ r[2] = t.offRsv + RsvWords * Len(t.rsv) /\ s[1] = t.offStruct
        /\ s[2] = t.offStruct + Len(t.struct)
    OBVIOUS
  <2> HIDE DEF r, s
  <2> QED
    BY SMTT(30), <1>1, <1>3, <1>4, <2>1, BlobSizes DEF RsvWords
<1> QED
  BY <1>4, <1>5 DEF Ordered

(* What one blob has for another with blocks of the same size.             *)
LEMMA SameBlocks ==
  ASSUME NEW t, Sound(t), NEW s \in Structs, Len(s) = Len(t.struct)
  PROVE  LET u == [t EXCEPT !.struct = s] IN Sound(u) /\ (Ordered(t) => Ordered(u))
<1> DEFINE u == [t EXCEPT !.struct = s]
<1>1. t \in Blobs /\ WellLaidOut(t) /\ Terminated(t)
  BY DEF Sound
<1>2. /\ u \in Blobs /\ u.struct = s /\ u.offRsv = t.offRsv /\ u.rsv = t.rsv
      /\ u.offStruct = t.offStruct /\ u.offStrings = t.offStrings /\ u.strings = t.strings
      /\ u.total = t.total
  BY <1>1 DEF Blobs, Structs
<1> HIDE DEF u
<1>3. Blocks(u) = Blocks(t)
  BY <1>2 DEF Blocks, StringsEnd
<1>4. WellLaidOut(u) /\ Terminated(u)
  BY <1>1, <1>2, <1>3 DEF WellLaidOut, Terminated
<1>5. Ordered(t) => Ordered(u)
  BY <1>2 DEF Ordered, StringsEnd
<1> QED
  BY <1>2, <1>4, <1>5 DEF Sound, u

-----------------------------------------------------------------------------
(* Splices.                                                                *)
LEMMA SplicedAll ==
  ASSUME NEW S, NEW s \in Seq(S), NEW words \in Seq(S), NEW p \in Nat, NEW old \in Nat,
         p + old <= Len(s)
  PROVE  /\ Spliced(s, p, old, words) \in Seq(S)
         /\ Len(Spliced(s, p, old, words)) = Len(s) - old + Len(words)
         /\ Len(s) \in Nat /\ Len(words) \in Nat
         /\ \A i \in 1 .. p : Spliced(s, p, old, words)[i] = s[i]
         /\ \A i \in 1 .. Len(words) : Spliced(s, p, old, words)[p + i] = words[i]
         /\ \A i \in p + old + 1 .. Len(s) :
              /\ i - old + Len(words) \in 1 .. Len(Spliced(s, p, old, words))
              /\ Spliced(s, p, old, words)[i - old + Len(words)] = s[i]
<1> DEFINE front == SubSeq(s, 1, p)
           back  == SubSeq(s, p + old + 1, Len(s))
<1>1. Len(s) \in Nat /\ Len(words) \in Nat
  BY LenProperties
<1>2. \A i \in 1 .. Len(s) : s[i] \in S
  BY ElementOfSeq
<1>3. front \in Seq(S) /\ Len(front) = p /\ \A i \in 1 .. p : front[i] = s[i]
  <2>1. \A i \in 1 .. p : s[i] \in S
    BY <1>1, <1>2
  <2>2. p - 1 + 1 = p /\ 1 \in Int /\ p \in Int
    OBVIOUS
  <2>3. /\ front \in Seq(S) /\ Len(front) = IF 1 <= p THEN p - 1 + 1 ELSE 0
        /\ \A i \in 1 .. p - 1 + 1 : front[i] = s[1 + i - 1]
    BY <2>1, <2>2, SubSeqProperties
  <2> HIDE DEF front
  <2> QED
    BY <2>3
<1>4. /\ back \in Seq(S) /\ Len(back) = Len(s) - p - old
      /\ \A i \in 1 .. Len(s) - p - old : back[i] = s[i + p + old]
  <2> DEFINE m == p + old + 1
             n == Len(s)
  <2>1. m \in Int /\ n \in Int /\ m - 1 = p + old /\ m >= 1 /\ back = SubSeq(s, m, n)
    BY <1>1
  <2>2. \A i \in m .. n : s[i] \in S
    BY <1>1, <1>2
  <2> HIDE DEF m, n, back
  <2>3. /\ SubSeq(s, m, n) \in Seq(S)
        /\ Len(SubSeq(s, m, n)) = IF m <= n THEN n - m + 1 ELSE 0
        /\ \A i \in 1 .. n - m + 1 : SubSeq(s, m, n)[i] = s[m + i - 1]
    BY SMTT(30), <2>1, <2>2, SubSeqProperties
  <2>4. p + old <= n
    BY DEF n
  <2>5. /\ Len(back) = n - p - old
        /\ \A i \in 1 .. n - p - old : back[i] = s[m + i - 1] /\ m + i - 1 = i + p + old
    BY <2>1, <2>3, <2>4
  <2> QED
    BY <2>1, <2>3, <2>5 DEF n
<1>5. Spliced(s, p, old, words) = front \o words \o back
  BY DEF Spliced
<1> HIDE DEF front, back
<1> DEFINE fw  == front \o words
           all == fw \o back
<1>6. /\ fw \in Seq(S) /\ Len(fw) = Len(front) + Len(words)
      /\ \A i \in 1 .. Len(front) + Len(words) :
           fw[i] = IF i <= Len(front) THEN front[i] ELSE words[i - Len(front)]
  <2>1. front \in Seq(S)
    BY <1>3
  <2> QED
    BY <2>1, ConcatProperties
<1> HIDE DEF fw
<1>7. /\ all \in Seq(S) /\ Len(all) = Len(fw) + Len(back)
      /\ \A i \in 1 .. Len(fw) + Len(back) :
           all[i] = IF i <= Len(fw) THEN fw[i] ELSE back[i - Len(fw)]
  <2>1. fw \in Seq(S)
    BY <1>6
  <2>2. back \in Seq(S)
    BY <1>4
  <2> QED
    BY <2>1, <2>2, ConcatProperties
<1> HIDE DEF all
<1>8. Len(front) = p /\ Len(back) = Len(s) - p - old /\ Len(fw) = p + Len(words)
  BY <1>1, <1>3, <1>4, <1>6
<1>9. /\ all \in Seq(S) /\ Len(all) = Len(s) - old + Len(words)
      /\ \A i \in 1 .. Len(all) : all[i] = IF i <= p + Len(words) THEN fw[i]
                                           ELSE back[i - (p + Len(words))]
  BY <1>1, <1>7, <1>8
<1>10. \A i \in 1 .. p : all[i] = s[i]
  BY <1>1, <1>3, <1>6, <1>8, <1>9
<1>11. ASSUME NEW i \in p + old + 1 .. Len(s)
       PROVE  i - old + Len(words) \in 1 .. Len(all) /\ all[i - old + Len(words)] = s[i]
  <2> DEFINE k == i - old + Len(words)
             j == i - old - p
  <2>1. k \in 1 .. Len(all) /\ ~(k <= p + Len(words)) /\ k - (p + Len(words)) = j
        /\ j \in 1 .. Len(s) - p - old /\ j + p + old = i
    BY <1>1, <1>9
  <2> HIDE DEF k, j
  <2>2. all[k] = back[j] /\ back[j] = s[i]
    BY <1>4, <1>9, <2>1
  <2> QED
    BY <2>1, <2>2 DEF k
<1>12. Spliced(s, p, old, words) = all
  BY <1>5 DEF all, fw
<1>13. ASSUME NEW i \in 1 .. Len(words) PROVE all[p + i] = words[i]
  <2>1. p + i \in 1 .. Len(all) /\ p + i <= p + Len(words) /\ ~(p + i <= p) /\ p + i - p = i
    BY <1>1, <1>9
  <2>2. all[p + i] = fw[p + i]
    BY <1>9, <2>1
  <2>3. fw[p + i] = words[p + i - p]
    BY SMTT(30), <1>1, <1>6, <1>8, <2>1
  <2> QED
    BY <2>1, <2>2, <2>3
<1> QED
  BY <1>1, <1>9, <1>10, <1>11, <1>12, <1>13

LEMMA SplicedRsv ==
  ASSUME NEW s \in Seq(Nat), NEW words \in Seq(Nat), NEW p \in Nat, NEW old \in Nat,
         p + old <= Len(s)
  PROVE  /\ Spliced(s, p, old, words) \in Seq(Nat)
         /\ Len(Spliced(s, p, old, words)) = Len(s) - old + Len(words)
         /\ Len(s) \in Nat /\ Len(words) \in Nat
         /\ \A i \in 1 .. p : Spliced(s, p, old, words)[i] = s[i]
         /\ \A i \in p + old + 1 .. Len(s) :
              /\ i - old + Len(words) \in 1 .. Len(Spliced(s, p, old, words))
              /\ Spliced(s, p, old, words)[i - old + Len(words)] = s[i]
  BY SplicedAll

LEMMA SplicedStruct ==
  ASSUME NEW s \in Seq(BlobWords), NEW words \in Seq(BlobWords), NEW p \in Nat, NEW old \in Nat,
         p + old <= Len(s)
  PROVE  /\ Spliced(s, p, old, words) \in Seq(BlobWords)
         /\ Len(Spliced(s, p, old, words)) = Len(s) - old + Len(words)
         /\ Len(s) \in Nat /\ Len(words) \in Nat
  BY SplicedAll

LEMMA FailSafe == ASSUME NEW t, Sound(t), NEW e \in Int PROVE Safe(t, Fail(e, t))
  BY DEF Safe, Fail

LEMMA SpliceErrIs == ASSUME NEW t \in Blobs, NEW place, NEW old \in Nat, NEW new \in Nat
                     PROVE  /\ SpliceErr(t, place, old, new) \in {0, NOSPACE, BADOFFSET}
                            /\ SpliceErr(t, place, old, new) = 0 => StringsEnd(t) - old + new <= t.total
<1> DEFINE d == StringsEnd(t)
<1>1. d \in Nat /\ t.total \in Nat
  BY BlobSizes
<1>2. SpliceErr(t, place, old, new) = IF old < 0 \/ place + old > d \/ d + new < old THEN BADOFFSET
                                   ELSE IF d - old + new > t.total THEN NOSPACE ELSE 0
  BY DEF SpliceErr
<1> HIDE DEF d
<1> QED
  BY <1>1, <1>2 DEF NOSPACE, BADOFFSET, d

(* A splice of the structure moves the strings along.                      *)
LEMMA SpliceStructOn ==
  ASSUME NEW t, Sound(t), Ordered(t), NEW p \in Nat, NEW old \in Nat, NEW words \in Structs,
         p + old <= Len(t.struct)
  PROVE  LET r == SpliceStruct(t, p, old, words)
         IN  /\ r.ret \in {0, NOSPACE, BADOFFSET} /\ Sound(r.t)
             /\ r.ret # 0 => r = Fail(r.ret, t)
             /\ r.ret = 0 => /\ r = Ok(r.t) /\ Ordered(r.t) /\ r.t.strings = t.strings
                             /\ r.t.struct = Spliced(t.struct, p, old, words)
<1> DEFINE e == SpliceErr(t, t.offStruct + p, old, Len(words))
           s == Spliced(t.struct, p, old, words)
           u == [t EXCEPT !.struct = s, !.offStrings = t.offStrings + Len(words) - old]
           r == SpliceStruct(t, p, old, words)
<1>1. t \in Blobs /\ Terminated(t)
  BY DEF Sound
<1>2. /\ t.offRsv \in Nat /\ t.offStruct \in Nat /\ t.offStrings \in Nat /\ t.total \in Nat
      /\ t.struct \in Seq(BlobWords) /\ Len(t.rsv) \in Nat /\ Len(t.struct) \in Nat
      /\ SumWords(t.strings) \in Nat /\ StringsEnd(t) = t.offStrings + SumWords(t.strings)
  BY <1>1, BlobSizes DEF Structs
<1>3. s \in Seq(BlobWords) /\ Len(s) = Len(t.struct) - old + Len(words) /\ Len(words) \in Nat
  <2>1. t.struct \in Seq(BlobWords) /\ words \in Seq(BlobWords)
    BY <1>2 DEF Structs
  <2> DEFINE x == t.struct
  <2>2. x \in Seq(BlobWords) /\ p + old <= Len(x)
    BY <2>1
  <2> HIDE DEF x
  <2>3. /\ Spliced(x, p, old, words) \in Seq(BlobWords) /\ Len(words) \in Nat
        /\ Len(Spliced(x, p, old, words)) = Len(x) - old + Len(words)
    BY <2>1, <2>2, SplicedStruct
  <2> QED
    BY <2>3 DEF x
<1>4. e \in {0, NOSPACE, BADOFFSET} /\ (e = 0 => StringsEnd(t) - old + Len(words) <= t.total)
  BY <1>1, <1>3, SpliceErrIs
<1>5. r = IF e # 0 THEN Fail(e, t) ELSE Ok(u)
  BY DEF SpliceStruct, SpliceOr
<1>6. ASSUME e = 0 PROVE Sound(u) /\ Ordered(u) /\ u.struct = s /\ u.strings = t.strings
  <2>1. t.offStrings + Len(words) - old \in Nat
    <3>1. t.offStruct + Len(t.struct) <= t.offStrings
      BY DEF Ordered
    <3>2. old <= Len(t.struct)
      BY <1>2
    <3> DEFINE a == t.offStrings
               b == t.offStruct
               n == Len(t.struct)
               k == Len(words)
    <3>3. a \in Nat /\ b \in Nat /\ n \in Nat /\ k \in Nat /\ b + n <= a /\ old <= n
      BY <1>2, <1>3, <3>1, <3>2
    <3> HIDE DEF a, b, n, k
    <3>4. a + k - old \in Nat
      BY <3>3
    <3> QED
      BY <3>4 DEF a, k
  <2>2. /\ u \in Blobs /\ u.struct = s /\ u.offRsv = t.offRsv /\ u.rsv = t.rsv
        /\ u.offStruct = t.offStruct /\ u.offStrings = t.offStrings + Len(words) - old
        /\ u.strings = t.strings /\ u.total = t.total
    <3> HIDE DEF s
    <3> QED
      BY <1>1, <1>3, <2>1 DEF Blobs
  <2> HIDE DEF u, s, e, r
  <2>3. StringsEnd(u) = StringsEnd(t) - old + Len(words)
    BY SMTT(30), <1>2, <1>3, <2>2 DEF StringsEnd
  <2>4. HeaderWords <= u.offRsv /\ u.offRsv + RsvWords * Len(u.rsv) <= u.offStruct
    BY <2>2 DEF Ordered
  <2>5. u.offStruct + Len(u.struct) <= u.offStrings
    <3>1. t.offStruct + Len(t.struct) <= t.offStrings
      BY DEF Ordered
    <3> DEFINE a == t.offStrings
               b == t.offStruct
               n == Len(t.struct)
               k == Len(words)
    <3>2. a \in Nat /\ b \in Nat /\ n \in Nat /\ k \in Nat /\ b + n <= a
      BY <1>2, <1>3, <3>1
    <3>3. u.offStruct = b /\ Len(u.struct) = n - old + k /\ u.offStrings = a + k - old
      BY <1>3, <2>2
    <3> HIDE DEF a, b, n, k
    <3>4. b + (n - old + k) <= a + k - old
      BY <3>2
    <3> QED
      BY <3>3, <3>4
  <2>6. StringsEnd(u) <= u.total
    BY <1>4, <1>6, <2>2, <2>3
  <2>7. Ordered(u)
    BY <2>4, <2>5, <2>6 DEF Ordered
  <2>8. Terminated(u)
    BY <1>1, <2>2 DEF Terminated
  <2> QED
    BY <2>2, <2>7, <2>8, OrderedLaidOut DEF Sound
<1> SUFFICES /\ r.ret \in {0, NOSPACE, BADOFFSET} /\ Sound(r.t)
             /\ r.ret # 0 => r = Fail(r.ret, t)
             /\ r.ret = 0 => /\ r = Ok(r.t) /\ Ordered(r.t) /\ r.t.struct = s
                             /\ r.t.strings = t.strings
  OBVIOUS
<1> HIDE DEF u, s, e, r
<1>7. CASE e = 0
  BY <1>5, <1>6, <1>7 DEF Ok
<1>8. CASE e # 0
  BY <1>4, <1>5, <1>8 DEF Fail
<1> QED
  BY <1>7, <1>8

LEMMA SpliceStructSafe ==
  ASSUME NEW t, Sound(t), Ordered(t), NEW p \in Nat, NEW old \in Nat, NEW words \in Structs,
         p + old <= Len(t.struct)
  PROVE  Safe(t, SpliceStruct(t, p, old, words))
<1> DEFINE r == SpliceStruct(t, p, old, words)
<1>1. /\ Sound(r.t) /\ r.ret \in {0, NOSPACE, BADOFFSET}
      /\ r.ret # 0 => r = Fail(r.ret, t)
      /\ r.ret = 0 => Ordered(r.t)
  BY SpliceStructOn
<1> HIDE DEF r
<1>2. (r.ret < 0 => r.t = t) /\ r.ret \in Int
  BY <1>1, Codes DEF Fail
<1>3. Ordered(r.t)
  BY <1>1 DEF Fail
<1> QED
  BY <1>1, <1>2, <1>3 DEF Safe, r

-----------------------------------------------------------------------------
(* The reserve map.                                                        *)
LEMMA NumRsvIs == ASSUME NEW t \in Blobs, Terminated(t)
                  PROVE  /\ NumRsv(t) \in Nat /\ NumRsv(t) + 1 <= Len(t.rsv) /\ Len(t.rsv) \in Nat
                         /\ t.rsv[NumRsv(t) + 1] = 0
<1> DEFINE S == {n \in 0 .. Len(t.rsv) - 1 : t.rsv[n + 1] = 0}
           First(n) == t.rsv[n + 1] = 0 /\ \A i \in 1 .. n : t.rsv[i] # 0
<1>1. t.rsv \in Seq(Nat) /\ Len(t.rsv) \in Nat
  BY BlobSizes
<1>2. S # {}
  <2>1. PICK i \in DOMAIN t.rsv : t.rsv[i] = 0
    BY DEF Terminated
  <2>2. i \in 1 .. Len(t.rsv)
    BY <1>1, <2>1, LenProperties
  <2>3. i - 1 \in 0 .. Len(t.rsv) - 1 /\ (i - 1) + 1 = i
    BY <1>1, <2>2
  <2> QED
    BY <2>1, <2>3
<1>3. S \in SUBSET Nat
  BY <1>1
<1>4. PICK n \in S : \A j \in S : n <= j
  <2> HIDE DEF S
  <2> QED
    BY <1>2, <1>3, LeastNat
<1>5. n \in 0 .. Len(t.rsv) - 1 /\ t.rsv[n + 1] = 0
  OBVIOUS
<1>6. ASSUME NEW i \in 1 .. n PROVE t.rsv[i] # 0
  <2>1. i - 1 \in 0 .. Len(t.rsv) - 1 /\ ~(n <= i - 1) /\ (i - 1) + 1 = i
    BY <1>1, <1>5
  <2>2. i - 1 \notin S
    BY <1>4, <2>1
  <2> QED
    BY <2>1, <2>2
<1>7. First(n)
  BY <1>5, <1>6
<1>8. NumRsv(t) = CHOOSE k \in 0 .. Len(t.rsv) - 1 : First(k)
  BY DEF NumRsv
<1> HIDE DEF First
<1>9. NumRsv(t) \in 0 .. Len(t.rsv) - 1 /\ First(NumRsv(t))
  BY <1>5, <1>7, <1>8
<1> QED
  BY <1>1, <1>9 DEF First

(* A splice of the reserve map moves structure and strings along.          *)
LEMMA SpliceRsvSafe ==
  ASSUME NEW t, Sound(t), Ordered(t), NEW n \in Nat, NEW old \in Nat, NEW entries \in Seq(Nat),
         n + old <= Len(t.rsv),
         \E i \in 1 .. Len(Spliced(t.rsv, n, old, entries)) : Spliced(t.rsv, n, old, entries)[i] = 0
  PROVE  Safe(t, SpliceRsv(t, n, old, entries))
<1> DEFINE e == SpliceErr(t, t.offRsv + RsvWords * n, RsvWords * old, RsvWords * Len(entries))
           rsv == Spliced(t.rsv, n, old, entries)
           delta == RsvWords * (Len(entries) - old)
           u == [t EXCEPT !.rsv = rsv, !.offStruct = t.offStruct + delta,
                          !.offStrings = t.offStrings + delta]
<1>1. t \in Blobs
  BY DEF Sound
<1>2. /\ t.offRsv \in Nat /\ t.offStruct \in Nat /\ t.offStrings \in Nat /\ t.total \in Nat
      /\ t.rsv \in Seq(Nat) /\ Len(t.rsv) \in Nat /\ Len(t.struct) \in Nat
      /\ SumWords(t.strings) \in Nat /\ StringsEnd(t) = t.offStrings + SumWords(t.strings)
  BY <1>1, BlobSizes
<1>3. rsv \in Seq(Nat) /\ Len(rsv) = Len(t.rsv) - old + Len(entries) /\ Len(entries) \in Nat
  <2> DEFINE x == t.rsv
  <2>1. x \in Seq(Nat) /\ n + old <= Len(x)
    BY <1>2
  <2> HIDE DEF x
  <2>2. /\ Spliced(x, n, old, entries) \in Seq(Nat) /\ Len(entries) \in Nat
        /\ Len(Spliced(x, n, old, entries)) = Len(x) - old + Len(entries)
    BY <2>1, SplicedRsv
  <2> QED
    BY <2>2 DEF x
<1>4. delta = 4 * Len(entries) - 4 * old /\ delta \in Int
  BY <1>3 DEF RsvWords
<1>5. e \in {0, NOSPACE, BADOFFSET} /\ (e = 0 => StringsEnd(t) + delta <= t.total)
  <2>1. RsvWords * old \in Nat /\ RsvWords * Len(entries) \in Nat
    BY <1>3 DEF RsvWords
  <2>2. /\ e \in {0, NOSPACE, BADOFFSET}
        /\ e = 0 => StringsEnd(t) - RsvWords * old + RsvWords * Len(entries) <= t.total
    BY <1>1, <2>1, SpliceErrIs
  <2> HIDE DEF e, delta
  <2>3. e = 0 => StringsEnd(t) - RsvWords * old + RsvWords * Len(entries) <= t.total
    BY <2>2
  <2>4. e = 0 => StringsEnd(t) + delta <= t.total
    <3>1. PICK m \in Nat : m = Len(entries)
      BY <1>3
    <3>2. PICK z \in Nat : z = StringsEnd(t)
      BY <1>1, BlobSizes
    <3>3. e = 0 => z - 4 * old + 4 * m <= t.total
      BY <2>3, <3>1, <3>2 DEF RsvWords
    <3>4. delta = 4 * m - 4 * old
      BY <1>4, <3>1
    <3>5. z - 4 * old + 4 * m <= t.total => z + (4 * m - 4 * old) <= t.total
      BY <1>2
    <3> QED
      BY <3>2, <3>3, <3>4, <3>5
  <2> QED
    BY <2>2, <2>4
<1>6. SpliceRsv(t, n, old, entries) = IF e # 0 THEN Fail(e, t) ELSE Ok(u)
  BY DEF SpliceRsv, SpliceOr
<1>7. ASSUME e = 0 PROVE Sound(u) /\ Ordered(u)
  <2> HIDE DEF e, delta
  <2>1. /\ HeaderWords <= t.offRsv
        /\ t.offRsv + 4 * Len(t.rsv) <= t.offStruct
        /\ t.offStruct + Len(t.struct) <= t.offStrings
    BY DEF Ordered, RsvWords
  <2>2. t.offStruct + delta \in Nat /\ t.offStrings + delta \in Nat
        /\ t.offRsv + 4 * (Len(t.rsv) - old + Len(entries)) <= t.offStruct + delta
        /\ t.offStruct + delta + Len(t.struct) <= t.offStrings + delta
    <3> DEFINE a == t.offStrings
               b == t.offStruct
               c == t.offRsv
               k == Len(t.struct)
               m == Len(t.rsv)
               l == Len(entries)
    <3>1. /\ a \in Nat /\ b \in Nat /\ c \in Nat /\ k \in Nat /\ m \in Nat /\ l \in Nat
          /\ c + 4 * m <= b /\ b + k <= a /\ old <= m /\ delta = 4 * l - 4 * old
      BY SMTT(30), <1>2, <1>3, <1>4, <2>1
    <3> HIDE DEF a, b, c, k, m, l
    <3>2. b + delta \in Nat /\ a + delta \in Nat /\ c + 4 * (m - old + l) <= b + delta
          /\ b + delta + k <= a + delta
      BY <3>1
    <3> QED
      BY <3>2 DEF a, b, c, k, m, l
  <2>3. /\ u \in Blobs /\ u.rsv = rsv /\ u.offRsv = t.offRsv /\ u.struct = t.struct
        /\ u.offStruct = t.offStruct + delta /\ u.offStrings = t.offStrings + delta
        /\ u.strings = t.strings /\ u.total = t.total
    <3> HIDE DEF rsv
    <3> QED
      BY <1>1, <1>3, <2>2 DEF Blobs
  <2>4. Terminated(u)
    <3>1. DOMAIN rsv = 1 .. Len(rsv) /\ \E i \in 1 .. Len(rsv) : rsv[i] = 0
      BY <1>3, LenProperties
    <3> HIDE DEF rsv, u
    <3> QED
      BY <2>3, <3>1 DEF Terminated
  <2> HIDE DEF u, rsv
  <2>5. StringsEnd(u) = StringsEnd(t) + delta
    BY SMTT(30), <1>2, <1>4, <2>3 DEF StringsEnd
  <2>6. Ordered(u)
    <3>1. HeaderWords <= u.offRsv
      BY <2>1, <2>3
    <3>2. u.offRsv + RsvWords * Len(u.rsv) <= u.offStruct
      BY <1>3, <2>2, <2>3 DEF RsvWords
    <3>3. u.offStruct + Len(u.struct) <= u.offStrings
      BY <2>2, <2>3
    <3>4. StringsEnd(u) <= u.total
      BY <1>5, <1>7, <2>3, <2>5
    <3> QED
      BY <3>1, <3>2, <3>3, <3>4 DEF Ordered
  <2> QED
    BY <2>3, <2>4, <2>6, OrderedLaidOut DEF Sound
<1> HIDE DEF u, e
<1>8. CASE e = 0
  BY <1>6, <1>7, <1>8 DEF Ok, Safe
<1>9. CASE e # 0
  <2>1. e \in Int
    BY <1>5, Codes
  <2> QED
    BY <1>6, <1>9, <2>1, FailSafe
<1> QED
  BY <1>8, <1>9

LEMMA AddMemRsvSafe == ASSUME NEW t, Sound(t), Ordered(t), NEW size \in Nat
                       PROVE  Safe(t, FdtAddMemRsv(t, size))
<1> DEFINE n == NumRsv(t)
           rsv == Spliced(t.rsv, n, 0, <<size>>)
<1>1. t \in Blobs /\ Terminated(t)
  BY DEF Sound
<1>2. n \in Nat /\ n + 1 <= Len(t.rsv) /\ Len(t.rsv) \in Nat /\ t.rsv[n + 1] = 0
  BY <1>1, NumRsvIs
<1>3. t.rsv \in Seq(Nat) /\ <<size>> \in Seq(Nat) /\ Len(<<size>>) = 1
  BY <1>1, BlobSizes
<1> HIDE DEF n
<1>4. \E i \in 1 .. Len(rsv) : rsv[i] = 0
  <2>1. \A i \in n + 0 + 1 .. Len(t.rsv) :
          i - 0 + Len(<<size>>) \in 1 .. Len(rsv) /\ rsv[i - 0 + Len(<<size>>)] = t.rsv[i]
    <3> DEFINE x == t.rsv
               y == <<size>>
               z == 0
    <3>1. x \in Seq(Nat) /\ y \in Seq(Nat) /\ n \in Nat /\ z \in Nat /\ n + z <= Len(x)
      BY <1>2, <1>3
    <3> HIDE DEF x, y, z
    <3>2. \A i \in n + z + 1 .. Len(x) :
            /\ i - z + Len(y) \in 1 .. Len(Spliced(x, n, z, y))
            /\ Spliced(x, n, z, y)[i - z + Len(y)] = x[i]
      BY <3>1, SplicedRsv
    <3> QED
      BY <3>2 DEF x, y, z
  <2>2. n + 1 \in n + 0 + 1 .. Len(t.rsv)
    BY <1>2
  <2> HIDE DEF rsv
  <2> QED
    BY <1>2, <2>1, <2>2
<1>5. Safe(t, SpliceRsv(t, n, 0, <<size>>))
  <2>1. 0 \in Nat /\ n + 0 <= Len(t.rsv)
    BY <1>2
  <2> QED
    BY <1>2, <1>3, <1>4, <2>1, SpliceRsvSafe
<1> QED
  BY <1>5 DEF FdtAddMemRsv, n

LEMMA DelMemRsvSafe == ASSUME NEW t, Sound(t), Ordered(t), NEW n \in Nat
                       PROVE  Safe(t, FdtDelMemRsv(t, n))
<1> DEFINE k == NumRsv(t)
           rsv == Spliced(t.rsv, n, 1, <<>>)
<1>1. t \in Blobs /\ Terminated(t)
  BY DEF Sound
<1>2. k \in Nat /\ k + 1 <= Len(t.rsv) /\ Len(t.rsv) \in Nat /\ t.rsv[k + 1] = 0
  BY <1>1, NumRsvIs
<1>3. t.rsv \in Seq(Nat) /\ <<>> \in Seq(Nat) /\ Len(<<>>) = 0
  BY <1>1, BlobSizes
<1>4. FdtDelMemRsv(t, n) = IF n >= k THEN Fail(NOTFOUND, t) ELSE SpliceRsv(t, n, 1, <<>>)
  BY DEF FdtDelMemRsv
<1> HIDE DEF k
<1>5. CASE n >= k
  BY <1>4, <1>5, FailSafe, Codes
<1>6. CASE ~(n >= k)
  <2>1. 1 \in Nat /\ n + 1 <= Len(t.rsv)
    BY <1>2, <1>6
  <2>2. \A i \in n + 1 + 1 .. Len(t.rsv) :
          i - 1 \in 1 .. Len(rsv) /\ rsv[i - 1] = t.rsv[i]
    <3> DEFINE x == t.rsv
               y == <<>>
               z == 1
    <3>1. x \in Seq(Nat) /\ y \in Seq(Nat) /\ z \in Nat /\ n + z <= Len(x)
      BY <1>2, <1>3, <2>1
    <3>5. Len(y) = 0 /\ z = 1 /\ x = t.rsv /\ rsv = Spliced(x, n, z, y)
      BY <1>3
    <3> HIDE DEF x, y, z
    <3>2. \A i \in n + z + 1 .. Len(x) :
            /\ i - z + Len(y) \in 1 .. Len(Spliced(x, n, z, y))
            /\ Spliced(x, n, z, y)[i - z + Len(y)] = x[i]
      BY <3>1, SplicedRsv
    <3> DEFINE sp == Spliced(x, n, z, y)
    <3> HIDE DEF sp, rsv
    <3>3. \A i \in n + z + 1 .. Len(x) : i - z + Len(y) = i - 1
      BY <1>2, <3>1, <3>5
    <3>4. \A i \in n + z + 1 .. Len(x) : i - 1 \in 1 .. Len(sp) /\ sp[i - 1] = x[i]
      BY <3>2, <3>3 DEF sp
    <3> QED
      BY <3>4, <3>5 DEF sp
  <2>3. k + 1 \in n + 1 + 1 .. Len(t.rsv)
    BY <1>2, <1>6
  <2>4. \E i \in 1 .. Len(rsv) : rsv[i] = 0
    <3> HIDE DEF rsv
    <3> QED
      BY <1>2, <2>2, <2>3
  <2>5. Safe(t, SpliceRsv(t, n, 1, <<>>))
    BY <1>3, <2>1, <2>4, SpliceRsvSafe
  <2> QED
    BY <1>4, <1>6, <2>5
<1> QED
  BY <1>5, <1>6

-----------------------------------------------------------------------------
(* Properties.                                                             *)
ValueSeqs == Seq(ValueWords)

LEMMA TagWords == ASSUME NEW k \in Tags PROVE Tag(k) \in BlobWords
  BY DEF Tag, Tags, BlobWords

LEMMA LengthWords == ASSUME NEW k \in Nat PROVE Length(k) \in BlobWords /\ NameOff(k) \in BlobWords
  BY DEF Length, NameOff, BlobWords

LEMMA NameSeq == ASSUME NEW n \in NodeNames
                 PROVE  NameOf(n) \in Structs /\ Len(NameOf(n)) = NameWords[n] /\ NameWords[n] \in Nat
<1>1. NameWords[n] \in Nat
  BY FdtAssumption
<1>2. Name(n) \in BlobWords
  BY DEF Name, BlobWords
<1>3. NameOf(n) \in Seq(BlobWords)
  BY <1>1, <1>2, IsASeq DEF NameOf
<1>4. DOMAIN NameOf(n) = 1 .. NameWords[n]
  BY DEF NameOf
<1> QED
  BY <1>1, <1>3, <1>4, LenProperties DEF Structs

LEMMA CellWords == ASSUME NEW v \in ValueSeqs PROVE v \in Structs /\ Len(v) \in Nat
<1>1. ValueWords \subseteq BlobWords
  BY DEF BlobWords
<1> QED
  BY <1>1, SeqMonotonic, LenProperties DEF ValueSeqs, Structs

LEMMA PropSeq == ASSUME NEW i \in Nat, NEW v \in ValueSeqs PROVE PropWords(i, v) \in Structs
<1> DEFINE head == <<Tag("prop"), Length(Len(v)), NameOff(i)>>
<1>1. Tag("prop") \in BlobWords
  BY TagWords DEF Tags
<1>2. v \in Seq(BlobWords) /\ Len(v) \in Nat
  BY CellWords DEF Structs
<1>3. Length(Len(v)) \in BlobWords /\ NameOff(i) \in BlobWords
  BY <1>2, LengthWords
<1>4. head \in Seq(BlobWords)
  BY <1>1, <1>3
<1> HIDE DEF head
<1>5. head \o v \in Seq(BlobWords)
  BY <1>2, <1>4, ConcatLen
<1> QED
  BY <1>5 DEF PropWords, Structs, head

LEMMA FindAddStringOn ==
  ASSUME NEW t, Sound(t), Ordered(t), NEW name \in PropNames
  PROVE  LET f == FindAddString(t, name)
         IN  /\ f.ret \in Int
             /\ ~(f.ret < 0) => /\ f.ret \in Nat /\ Sound(f.t) /\ Ordered(f.t)
                                /\ f.t.struct = t.struct /\ Knows(f.t, t)
                                /\ f.ret \in DOMAIN f.t.strings /\ f.t.strings[f.ret] = name
<1> DEFINE found == {i \in DOMAIN t.strings : t.strings[i] = name}
           First == CHOOSE i \in found : \A j \in found : i <= j
           e == SpliceErr(t, StringsEnd(t), 0, StringWords[name])
           u == [t EXCEPT !.strings = Append(t.strings, name)]
           f == FindAddString(t, name)
<1>1. t \in Blobs /\ Terminated(t)
  BY DEF Sound
<1>2. /\ t.strings \in Seq(PropNames) /\ Len(t.strings) \in Nat
      /\ SumWords(t.strings) \in Nat /\ StringsEnd(t) = t.offStrings + SumWords(t.strings)
      /\ t.offStrings \in Nat /\ t.total \in Nat
  BY <1>1, BlobSizes, LenProperties
<1>3. f = IF found # {} THEN [ret |-> First, t |-> t]
          ELSE IF e # 0 THEN [ret |-> e, t |-> t]
          ELSE [ret |-> Len(t.strings) + 1, t |-> u]
  <2>1. f = IF found # {} THEN [Ok(t) EXCEPT !.ret = First]
            ELSE IF e # 0 THEN Fail(e, t) ELSE [ret |-> Len(t.strings) + 1, t |-> u]
    BY DEF FindAddString
  <2> HIDE DEF First, f, found, e, u
  <2>2. [Ok(t) EXCEPT !.ret = First] = [ret |-> First, t |-> t]
    BY DEF Ok
  <2> QED
    BY <2>1, <2>2 DEF Fail
<1>4. ASSUME found # {} PROVE First \in Nat /\ First \in found
  <2>1. found \in SUBSET Nat
    BY <1>2, LenProperties
  <2>2. \E i \in found : \A j \in found : i <= j
    <3> HIDE DEF found
    <3> QED
      BY <1>4, <2>1, LeastNat
  <2>3. First \in found
    <3> HIDE DEF found
    <3> QED
      BY <2>2
  <2> HIDE DEF found, First
  <2> QED
    BY <2>1, <2>3
<1>5. e \in {0, NOSPACE, BADOFFSET} /\ StringWords[name] \in Nat
      /\ (e = 0 => StringsEnd(t) - 0 + StringWords[name] <= t.total)
  <2>1. StringWords[name] \in Nat
    BY FdtAssumption
  <2> QED
    BY <1>1, <2>1, SpliceErrIs
<1>10. ASSUME found # {} PROVE First \in DOMAIN t.strings /\ t.strings[First] = name
  <2>1. First \in found
    BY <1>4, <1>10
  <2> HIDE DEF First
  <2> QED
    BY <2>1
<1>11. Knows(u, t) /\ Len(t.strings) + 1 \in DOMAIN u.strings /\ u.strings[Len(t.strings) + 1] = name
  <2>1. u.strings = Append(t.strings, name)
    BY <1>1 DEF Blobs
  <2> PICK w \in Seq(PropNames) : w = t.strings
    BY <1>2
  <2>2. /\ Len(Append(w, name)) = Len(w) + 1 /\ DOMAIN Append(w, name) = 1 .. Len(w) + 1
        /\ DOMAIN w = 1 .. Len(w) /\ Len(w) \in Nat
        /\ \A i \in 1 .. Len(w) : Append(w, name)[i] = w[i]
        /\ Append(w, name)[Len(w) + 1] = name
    BY AppendProperties, LenProperties
  <2> HIDE DEF u
  <2> QED
    BY <2>1, <2>2 DEF Knows
<1>12. Knows(t, t)
  BY DEF Knows
<1>6. ASSUME e = 0 PROVE Sound(u) /\ Ordered(u) /\ u.struct = t.struct
  <2>1. Append(t.strings, name) \in Seq(PropNames)
    BY <1>2
  <2>2. /\ u \in Blobs /\ u.rsv = t.rsv /\ u.offRsv = t.offRsv /\ u.struct = t.struct
        /\ u.offStruct = t.offStruct /\ u.offStrings = t.offStrings
        /\ u.strings = Append(t.strings, name) /\ u.total = t.total
    BY <1>1, <2>1 DEF Blobs
  <2> HIDE DEF u, e
  <2>3. SumWords(u.strings) = SumWords(t.strings) + StringWords[name]
    BY <1>2, <2>2, SumAppend
  <2>4. StringsEnd(u) <= u.total
    BY <1>2, <1>5, <1>6, <2>2, <2>3 DEF StringsEnd
  <2>5. Ordered(u)
    BY <2>2, <2>4 DEF Ordered
  <2>6. Terminated(u)
    BY <1>1, <2>2 DEF Terminated
  <2> QED
    BY <2>2, <2>5, <2>6, OrderedLaidOut DEF Sound
<1> SUFFICES /\ f.ret \in Int
             /\ ~(f.ret < 0) => /\ f.ret \in Nat /\ Sound(f.t) /\ Ordered(f.t)
                                /\ f.t.struct = t.struct /\ Knows(f.t, t)
                                /\ f.ret \in DOMAIN f.t.strings /\ f.t.strings[f.ret] = name
  OBVIOUS
<1> HIDE DEF f, u, e, First, found
<1>7. CASE found # {}
  BY <1>3, <1>4, <1>7, <1>10, <1>12
<1>8. CASE found = {} /\ e = 0
  BY <1>2, <1>3, <1>6, <1>8, <1>11
<1>9. CASE found = {} /\ e # 0
  BY <1>3, <1>5, <1>9, Codes
<1> QED
  BY <1>7, <1>8, <1>9

LEMMA AddPropertySafe ==
  ASSUME NEW t, Sound(t), Ordered(t), NEW o \in Int, NEW name \in PropNames, NEW v \in ValueSeqs
  PROVE  Safe(t, AddProperty(t, o, name, v))
<1> DEFINE first == CheckTag(t.struct, o, "begin")
           str == FindAddString(t, name)
           r   == SpliceStruct(str.t, first, 0, PropWords(str.ret, v))
<1>1. AddProperty(t, o, name, v) = IF first < 0 THEN Fail(first, t)
                                   ELSE IF str.ret < 0 THEN Fail(str.ret, t)
                                   ELSE IF r.ret < 0 THEN Fail(r.ret, t) ELSE r
  BY DEF AddProperty
<1>2. t \in Blobs /\ t.struct \in Structs
  BY BlobSizes DEF Sound
<1>3. first \in Int /\ (first >= 0 => first <= Len(t.struct)) /\ Len(t.struct) \in Nat
  BY <1>2, CheckTagOn, StructLegible, BlobSizes
<1>4. /\ str.ret \in Int
      /\ ~(str.ret < 0) => str.ret \in Nat /\ Sound(str.t) /\ Ordered(str.t) /\ str.t.struct = t.struct
  BY FindAddStringOn
<1> HIDE DEF first, str
<1>5. CASE first < 0 \/ str.ret < 0
  BY <1>1, <1>3, <1>4, <1>5, FailSafe
<1>6. CASE ~(first < 0) /\ ~(str.ret < 0)
  <2>1. PropWords(str.ret, v) \in Structs
    BY <1>4, <1>6, PropSeq
  <2>2. 0 \in Nat /\ first \in Nat /\ first + 0 <= Len(str.t.struct)
    BY <1>3, <1>4, <1>6
  <2>3. Safe(str.t, r)
    BY <1>4, <1>6, <2>1, <2>2, SpliceStructSafe
  <2> HIDE DEF r
  <2>4. Sound(r.t) /\ Ordered(r.t) /\ r.ret \in Int
    BY <1>4, <1>6, <2>3 DEF Safe
  <2>5. CASE r.ret < 0
    BY <1>1, <1>6, <2>4, <2>5, FailSafe
  <2>6. CASE ~(r.ret < 0)
    BY <1>1, <1>6, <2>4, <2>6 DEF Safe
  <2> QED
    BY <2>5, <2>6
<1> QED
  BY <1>5, <1>6

(* A property that is found lies in the structure as a whole.              *)
LEMMA PropFits ==
  ASSUME NEW t, t.struct \in Structs, NEW p \in Int, p >= 0, NextTag(t.struct, p).tag = "prop"
  PROVE  /\ p \in Nat /\ PropLen(t, p) \in Nat /\ p + 3 + PropLen(t, p) <= Len(t.struct)
         /\ Len(t.struct) \in Nat
<1> DEFINE s == t.struct
           w == NextTag(s, p)
<1>1. /\ w.tag = "prop" /\ w.next \in Int /\ Len(s) \in Nat /\ (w.next < 0 => w.tag = "end")
      /\ w.next >= 0 => TagAt(s, p, w)
  BY NextTagOn, StructLegible
<1>2. PropLen(t, p) = s[p + 2][2]
  BY DEF PropLen
<1> HIDE DEF w
<1>3. TagAt(s, p, w)
  BY <1>1
<1>4. s[p + 2][2] \in Nat /\ w.next = p + 3 + s[p + 2][2] /\ w.next <= Len(s)
  BY <1>1, <1>3 DEF TagAt
<1> QED
  BY <1>1, <1>2, <1>4

LEMMA ResizeSafe ==
  ASSUME NEW t, Sound(t), Ordered(t), NEW p \in Int, p >= 0, NextTag(t.struct, p).tag = "prop",
         NEW v \in Structs
  PROVE  Safe(t, Resize(t, p, v))
<1> DEFINE old == PropLen(t, p)
           r == SpliceStruct(t, p + 3, old, v)
           x == Length(Len(v))
<1>1. t.struct \in Structs /\ Len(v) \in Nat
  BY BlobSizes, LenProperties DEF Sound, Structs
<1>2. p \in Nat /\ old \in Nat /\ p + 3 + old <= Len(t.struct) /\ Len(t.struct) \in Nat
  BY <1>1, PropFits
<1>3. p + 3 \in Nat /\ (p + 3) + old <= Len(t.struct)
  BY <1>2
<1> HIDE DEF old
<1>4. /\ r.ret \in {0, NOSPACE, BADOFFSET} /\ Sound(r.t)
      /\ r.ret # 0 => r = Fail(r.ret, t)
      /\ r.ret = 0 => r = Ok(r.t) /\ Ordered(r.t) /\ r.t.struct = Spliced(t.struct, p + 3, old, v)
  BY <1>2, <1>3, SpliceStructOn
<1>5. Resize(t, p, v) = IF r.ret < 0 THEN r ELSE [r EXCEPT !.t.struct[p + 2] = x]
  BY DEF Resize, old
<1>6. x \in BlobWords
  BY <1>1, LengthWords
<1>7. CASE r.ret # 0
  <2> HIDE DEF r
  <2>1. r.ret < 0
    BY <1>4, <1>7, Codes
  <2> QED
    BY <1>4, <1>5, <1>7, <2>1, FailSafe, Codes
<1>8. CASE r.ret = 0
  <2> DEFINE u == r.t
             s == u.struct
             s2 == [s EXCEPT ![p + 2] = x]
  <2>1. s \in Seq(BlobWords) /\ Len(s) = Len(t.struct) - old + Len(v)
    <3> DEFINE y == t.struct
               q == p + 3
    <3>1. /\ y \in Seq(BlobWords) /\ v \in Seq(BlobWords) /\ q \in Nat /\ old \in Nat
          /\ q + old <= Len(y)
      BY <1>1, <1>2, <1>3 DEF Structs
    <3>2. s = Spliced(y, q, old, v)
      BY <1>4, <1>8
    <3> HIDE DEF y, q, r, s
    <3>3. Spliced(y, q, old, v) \in Seq(BlobWords) /\ Len(Spliced(y, q, old, v)) = Len(y) - old + Len(v)
      BY <3>1, SplicedStruct
    <3> QED
      BY <3>2, <3>3 DEF y
  <2>2. p + 2 \in 1 .. Len(s)
    <3> HIDE DEF s
    <3> QED
      BY <1>1, <1>2, <2>1
  <2> HIDE DEF r
  <2>3. s2 \in Seq(BlobWords) /\ Len(s2) = Len(s)
    <3> HIDE DEF s, x
    <3>1. s2 \in Seq(BlobWords)
      BY <1>6, <2>1, <2>2, ExceptSeq
    <3>2. DOMAIN s2 = DOMAIN s
      OBVIOUS
    <3> QED
      BY <2>1, <3>1, <3>2, LenProperties
  <2>4. Sound([u EXCEPT !.struct = s2]) /\ Ordered([u EXCEPT !.struct = s2])
    <3>1. Sound(u) /\ Ordered(u) /\ s2 \in Structs /\ Len(s2) = Len(u.struct)
      BY <1>4, <1>8, <2>3 DEF Structs
    <3> HIDE DEF u, s, s2
    <3> QED
      BY <3>1, SameBlocks
  <2>5. [r EXCEPT !.t.struct[p + 2] = x] = [ret |-> 0, t |-> [u EXCEPT !.struct = s2]]
    <3>1. r = [ret |-> 0, t |-> u]
      BY <1>4, <1>8 DEF Ok
    <3> QED
      BY <3>1
  <2>6. Resize(t, p, v) = [ret |-> 0, t |-> [u EXCEPT !.struct = s2]]
    BY <1>5, <1>8, <2>5
  <2> HIDE DEF u, s, s2
  <2> QED
    BY <2>4, <2>6 DEF Safe
<1> QED
  BY <1>7, <1>8

-----------------------------------------------------------------------------
(* The operations of fdt_rw.c on properties.                               *)
LEMMA SetPropSafe ==
  ASSUME NEW t, Sound(t), Ordered(t), NEW o \in Int, NEW name \in PropNames, NEW v \in ValueSeqs
  PROVE  Safe(t, FdtSetProp(t, o, name, v))
<1> DEFINE p == PropOffset(t, o, name)
<1>1. t.struct \in Structs /\ v \in Structs
  BY BlobSizes, CellWords DEF Sound
<1>2. p \in Int /\ (p >= 0 => NextTag(t.struct, p).tag = "prop")
  BY <1>1, PropOffsetOn, StructLegible
<1>3. FdtSetProp(t, o, name, v) = IF p >= 0 THEN Resize(t, p, v)
                                  ELSE IF p = NOTFOUND THEN AddProperty(t, o, name, v)
                                  ELSE Fail(p, t)
  BY DEF FdtSetProp
<1> HIDE DEF p
<1>4. p >= 0 => Safe(t, Resize(t, p, v))
  BY <1>1, <1>2, ResizeSafe
<1>5. Safe(t, AddProperty(t, o, name, v)) /\ Safe(t, Fail(p, t))
  BY <1>2, AddPropertySafe, FailSafe
<1> QED
  BY <1>3, <1>4, <1>5

LEMMA AppendPropSafe ==
  ASSUME NEW t, Sound(t), Ordered(t), NEW o \in Int, NEW name \in PropNames, NEW v \in ValueSeqs
  PROVE  Safe(t, FdtAppendProp(t, o, name, v))
<1> DEFINE p == PropOffset(t, o, name)
           whole == PropValue(t, p) \o v
<1>1. t.struct \in Structs /\ v \in Structs
  BY BlobSizes, CellWords DEF Sound
<1>2. p \in Int /\ (p >= 0 => NextTag(t.struct, p).tag = "prop")
  BY <1>1, PropOffsetOn, StructLegible
<1>3. FdtAppendProp(t, o, name, v) = IF p >= 0 THEN Resize(t, p, whole)
                                     ELSE AddProperty(t, o, name, v)
  BY DEF FdtAppendProp
<1> HIDE DEF p
<1>4. ASSUME p >= 0 PROVE Safe(t, Resize(t, p, whole))
  <2>1. p \in Nat /\ PropLen(t, p) \in Nat /\ p + 3 + PropLen(t, p) <= Len(t.struct)
        /\ Len(t.struct) \in Nat
    BY <1>1, <1>2, <1>4, PropFits
  <2> DEFINE m == p + 4
             n == p + 3 + PropLen(t, p)
             s == t.struct
  <2>2. m \in Int /\ n \in Int /\ \A i \in m .. n : i \in 1 .. Len(s)
    BY <2>1
  <2>3. \A i \in m .. n : s[i] \in BlobWords
    BY <1>1, <2>2, ElementOfSeq DEF Structs
  <2>4. PropValue(t, p) = SubSeq(s, m, n)
    BY DEF PropValue
  <2> HIDE DEF m, n, s
  <2>5. SubSeq(s, m, n) \in Seq(BlobWords)
    BY <2>2, <2>3, SubSeqProperties
  <2>6. whole \in Structs
    BY <1>1, <2>4, <2>5, ConcatLen DEF Structs
  <2> HIDE DEF whole
  <2> QED
    BY <1>2, <1>4, <2>6, ResizeSafe
<1>5. Safe(t, AddProperty(t, o, name, v))
  BY AddPropertySafe
<1> HIDE DEF whole
<1> QED
  BY <1>3, <1>4, <1>5

LEMMA NoWords == <<>> \in Structs /\ Len(<<>>) = 0
  BY DEF Structs

LEMMA DelPropSafe ==
  ASSUME NEW t, Sound(t), Ordered(t), NEW o \in Int, NEW name \in PropNames
  PROVE  Safe(t, FdtDelProp(t, o, name))
<1> DEFINE p == PropOffset(t, o, name)
           n == 3 + PropLen(t, p)
<1>1. t.struct \in Structs
  BY BlobSizes DEF Sound
<1>2. p \in Int /\ (p >= 0 => NextTag(t.struct, p).tag = "prop")
  BY <1>1, PropOffsetOn, StructLegible
<1>3. FdtDelProp(t, o, name) = IF p < 0 THEN Fail(p, t) ELSE SpliceStruct(t, p, n, <<>>)
  BY DEF FdtDelProp
<1> HIDE DEF p
<1>4. ASSUME ~(p < 0) PROVE Safe(t, SpliceStruct(t, p, n, <<>>))
  <2>1. p \in Nat /\ PropLen(t, p) \in Nat /\ p + 3 + PropLen(t, p) <= Len(t.struct)
        /\ Len(t.struct) \in Nat
    BY <1>1, <1>2, <1>4, PropFits
  <2>2. n \in Nat /\ p + n <= Len(t.struct)
    BY <2>1
  <2> HIDE DEF n
  <2> QED
    BY <2>1, <2>2, NoWords, SpliceStructSafe
<1> QED
  BY <1>2, <1>3, <1>4, FailSafe, Codes

-----------------------------------------------------------------------------
(* The operations of fdt_rw.c on nodes.                                    *)
LEMMA SetNameSafe ==
  ASSUME NEW t, Sound(t), Ordered(t), NEW o \in Int, NEW name \in NodeNames
  PROVE  Safe(t, FdtSetName(t, o, name))
<1> DEFINE next == CheckTag(t.struct, o, "begin")
           w    == NextTag(t.struct, o)
           old  == NameWords[t.struct[o + 2][2]]
<1>1. t.struct \in Structs
  BY BlobSizes DEF Sound
<1>2. FdtSetName(t, o, name) = IF next < 0 THEN Fail(next, t)
                               ELSE SpliceStruct(t, o + 1, old, NameOf(name))
  BY DEF FdtSetName
<1>3. /\ next \in Int
      /\ next >= 0 => /\ w.tag = "begin" /\ TagAt(t.struct, o, w) /\ next = w.next
                      /\ o >= 0 /\ next <= Len(t.struct)
  BY <1>1, CheckTagOn, StructLegible
<1> HIDE DEF next, w
<1>4. ASSUME ~(next < 0) PROVE Safe(t, SpliceStruct(t, o + 1, old, NameOf(name)))
  <2>1. old \in Nat /\ w.next = o + 1 + old
    BY <1>3, <1>4 DEF TagAt
  <2>2. o + 1 \in Nat /\ (o + 1) + old <= Len(t.struct)
    BY <1>3, <1>4, <2>1
  <2> HIDE DEF old
  <2> QED
    BY <2>1, <2>2, NameSeq, SpliceStructSafe
<1> QED
  BY <1>2, <1>3, <1>4, FailSafe

LEMMA AddSubnodeSafe ==
  ASSUME NEW t, Sound(t), Ordered(t), NEW o \in Int, NEW name \in NodeNames
  PROVE  Safe(t, FdtAddSubnode(t, o, name))
<1> DEFINE child == SubnodeOffset(t.struct, o, name)
           w  == NextTag(t.struct, o)
           place == AfterProps(t.struct, o)
           r  == SpliceStruct(t, place, 0, NodeWords(name))
           placed == IF r.ret < 0 THEN r ELSE [r EXCEPT !.ret = place]
<1>1. t.struct \in Structs
  BY BlobSizes DEF Sound
<1>2. FdtAddSubnode(t, o, name) = IF child >= 0 THEN Fail(EXISTS, t)
                                  ELSE IF child # NOTFOUND THEN Fail(child, t)
                                  ELSE IF w.tag # "begin" THEN Fail(INTERNAL, t)
                                  ELSE placed
  BY DEF FdtAddSubnode
<1>3. ASSUME w.tag = "begin" PROVE Safe(t, placed)
  <2>1. /\ w.next \in Int /\ (w.next < 0 => w.tag = "end") /\ Len(t.struct) \in Nat
        /\ w.next >= 0 => w.next <= Len(t.struct)
    BY <1>1, NextTagOn, StructLegible
  <2>2. place = Skip(t.struct, w.next, {"prop", "nop"})
    BY DEF AfterProps
  <2> HIDE DEF w, place
  <2>3. w.next \in 0 .. Len(t.struct)
    BY <1>3, <2>1
  <2>4. place \in w.next .. Len(t.struct)
    BY <1>1, <2>1, <2>2, <2>3, SkipOn, StructLegible
  <2>5. 0 \in Nat /\ place \in Nat /\ place + 0 <= Len(t.struct)
    BY <2>1, <2>3, <2>4
  <2>6. NodeWords(name) \in Structs
    <3>1. <<Tag("begin")>> \in Seq(BlobWords) /\ <<Tag("endnode")>> \in Seq(BlobWords)
      BY TagWords DEF Tags
    <3>2. NameOf(name) \in Seq(BlobWords)
      BY NameSeq DEF Structs
    <3>3. <<Tag("begin")>> \o NameOf(name) \in Seq(BlobWords)
      BY <3>1, <3>2, ConcatLen
    <3>4. <<Tag("begin")>> \o NameOf(name) \o <<Tag("endnode")>> \in Seq(BlobWords)
      BY <3>1, <3>3, ConcatLen
    <3> QED
      BY <3>4 DEF NodeWords, Structs
  <2>7. /\ r.ret \in {0, NOSPACE, BADOFFSET} /\ Sound(r.t)
        /\ r.ret # 0 => r = Fail(r.ret, t)
        /\ r.ret = 0 => r = Ok(r.t) /\ Ordered(r.t)
    BY <2>5, <2>6, SpliceStructOn
  <2> HIDE DEF r
  <2>8. CASE r.ret # 0
    <3>1. r.ret < 0
      BY <2>7, <2>8, Codes
    <3> QED
      BY <2>7, <2>8, <3>1, FailSafe, Codes
  <2>9. CASE r.ret = 0
    <3>1. placed = [r EXCEPT !.ret = place] /\ r = [ret |-> 0, t |-> r.t]
      BY <2>7, <2>9 DEF Ok
    <3> HIDE DEF placed
    <3>2. placed.t = r.t /\ placed.ret = place
      BY <3>1
    <3> QED
      BY <2>5, <2>7, <2>9, <3>2 DEF Safe
  <2> QED
    BY <2>8, <2>9
<1>4. child \in Int
  BY <1>1, SubnodeOn, StructLegible
<1> HIDE DEF child, w, placed
<1> QED
  BY <1>2, <1>3, <1>4, FailSafe, Codes

LEMMA DelNodeSafe ==
  ASSUME NEW t, Sound(t), Ordered(t), NEW o \in Int
  PROVE  Safe(t, FdtDelNode(t, o))
<1> DEFINE end == NodeEnd(t.struct, o)
           n == end - o
<1>1. t.struct \in Structs /\ Len(t.struct) \in Nat
  BY BlobSizes DEF Sound
<1>2. end \in Int /\ (end >= 0 => o >= 0 /\ o <= end /\ end <= Len(t.struct))
  BY <1>1, NodeEndOn, StructLegible
<1>3. FdtDelNode(t, o) = IF end < 0 THEN Fail(end, t) ELSE SpliceStruct(t, o, n, <<>>)
  BY DEF FdtDelNode
<1> HIDE DEF end
<1>4. ASSUME ~(end < 0) PROVE Safe(t, SpliceStruct(t, o, n, <<>>))
  <2>1. o \in Nat /\ n \in Nat /\ o + n <= Len(t.struct)
    BY <1>1, <1>2, <1>4
  <2> HIDE DEF n
  <2> QED
    BY <2>1, NoWords, SpliceStructSafe
<1> QED
  BY <1>2, <1>3, <1>4, FailSafe, Codes

-----------------------------------------------------------------------------
(* The operations of fdt_wip.c, which move nothing and need no order.      *)
LEMMA SameLength ==
  ASSUME NEW t, Sound(t), NEW p \in Nat, NEW words \in Structs, p + Len(words) <= Len(t.struct)
  PROVE  Safe(t, Ok([t EXCEPT !.struct = Spliced(t.struct, p, Len(words), words)]))
<1> DEFINE s == t.struct
           n == Len(words)
<1>1. s \in Seq(BlobWords) /\ words \in Seq(BlobWords) /\ n \in Nat /\ p + n <= Len(s) /\ Len(s) \in Nat
  BY BlobSizes, LenProperties DEF Sound, Structs
<1>2. Spliced(s, p, n, words) \in Seq(BlobWords) /\ Len(Spliced(s, p, n, words)) = Len(s) - n + Len(words)
  <2>1. s \in Seq(BlobWords) /\ words \in Seq(BlobWords) /\ n \in Nat /\ p + n <= Len(s)
    BY <1>1
  <2> HIDE DEF s, n
  <2> QED
    BY <2>1, SplicedStruct
<1> DEFINE s2 == Spliced(s, p, n, words)
<1>3. s2 \in Structs /\ Len(s2) = Len(t.struct)
  <2>1. s2 \in Seq(BlobWords) /\ Len(s2) = Len(s) - n + n
    BY <1>2
  <2>2. Len(s) - n + n = Len(s)
    <3> HIDE DEF s, n
    <3> QED
      BY <1>1
  <2> HIDE DEF s2
  <2> QED
    BY <2>1, <2>2 DEF Structs
<1> HIDE DEF s2
<1>4. Sound([t EXCEPT !.struct = s2]) /\ (Ordered(t) => Ordered([t EXCEPT !.struct = s2]))
  BY <1>3, SameBlocks
<1> QED
  BY <1>4 DEF Safe, Ok, s2

LEMMA InplaceSafe ==
  ASSUME NEW t, Sound(t), NEW o \in Int, NEW name \in PropNames, NEW v \in ValueSeqs
  PROVE  Safe(t, FdtSetPropInplace(t, o, name, v))
<1> DEFINE p == PropOffset(t, o, name)
           r == Ok([t EXCEPT !.struct = Spliced(t.struct, p + 3, Len(v), v)])
<1>1. t.struct \in Structs /\ v \in Structs
  BY BlobSizes, CellWords DEF Sound
<1>2. p \in Int /\ (p >= 0 => NextTag(t.struct, p).tag = "prop")
  BY <1>1, PropOffsetOn, StructLegible
<1>3. FdtSetPropInplace(t, o, name, v) = IF p < 0 THEN Fail(p, t)
                                         ELSE IF PropLen(t, p) # Len(v) THEN Fail(NOSPACE, t)
                                         ELSE r
  BY DEF FdtSetPropInplace
<1> HIDE DEF p
<1>4. ASSUME ~(p < 0), PropLen(t, p) = Len(v) PROVE Safe(t, r)
  <2>1. p \in Nat /\ PropLen(t, p) \in Nat /\ p + 3 + PropLen(t, p) <= Len(t.struct)
        /\ Len(t.struct) \in Nat
    BY <1>1, <1>2, <1>4, PropFits
  <2>2. p + 3 \in Nat /\ (p + 3) + Len(v) <= Len(t.struct)
    BY <1>4, <2>1
  <2> QED
    BY <1>1, <2>2, SameLength
<1> HIDE DEF r
<1> QED
  BY <1>2, <1>3, <1>4, FailSafe, Codes

LEMMA NopRegionSafe ==
  ASSUME NEW t, Sound(t), NEW p \in Nat, NEW n \in Nat, p + n <= Len(t.struct)
  PROVE  Safe(t, NopRegion(t, p, n))
<1> DEFINE nops == [i \in 1 .. n |-> Tag("nop")]
<1>1. Tag("nop") \in BlobWords
  BY TagWords DEF Tags
<1>2. nops \in Seq(BlobWords)
  BY <1>1, IsASeq
<1>3. DOMAIN nops = 1 .. n
  OBVIOUS
<1> HIDE DEF nops
<1>4. Len(nops) = n /\ nops \in Structs
  BY <1>2, <1>3, LenProperties DEF Structs
<1>5. NopRegion(t, p, n) = Ok([t EXCEPT !.struct = Spliced(t.struct, p, n, nops)])
  BY DEF NopRegion, nops
<1> QED
  BY <1>4, <1>5, SameLength

LEMMA NopPropertySafe ==
  ASSUME NEW t, Sound(t), NEW o \in Int, NEW name \in PropNames
  PROVE  Safe(t, FdtNopProperty(t, o, name))
<1> DEFINE p == PropOffset(t, o, name)
           n == 3 + PropLen(t, p)
<1>1. t.struct \in Structs
  BY BlobSizes DEF Sound
<1>2. p \in Int /\ (p >= 0 => NextTag(t.struct, p).tag = "prop")
  BY <1>1, PropOffsetOn, StructLegible
<1>3. FdtNopProperty(t, o, name) = IF p < 0 THEN Fail(p, t) ELSE NopRegion(t, p, n)
  BY DEF FdtNopProperty
<1> HIDE DEF p
<1>4. ASSUME ~(p < 0) PROVE Safe(t, NopRegion(t, p, n))
  <2>1. p \in Nat /\ PropLen(t, p) \in Nat /\ p + 3 + PropLen(t, p) <= Len(t.struct)
        /\ Len(t.struct) \in Nat
    BY <1>1, <1>2, <1>4, PropFits
  <2>2. n \in Nat /\ p + n <= Len(t.struct)
    BY <2>1
  <2> HIDE DEF n
  <2> QED
    BY <2>1, <2>2, NopRegionSafe
<1> QED
  BY <1>2, <1>3, <1>4, FailSafe, Codes

LEMMA NopNodeSafe ==
  ASSUME NEW t, Sound(t), NEW o \in Int PROVE Safe(t, FdtNopNode(t, o))
<1> DEFINE end == NodeEnd(t.struct, o)
           n == end - o
<1>1. t.struct \in Structs /\ Len(t.struct) \in Nat
  BY BlobSizes DEF Sound
<1>2. end \in Int /\ (end >= 0 => o >= 0 /\ o <= end /\ end <= Len(t.struct))
  BY <1>1, NodeEndOn, StructLegible
<1>3. FdtNopNode(t, o) = IF end < 0 THEN Fail(end, t) ELSE NopRegion(t, o, n)
  BY DEF FdtNopNode
<1> HIDE DEF end
<1>4. ASSUME ~(end < 0) PROVE Safe(t, NopRegion(t, o, n))
  <2>1. o \in Nat /\ n \in Nat /\ o + n <= Len(t.struct)
    BY <1>1, <1>2, <1>4
  <2> HIDE DEF n
  <2> QED
    BY <2>1, NopRegionSafe
<1> QED
  BY <1>2, <1>3, <1>4, FailSafe, Codes

-----------------------------------------------------------------------------
(* Packing and opening.                                                    *)
LEMMA OrderedSound == ASSUME NEW t \in Blobs, Terminated(t), Ordered(t) PROVE Sound(t)
  BY OrderedLaidOut DEF Sound

(* Packed blocks are in order in any blob that has room for them.          *)
LEMMA PackedSound ==
  ASSUME NEW t, Sound(t)
  PROVE  /\ StringsEnd(Packed(t)) \in Nat
         /\ \A size \in Nat :
              LET u == [Packed(t) EXCEPT !.total = size]
              IN  StringsEnd(Packed(t)) <= size
                    => Sound(u) /\ Ordered(u) /\ StringsEnd(u) = StringsEnd(Packed(t))
<1> DEFINE n == NumRsv(t) + 1
           rsv == SubSeq(t.rsv, 1, n)
           p == Packed(t)
<1>1. t \in Blobs /\ Terminated(t)
  BY DEF Sound
<1>2. n \in Nat /\ n >= 1 /\ n <= Len(t.rsv) /\ Len(t.rsv) \in Nat /\ t.rsv[n] = 0
  BY <1>1, NumRsvIs
<1>3. /\ t.rsv \in Seq(Nat) /\ Len(t.struct) \in Nat /\ t.struct \in Structs
      /\ t.strings \in Seq(PropNames) /\ SumWords(t.strings) \in Nat
  BY <1>1, BlobSizes
<1>4. p = [t EXCEPT !.offRsv = HeaderWords, !.rsv = SubSeq(t.rsv, 1, n),
                    !.offStruct = HeaderWords + RsvWords * n,
                    !.offStrings = HeaderWords + RsvWords * n + Len(t.struct)]
  BY DEF Packed
<1> HIDE DEF n, p
<1>5. rsv \in Seq(Nat) /\ Len(rsv) = n /\ rsv[n] = 0
  <2>1. 1 \in Int /\ n \in Int /\ 1 <= n /\ n - 1 + 1 = n /\ n \in 1 .. n
    BY <1>2
  <2>2. \A i \in 1 .. n : t.rsv[i] \in Nat
    BY <1>2, <1>3, ElementOfSeq
  <2>3. /\ rsv \in Seq(Nat) /\ Len(rsv) = IF 1 <= n THEN n - 1 + 1 ELSE 0
        /\ \A i \in 1 .. n - 1 + 1 : rsv[i] = t.rsv[1 + i - 1]
    BY <2>1, <2>2, SubSeqProperties
  <2> HIDE DEF rsv
  <2> QED
    BY <1>2, <2>1, <2>3
<1> DEFINE a == HeaderWords + RsvWords * n
           b == HeaderWords + RsvWords * n + Len(t.struct)
<1>6. a \in Nat /\ b \in Nat /\ HeaderWords \in Nat
  <2> DEFINE l == Len(t.struct)
  <2>1. n \in Nat /\ l \in Nat
    BY <1>2, <1>3
  <2>2. HeaderWords = 10 /\ a = 10 + 4 * n /\ b = 10 + 4 * n + l
    BY DEF HeaderWords, RsvWords
  <2> HIDE DEF l, a, b
  <2> QED
    BY <2>1, <2>2
<1> DEFINE u(size) == [p EXCEPT !.total = size]
<1>7. /\ p.offStrings = b /\ p.strings = t.strings
      /\ \A size \in Nat :
           /\ u(size).offRsv = HeaderWords /\ u(size).rsv = rsv /\ u(size).offStruct = a
           /\ u(size).struct = t.struct /\ u(size).offStrings = b /\ u(size).strings = t.strings
           /\ u(size).total = size /\ u(size) \in Blobs
  <2> HIDE DEF rsv, a, b
  <2>1. p = [t EXCEPT !.offRsv = HeaderWords, !.rsv = rsv, !.offStruct = a, !.offStrings = b]
    BY <1>4 DEF rsv, a, b
  <2> QED
    BY <1>1, <1>5, <1>6, <2>1 DEF Blobs
<1> HIDE DEF u
<1>8. StringsEnd(p) = b + SumWords(t.strings)
  BY <1>7 DEF StringsEnd
<1>9. StringsEnd(p) \in Nat
  <2> HIDE DEF b
  <2> QED
    BY <1>3, <1>6, <1>8
<1>10. ASSUME NEW size \in Nat, StringsEnd(p) <= size
       PROVE  Sound(u(size)) /\ Ordered(u(size)) /\ StringsEnd(u(size)) = StringsEnd(p)
  <2>1. StringsEnd(u(size)) = StringsEnd(p)
    BY <1>7, <1>8 DEF StringsEnd
  <2>2. Ordered(u(size))
    <3>1. HeaderWords <= HeaderWords /\ HeaderWords + RsvWords * Len(rsv) <= a /\ a + Len(t.struct) <= b
      BY <1>2, <1>3, <1>5 DEF HeaderWords, RsvWords
    <3> HIDE DEF a, b, rsv
    <3> QED
      BY <1>7, <1>10, <2>1, <3>1 DEF Ordered
  <2>3. Terminated(u(size))
    <3>1. n \in DOMAIN rsv
      <4> HIDE DEF rsv
      <4> QED
        BY <1>2, <1>5, LenProperties
    <3> HIDE DEF rsv
    <3> QED
      BY <1>5, <1>7, <3>1 DEF Terminated
  <2> QED
    BY <1>7, <2>1, <2>2, <2>3, OrderedSound
<1> QED
  BY <1>9, <1>10 DEF p, u

LEMMA PackSafe ==
  ASSUME NEW t, Sound(t)
  PROVE  LET r == FdtPack(t) IN Safe(t, r) /\ Ordered(r.t) /\ r.t.total = StringsEnd(r.t)
<1>1. StringsEnd(Packed(t)) \in Nat /\ StringsEnd(Packed(t)) <= StringsEnd(Packed(t))
  BY PackedSound
<1> DEFINE u == [Packed(t) EXCEPT !.total = StringsEnd(Packed(t))]
<1>2. Sound(u) /\ Ordered(u) /\ StringsEnd(u) = StringsEnd(Packed(t))
  BY <1>1, PackedSound
<1>3. u.total = StringsEnd(Packed(t))
  BY BlobSizes DEF Packed
<1>4. FdtPack(t) = Ok(u)
  BY DEF FdtPack
<1> HIDE DEF u
<1> QED
  BY <1>2, <1>3, <1>4 DEF Safe, Ok

LEMMA OpenIntoSafe == ASSUME NEW t, Sound(t), NEW b \in Nat, NEW apart \in BOOLEAN
                      PROVE  LET r == FdtOpenInto(t, b, apart)
                             IN  Safe(t, r) /\ (r.ret >= 0 => Ordered(r.t))
<1> DEFINE newsize == StringsEnd(Packed(t))
           needed == IF apart THEN newsize ELSE t.total + newsize
           k == RsvWords * (NumRsv(t) + 1)
           u == [t EXCEPT !.total = b]
           v == [Packed(t) EXCEPT !.total = b]
<1>1. t \in Blobs /\ Terminated(t)
  BY DEF Sound
<1>2. t.total \in Nat /\ newsize \in Nat
  BY <1>1, BlobSizes, PackedSound
<1>3. FdtOpenInto(t, b, apart) =
        IF ~Misordered(t, k) THEN IF t.total > b THEN Fail(NOSPACE, t) ELSE Ok(u)
        ELSE IF b < needed THEN Fail(NOSPACE, t) ELSE Ok(v)
  BY DEF FdtOpenInto
<1>4. ASSUME ~Misordered(t, k), ~(t.total > b) PROVE Safe(t, Ok(u)) /\ Ordered(Ok(u).t)
  <2>1. k \in Nat /\ RsvWords <= k /\ RsvWords \in Nat
    BY <1>1, NumRsvIs DEF RsvWords
  <2>2. ~Misordered(t, RsvWords)
    <3> HIDE DEF k
    <3> QED
      BY SMTT(30), <1>1, <1>4, <2>1, BlobSizes DEF Misordered, HeaderWords
  <2>3. Ordered(t)
    BY <2>2, InOrder
  <2>4. /\ u \in Blobs /\ u.struct = t.struct /\ u.offRsv = t.offRsv /\ u.rsv = t.rsv
        /\ u.offStruct = t.offStruct /\ u.offStrings = t.offStrings /\ u.strings = t.strings
        /\ u.total = b
    BY <1>1 DEF Blobs
  <2> HIDE DEF u
  <2>5. StringsEnd(u) = StringsEnd(t) /\ StringsEnd(t) \in Nat
    BY <1>1, <2>4, BlobSizes DEF StringsEnd
  <2>6. Ordered(u)
    <3>1. StringsEnd(t) <= b
      BY <1>2, <1>4, <2>3, <2>5 DEF Ordered
    <3> QED
      BY <2>3, <2>4, <2>5, <3>1 DEF Ordered
  <2>7. Terminated(u)
    BY <1>1, <2>4 DEF Terminated
  <2> QED
    BY <2>4, <2>6, <2>7, OrderedSound DEF Safe, Ok
<1>5. ASSUME ~(b < needed) PROVE Safe(t, Ok(v)) /\ Ordered(Ok(v).t)
  <2>1. newsize <= b
    <3> HIDE DEF newsize
    <3> QED
      BY <1>2, <1>5
  <2>2. Sound(v) /\ Ordered(v)
    BY <2>1, PackedSound
  <2> HIDE DEF v
  <2> QED
    BY <2>2 DEF Safe, Ok
<1>6. Safe(t, Fail(NOSPACE, t)) /\ ~(Fail(NOSPACE, t).ret >= 0)
  BY FailSafe, Codes DEF Fail
<1> HIDE DEF k, u, v, needed
<1> QED
  BY <1>3, <1>4, <1>5, <1>6

-----------------------------------------------------------------------------
(* An operation of fdt_rw.c is only tried on a blob in order.              *)
LEMMA RwSafe == ASSUME NEW t, Sound(t), NEW r, Ordered(t) => Safe(t, r)
                PROVE  Safe(t, Rw(t, r))
  BY InOrder, FailSafe, Codes DEF Rw

-----------------------------------------------------------------------------
(* Every step leaves a sound blob, the same one after a failure.           *)
SoundBlob == Sound(blob) /\ ret \in Int /\ ret <= 0

LeftAlone == ret' < 0 => blob' = blob

LEMMA DoSafe == ASSUME NEW r, Safe(blob, r), Do(r) PROVE SoundBlob' /\ LeftAlone
<1>1. blob' = r.t /\ ret' = IF r.ret < 0 THEN r.ret ELSE 0
  BY DEF Do
<1>2. Sound(r.t) /\ (r.ret < 0 => r.t = blob) /\ r.ret \in Int
  BY DEF Safe
<1>3. CASE r.ret < 0
  BY <1>1, <1>2, <1>3 DEF SoundBlob, LeftAlone
<1>4. CASE ~(r.ret < 0)
  <2>1. ~(0 < 0)
    OBVIOUS
  <2> QED
    BY <1>1, <1>2, <1>4, <2>1 DEF SoundBlob, LeftAlone
<1> QED
  BY <1>3, <1>4

LEMMA DoRwSafe == ASSUME SoundBlob, NEW r, Ordered(blob) => Safe(blob, r), DoRw(r)
                  PROVE  SoundBlob' /\ LeftAlone
<1>1. Safe(blob, Rw(blob, r))
  BY RwSafe DEF SoundBlob
<1> QED
  BY <1>1, DoSafe DEF DoRw

LEMMA CallersInputs == ASSUME SoundBlob
                       PROVE  /\ Offsets \subseteq Int /\ 0 .. Len(blob.rsv) \subseteq Nat
                              /\ Values \subseteq ValueSeqs /\ NewNames \subseteq NodeNames
                              /\ RsvSizes \subseteq Nat /\ Buffers \subseteq Nat
<1>1. Len(blob.rsv) \in Nat /\ Len(blob.struct) \in Nat
  BY BlobSizes DEF SoundBlob, Sound
<1>2. Offsets \subseteq Int
  <2>1. 0 .. Len(blob.struct) \subseteq Int /\ StaleOffsets \subseteq Int
    BY <1>1, BlobAssumption
  <2> QED
    BY <2>1 DEF Offsets
<1>3. 0 .. Len(blob.rsv) \subseteq Nat
  BY <1>1
<1> QED
  BY <1>2, <1>3, BlobAssumption DEF ValueSeqs

LEMMA StepSafe == ASSUME SoundBlob, [Next]_fvars PROVE SoundBlob' /\ (UNCHANGED fvars \/ LeftAlone)
<1> USE DEF SoundBlob
<1>1. ASSUME SetProp PROVE SoundBlob' /\ LeftAlone
  <2>1. PICK o \in Offsets, p \in PropNames, v \in Values : DoRw(FdtSetProp(blob, o, p, v))
    BY <1>1 DEF SetProp
  <2>2. o \in Int /\ v \in ValueSeqs
    BY CallersInputs
  <2>3. Ordered(blob) => Safe(blob, FdtSetProp(blob, o, p, v))
    BY <2>2, SetPropSafe
  <2> QED
    BY <2>1, <2>3, DoRwSafe
<1>2. ASSUME AppendProp PROVE SoundBlob' /\ LeftAlone
  <2>1. PICK o \in Offsets, p \in PropNames, v \in Values : DoRw(FdtAppendProp(blob, o, p, v))
    BY <1>2 DEF AppendProp
  <2>2. o \in Int /\ v \in ValueSeqs
    BY CallersInputs
  <2>3. Ordered(blob) => Safe(blob, FdtAppendProp(blob, o, p, v))
    BY <2>2, AppendPropSafe
  <2> QED
    BY <2>1, <2>3, DoRwSafe
<1>3. ASSUME DelProp PROVE SoundBlob' /\ LeftAlone
  <2>1. PICK o \in Offsets, p \in PropNames : DoRw(FdtDelProp(blob, o, p))
    BY <1>3 DEF DelProp
  <2>2. o \in Int
    BY CallersInputs
  <2>3. Ordered(blob) => Safe(blob, FdtDelProp(blob, o, p))
    BY <2>2, DelPropSafe
  <2> QED
    BY <2>1, <2>3, DoRwSafe
<1>4. ASSUME SetName PROVE SoundBlob' /\ LeftAlone
  <2>1. PICK o \in Offsets, n \in NewNames : DoRw(FdtSetName(blob, o, n))
    BY <1>4 DEF SetName
  <2>2. o \in Int /\ n \in NodeNames
    BY CallersInputs
  <2>3. Ordered(blob) => Safe(blob, FdtSetName(blob, o, n))
    BY <2>2, SetNameSafe
  <2> QED
    BY <2>1, <2>3, DoRwSafe
<1>5. ASSUME AddSubnode PROVE SoundBlob' /\ LeftAlone
  <2>1. PICK o \in Offsets, n \in NewNames : DoRw(FdtAddSubnode(blob, o, n))
    BY <1>5 DEF AddSubnode
  <2>2. o \in Int /\ n \in NodeNames
    BY CallersInputs
  <2>3. Ordered(blob) => Safe(blob, FdtAddSubnode(blob, o, n))
    BY <2>2, AddSubnodeSafe
  <2> QED
    BY <2>1, <2>3, DoRwSafe
<1>6. ASSUME DelNode PROVE SoundBlob' /\ LeftAlone
  <2>1. PICK o \in Offsets : DoRw(FdtDelNode(blob, o))
    BY <1>6 DEF DelNode
  <2>2. o \in Int
    BY CallersInputs
  <2>3. Ordered(blob) => Safe(blob, FdtDelNode(blob, o))
    BY <2>2, DelNodeSafe
  <2> QED
    BY <2>1, <2>3, DoRwSafe
<1>7. ASSUME AddMemRsv PROVE SoundBlob' /\ LeftAlone
  <2>1. PICK size \in RsvSizes : DoRw(FdtAddMemRsv(blob, size))
    BY <1>7 DEF AddMemRsv
  <2>2. size \in Nat
    BY CallersInputs
  <2>3. Ordered(blob) => Safe(blob, FdtAddMemRsv(blob, size))
    BY <2>2, AddMemRsvSafe
  <2> QED
    BY <2>1, <2>3, DoRwSafe
<1>8. ASSUME DelMemRsv PROVE SoundBlob' /\ LeftAlone
  <2>1. PICK n \in 0 .. Len(blob.rsv) : DoRw(FdtDelMemRsv(blob, n))
    BY <1>8 DEF DelMemRsv
  <2>2. n \in Nat
    BY CallersInputs
  <2>3. Ordered(blob) => Safe(blob, FdtDelMemRsv(blob, n))
    BY <2>2, DelMemRsvSafe
  <2> QED
    BY <2>1, <2>3, DoRwSafe
<1>9. ASSUME Pack PROVE SoundBlob' /\ LeftAlone
  <2>1. DoRw(FdtPack(blob))
    BY <1>9 DEF Pack
  <2>2. Safe(blob, FdtPack(blob))
    BY PackSafe
  <2> QED
    BY <2>1, <2>2, DoRwSafe
<1>10. ASSUME OpenInto PROVE SoundBlob' /\ LeftAlone
  <2>1. PICK b \in Buffers, apart \in BOOLEAN : Do(FdtOpenInto(blob, b, apart))
    BY <1>10 DEF OpenInto
  <2>2. b \in Nat
    BY CallersInputs
  <2>3. Safe(blob, FdtOpenInto(blob, b, apart))
    BY <2>2, OpenIntoSafe
  <2> QED
    BY <2>1, <2>3, DoSafe
<1>11. ASSUME SetInplace PROVE SoundBlob' /\ LeftAlone
  <2>1. PICK o \in Offsets, p \in PropNames, v \in Values : Do(FdtSetPropInplace(blob, o, p, v))
    BY <1>11 DEF SetInplace
  <2>2. o \in Int /\ v \in ValueSeqs
    BY CallersInputs
  <2>3. Safe(blob, FdtSetPropInplace(blob, o, p, v))
    BY <2>2, InplaceSafe
  <2> QED
    BY <2>1, <2>3, DoSafe
<1>12. ASSUME NopProp PROVE SoundBlob' /\ LeftAlone
  <2>1. PICK o \in Offsets, p \in PropNames : Do(FdtNopProperty(blob, o, p))
    BY <1>12 DEF NopProp
  <2>2. o \in Int
    BY CallersInputs
  <2>3. Safe(blob, FdtNopProperty(blob, o, p))
    BY <2>2, NopPropertySafe
  <2> QED
    BY <2>1, <2>3, DoSafe
<1>13. ASSUME NopNode PROVE SoundBlob' /\ LeftAlone
  <2>1. PICK o \in Offsets : Do(FdtNopNode(blob, o))
    BY <1>13 DEF NopNode
  <2>2. o \in Int
    BY CallersInputs
  <2>3. Safe(blob, FdtNopNode(blob, o))
    BY <2>2, NopNodeSafe
  <2> QED
    BY <2>1, <2>3, DoSafe
<1>14. ASSUME UNCHANGED fvars PROVE SoundBlob'
  BY <1>14 DEF fvars
<1> QED
  BY <1>1, <1>2, <1>3, <1>4, <1>5, <1>6, <1>7, <1>8, <1>9, <1>10, <1>11, <1>12, <1>13, <1>14
     DEF Next

-----------------------------------------------------------------------------
LEMMA AlwaysSound == Spec => []SoundBlob
<1>1. Init => SoundBlob
  BY BlobAssumption DEF Init, SoundBlob, Sound
<1>2. SoundBlob /\ [Next]_fvars => SoundBlob'
  BY StepSafe
<1> QED
  BY <1>1, <1>2, PTL DEF Spec

(* The blob always stays one: its blocks of words, strings and entries,    *)
(* with the terminator of the reserve map in it, whatever is spliced, even *)
(* at offsets where no node begins (fdt_rw.c, fdt_wip.c).                  *)
THEOREM BlobTypeCorrect == Spec => []TypeOK
<1>1. SoundBlob => TypeOK
  BY DEF SoundBlob, Sound, TypeOK
<1> QED
  BY <1>1, AlwaysSound, PTL

(* The header and the three blocks of a tree that is changed never overlap *)
(* and never leave the buffer, and the reserve map keeps its end: in any   *)
(* blob delivered with its blocks in any order, whatever node offsets the  *)
(* callers hold, right or stale, and in whatever order they insert,        *)
(* remove, pack, open and fail (fdt_splice_ and the offsets its callers    *)
(* shift, fdt_rw.c:46-119).                                                *)
THEOREM BlocksApart == Spec => []LaidOut
<1>1. SoundBlob => LaidOut
  BY DEF SoundBlob, Sound, LaidOut
<1> QED
  BY <1>1, AlwaysSound, PTL

(* An operation that returns an error has left the blob as it was, also    *)
(* when it had added a string before the property did not fit, for every   *)
(* error that any look-up or splice returns (fdt_rw.c:225-229).            *)
THEOREM FailureLeavesAll == Spec => FailureChangesNothing
<1>1. SoundBlob /\ [Next]_fvars => [ret' < 0 => blob' = blob]_fvars
  BY StepSafe DEF LeftAlone
<1> QED
  BY <1>1, AlwaysSound, PTL DEF Spec, FailureChangesNothing

-----------------------------------------------------------------------------
(* A splice from one tag to another.                                       *)
LEMMA SoundWords == ASSUME NEW t, Sound(t)
                    PROVE  /\ t \in Blobs /\ t.struct \in Structs /\ Legible(t.struct)
                           /\ Len(t.struct) \in Nat
  BY BlobSizes, StructLegible DEF Sound

LEMMA SplicedParts ==
  ASSUME NEW s \in Seq(BlobWords), NEW words \in Seq(BlobWords), NEW p \in Nat, NEW old \in Nat,
         p + old <= Len(s)
  PROVE  /\ \A i \in 1 .. p : Spliced(s, p, old, words)[i] = s[i]
         /\ \A i \in 1 .. Len(words) : Spliced(s, p, old, words)[p + i] = words[i]
         /\ \A i \in p + old + 1 .. Len(s) : Spliced(s, p, old, words)[i - old + Len(words)] = s[i]
  BY SplicedAll

LEMMA PastedWords ==
  ASSUME NEW t, Sound(t), NEW u, Sound(u), NEW a \in Visited(t), NEW b \in Visited(t), Sane(t),
         a.off <= b.off, NEW words \in Structs, Knows(u, t),
         u.struct = Spliced(t.struct, a.off, b.off - a.off, words)
  PROVE  Pasted(t, u, a, b, words)
<1>1. t.struct \in Seq(BlobWords) /\ Legible(u.struct) /\ words \in Seq(BlobWords) /\ Len(t.struct) \in Nat
  BY SoundWords DEF Structs
<1>2. PICK p \in Nat : p = a.off
  BY Met
<1>3. PICK q \in Nat : q = b.off
  BY Met
<1>4. q <= Len(t.struct)
  <2>1. b.off \in 0 .. Len(t.struct) - 1
    BY Met
  <2> QED
    BY <1>1, <1>3, <2>1
<1>5. PICK old \in Nat : old = b.off - a.off /\ p + old = q
  BY <1>2, <1>3
<1>6. PICK s \in Seq(BlobWords) : s = t.struct
  BY <1>1
<1>14. p + old <= Len(s)
  BY <1>4, <1>5, <1>6
<1>16. PICK x \in Seq(BlobWords) : x = words
  BY <1>1
<1>7. PICK r : r = Spliced(s, p, old, x)
  OBVIOUS
<1>17. /\ Len(Spliced(s, p, old, x)) = Len(s) - old + Len(x)
       /\ Len(s) \in Nat /\ Len(x) \in Nat
  BY <1>14, SplicedStruct
<1>18. /\ \A i \in 1 .. p : Spliced(s, p, old, x)[i] = s[i]
       /\ \A i \in 1 .. Len(x) : Spliced(s, p, old, x)[p + i] = x[i]
       /\ \A i \in p + old + 1 .. Len(s) : Spliced(s, p, old, x)[i - old + Len(x)] = s[i]
  BY <1>14, SplicedParts
<1>8. Len(r) = Len(s) - old + Len(words) /\ Len(s) \in Nat /\ Len(words) \in Nat
  BY <1>7, <1>16, <1>17
<1>15. /\ \A i \in 1 .. p : r[i] = s[i]
       /\ \A i \in 1 .. Len(words) : r[p + i] = words[i]
       /\ \A i \in p + old + 1 .. Len(s) : r[i - old + Len(words)] = s[i]
  BY <1>7, <1>16, <1>18
<1>9. u.struct = r
  BY <1>2, <1>5, <1>6, <1>7, <1>16
<1>10. PICK g \in Int : g = Gained(a, b, words)
  BY <1>2, <1>3, <1>8 DEF Gained
<1>11. g = Len(words) - old /\ p + Len(words) - q = g
  <2>1. g = p + Len(words) - q
    BY <1>2, <1>3, <1>10 DEF Gained
  <2>2. PICK k \in Nat : k = Len(words)
    BY <1>8
  <2>3. p + old = q
    BY <1>5
  <2>4. g = p + k - q
    BY <2>1, <2>2
  <2>5. g = k - old /\ p + k - q = g
    BY <2>3, <2>4
  <2> QED
    BY <2>2, <2>5
<1>19. p + old = q /\ q \in Nat /\ old \in Nat
  BY <1>5
<1>12. \A i \in q + 1 .. Len(s) : r[i + g] = s[i]
  <2>1. ASSUME NEW i \in q + 1 .. Len(s) PROVE r[i + g] = s[i]
    <3>2. PICK k \in Nat : k = Len(words)
      BY <1>8
    <3>3. g = k - old
      BY <1>11, <3>2
    <3>4. i \in p + old + 1 .. Len(s) /\ i - old + k = i + g
      BY <1>8, <1>19, <3>3
    <3>1. i \in p + old + 1 .. Len(s) /\ i - old + Len(words) = i + g
      BY <3>2, <3>4
    <3> QED
      BY <1>15, <3>1
  <2> QED
    BY <2>1
<1>13. Len(r) = Len(s) + g
  BY <1>8, <1>11
<1> QED
  BY <1>1, <1>2, <1>3, <1>6, <1>8, <1>15, <1>9, <1>10, <1>12, <1>13 DEF Pasted

(* What an operation has made of a tree.                                   *)
Becomes(u, nodes, props) == Whole(u) /\ TreeOf(u).nodes = nodes /\ TreeOf(u).props = props

LEMMA KnowsItself == ASSUME NEW t, NEW u, u.strings = t.strings PROVE Knows(u, t)
  BY DEF Knows

LEMMA SpliceStructPasted ==
  ASSUME NEW t, Sound(t), Ordered(t), Sane(t), NEW a \in Visited(t), NEW b \in Visited(t), a.off <= b.off,
         NEW words \in Structs, NEW r, r = SpliceStruct(t, a.off, b.off - a.off, words), r.ret >= 0
  PROVE  Sound(r.t) /\ Pasted(t, r.t, a, b, words) /\ r.t.strings = t.strings /\ r.ret = 0
<1>1. a.off \in Nat /\ b.off \in 0 .. Len(t.struct) - 1 /\ Len(t.struct) \in Nat
  BY Met
<1>2. PICK p \in Nat : p = a.off
  BY <1>1
<1>3. PICK old \in Nat : old = b.off - a.off /\ p + old <= Len(t.struct)
  BY <1>1, <1>2
<1>4. r = SpliceStruct(t, p, old, words)
  BY <1>2, <1>3
<1>5. /\ r.ret \in {0, NOSPACE, BADOFFSET} /\ Sound(r.t)
      /\ r.ret = 0 => r.t.strings = t.strings /\ r.t.struct = Spliced(t.struct, p, old, words)
  BY <1>3, <1>4, SpliceStructOn
<1>6. r.ret = 0
  BY <1>5, Codes
<1>7. r.t.struct = Spliced(t.struct, a.off, b.off - a.off, words)
  BY <1>2, <1>3, <1>5, <1>6
<1>8. Knows(r.t, t)
  BY <1>5, <1>6, KnowsItself
<1>9. PICK u : u = r.t
  OBVIOUS
<1>10. Pasted(t, u, a, b, words)
  BY <1>5, <1>7, <1>8, <1>9, PastedWords
<1> QED
  BY <1>5, <1>6, <1>9, <1>10

-----------------------------------------------------------------------------
(* Properties, one operation after the other.                              *)
IsProp(t, c, x, name) == /\ Word(t, x).tag = "prop" /\ x.path = Began(t.struct, c)
                         /\ NameAt(t, x) = name

(* The properties of a tree but for one.                                   *)
Rest(t, c, name) == {y \in TreeOf(t).props : y[1] # Began(t.struct, c) \/ y[2] # name}

LEMMA PropFound ==
  ASSUME NEW t, Whole(t), NEW c \in Visited(t), Begins(t, c), NEW name
  PROVE  \/ /\ PropOffset(t, c.off, name) = NOTFOUND
            /\ \A x \in Visited(t) : ~IsProp(t, c, x, name)
         \/ \E x \in Visited(t) : IsProp(t, c, x, name) /\ PropOffset(t, c.off, name) = x.off
  BY PropOffsetIs DEF IsProp

(* Where the tag behind a property is.                                     *)
LEMMA BehindProp ==
  ASSUME NEW t, Whole(t), NEW x \in Visited(t), Word(t, x).tag = "prop"
  PROVE  /\ x.off \in Nat /\ PropLen(t, x.off) \in Nat /\ Hop(t, x) \in Visited(t)
         /\ Hop(t, x).off = x.off + 3 + PropLen(t, x.off)
         /\ Hop(t, x).path = x.path /\ Hop(t, x).inTree = x.inTree
         /\ Known(t, x.off) /\ t.struct[x.off + 1] = Tag("prop")
         /\ Says(t.struct[x.off + 2], "len", PropLen(t, x.off))
         /\ \A i \in x.off + 2 .. Hop(t, x).off : t.struct[i][1] # "tag"
         /\ Hop(t, x).off < Len(t.struct) /\ Len(t.struct) \in Nat
<1>0. Sane(t)
  BY DEF Whole
<1>1. Hop(t, x) = At(Word(t, x).next, x.path, x.inTree) /\ Known(t, x.off)
  BY <1>0, MetTag
<1>2. /\ TagAt(t.struct, x.off, Word(t, x)) /\ x.off \in 0 .. Len(t.struct) - 1 /\ Len(t.struct) \in Nat
      /\ Hop(t, x) \in Visited(t)
      /\ \A i \in x.off + 2 .. Word(t, x).next : t.struct[i][1] # "tag"
  BY <1>0, Met
<1>3. /\ t.struct[x.off + 1] = Tag("prop")
      /\ t.struct[x.off + 2][1] = "len" /\ t.struct[x.off + 2][2] \in Nat
      /\ Word(t, x).next = x.off + 3 + t.struct[x.off + 2][2]
  BY <1>2 DEF TagAt
<1>4. Hop(t, x).off = Word(t, x).next /\ Hop(t, x).path = x.path /\ Hop(t, x).inTree = x.inTree
  BY <1>1 DEF At
<1>5. Hop(t, x).off \in 0 .. Len(t.struct) - 1
  BY <1>0, <1>2, Met
<1> QED
  BY <1>1, <1>2, <1>3, <1>4, <1>5 DEF PropLen, Says

LEMMA DelPropExact ==
  ASSUME NEW t, Sound(t), Ordered(t), Whole(t), NEW c \in Visited(t), Begins(t, c), NEW name,
         NEW r, r = FdtDelProp(t, c.off, name), r.ret >= 0
  PROVE  /\ Becomes(r.t, TreeOf(t).nodes, Rest(t, c, name))
         /\ \E x \in Visited(t) : IsProp(t, c, x, name)
<1>1. PICK p : p = PropOffset(t, c.off, name)
  OBVIOUS
<1>2. r = IF p < 0 THEN Fail(p, t) ELSE SpliceStruct(t, p, 3 + PropLen(t, p), <<>>)
  BY <1>1 DEF FdtDelProp
<1>3. p # NOTFOUND
  <2>1. ~(NOTFOUND >= 0) /\ NOTFOUND < 0
    BY DEF NOTFOUND
  <2> QED
    BY <1>2, <2>1 DEF Fail
<1>4. PICK x \in Visited(t) : IsProp(t, c, x, name) /\ p = x.off
  BY <1>1, <1>3, PropFound
<1>5. Word(t, x).tag = "prop"
  BY <1>4 DEF IsProp
<1>6. PICK b : b = Hop(t, x)
  OBVIOUS
<1>7. /\ x.off \in Nat /\ PropLen(t, x.off) \in Nat /\ b \in Visited(t)
      /\ b.off = x.off + 3 + PropLen(t, x.off) /\ b.path = x.path /\ b.inTree = x.inTree
  BY <1>5, <1>6, BehindProp
<1>8. x.off <= b.off /\ b.off - x.off = 3 + PropLen(t, x.off) /\ ~(p < 0)
  BY <1>4, <1>7
<1>9. r = SpliceStruct(t, x.off, b.off - x.off, <<>>)
  BY <1>2, <1>4, <1>8
<1>10. Sane(t)
  BY DEF Whole
<1>11. Pasted(t, r.t, x, b, <<>>)
  BY <1>7, <1>8, <1>9, <1>10, NoWords, SpliceStructPasted
<1>12. Removes(t, r.t, x, b, Gained(x, b, <<>>))
  BY <1>7, <1>10, <1>11, NoWords, Cut
<1>13. Whole(r.t) /\ TreeOf(r.t).nodes = TreeOf(t).nodes
       /\ TreeOf(r.t).props = {y \in TreeOf(t).props : y[1] # x.path \/ y[2] # NameAt(t, x)}
  BY <1>5, <1>6, <1>12, PropRemoved
<1>14. Becomes(r.t, TreeOf(t).nodes, Rest(t, c, name))
  BY <1>4, <1>13 DEF Becomes, Rest, IsProp
<1> QED
  BY <1>4, <1>14

LEMMA NopRegionPasted ==
  ASSUME NEW t, Sound(t), Sane(t), NEW a \in Visited(t), NEW b \in Visited(t), a.off <= b.off,
         a.path = b.path, a.inTree = b.inTree,
         NEW r, r = NopRegion(t, a.off, b.off - a.off)
  PROVE  Sound(r.t) /\ r.t.strings = t.strings /\ \E d : Removes(t, r.t, a, b, d)
<1>1. a.off \in Nat /\ b.off \in 0 .. Len(t.struct) - 1 /\ Len(t.struct) \in Nat
  BY Met
<1>2. PICK p \in Nat : p = a.off
  BY <1>1
<1>3. PICK n \in Nat : n = b.off - a.off /\ p + n <= Len(t.struct)
  BY <1>1, <1>2
<1>4. PICK words : words = [i \in 1 .. n |-> Tag("nop")]
  OBVIOUS
<1>5. words \in Structs /\ Len(words) = n /\ \A i \in 1 .. Len(words) : words[i] = Tag("nop")
  <2>1. Tag("nop") \in BlobWords
    BY TagWords DEF Tags
  <2>2. words \in Seq(BlobWords)
    BY <1>4, <2>1, IsASeq
  <2>3. DOMAIN words = 1 .. n
    BY <1>4
  <2>4. Len(words) = n
    BY <2>2, <2>3, LenProperties
  <2> QED
    BY <1>4, <2>2, <2>4 DEF Structs
<1>6. r = Ok([t EXCEPT !.struct = Spliced(t.struct, p, n, words)])
  BY <1>2, <1>3, <1>4 DEF NopRegion
<1>7. Sound(r.t)
  <2>1. r = NopRegion(t, p, n)
    BY <1>2, <1>3
  <2>2. Safe(t, r)
    BY <1>3, <2>1, NopRegionSafe
  <2> QED
    BY <2>2 DEF Safe
<1>8. t \in Blobs
  BY SoundWords
<1>9. r.t.struct = Spliced(t.struct, p, n, words) /\ r.t.strings = t.strings
  <2>1. r.t = [t EXCEPT !.struct = Spliced(t.struct, p, n, words)]
    BY <1>6 DEF Ok
  <2> QED
    BY <1>8, <2>1 DEF Blobs
<1>10. r.t.struct = Spliced(t.struct, a.off, b.off - a.off, words)
  BY <1>2, <1>3, <1>9
<1>11. Knows(r.t, t)
  BY <1>9, KnowsItself
<1>12. PICK u : u = r.t
  OBVIOUS
<1>13. Pasted(t, u, a, b, words)
  BY <1>5, <1>7, <1>10, <1>11, <1>12, PastedWords
<1>14. Removes(t, u, a, b, Gained(a, b, words))
  BY <1>5, <1>13, Nopped
<1> QED
  BY <1>7, <1>9, <1>12, <1>14

LEMMA NopPropExact ==
  ASSUME NEW t, Sound(t), Whole(t), NEW c \in Visited(t), Begins(t, c), NEW name,
         NEW r, r = FdtNopProperty(t, c.off, name), r.ret >= 0
  PROVE  /\ Becomes(r.t, TreeOf(t).nodes, Rest(t, c, name))
         /\ \E x \in Visited(t) : IsProp(t, c, x, name)
<1>1. PICK p : p = PropOffset(t, c.off, name)
  OBVIOUS
<1>2. r = IF p < 0 THEN Fail(p, t) ELSE NopRegion(t, p, 3 + PropLen(t, p))
  BY <1>1 DEF FdtNopProperty
<1>3. p # NOTFOUND
  <2>1. ~(NOTFOUND >= 0) /\ NOTFOUND < 0
    BY DEF NOTFOUND
  <2> QED
    BY <1>2, <2>1 DEF Fail
<1>4. PICK x \in Visited(t) : IsProp(t, c, x, name) /\ p = x.off
  BY <1>1, <1>3, PropFound
<1>5. Word(t, x).tag = "prop"
  BY <1>4 DEF IsProp
<1>6. PICK b : b = Hop(t, x)
  OBVIOUS
<1>7. /\ x.off \in Nat /\ PropLen(t, x.off) \in Nat /\ b \in Visited(t)
      /\ b.off = x.off + 3 + PropLen(t, x.off) /\ b.path = x.path /\ b.inTree = x.inTree
  BY <1>5, <1>6, BehindProp
<1>8. x.off <= b.off /\ b.off - x.off = 3 + PropLen(t, x.off) /\ ~(p < 0)
  BY <1>4, <1>7
<1>9. r = NopRegion(t, x.off, b.off - x.off)
  BY <1>2, <1>4, <1>8
<1>10. Sane(t)
  BY DEF Whole
<1>11. PICK d : Removes(t, r.t, x, b, d)
  BY <1>7, <1>8, <1>9, <1>10, NopRegionPasted
<1>13. Whole(r.t) /\ TreeOf(r.t).nodes = TreeOf(t).nodes
       /\ TreeOf(r.t).props = {y \in TreeOf(t).props : y[1] # x.path \/ y[2] # NameAt(t, x)}
  BY <1>5, <1>6, <1>11, PropRemoved
<1>14. Becomes(r.t, TreeOf(t).nodes, Rest(t, c, name))
  BY <1>4, <1>13 DEF Becomes, Rest, IsProp
<1> QED
  BY <1>4, <1>14

-----------------------------------------------------------------------------
(* A property that is there gets another value.                            *)
Valued(t, u, x, v) ==
  /\ Legible(u.struct) /\ u.strings = t.strings
  /\ Len(v) \in Nat /\ v = SubSeq(v, 1, Len(v)) /\ \A j \in 1 .. Len(v) : v[j][1] # "tag"
  /\ LET k == Len(v) - PropLen(t, x.off)
     IN  /\ Len(u.struct) = Len(t.struct) + k
         /\ \A i \in 1 .. x.off : u.struct[i] = t.struct[i]
         /\ \A i \in Hop(t, x).off + 1 .. Len(t.struct) : u.struct[i + k] = t.struct[i]
  /\ u.struct[x.off + 1] = Tag("prop") /\ Says(u.struct[x.off + 2], "len", Len(v))
  /\ u.struct[x.off + 3] = t.struct[x.off + 3]
  /\ \A j \in 1 .. Len(v) : u.struct[x.off + 3 + j] = v[j]

LEMMA ValuedExact ==
  ASSUME NEW t, Whole(t), NEW c \in Visited(t), NEW x \in Visited(t), NEW name, IsProp(t, c, x, name),
         NEW u, NEW v, Valued(t, u, x, v)
  PROVE  Becomes(u, TreeOf(t).nodes, Rest(t, c, name) \cup {<<Began(t.struct, c), name, v>>})
<1>1. Word(t, x).tag = "prop" /\ x.path = Began(t.struct, c) /\ NameAt(t, x) = name
  BY DEF IsProp
<1>2. PICK b : b = Hop(t, x)
  OBVIOUS
<1>3. /\ x.off \in Nat /\ PropLen(t, x.off) \in Nat /\ b \in Visited(t)
      /\ b.off = x.off + 3 + PropLen(t, x.off) /\ Known(t, x.off) /\ b.off < Len(t.struct)
      /\ Len(t.struct) \in Nat
  BY <1>1, <1>2, BehindProp
<1>4. \A i \in x.off + 2 .. b.off : t.struct[i][1] # "tag"
  BY SMTT(30), <1>1, <1>2, BehindProp
<1>5. PICK n \in Nat : n = Len(v)
  BY DEF Valued
<1>6. PICK o \in Nat : o = x.off
  BY <1>3
<1>7. PICK l \in Nat : l = PropLen(t, x.off) /\ b.off = o + 3 + l
  BY <1>3, <1>6
<1>8. PICK s : s = u.struct
  OBVIOUS
<1>9. PICK words : words = [i \in 1 .. 3 + n |-> s[o + i]]
  OBVIOUS
<1>10. Len(words) = 3 + n /\ \A i \in 1 .. 3 + n : words[i] = s[o + i]
  BY <1>9
<1>11. /\ s[o + 1] = Tag("prop") /\ Says(s[o + 2], "len", n) /\ s[o + 3] = t.struct[o + 3]
  BY <1>5, <1>6, <1>8 DEF Valued
<1>12. (\A j \in 1 .. n : s[o + 3 + j] = v[j]) /\ (\A j \in 1 .. n : v[j][1] # "tag")
  BY <1>5, <1>6, <1>8 DEF Valued
<1>13. PICK i : i = t.struct[o + 3][2]
  OBVIOUS
<1>14. i \in DOMAIN u.strings /\ u.strings[i] = NameAt(t, x)
  BY <1>3, <1>6, <1>13 DEF Known, NameAt, Valued
<1>15. OfProp(words, i, v)
  <2>1. words[1] = s[o + 1] /\ words[2] = s[o + 2] /\ words[3] = s[o + 3]
    BY <1>10
  <2>2. t.struct[o + 3][1] # "tag"
    <3>1. o + 3 \in x.off + 2 .. b.off
      BY <1>6, <1>7
    <3> QED
      BY <1>4, <3>1
  <2>3. \A j \in 1 .. n : words[j + 3] = v[j]
    <3>1. ASSUME NEW j \in 1 .. n PROVE words[j + 3] = v[j]
      <4>1. j + 3 \in 1 .. 3 + n /\ o + (j + 3) = o + 3 + j
        OBVIOUS
      <4> QED
        BY <1>10, <1>12, <4>1
    <3> QED
      BY <3>1
  <2>4. v = SubSeq(v, 1, n)
    BY <1>5 DEF Valued
  <2>5. words[1] = Tag("prop") /\ Says(words[2], "len", n) /\ words[3][2] = i /\ words[3][1] # "tag"
    BY <1>11, <1>13, <2>1, <2>2
  <2> QED
    BY <1>5, <1>10, <1>12, <2>3, <2>4, <2>5 DEF OfProp
<1>16. Pasted(t, u, x, b, words)
  <2>1. PICK g \in Int : g = Gained(x, b, words)
    BY <1>6, <1>7, <1>10 DEF Gained
  <2>2. g = n - l
    <3>1. Len(words) = 3 + n
      BY <1>10
    <3>2. g = o + (3 + n) - (o + 3 + l)
      BY <1>6, <1>7, <2>1, <3>1 DEF Gained
    <3> QED
      BY <3>2
  <2>3. /\ Len(s) = Len(t.struct) + g
        /\ \A j \in 1 .. o : s[j] = t.struct[j]
        /\ \A j \in b.off + 1 .. Len(t.struct) : s[j + g] = t.struct[j]
    BY <1>2, <1>5, <1>6, <1>7, <1>8, <2>2 DEF Valued
  <2>4. Legible(u.struct) /\ Knows(u, t)
    BY DEF Valued, Knows
  <2>5. x.off <= b.off /\ Len(words) \in Nat
    BY <1>6, <1>7, <1>10
  <2>6. \A j \in 1 .. Len(words) : s[o + j] = words[j]
    BY <1>10
  <2> QED
    BY <1>3, <1>6, <1>8, <2>1, <2>3, <2>4, <2>5, <2>6 DEF Pasted
<1>17. /\ Whole(u) /\ TreeOf(u).nodes = TreeOf(t).nodes
       /\ TreeOf(u).props = {y \in TreeOf(t).props : y[1] # x.path \/ y[2] # NameAt(t, x)}
                            \cup {<<x.path, NameAt(t, x), v>>}
  <2>1. Pasted(t, u, x, Hop(t, x), words)
    BY <1>2, <1>16
  <2> QED
    BY <1>1, <1>14, <1>15, <2>1, PropReplaced
<1> QED
  BY <1>1, <1>17 DEF Becomes, Rest

Untagged(v) == \A j \in 1 .. Len(v) : v[j][1] # "tag"

(* The words of the value are replaced, and perhaps the length.            *)
LEMMA ValuedWords ==
  ASSUME NEW t, Sound(t), Whole(t), NEW x \in Visited(t), Word(t, x).tag = "prop",
         NEW v \in Structs, Untagged(v), NEW u, Sound(u), u.strings = t.strings,
         NEW s, s = Spliced(t.struct, x.off + 3, PropLen(t, x.off), v),
         Len(u.struct) = Len(s), \A i \in 1 .. Len(s) : i # x.off + 2 => u.struct[i] = s[i],
         Says(u.struct[x.off + 2], "len", Len(v))
  PROVE  Valued(t, u, x, v)
<1>1. t.struct \in Seq(BlobWords) /\ Legible(u.struct) /\ Len(t.struct) \in Nat
  BY SoundWords DEF Structs
<1>2. /\ x.off \in Nat /\ PropLen(t, x.off) \in Nat
      /\ Hop(t, x).off = x.off + 3 + PropLen(t, x.off) /\ t.struct[x.off + 1] = Tag("prop")
      /\ Hop(t, x).off < Len(t.struct)
  BY BehindProp
<1>3. PICK o \in Nat : o = x.off
  BY <1>2
<1>4. PICK l \in Nat : l = PropLen(t, x.off)
  BY <1>2
<1>5. PICK h \in Nat : h = Hop(t, x).off /\ h = o + 3 + l /\ h < Len(t.struct)
  BY <1>2, <1>3, <1>4
<1>6. PICK w \in Seq(BlobWords) : w = t.struct
  BY <1>1
<1>7. PICK y \in Seq(BlobWords) : y = v
  BY DEF Structs
<1>8. PICK p \in Nat : p = o + 3 /\ p + l = h
  BY <1>5
<1>9. p + l <= Len(w)
  BY <1>1, <1>5, <1>6, <1>8
<1>10. /\ Len(Spliced(w, p, l, y)) = Len(w) - l + Len(y)
       /\ Len(w) \in Nat /\ Len(y) \in Nat
  BY <1>9, SplicedStruct
<1>11. /\ \A i \in 1 .. p : Spliced(w, p, l, y)[i] = w[i]
       /\ \A i \in 1 .. Len(y) : Spliced(w, p, l, y)[p + i] = y[i]
       /\ \A i \in p + l + 1 .. Len(w) : Spliced(w, p, l, y)[i - l + Len(y)] = w[i]
  BY <1>9, SplicedParts
<1>12. s = Spliced(w, p, l, y)
  BY <1>3, <1>4, <1>6, <1>7, <1>8
<1>13. PICK n \in Nat : n = Len(y)
  BY <1>10
<1>14. PICK m \in Nat : m = Len(w)
  BY <1>10
<1>15. Len(s) = m - l + n /\ p + l < m /\ p = o + 3
  BY <1>1, <1>5, <1>6, <1>8, <1>10, <1>12, <1>13, <1>14
<1>16. PICK r : r = u.struct
  OBVIOUS
<1>17. Len(r) = m - l + n
  BY <1>15, <1>16
<1>18. \A i \in 1 .. m - l + n : i # o + 2 => r[i] = s[i]
  BY <1>3, <1>15, <1>16
<1>19. /\ \A i \in 1 .. p : s[i] = w[i]
       /\ \A i \in 1 .. n : s[p + i] = y[i]
       /\ \A i \in p + l + 1 .. m : s[i - l + n] = w[i]
  BY <1>11, <1>12, <1>13, <1>14
<1>20. \A i \in 1 .. o : r[i] = w[i]
  <2>1. ASSUME NEW i \in 1 .. o PROVE r[i] = w[i]
    <3>1. i \in 1 .. p /\ i \in 1 .. m - l + n /\ i # o + 2
      BY <1>15
    <3> QED
      BY <1>18, <1>19, <3>1
  <2> QED
    BY <2>1
<1>21. r[o + 1] = w[o + 1] /\ r[o + 3] = w[o + 3]
  <2>1. o + 1 \in 1 .. p /\ o + 3 \in 1 .. p /\ o + 1 # o + 2 /\ o + 3 # o + 2
        /\ o + 1 \in 1 .. m - l + n /\ o + 3 \in 1 .. m - l + n
    BY <1>15
  <2> QED
    BY <1>18, <1>19, <2>1
<1>22. \A j \in 1 .. n : r[o + 3 + j] = y[j]
  <2>1. ASSUME NEW j \in 1 .. n PROVE r[o + 3 + j] = y[j]
    <3>1. o + 3 + j = p + j /\ p + j \in 1 .. m - l + n /\ p + j # o + 2
      BY SMTT(30), <1>15
    <3> QED
      BY <1>18, <1>19, <3>1
  <2> QED
    BY <2>1
<1>23. \A i \in h + 1 .. m : r[i + (n - l)] = w[i]
  <2>1. ASSUME NEW i \in h + 1 .. m PROVE r[i + (n - l)] = w[i]
    <3>2. i \in Int /\ i >= p + l + 1 /\ i <= m /\ p = o + 3
      BY <1>8, <1>15
    <3>3. i + (n - l) = i - l + n /\ i - l + n >= p + 1 /\ i - l + n <= m - l + n
      BY <3>2
    <3>1. i \in p + l + 1 .. m /\ i + (n - l) = i - l + n /\ i - l + n \in 1 .. m - l + n
          /\ i - l + n # o + 2
      BY <3>2, <3>3
    <3> QED
      BY <1>18, <1>19, <3>1
  <2> QED
    BY <2>1
<1>24. y = SubSeq(y, 1, n)
  BY <1>13, SubSeqFull
<1>25. Len(r) = m + (n - l)
  BY <1>17
<1>26. Says(r[o + 2], "len", n)
  BY <1>3, <1>7, <1>13, <1>16
<1>27. Legible(r) /\ r[o + 1] = Tag("prop") /\ Len(v) \in Nat
  BY <1>1, <1>2, <1>3, <1>6, <1>7, <1>10, <1>16, <1>21
<1>28. /\ Legible(u.struct) /\ u.strings = t.strings
       /\ Len(v) \in Nat /\ v = SubSeq(v, 1, Len(v)) /\ \A j \in 1 .. Len(v) : v[j][1] # "tag"
  BY <1>1, <1>7, <1>13, <1>24, <1>27 DEF Untagged
<1>29. LET k == Len(v) - PropLen(t, x.off)
       IN  /\ Len(u.struct) = Len(t.struct) + k
           /\ \A i \in 1 .. x.off : u.struct[i] = t.struct[i]
           /\ \A i \in Hop(t, x).off + 1 .. Len(t.struct) : u.struct[i + k] = t.struct[i]
  BY <1>3, <1>4, <1>5, <1>6, <1>7, <1>13, <1>14, <1>16, <1>20, <1>23, <1>25
<1>30. /\ u.struct[x.off + 1] = Tag("prop") /\ Says(u.struct[x.off + 2], "len", Len(v))
       /\ u.struct[x.off + 3] = t.struct[x.off + 3]
       /\ \A j \in 1 .. Len(v) : u.struct[x.off + 3 + j] = v[j]
  BY <1>3, <1>6, <1>7, <1>13, <1>16, <1>21, <1>22, <1>26, <1>27
<1> QED
  BY <1>28, <1>29, <1>30 DEF Valued

LEMMA ResizeValued ==
  ASSUME NEW t, Sound(t), Ordered(t), Whole(t), NEW x \in Visited(t), Word(t, x).tag = "prop",
         NEW v \in Structs, Untagged(v), NEW r, r = Resize(t, x.off, v), r.ret >= 0
  PROVE  Valued(t, r.t, x, v) /\ Sound(r.t)
<1>1. t.struct \in Seq(BlobWords) /\ Len(t.struct) \in Nat /\ Len(v) \in Nat
  BY SoundWords, LenProperties DEF Structs
<1>2. /\ x.off \in Nat /\ PropLen(t, x.off) \in Nat
      /\ Hop(t, x).off = x.off + 3 + PropLen(t, x.off) /\ Hop(t, x).off < Len(t.struct)
  BY BehindProp
<1>3. PICK p \in Nat : p = x.off
  BY <1>2
<1>4. PICK l \in Nat : l = PropLen(t, x.off) /\ p + 3 + l < Len(t.struct)
  BY <1>2, <1>3
<1>5. PICK q : q = SpliceStruct(t, p + 3, l, v)
  OBVIOUS
<1>6. /\ q.ret \in {0, NOSPACE, BADOFFSET} /\ Sound(q.t)
      /\ q.ret = 0 => q = Ok(q.t) /\ q.t.strings = t.strings /\ q.t.struct = Spliced(t.struct, p + 3, l, v)
  <2>1. p + 3 \in Nat /\ (p + 3) + l <= Len(t.struct)
    BY <1>1, <1>4
  <2> QED
    BY <1>5, <2>1, SpliceStructOn
<1>7. r = IF q.ret < 0 THEN q ELSE [q EXCEPT !.t.struct[p + 2] = Length(Len(v))]
  BY <1>3, <1>4, <1>5 DEF Resize
<1>8. q.ret = 0
  BY <1>6, <1>7, Codes
<1>9. PICK s : s = Spliced(t.struct, p + 3, l, v)
  OBVIOUS
<1>10. PICK u : u = q.t
  OBVIOUS
<1>11. u \in Blobs /\ u.struct = s /\ u.strings = t.strings /\ q = Ok(u) /\ s \in Seq(BlobWords) /\ Len(s) \in Nat
  BY <1>6, <1>8, <1>9, <1>10, SoundWords DEF Structs
<1>12. r.t = [u EXCEPT !.struct = [s EXCEPT ![p + 2] = Length(Len(v))]]
  <2>1. r = [q EXCEPT !.t.struct[p + 2] = Length(Len(v))]
    BY <1>7, <1>8
  <2> QED
    BY <1>11, <2>1 DEF Ok, Blobs
<1>13. r.t.struct = [s EXCEPT ![p + 2] = Length(Len(v))] /\ r.t.strings = t.strings
  BY <1>11, <1>12 DEF Blobs
<1>14. DOMAIN s = 1 .. Len(s) /\ DOMAIN r.t.struct = 1 .. Len(s)
  BY <1>11, <1>13, LenProperties
<1>15. Sound(r.t)
  <2>1. NextTag(t.struct, p).tag = "prop"
    BY <1>3 DEF Word
  <2>2. r = Resize(t, p, v)
    BY <1>3
  <2>3. Safe(t, r)
    BY <2>1, <2>2, ResizeSafe
  <2> QED
    BY <2>3 DEF Safe
<1>16. Len(r.t.struct) = Len(s)
  BY <1>11, <1>14, <1>15, SoundWords, LenProperties DEF Structs
<1>17. p + 2 \in 1 .. Len(s)
  <2>1. Len(s) = Len(t.struct) - l + Len(v)
    <3>1. PICK w \in Seq(BlobWords) : w = t.struct
      BY <1>1
    <3>2. PICK y \in Seq(BlobWords) : y = v
      BY DEF Structs
    <3>3. PICK m \in Nat : m = p + 3 /\ m + l <= Len(w)
      BY <1>1, <1>4, <3>1
    <3>4. Len(Spliced(w, m, l, y)) = Len(w) - l + Len(y)
      BY <3>3, SplicedStruct
    <3> QED
      BY <1>9, <3>1, <3>2, <3>3, <3>4
  <2> QED
    BY <1>1, <1>4, <2>1
<1>18. \A i \in 1 .. Len(s) : i # x.off + 2 => r.t.struct[i] = s[i]
  BY <1>3, <1>13, <1>14
<1>19. Says(r.t.struct[x.off + 2], "len", Len(v))
  BY <1>3, <1>13, <1>14, <1>17 DEF Says, Length
<1>20. s = Spliced(t.struct, x.off + 3, PropLen(t, x.off), v)
  BY <1>3, <1>4, <1>9
<1>21. PICK z : z = r.t
  OBVIOUS
<1>22. Valued(t, z, x, v)
  <2>1. Sound(z) /\ z.strings = t.strings /\ Len(z.struct) = Len(s)
    BY <1>13, <1>15, <1>16, <1>21
  <2>2. \A i \in 1 .. Len(s) : i # x.off + 2 => z.struct[i] = s[i]
    BY <1>18, <1>21
  <2>3. Says(z.struct[x.off + 2], "len", Len(v))
    BY <1>19, <1>21
  <2> QED
    BY <1>20, <2>1, <2>2, <2>3, ValuedWords
<1> QED
  BY <1>15, <1>21, <1>22

LEMMA InplaceValued ==
  ASSUME NEW t, Sound(t), Whole(t), NEW c \in Visited(t), Begins(t, c), NEW name \in PropNames,
         NEW v \in Structs, v \in ValueSeqs, Untagged(v),
         NEW r, r = FdtSetPropInplace(t, c.off, name, v), r.ret >= 0
  PROVE  /\ Sound(r.t) /\ \E x \in Visited(t) : IsProp(t, c, x, name) /\ Valued(t, r.t, x, v)
<1>0. Sane(t) /\ c.off \in Int
  BY Met DEF Whole
<1>1. PICK p : p = PropOffset(t, c.off, name)
  OBVIOUS
<1>2. r = IF p < 0 THEN Fail(p, t) ELSE IF PropLen(t, p) # Len(v) THEN Fail(NOSPACE, t)
          ELSE Ok([t EXCEPT !.struct = Spliced(t.struct, p + 3, Len(v), v)])
  BY <1>1 DEF FdtSetPropInplace
<1>3. p # NOTFOUND
  <2>1. ~(NOTFOUND >= 0) /\ NOTFOUND < 0
    BY DEF NOTFOUND
  <2> QED
    BY <1>2, <2>1 DEF Fail
<1>4. PICK x \in Visited(t) : IsProp(t, c, x, name) /\ p = x.off
  BY <1>1, <1>3, PropFound
<1>5. Word(t, x).tag = "prop"
  BY <1>4 DEF IsProp
<1>6. /\ x.off \in Nat /\ PropLen(t, x.off) \in Nat /\ Says(t.struct[x.off + 2], "len", PropLen(t, x.off))
      /\ Hop(t, x).off = x.off + 3 + PropLen(t, x.off) /\ Hop(t, x).off < Len(t.struct)
  BY <1>5, BehindProp
<1>7. ~(p < 0) /\ p >= 0
  BY <1>4, <1>6
<1>8. PropLen(t, x.off) = Len(v)
  <2>1. ~(NOSPACE >= 0)
    BY DEF NOSPACE
  <2> QED
    BY <1>2, <1>4, <1>7, <2>1 DEF Fail
<1>9. PICK s : s = Spliced(t.struct, x.off + 3, PropLen(t, x.off), v)
  OBVIOUS
<1>10. r.t = [t EXCEPT !.struct = s]
  <2>1. r = Ok([t EXCEPT !.struct = s])
    BY <1>2, <1>4, <1>7, <1>8, <1>9
  <2> QED
    BY <2>1 DEF Ok
<1>11. t \in Blobs /\ t.struct \in Seq(BlobWords) /\ Len(t.struct) \in Nat
  BY SoundWords DEF Structs
<1>12. r.t.struct = s /\ r.t.strings = t.strings
  BY <1>10, <1>11 DEF Blobs
<1>13. Sound(r.t)
  <2>1. Safe(t, r)
    BY <1>0, InplaceSafe
  <2> QED
    BY <2>1 DEF Safe
<1>14. s[x.off + 2] = t.struct[x.off + 2]
  <2>1. PICK w \in Seq(BlobWords) : w = t.struct
    BY <1>11
  <2>2. PICK y \in Seq(BlobWords) : y = v
    BY DEF Structs
  <2>3. PICK l \in Nat : l = PropLen(t, x.off)
    BY <1>6
  <2>4. PICK m \in Nat : m = x.off + 3 /\ m + l <= Len(w) /\ x.off + 2 \in 1 .. m
    BY SMTT(30), <1>6, <1>11, <2>1, <2>3
  <2>5. \A i \in 1 .. m : Spliced(w, m, l, y)[i] = w[i]
    BY <2>4, SplicedParts
  <2> QED
    BY <1>9, <2>1, <2>2, <2>3, <2>4, <2>5
<1>15. PICK z : z = r.t
  OBVIOUS
<1>16. Valued(t, z, x, v)
  <2>1. Sound(z) /\ z.strings = t.strings /\ Len(z.struct) = Len(s)
    BY <1>12, <1>13, <1>15
  <2>2. \A i \in 1 .. Len(s) : i # x.off + 2 => z.struct[i] = s[i]
    BY <1>12, <1>15
  <2>3. Says(z.struct[x.off + 2], "len", Len(v))
    BY <1>6, <1>8, <1>12, <1>14, <1>15
  <2> QED
    BY <1>5, <1>9, <2>1, <2>2, <2>3, ValuedWords
<1> QED
  BY <1>4, <1>13, <1>15, <1>16

LEMMA PropWordsAre ==
  ASSUME NEW i \in Nat, NEW v \in Structs, Untagged(v)
  PROVE  OfProp(PropWords(i, v), i, v)
<1> DEFINE h == <<Tag("prop"), Length(Len(v)), NameOff(i)>>
<1>1. v \in Seq(BlobWords) /\ Len(v) \in Nat
  BY LenProperties DEF Structs
<1>2. h \in Seq(BlobWords) /\ Len(h) = 3 /\ h[1] = Tag("prop") /\ h[2] = Length(Len(v)) /\ h[3] = NameOff(i)
  <2>1. Tag("prop") \in BlobWords /\ Length(Len(v)) \in BlobWords /\ NameOff(i) \in BlobWords
    BY <1>1, TagWords, LengthWords DEF Tags
  <2> QED
    BY <2>1
<1> HIDE DEF h
<1>3. PICK k \in Nat : k = Len(v)
  BY <1>1
<1>4. PICK w : w = PropWords(i, v)
  OBVIOUS
<1>5. w = h \o v
  BY <1>4 DEF PropWords, h
<1>6. Len(w) = 3 + k /\ \A j \in 1 .. 3 + k : w[j] = IF j <= 3 THEN h[j] ELSE v[j - 3]
  <2>1. PICK f \in Seq(BlobWords) : f = h
    BY <1>2
  <2>2. PICK y \in Seq(BlobWords) : y = v
    BY <1>1
  <2>3. /\ Len(f \o y) = Len(f) + Len(y)
        /\ \A j \in 1 .. Len(f) + Len(y) : (f \o y)[j] = IF j <= Len(f) THEN f[j] ELSE y[j - Len(f)]
    BY ConcatProperties
  <2>4. Len(f) = 3 /\ Len(y) = k
    BY <1>2, <1>3, <2>1, <2>2
  <2>5. Len(f \o y) = 3 + k /\ \A j \in 1 .. 3 + k : (f \o y)[j] = IF j <= 3 THEN f[j] ELSE y[j - 3]
    BY <2>3, <2>4
  <2> QED
    BY <1>5, <2>1, <2>2, <2>5
<1>7. w[1] = Tag("prop") /\ w[2] = Length(k) /\ w[3] = NameOff(i)
  <2>1. 1 \in 1 .. 3 + k /\ 2 \in 1 .. 3 + k /\ 3 \in 1 .. 3 + k
    BY <1>3
  <2> QED
    BY <1>2, <1>3, <1>6, <2>1
<1>8. \A j \in 1 .. k : w[j + 3] = v[j]
  <2>1. ASSUME NEW j \in 1 .. k PROVE w[j + 3] = v[j]
    <3>1. j + 3 \in 1 .. 3 + k /\ ~(j + 3 <= 3) /\ j + 3 - 3 = j
      BY <1>3
    <3> QED
      BY <1>6, <3>1
  <2> QED
    BY <2>1
<1>9. v = SubSeq(v, 1, k)
  BY <1>1, <1>3, SubSeqFull
<1>10. \A j \in 1 .. k : v[j][1] # "tag"
  BY <1>3 DEF Untagged
<1>11. Says(w[2], "len", k) /\ w[3][2] = i /\ w[3][1] # "tag"
  BY <1>7 DEF Says, Length, NameOff
<1> QED
  BY <1>3, <1>4, <1>6, <1>7, <1>8, <1>9, <1>10, <1>11 DEF OfProp

(* The properties of a tree and where they are.                            *)
LEMMA PropsAre ==
  ASSUME NEW t, Sane(t)
  PROVE  /\ \A y \in TreeOf(t).props : \E x \in Visited(t) :
              Word(t, x).tag = "prop" /\ y = <<x.path, NameAt(t, x), PropValue(t, x.off)>>
         /\ \A x \in Visited(t) : Word(t, x).tag = "prop"
              => <<x.path, NameAt(t, x), PropValue(t, x.off)>> \in TreeOf(t).props
<1>1. TreeOf(t).props = Props(Notes(t))
  BY MeaningIs
<1>2. \A x \in Visited(t) : /\ Note(t, x) \in Notes(t) /\ Note(t, x).tag = Word(t, x).tag
                            /\ Word(t, x).tag = "prop" => Note(t, x).prop = PropAt(t, x)
  BY NoteIs
<1>3. \A x : PropAt(t, x) = <<x.path, NameAt(t, x), PropValue(t, x.off)>>
  BY DEF PropAt, NameAt
<1>4. \A n \in Notes(t) : \E x \in Visited(t) : n = Note(t, x)
  BY DEF Notes
<1>5. ASSUME NEW y \in TreeOf(t).props
      PROVE  \E x \in Visited(t) : Word(t, x).tag = "prop" /\ y = <<x.path, NameAt(t, x), PropValue(t, x.off)>>
  <2>1. PICK n \in Notes(t) : n.tag = "prop" /\ y = n.prop
    BY <1>1, <1>5 DEF Props
  <2>2. PICK x \in Visited(t) : n = Note(t, x)
    BY <1>4
  <2> QED
    BY <1>2, <1>3, <2>1, <2>2
<1>6. ASSUME NEW x \in Visited(t), Word(t, x).tag = "prop"
      PROVE  <<x.path, NameAt(t, x), PropValue(t, x.off)>> \in TreeOf(t).props
  <2>1. Note(t, x).prop \in Props(Notes(t))
    BY <1>2, <1>6 DEF Props
  <2> QED
    BY <1>1, <1>2, <1>3, <1>6, <2>1
<1> QED
  BY <1>5, <1>6

LEMMA RestAll ==
  ASSUME NEW t, Sane(t), NEW c \in Visited(t), NEW name, \A x \in Visited(t) : ~IsProp(t, c, x, name)
  PROVE  Rest(t, c, name) = TreeOf(t).props
<1>1. ASSUME NEW y \in TreeOf(t).props PROVE y[1] # Began(t.struct, c) \/ y[2] # name
  <2>1. PICK x \in Visited(t) : Word(t, x).tag = "prop" /\ y = <<x.path, NameAt(t, x), PropValue(t, x.off)>>
    BY PropsAre
  <2> QED
    BY <2>1 DEF IsProp
<1> QED
  BY <1>1 DEF Rest

LEMMA CellsUntagged == ASSUME NEW v \in ValueSeqs PROVE Untagged(v)
<1>1. ASSUME NEW j \in 1 .. Len(v) PROVE v[j][1] # "tag"
  <2>1. v[j] \in ValueWords
    BY <1>1 DEF ValueSeqs
  <2>2. v[j] \in {"value"} \X Int \/ v[j] \in {"string"} \X STRING
    BY <2>1 DEF ValueWords
  <2>3. v[j][1] = "value" \/ v[j][1] = "string"
    BY <2>2
  <2> QED
    BY <2>3
<1> QED
  BY <1>1 DEF Untagged

(* A property comes to a node that has none of its name.                   *)
LEMMA AddPropertyExact ==
  ASSUME NEW t, Sound(t), Ordered(t), Whole(t), NEW c \in Visited(t), Begins(t, c),
         NEW name \in PropNames, NEW v \in ValueSeqs, \A x \in Visited(t) : ~IsProp(t, c, x, name),
         NEW r, r = AddProperty(t, c.off, name, v), r.ret >= 0
  PROVE  Becomes(r.t, TreeOf(t).nodes, Rest(t, c, name) \cup {<<Began(t.struct, c), name, v>>})
<1>0. Sane(t)
  BY DEF Whole
<1>1. PICK a : a = Hop(t, c)
  OBVIOUS
<1>2. Word(t, c).tag = "begin"
  BY DEF Word, Begins
<1>3. a \in Visited(t) /\ a.off = Word(t, c).next /\ a.off \in Int /\ a.off \in Nat
  <2>1. a \in Visited(t)
    BY <1>0, <1>1, Met
  <2>2. ~Stops(t, c)
    BY <1>0, <1>2, Met
  <2>3. a.off = Word(t, c).next
    BY <1>0, <1>1, <2>2, Met
  <2>4. a.off \in 0 .. Len(t.struct) - 1 /\ Len(t.struct) \in Nat
    BY <1>0, <2>1, Met
  <2> QED
    BY <2>1, <2>3, <2>4
<1>4. CheckTag(t.struct, c.off, "begin") = a.off
  BY <1>0, <1>2, <1>3, CheckTagMet
<1>5. PICK f : f = FindAddString(t, name)
  OBVIOUS
<1>6. PICK g : g = SpliceStruct(f.t, a.off, 0, PropWords(f.ret, v))
  OBVIOUS
<1>7. r = IF a.off < 0 THEN Fail(a.off, t) ELSE IF f.ret < 0 THEN Fail(f.ret, t)
          ELSE IF g.ret < 0 THEN Fail(g.ret, t) ELSE g
  BY <1>4, <1>5, <1>6 DEF AddProperty
<1>8. f.ret \in Int
  BY <1>5, FindAddStringOn
<1>9. ~(a.off < 0) /\ ~(f.ret < 0) /\ ~(g.ret < 0) /\ r = g
  <2>1. ~(a.off < 0)
    BY <1>3
  <2>2. ~(f.ret < 0)
    BY <1>7, <1>8, <2>1 DEF Fail
  <2>3. ASSUME g.ret < 0 PROVE FALSE
    <3>1. r = Fail(g.ret, t)
      BY <1>7, <2>1, <2>2, <2>3
    <3>2. r.ret = g.ret
      BY <3>1 DEF Fail
    <3>3. g.ret \in {0, NOSPACE, BADOFFSET}
      <4>1. Sound(f.t) /\ Ordered(f.t) /\ f.t.struct = t.struct /\ f.ret \in Nat
        BY <1>5, <2>2, FindAddStringOn
      <4>2. PropWords(f.ret, v) \in Structs
        BY <4>1, PropSeq
      <4>3. PICK y : y = f.t
        OBVIOUS
      <4>4. 0 \in Nat /\ a.off + 0 <= Len(y.struct)
        <5>1. a.off \in 0 .. Len(t.struct) - 1 /\ Len(t.struct) \in Nat
          BY <1>0, <1>3, Met
        <5>2. Len(y.struct) = Len(t.struct)
          BY <4>1, <4>3
        <5> QED
          BY <5>1, <5>2
      <4>5. SpliceStruct(y, a.off, 0, PropWords(f.ret, v)).ret \in {0, NOSPACE, BADOFFSET}
        BY <1>3, <4>1, <4>2, <4>3, <4>4, SpliceStructOn
      <4> QED
        BY <1>6, <4>3, <4>5
    <3> QED
      BY <2>3, <3>2, <3>3, Codes
  <2> QED
    BY <1>7, <2>1, <2>2, <2>3
<1>10. /\ f.ret \in Nat /\ Sound(f.t) /\ Ordered(f.t) /\ f.t.struct = t.struct /\ Knows(f.t, t)
       /\ f.ret \in DOMAIN f.t.strings /\ f.t.strings[f.ret] = name
  BY <1>5, <1>9, FindAddStringOn
<1>11. PICK words \in Structs : words = PropWords(f.ret, v)
  BY <1>10, PropSeq
<1>12. /\ Sound(r.t) /\ r.t.strings = f.t.strings /\ r.t.struct = Spliced(t.struct, a.off, 0, words)
  <2>1. PICK y : y = f.t
    OBVIOUS
  <2>2. 0 \in Nat /\ a.off + 0 <= Len(y.struct)
    <3>1. a.off \in 0 .. Len(t.struct) - 1 /\ Len(t.struct) \in Nat
      BY <1>0, <1>3, Met
    <3>2. Len(y.struct) = Len(t.struct)
      BY <1>10, <2>1
    <3> QED
      BY <3>1, <3>2
  <2>3. PICK h : h = SpliceStruct(y, a.off, 0, words)
    OBVIOUS
  <2>4. /\ h.ret \in {0, NOSPACE, BADOFFSET} /\ Sound(h.t)
        /\ h.ret = 0 => /\ h.t.strings = y.strings
                        /\ h.t.struct = Spliced(y.struct, a.off, 0, words)
    BY <1>3, <1>10, <2>1, <2>2, <2>3, SpliceStructOn
  <2>5. h = r
    BY <1>6, <1>9, <1>11, <2>1, <2>3
  <2>6. r.ret = 0
    BY <2>4, <2>5, Codes
  <2> QED
    BY <1>10, <2>1, <2>4, <2>5, <2>6
<1>13. PICK u : u = r.t
  OBVIOUS
<1>14. Knows(u, t)
  BY <1>10, <1>12, <1>13 DEF Knows
<1>15. Pasted(t, u, a, a, words)
  <2>1. a.off <= a.off /\ a.off - a.off = 0
    BY <1>3
  <2>2. u.struct = Spliced(t.struct, a.off, a.off - a.off, words) /\ Sound(u)
    BY <1>12, <1>13, <2>1
  <2> QED
    BY <1>0, <1>3, <1>14, <2>1, <2>2, PastedWords
<1>16. OfProp(words, f.ret, v)
  <2>1. v \in Structs /\ Untagged(v)
    BY CellsUntagged, CellWords
  <2> QED
    BY <1>10, <1>11, <2>1, PropWordsAre
<1>17. f.ret \in DOMAIN u.strings /\ u.strings[f.ret] = name
  BY <1>10, <1>12, <1>13
<1>18. \A x \in Visited(t) : ~(Word(t, x).tag = "prop" /\ x.path = Began(t.struct, c)
                                   /\ NameAt(t, x) = u.strings[f.ret])
  BY <1>17 DEF IsProp
<1>19. /\ Whole(u) /\ TreeOf(u).nodes = TreeOf(t).nodes
       /\ TreeOf(u).props = TreeOf(t).props \cup {<<Began(t.struct, c), u.strings[f.ret], v>>}
  <2>1. Pasted(t, u, Hop(t, c), Hop(t, c), words)
    BY <1>1, <1>15
  <2> QED
    BY <1>16, <1>17, <1>18, <2>1, PropNew
<1>20. Rest(t, c, name) = TreeOf(t).props
  BY <1>0, RestAll
<1> QED
  BY <1>13, <1>17, <1>19, <1>20 DEF Becomes

(* fdt_setprop: the property has that value, whether it was there or not.  *)
LEMMA SetPropExact ==
  ASSUME NEW t, Sound(t), Ordered(t), Whole(t), NEW c \in Visited(t), Begins(t, c),
         NEW name \in PropNames, NEW v \in ValueSeqs, NEW r, r = FdtSetProp(t, c.off, name, v), r.ret >= 0
  PROVE  Becomes(r.t, TreeOf(t).nodes, Rest(t, c, name) \cup {<<Began(t.struct, c), name, v>>})
<1>0. Sane(t) /\ v \in Structs /\ Untagged(v)
  BY CellsUntagged, CellWords DEF Whole
<1>1. PICK p : p = PropOffset(t, c.off, name)
  OBVIOUS
<1>2. r = IF p >= 0 THEN Resize(t, p, v) ELSE IF p = NOTFOUND THEN AddProperty(t, c.off, name, v)
          ELSE Fail(p, t)
  BY <1>1 DEF FdtSetProp
<1>3. CASE p = NOTFOUND /\ \A x \in Visited(t) : ~IsProp(t, c, x, name)
  <2>1. r = AddProperty(t, c.off, name, v)
    <3>1. ~(p >= 0)
      BY <1>3 DEF NOTFOUND
    <3> QED
      BY <1>2, <1>3, <3>1
  <2> QED
    BY <1>3, <2>1, AddPropertyExact
<1>4. CASE \E x \in Visited(t) : IsProp(t, c, x, name) /\ p = x.off
  <2>1. PICK x \in Visited(t) : IsProp(t, c, x, name) /\ p = x.off
    BY <1>4
  <2>2. Word(t, x).tag = "prop"
    BY <2>1 DEF IsProp
  <2>3. p >= 0
    BY <2>1, <2>2, BehindProp
  <2>4. r = Resize(t, x.off, v)
    BY <1>2, <2>1, <2>3
  <2>5. Valued(t, r.t, x, v)
    BY <1>0, <2>2, <2>4, ResizeValued
  <2> QED
    BY <2>1, <2>5, ValuedExact
<1> QED
  BY <1>1, <1>3, <1>4, PropFound

(* The value of a property of the tree.                                    *)
LEMMA ValueIs ==
  ASSUME NEW t, Whole(t), NEW c \in Visited(t), NEW x \in Visited(t), NEW name, IsProp(t, c, x, name)
  PROVE  /\ <<Began(t.struct, c), name, PropValue(t, x.off)>> \in TreeOf(t).props
         /\ \A y \in TreeOf(t).props : y[1] = Began(t.struct, c) /\ y[2] = name
                                         => y[3] = PropValue(t, x.off)
<1>0. Sane(t)
  BY DEF Whole
<1>1. Word(t, x).tag = "prop" /\ x.path = Began(t.struct, c) /\ NameAt(t, x) = name
  BY DEF IsProp
<1>2. <<Began(t.struct, c), name, PropValue(t, x.off)>> \in TreeOf(t).props
  BY <1>0, <1>1, PropsAre
<1>3. ASSUME NEW y \in TreeOf(t).props, y[1] = Began(t.struct, c), y[2] = name
      PROVE  y[3] = PropValue(t, x.off)
  <2>1. PICK z \in Visited(t) : Word(t, z).tag = "prop" /\ y = <<z.path, NameAt(t, z), PropValue(t, z.off)>>
    BY <1>0, PropsAre
  <2>2. z = x
    <3>1. z.path = x.path /\ NameAt(t, z) = NameAt(t, x)
      BY <1>1, <1>3, <2>1
    <3> QED
      BY <1>1, <2>1, <3>1, OneProp
  <2> QED
    BY <2>1, <2>2
<1> QED
  BY <1>2, <1>3

LEMMA ValueWordsAre ==
  ASSUME NEW t, Sound(t), Whole(t), NEW x \in Visited(t), Word(t, x).tag = "prop", NEW v \in ValueSeqs
  PROVE  PropValue(t, x.off) \o v \in Structs /\ Untagged(PropValue(t, x.off) \o v)
<1>1. PICK s \in Seq(BlobWords) : s = t.struct
  BY SoundWords DEF Structs
<1>2. PICK k \in Nat : k = PropLen(t, x.off)
  BY BehindProp
<1>3. /\ x.off \in Nat /\ Hop(t, x).off = x.off + 3 + k /\ Hop(t, x).off < Len(s) /\ Len(s) \in Nat
  BY <1>1, <1>2, BehindProp
<1>4. \A i \in x.off + 2 .. x.off + 3 + k : s[i][1] # "tag"
  BY <1>1, <1>3, BehindProp
<1>5. PICK o \in Nat : o = x.off
  BY <1>3
<1>6. o + 3 + k < Len(s)
  BY <1>3, <1>5
<1>7. PICK h : h = SubSeq(s, o + 4, o + 3 + k)
  OBVIOUS
<1>8. h = PropValue(t, x.off)
  BY <1>1, <1>2, <1>5, <1>7 DEF PropValue
<1>9. h \in Seq(BlobWords) /\ Len(h) = k /\ \A j \in 1 .. k : h[j] = s[o + 3 + j]
  <2>1. \A i \in o + 4 .. o + 3 + k : s[i] \in BlobWords
    <3>1. ASSUME NEW i \in o + 4 .. o + 3 + k PROVE i \in 1 .. Len(s)
      BY <1>3, <1>6
    <3> QED
      BY <3>1
  <2>2. PICK m \in Nat : m = o + 4
    OBVIOUS
  <2>3. PICK n \in Nat : n = o + 3 + k
    OBVIOUS
  <2>4. n <= Len(s) /\ m >= 1 /\ m <= n + 1 /\ n + 1 - m = k
    BY <1>6, <2>2, <2>3
  <2>5. SubSeq(s, m, n) \in Seq(BlobWords)
    BY <1>3, <2>4
  <2>6. Len(SubSeq(s, m, n)) = k /\ \A j \in 1 .. k : SubSeq(s, m, n)[j] = s[m + j - 1]
    BY <1>3, <2>4
  <2>7. \A j \in 1 .. k : m + j - 1 = o + 3 + j
    BY <2>2
  <2> QED
    BY <1>7, <2>2, <2>3, <2>5, <2>6, <2>7
<1>10. PICK y \in Seq(BlobWords) : y = v
  BY CellWords DEF Structs
<1>11. PICK l \in Nat : l = Len(y)
  OBVIOUS
<1>12. /\ h \o y \in Seq(BlobWords) /\ Len(h \o y) = k + l
       /\ \A j \in 1 .. k + l : (h \o y)[j] = IF j <= k THEN h[j] ELSE y[j - k]
  <2>1. /\ h \o y \in Seq(BlobWords) /\ Len(h \o y) = Len(h) + Len(y)
        /\ \A j \in 1 .. Len(h) + Len(y) : (h \o y)[j] = IF j <= Len(h) THEN h[j] ELSE y[j - Len(h)]
    BY <1>9, ConcatProperties
  <2> QED
    BY <1>9, <1>11, <2>1
<1>13. ASSUME NEW j \in 1 .. k + l PROVE (h \o y)[j][1] # "tag"
  <2>1. CASE j <= k
    <3>1. j \in 1 .. k /\ o + 3 + j \in o + 2 .. o + 3 + k
      BY <2>1
    <3>2. h[j] = s[o + 3 + j]
      BY <1>9, <3>1
    <3>3. s[o + 3 + j][1] # "tag"
      BY <1>4, <1>5, <3>1
    <3> QED
      BY <1>12, <2>1, <3>2, <3>3
  <2>2. CASE ~(j <= k)
    <3>1. j - k \in 1 .. l
      BY <2>2
    <3>2. y[j - k][1] # "tag"
      BY <1>10, <1>11, <3>1, CellsUntagged DEF Untagged
    <3> QED
      BY <1>12, <2>2, <3>2
  <2> QED
    BY <2>1, <2>2
<1> QED
  BY <1>8, <1>10, <1>12, <1>13 DEF Untagged, Structs

(* fdt_appendprop: the value is added to the one there is.                 *)
LEMMA AppendPropExact ==
  ASSUME NEW t, Sound(t), Ordered(t), Whole(t), NEW c \in Visited(t), Begins(t, c),
         NEW name \in PropNames, NEW v \in ValueSeqs, NEW r, r = FdtAppendProp(t, c.off, name, v), r.ret >= 0
  PROVE  \/ /\ \A x \in Visited(t) : ~IsProp(t, c, x, name)
            /\ Becomes(r.t, TreeOf(t).nodes, Rest(t, c, name) \cup {<<Began(t.struct, c), name, v>>})
         \/ \E x \in Visited(t) :
              /\ IsProp(t, c, x, name)
              /\ Becomes(r.t, TreeOf(t).nodes,
                         Rest(t, c, name) \cup {<<Began(t.struct, c), name, PropValue(t, x.off) \o v>>})
<1>1. PICK p : p = PropOffset(t, c.off, name)
  OBVIOUS
<1>2. r = IF p >= 0 THEN Resize(t, p, PropValue(t, p) \o v) ELSE AddProperty(t, c.off, name, v)
  BY <1>1 DEF FdtAppendProp
<1>3. CASE p = NOTFOUND /\ \A x \in Visited(t) : ~IsProp(t, c, x, name)
  <2>1. r = AddProperty(t, c.off, name, v)
    <3>1. ~(p >= 0)
      BY <1>3 DEF NOTFOUND
    <3> QED
      BY <1>2, <3>1
  <2> QED
    BY <1>3, <2>1, AddPropertyExact
<1>4. CASE \E x \in Visited(t) : IsProp(t, c, x, name) /\ p = x.off
  <2>1. PICK x \in Visited(t) : IsProp(t, c, x, name) /\ p = x.off
    BY <1>4
  <2>2. Word(t, x).tag = "prop"
    BY <2>1 DEF IsProp
  <2>3. p >= 0
    BY <2>1, <2>2, BehindProp
  <2>4. PICK w \in Structs : w = PropValue(t, x.off) \o v /\ Untagged(w)
    BY <2>2, ValueWordsAre
  <2>5. r = Resize(t, x.off, w)
    BY <1>2, <2>1, <2>3, <2>4
  <2>6. Valued(t, r.t, x, w)
    BY <2>2, <2>4, <2>5, ResizeValued
  <2>7. Becomes(r.t, TreeOf(t).nodes, Rest(t, c, name) \cup {<<Began(t.struct, c), name, w>>})
    BY <2>1, <2>6, ValuedExact
  <2> QED
    BY <2>1, <2>4, <2>7
<1>5. \/ p = NOTFOUND /\ \A x \in Visited(t) : ~IsProp(t, c, x, name)
      \/ \E x \in Visited(t) : IsProp(t, c, x, name) /\ p = x.off
  BY <1>1, PropFound
<1> QED
  BY <1>3, <1>4, <1>5

(* fdt_setprop_inplace: a property that is there has that value.           *)
LEMMA InplaceExact ==
  ASSUME NEW t, Sound(t), Whole(t), NEW c \in Visited(t), Begins(t, c), NEW name \in PropNames,
         NEW v \in ValueSeqs, NEW r, r = FdtSetPropInplace(t, c.off, name, v), r.ret >= 0
  PROVE  Becomes(r.t, TreeOf(t).nodes, Rest(t, c, name) \cup {<<Began(t.struct, c), name, v>>})
<1>1. v \in Structs /\ Untagged(v)
  BY CellsUntagged, CellWords
<1>2. PICK x \in Visited(t) : IsProp(t, c, x, name) /\ Valued(t, r.t, x, v)
  BY <1>1, InplaceValued
<1> QED
  BY <1>2, ValuedExact

-----------------------------------------------------------------------------
(* Nodes, one operation after the other.                                   *)
NotIn(t, c, S) == {y \in S : ~Heads(Began(t.struct, c), y)}
PropsNotIn(t, c) == {y \in TreeOf(t).props : ~Heads(Began(t.struct, c), y[1])}

(* Where a node ends.                                                      *)
LEMMA BehindNode ==
  ASSUME NEW t, Whole(t), NEW c \in Visited(t), Begins(t, c)
  PROVE  \E e \in Visited(t) :
           LET b == Hop(t, e)
           IN  /\ Closes(t, c, e) /\ b \in Visited(t) /\ NodeEnd(t.struct, c.off) = b.off
               /\ c.off \in Nat /\ b.off \in Nat /\ c.off < b.off
               /\ b.path = c.path /\ b.inTree = c.inTree
<1>0. Sane(t)
  BY DEF Whole
<1>1. PICK e \in Visited(t) : Closes(t, c, e)
  BY <1>0, ClosesOnce
<1>2. PICK b : b = Hop(t, e)
  OBVIOUS
<1>3. NodeEnd(t.struct, c.off) = b.off
  BY <1>0, <1>1, <1>2, NodeEndIs
<1>4. /\ b \in Visited(t) /\ e.off < b.off /\ c.off < e.off
      /\ c.off \in Int /\ e.off \in Int /\ b.off \in Int
      /\ b.path = c.path /\ (b.inTree <=> c.inTree)
  BY <1>1, <1>2, NodeSpan
<1>5. c.off \in 0 .. Len(t.struct) - 1 /\ c.inTree \in BOOLEAN
  BY <1>0, Met
<1>6. b.inTree \in BOOLEAN
  BY <1>0, <1>4, Met
<1>7. c.off \in Nat /\ b.off \in Nat /\ c.off < b.off
  BY <1>4, <1>5
<1>8. b.inTree = c.inTree
  BY <1>4, <1>5, <1>6
<1> QED
  BY <1>1, <1>2, <1>3, <1>4, <1>7, <1>8

LEMMA DelNodeExact ==
  ASSUME NEW t, Sound(t), Ordered(t), Whole(t), NEW c \in Visited(t), Begins(t, c),
         NEW r, r = FdtDelNode(t, c.off), r.ret >= 0
  PROVE  Becomes(r.t, NotIn(t, c, TreeOf(t).nodes), PropsNotIn(t, c))
<1>0. Sane(t)
  BY DEF Whole
<1>1. PICK e \in Visited(t) :
         LET b == Hop(t, e)
         IN  /\ Closes(t, c, e) /\ b \in Visited(t) /\ NodeEnd(t.struct, c.off) = b.off
             /\ c.off \in Nat /\ b.off \in Nat /\ c.off < b.off
             /\ b.path = c.path /\ b.inTree = c.inTree
  BY BehindNode
<1>2. PICK b : b = Hop(t, e)
  OBVIOUS
<1>3. ~(b.off < 0) /\ c.off <= b.off
  BY <1>1, <1>2
<1>4. r = SpliceStruct(t, c.off, b.off - c.off, <<>>)
  BY <1>1, <1>2, <1>3 DEF FdtDelNode
<1>5. Pasted(t, r.t, c, b, <<>>)
  BY <1>0, <1>1, <1>2, <1>3, <1>4, NoWords, SpliceStructPasted
<1>6. Removes(t, r.t, c, b, Gained(c, b, <<>>))
  BY <1>0, <1>1, <1>2, <1>5, NoWords, Cut
<1>7. /\ Whole(r.t) /\ TreeOf(r.t).nodes = {p \in TreeOf(t).nodes : ~Heads(Began(t.struct, c), p)}
      /\ TreeOf(r.t).props = {y \in TreeOf(t).props : ~Heads(Began(t.struct, c), y[1])}
  BY <1>1, <1>2, <1>6, NodeRemoved
<1> QED
  BY <1>7 DEF Becomes, NotIn, PropsNotIn

LEMMA NopNodeExact ==
  ASSUME NEW t, Sound(t), Whole(t), NEW c \in Visited(t), Begins(t, c),
         NEW r, r = FdtNopNode(t, c.off), r.ret >= 0
  PROVE  Becomes(r.t, NotIn(t, c, TreeOf(t).nodes), PropsNotIn(t, c))
<1>0. Sane(t)
  BY DEF Whole
<1>1. PICK e \in Visited(t) :
         LET b == Hop(t, e)
         IN  /\ Closes(t, c, e) /\ b \in Visited(t) /\ NodeEnd(t.struct, c.off) = b.off
             /\ c.off \in Nat /\ b.off \in Nat /\ c.off < b.off
             /\ b.path = c.path /\ b.inTree = c.inTree
  BY BehindNode
<1>2. PICK b : b = Hop(t, e)
  OBVIOUS
<1>3. ~(b.off < 0) /\ c.off <= b.off
  BY <1>1, <1>2
<1>4. r = NopRegion(t, c.off, b.off - c.off)
  BY <1>1, <1>2, <1>3 DEF FdtNopNode
<1>5. \E d : Removes(t, r.t, c, b, d)
  BY <1>0, <1>1, <1>2, <1>3, <1>4, NopRegionPasted
<1>6. PICK d : Removes(t, r.t, c, b, d)
  BY <1>5
<1>7. /\ Whole(r.t) /\ TreeOf(r.t).nodes = {p \in TreeOf(t).nodes : ~Heads(Began(t.struct, c), p)}
      /\ TreeOf(r.t).props = {y \in TreeOf(t).props : ~Heads(Began(t.struct, c), y[1])}
  BY <1>1, <1>2, <1>6, NodeRemoved
<1> QED
  BY <1>7 DEF Becomes, NotIn, PropsNotIn

LEMMA OneWord == ASSUME NEW x \in BlobWords
                 PROVE  \E h \in Seq(BlobWords) : h = <<x>> /\ Len(h) = 1 /\ h[1] = x
<1>1. <<x>> \in Seq(BlobWords) /\ Len(<<x>>) = 1 /\ <<x>>[1] = x
  OBVIOUS
<1> QED
  BY <1>1

LEMMA NodeWordsAre ==
  ASSUME NEW n \in NodeNames
  PROVE  NodeWords(n) \in Structs /\ OfNode(NodeWords(n), n)
<1>0. Tag("begin") \in BlobWords /\ Tag("endnode") \in BlobWords
  BY TagWords DEF Tags
<1>1. PICK h \in Seq(BlobWords) : h = <<Tag("begin")>> /\ Len(h) = 1 /\ h[1] = Tag("begin")
  BY <1>0, OneWord
<1>2. PICK y \in Seq(BlobWords) : y = NameOf(n)
  BY NameSeq DEF Structs
<1>3. PICK z \in Seq(BlobWords) : z = <<Tag("endnode")>> /\ Len(z) = 1 /\ z[1] = Tag("endnode")
  BY <1>0, OneWord
<1>4. Len(h) = 1 /\ h[1] = Tag("begin") /\ Len(z) = 1 /\ z[1] = Tag("endnode")
  BY <1>1, <1>3
<1>5. PICK k \in Nat : k = NameWords[n] /\ k > 0
  BY FdtAssumption
<1>6. Len(y) = k /\ \A j \in 1 .. k : y[j] = Name(n)
  BY <1>2, <1>5, NameSeq DEF NameOf
<1>7. PICK g : g = h \o y
  OBVIOUS
<1>8. g \in Seq(BlobWords) /\ Len(g) = 1 + k /\ g[1] = Tag("begin") /\ \A j \in 1 .. k : g[1 + j] = y[j]
  <2>1. /\ h \o y \in Seq(BlobWords) /\ Len(h \o y) = Len(h) + Len(y)
        /\ \A j \in 1 .. Len(h) + Len(y) : (h \o y)[j] = IF j <= Len(h) THEN h[j] ELSE y[j - Len(h)]
    BY ConcatProperties
  <2>2. g \in Seq(BlobWords) /\ Len(g) = 1 + k /\ \A j \in 1 .. 1 + k : g[j] = IF j <= 1 THEN h[j] ELSE y[j - 1]
    BY <1>4, <1>6, <1>7, <2>1
  <2>3. 1 \in 1 .. 1 + k /\ \A j \in 1 .. k : 1 + j \in 1 .. 1 + k /\ ~(1 + j <= 1) /\ 1 + j - 1 = j
    OBVIOUS
  <2>4. g[1] = h[1]
    BY <2>2, <2>3
  <2>5. ASSUME NEW j \in 1 .. k PROVE g[1 + j] = y[j]
    BY <2>2, <2>3
  <2> QED
    BY <1>4, <2>2, <2>4, <2>5
<1>9. PICK w : w = g \o z
  OBVIOUS
<1>10. w = NodeWords(n)
  BY <1>1, <1>2, <1>3, <1>7, <1>9 DEF NodeWords
<1>11. w \in Seq(BlobWords) /\ Len(w) = k + 2 /\ w[k + 2] = Tag("endnode") /\ \A j \in 1 .. 1 + k : w[j] = g[j]
  <2>1. /\ g \o z \in Seq(BlobWords) /\ Len(g \o z) = Len(g) + Len(z)
        /\ \A j \in 1 .. Len(g) + Len(z) : (g \o z)[j] = IF j <= Len(g) THEN g[j] ELSE z[j - Len(g)]
    BY <1>8, ConcatProperties
  <2>2. w \in Seq(BlobWords) /\ Len(w) = k + 2
        /\ \A j \in 1 .. k + 2 : w[j] = IF j <= 1 + k THEN g[j] ELSE z[j - (1 + k)]
    BY <1>4, <1>8, <1>9, <2>1
  <2>3. k + 2 \in 1 .. k + 2 /\ ~(k + 2 <= 1 + k) /\ k + 2 - (1 + k) = 1
    OBVIOUS
  <2>4. w[k + 2] = z[1]
    BY <2>2, <2>3
  <2>5. ASSUME NEW j \in 1 .. 1 + k PROVE w[j] = g[j]
    <3>1. j \in 1 .. k + 2 /\ j <= 1 + k
      OBVIOUS
    <3> QED
      BY <2>2, <3>1
  <2> QED
    BY <1>4, <2>2, <2>4, <2>5
<1>12. w[1] = Tag("begin") /\ \A j \in 1 .. k : w[1 + j] = Name(n)
  <2>1. 1 \in 1 .. 1 + k /\ \A j \in 1 .. k : 1 + j \in 1 .. 1 + k
    OBVIOUS
  <2>2. w[1] = g[1] /\ \A j \in 1 .. k : w[1 + j] = g[1 + j]
    BY <1>11, <2>1
  <2> QED
    BY <1>6, <1>8, <2>2
<1> QED
  BY <1>5, <1>10, <1>11, <1>12 DEF OfNode, Structs

(* A node of this name, with or without a unit address.                    *)
Taken(t, c, n) == \E m \in NodeNames : (m = n \/ BaseName[m] = n)
                                         /\ Append(Began(t.struct, c), m) \in TreeOf(t).nodes

(* The nodes of a tree and where they are.                                 *)
LEMMA NodesAre ==
  ASSUME NEW t, Sane(t)
  PROVE  /\ \A p \in TreeOf(t).nodes : \E x \in Visited(t) : Begins(t, x) /\ p = Began(t.struct, x)
         /\ \A x \in Visited(t) : Begins(t, x) => Began(t.struct, x) \in TreeOf(t).nodes
         /\ \A y \in TreeOf(t).where : \E x \in Visited(t) : Begins(t, x) /\ y = <<Began(t.struct, x), x.off>>
         /\ \A x \in Visited(t) : Begins(t, x) => <<Began(t.struct, x), x.off>> \in TreeOf(t).where
<1>1. Legible(t.struct)
  BY DEF Sane
<1>2. TreeOf(t) = MeaningOf(t, Visited(t))
  BY <1>1, TreeIs
<1>3. /\ TreeOf(t).nodes = {Began(t.struct, c) : c \in {d \in Visited(t) : Begins(t, d)}}
      /\ TreeOf(t).where = {<<Began(t.struct, c), c.off>> : c \in {d \in Visited(t) : Begins(t, d)}}
  BY <1>2 DEF MeaningOf
<1> QED
  BY <1>3

LEMMA BeganIn ==
  ASSUME NEW t, Sane(t), NEW x \in Visited(t), Begins(t, x), NEW p \in Paths, NEW m \in NodeNames,
         Began(t.struct, x) = Append(p, m)
  PROVE  x.inTree /\ x.path = p /\ t.struct[x.off + 2][2] = m
<1>1. Append(p, m) # <<>> /\ Append(p, m)[Len(p) + 1] = m /\ Up(Append(p, m)) = p
  BY AppendIs
<1>2. x.inTree
  BY <1>1 DEF Began
<1>3. PICK k \in NodeNames : k = t.struct[x.off + 2][2]
  BY MetTag DEF Begins, Word
<1>4. x.path \in Paths
  BY Met DEF Paths
<1>5. Append(x.path, k) = Append(p, m)
  BY <1>2, <1>3 DEF Began
<1>6. Up(Append(x.path, k)) = x.path /\ Append(x.path, k)[Len(x.path) + 1] = k
  BY <1>4, AppendIs
<1>7. x.path = p
  BY <1>1, <1>5, <1>6
<1> QED
  BY <1>1, <1>2, <1>3, <1>5, <1>6, <1>7

(* A child of that name is there when the look-up finds one.               *)
LEMMA ChildTaken ==
  ASSUME NEW t, Sane(t), NEW c \in Visited(t), Begins(t, c), NEW n \in NodeNames
  PROVE  (\E x \in Visited(t) : Child(t, c, x, n)) <=> Taken(t, c, n)
<1>1. PICK q \in Paths : q = Began(t.struct, c)
  BY MetTag DEF Begins, Word, Paths
<1>2. ASSUME NEW x \in Visited(t), Child(t, c, x, n) PROVE Taken(t, c, n)
  <2>1. Begins(t, x) /\ x.inTree /\ x.path = q /\ NameMatches(t.struct, x.off, n)
    BY <1>1, <1>2 DEF Child
  <2>2. PICK m \in NodeNames : m = t.struct[x.off + 2][2]
    BY <2>1, MetTag DEF Begins, Word
  <2>3. m = n \/ BaseName[m] = n
    BY <2>1, <2>2 DEF NameMatches
  <2>4. Began(t.struct, x) = Append(q, m)
    BY <2>1, <2>2 DEF Began
  <2>5. Append(q, m) \in TreeOf(t).nodes
    BY <2>1, <2>4, NodesAre
  <2> QED
    BY <1>1, <2>3, <2>5 DEF Taken
<1>3. ASSUME Taken(t, c, n) PROVE \E x \in Visited(t) : Child(t, c, x, n)
  <2>1. PICK m \in NodeNames : (m = n \/ BaseName[m] = n) /\ Append(q, m) \in TreeOf(t).nodes
    BY <1>1, <1>3 DEF Taken
  <2>2. PICK x \in Visited(t) : Begins(t, x) /\ Append(q, m) = Began(t.struct, x)
    BY <2>1, NodesAre
  <2>3. x.inTree /\ x.path = q /\ t.struct[x.off + 2][2] = m
    BY <2>2, BeganIn
  <2>4. NameMatches(t.struct, x.off, n)
    BY <2>1, <2>3 DEF NameMatches
  <2>5. Child(t, c, x, n)
    BY <1>1, <2>2, <2>3, <2>4 DEF Child
  <2> QED
    BY <2>5
<1> QED
  BY <1>2, <1>3

(* fdt_add_subnode: a node with nothing in it, unless there is one.        *)
LEMMA AddSubnodeExact ==
  ASSUME NEW t, Sound(t), Ordered(t), Whole(t), NEW c \in Visited(t), Begins(t, c), NEW n \in NodeNames,
         NEW r, r = FdtAddSubnode(t, c.off, n), r.ret >= 0
  PROVE  /\ ~Taken(t, c, n)
         /\ Becomes(r.t, TreeOf(t).nodes \cup {Append(Began(t.struct, c), n)}, TreeOf(t).props)
         /\ <<Append(Began(t.struct, c), n), r.ret>> \in TreeOf(r.t).where
<1>0. Sane(t) /\ Word(t, c).tag = "begin" /\ c.off \in Int
  BY Met DEF Whole, Begins, Word
<1>1. PICK k : k = SubnodeOffset(t.struct, c.off, n)
  OBVIOUS
<1>2. PICK e \in Visited(t) :
           /\ Skip(t.struct, NextTag(t.struct, c.off).next, {"prop", "nop"}) = e.off
           /\ e.off > c.off /\ e.off \in Int
           /\ Word(t, e).tag \notin {"prop", "nop"} /\ e.path = Began(t.struct, c) /\ e.inTree
  BY <1>0, AfterPropsIs
<1>3. PICK g : g = SpliceStruct(t, e.off, 0, NodeWords(n))
  OBVIOUS
<1>4. AfterProps(t.struct, c.off) = e.off
  BY <1>2 DEF AfterProps
<1>5. r = IF k >= 0 THEN Fail(EXISTS, t) ELSE IF k # NOTFOUND THEN Fail(k, t)
          ELSE IF NextTag(t.struct, c.off).tag # "begin" THEN Fail(INTERNAL, t)
          ELSE IF g.ret < 0 THEN g ELSE [g EXCEPT !.ret = e.off]
  BY <1>1, <1>3, <1>4 DEF FdtAddSubnode
<1>6. k = NOTFOUND /\ \A x \in Visited(t) : ~Child(t, c, x, n)
  <2>1. ~(EXISTS >= 0)
    BY DEF EXISTS
  <2>2. ~(k >= 0)
    BY <1>5, <2>1 DEF Fail
  <2>3. ASSUME NEW x \in Visited(t) PROVE k # x.off
    BY <1>0, <2>2, <2>3, Met
  <2>4. \/ k = NOTFOUND /\ \A x \in Visited(t) : ~Child(t, c, x, n)
        \/ \E x \in Visited(t) : Child(t, c, x, n) /\ k = x.off
    BY <1>1, SubnodeIs
  <2> QED
    BY <2>3, <2>4
<1>7. ~Taken(t, c, n)
  BY <1>0, <1>6, ChildTaken
<1>8. NextTag(t.struct, c.off).tag = "begin" /\ ~(k >= 0)
  BY <1>6 DEF Begins, NOTFOUND
<1>9. r = IF g.ret < 0 THEN g ELSE [g EXCEPT !.ret = e.off]
  BY <1>5, <1>6, <1>8
<1>10. e.off \in Nat /\ e.off <= Len(t.struct) /\ Len(t.struct) \in Nat /\ 0 < e.off
  <2>1. e.off \in 0 .. Len(t.struct) - 1 /\ Len(t.struct) \in Nat /\ c.off \in 0 .. Len(t.struct) - 1
    BY <1>0, Met
  <2> QED
    BY <1>2, <2>1
<1>11. NodeWords(n) \in Structs /\ OfNode(NodeWords(n), n)
  BY NodeWordsAre
<1>12. PICK words \in Structs : words = NodeWords(n)
  BY <1>11
<1>13. g = SpliceStruct(t, e.off, e.off - e.off, words) /\ e.off <= e.off
  <2>1. e.off - e.off = 0
    BY <1>10
  <2> QED
    BY <1>3, <1>10, <1>12, <2>1
<1>14. g.ret >= 0 /\ g.t = r.t /\ r.ret = e.off
  <2>1. e.off + 0 <= Len(t.struct) /\ 0 \in Nat
    BY <1>10
  <2>2. g.ret \in {0, NOSPACE, BADOFFSET} /\ (g.ret # 0 => g = Fail(g.ret, t)) /\ (g.ret = 0 => g = Ok(g.t))
    BY <1>3, <1>10, <1>11, <2>1, SpliceStructOn
  <2>3. ASSUME g.ret < 0 PROVE FALSE
    <3>1. r = g
      BY <1>9, <2>3
    <3> QED
      BY <2>2, <2>3, <3>1, Codes
  <2>4. g.ret = 0
    BY <2>2, <2>3, Codes
  <2>5. g = Ok(g.t)
    BY <2>2, <2>4
  <2>6. PICK u : u = g.t
    OBVIOUS
  <2>7. g = [ret |-> 0, t |-> u]
    BY <2>5, <2>6 DEF Ok
  <2>8. r = [ret |-> e.off, t |-> u]
    BY <1>9, <2>3, <2>7
  <2> QED
    BY <2>4, <2>7, <2>8
<1>15. Pasted(t, g.t, e, e, words)
  BY <1>0, <1>13, <1>14, SpliceStructPasted
<1>16. PICK u : u = g.t
  OBVIOUS
<1>17. Append(e.path, n) \notin TreeOf(t).nodes
  <2>1. Append(e.path, n) = Append(Began(t.struct, c), n)
    BY <1>2
  <2> QED
    BY <1>7, <2>1 DEF Taken
<1>18. /\ Whole(u) /\ TreeOf(u).nodes = TreeOf(t).nodes \cup {Append(e.path, n)}
       /\ TreeOf(u).props = TreeOf(t).props
       /\ \E z \in Visited(u) : Begins(u, z) /\ Began(u.struct, z) = Append(e.path, n) /\ z.off = e.off
  <2>1. Pasted(t, u, e, e, words) /\ OfNode(words, n)
    BY <1>11, <1>12, <1>15, <1>16
  <2>2. Within(e) /\ Word(t, e).tag \notin Minor
    BY <1>2 DEF Within, Minor
  <2> QED
    BY <1>10, <1>17, <2>1, <2>2, NodePlaced
<1>19. <<Append(e.path, n), e.off>> \in TreeOf(u).where
  BY <1>18, NodesAre DEF Whole
<1> QED
  BY <1>2, <1>7, <1>14, <1>16, <1>18, <1>19 DEF Becomes

LEMMA NameWordsAre ==
  ASSUME NEW n \in NodeNames, NEW words, words = <<Tag("begin")>> \o NameOf(n)
  PROVE  words \in Structs /\ OfName(words, n)
<1>0. Tag("begin") \in BlobWords
  BY TagWords DEF Tags
<1>1. PICK h \in Seq(BlobWords) : h = <<Tag("begin")>> /\ Len(h) = 1 /\ h[1] = Tag("begin")
  BY <1>0, OneWord
<1>2. PICK y \in Seq(BlobWords) : y = NameOf(n)
  BY NameSeq DEF Structs
<1>4. Len(h) = 1 /\ h[1] = Tag("begin")
  BY <1>1
<1>5. PICK k \in Nat : k = NameWords[n] /\ k > 0
  BY FdtAssumption
<1>6. Len(y) = k /\ \A j \in 1 .. k : y[j] = Name(n)
  BY <1>2, <1>5, NameSeq DEF NameOf
<1>7. words = h \o y
  BY <1>1, <1>2
<1>8. words \in Seq(BlobWords) /\ Len(words) = 1 + k /\ words[1] = Tag("begin")
      /\ \A j \in 1 .. k : words[1 + j] = y[j]
  <2>1. /\ h \o y \in Seq(BlobWords) /\ Len(h \o y) = Len(h) + Len(y)
        /\ \A j \in 1 .. Len(h) + Len(y) : (h \o y)[j] = IF j <= Len(h) THEN h[j] ELSE y[j - Len(h)]
    BY ConcatProperties
  <2>2. words \in Seq(BlobWords) /\ Len(words) = 1 + k
        /\ \A j \in 1 .. 1 + k : words[j] = IF j <= 1 THEN h[j] ELSE y[j - 1]
    BY <1>4, <1>6, <1>7, <2>1
  <2>3. 1 \in 1 .. 1 + k /\ \A j \in 1 .. k : 1 + j \in 1 .. 1 + k /\ ~(1 + j <= 1) /\ 1 + j - 1 = j
    OBVIOUS
  <2>4. words[1] = h[1]
    BY <2>2, <2>3
  <2>5. ASSUME NEW j \in 1 .. k PROVE words[1 + j] = y[j]
    BY <2>2, <2>3
  <2> QED
    BY <1>4, <2>2, <2>4, <2>5
<1>9. \A j \in 1 .. k : words[1 + j] = Name(n)
  BY <1>6, <1>8
<1>10. Len(words) = k + 1
  BY <1>8
<1> QED
  BY <1>5, <1>8, <1>9, <1>10 DEF OfName, Structs

(* Replacing the words of the name replaces those of the whole tag.        *)
LEMMA NameSpliced ==
  ASSUME NEW t, Sound(t), Whole(t), NEW c \in Visited(t), Begins(t, c), NEW n \in NodeNames,
         NEW u, Sound(u), u.strings = t.strings,
         u.struct = Spliced(t.struct, c.off + 1, NameWords[t.struct[c.off + 2][2]], NameOf(n)),
         NEW words, words = <<Tag("begin")>> \o NameOf(n)
  PROVE  Renamed(t, u, c, n, words)
<1>0. Sane(t) /\ Word(t, c).tag = "begin"
  BY DEF Whole, Begins, Word
<1>1. words \in Structs /\ OfName(words, n)
  BY NameWordsAre
<1>2. PICK b : b = Hop(t, c)
  OBVIOUS
<1>3. PICK k \in Nat : k = NameWords[t.struct[c.off + 2][2]]
  BY <1>0, MetTag, FdtAssumption
<1>4. /\ b \in Visited(t) /\ c.off \in Nat /\ b.off = c.off + 1 + k /\ b.off < Len(t.struct)
      /\ Len(t.struct) \in Nat /\ t.struct[c.off + 1] = Tag("begin")
  <2>1. ~Stops(t, c) /\ b \in Visited(t) /\ TagAt(t.struct, c.off, Word(t, c))
        /\ c.off \in 0 .. Len(t.struct) - 1 /\ Len(t.struct) \in Nat
    BY <1>0, <1>2, Met
  <2>2. b.off = Word(t, c).next
    BY <1>0, <1>2, <2>1, Met
  <2>3. Word(t, c).next = c.off + 1 + k /\ t.struct[c.off + 1] = Tag("begin")
    BY <1>0, <1>3, <2>1 DEF TagAt
  <2>4. b.off \in 0 .. Len(t.struct) - 1
    BY <1>0, <2>1, Met
  <2> QED
    BY <2>1, <2>2, <2>3, <2>4
<1>5. u.struct = Spliced(t.struct, c.off, b.off - c.off, words)
  <2>1. PICK s \in Seq(BlobWords) : s = t.struct
    BY SoundWords DEF Structs
  <2>2. PICK y \in Seq(BlobWords) : y = NameOf(n)
    BY NameSeq DEF Structs
  <2>3. PICK o \in Nat : o = c.off
    BY <1>4
  <2>4. PICK p : p = SubSeq(s, 1, o)
    OBVIOUS
  <2>5. PICK z : z = SubSeq(s, o + 1 + k + 1, Len(s))
    OBVIOUS
  <2>6. /\ p \in Seq(BlobWords) /\ z \in Seq(BlobWords) /\ Tag("begin") \in BlobWords
        /\ SubSeq(s, 1, o + 1) = p \o <<Tag("begin")>>
    <3>1. o + 1 \in 1 .. Len(s) /\ 1 \in 1 .. Len(s) /\ o + 1 - 1 = o /\ Len(s) \in Nat
          /\ o + 1 + k < Len(s)
      BY SMTT(30), <1>4, <2>1, <2>3
    <3>2. SubSeq(s, 1, o + 1) = SubSeq(s, 1, o + 1 - 1) \o <<s[o + 1]>>
      BY <3>1, SubSeqRecursiveSecond
    <3>3. s[o + 1] = Tag("begin")
      BY <1>4, <2>1, <2>3
    <3>4. \A i \in 1 .. o : s[i] \in BlobWords
      BY <3>1
    <3>5. \A i \in o + 1 + k + 1 .. Len(s) : s[i] \in BlobWords
      BY <3>1
    <3>6. p \in Seq(BlobWords)
      BY <2>4, <3>4, SubSeqProperties
    <3>7. z \in Seq(BlobWords)
      BY <2>5, <3>1, <3>5, SubSeqProperties
    <3> QED
      BY <2>4, <3>1, <3>2, <3>3, <3>6, <3>7, TagWords DEF Tags
  <2>7. u.struct = (SubSeq(s, 1, o + 1) \o y) \o z
    BY <1>3, <2>1, <2>2, <2>3, <2>5 DEF Spliced
  <2>8. Spliced(t.struct, c.off, b.off - c.off, words) = (p \o words) \o z
    <3>1. o + (b.off - c.off) + 1 = o + 1 + k + 1
      BY SMTT(30), <1>4, <2>3
    <3>2. Spliced(t.struct, c.off, b.off - c.off, words)
            = (SubSeq(s, 1, o) \o words) \o SubSeq(s, o + (b.off - c.off) + 1, Len(s))
      BY <2>1, <2>3 DEF Spliced
    <3> QED
      BY ZenonT(60), <2>4, <2>5, <3>1, <3>2
  <2>9. PICK h \in Seq(BlobWords) : h = <<Tag("begin")>>
    BY <2>6, OneWord
  <2>10. (p \o h) \o y = p \o (h \o y)
    <3>1. PICK x \in Seq(BlobWords), v \in Seq(BlobWords) : x = p /\ v = y
      BY <2>6
    <3>2. (x \o h) \o v = x \o (h \o v)
      BY ConcatAssociative, SMTT(30)
    <3> QED
      BY <3>1, <3>2
  <2>11. SubSeq(s, 1, o + 1) \o y = p \o words
    BY <2>2, <2>6, <2>9, <2>10
  <2> QED
    BY <2>7, <2>8, <2>11
<1>6. Pasted(t, u, c, b, words)
  <2>1. Knows(u, t)
    BY KnowsItself
  <2>2. c.off <= b.off
    BY <1>3, <1>4
  <2> QED
    BY <1>0, <1>1, <1>4, <1>5, <2>1, <2>2, PastedWords
<1> QED
  BY <1>1, <1>2, <1>6 DEF Renamed

(* fdt_set_name: the node, and all that is in it, is called that.          *)
LEMMA SetNameExact ==
  ASSUME NEW t, Sound(t), Ordered(t), Whole(t), NEW c \in Visited(t), Begins(t, c), NEW n \in NodeNames,
         FreeName(t, c, n), NEW r, r = FdtSetName(t, c.off, n), r.ret >= 0
  PROVE  Becomes(r.t, {Ren(Began(t.struct, c), n, p) : p \in TreeOf(t).nodes},
                 {<<Ren(Began(t.struct, c), n, y[1]), y[2], y[3]>> : y \in TreeOf(t).props})
<1>0. Sane(t) /\ Word(t, c).tag = "begin"
  BY DEF Whole, Begins, Word
<1>1. PICK k \in Nat : k = NameWords[t.struct[c.off + 2][2]]
  BY <1>0, MetTag, FdtAssumption
<1>2. /\ c.off \in Nat /\ c.off + 1 + k <= Len(t.struct) /\ Len(t.struct) \in Nat
      /\ CheckTag(t.struct, c.off, "begin") = c.off + 1 + k
  <2>1. TagAt(t.struct, c.off, Word(t, c)) /\ c.off \in 0 .. Len(t.struct) - 1 /\ Len(t.struct) \in Nat
        /\ Word(t, c).next \in c.off + 1 .. Len(t.struct)
    BY <1>0, Met
  <2>2. Word(t, c).next = c.off + 1 + k
    BY <1>0, <1>1, <2>1 DEF TagAt
  <2>3. CheckTag(t.struct, c.off, "begin") = Word(t, c).next
    BY <1>0, CheckTagMet
  <2> QED
    BY <2>1, <2>2, <2>3
<1>3. r = SpliceStruct(t, c.off + 1, k, NameOf(n))
  <2>1. ~(c.off + 1 + k < 0)
    BY <1>1, <1>2
  <2> QED
    BY <1>1, <1>2, <2>1 DEF FdtSetName
<1>4. /\ Sound(r.t) /\ r.t.strings = t.strings
      /\ r.t.struct = Spliced(t.struct, c.off + 1, k, NameOf(n))
  <2>1. c.off + 1 \in Nat /\ (c.off + 1) + k <= Len(t.struct)
    BY <1>1, <1>2
  <2>2. NameOf(n) \in Structs
    BY NameSeq
  <2>3. /\ r.ret \in {0, NOSPACE, BADOFFSET} /\ Sound(r.t)
        /\ r.ret = 0 => /\ r.t.strings = t.strings
                        /\ r.t.struct = Spliced(t.struct, c.off + 1, k, NameOf(n))
    BY <1>3, <2>1, <2>2, SpliceStructOn
  <2>4. r.ret = 0
    BY <2>3, Codes
  <2> QED
    BY <2>3, <2>4
<1>5. PICK words : words = <<Tag("begin")>> \o NameOf(n)
  OBVIOUS
<1>6. PICK u : u = r.t
  OBVIOUS
<1>7. Renamed(t, u, c, n, words)
  BY <1>1, <1>4, <1>5, <1>6, NameSpliced
<1>8. /\ Whole(u) /\ TreeOf(u).nodes = {Ren(Began(t.struct, c), n, p) : p \in TreeOf(t).nodes}
      /\ TreeOf(u).props = {<<Ren(Began(t.struct, c), n, y[1]), y[2], y[3]>> : y \in TreeOf(t).props}
  BY <1>7, NodeRenamed
<1> QED
  BY <1>6, <1>8 DEF Becomes

-----------------------------------------------------------------------------
(* What the changes are called in DeviceTree.                              *)
LEMMA MeaningOn ==
  ASSUME NEW t, Whole(t), NEW nodes, NEW props, Becomes(t, nodes, props)
  PROVE  TreeOf(t).ok = TRUE /\ Meaning(TreeOf(t)) = [nodes |-> nodes, props |-> props]
<1>1. Sane(t)
  BY DEF Whole
<1>2. TreeOf(t).ok = TRUE
  BY <1>1, MeaningIs
<1> QED
  BY <1>2 DEF Becomes, Meaning

LEMMA OthersIs ==
  ASSUME NEW t, NEW c, NEW name
  PROVE  Abstract!Others(Meaning(TreeOf(t)), Began(t.struct, c), name) = Rest(t, c, name)
  BY DEF Abstract!Others, Rest, Meaning

LEMMA WithPropIs ==
  ASSUME NEW t, NEW c, NEW name, NEW v
  PROVE  Abstract!WithProp(Meaning(TreeOf(t)), Began(t.struct, c), name, v)
           = [nodes |-> TreeOf(t).nodes,
              props |-> Rest(t, c, name) \cup {<<Began(t.struct, c), name, v>>}]
<1>1. PICK m : m = Meaning(TreeOf(t))
  OBVIOUS
<1>2. m = [nodes |-> TreeOf(t).nodes, props |-> TreeOf(t).props]
  BY <1>1 DEF Meaning
<1>3. Abstract!Others(m, Began(t.struct, c), name) = Rest(t, c, name)
  BY <1>1, OthersIs
<1>4. Abstract!WithProp(m, Began(t.struct, c), name, v)
        = [m EXCEPT !.props = Rest(t, c, name) \cup {<<Began(t.struct, c), name, v>>}]
  BY <1>3 DEF Abstract!WithProp
<1> QED
  BY <1>1, <1>2, <1>4

LEMMA WithoutPropIs ==
  ASSUME NEW t, NEW c, NEW name
  PROVE  Abstract!WithoutProp(Meaning(TreeOf(t)), Began(t.struct, c), name)
           = [nodes |-> TreeOf(t).nodes, props |-> Rest(t, c, name)]
<1>1. PICK m : m = Meaning(TreeOf(t))
  OBVIOUS
<1>2. m = [nodes |-> TreeOf(t).nodes, props |-> TreeOf(t).props]
  BY <1>1 DEF Meaning
<1>3. Abstract!Others(m, Began(t.struct, c), name) = Rest(t, c, name)
  BY <1>1, OthersIs
<1>4. Abstract!WithoutProp(m, Began(t.struct, c), name) = [m EXCEPT !.props = Rest(t, c, name)]
  BY <1>3 DEF Abstract!WithoutProp
<1> QED
  BY <1>1, <1>2, <1>4

LEMMA WithNodeIs ==
  ASSUME NEW t, NEW path, NEW n
  PROVE  Abstract!WithNode(Meaning(TreeOf(t)), path, n)
           = [nodes |-> TreeOf(t).nodes \cup {Append(path, n)}, props |-> TreeOf(t).props]
<1>1. PICK m : m = Meaning(TreeOf(t))
  OBVIOUS
<1>2. m = [nodes |-> TreeOf(t).nodes, props |-> TreeOf(t).props]
  BY <1>1 DEF Meaning
<1>4. Abstract!WithNode(m, path, n) = [m EXCEPT !.nodes = m.nodes \cup {Append(path, n)}]
  BY DEF Abstract!WithNode
<1> QED
  BY <1>1, <1>2, <1>4

(* Every property is one of a node.                                        *)
LEMMA PropsOfNodes ==
  ASSUME NEW t, Whole(t), NEW y \in TreeOf(t).props
  PROVE  y[1] \in TreeOf(t).nodes /\ y = <<y[1], y[2], y[3]>>
<1>0. Sane(t)
  BY DEF Whole
<1>1. PICK x \in Visited(t) : Word(t, x).tag = "prop" /\ y = <<x.path, NameAt(t, x), PropValue(t, x.off)>>
  BY <1>0, PropsAre
<1>2. PICK d \in Visited(t) : Begins(t, d) /\ Began(t.struct, d) = x.path
  BY <1>1, PropFront
<1>3. Began(t.struct, d) \in TreeOf(t).nodes
  BY <1>0, <1>2, NodesAre
<1> QED
  BY <1>1, <1>2, <1>3

LEMMA BelowIs ==
  ASSUME NEW t, Whole(t), NEW path
  PROVE  LET B == Abstract!Below(Meaning(TreeOf(t)), path)
         IN  /\ \A q \in TreeOf(t).nodes : q \in B <=> Heads(path, q)
             /\ \A y \in TreeOf(t).props : y[1] \in B <=> Heads(path, y[1])
<1>1. Abstract!Below(Meaning(TreeOf(t)), path) = {q \in TreeOf(t).nodes : Heads(path, q)}
  BY DEF Abstract!Below, Meaning, Heads
<1>2. \A y \in TreeOf(t).props : y[1] \in TreeOf(t).nodes
  BY PropsOfNodes
<1> QED
  BY <1>1, <1>2

LEMMA WithoutNodeIs ==
  ASSUME NEW t, Whole(t), NEW c
  PROVE  Abstract!WithoutNode(Meaning(TreeOf(t)), Began(t.struct, c))
           = [nodes |-> NotIn(t, c, TreeOf(t).nodes), props |-> PropsNotIn(t, c)]
<1>1. PICK m : m = Meaning(TreeOf(t))
  OBVIOUS
<1>2. m.nodes = TreeOf(t).nodes /\ m.props = TreeOf(t).props
  BY <1>1 DEF Meaning
<1>3. PICK B : B = Abstract!Below(m, Began(t.struct, c))
  OBVIOUS
<1>4. /\ \A q \in TreeOf(t).nodes : q \in B <=> Heads(Began(t.struct, c), q)
      /\ \A y \in TreeOf(t).props : y[1] \in B <=> Heads(Began(t.struct, c), y[1])
  BY <1>1, <1>3, BelowIs
<1>5. Abstract!WithoutNode(m, Began(t.struct, c))
        = [nodes |-> m.nodes \ B, props |-> {x \in m.props : x[1] \notin B}]
  BY <1>3 DEF Abstract!WithoutNode
<1>6. m.nodes \ B = NotIn(t, c, TreeOf(t).nodes)
  BY <1>2, <1>4 DEF NotIn
<1>7. {x \in m.props : x[1] \notin B} = PropsNotIn(t, c)
  BY <1>2, <1>4 DEF PropsNotIn
<1> QED
  BY <1>1, <1>5, <1>6, <1>7

LEMMA WithNameIs ==
  ASSUME NEW t, Whole(t), NEW path, NEW n
  PROVE  Abstract!WithName(Meaning(TreeOf(t)), path, n)
           = [nodes |-> {Ren(path, n, q) : q \in TreeOf(t).nodes},
              props |-> {<<Ren(path, n, y[1]), y[2], y[3]>> : y \in TreeOf(t).props}]
<1>1. PICK m : m = Meaning(TreeOf(t))
  OBVIOUS
<1>2. m = [nodes |-> TreeOf(t).nodes, props |-> TreeOf(t).props]
  BY <1>1 DEF Meaning
<1>3. CASE path = <<>>
  <2>1. \A q : Ren(path, n, q) = q
    BY <1>3 DEF Ren
  <2>2. {Ren(path, n, q) : q \in TreeOf(t).nodes} = TreeOf(t).nodes
    BY <2>1
  <2>3. {<<Ren(path, n, y[1]), y[2], y[3]>> : y \in TreeOf(t).props} = TreeOf(t).props
    BY <2>1, PropsOfNodes
  <2>4. Abstract!WithName(m, path, n) = m
    BY <1>3 DEF Abstract!WithName
  <2> QED
    BY <1>1, <1>2, <2>2, <2>3, <2>4
<1>4. CASE path # <<>>
  <2>1. PICK B : B = Abstract!Below(m, path)
    OBVIOUS
  <2>2. /\ \A q \in TreeOf(t).nodes : q \in B <=> Heads(path, q)
        /\ \A y \in TreeOf(t).props : y[1] \in B <=> Heads(path, y[1])
    BY <1>1, <2>1, BelowIs
  <2> DEFINE R(q) == IF q \in B THEN [q EXCEPT ![Len(path)] = n] ELSE q
  <2>3. Abstract!WithName(m, path, n)
          = [nodes |-> {R(q) : q \in m.nodes}, props |-> {<<R(y[1]), y[2], y[3]>> : y \in m.props}]
    BY <1>4, <2>1 DEF Abstract!WithName
  <2>4. \A q \in TreeOf(t).nodes : R(q) = Ren(path, n, q)
    BY <1>4, <2>2 DEF Ren
  <2>5. \A y \in TreeOf(t).props : R(y[1]) = Ren(path, n, y[1])
    BY <1>4, <2>2 DEF Ren
  <2> HIDE DEF R
  <2>6. {R(q) : q \in m.nodes} = {Ren(path, n, q) : q \in TreeOf(t).nodes}
    BY <1>2, <2>4
  <2>7. {<<R(y[1]), y[2], y[3]>> : y \in m.props} = {<<Ren(path, n, y[1]), y[2], y[3]>> : y \in TreeOf(t).props}
    BY <1>2, <2>5
  <2> QED
    BY <1>1, <2>3, <2>6, <2>7
<1> QED
  BY <1>3, <1>4

(* The values of a property.                                               *)
LEMMA ValueOfIs ==
  ASSUME NEW t, Whole(t), NEW c \in Visited(t), NEW name, NEW tr, tr.props = TreeOf(t).props
  PROVE  /\ (\A x \in Visited(t) : ~IsProp(t, c, x, name))
              => Abstract!ValueOf(tr, Began(t.struct, c), name) = {}
         /\ \A x \in Visited(t) : IsProp(t, c, x, name)
              => Abstract!ValueOf(tr, Began(t.struct, c), name) = {PropValue(t, x.off)}
<1>1. PICK V : V = Abstract!ValueOf(tr, Began(t.struct, c), name)
  OBVIOUS
<1>2. V = {y[3] : y \in {z \in TreeOf(t).props : z[1] = Began(t.struct, c) /\ z[2] = name}}
  BY <1>1 DEF Abstract!ValueOf
<1>3. ASSUME \A x \in Visited(t) : ~IsProp(t, c, x, name) PROVE V = {}
  <2>1. Rest(t, c, name) = TreeOf(t).props
    BY <1>3, RestAll DEF Whole
  <2>2. \A y \in TreeOf(t).props : ~(y[1] = Began(t.struct, c) /\ y[2] = name)
    BY <2>1 DEF Rest
  <2> QED
    BY <1>2, <2>2
<1>4. ASSUME NEW x \in Visited(t), IsProp(t, c, x, name) PROVE V = {PropValue(t, x.off)}
  <2>1. PICK z : z = <<Began(t.struct, c), name, PropValue(t, x.off)>>
    OBVIOUS
  <2>2. z \in TreeOf(t).props /\ z[1] = Began(t.struct, c) /\ z[2] = name /\ z[3] = PropValue(t, x.off)
    BY <1>4, <2>1, ValueIs
  <2>3. \A y \in TreeOf(t).props : y[1] = Began(t.struct, c) /\ y[2] = name => y[3] = PropValue(t, x.off)
    BY <1>4, ValueIs
  <2> QED
    BY <1>2, <2>2, <2>3
<1> QED
  BY <1>1, <1>3, <1>4

LEMMA FreeIs ==
  ASSUME NEW t, NEW c, NEW n, ~Taken(t, c, n)
  PROVE  Abstract!Free(Meaning(TreeOf(t)), Began(t.struct, c), n)
<1>1. DOMAIN BaseName = NodeNames
  BY FdtAssumption
<1>2. Meaning(TreeOf(t)).nodes = TreeOf(t).nodes
  BY DEF Meaning
<1> QED
  BY <1>1, <1>2 DEF Abstract!Free, Taken

-----------------------------------------------------------------------------
(* Offsets where no node begins.                                           *)
LEMMA NoNodeFails ==
  ASSUME NEW t, Sane(t), NEW o \in Int, NextTag(t.struct, o).tag # "begin", NEW name, NEW v
  PROVE  /\ FdtSetProp(t, o, name, v).ret < 0 /\ FdtAppendProp(t, o, name, v).ret < 0
         /\ FdtDelProp(t, o, name).ret < 0 /\ FdtSetPropInplace(t, o, name, v).ret < 0
         /\ FdtNopProperty(t, o, name).ret < 0
         /\ FdtSetName(t, o, name).ret < 0 /\ FdtAddSubnode(t, o, name).ret < 0
         /\ FdtDelNode(t, o).ret < 0 /\ FdtNopNode(t, o).ret < 0
<1>1. PICK p : p = PropOffset(t, o, name)
  OBVIOUS
<1>2. PICK n : n = CheckTag(t.struct, o, "begin")
  OBVIOUS
<1>3. PICK e : e = NodeEnd(t.struct, o)
  OBVIOUS
<1>4. PICK k : k = SubnodeOffset(t.struct, o, name)
  OBVIOUS
<1>5. p = BADOFFSET /\ n = BADOFFSET /\ e < 0 /\ k = (IF o < 0 THEN o ELSE BADOFFSET)
  BY <1>1, <1>2, <1>3, <1>4, NotBegun
<1>6. /\ p < 0 /\ ~(p >= 0) /\ p # NOTFOUND /\ n < 0 /\ k < 0 /\ ~(k >= 0)
      /\ INTERNAL < 0
  BY <1>5 DEF BADOFFSET, NOTFOUND, INTERNAL
<1>7. \A x : x < 0 => Fail(x, t).ret < 0
  BY DEF Fail
<1>8. AddProperty(t, o, name, v).ret < 0
  <2>1. AddProperty(t, o, name, v) = Fail(n, t)
    BY <1>2, <1>6 DEF AddProperty
  <2> QED
    BY <1>6, <1>7, <2>1
<1>9. FdtSetProp(t, o, name, v) = Fail(p, t)
  BY <1>1, <1>6 DEF FdtSetProp
<1>10. FdtAppendProp(t, o, name, v) = AddProperty(t, o, name, v)
  BY <1>1, <1>6 DEF FdtAppendProp
<1>11. FdtDelProp(t, o, name) = Fail(p, t)
  BY <1>1, <1>6 DEF FdtDelProp
<1>12. FdtSetPropInplace(t, o, name, v) = Fail(p, t)
  BY <1>1, <1>6 DEF FdtSetPropInplace
<1>13. FdtNopProperty(t, o, name) = Fail(p, t)
  BY <1>1, <1>6 DEF FdtNopProperty
<1>14. FdtSetName(t, o, name) = Fail(n, t)
  BY <1>2, <1>6 DEF FdtSetName
<1>15. FdtAddSubnode(t, o, name) \in {Fail(k, t), Fail(INTERNAL, t)}
  BY <1>4, <1>6 DEF FdtAddSubnode
<1>16. FdtDelNode(t, o) = Fail(e, t)
  BY <1>3, <1>5 DEF FdtDelNode
<1>17. FdtNopNode(t, o) = Fail(e, t)
  BY <1>3, <1>5 DEF FdtNopNode
<1> QED
  BY <1>5, <1>6, <1>7, <1>8, <1>9, <1>10, <1>11, <1>12, <1>13, <1>14, <1>15, <1>16, <1>17

(* An operation that changes something was given a node.                   *)
LEMMA AtNode ==
  ASSUME NEW t, Sane(t), NEW o \in Int, NEW r, Safe(t, r),
         NextTag(t.struct, o).tag # "begin" => r.ret < 0
  PROVE  r.t = t \/ (r.ret >= 0 /\ \E c \in Visited(t) : c.off = o /\ Begins(t, c))
<1>1. r.ret \in Int /\ (r.ret < 0 => r.t = t)
  BY DEF Safe
<1>2. CASE r.ret < 0
  BY <1>1, <1>2
<1>3. CASE ~(r.ret < 0)
  <2>1. r.ret >= 0
    BY <1>1, <1>3
  <2>2. NextTag(t.struct, o).tag = "begin"
    BY <1>3
  <2> QED
    BY <2>1, <2>2, BeginsHere
<1> QED
  BY <1>2, <1>3

-----------------------------------------------------------------------------
(* Operations that leave structure and strings alone.                      *)
Unmoved(t, u) == u.struct = t.struct /\ u.strings = t.strings

LEMMA UnmovedTree ==
  ASSUME NEW t, Whole(t), NEW u, Unmoved(t, u)
  PROVE  Whole(u) /\ TreeOf(u) = TreeOf(t)
<1>1. u.struct = t.struct /\ u.strings = t.strings
  BY DEF Unmoved
<1>2. Sane(t) /\ Legible(t.struct) /\ Legible(u.struct)
  BY <1>1 DEF Whole, Sane
<1>3. Visited(u) = Visited(t) /\ MeaningOf(u, Visited(u)) = MeaningOf(t, Visited(t))
  BY <1>1, SameReading
<1>4. TreeOf(u) = TreeOf(t)
  BY <1>2, <1>3, TreeIs
<1>5. \A c : Hop(u, c) = Hop(t, c) /\ Stops(u, c) = Stops(t, c)
  BY <1>1 DEF Hop, Stops, Onto, Known
<1>6. \A c : Begins(u, c) = Begins(t, c) /\ Carries(u, c) = Carries(t, c)
             /\ EndsWell(u, c) = EndsWell(t, c) /\ PropAt(u, c) = PropAt(t, c)
  BY <1>1, <1>5 DEF Begins, Carries, EndsWell, PropAt, PropValue, PropLen
<1>7. \A c : Note(u, c) = Note(t, c)
  BY <1>1, <1>6 DEF Note
<1>8. Notes(u) = Notes(t)
  BY <1>3, <1>7 DEF Notes
<1>9. ReadsThrough(t, Visited(t))
  BY <1>2 DEF Sane
<1>10. ReadsThrough(u, Visited(u))
  BY <1>1, <1>3, <1>5, <1>6, <1>9 DEF ReadsThrough
<1> QED
  BY <1>2, <1>4, <1>8, <1>10 DEF Whole, Sane

LEMMA FailUnmoved == ASSUME NEW t, NEW e PROVE Unmoved(t, Fail(e, t).t)
  BY DEF Unmoved, Fail

LEMMA RsvUnmoved ==
  ASSUME NEW t \in Blobs, NEW n, NEW old, NEW entries
  PROVE  Unmoved(t, SpliceRsv(t, n, old, entries).t)
  BY DEF SpliceRsv, SpliceOr, Fail, Ok, Unmoved, Blobs

LEMMA PackedUnmoved ==
  ASSUME NEW t \in Blobs
  PROVE  Unmoved(t, Packed(t)) /\ \A size : Unmoved(t, [Packed(t) EXCEPT !.total = size])
  BY DEF Packed, Unmoved, Blobs

LEMMA MemRsvUnmoved ==
  ASSUME NEW t, Sound(t), NEW size, NEW n
  PROVE  Unmoved(t, FdtAddMemRsv(t, size).t) /\ Unmoved(t, FdtDelMemRsv(t, n).t)
<1>1. t \in Blobs
  BY SoundWords
<1>2. Unmoved(t, FdtAddMemRsv(t, size).t)
  BY <1>1, RsvUnmoved DEF FdtAddMemRsv
<1>3. Unmoved(t, SpliceRsv(t, n, 1, <<>>).t) /\ Unmoved(t, Fail(NOTFOUND, t).t)
  BY <1>1, RsvUnmoved, FailUnmoved
<1>4. Unmoved(t, FdtDelMemRsv(t, n).t)
  BY <1>3 DEF FdtDelMemRsv
<1> QED
  BY <1>2, <1>4

LEMMA PackUnmoved ==
  ASSUME NEW t, Sound(t), NEW b, NEW apart
  PROVE  Unmoved(t, FdtPack(t).t) /\ Unmoved(t, FdtOpenInto(t, b, apart).t)
<1>1. t \in Blobs
  BY SoundWords
<1>2. \A size : Unmoved(t, [Packed(t) EXCEPT !.total = size])
  BY <1>1, PackedUnmoved
<1>3. Unmoved(t, FdtPack(t).t)
  BY <1>2 DEF FdtPack, Ok
<1>4. Unmoved(t, [t EXCEPT !.total = b]) /\ Unmoved(t, Fail(NOSPACE, t).t)
  BY <1>1, FailUnmoved DEF Unmoved, Blobs
<1>5. FdtOpenInto(t, b, apart).t \in {Fail(NOSPACE, t).t, [t EXCEPT !.total = b], [Packed(t) EXCEPT !.total = b]}
  BY DEF FdtOpenInto, Ok
<1>6. Unmoved(t, FdtOpenInto(t, b, apart).t)
  BY <1>2, <1>4, <1>5
<1> QED
  BY <1>3, <1>6

-----------------------------------------------------------------------------
(* The tree kept beside the blob is what the blob means.                   *)
TreeInv == SoundBlob /\ Whole(blob) /\ tree = TreeOf(blob)

LEMMA DoTree ==
  ASSUME TreeInv, NEW r, Safe(blob, r), Do(r), NEW nodes, NEW props,
         r.t = blob \/ Becomes(r.t, nodes, props)
  PROVE  /\ TreeInv'
         /\ Meaning(tree)' = Meaning(tree) \/ Meaning(tree)' = [nodes |-> nodes, props |-> props]
<1>1. SoundBlob'
  BY DoSafe DEF TreeInv
<1>2. blob' = r.t /\ tree' = IF r.t = blob THEN tree ELSE TreeOf(r.t)
  BY DEF Do
<1>3. CASE r.t = blob
  BY <1>1, <1>2, <1>3 DEF TreeInv, Meaning
<1>4. CASE r.t # blob
  <2>1. Becomes(r.t, nodes, props)
    BY <1>4
  <2>2. Whole(r.t)
    BY <2>1 DEF Becomes
  <2>3. Meaning(TreeOf(r.t)) = [nodes |-> nodes, props |-> props]
    BY <2>1, <2>2, MeaningOn
  <2>4. tree' = TreeOf(r.t) /\ blob' = r.t
    BY <1>2, <1>4
  <2>5. Meaning(tree') = [nodes |-> nodes, props |-> props]
    BY <2>3, <2>4
  <2>6. TreeInv'
    BY <1>1, <2>2, <2>4 DEF TreeInv
  <2> QED
    BY <2>5, <2>6
<1> QED
  BY <1>3, <1>4

LEMMA DoUnmoved ==
  ASSUME TreeInv, NEW r, Safe(blob, r), Do(r), Unmoved(blob, r.t)
  PROVE  TreeInv' /\ Meaning(tree)' = Meaning(tree)
<1>1. SoundBlob'
  BY DoSafe DEF TreeInv
<1>2. blob' = r.t /\ tree' = IF r.t = blob THEN tree ELSE TreeOf(r.t)
  BY DEF Do
<1>3. Whole(r.t) /\ TreeOf(r.t) = TreeOf(blob)
  BY UnmovedTree DEF TreeInv
<1>4. tree' = tree /\ tree' = TreeOf(blob')
  BY <1>2, <1>3 DEF TreeInv
<1> QED
  BY <1>1, <1>2, <1>3, <1>4 DEF TreeInv, Meaning

(* Operations of fdt_rw.c on a blob that is not in order do nothing.       *)
LEMMA RwIs ==
  ASSUME NEW t, Sound(t), NEW r
  PROVE  \/ Ordered(t) /\ Rw(t, r) = r
         \/ Rw(t, r).ret < 0 /\ Rw(t, r).t = t
<1>1. BADLAYOUT < 0
  BY Codes
<1> QED
  BY <1>1, InOrder DEF Rw, Fail

(* What an operation with an offset does: nothing, or it was given a node. *)
TreeSame == TreeInv' /\ Meaning(tree)' = Meaning(tree)
TreeStep == TreeInv' /\ (Meaning(tree)' = Meaning(tree) \/ Abstract!Next)

LEMMA DoAt ==
  ASSUME TreeInv, NEW r, Safe(blob, r), Do(r), NEW o \in Int,
         NextTag(blob.struct, o).tag # "begin" => r.ret < 0
  PROVE  TreeSame \/ (r.ret >= 0 /\ \E c \in Visited(blob) : c.off = o /\ Begins(blob, c))
<1>1. Sane(blob)
  BY DEF TreeInv, Whole
<1>2. CASE r.t = blob
  <2>1. Unmoved(blob, r.t)
    BY <1>2 DEF Unmoved
  <2> QED
    BY <2>1, DoUnmoved DEF TreeSame
<1>3. CASE r.t # blob
  BY <1>1, <1>3, AtNode
<1> QED
  BY <1>2, <1>3

LEMMA DoRwAt ==
  ASSUME TreeInv, NEW r, Ordered(blob) => Safe(blob, r), DoRw(r), NEW o \in Int,
         NextTag(blob.struct, o).tag # "begin" => r.ret < 0
  PROVE  \/ TreeSame
         \/ /\ Ordered(blob) /\ Safe(blob, r) /\ Do(r) /\ r.ret >= 0
            /\ \E c \in Visited(blob) : c.off = o /\ Begins(blob, c)
<1>1. PICK s : s = Rw(blob, r)
  OBVIOUS
<1>2. Sound(blob)
  BY DEF TreeInv, SoundBlob
<1>3. Safe(blob, s) /\ Do(s)
  BY <1>1, <1>2, RwSafe DEF DoRw
<1>4. CASE Ordered(blob) /\ s = r
  BY <1>3, <1>4, DoAt
<1>5. CASE s.ret < 0 /\ s.t = blob
  <2>1. Unmoved(blob, s.t)
    BY <1>5 DEF Unmoved
  <2> QED
    BY <1>3, <2>1, DoUnmoved DEF TreeSame
<1> QED
  BY <1>1, <1>2, <1>4, <1>5, RwIs

LEMMA BeganHere ==
  ASSUME TreeInv, NEW c \in Visited(blob), Begins(blob, c)
  PROVE  /\ Began(blob.struct, c) \in Meaning(tree).nodes
         /\ <<Began(blob.struct, c), c.off>> \in tree.where
  BY NodesAre DEF TreeInv, Meaning, Whole

LEMMA SameIsStep == ASSUME TreeSame PROVE TreeStep
  BY DEF TreeSame, TreeStep

(* A change of the tree that DeviceTree knows.                             *)
LEMMA StepIs ==
  ASSUME TreeInv, NEW r, Safe(blob, r), Do(r), NEW nodes, NEW props, Becomes(r.t, nodes, props)
  PROVE  /\ TreeInv'
         /\ Meaning(tree)' = Meaning(tree)
            \/ (Meaning(tree)' = [nodes |-> nodes, props |-> props] /\ tree = TreeOf(blob))
  BY DoTree DEF TreeInv

LEMMA SetPropTree == ASSUME TreeInv, SetProp PROVE TreeStep
<1>0. Sound(blob) /\ Whole(blob) /\ Sane(blob) /\ SoundBlob
  BY DEF TreeInv, SoundBlob, Whole
<1>1. PICK o \in Offsets, p \in PropNames, v \in Values : DoRw(FdtSetProp(blob, o, p, v))
  BY DEF SetProp
<1>2. o \in Int /\ v \in ValueSeqs
  BY <1>0, <1>1, CallersInputs
<1>3. PICK r : r = FdtSetProp(blob, o, p, v)
  OBVIOUS
<1>4. NextTag(blob.struct, o).tag # "begin" => r.ret < 0
  BY <1>0, <1>2, <1>3, NoNodeFails
<1>5. Ordered(blob) => Safe(blob, r)
  BY <1>0, <1>2, <1>3, SetPropSafe
<1>6. DoRw(r)
  BY <1>1, <1>3
<1>7. CASE TreeSame
  BY <1>7, SameIsStep
<1>8. CASE /\ Ordered(blob) /\ Safe(blob, r) /\ Do(r) /\ r.ret >= 0
            /\ \E c \in Visited(blob) : c.off = o /\ Begins(blob, c)
  <2>1. PICK c \in Visited(blob) : c.off = o /\ Begins(blob, c)
    BY <1>8
  <2>2. PICK path \in Meaning(tree).nodes : path = Began(blob.struct, c)
    BY <2>1, BeganHere
  <2>3. Becomes(r.t, TreeOf(blob).nodes, Rest(blob, c, p) \cup {<<Began(blob.struct, c), p, v>>})
    BY <1>0, <1>2, <1>3, <1>8, <2>1, SetPropExact
  <2>4. /\ TreeInv'
        /\ Meaning(tree)' = Meaning(tree)
           \/ (Meaning(tree)' = [nodes |-> TreeOf(blob).nodes, props |-> Rest(blob, c, p) \cup {<<Began(blob.struct, c), p, v>>}] /\ tree = TreeOf(blob))
    BY <1>5, <1>6, <1>8, <2>3, StepIs
  <2>5. Abstract!WithProp(Meaning(TreeOf(blob)), path, p, v)
          = [nodes |-> TreeOf(blob).nodes, props |-> Rest(blob, c, p) \cup {<<Began(blob.struct, c), p, v>>}]
    BY <1>0, <2>1, <2>2, WithPropIs
  <2>6. Meaning(tree)' = Meaning(tree) \/ Abstract!SetProp(path, p, v)
    BY <2>4, <2>5 DEF Abstract!SetProp
  <2>7. Meaning(tree)' = Meaning(tree) \/ Abstract!Next
    BY <1>1, <2>2, <2>6 DEF Abstract!Next
  <2> QED
    BY <2>4, <2>7 DEF TreeStep
<1> QED
  BY <1>2, <1>4, <1>5, <1>6, <1>7, <1>8, DoRwAt

LEMMA SetInplaceTree == ASSUME TreeInv, SetInplace PROVE TreeStep
<1>0. Sound(blob) /\ Whole(blob) /\ Sane(blob) /\ SoundBlob
  BY DEF TreeInv, SoundBlob, Whole
<1>1. PICK o \in Offsets, p \in PropNames, v \in Values : Do(FdtSetPropInplace(blob, o, p, v))
  BY DEF SetInplace
<1>2. o \in Int /\ v \in ValueSeqs
  BY <1>0, <1>1, CallersInputs
<1>3. PICK r : r = FdtSetPropInplace(blob, o, p, v)
  OBVIOUS
<1>4. NextTag(blob.struct, o).tag # "begin" => r.ret < 0
  BY <1>0, <1>2, <1>3, NoNodeFails
<1>5. Safe(blob, r)
  BY <1>0, <1>2, <1>3, InplaceSafe
<1>6. Do(r)
  BY <1>1, <1>3
<1>7. CASE TreeSame
  BY <1>7, SameIsStep
<1>8. CASE r.ret >= 0 /\ \E c \in Visited(blob) : c.off = o /\ Begins(blob, c)
  <2>1. PICK c \in Visited(blob) : c.off = o /\ Begins(blob, c)
    BY <1>8
  <2>2. PICK path \in Meaning(tree).nodes : path = Began(blob.struct, c)
    BY <2>1, BeganHere
  <2>3. Becomes(r.t, TreeOf(blob).nodes, Rest(blob, c, p) \cup {<<Began(blob.struct, c), p, v>>})
    BY <1>0, <1>2, <1>3, <1>8, <2>1, InplaceExact
  <2>4. /\ TreeInv'
        /\ Meaning(tree)' = Meaning(tree)
           \/ (Meaning(tree)' = [nodes |-> TreeOf(blob).nodes, props |-> Rest(blob, c, p) \cup {<<Began(blob.struct, c), p, v>>}] /\ tree = TreeOf(blob))
    BY <1>5, <1>6, <1>8, <2>3, StepIs
  <2>5. Abstract!WithProp(Meaning(TreeOf(blob)), path, p, v)
          = [nodes |-> TreeOf(blob).nodes, props |-> Rest(blob, c, p) \cup {<<Began(blob.struct, c), p, v>>}]
    BY <1>0, <2>1, <2>2, WithPropIs
  <2>6. Meaning(tree)' = Meaning(tree) \/ Abstract!SetProp(path, p, v)
    BY <2>4, <2>5 DEF Abstract!SetProp
  <2>7. Meaning(tree)' = Meaning(tree) \/ Abstract!Next
    BY <1>1, <2>2, <2>6 DEF Abstract!Next
  <2> QED
    BY <2>4, <2>7 DEF TreeStep
<1> QED
  BY <1>2, <1>4, <1>5, <1>6, <1>7, <1>8, DoAt

LEMMA DelPropTree == ASSUME TreeInv, DelProp PROVE TreeStep
<1>0. Sound(blob) /\ Whole(blob) /\ Sane(blob) /\ SoundBlob
  BY DEF TreeInv, SoundBlob, Whole
<1>1. PICK o \in Offsets, p \in PropNames : DoRw(FdtDelProp(blob, o, p))
  BY DEF DelProp
<1>2. o \in Int
  BY <1>0, <1>1, CallersInputs
<1>3. PICK r : r = FdtDelProp(blob, o, p)
  OBVIOUS
<1>4. NextTag(blob.struct, o).tag # "begin" => r.ret < 0
  BY <1>0, <1>2, <1>3, NoNodeFails
<1>5. Ordered(blob) => Safe(blob, r)
  BY <1>0, <1>2, <1>3, DelPropSafe
<1>6. DoRw(r)
  BY <1>1, <1>3
<1>7. CASE TreeSame
  BY <1>7, SameIsStep
<1>8. CASE /\ Ordered(blob) /\ Safe(blob, r) /\ Do(r) /\ r.ret >= 0
            /\ \E c \in Visited(blob) : c.off = o /\ Begins(blob, c)
  <2>1. PICK c \in Visited(blob) : c.off = o /\ Begins(blob, c)
    BY <1>8
  <2>2. PICK path \in Meaning(tree).nodes : path = Began(blob.struct, c)
    BY <2>1, BeganHere
  <2>3. /\ Becomes(r.t, TreeOf(blob).nodes, Rest(blob, c, p))
        /\ \E x \in Visited(blob) : IsProp(blob, c, x, p)
    BY <1>0, <1>2, <1>3, <1>8, <2>1, DelPropExact
  <2>4. /\ TreeInv'
        /\ Meaning(tree)' = Meaning(tree)
           \/ (Meaning(tree)' = [nodes |-> TreeOf(blob).nodes, props |-> Rest(blob, c, p)] /\ tree = TreeOf(blob))
    BY <1>5, <1>6, <1>8, <2>3, StepIs
  <2>5. Abstract!WithoutProp(Meaning(TreeOf(blob)), path, p)
          = [nodes |-> TreeOf(blob).nodes, props |-> Rest(blob, c, p)]
    BY <1>0, <2>1, <2>2, WithoutPropIs
  <2>6. PICK x \in Visited(blob) : IsProp(blob, c, x, p)
    BY <2>3
  <2>7. Meaning(tree).props = TreeOf(blob).props
    BY DEF TreeInv, Meaning
  <2>8. Abstract!ValueOf(Meaning(tree), path, p) = {PropValue(blob, x.off)}
    BY <1>0, <2>1, <2>2, <2>6, <2>7, ValueOfIs
  <2>9. Abstract!ValueOf(Meaning(tree), path, p) # {}
    BY <2>8
  <2>10. Meaning(tree)' = Meaning(tree) \/ Abstract!DelProp(path, p)
    BY <2>4, <2>5, <2>9 DEF Abstract!DelProp
  <2>11. Meaning(tree)' = Meaning(tree) \/ Abstract!Next
    BY <1>1, <2>2, <2>10 DEF Abstract!Next
  <2> QED
    BY <2>4, <2>11 DEF TreeStep
<1> QED
  BY <1>2, <1>4, <1>5, <1>6, <1>7, <1>8, DoRwAt

LEMMA NopPropTree == ASSUME TreeInv, NopProp PROVE TreeStep
<1>0. Sound(blob) /\ Whole(blob) /\ Sane(blob) /\ SoundBlob
  BY DEF TreeInv, SoundBlob, Whole
<1>1. PICK o \in Offsets, p \in PropNames : Do(FdtNopProperty(blob, o, p))
  BY DEF NopProp
<1>2. o \in Int
  BY <1>0, <1>1, CallersInputs
<1>3. PICK r : r = FdtNopProperty(blob, o, p)
  OBVIOUS
<1>4. NextTag(blob.struct, o).tag # "begin" => r.ret < 0
  BY <1>0, <1>2, <1>3, NoNodeFails
<1>5. Safe(blob, r)
  BY <1>0, <1>2, <1>3, NopPropertySafe
<1>6. Do(r)
  BY <1>1, <1>3
<1>7. CASE TreeSame
  BY <1>7, SameIsStep
<1>8. CASE r.ret >= 0 /\ \E c \in Visited(blob) : c.off = o /\ Begins(blob, c)
  <2>1. PICK c \in Visited(blob) : c.off = o /\ Begins(blob, c)
    BY <1>8
  <2>2. PICK path \in Meaning(tree).nodes : path = Began(blob.struct, c)
    BY <2>1, BeganHere
  <2>3. /\ Becomes(r.t, TreeOf(blob).nodes, Rest(blob, c, p))
        /\ \E x \in Visited(blob) : IsProp(blob, c, x, p)
    BY <1>0, <1>2, <1>3, <1>8, <2>1, NopPropExact
  <2>4. /\ TreeInv'
        /\ Meaning(tree)' = Meaning(tree)
           \/ (Meaning(tree)' = [nodes |-> TreeOf(blob).nodes, props |-> Rest(blob, c, p)] /\ tree = TreeOf(blob))
    BY <1>5, <1>6, <1>8, <2>3, StepIs
  <2>5. Abstract!WithoutProp(Meaning(TreeOf(blob)), path, p)
          = [nodes |-> TreeOf(blob).nodes, props |-> Rest(blob, c, p)]
    BY <1>0, <2>1, <2>2, WithoutPropIs
  <2>6. PICK x \in Visited(blob) : IsProp(blob, c, x, p)
    BY <2>3
  <2>7. Meaning(tree).props = TreeOf(blob).props
    BY DEF TreeInv, Meaning
  <2>8. Abstract!ValueOf(Meaning(tree), path, p) = {PropValue(blob, x.off)}
    BY <1>0, <2>1, <2>2, <2>6, <2>7, ValueOfIs
  <2>9. Abstract!ValueOf(Meaning(tree), path, p) # {}
    BY <2>8
  <2>10. Meaning(tree)' = Meaning(tree) \/ Abstract!DelProp(path, p)
    BY <2>4, <2>5, <2>9 DEF Abstract!DelProp
  <2>11. Meaning(tree)' = Meaning(tree) \/ Abstract!Next
    BY <1>1, <2>2, <2>10 DEF Abstract!Next
  <2> QED
    BY <2>4, <2>11 DEF TreeStep
<1> QED
  BY <1>2, <1>4, <1>5, <1>6, <1>7, <1>8, DoAt

LEMMA DelNodeTree == ASSUME TreeInv, DelNode PROVE TreeStep
<1>0. Sound(blob) /\ Whole(blob) /\ Sane(blob) /\ SoundBlob
  BY DEF TreeInv, SoundBlob, Whole
<1>1. PICK o \in Offsets : DoRw(FdtDelNode(blob, o))
  BY DEF DelNode
<1>2. o \in Int
  BY <1>0, <1>1, CallersInputs
<1>3. PICK r : r = FdtDelNode(blob, o)
  OBVIOUS
<1>4. NextTag(blob.struct, o).tag # "begin" => r.ret < 0
  BY <1>0, <1>2, <1>3, NoNodeFails
<1>5. Ordered(blob) => Safe(blob, r)
  BY <1>0, <1>2, <1>3, DelNodeSafe
<1>6. DoRw(r)
  BY <1>1, <1>3
<1>7. CASE TreeSame
  BY <1>7, SameIsStep
<1>8. CASE /\ Ordered(blob) /\ Safe(blob, r) /\ Do(r) /\ r.ret >= 0
            /\ \E c \in Visited(blob) : c.off = o /\ Begins(blob, c)
  <2>1. PICK c \in Visited(blob) : c.off = o /\ Begins(blob, c)
    BY <1>8
  <2>2. PICK path \in Meaning(tree).nodes : path = Began(blob.struct, c)
    BY <2>1, BeganHere
  <2>3. Becomes(r.t, NotIn(blob, c, TreeOf(blob).nodes), PropsNotIn(blob, c))
    BY <1>0, <1>2, <1>3, <1>8, <2>1, DelNodeExact
  <2>4. /\ TreeInv'
        /\ Meaning(tree)' = Meaning(tree)
           \/ (Meaning(tree)' = [nodes |-> NotIn(blob, c, TreeOf(blob).nodes), props |-> PropsNotIn(blob, c)] /\ tree = TreeOf(blob))
    BY <1>5, <1>6, <1>8, <2>3, StepIs
  <2>5. Abstract!WithoutNode(Meaning(TreeOf(blob)), path)
          = [nodes |-> NotIn(blob, c, TreeOf(blob).nodes), props |-> PropsNotIn(blob, c)]
    BY <1>0, <2>1, <2>2, WithoutNodeIs
  <2>6. Meaning(tree)' = Meaning(tree) \/ Abstract!DelNode(path)
    BY <2>4, <2>5 DEF Abstract!DelNode
  <2>7. Meaning(tree)' = Meaning(tree) \/ Abstract!Next
    BY <1>1, <2>2, <2>6 DEF Abstract!Next
  <2> QED
    BY <2>4, <2>7 DEF TreeStep
<1> QED
  BY <1>2, <1>4, <1>5, <1>6, <1>7, <1>8, DoRwAt

LEMMA NopNodeTree == ASSUME TreeInv, NopNode PROVE TreeStep
<1>0. Sound(blob) /\ Whole(blob) /\ Sane(blob) /\ SoundBlob
  BY DEF TreeInv, SoundBlob, Whole
<1>1. PICK o \in Offsets : Do(FdtNopNode(blob, o))
  BY DEF NopNode
<1>2. o \in Int
  BY <1>0, <1>1, CallersInputs
<1>3. PICK r : r = FdtNopNode(blob, o)
  OBVIOUS
<1>4. NextTag(blob.struct, o).tag # "begin" => r.ret < 0
  BY <1>0, <1>2, <1>3, NoNodeFails
<1>5. Safe(blob, r)
  BY <1>0, <1>2, <1>3, NopNodeSafe
<1>6. Do(r)
  BY <1>1, <1>3
<1>7. CASE TreeSame
  BY <1>7, SameIsStep
<1>8. CASE r.ret >= 0 /\ \E c \in Visited(blob) : c.off = o /\ Begins(blob, c)
  <2>1. PICK c \in Visited(blob) : c.off = o /\ Begins(blob, c)
    BY <1>8
  <2>2. PICK path \in Meaning(tree).nodes : path = Began(blob.struct, c)
    BY <2>1, BeganHere
  <2>3. Becomes(r.t, NotIn(blob, c, TreeOf(blob).nodes), PropsNotIn(blob, c))
    BY <1>0, <1>2, <1>3, <1>8, <2>1, NopNodeExact
  <2>4. /\ TreeInv'
        /\ Meaning(tree)' = Meaning(tree)
           \/ (Meaning(tree)' = [nodes |-> NotIn(blob, c, TreeOf(blob).nodes), props |-> PropsNotIn(blob, c)] /\ tree = TreeOf(blob))
    BY <1>5, <1>6, <1>8, <2>3, StepIs
  <2>5. Abstract!WithoutNode(Meaning(TreeOf(blob)), path)
          = [nodes |-> NotIn(blob, c, TreeOf(blob).nodes), props |-> PropsNotIn(blob, c)]
    BY <1>0, <2>1, <2>2, WithoutNodeIs
  <2>6. Meaning(tree)' = Meaning(tree) \/ Abstract!DelNode(path)
    BY <2>4, <2>5 DEF Abstract!DelNode
  <2>7. Meaning(tree)' = Meaning(tree) \/ Abstract!Next
    BY <1>1, <2>2, <2>6 DEF Abstract!Next
  <2> QED
    BY <2>4, <2>7 DEF TreeStep
<1> QED
  BY <1>2, <1>4, <1>5, <1>6, <1>7, <1>8, DoAt

LEMMA AddSubnodeTree == ASSUME TreeInv, AddSubnode PROVE TreeStep
<1>0. Sound(blob) /\ Whole(blob) /\ Sane(blob) /\ SoundBlob
  BY DEF TreeInv, SoundBlob, Whole
<1>1. PICK o \in Offsets, n \in NewNames : DoRw(FdtAddSubnode(blob, o, n))
  BY DEF AddSubnode
<1>2. o \in Int /\ n \in NodeNames
  BY <1>0, <1>1, CallersInputs
<1>3. PICK r : r = FdtAddSubnode(blob, o, n)
  OBVIOUS
<1>4. NextTag(blob.struct, o).tag # "begin" => r.ret < 0
  BY <1>0, <1>2, <1>3, NoNodeFails
<1>5. Ordered(blob) => Safe(blob, r)
  BY <1>0, <1>2, <1>3, AddSubnodeSafe
<1>6. DoRw(r)
  BY <1>1, <1>3
<1>7. CASE TreeSame
  BY <1>7, SameIsStep
<1>8. CASE /\ Ordered(blob) /\ Safe(blob, r) /\ Do(r) /\ r.ret >= 0
            /\ \E c \in Visited(blob) : c.off = o /\ Begins(blob, c)
  <2>1. PICK c \in Visited(blob) : c.off = o /\ Begins(blob, c)
    BY <1>8
  <2>2. PICK path \in Meaning(tree).nodes : path = Began(blob.struct, c)
    BY <2>1, BeganHere
  <2>3. ~Taken(blob, c, n) /\ Becomes(r.t, TreeOf(blob).nodes \cup {Append(Began(blob.struct, c), n)}, TreeOf(blob).props)
    BY <1>0, <1>2, <1>3, <1>8, <2>1, AddSubnodeExact
  <2>4. /\ TreeInv'
        /\ Meaning(tree)' = Meaning(tree)
           \/ (Meaning(tree)' = [nodes |-> TreeOf(blob).nodes \cup {Append(Began(blob.struct, c), n)}, props |-> TreeOf(blob).props]
                 /\ tree = TreeOf(blob))
    BY <1>8, <2>3, StepIs
  <2>5. Abstract!WithNode(Meaning(TreeOf(blob)), path, n)
          = [nodes |-> TreeOf(blob).nodes \cup {Append(Began(blob.struct, c), n)}, props |-> TreeOf(blob).props]
    BY <2>2, WithNodeIs
  <2>6. Abstract!Free(Meaning(TreeOf(blob)), path, n)
    BY <2>2, <2>3, FreeIs
  <2>7. Meaning(tree)' = Meaning(tree) \/ Abstract!AddNode(path, n)
    BY <2>4, <2>5, <2>6 DEF Abstract!AddNode
  <2>8. Meaning(tree)' = Meaning(tree) \/ Abstract!Next
    BY <1>1, <2>2, <2>7 DEF Abstract!Next
  <2> QED
    BY <2>4, <2>8 DEF TreeStep
<1> QED
  BY <1>2, <1>4, <1>5, <1>6, <1>7, <1>8, DoRwAt

LEMMA RenamesFree ==
  ASSUME TreeInv, NEW c \in Visited(blob), Begins(blob, c), NEW n, MayRename(c.off, n)
  PROVE  FreeName(blob, c, n)
<1>1. PICK q : q = Began(blob.struct, c)
  OBVIOUS
<1>2. <<q, c.off>> \in tree.where
  BY <1>1, BeganHere
<1>3. q # <<>> /\ Append(Up(q), n) # q => Append(Up(q), n) \notin tree.nodes
  <2>1. PICK x \in tree.where : x[1] = q /\ x[2] = c.off
    BY <1>2
  <2> QED
    BY <2>1 DEF MayRename, Up
<1>4. tree.nodes = Nodes(Notes(blob))
  BY MeaningIs DEF TreeInv, Whole
<1> QED
  BY <1>1, <1>3, <1>4 DEF FreeName

LEMMA SetNameTree == ASSUME TreeInv, SetName PROVE TreeStep
<1>0. Sound(blob) /\ Whole(blob) /\ Sane(blob) /\ SoundBlob
  BY DEF TreeInv, SoundBlob, Whole
<1>1. PICK o \in Offsets, n \in NewNames : MayRename(o, n) /\ DoRw(FdtSetName(blob, o, n))
  BY DEF SetName
<1>2. o \in Int /\ n \in NodeNames
  BY <1>0, <1>1, CallersInputs
<1>3. PICK r : r = FdtSetName(blob, o, n)
  OBVIOUS
<1>4. NextTag(blob.struct, o).tag # "begin" => r.ret < 0
  BY <1>0, <1>2, <1>3, NoNodeFails
<1>5. Ordered(blob) => Safe(blob, r)
  BY <1>0, <1>2, <1>3, SetNameSafe
<1>6. DoRw(r)
  BY <1>1, <1>3
<1>7. CASE TreeSame
  BY <1>7, SameIsStep
<1>8. CASE /\ Ordered(blob) /\ Safe(blob, r) /\ Do(r) /\ r.ret >= 0
            /\ \E c \in Visited(blob) : c.off = o /\ Begins(blob, c)
  <2>1. PICK c \in Visited(blob) : c.off = o /\ Begins(blob, c)
    BY <1>8
  <2>2. PICK path \in Meaning(tree).nodes : path = Began(blob.struct, c)
    BY <2>1, BeganHere
  <2>3. FreeName(blob, c, n)
    BY <1>1, <2>1, RenamesFree
  <2>4. Becomes(r.t, {Ren(Began(blob.struct, c), n, q) : q \in TreeOf(blob).nodes},
                {<<Ren(Began(blob.struct, c), n, y[1]), y[2], y[3]>> : y \in TreeOf(blob).props})
    BY <1>0, <1>2, <1>3, <1>8, <2>1, <2>3, SetNameExact
  <2>5. Abstract!WithName(Meaning(TreeOf(blob)), path, n)
          = [nodes |-> {Ren(path, n, q) : q \in TreeOf(blob).nodes},
             props |-> {<<Ren(path, n, y[1]), y[2], y[3]>> : y \in TreeOf(blob).props}]
    BY <1>0, WithNameIs
  <2> DEFINE N == {Ren(Began(blob.struct, c), n, q) : q \in TreeOf(blob).nodes}
             P == {<<Ren(Began(blob.struct, c), n, y[1]), y[2], y[3]>> : y \in TreeOf(blob).props}
  <2>10. Abstract!WithName(Meaning(TreeOf(blob)), path, n) = [nodes |-> N, props |-> P]
    BY <2>2, <2>5
  <2>6. Becomes(r.t, N, P)
    BY <2>4
  <2> HIDE DEF N, P
  <2>7. /\ TreeInv'
        /\ Meaning(tree)' = Meaning(tree)
           \/ (Meaning(tree)' = [nodes |-> N, props |-> P] /\ tree = TreeOf(blob))
    BY <1>8, <2>6, StepIs
  <2>8. Meaning(tree)' = Meaning(tree) \/ Abstract!SetName(path, n)
    BY <2>7, <2>10 DEF Abstract!SetName
  <2>9. Meaning(tree)' = Meaning(tree) \/ Abstract!Next
    BY <1>1, <2>2, <2>8 DEF Abstract!Next
  <2> QED
    BY <2>7, <2>9 DEF TreeStep
<1> QED
  BY <1>2, <1>4, <1>5, <1>6, <1>7, <1>8, DoRwAt

LEMMA AppendPropTree == ASSUME TreeInv, AppendProp PROVE TreeStep
<1>0. Sound(blob) /\ Whole(blob) /\ Sane(blob) /\ SoundBlob
  BY DEF TreeInv, SoundBlob, Whole
<1>1. PICK o \in Offsets, p \in PropNames, v \in Values : DoRw(FdtAppendProp(blob, o, p, v))
  BY DEF AppendProp
<1>2. o \in Int /\ v \in ValueSeqs
  BY <1>0, <1>1, CallersInputs
<1>3. PICK r : r = FdtAppendProp(blob, o, p, v)
  OBVIOUS
<1>4. NextTag(blob.struct, o).tag # "begin" => r.ret < 0
  BY <1>0, <1>2, <1>3, NoNodeFails
<1>5. Ordered(blob) => Safe(blob, r)
  BY <1>0, <1>2, <1>3, AppendPropSafe
<1>6. DoRw(r)
  BY <1>1, <1>3
<1>7. CASE TreeSame
  BY <1>7, SameIsStep
<1>8. CASE /\ Ordered(blob) /\ Safe(blob, r) /\ Do(r) /\ r.ret >= 0
            /\ \E c \in Visited(blob) : c.off = o /\ Begins(blob, c)
  <2>1. PICK c \in Visited(blob) : c.off = o /\ Begins(blob, c)
    BY <1>8
  <2>2. PICK path \in Meaning(tree).nodes : path = Began(blob.struct, c)
    BY <2>1, BeganHere
  <2>3. \/ /\ \A x \in Visited(blob) : ~IsProp(blob, c, x, p)
           /\ Becomes(r.t, TreeOf(blob).nodes, Rest(blob, c, p) \cup {<<Began(blob.struct, c), p, v>>})
        \/ \E x \in Visited(blob) :
             /\ IsProp(blob, c, x, p)
             /\ Becomes(r.t, TreeOf(blob).nodes,
                        Rest(blob, c, p) \cup {<<Began(blob.struct, c), p, PropValue(blob, x.off) \o v>>})
    BY <1>0, <1>2, <1>3, <1>8, <2>1, AppendPropExact
  <2>4. CASE Becomes(r.t, TreeOf(blob).nodes, Rest(blob, c, p) \cup {<<Began(blob.struct, c), p, v>>})
    <3>1. /\ TreeInv'
          /\ Meaning(tree)' = Meaning(tree)
             \/ (Meaning(tree)' = [nodes |-> TreeOf(blob).nodes, props |-> Rest(blob, c, p) \cup {<<Began(blob.struct, c), p, v>>}]
                   /\ tree = TreeOf(blob))
      BY <1>8, <2>4, StepIs
    <3>2. Abstract!WithProp(Meaning(TreeOf(blob)), path, p, v)
            = [nodes |-> TreeOf(blob).nodes, props |-> Rest(blob, c, p) \cup {<<Began(blob.struct, c), p, v>>}]
      BY <2>2, WithPropIs
    <3>3. Meaning(tree)' = Meaning(tree) \/ Abstract!SetProp(path, p, v)
      BY <3>1, <3>2 DEF Abstract!SetProp
    <3>4. Meaning(tree)' = Meaning(tree) \/ Abstract!Next
      BY <1>1, <2>2, <3>3 DEF Abstract!Next
    <3> QED
      BY <3>1, <3>4 DEF TreeStep
  <2>5. CASE \E x \in Visited(blob) :
               /\ IsProp(blob, c, x, p)
               /\ Becomes(r.t, TreeOf(blob).nodes,
                          Rest(blob, c, p) \cup {<<Began(blob.struct, c), p, PropValue(blob, x.off) \o v>>})
    <3>1. PICK x \in Visited(blob) :
            /\ IsProp(blob, c, x, p)
            /\ Becomes(r.t, TreeOf(blob).nodes,
                       Rest(blob, c, p) \cup {<<Began(blob.struct, c), p, PropValue(blob, x.off) \o v>>})
      BY <2>5
    <3>2. PICK old : old = PropValue(blob, x.off)
      OBVIOUS
    <3>3. Becomes(r.t, TreeOf(blob).nodes, Rest(blob, c, p) \cup {<<Began(blob.struct, c), p, old \o v>>})
      BY <3>1, <3>2
    <3>4. /\ TreeInv'
          /\ Meaning(tree)' = Meaning(tree)
             \/ (Meaning(tree)' = [nodes |-> TreeOf(blob).nodes, props |-> Rest(blob, c, p) \cup {<<Began(blob.struct, c), p, old \o v>>}]
                   /\ tree = TreeOf(blob))
      BY <1>8, <3>3, StepIs
    <3>5. Abstract!WithProp(Meaning(TreeOf(blob)), path, p, old \o v)
            = [nodes |-> TreeOf(blob).nodes, props |-> Rest(blob, c, p) \cup {<<Began(blob.struct, c), p, old \o v>>}]
      BY <2>2, WithPropIs
    <3>6. Meaning(tree).props = TreeOf(blob).props
      BY DEF TreeInv, Meaning
    <3>7. Abstract!ValueOf(Meaning(tree), path, p) = {PropValue(blob, x.off)}
      BY <1>0, <2>1, <2>2, <3>1, <3>6, ValueOfIs
    <3>8. old \in Abstract!ValueOf(Meaning(tree), path, p)
      BY <3>2, <3>7
    <3>9. Meaning(tree)' = Meaning(tree) \/ Abstract!AppendProp(path, p, v)
      BY <3>4, <3>5, <3>8 DEF Abstract!AppendProp
    <3>10. Meaning(tree)' = Meaning(tree) \/ Abstract!Next
      BY <1>1, <2>2, <3>9 DEF Abstract!Next
    <3> QED
      BY <3>4, <3>10 DEF TreeStep
  <2> QED
    BY <2>3, <2>4, <2>5
<1> QED
  BY <1>2, <1>4, <1>5, <1>6, <1>7, <1>8, DoRwAt

LEMMA MemRsvTree == ASSUME TreeInv, AddMemRsv \/ DelMemRsv PROVE TreeStep
<1>0. Sound(blob) /\ SoundBlob
  BY DEF TreeInv, SoundBlob
<1>1. PICK r : /\ Unmoved(blob, r.t) /\ DoRw(r) /\ (Ordered(blob) => Safe(blob, r))
  <2>1. CASE AddMemRsv
    <3>1. PICK size \in RsvSizes : DoRw(FdtAddMemRsv(blob, size))
      BY <2>1 DEF AddMemRsv
    <3>2. size \in Nat
      BY <1>0, CallersInputs
    <3> QED
      BY <1>0, <3>1, <3>2, MemRsvUnmoved, AddMemRsvSafe
  <2>2. CASE DelMemRsv
    <3>1. PICK n \in 0 .. Len(blob.rsv) : DoRw(FdtDelMemRsv(blob, n))
      BY <2>2 DEF DelMemRsv
    <3>2. n \in Nat
      BY <1>0, CallersInputs
    <3> QED
      BY <1>0, <3>1, <3>2, MemRsvUnmoved, DelMemRsvSafe
  <2> QED
    BY <2>1, <2>2
<1>2. PICK s : s = Rw(blob, r)
  OBVIOUS
<1>3. Safe(blob, s) /\ Do(s)
  BY <1>0, <1>1, <1>2, RwSafe DEF DoRw
<1>4. Unmoved(blob, s.t)
  <2>1. s = r \/ s.t = blob
    BY <1>0, <1>2, RwIs
  <2>2. Unmoved(blob, blob)
    BY DEF Unmoved
  <2> QED
    BY <1>1, <2>1, <2>2
<1> QED
  BY <1>3, <1>4, DoUnmoved, SameIsStep DEF TreeSame

LEMMA PackTree == ASSUME TreeInv, Pack \/ OpenInto PROVE TreeStep
<1>0. Sound(blob) /\ SoundBlob
  BY DEF TreeInv, SoundBlob
<1>1. CASE Pack
  <2>1. PICK r : r = FdtPack(blob)
    OBVIOUS
  <2>2. Unmoved(blob, r.t) /\ Safe(blob, r)
    BY <1>0, <2>1, PackUnmoved, PackSafe
  <2>3. PICK s : s = Rw(blob, r)
    OBVIOUS
  <2>4. Safe(blob, s) /\ Do(s)
    BY <1>0, <1>1, <2>1, <2>2, <2>3, RwSafe DEF Pack, DoRw
  <2>5. Unmoved(blob, s.t)
    <3>1. s = r \/ s.t = blob
      BY <1>0, <2>3, RwIs
    <3>2. Unmoved(blob, blob)
      BY DEF Unmoved
    <3> QED
      BY <2>2, <3>1, <3>2
  <2> QED
    BY <2>4, <2>5, DoUnmoved, SameIsStep DEF TreeSame
<1>2. CASE OpenInto
  <2>1. PICK b \in Buffers, apart \in BOOLEAN : Do(FdtOpenInto(blob, b, apart))
    BY <1>2 DEF OpenInto
  <2>2. b \in Nat
    BY <1>0, CallersInputs
  <2>3. PICK r : r = FdtOpenInto(blob, b, apart)
    OBVIOUS
  <2>4. Unmoved(blob, r.t) /\ Safe(blob, r) /\ Do(r)
    BY <1>0, <2>1, <2>2, <2>3, PackUnmoved, OpenIntoSafe
  <2> QED
    BY <2>4, DoUnmoved, SameIsStep DEF TreeSame
<1> QED
  BY <1>1, <1>2

LEMMA TreeInit == ASSUME Init PROVE TreeInv
<1>1. blob \in Delivered /\ ret = 0 /\ tree = TreeOf(blob)
  BY DEF Init
<1>2. blob \in Blobs /\ WellLaidOut(blob) /\ Terminated(blob) /\ WellFormed(blob)
  BY <1>1, BlobAssumption
<1>3. Sound(blob)
  BY <1>2 DEF Sound
<1>4. Legible(blob.struct)
  BY <1>3, SoundWords
<1>5. Whole(blob)
  BY <1>2, <1>4, WholeIs
<1> QED
  BY <1>1, <1>3, <1>5 DEF TreeInv, SoundBlob

LEMMA TreeNext == ASSUME TreeInv, [Next]_fvars PROVE TreeStep
<1>1. CASE UNCHANGED fvars
  <2>1. TreeInv' /\ Meaning(tree)' = Meaning(tree)
    BY <1>1 DEF fvars, TreeInv, SoundBlob, Meaning
  <2> QED
    BY <2>1 DEF TreeStep
<1>2. CASE Next
  BY <1>2, SetPropTree, AppendPropTree, DelPropTree, SetNameTree, AddSubnodeTree, DelNodeTree,
     MemRsvTree, PackTree, SetInplaceTree, NopPropTree, NopNodeTree DEF Next
<1> QED
  BY <1>1, <1>2

LEMMA TreeAlways == Spec => []TreeInv
<1>1. Init => TreeInv
  BY TreeInit
<1>2. TreeInv /\ [Next]_fvars => TreeInv'
  BY TreeNext DEF TreeStep
<1> QED
  BY <1>1, <1>2, PTL DEF Spec

(* Whatever the caller does, and in whatever order, each change of the     *)
(* blob is one change of the tree it stands for, or none: a blob that      *)
(* compilers deliver stays one that can be walked to its end, with no two  *)
(* nodes of one path and no two properties of one name in a node           *)
(* (fdt_rw.c:258-394, fdt_wip.c:13-94).                                    *)
THEOREM TreeImplemented == Spec => ImplementsTree
<1>1. Init => Abstract!Init
  <2> SUFFICES ASSUME Init PROVE Abstract!Init
    OBVIOUS
  <2>1. TreeInv
    BY TreeInit
  <2>2. \A y \in TreeOf(blob).props : y[1] \in TreeOf(blob).nodes
    BY <2>1, PropsOfNodes DEF TreeInv
  <2>3. Meaning(tree).props = TreeOf(blob).props /\ Meaning(tree).nodes = TreeOf(blob).nodes
    BY <2>1 DEF TreeInv, Meaning
  <2> QED
    BY <2>2, <2>3 DEF Abstract!Init
<1>2. TreeInv /\ [Next]_fvars => [Abstract!Next]_(Meaning(tree))
  BY TreeNext DEF TreeStep
<1>3. Spec => []TreeInv
  BY TreeAlways
<1> QED
  BY <1>1, <1>2, <1>3, PTL DEF Spec, ImplementsTree, Abstract!Spec

-----------------------------------------------------------------------------
LEMMA MadeBy ==
  ASSUME NEW r, NEW nodes, NEW props, r.ret >= 0 => Becomes(r.t, nodes, props)
  PROVE  Makes(r, [nodes |-> nodes, props |-> props])
<1>1. ASSUME r.ret >= 0 PROVE TreeOf(r.t).ok /\ Meaning(TreeOf(r.t)) = [nodes |-> nodes, props |-> props]
  <2>1. Whole(r.t) /\ Becomes(r.t, nodes, props)
    BY <1>1 DEF Becomes
  <2> QED
    BY <2>1, MeaningOn
<1> QED
  BY <1>1 DEF Makes

LEMMA MadeByRw ==
  ASSUME NEW t, Sound(t), NEW r, NEW nodes, NEW props,
         Ordered(t) /\ r.ret >= 0 => Becomes(r.t, nodes, props)
  PROVE  Makes(Rw(t, r), [nodes |-> nodes, props |-> props])
<1>1. Rw(t, r).ret >= 0 => Becomes(Rw(t, r).t, nodes, props)
  <2>1. CASE Ordered(t) /\ Rw(t, r) = r
    BY <2>1
  <2>2. CASE Rw(t, r).ret < 0 /\ Rw(t, r).t = t
    <3>1. Rw(t, r) = Fail(BADLAYOUT, t) \/ Rw(t, r) = r
      BY DEF Rw
    <3>2. CASE Rw(t, r) = Fail(BADLAYOUT, t)
      BY <3>2 DEF Fail, BADLAYOUT
    <3>3. CASE Rw(t, r) = r /\ ~Misordered(t, RsvWords)
      BY <3>3, InOrder
    <3> QED
      BY <3>2, <3>3 DEF Rw
  <2> QED
    BY <2>1, <2>2, RwIs
<1> QED
  BY <1>1, MadeBy

(* The operations on the node that begins at c, one by one.                *)
LEMMA PropOpsMake ==
  ASSUME TreeInv, NEW c \in Visited(blob), Begins(blob, c), NEW p \in PropNames, NEW v \in ValueSeqs,
         NEW path, path = Began(blob.struct, c), NEW now, now = Meaning(TreeOf(blob))
  PROVE  /\ RwMakes(FdtDelProp(blob, c.off, p), Abstract!WithoutProp(now, path, p))
         /\ Makes(FdtNopProperty(blob, c.off, p), Abstract!WithoutProp(now, path, p))
         /\ RwMakes(FdtSetProp(blob, c.off, p, v), Abstract!WithProp(now, path, p, v))
         /\ Makes(FdtSetPropInplace(blob, c.off, p, v), Abstract!WithProp(now, path, p, v))
<1>0. Sound(blob) /\ Whole(blob)
  BY DEF TreeInv, SoundBlob
<1> DEFINE nodes == TreeOf(blob).nodes
           rest  == Rest(blob, c, p)
           with  == Rest(blob, c, p) \cup {<<Began(blob.struct, c), p, v>>}
<1>1. /\ Abstract!WithoutProp(now, path, p) = [nodes |-> nodes, props |-> rest]
      /\ Abstract!WithProp(now, path, p, v) = [nodes |-> nodes, props |-> with]
  BY WithPropIs, WithoutPropIs
<1>2. PICK a : a = FdtDelProp(blob, c.off, p)
  OBVIOUS
<1>3. PICK b : b = FdtNopProperty(blob, c.off, p)
  OBVIOUS
<1>4. PICK d : d = FdtSetProp(blob, c.off, p, v)
  OBVIOUS
<1>5. PICK e : e = FdtSetPropInplace(blob, c.off, p, v)
  OBVIOUS
<1>6. Ordered(blob) /\ a.ret >= 0 => Becomes(a.t, nodes, rest)
  BY <1>0, <1>2, DelPropExact
<1>7. b.ret >= 0 => Becomes(b.t, nodes, rest)
  BY <1>0, <1>3, NopPropExact
<1>8. Ordered(blob) /\ d.ret >= 0 => Becomes(d.t, nodes, with)
  BY <1>0, <1>4, SetPropExact
<1>9. e.ret >= 0 => Becomes(e.t, nodes, with)
  BY <1>0, <1>5, InplaceExact
<1> HIDE DEF nodes, rest, with
<1>10. RwMakes(a, [nodes |-> nodes, props |-> rest])
  BY <1>0, <1>6, MadeByRw DEF RwMakes
<1>11. Makes(b, [nodes |-> nodes, props |-> rest])
  BY <1>7, MadeBy
<1>12. RwMakes(d, [nodes |-> nodes, props |-> with])
  BY <1>0, <1>8, MadeByRw DEF RwMakes
<1>13. Makes(e, [nodes |-> nodes, props |-> with])
  BY <1>9, MadeBy
<1> QED
  BY <1>1, <1>2, <1>3, <1>4, <1>5, <1>10, <1>11, <1>12, <1>13

LEMMA AppendMakes ==
  ASSUME TreeInv, NEW c \in Visited(blob), Begins(blob, c), NEW p \in PropNames, NEW v \in ValueSeqs,
         NEW path, path = Began(blob.struct, c), NEW now, now = Meaning(TreeOf(blob)),
         NEW old \in Abstract!ValueOf(now, path, p)
  PROVE  RwMakes(FdtAppendProp(blob, c.off, p, v), Abstract!WithProp(now, path, p, old \o v))
<1>0. Sound(blob) /\ Whole(blob)
  BY DEF TreeInv, SoundBlob
<1>1. PICK r : r = FdtAppendProp(blob, c.off, p, v)
  OBVIOUS
<1>2. now.props = TreeOf(blob).props
  BY DEF Meaning
<1>3. /\ (\A x \in Visited(blob) : ~IsProp(blob, c, x, p)) => Abstract!ValueOf(now, path, p) = {}
      /\ \A x \in Visited(blob) : IsProp(blob, c, x, p)
           => Abstract!ValueOf(now, path, p) = {PropValue(blob, x.off)}
  BY <1>0, <1>2, ValueOfIs
<1> DEFINE nodes == TreeOf(blob).nodes
           with  == Rest(blob, c, p) \cup {<<Began(blob.struct, c), p, old \o v>>}
<1>4. Abstract!WithProp(now, path, p, old \o v) = [nodes |-> nodes, props |-> with]
  BY WithPropIs
<1>5. ASSUME Ordered(blob), r.ret >= 0 PROVE Becomes(r.t, nodes, with)
  <2>1. \/ \A x \in Visited(blob) : ~IsProp(blob, c, x, p)
        \/ \E x \in Visited(blob) :
             /\ IsProp(blob, c, x, p)
             /\ Becomes(r.t, TreeOf(blob).nodes,
                        Rest(blob, c, p) \cup {<<Began(blob.struct, c), p, PropValue(blob, x.off) \o v>>})
    BY <1>0, <1>1, <1>5, AppendPropExact
  <2>2. PICK x \in Visited(blob) :
             /\ IsProp(blob, c, x, p)
             /\ Becomes(r.t, TreeOf(blob).nodes,
                        Rest(blob, c, p) \cup {<<Began(blob.struct, c), p, PropValue(blob, x.off) \o v>>})
    BY <1>3, <2>1
  <2>3. old = PropValue(blob, x.off)
    BY <1>3, <2>2
  <2> QED
    BY <2>2, <2>3
<1> HIDE DEF nodes, with
<1>6. RwMakes(r, [nodes |-> nodes, props |-> with])
  BY <1>0, <1>5, MadeByRw DEF RwMakes
<1> QED
  BY <1>1, <1>4, <1>6

LEMMA NodeOpsMake ==
  ASSUME TreeInv, NEW c \in Visited(blob), Begins(blob, c), NEW n \in NodeNames,
         NEW path, path = Began(blob.struct, c), NEW now, now = Meaning(TreeOf(blob))
  PROVE  /\ RwMakes(FdtAddSubnode(blob, c.off, n), Abstract!WithNode(now, path, n))
         /\ RwMakes(FdtDelNode(blob, c.off), Abstract!WithoutNode(now, path))
         /\ Makes(FdtNopNode(blob, c.off), Abstract!WithoutNode(now, path))
<1>0. Sound(blob) /\ Whole(blob)
  BY DEF TreeInv, SoundBlob
<1> DEFINE more  == TreeOf(blob).nodes \cup {Append(path, n)}
           props == TreeOf(blob).props
           less  == NotIn(blob, c, TreeOf(blob).nodes)
           few   == PropsNotIn(blob, c)
<1>1. Abstract!WithNode(now, path, n) = [nodes |-> more, props |-> props]
  BY WithNodeIs
<1>2. Abstract!WithoutNode(now, path) = [nodes |-> less, props |-> few]
  BY <1>0, WithoutNodeIs
<1>3. PICK a : a = FdtAddSubnode(blob, c.off, n)
  OBVIOUS
<1>4. PICK b : b = FdtDelNode(blob, c.off)
  OBVIOUS
<1>5. PICK d : d = FdtNopNode(blob, c.off)
  OBVIOUS
<1>6. Ordered(blob) /\ a.ret >= 0 => Becomes(a.t, more, props)
  BY <1>0, <1>3, AddSubnodeExact
<1>7. Ordered(blob) /\ b.ret >= 0 => Becomes(b.t, less, few)
  BY <1>0, <1>4, DelNodeExact
<1>8. d.ret >= 0 => Becomes(d.t, less, few)
  BY <1>0, <1>5, NopNodeExact
<1> HIDE DEF more, props, less, few
<1>9. RwMakes(a, [nodes |-> more, props |-> props])
  BY <1>0, <1>6, MadeByRw DEF RwMakes
<1>10. RwMakes(b, [nodes |-> less, props |-> few])
  BY <1>0, <1>7, MadeByRw DEF RwMakes
<1>11. Makes(d, [nodes |-> less, props |-> few])
  BY <1>8, MadeBy
<1> QED
  BY <1>1, <1>2, <1>3, <1>4, <1>5, <1>9, <1>10, <1>11

LEMMA OpsExactIs == TreeInv => OpsExact
<1> SUFFICES ASSUME TreeInv PROVE OpsExact
  OBVIOUS
<1>0. Whole(blob) /\ Sane(blob) /\ SoundBlob /\ tree = TreeOf(blob)
  BY DEF TreeInv, Whole
<1>1. ASSUME NEW x \in tree.where
      PROVE  LET path == x[1]
                 o    == x[2]
                 now  == Meaning(tree)
             IN  /\ \A p \in PropNames :
                      /\ RwMakes(FdtDelProp(blob, o, p), Abstract!WithoutProp(now, path, p))
                      /\ Makes(FdtNopProperty(blob, o, p), Abstract!WithoutProp(now, path, p))
                      /\ \A v \in Values :
                           LET set == Abstract!WithProp(now, path, p, v)
                           IN  /\ RwMakes(FdtSetProp(blob, o, p, v), set)
                               /\ Makes(FdtSetPropInplace(blob, o, p, v), set)
                               /\ \A old \in Abstract!ValueOf(now, path, p) :
                                    RwMakes(FdtAppendProp(blob, o, p, v),
                                            Abstract!WithProp(now, path, p, old \o v))
                 /\ \A n \in NewNames : RwMakes(FdtAddSubnode(blob, o, n), Abstract!WithNode(now, path, n))
                 /\ RwMakes(FdtDelNode(blob, o), Abstract!WithoutNode(now, path))
                 /\ Makes(FdtNopNode(blob, o), Abstract!WithoutNode(now, path))
  <2>1. PICK c \in Visited(blob) : Begins(blob, c) /\ x = <<Began(blob.struct, c), c.off>>
    BY <1>0, NodesAre
  <2>2. PICK path : path = Began(blob.struct, c) /\ path = x[1]
    BY <2>1
  <2>3. x[2] = c.off
    BY <2>1
  <2>4. PICK now : now = Meaning(tree) /\ now = Meaning(TreeOf(blob))
    BY <1>0
  <2>5. Values \subseteq ValueSeqs /\ NewNames \subseteq NodeNames
    BY <1>0, CallersInputs
  <2>6. <<>> \in ValueSeqs
    BY DEF ValueSeqs
  <2>7. \A p \in PropNames :
           /\ RwMakes(FdtDelProp(blob, c.off, p), Abstract!WithoutProp(now, path, p))
           /\ Makes(FdtNopProperty(blob, c.off, p), Abstract!WithoutProp(now, path, p))
    BY <2>1, <2>2, <2>4, <2>6, PropOpsMake
  <2>8. \A p \in PropNames, v \in ValueSeqs :
           /\ RwMakes(FdtSetProp(blob, c.off, p, v), Abstract!WithProp(now, path, p, v))
           /\ Makes(FdtSetPropInplace(blob, c.off, p, v), Abstract!WithProp(now, path, p, v))
    BY <2>1, <2>2, <2>4, PropOpsMake
  <2>9. \A p \in PropNames, v \in ValueSeqs : \A old \in Abstract!ValueOf(now, path, p) :
           RwMakes(FdtAppendProp(blob, c.off, p, v), Abstract!WithProp(now, path, p, old \o v))
    BY <2>1, <2>2, <2>4, AppendMakes
  <2>10. \A n \in NodeNames : RwMakes(FdtAddSubnode(blob, c.off, n), Abstract!WithNode(now, path, n))
    BY <2>1, <2>2, <2>4, NodeOpsMake
  <2>11. /\ RwMakes(FdtDelNode(blob, c.off), Abstract!WithoutNode(now, path))
         /\ Makes(FdtNopNode(blob, c.off), Abstract!WithoutNode(now, path))
    <3>1. PICK n : n \in NodeNames
      BY <1>0, <2>1, MetTag DEF Begins, Word
    <3> QED
      BY <2>1, <2>2, <2>4, <3>1, NodeOpsMake
  <2> QED
    BY <2>2, <2>3, <2>4, <2>5, <2>7, <2>8, <2>9, <2>10, <2>11
<1> QED
  BY <1>1 DEF OpsExact

(* And it is the change the operation is named for: in every blob that is  *)
(* ever reached, each operation that succeeds sets, appends to or removes  *)
(* that property of that node, or adds or removes that node with all in    *)
(* it, and leaves everything else (fdt_rw.c:258-394, fdt_wip.c:13-94).     *)
THEOREM OpsExactAlways == Spec => []OpsExact
<1>1. TreeInv => OpsExact
  BY OpsExactIs
<1> QED
  BY <1>1, TreeAlways, PTL

LEMMA LookupsExactIs == TreeInv => LookupsExact
<1> SUFFICES ASSUME TreeInv PROVE LookupsExact
  OBVIOUS
<1>0. Whole(blob) /\ Sane(blob) /\ tree = TreeOf(blob)
  BY DEF TreeInv, Whole
<1>1. ASSUME NEW x \in tree.where
      PROVE  LET path == x[1]
                 o    == x[2]
                 up   == SubSeq(path, 1, Len(path) - 1)
             IN  /\ path # <<>> => <<up, ParentOffset(blob.struct, o)>> \in tree.where
                 /\ (\A i \in DOMAIN path : \A m \in NodeNames \ {path[i]} :
                       BaseName[m] = path[i] => Append(SubSeq(path, 1, i - 1), m) \notin tree.nodes)
                      => PathOffset(blob.struct, path) = o
                 /\ \A p \in PropNames :
                      LET here == PropOffset(blob, o, p)
                      IN  Abstract!ValueOf(tree, path, p) = IF here < 0 THEN {} ELSE {PropValue(blob, here)}
  <2>1. PICK c \in Visited(blob) : Begins(blob, c) /\ x = <<Began(blob.struct, c), c.off>>
    BY <1>0, NodesAre
  <2>2. PICK path : path = Began(blob.struct, c) /\ path = x[1]
    BY <2>1
  <2>3. x[2] = c.off
    BY <2>1
  <2>4. path # <<>> => <<SubSeq(path, 1, Len(path) - 1), ParentOffset(blob.struct, c.off)>> \in tree.where
    <3> SUFFICES ASSUME path # <<>>
                 PROVE  <<SubSeq(path, 1, Len(path) - 1), ParentOffset(blob.struct, c.off)>> \in tree.where
      OBVIOUS
    <3>1. PICK d \in Visited(blob) : /\ Begins(blob, d) /\ Began(blob.struct, d) = Up(path)
                                     /\ ParentOffset(blob.struct, c.off) = d.off
      BY <1>0, <2>1, <2>2, ParentIs
    <3>2. <<Began(blob.struct, d), d.off>> \in tree.where
      BY <1>0, <3>1, NodesAre
    <3> QED
      BY <3>1, <3>2 DEF Up
  <2>5. ASSUME \A i \in DOMAIN path : \A m \in NodeNames \ {path[i]} :
                 BaseName[m] = path[i] => Append(SubSeq(path, 1, i - 1), m) \notin tree.nodes
        PROVE  PathOffset(blob.struct, path) = c.off
    <3>1. \A y \in Visited(blob) : Begins(blob, y) => Began(blob.struct, y) \in tree.nodes
      BY <1>0, NodesAre
    <3>2. Unambiguous(blob, path)
      BY <2>5, <3>1 DEF Unambiguous
    <3> QED
      BY <1>0, <2>1, <2>2, <3>2, PathIs
  <2>6. ASSUME NEW p \in PropNames
        PROVE  LET here == PropOffset(blob, c.off, p)
               IN  Abstract!ValueOf(tree, path, p) = IF here < 0 THEN {} ELSE {PropValue(blob, here)}
    <3>1. PICK here : here = PropOffset(blob, c.off, p)
      OBVIOUS
    <3>2. PICK tr : tr = tree /\ tr.props = TreeOf(blob).props
      BY <1>0
    <3>3. CASE here = NOTFOUND /\ \A y \in Visited(blob) : ~IsProp(blob, c, y, p)
      <4>1. here < 0
        BY <3>3, Codes
      <4>2. Abstract!ValueOf(tr, path, p) = {}
        BY <1>0, <2>2, <3>2, <3>3, ValueOfIs
      <4> QED
        BY <3>1, <3>2, <4>1, <4>2
    <3>4. ASSUME NEW y \in Visited(blob), IsProp(blob, c, y, p), here = y.off
          PROVE  Abstract!ValueOf(tr, path, p) = IF here < 0 THEN {} ELSE {PropValue(blob, here)}
      <4>1. y.off \in 0 .. Len(blob.struct) - 1 /\ Len(blob.struct) \in Nat
        BY <1>0, Met
      <4>2. ~(here < 0)
        BY <3>4, <4>1
      <4>3. Abstract!ValueOf(tr, path, p) = {PropValue(blob, y.off)}
        BY <1>0, <2>2, <3>2, <3>4, ValueOfIs
      <4> QED
        BY <3>4, <4>2, <4>3
    <3>5. \/ here = NOTFOUND /\ \A y \in Visited(blob) : ~IsProp(blob, c, y, p)
          \/ \E y \in Visited(blob) : IsProp(blob, c, y, p) /\ here = y.off
      BY <1>0, <2>1, <3>1, PropFound
    <3> QED
      BY <3>1, <3>2, <3>3, <3>4, <3>5
  <2> QED
    BY <2>2, <2>3, <2>4, <2>5, <2>6
<1> QED
  BY <1>1 DEF LookupsExact

(* And look-ups find what there is, in every blob ever reached: the parent *)
(* of a node, the node of a path that no sibling with a unit address makes *)
(* ambiguous, the value of a property and none that is not there           *)
(* (fdt_ro.c:225-298, 338-467, 594-652).                                   *)
THEOREM LookupsExactAlways == Spec => []LookupsExact
<1>1. TreeInv => LookupsExact
  BY LookupsExactIs
<1> QED
  BY <1>1, TreeAlways, PTL

-----------------------------------------------------------------------------
(* main: it opens the boot ROM's tree into a buffer of its own, where the  *)
(* blocks are in order and stay so.                                        *)
Opened == {"chosen", "bootargs", "cpu0", "cpus", "pack", "trng", "run", "halt trng"}
Shrunk == {"trng", "run", "halt trng"}

MainInv == /\ Sound(dtb) /\ Sound(target)
           /\ section \in Opened => Ordered(target)
           /\ section = "bootargs" => node \in Int
           /\ section \in Shrunk => target.total = StringsEnd(target)

LEMMA OnlyReadingKeeps == ASSUME MainInv, UNCHANGED <<dtb, target>>,
                                 section' # "bootargs", section' \in Opened => section \in Opened,
                                 section' \in Shrunk => section \in Shrunk
                          PROVE  MainInv'
  BY DEF MainInv

LEMMA FindUartKeeps == ASSUME MainInv, FindUart PROVE MainInv'
<1>1. dtb' = dtb /\ target' = target /\ (section' = "tlclk" \/ section' = "halt")
  BY Zenon DEF FindUart, Section, OnlyReads
<1> QED
  BY <1>1, OnlyReadingKeeps DEF Opened, Shrunk

LEMMA FindClockKeeps == ASSUME MainInv, FindClock PROVE MainInv'
<1>1. dtb' = dtb /\ target' = target /\ (section' = "memory" \/ section' = "halt")
  BY Zenon DEF FindClock, Section, OnlyReads
<1> QED
  BY <1>1, OnlyReadingKeeps DEF Opened, Shrunk

LEMMA FindMemoryKeeps == ASSUME MainInv, FindMemory PROVE MainInv'
<1>1. dtb' = dtb /\ target' = target /\ (section' = "cores" \/ section' = "halt")
  BY Zenon DEF FindMemory, Section, OnlyReads
<1> QED
  BY <1>1, OnlyReadingKeeps DEF Opened, Shrunk

LEMMA CountCoresKeeps == ASSUME MainInv, CountCores PROVE MainInv'
<1>1. dtb' = dtb /\ target' = target /\ (section' = "plic" \/ section' = "halt")
  BY Zenon DEF CountCores, Section, OnlyReads
<1> QED
  BY <1>1, OnlyReadingKeeps DEF Opened, Shrunk

LEMMA FindPlicKeeps == ASSUME MainInv, FindPlic PROVE MainInv'
<1>1. dtb' = dtb /\ target' = target /\ (section' = "open" \/ section' = "halt")
  BY Zenon DEF FindPlic, Section, OnlyReads
<1> QED
  BY <1>1, OnlyReadingKeeps DEF Opened, Shrunk

LEMMA OpenTargetKeeps == ASSUME MainInv, OpenTarget PROVE MainInv'
<1> DEFINE r == FdtOpenInto(dtb, BufWords, TRUE)
<1>1. Safe(dtb, r) /\ (r.ret >= 0 => Ordered(r.t))
  BY OpenIntoSafe, MainAssumption DEF MainInv
<1>2. /\ dtb' = dtb /\ section' = IF r.ret >= 0 THEN "chosen" ELSE "fail"
      /\ target' = IF r.ret >= 0 THEN r.t ELSE target
  BY Zenon DEF OpenTarget, Section
<1> HIDE DEF r
<1> QED
  BY <1>1, <1>2 DEF MainInv, Safe, Opened, Shrunk

LEMMA FindOrAddSafe == ASSUME NEW t, Sound(t), NEW name \in NodeNames
                       PROVE  Safe(t, FindOrAdd(t, name))
<1> DEFINE o == SubnodeOffset(t.struct, 0, name)
           add == FdtAddSubnode(t, 0, name)
<1>1. o \in Int
  BY BlobSizes, SubnodeOn, StructLegible DEF Sound
<1>2. Safe(t, Rw(t, add))
  BY AddSubnodeSafe, RwSafe
<1>3. FindOrAdd(t, name) = IF o = NOTFOUND THEN Rw(t, add) ELSE [ret |-> o, t |-> t]
  BY DEF FindOrAdd
<1> HIDE DEF o, add
<1> QED
  BY <1>1, <1>2, <1>3 DEF Safe

LEMMA AddChosenKeeps == ASSUME MainInv, AddChosen PROVE MainInv'
<1> DEFINE r == FindOrAdd(target, "chosen")
<1>1. Safe(target, r)
  BY FindOrAddSafe, MainAssumption DEF MainInv
<1>2. /\ dtb' = dtb /\ section = "chosen" /\ section' = IF r.ret >= 0 THEN "bootargs" ELSE "fail"
      /\ target' = r.t /\ node' = r.ret
  BY Zenon DEF AddChosen, Section
<1> HIDE DEF r
<1> QED
  BY <1>1, <1>2 DEF MainInv, Safe, Opened, Shrunk

LEMMA SetBootArgsKeeps == ASSUME MainInv, SetBootArgs PROVE MainInv'
<1> DEFINE set == FdtSetProp(target, node, "bootargs", BootArgs)
           r   == Rw(target, set)
<1>1. /\ dtb' = dtb /\ section = "bootargs" /\ section' = IF r.ret >= 0 THEN "cpu0" ELSE "fail"
      /\ target' = r.t
  BY Zenon DEF SetBootArgs, Section
<1>2. Sound(target) /\ Ordered(target) /\ node \in Int
  BY <1>1 DEF MainInv, Opened
<1>3. "bootargs" \in PropNames /\ BootArgs \in ValueSeqs
  BY MainAssumption DEF ValueSeqs
<1>4. Safe(target, r)
  BY <1>2, <1>3, SetPropSafe, RwSafe
<1> HIDE DEF r
<1> QED
  BY <1>1, <1>2, <1>4 DEF MainInv, Safe, Opened, Shrunk

LEMMA GetTimeBaseKeeps == ASSUME MainInv, GetTimeBase PROVE MainInv'
<1>1. dtb' = dtb /\ target' = target /\ section = "cpu0" /\ (section' = "cpus" \/ section' = "halt")
  BY Zenon DEF GetTimeBase, Section, OnlyReads
<1> QED
  BY <1>1, OnlyReadingKeeps DEF Opened, Shrunk

LEMMA SetTimeBaseKeeps == ASSUME MainInv, SetTimeBase PROVE MainInv'
<1> DEFINE cpus == SubnodeOffset(target.struct, 0, "cpus")
           set  == FdtSetProp(target, cpus, "timebase-frequency", <<Value(TimeBase)>>)
           r    == Rw(target, set)
<1>1. /\ dtb' = dtb /\ section = "cpus" /\ (section' = "pack" \/ section' = "halt")
      /\ target' = IF cpus >= 0 THEN r.t ELSE target
  BY Zenon DEF SetTimeBase, Section
<1>2. Sound(target) /\ Ordered(target)
  BY <1>1 DEF MainInv, Opened
<1>3. cpus \in Int
  BY <1>2, BlobSizes, SubnodeOn, StructLegible DEF Sound
<1>4. "timebase-frequency" \in PropNames /\ <<Value(TimeBase)>> \in ValueSeqs
  BY MainAssumption DEF ValueSeqs, ValueWords, Value
<1>5. Safe(target, r)
  <2> HIDE DEF cpus
  <2> QED
    BY <1>2, <1>3, <1>4, SetPropSafe, RwSafe
<1> HIDE DEF r, cpus
<1> QED
  BY <1>1, <1>2, <1>5 DEF MainInv, Safe, Opened, Shrunk

(* Blocks in order pass the probe of fdt_rw.c, which is why fdt_pack does  *)
(* not fail.                                                               *)
LEMMA OrderedPasses == ASSUME NEW t, Sound(t), Ordered(t) PROVE ~Misordered(t, RsvWords)
<1>1. t \in Blobs /\ Terminated(t)
  BY DEF Sound
<1>2. Len(t.rsv) \in Nat /\ Len(t.rsv) >= 1
  BY <1>1, NumRsvIs
<1> DEFINE n == Len(t.rsv)
           m == Len(t.struct)
           e == StringsEnd(t)
<1>3. n \in Nat /\ n >= 1 /\ m \in Nat /\ e \in Nat
  BY <1>1, <1>2, BlobSizes
<1>4. t.offRsv \in Nat /\ t.offStruct \in Nat /\ t.offStrings \in Nat /\ t.total \in Nat
  BY <1>1, BlobSizes
<1>5. /\ 10 <= t.offRsv /\ t.offRsv + 4 * n <= t.offStruct /\ t.offStruct + m <= t.offStrings
      /\ e <= t.total
  BY DEF Ordered, HeaderWords, RsvWords
<1>6. Misordered(t, RsvWords) <=> \/ t.offRsv < 10 \/ t.offStruct < t.offRsv + 4
                                  \/ t.offStrings < t.offStruct + m \/ t.total < e
  BY DEF Misordered, HeaderWords, RsvWords
<1> HIDE DEF n, m, e
<1> QED
  BY <1>3, <1>4, <1>5, <1>6

LEMMA PackTargetKeeps == ASSUME MainInv, PackTarget PROVE MainInv'
<1>1. dtb' = dtb /\ section = "pack" /\ section' = "trng" /\ target' = Rw(target, FdtPack(target)).t
  BY Zenon DEF PackTarget, Section
<1>2. Sound(target) /\ Ordered(target)
  BY <1>1 DEF MainInv, Opened
<1>3. target' = FdtPack(target).t
  BY <1>1, <1>2, OrderedPasses DEF Rw
<1>4. Sound(target') /\ Ordered(target') /\ target'.total = StringsEnd(target')
  BY <1>2, <1>3, PackSafe DEF Safe
<1> QED
  BY <1>1, <1>4 DEF MainInv, Opened, Shrunk, StringsEnd

LEMMA FindTrngKeeps == ASSUME MainInv, FindTrng PROVE MainInv'
<1>1. dtb' = dtb /\ target' = target /\ section = "trng" /\ (section' = "run" \/ section' = "halt trng")
  BY Zenon DEF FindTrng, Section, OnlyReads
<1> QED
  BY <1>1, OnlyReadingKeeps DEF Opened, Shrunk

LEMMA MainStepKeeps == MainInv /\ [MainNext]_mvars => MainInv'
<1> SUFFICES ASSUME MainInv, [MainNext]_mvars PROVE MainInv'
  OBVIOUS
<1>1. CASE UNCHANGED mvars
  BY <1>1 DEF MainInv, mvars, StringsEnd
<1>2. CASE Stopped
  BY <1>1, <1>2 DEF Stopped
<1> QED
  BY <1>1, <1>2, FindUartKeeps, FindClockKeeps, FindMemoryKeeps, CountCoresKeeps, FindPlicKeeps,
     OpenTargetKeeps, AddChosenKeeps, SetBootArgsKeeps, GetTimeBaseKeeps, SetTimeBaseKeeps,
     PackTargetKeeps, FindTrngKeeps DEF MainNext

(* What main works on is a tree with its blocks apart, and the copy it     *)
(* hands on has no gap: fdt_pack, whose return value main ignores          *)
(* (main.c:458), cannot fail on what fdt_open_into has made, for any tree  *)
(* the boot ROM leaves, any buffer and any arguments.                      *)
THEOREM CopyPackedAlways == MainSpec => []CopyPacked
<1>1. MainInit => MainInv
  BY MainAssumption DEF MainInit, MainInv, Sound, Opened, Shrunk
<1>2. MainInv => CopyPacked
  BY DEF MainInv, CopyPacked, Sound, Shrunk
<1> QED
  BY <1>1, <1>2, MainStepKeeps, PTL DEF MainSpec

-----------------------------------------------------------------------------
(* What the copy means, section by section: node chosen added, if it was   *)
(* not there, then its bootargs, then the timebase-frequency of cpus.      *)
Given1 == Read!WithNode(Meaning(Given), <<>>, "chosen")
Given2 == Read!WithProp(Given1, <<"chosen">>, "bootargs", BootArgs)
Given3 == Read!WithProp(Given2, <<"cpus">>, "timebase-frequency", <<Value(TimeBase)>>)

CopyInv == /\ MainInv /\ Whole(dtb) /\ PlainlyNamed(dtb)
           /\ section \in Opened => Whole(target)
           /\ section = "chosen" => Meaning(TreeOf(target)) = Meaning(Given)
           /\ section = "bootargs" => /\ Meaning(TreeOf(target)) = Given1
                                 /\ <<<<"chosen">>, node>> \in TreeOf(target).where
           /\ section \in {"cpu0", "cpus"} => Meaning(TreeOf(target)) = Given2
           /\ section \in {"pack", "trng", "run", "halt trng"} => Meaning(TreeOf(target)) = Given3

LEMMA GivenStays == ASSUME dtb' = dtb PROVE Given' = Given /\ Given1' = Given1 /\ Given2' = Given2 /\ Given3' = Given3
<1>1. Given' = Given
  BY DEF Given
<1>2. Meaning(Given)' = Meaning(Given)
  BY <1>1 DEF Meaning
<1>3. Given1' = Given1
  BY <1>2 DEF Given1, Read!WithNode
<1>4. Given2' = Given2
  BY <1>3 DEF Given2, Read!WithProp, Read!Others
<1>5. Given3' = Given3
  BY <1>4 DEF Given3, Read!WithProp, Read!Others
<1> QED
  BY <1>1, <1>3, <1>4, <1>5

LEMMA MeaningParts ==
  ASSUME NEW u, NEW nodes, NEW props
  PROVE  /\ Becomes(u, nodes, props) => Whole(u) /\ Meaning(TreeOf(u)) = [nodes |-> nodes, props |-> props]
         /\ Meaning(TreeOf(u)).nodes = TreeOf(u).nodes /\ Meaning(TreeOf(u)).props = TreeOf(u).props
  BY DEF Becomes, Meaning

LEMMA ReadWithProp ==
  ASSUME NEW t, NEW c, NEW name, NEW v
  PROVE  Read!WithProp(Meaning(TreeOf(t)), Began(t.struct, c), name, v)
           = [nodes |-> TreeOf(t).nodes,
              props |-> Rest(t, c, name) \cup {<<Began(t.struct, c), name, v>>}]
<1>1. PICK m : m = Meaning(TreeOf(t))
  OBVIOUS
<1>2. m = [nodes |-> TreeOf(t).nodes, props |-> TreeOf(t).props]
  BY <1>1 DEF Meaning
<1>3. Read!Others(m, Began(t.struct, c), name) = Rest(t, c, name)
  BY <1>2 DEF Read!Others, Rest
<1>4. Read!WithProp(m, Began(t.struct, c), name, v)
        = [m EXCEPT !.props = Rest(t, c, name) \cup {<<Began(t.struct, c), name, v>>}]
  BY <1>3 DEF Read!WithProp
<1> QED
  BY <1>1, <1>2, <1>4

LEMMA ReadWithNode ==
  ASSUME NEW t, NEW path, NEW n
  PROVE  Read!WithNode(Meaning(TreeOf(t)), path, n)
           = [nodes |-> TreeOf(t).nodes \cup {Append(path, n)}, props |-> TreeOf(t).props]
<1>1. PICK m : m = Meaning(TreeOf(t))
  OBVIOUS
<1>2. m = [nodes |-> TreeOf(t).nodes, props |-> TreeOf(t).props]
  BY <1>1 DEF Meaning
<1>4. Read!WithNode(m, path, n) = [m EXCEPT !.nodes = m.nodes \cup {Append(path, n)}]
  BY DEF Read!WithNode
<1>5. m.nodes = TreeOf(t).nodes /\ m.props = TreeOf(t).props
  BY <1>2
<1>6. Read!WithNode(m, path, n) = [nodes |-> TreeOf(t).nodes \cup {Append(path, n)}, props |-> TreeOf(t).props]
  BY <1>2, <1>4, <1>5
<1> QED
  BY <1>1, <1>6

(* The child of the root that a look-up finds is the one of that name,     *)
(* when no other's name has it in front of a unit address; and with no     *)
(* root there is an error.                                                 *)
LEMMA RootChild ==
  ASSUME NEW t, Whole(t), NEW name, NEW o, o = SubnodeOffset(t.struct, 0, name),
         \A q \in TreeOf(t).nodes : Len(q) = 1 /\ BaseName[q[1]] = name => q = <<name>>
  PROVE  \/ o = NOTFOUND /\ \E r \in Visited(t) : Begins(t, r) /\ Began(t.struct, r) = <<>> /\ r.off = 0
         \/ o = BADOFFSET
         \/ \E x \in Visited(t) : Begins(t, x) /\ Began(t.struct, x) = <<name>> /\ o = x.off
<1>0. Sane(t)
  BY DEF Whole
<1>1. CASE NextTag(t.struct, 0).tag # "begin"
  <2>1. 0 \in Int /\ SubnodeOffset(t.struct, 0, name) = (IF 0 < 0 THEN 0 ELSE BADOFFSET)
    BY <1>0, <1>1, NotBegun
  <2> QED
    BY <2>1
<1>2. CASE NextTag(t.struct, 0).tag = "begin"
  <2>1. PICK r \in Visited(t) : Begins(t, r) /\ Began(t.struct, r) = <<>> /\ r.off = 0
    <3>1. PICK x \in Visited(t) : Begins(t, x)
      BY <1>0, <1>2, BeginsHere
    <3> QED
      BY <3>1, RootIs
  <2>2. ASSUME NEW x \in Visited(t), Child(t, r, x, name)
        PROVE  Begins(t, x) /\ Began(t.struct, x) = <<name>>
    <3>1. Begins(t, x) /\ x.inTree /\ x.path = <<>> /\ NameMatches(t.struct, x.off, name)
      BY <2>1, <2>2 DEF Child
    <3>2. PICK m : m = t.struct[x.off + 2][2]
      OBVIOUS
    <3>3. Began(t.struct, x) = <<m>>
      <4>1. Began(t.struct, x) = Append(<<>>, m)
        BY <3>1, <3>2 DEF Began
      <4> QED
        BY <4>1
    <3>4. m = name \/ BaseName[m] = name
      BY <3>1, <3>2 DEF NameMatches
    <3>5. <<m>> \in TreeOf(t).nodes
      BY <1>0, <3>1, <3>3, NodesAre
    <3>6. Len(<<m>>) = 1 /\ <<m>>[1] = m
      OBVIOUS
    <3> QED
      BY <3>1, <3>3, <3>4, <3>5, <3>6
  <2>3. \/ SubnodeOffset(t.struct, r.off, name) = NOTFOUND
        \/ \E x \in Visited(t) : Child(t, r, x, name) /\ SubnodeOffset(t.struct, r.off, name) = x.off
    BY <2>1, SubnodeIs
  <2> QED
    BY <2>1, <2>2, <2>3
<1> QED
  BY <1>1, <1>2

Readers == FindUart \/ FindClock \/ FindMemory \/ CountCores \/ FindPlic

LEMMA ReadersCopy == ASSUME CopyInv, Readers PROVE CopyInv'
<1>1. MainInv'
  BY FindUartKeeps, FindClockKeeps, FindMemoryKeeps, CountCoresKeeps, FindPlicKeeps DEF CopyInv, Readers
<1>2. dtb' = dtb /\ section' \in {"tlclk", "memory", "cores", "plic", "open", "halt"}
  <2>1. FindUart => dtb' = dtb /\ section' \in {"tlclk", "halt"}
    BY Zenon DEF FindUart, Section
  <2>2. FindClock => dtb' = dtb /\ section' \in {"memory", "halt"}
    BY Zenon DEF FindClock, Section
  <2>3. FindMemory => dtb' = dtb /\ section' \in {"cores", "halt"}
    BY Zenon DEF FindMemory, Section
  <2>4. CountCores => dtb' = dtb /\ section' \in {"plic", "halt"}
    BY Zenon DEF CountCores, Section
  <2>5. FindPlic => dtb' = dtb /\ section' \in {"open", "halt"}
    BY Zenon DEF FindPlic, Section
  <2> QED
    BY <2>1, <2>2, <2>3, <2>4, <2>5 DEF Readers
<1>3. (Whole(dtb) /\ PlainlyNamed(dtb))'
  BY <1>2 DEF CopyInv
<1>4. /\ section' \notin Opened /\ section' # "chosen" /\ section' # "bootargs" /\ section' \notin {"cpu0", "cpus"}
      /\ section' \notin {"pack", "trng", "run", "halt trng"}
  BY <1>2 DEF Opened
<1> QED
  BY <1>1, <1>3, <1>4 DEF CopyInv

LEMMA OpenTargetCopy == ASSUME CopyInv, OpenTarget PROVE CopyInv'
<1>1. MainInv'
  BY OpenTargetKeeps DEF CopyInv
<1>2. PICK r : r = FdtOpenInto(dtb, BufWords, TRUE)
  OBVIOUS
<1>3. /\ dtb' = dtb /\ section' = IF r.ret >= 0 THEN "chosen" ELSE "fail"
      /\ target' = IF r.ret >= 0 THEN r.t ELSE target
  BY <1>2, Zenon DEF OpenTarget, Section
<1>4. Unmoved(dtb, r.t)
  BY <1>2, PackUnmoved DEF CopyInv, MainInv
<1>5. Whole(r.t) /\ TreeOf(r.t) = TreeOf(dtb)
  BY <1>4, UnmovedTree DEF CopyInv
<1>6. (Whole(dtb) /\ PlainlyNamed(dtb))'
  BY <1>3 DEF CopyInv
<1>7. CASE r.ret >= 0
  <2>1. target' = r.t /\ section' = "chosen"
    BY <1>3, <1>7
  <2>2. Meaning(TreeOf(target))' = Meaning(Given)'
    BY <1>3, <1>5, <2>1 DEF Given, Meaning
  <2>3. Whole(target')
    BY <1>5, <2>1
  <2> QED
    BY <1>1, <1>6, <2>1, <2>2, <2>3 DEF CopyInv
<1>8. CASE ~(r.ret >= 0)
  BY <1>1, <1>3, <1>6, <1>8 DEF CopyInv, Opened
<1> QED
  BY <1>7, <1>8

(* Actions that leave the copy as it is.                                   *)
LEMMA OnlyReadsCopy ==
  ASSUME CopyInv, MainInv', UNCHANGED <<dtb, target>>, section' = "halt" \/ (section = "cpu0" /\ section' = "cpus")
         \/ (section = "trng" /\ section' \in {"run", "halt trng"})
  PROVE  CopyInv'
<1>1. Given1' = Given1 /\ Given2' = Given2 /\ Given3' = Given3 /\ Meaning(TreeOf(target))' = Meaning(TreeOf(target))
  BY GivenStays DEF Meaning
<1>2. (Whole(dtb) /\ PlainlyNamed(dtb))'
  BY DEF CopyInv
<1>3. CASE section' = "halt"
  BY <1>2, <1>3 DEF CopyInv, Opened
<1>4. CASE section = "cpu0" /\ section' = "cpus"
  <2>1. Whole(target') /\ Meaning(TreeOf(target))' = Given2'
    BY <1>1, <1>4 DEF CopyInv, Opened
  <2> QED
    BY <1>2, <1>4, <2>1 DEF CopyInv
<1>5. CASE section = "trng" /\ section' \in {"run", "halt trng"}
  <2>1. Whole(target') /\ Meaning(TreeOf(target))' = Given3'
    BY <1>1, <1>5 DEF CopyInv, Opened
  <2> QED
    BY <1>2, <1>5, <2>1 DEF CopyInv
<1> QED
  BY <1>3, <1>4, <1>5

LEMMA ReadsCopy == ASSUME CopyInv, GetTimeBase \/ FindTrng PROVE CopyInv'
<1>1. MainInv'
  BY GetTimeBaseKeeps, FindTrngKeeps DEF CopyInv
<1>2. CASE GetTimeBase
  <2>1. dtb' = dtb /\ target' = target /\ section = "cpu0" /\ (section' = "cpus" \/ section' = "halt")
    BY <1>2, Zenon DEF GetTimeBase, Section, OnlyReads
  <2> QED
    BY <1>1, <2>1, OnlyReadsCopy
<1>3. CASE FindTrng
  <2>1. dtb' = dtb /\ target' = target /\ section = "trng" /\ (section' = "run" \/ section' = "halt trng")
    BY <1>3, Zenon DEF FindTrng, Section, OnlyReads
  <2> QED
    BY <1>1, <2>1, OnlyReadsCopy
<1> QED
  BY <1>2, <1>3

LEMMA PackTargetCopy == ASSUME CopyInv, PackTarget PROVE CopyInv'
<1>1. MainInv'
  BY PackTargetKeeps DEF CopyInv
<1>2. dtb' = dtb /\ section = "pack" /\ section' = "trng" /\ target' = Rw(target, FdtPack(target)).t
  BY Zenon DEF PackTarget, Section
<1>3. Sound(target) /\ Ordered(target) /\ Whole(target)
  BY <1>2 DEF CopyInv, MainInv, Opened
<1>4. target' = FdtPack(target).t
  BY <1>2, <1>3, OrderedPasses DEF Rw
<1>5. Whole(target') /\ TreeOf(target') = TreeOf(target)
  BY <1>3, <1>4, PackUnmoved, UnmovedTree
<1>6. Given3' = Given3 /\ (Whole(dtb) /\ PlainlyNamed(dtb))'
  BY <1>2, GivenStays DEF CopyInv
<1>7. Meaning(TreeOf(target))' = Given3'
  BY <1>2, <1>5, <1>6 DEF Meaning, CopyInv
<1> QED
  BY <1>1, <1>2, <1>5, <1>6, <1>7 DEF CopyInv

(* A property of the node at path, in a blob of this meaning, is set.      *)
LEMMA CopySet ==
  ASSUME NEW t, Sound(t), Ordered(t), Whole(t), NEW c \in Visited(t), Begins(t, c),
         NEW name \in PropNames, NEW v \in ValueSeqs,
         NEW r, r = Rw(t, FdtSetProp(t, c.off, name, v)), r.ret >= 0
  PROVE  /\ Whole(r.t)
         /\ Meaning(TreeOf(r.t)) = Read!WithProp(Meaning(TreeOf(t)), Began(t.struct, c), name, v)
<1>1. PICK q : q = FdtSetProp(t, c.off, name, v)
  OBVIOUS
<1>2. r = q
  <2>1. ~Misordered(t, RsvWords)
    BY OrderedPasses
  <2> QED
    BY <1>1, <2>1 DEF Rw
<1>3. Becomes(r.t, TreeOf(t).nodes, Rest(t, c, name) \cup {<<Began(t.struct, c), name, v>>})
  BY <1>1, <1>2, SetPropExact
<1>4. /\ Whole(r.t)
      /\ Meaning(TreeOf(r.t)) = [nodes |-> TreeOf(t).nodes,
                                 props |-> Rest(t, c, name) \cup {<<Began(t.struct, c), name, v>>}]
  BY <1>3, MeaningParts
<1> QED
  BY <1>4, ReadWithProp

LEMMA FoundOrAdded ==
  ASSUME NEW t, Sound(t), Ordered(t), Whole(t), NEW name \in NodeNames,
         \A q \in TreeOf(t).nodes : Len(q) = 1 /\ BaseName[q[1]] = name => q = <<name>>,
         NEW r, r = FindOrAdd(t, name), r.ret >= 0
  PROVE  /\ Whole(r.t) /\ <<<<name>>, r.ret>> \in TreeOf(r.t).where
         /\ Meaning(TreeOf(r.t)) = Read!WithNode(Meaning(TreeOf(t)), <<>>, name)
<1>0. Sane(t)
  BY DEF Whole
<1>1. PICK o : o = SubnodeOffset(t.struct, 0, name)
  OBVIOUS
<1>2. PICK q : q = FdtAddSubnode(t, 0, name)
  OBVIOUS
<1>3. Rw(t, q) = q
  BY OrderedPasses DEF Rw
<1>4. r = IF o = NOTFOUND THEN q ELSE [ret |-> o, t |-> t]
  BY <1>1, <1>2, <1>3 DEF FindOrAdd
<1>5. Append(<<>>, name) = <<name>>
  OBVIOUS
<1>6. Read!WithNode(Meaning(TreeOf(t)), <<>>, name)
        = [nodes |-> TreeOf(t).nodes \cup {<<name>>}, props |-> TreeOf(t).props]
  BY <1>5, ReadWithNode
<1>7. ASSUME o = NOTFOUND, NEW c \in Visited(t), Begins(t, c), Began(t.struct, c) = <<>>, c.off = 0
      PROVE  /\ Whole(r.t) /\ <<<<name>>, r.ret>> \in TreeOf(r.t).where
             /\ Meaning(TreeOf(r.t)) = [nodes |-> TreeOf(t).nodes \cup {<<name>>}, props |-> TreeOf(t).props]
  <2>1. PICK u : u = FdtAddSubnode(t, c.off, name)
    OBVIOUS
  <2>2. r = u /\ u.ret >= 0 /\ Begins(t, c)
    BY <1>2, <1>4, <1>7, <2>1
  <2>3. /\ ~Taken(t, c, name)
        /\ Becomes(u.t, TreeOf(t).nodes \cup {Append(Began(t.struct, c), name)}, TreeOf(t).props)
        /\ <<Append(Began(t.struct, c), name), u.ret>> \in TreeOf(u.t).where
    BY <2>1, <2>2, AddSubnodeExact
  <2>4. Becomes(r.t, TreeOf(t).nodes \cup {<<name>>}, TreeOf(t).props)
    BY <1>5, <1>7, <2>2, <2>3
  <2>5. Whole(r.t) /\ Meaning(TreeOf(r.t)) = [nodes |-> TreeOf(t).nodes \cup {<<name>>}, props |-> TreeOf(t).props]
    BY <2>4, MeaningParts
  <2> QED
    BY <1>5, <1>7, <2>2, <2>3, <2>5
<1>8. ASSUME NEW x \in Visited(t), Begins(t, x), Began(t.struct, x) = <<name>>, o = x.off
      PROVE  /\ Whole(r.t) /\ <<<<name>>, r.ret>> \in TreeOf(r.t).where
             /\ Meaning(TreeOf(r.t)) = [nodes |-> TreeOf(t).nodes \cup {<<name>>}, props |-> TreeOf(t).props]
  <2>1. x.off \in Int /\ x.off >= 0
    BY <1>0, Met
  <2>2. o # NOTFOUND
    BY <1>8, <2>1, Codes
  <2>3. r.t = t /\ r.ret = x.off
    BY <1>4, <1>8, <2>2
  <2>4. <<<<name>>, x.off>> \in TreeOf(t).where /\ <<name>> \in TreeOf(t).nodes
    BY <1>0, <1>8, NodesAre
  <2>5. TreeOf(t).nodes \cup {<<name>>} = TreeOf(t).nodes
    BY <2>4
  <2> QED
    BY <2>3, <2>4, <2>5 DEF Meaning
<1>9. CASE o = BADOFFSET
  <2>1. BADOFFSET # NOTFOUND
    BY DEF BADOFFSET, NOTFOUND
  <2>2. r.ret = BADOFFSET
    BY <1>4, <1>9, <2>1
  <2> QED
    BY <2>2, Codes
<1>10. \/ o = NOTFOUND /\ \E c \in Visited(t) : Begins(t, c) /\ Began(t.struct, c) = <<>> /\ c.off = 0
       \/ o = BADOFFSET
       \/ \E x \in Visited(t) : Begins(t, x) /\ Began(t.struct, x) = <<name>> /\ o = x.off
  BY <1>1, RootChild
<1> QED
  BY <1>6, <1>7, <1>8, <1>9, <1>10

LEMMA AddChosenCopy == ASSUME CopyInv, AddChosen PROVE CopyInv'
<1>1. MainInv'
  BY AddChosenKeeps DEF CopyInv
<1>2. PICK r : r = FindOrAdd(target, "chosen")
  OBVIOUS
<1>3. /\ dtb' = dtb /\ section = "chosen" /\ section' = IF r.ret >= 0 THEN "bootargs" ELSE "fail"
      /\ target' = r.t /\ node' = r.ret
  BY <1>2, Zenon DEF AddChosen, Section
<1>4. /\ Sound(target) /\ Ordered(target) /\ Whole(target) /\ PlainlyNamed(dtb)
      /\ Meaning(TreeOf(target)) = Meaning(Given)
  BY <1>3 DEF CopyInv, MainInv, Opened
<1>5. TreeOf(target).nodes = TreeOf(dtb).nodes
  BY <1>4 DEF Meaning, Given
<1>6. \A q \in TreeOf(target).nodes : Len(q) = 1 /\ BaseName[q[1]] = "chosen" => q = <<"chosen">>
  BY <1>4, <1>5 DEF PlainlyNamed
<1>7. (Whole(dtb) /\ PlainlyNamed(dtb))' /\ Given1' = Given1
  BY <1>3, GivenStays DEF CopyInv
<1>8. CASE r.ret >= 0
  <2>1. "chosen" \in NodeNames
    BY MainAssumption
  <2>2. /\ Whole(r.t) /\ <<<<"chosen">>, r.ret>> \in TreeOf(r.t).where
        /\ Meaning(TreeOf(r.t)) = Read!WithNode(Meaning(TreeOf(target)), <<>>, "chosen")
    BY <1>2, <1>4, <1>6, <1>8, <2>1, FoundOrAdded
  <2>3. Meaning(TreeOf(r.t)) = Given1
    BY <1>4, <2>2 DEF Given1
  <2>4. Meaning(TreeOf(target))' = Given1' /\ Whole(target') /\ (<<<<"chosen">>, node>> \in TreeOf(target).where)'
    BY <1>3, <1>7, <2>2, <2>3 DEF Meaning
  <2>5. section' = "bootargs"
    BY <1>3, <1>8
  <2> QED
    BY <1>1, <1>7, <2>4, <2>5 DEF CopyInv
<1>9. CASE ~(r.ret >= 0)
  BY <1>1, <1>3, <1>7, <1>9 DEF CopyInv, Opened
<1> QED
  BY <1>8, <1>9

LEMMA SetBootArgsCopy == ASSUME CopyInv, SetBootArgs PROVE CopyInv'
<1>1. MainInv'
  BY SetBootArgsKeeps DEF CopyInv
<1>2. PICK r : r = Rw(target, FdtSetProp(target, node, "bootargs", BootArgs))
  OBVIOUS
<1>3. /\ dtb' = dtb /\ section = "bootargs" /\ section' = IF r.ret >= 0 THEN "cpu0" ELSE "fail"
      /\ target' = r.t
  BY <1>2, Zenon DEF SetBootArgs, Section
<1>4. /\ Sound(target) /\ Ordered(target) /\ Whole(target)
      /\ Meaning(TreeOf(target)) = Given1 /\ <<<<"chosen">>, node>> \in TreeOf(target).where
  BY <1>3 DEF CopyInv, MainInv, Opened
<1>5. PICK c \in Visited(target) : Begins(target, c) /\ <<<<"chosen">>, node>> = <<Began(target.struct, c), c.off>>
  BY <1>4, NodesAre DEF Whole
<1>6. Began(target.struct, c) = <<"chosen">> /\ c.off = node
  BY <1>5
<1>7. (Whole(dtb) /\ PlainlyNamed(dtb))' /\ Given2' = Given2
  BY <1>3, GivenStays DEF CopyInv
<1>8. CASE r.ret >= 0
  <2>1. "bootargs" \in PropNames /\ BootArgs \in ValueSeqs
    BY MainAssumption DEF ValueSeqs
  <2>2. /\ Whole(r.t)
        /\ Meaning(TreeOf(r.t)) = Read!WithProp(Meaning(TreeOf(target)), Began(target.struct, c), "bootargs", BootArgs)
    BY <1>2, <1>4, <1>5, <1>6, <1>8, <2>1, CopySet
  <2>3. Meaning(TreeOf(r.t)) = Given2
    BY <1>4, <1>6, <2>2 DEF Given2
  <2>4. Meaning(TreeOf(target))' = Given2' /\ Whole(target')
    BY <1>3, <1>7, <2>2, <2>3 DEF Meaning
  <2>5. section' = "cpu0"
    BY <1>3, <1>8
  <2> QED
    BY <1>1, <1>7, <2>4, <2>5 DEF CopyInv
<1>9. CASE ~(r.ret >= 0)
  BY <1>1, <1>3, <1>7, <1>9 DEF CopyInv, Opened
<1> QED
  BY <1>8, <1>9

LEMMA GivenNodes == Given2.nodes = TreeOf(dtb).nodes \cup {<<"chosen">>}
<1>1. Append(<<>>, "chosen") = <<"chosen">>
  OBVIOUS
<1>2. Given1 = [nodes |-> TreeOf(dtb).nodes \cup {<<"chosen">>}, props |-> TreeOf(dtb).props]
  BY <1>1, ReadWithNode DEF Given1, Given
<1> QED
  BY <1>2 DEF Given2, Read!WithProp

LEMMA SetTimeBaseCopy == ASSUME CopyInv, SetTimeBase PROVE CopyInv'
<1>1. MainInv'
  BY SetTimeBaseKeeps DEF CopyInv
<1>2. PICK o : o = SubnodeOffset(target.struct, 0, "cpus")
  OBVIOUS
<1>3. PICK r : r = Rw(target, FdtSetProp(target, o, "timebase-frequency", <<Value(TimeBase)>>))
  OBVIOUS
<1>4. /\ dtb' = dtb /\ section = "cpus" /\ section' = IF o >= 0 /\ r.ret >= 0 THEN "pack" ELSE "halt"
      /\ target' = IF o >= 0 THEN r.t ELSE target
  BY <1>2, <1>3, Zenon DEF SetTimeBase, Section
<1>5. /\ Sound(target) /\ Ordered(target) /\ Whole(target) /\ PlainlyNamed(dtb)
      /\ Meaning(TreeOf(target)) = Given2
  BY <1>4 DEF CopyInv, MainInv, Opened
<1>6. TreeOf(target).nodes = TreeOf(dtb).nodes \cup {<<"chosen">>}
  BY <1>5, GivenNodes, MeaningParts
<1>7. \A q \in TreeOf(target).nodes : Len(q) = 1 /\ BaseName[q[1]] = "cpus" => q = <<"cpus">>
  <2>1. BaseName["chosen"] # "cpus" /\ <<"chosen">>[1] = "chosen"
    BY MainAssumption
  <2> QED
    BY <1>5, <1>6, <2>1 DEF PlainlyNamed
<1>8. (Whole(dtb) /\ PlainlyNamed(dtb))' /\ Given3' = Given3
  BY <1>4, GivenStays DEF CopyInv
<1>9. CASE o >= 0 /\ r.ret >= 0
  <2>1. PICK c \in Visited(target) : Begins(target, c) /\ Began(target.struct, c) = <<"cpus">> /\ o = c.off
    <3>1. ~(NOTFOUND >= 0) /\ ~(BADOFFSET >= 0)
      BY DEF NOTFOUND, BADOFFSET
    <3>2. o # NOTFOUND /\ o # BADOFFSET
      BY <1>9, <3>1
    <3> QED
      BY <1>2, <1>5, <1>7, <3>2, RootChild
  <2>2. "timebase-frequency" \in PropNames /\ <<Value(TimeBase)>> \in ValueSeqs
    BY MainAssumption DEF ValueSeqs, ValueWords, Value
  <2>3. /\ Whole(r.t)
        /\ Meaning(TreeOf(r.t)) = Read!WithProp(Meaning(TreeOf(target)), Began(target.struct, c),
                                                "timebase-frequency", <<Value(TimeBase)>>)
    BY <1>3, <1>5, <1>9, <2>1, <2>2, CopySet
  <2>4. Meaning(TreeOf(r.t)) = Given3
    BY <1>5, <2>1, <2>3 DEF Given3
  <2>5. section' = "pack" /\ target' = r.t
    BY <1>4, <1>9
  <2>6. Meaning(TreeOf(target))' = Given3' /\ Whole(target')
    BY <1>8, <2>3, <2>4, <2>5 DEF Meaning
  <2> QED
    BY <1>1, <1>8, <2>5, <2>6 DEF CopyInv
<1>10. CASE ~(o >= 0 /\ r.ret >= 0)
  <2>1. section' = "halt"
    BY <1>4, <1>10
  <2> QED
    BY <1>1, <1>8, <2>1 DEF CopyInv, Opened
<1> QED
  BY <1>9, <1>10

LEMMA CopyStepKeeps == CopyInv /\ [MainNext]_mvars => CopyInv'
<1> SUFFICES ASSUME CopyInv, [MainNext]_mvars PROVE CopyInv'
  OBVIOUS
<1>1. CASE UNCHANGED mvars
  <2>1. dtb' = dtb /\ target' = target /\ section' = section /\ node' = node
    BY <1>1 DEF mvars
  <2>2. MainInv'
    BY <1>1, MainStepKeeps DEF CopyInv
  <2>3. /\ Given1' = Given1 /\ Given2' = Given2 /\ Given3' = Given3 /\ Meaning(Given)' = Meaning(Given)
        /\ Meaning(TreeOf(target))' = Meaning(TreeOf(target))
    BY <2>1, GivenStays DEF Meaning
  <2> QED
    BY <2>1, <2>2, <2>3 DEF CopyInv
<1>2. CASE Stopped
  BY <1>1, <1>2 DEF Stopped
<1> QED
  BY <1>1, <1>2, ReadersCopy, OpenTargetCopy, AddChosenCopy, SetBootArgsCopy, ReadsCopy, SetTimeBaseCopy,
     PackTargetCopy DEF MainNext, Readers

(* The copy main hands on is, for any tree the boot ROM leaves and however *)
(* full the buffer, that tree with the bootargs and the timebase-frequency *)
(* put in and nothing else changed: sections run in another order, or with *)
(* an offset an insertion made stale, would put them elsewhere             *)
(* (main.c:379-458).                                                       *)
THEOREM CopyIsPatchedAlways == MainSpec => []CopyIsPatched
<1>1. MainInit => CopyInv
  <2> SUFFICES ASSUME MainInit PROVE CopyInv
    OBVIOUS
  <2>1. /\ dtb \in Blobs /\ WellLaidOut(dtb) /\ Terminated(dtb) /\ WellFormed(dtb) /\ PlainlyNamed(dtb)
        /\ section = "uart" /\ target = dtb
    BY MainAssumption DEF MainInit
  <2>2. Sound(dtb)
    BY <2>1 DEF Sound
  <2>3. Whole(dtb)
    BY <2>1, <2>2, SoundWords, WholeIs
  <2> QED
    BY <2>1, <2>2, <2>3 DEF CopyInv, MainInv, Opened, Shrunk
<1>2. CopyInv => CopyIsPatched
  <2> SUFFICES ASSUME CopyInv, section \in {"trng", "run", "halt trng"}
               PROVE  LET copy == TreeOf(target)
                      IN  /\ copy.ok
                          /\ [nodes |-> copy.nodes, props |-> copy.props]
                               = Patched([nodes |-> Given.nodes, props |-> Given.props])
    BY DEF CopyIsPatched
  <2>1. Whole(target) /\ Meaning(TreeOf(target)) = Given3
    BY DEF CopyInv, Opened
  <2>2. TreeOf(target).ok
    BY <2>1, MeaningIs DEF Whole
  <2>3. Given3 = Patched([nodes |-> Given.nodes, props |-> Given.props])
    BY DEF Given3, Given2, Given1, Patched, Meaning
  <2> QED
    BY <2>1, <2>2, <2>3 DEF Meaning
<1> QED
  BY <1>1, <1>2, CopyStepKeeps, PTL DEF MainSpec

-----------------------------------------------------------------------------
LEMMA BaudParts == ASSUME NEW a \in Nat
                   PROVE  LET q == a \div Baud
                          IN  /\ q \in Nat /\ Baud * q \in Nat
                              /\ Baud * q <= a /\ a < Baud * q + Baud
<1>1. Baud \in Nat \ {0}
  BY MainAssumption
<1>2. a \div Baud \in Nat /\ a % Baud \in 0 .. Baud - 1 /\ a % Baud = a - Baud * (a \div Baud)
  BY <1>1
<1> DEFINE x == Baud * (a \div Baud)
<1>3. x \in Nat
  BY <1>1, <1>2
<1>4. a % Baud = a - x /\ a % Baud >= 0 /\ a % Baud < Baud
  BY <1>1, <1>2
<1> HIDE DEF x
<1>5. x <= a /\ a < x + Baud
  BY <1>1, <1>3, <1>4
<1> QED
  BY <1>2, <1>3, <1>5 DEF x

(* The UART's divisor is the smallest that keeps it within the rate, for   *)
(* any rate and every clock whose sum with the rate is an unsigned long    *)
(* (uart.h:27-37).                                                         *)
THEOREM DivisorClosest ==
  ASSUME NEW hz \in Nat, hz + Baud <= LongMod
  PROVE  UartClosest(hz, UartMinClkDivisor(hz))
<1> DEFINE a == hz + Baud - 1
           q == a \div Baud
           y == Baud * q
<1>1. Baud \in Nat /\ Baud >= 1
  BY MainAssumption
<1>2. a \in Nat /\ LongMod \in Nat /\ LongMod > 0 /\ a < LongMod
  BY <1>1, AddrAssumption
<1>3. a % LongMod = a
  <2> HIDE DEF a
  <2> QED
    BY <1>2
<1>4. q \in Nat /\ y \in Nat /\ y <= a /\ a < y + Baud
  <2> HIDE DEF a
  <2> QED
    BY <1>2, BaudParts
<1>5. UartMinClkDivisor(hz) = IF q = 0 THEN 0 ELSE q - 1
  BY <1>3 DEF UartMinClkDivisor
<1>6. a = hz + Baud - 1 /\ (q = 0 => y = 0)
  BY <1>1, <1>4
<1>7. CASE q = 0
  <2>1. hz <= Baud
    <3> HIDE DEF a, q, y
    <3> QED
      BY <1>1, <1>4, <1>6, <1>7
  <2>2. Baud * (0 + 1) = Baud
    BY <1>1
  <2> QED
    BY <1>5, <1>7, <2>1, <2>2 DEF UartClosest
<1>8. CASE q # 0
  <2>1. hz <= y /\ hz > y - Baud
    <3> HIDE DEF a, q, y
    <3> QED
      BY <1>1, <1>4, <1>6
  <2>2. Baud * (q - 1 + 1) = y /\ Baud * (q - 1) = y - Baud
    <3> HIDE DEF q
    <3> QED
      BY <1>1, <1>4
  <2> HIDE DEF a, q, y
  <2> QED
    BY <1>5, <1>8, <2>1, <2>2 DEF UartClosest
<1> QED
  BY <1>7, <1>8
=============================================================================
