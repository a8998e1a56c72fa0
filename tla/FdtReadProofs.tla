--------------------------- MODULE FdtReadProofs ----------------------------
(***************************************************************************)
(* Proofs about device trees as libfdt keeps them: what the walks of Fdt   *)
(* return, for any structure block; what a blob means, by the cursors a    *)
(* walk over it visits; and what becomes of that when words of it give way *)
(* to others, for any blob that is in order (Whole).                       *)
(***************************************************************************)
EXTENDS Fdt, WellFoundedInduction, SequenceTheorems, TLAPS

LEMMA ConcatLen == ASSUME NEW S, NEW s \in Seq(S), NEW t \in Seq(S)
                   PROVE  s \o t \in Seq(S) /\ Len(s \o t) = Len(s) + Len(t)
                          /\ Len(s) \in Nat /\ Len(t) \in Nat
  BY ConcatProperties, LenProperties

LEMMA Codes == /\ NOTFOUND < 0 /\ EXISTS < 0 /\ NOSPACE < 0 /\ BADOFFSET < 0 /\ TRUNCATED < 0
               /\ BADSTRUCTURE < 0 /\ INTERNAL < 0 /\ BADLAYOUT < 0
               /\ NOTFOUND \in Int /\ EXISTS \in Int /\ NOSPACE \in Int /\ BADOFFSET \in Int
               /\ TRUNCATED \in Int /\ BADSTRUCTURE \in Int /\ INTERNAL \in Int /\ BADLAYOUT \in Int
  BY DEF NOTFOUND, EXISTS, NOSPACE, BADOFFSET, TRUNCATED, BADSTRUCTURE, INTERNAL, BADLAYOUT

LEMMA LeastNat == ASSUME NEW S \in SUBSET Nat, S # {}
                  PROVE  \E i \in S : \A j \in S : i <= j
<1>1. PICK i \in S : \A j \in S : ~(<<j, i>> \in OpToRel(<, Nat))
  BY WFMin, NatLessThanWellFounded, Zenon
<1>2. \A j \in S : ~(j < i)
  BY <1>1 DEF OpToRel
<1> QED
  BY <1>2

-----------------------------------------------------------------------------
(* The walks of Fdt are recursive functions that call themselves last: on  *)
(* g[x], until they stop and return base[x].  Where m gets smaller on the  *)
(* way there is such a function.                                           *)
Walks(f, D, stop, base, g) == f = [x \in D |-> IF x \in stop THEN base[x] ELSE f[g[x]]]

LEMMA WalkExists ==
  ASSUME NEW D, NEW stop, NEW base, NEW g \in [D -> D], NEW N \in Nat, NEW m \in [D -> 0 .. N],
         \A x \in D : x \notin stop => m[g[x]] < m[x]
  PROVE  \E f : Walks(f, D, stop, base, g)
<1> DEFINE Near(n) == {x \in D : m[x] <= n}
           Bad == {n \in Nat : ~ \E f : Walks(f, Near(n), stop, base, g)}
<1>1. Bad = {}
  <2> SUFFICES ASSUME Bad # {} PROVE FALSE
    OBVIOUS
  <2>1. Bad \in SUBSET Nat
    OBVIOUS
  <2> HIDE DEF Bad
  <2>2. PICK n \in Bad : \A j \in Bad : n <= j
    BY <2>1, LeastNat
  <2>3. n \in Nat /\ ~ \E f : Walks(f, Near(n), stop, base, g)
    BY <2>2 DEF Bad
  <2>4. CASE n = 0
    <3> DEFINE f == [x \in Near(0) |-> base[x]]
    <3>1. \A x \in Near(0) : x \in stop
      OBVIOUS
    <3>2. f = [x \in Near(0) |-> IF x \in stop THEN base[x] ELSE f[g[x]]]
      BY <3>1
    <3>3. Walks(f, Near(0), stop, base, g)
      BY <3>2 DEF Walks
    <3> QED
      BY <2>3, <2>4, <3>3
  <2>5. CASE n # 0
    <3>1. n - 1 \in Nat /\ n - 1 \notin Bad
      BY <2>2, <2>3, <2>5
    <3>2. PICK h : Walks(h, Near(n - 1), stop, base, g)
      BY <3>1 DEF Bad
    <3> DEFINE f == [x \in Near(n) |-> IF x \in stop THEN base[x] ELSE h[g[x]]]
    <3>3. ASSUME NEW x \in Near(n), x \notin stop PROVE h[g[x]] = f[g[x]]
      <4>1. g[x] \in D /\ m[g[x]] < m[x] /\ m[x] <= n
        BY <3>3
      <4>2. g[x] \in Near(n - 1) /\ g[x] \in Near(n)
        BY <4>1, <2>3
      <4> HIDE DEF Near
      <4>3. h[g[x]] = IF g[x] \in stop THEN base[g[x]] ELSE h[g[g[x]]]
        BY <3>2, <4>2 DEF Walks
      <4> QED
        BY <4>2, <4>3
    <3> HIDE DEF Near
    <3>4. f = [x \in Near(n) |-> IF x \in stop THEN base[x] ELSE f[g[x]]]
      <4> DEFINE f2 == [x \in Near(n) |-> IF x \in stop THEN base[x] ELSE f[g[x]]]
      <4>1. \A x \in Near(n) : f[x] = f2[x]
        BY <3>3
      <4>2. f = f2
        BY <4>1
      <4> QED
        BY <4>2
    <3>5. Walks(f, Near(n), stop, base, g)
      BY <3>4 DEF Walks
    <3> QED
      BY <2>3, <3>5
  <2> QED
    BY <2>4, <2>5
<1>2. PICK f : Walks(f, Near(N), stop, base, g)
  BY <1>1
<1>3. Near(N) = D
  OBVIOUS
<1> QED
  BY <1>2, <1>3

(* What a walk returns, when what holds on the way holds at its end.       *)
Leads(stop, base, g, P, Q, m) ==
  \A x \in P : IF x \in stop THEN base[x] \in Q ELSE g[x] \in P /\ m[g[x]] < m[x]

LEMMA WalkEnds ==
  ASSUME NEW D, NEW stop, NEW base, NEW g \in [D -> D], NEW f, Walks(f, D, stop, base, g),
         NEW P \in SUBSET D, NEW Q, NEW m \in [D -> Nat], Leads(stop, base, g, P, Q, m)
  PROVE  \A x \in P : f[x] \in Q
<1> DEFINE Bad == {m[x] : x \in {y \in P : f[y] \notin Q}}
<1> SUFFICES ASSUME NEW z \in P, f[z] \notin Q PROVE FALSE
  OBVIOUS
<1>1. Bad \in SUBSET Nat /\ m[z] \in Bad
  OBVIOUS
<1>2. PICK n \in Bad : \A j \in Bad : n <= j
  <2> HIDE DEF Bad
  <2> QED
    BY <1>1, LeastNat
<1>3. PICK x \in P : f[x] \notin Q /\ m[x] = n
  BY <1>2
<1>4. f[x] = IF x \in stop THEN base[x] ELSE f[g[x]]
  BY DEF Walks
<1>5. x \notin stop /\ g[x] \in P /\ f[g[x]] \notin Q
  BY <1>3, <1>4 DEF Leads
<1>6. m[g[x]] \in Bad /\ m[g[x]] < m[x]
  BY <1>5 DEF Leads
<1>7. m[g[x]] \in Nat /\ m[x] \in Nat
  OBVIOUS
<1> HIDE DEF Bad
<1> QED
  BY <1>2, <1>3, <1>6, <1>7

-----------------------------------------------------------------------------
(* Tags.                                                                   *)
Tags    == {"begin", "prop", "endnode", "nop", "end"}

(* Words a walk can read: names name nodes and lengths are numbers.        *)
Legible(s) == /\ Len(s) \in Nat
              /\ \A i \in 1 .. Len(s) : /\ s[i][1] = "name" => s[i][2] \in NodeNames
                                        /\ s[i][1] = "len" => s[i][2] \in Nat

LEMMA LegibleOn ==
  ASSUME NEW s, Legible(s), NEW i \in 1 .. Len(s)
  PROVE  (s[i][1] = "name" => s[i][2] \in NodeNames) /\ (s[i][1] = "len" => s[i][2] \in Nat)
  BY DEF Legible

Structs == Seq(BlobWords)

LEMMA StructLegible == ASSUME NEW s \in Structs PROVE Legible(s)
<1>1. Len(s) \in Nat
  BY LenProperties DEF Structs
<1>2. ASSUME NEW i \in 1 .. Len(s)
      PROVE  /\ s[i][1] = "name" => s[i][2] \in NodeNames
             /\ s[i][1] = "len" => s[i][2] \in Nat
  <2>1. s[i] \in BlobWords
    BY ElementOfSeq DEF Structs
  <2>2. ASSUME NEW w \in BlobWords
        PROVE  (w[1] = "name" => w[2] \in NodeNames) /\ (w[1] = "len" => w[2] \in Nat)
    BY DEF BlobWords, ValueWords
  <2> QED
    BY <2>1, <2>2
<1> QED
  BY <1>1, <1>2 DEF Legible

(* What fdt_next_tag returns: an end tag with an error, or a tag that lies *)
(* in the block as a whole.                                                *)
TagAt(s, o, w) ==
  /\ o \in 0 .. Len(s) - 1 /\ w.next \in o + 1 .. Len(s)
  /\ w.tag \in Tags /\ s[o + 1] = Tag(w.tag)
  /\ w.tag = "prop" => /\ o + 2 \in 1 .. Len(s) /\ s[o + 2][1] = "len" /\ s[o + 2][2] \in Nat
                       /\ w.next = o + 3 + s[o + 2][2]
  /\ w.tag = "begin" => /\ o + 2 \in 1 .. Len(s) /\ s[o + 2][1] = "name"
                        /\ s[o + 2][2] \in NodeNames
                        /\ NameWords[s[o + 2][2]] \in Nat
                        /\ w.next = o + 1 + NameWords[s[o + 2][2]]

LEMMA NextTagIs == ASSUME NEW s, Legible(s), NEW o \in Int
                   PROVE  LET w == NextTag(s, o)
                          IN  \/ w.tag = "end" /\ w.next \in {TRUNCATED, BADSTRUCTURE}
                              \/ TagAt(s, o, w)
<1> DEFINE w == NextTag(s, o)
           place == s[o + 1]
           Behind == IF place = Tag("begin") /\ o + 1 < Len(s) /\ s[o + 2][1] = "name"
                       THEN o + 1 + NameWords[s[o + 2][2]]
                     ELSE IF place = Tag("prop") /\ o + 1 < Len(s) /\ s[o + 2][1] = "len"
                       THEN o + 3 + s[o + 2][2]
                     ELSE IF place \in {Tag("endnode"), Tag("nop"), Tag("end")}
                       THEN o + 1
                     ELSE BADSTRUCTURE
<1> SUFFICES (w.tag = "end" /\ w.next \in {TRUNCATED, BADSTRUCTURE}) \/ TagAt(s, o, w)
  OBVIOUS
<1>1. Len(s) \in Nat
  BY DEF Legible
<1>2. CASE o < 0 \/ o >= Len(s)
  BY <1>2 DEF NextTag
<1>3. CASE ~(o < 0 \/ o >= Len(s))
  <2>1. o \in 0 .. Len(s) - 1
    BY <1>1, <1>3
  <2>2. w = IF Behind < 0 \/ Behind > Len(s) THEN [tag |-> "end", next |-> BADSTRUCTURE]
            ELSE [tag |-> place[2], next |-> Behind]
    BY <1>3 DEF NextTag
  <2> HIDE DEF w
  <2>3. CASE place = Tag("begin") /\ o + 1 < Len(s) /\ s[o + 2][1] = "name"
    <3>1. o + 2 \in 1 .. Len(s) /\ s[o + 2][2] \in NodeNames
      <4>1. o + 2 \in 1 .. Len(s)
        BY <1>1, <2>1, <2>3
      <4>2. s[o + 2][1] = "name"
        BY <2>3
      <4> QED
        BY <4>1, <4>2, LegibleOn
    <3>2. NameWords[s[o + 2][2]] \in Nat \ {0}
      BY <3>1, FdtAssumption
    <3>3. Behind = o + 1 + NameWords[s[o + 2][2]] /\ place[2] = "begin"
      BY <2>3 DEF Tag
    <3>4. s[o + 1] = Tag(place[2])
      BY <2>3 DEF Tag
    <3> HIDE DEF Behind, place
    <3> QED
      BY <1>1, <2>1, <2>2, <3>1, <3>2, <3>3, <3>4, <2>3 DEF TagAt, Tags
  <2>4. CASE place = Tag("prop") /\ o + 1 < Len(s) /\ s[o + 2][1] = "len"
    <3>1. o + 2 \in 1 .. Len(s) /\ s[o + 2][2] \in Nat
      <4>1. o + 2 \in 1 .. Len(s)
        BY <1>1, <2>1, <2>4
      <4>2. s[o + 2][1] = "len"
        BY <2>4
      <4> QED
        BY <4>1, <4>2, LegibleOn
    <3>3. Behind = o + 3 + s[o + 2][2] /\ place[2] = "prop"
      BY <2>4 DEF Tag
    <3>4. s[o + 1] = Tag(place[2])
      BY <2>4 DEF Tag
    <3> HIDE DEF Behind, place
    <3> QED
      BY <1>1, <2>1, <2>2, <3>1, <3>3, <3>4, <2>4 DEF TagAt, Tags
  <2>5. CASE place \in {Tag("endnode"), Tag("nop"), Tag("end")}
    <3>1. Behind = o + 1 /\ place[2] \in {"endnode", "nop", "end"}
      BY <2>5 DEF Tag
    <3>4. s[o + 1] = Tag(place[2])
      BY <2>5 DEF Tag
    <3> HIDE DEF Behind, place
    <3> QED
      BY <1>1, <2>1, <2>2, <3>1, <3>4, <2>5 DEF TagAt, Tags
  <2>6. CASE /\ ~(place = Tag("begin") /\ o + 1 < Len(s) /\ s[o + 2][1] = "name")
             /\ ~(place = Tag("prop") /\ o + 1 < Len(s) /\ s[o + 2][1] = "len")
             /\ place \notin {Tag("endnode"), Tag("nop"), Tag("end")}
    <3>1. Behind = BADSTRUCTURE
      BY <2>6
    <3> HIDE DEF Behind, place
    <3> QED
      BY <2>2, <3>1 DEF BADSTRUCTURE
  <2> QED
    BY <2>3, <2>4, <2>5, <2>6
<1> QED
  BY <1>2, <1>3

(* The consequences the walks rest on.                                     *)
LEMMA NextTagOn == ASSUME NEW s, Legible(s), NEW o \in Int
                   PROVE  LET w == NextTag(s, o)
                          IN  /\ w.tag \in Tags /\ w.next \in Int /\ Len(s) \in Nat
                              /\ w.next < 0 => w.tag = "end"
                              /\ w.next >= 0 => TagAt(s, o, w)
                              /\ w.next >= 0 => o >= 0 /\ o < w.next /\ w.next <= Len(s)
<1> DEFINE w == NextTag(s, o)
<1>1. (w.tag = "end" /\ w.next \in {TRUNCATED, BADSTRUCTURE}) \/ TagAt(s, o, w)
  BY NextTagIs
<1>2. Len(s) \in Nat
  BY DEF Legible
<1> SUFFICES /\ w.tag \in Tags /\ w.next \in Int /\ Len(s) \in Nat
             /\ w.next < 0 => w.tag = "end"
             /\ w.next >= 0 => TagAt(s, o, w)
             /\ w.next >= 0 => o >= 0 /\ o < w.next /\ w.next <= Len(s)
  OBVIOUS
<1> HIDE DEF w
<1>3. CASE w.tag = "end" /\ w.next \in {TRUNCATED, BADSTRUCTURE}
  BY <1>2, <1>3 DEF Tags, TRUNCATED, BADSTRUCTURE
<1>4. CASE TagAt(s, o, w)
  BY <1>2, <1>4 DEF TagAt
<1> QED
  BY <1>1, <1>3, <1>4

LEMMA CheckTagOn == ASSUME NEW s, Legible(s), NEW o \in Int, NEW kind
                    PROVE  /\ CheckTag(s, o, kind) \in Int
                           /\ CheckTag(s, o, kind) >= 0
                                => /\ NextTag(s, o).tag = kind /\ TagAt(s, o, NextTag(s, o))
                                   /\ CheckTag(s, o, kind) = NextTag(s, o).next
                                   /\ o >= 0 /\ o < CheckTag(s, o, kind)
                                   /\ CheckTag(s, o, kind) <= Len(s)
<1> DEFINE w == NextTag(s, o)
<1>1. CheckTag(s, o, kind) = IF w.tag = kind THEN w.next ELSE BADOFFSET
  BY DEF CheckTag
<1>2. BADOFFSET \in Int /\ BADOFFSET < 0
  BY DEF BADOFFSET
<1>3. /\ w.tag \in Tags /\ w.next \in Int /\ Len(s) \in Nat
      /\ w.next < 0 => w.tag = "end"
      /\ w.next >= 0 => TagAt(s, o, w)
      /\ w.next >= 0 => o >= 0 /\ o < w.next /\ w.next <= Len(s)
  BY NextTagOn
<1> HIDE DEF w
<1> QED
  BY <1>1, <1>2, <1>3 DEF w

-----------------------------------------------------------------------------
(* Walks.  How far the end of the structure is from o.                     *)
Ahead(s) == [o \in Int |-> IF o \in 0 .. Len(s) THEN Len(s) - o + 1 ELSE 0]

LEMMA AheadOn == ASSUME NEW s, Legible(s)
                 PROVE  /\ Ahead(s) \in [Int -> 0 .. Len(s) + 1] /\ Ahead(s) \in [Int -> Nat]
                        /\ Len(s) \in Nat
                        /\ \A o, p \in Int : o \in 0 .. Len(s) /\ p > o => Ahead(s)[p] < Ahead(s)[o]
<1>1. Len(s) \in Nat
  BY DEF Legible
<1> QED
  BY <1>1 DEF Ahead

LEMMA SkipWalk ==
  ASSUME NEW s, Legible(s), NEW kinds, "end" \notin kinds
  PROVE  \E f : /\ f = [p \in Int |-> IF NextTag(s, p).tag \in kinds THEN f[NextTag(s, p).next] ELSE p]
                /\ \A o : Skip(s, o, kinds) = f[o]
<1> DEFINE stop == {p \in Int : NextTag(s, p).tag \notin kinds}
           base == [p \in Int |-> p]
           g    == [p \in Int |-> NextTag(s, p).next]
           Go   == CHOOSE f : f = [p \in Int |-> IF NextTag(s, p).tag \in kinds
                                                   THEN f[NextTag(s, p).next] ELSE p]
<1>1. \A o : Skip(s, o, kinds) = Go[o]
  BY DEF Skip
<1>2. g \in [Int -> Int]
  BY NextTagOn
<1>3. \A p \in Int : p \notin stop => p >= 0 /\ p < g[p] /\ g[p] <= Len(s)
  BY NextTagOn
<1>4. ASSUME NEW p \in Int, p \notin stop PROVE Ahead(s)[g[p]] < Ahead(s)[p]
  <2>1. p >= 0 /\ p < g[p] /\ g[p] <= Len(s) /\ g[p] \in Int /\ Len(s) \in Nat
    BY <1>2, <1>3, <1>4, AheadOn
  <2> HIDE DEF stop, g
  <2>2. p \in 0 .. Len(s) /\ g[p] > p
    BY <2>1
  <2> QED
    BY <2>1, <2>2, AheadOn
<1>5. \E f : Walks(f, Int, stop, base, g)
  <2>1. Len(s) + 1 \in Nat /\ Ahead(s) \in [Int -> 0 .. Len(s) + 1]
    BY AheadOn
  <2> HIDE DEF stop, g, base
  <2> QED
    BY <1>2, <1>4, <2>1, WalkExists
<1>6. PICK f : Walks(f, Int, stop, base, g)
  BY <1>5
<1>7. f = [p \in Int |-> IF NextTag(s, p).tag \in kinds THEN f[NextTag(s, p).next] ELSE p]
  BY <1>6 DEF Walks
<1>8. Go = [p \in Int |-> IF NextTag(s, p).tag \in kinds THEN Go[NextTag(s, p).next] ELSE p]
  BY <1>7
<1> HIDE DEF Go
<1> QED
  BY <1>1, <1>8

LEMMA SkipStep ==
  ASSUME NEW s, Legible(s), NEW o \in Int, NEW kinds, "end" \notin kinds
  PROVE  Skip(s, o, kinds) = IF NextTag(s, o).tag \in kinds
                               THEN Skip(s, NextTag(s, o).next, kinds) ELSE o
<1>1. PICK f : /\ f = [p \in Int |-> IF NextTag(s, p).tag \in kinds THEN f[NextTag(s, p).next] ELSE p]
               /\ \A p : Skip(s, p, kinds) = f[p]
  BY SkipWalk
<1>2. f[o] = IF NextTag(s, o).tag \in kinds THEN f[NextTag(s, o).next] ELSE o
  BY <1>1
<1>3. Skip(s, o, kinds) = f[o] /\ Skip(s, NextTag(s, o).next, kinds) = f[NextTag(s, o).next]
  BY <1>1
<1> QED
  BY <1>2, <1>3

LEMMA SkipOn ==
  ASSUME NEW s, Legible(s), NEW o \in Int, NEW kinds, "end" \notin kinds
  PROVE  /\ Skip(s, o, kinds) \in Int
         /\ NextTag(s, Skip(s, o, kinds)).tag \notin kinds
         /\ o \in 0 .. Len(s) => Skip(s, o, kinds) \in o .. Len(s)
         /\ o \notin 0 .. Len(s) => Skip(s, o, kinds) = o
<1> DEFINE stop == {p \in Int : NextTag(s, p).tag \notin kinds}
           base == [p \in Int |-> p]
           g    == [p \in Int |-> NextTag(s, p).next]
<1>1. PICK Go : /\ Go = [p \in Int |-> IF NextTag(s, p).tag \in kinds THEN Go[NextTag(s, p).next] ELSE p]
                /\ \A p : Skip(s, p, kinds) = Go[p]
  BY SkipWalk
<1>2. g \in [Int -> Int]
  BY NextTagOn
<1>3. \A p \in Int : p \notin stop => p >= 0 /\ p < g[p] /\ g[p] <= Len(s)
  BY NextTagOn
<1>4. ASSUME NEW p \in Int, p \notin stop
      PROVE  p \in 0 .. Len(s) /\ Ahead(s)[g[p]] < Ahead(s)[p]
  <2>1. p >= 0 /\ p < g[p] /\ g[p] <= Len(s) /\ g[p] \in Int /\ Len(s) \in Nat
    BY <1>2, <1>3, <1>4, AheadOn
  <2> HIDE DEF stop, g
  <2>2. p \in 0 .. Len(s) /\ g[p] > p
    BY <2>1
  <2> QED
    BY <2>1, <2>2, AheadOn
<1>9. Walks(Go, Int, stop, base, g)
  BY <1>1 DEF Walks
<1>10. CASE o \in 0 .. Len(s)
  <2> DEFINE P == o .. Len(s)
             Q == {p \in P : p \in stop}
  <2>1. P \in SUBSET Int /\ Len(s) \in Nat
    BY AheadOn
  <2>2. Leads(stop, base, g, P, Q, Ahead(s))
    <3> HIDE DEF stop, g
    <3> QED
      BY <1>2, <1>3, <1>4, <1>10, <2>1 DEF Leads
  <2>3. Ahead(s) \in [Int -> Nat]
    BY AheadOn
  <2>4. o \in P
    BY <1>10
  <2>5. \A x \in P : Go[x] \in Q
    <3> HIDE DEF P, Q, stop, g, base
    <3> QED
      BY <1>2, <1>9, <2>1, <2>2, <2>3, WalkEnds
  <2> QED
    BY <1>1, <1>10, <2>1, <2>4, <2>5
<1>11. CASE o \notin 0 .. Len(s)
  <2>1. o \in stop
    BY <1>4, <1>11
  <2>2. Go[o] = o
    BY <1>1, <2>1
  <2> QED
    BY <1>1, <1>11, <2>1, <2>2
<1> QED
  BY <1>10, <1>11

LEMMA NextPropOn ==
  ASSUME NEW s, Legible(s), NEW o \in Int
  PROVE  LET p == NextProp(s, o)
         IN  /\ p \in Int
             /\ p >= 0 => NextTag(s, p).tag = "prop" /\ p >= o /\ o >= 0 /\ p < Len(s)
<1> DEFINE q == Skip(s, o, {"nop"})
           w == NextTag(s, q)
           p == NextProp(s, o)
<1>1. p = IF w.tag = "prop" THEN q ELSE IF w.tag # "end" THEN NOTFOUND
          ELSE IF w.next >= 0 THEN BADSTRUCTURE ELSE w.next
  BY DEF NextProp
<1>2. q \in Int /\ (o \in 0 .. Len(s) => q \in o .. Len(s)) /\ (o \notin 0 .. Len(s) => q = o)
  BY SkipOn
<1>3. /\ w.next \in Int /\ (w.next < 0 => w.tag = "end")
      /\ w.next >= 0 => q >= 0 /\ q < w.next /\ w.next <= Len(s)
  BY <1>2, NextTagOn
<1>4. Len(s) \in Nat
  BY DEF Legible
<1>5. w.tag = "prop" => NextTag(s, q).tag = "prop" /\ q >= 0 /\ o >= 0 /\ q >= o /\ q < Len(s)
  <2> HIDE DEF q
  <2>1. w.tag = "prop" => w.next >= 0
    BY <1>3
  <2> HIDE DEF w
  <2>2. w.tag = "prop" => q >= 0 /\ o >= 0 /\ q >= o /\ q < Len(s)
    BY <1>2, <1>3, <1>4, <2>1
  <2> QED
    BY <2>2 DEF w
<1> SUFFICES /\ p \in Int
             /\ p >= 0 => NextTag(s, p).tag = "prop" /\ p >= o /\ o >= 0 /\ p < Len(s)
  OBVIOUS
<1>6. CASE w.tag = "prop"
  <2>1. p = q
    BY <1>1, <1>6
  <2> HIDE DEF p, q, w
  <2> QED
    BY <1>2, <1>5, <1>6, <2>1
<1>7. CASE w.tag # "prop"
  <2> HIDE DEF p, q, w
  <2> QED
    BY <1>1, <1>3, <1>7 DEF NOTFOUND, BADSTRUCTURE
<1> QED
  BY <1>6, <1>7

(* The way up from n to the next node, inside fdt_next_node.               *)
Climbs(s, f) ==
  f = [n \in NodesMet |->
         LET p == Skip(s, n.off, {"prop", "nop"})
             w == NextTag(s, p)
         IN  IF w.tag = "begin" THEN [off |-> p, depth |-> n.depth + 1]
             ELSE IF w.tag = "endnode" /\ n.depth > 0 THEN f[[off |-> w.next, depth |-> n.depth - 1]]
             ELSE IF w.tag = "endnode" THEN [off |-> w.next, depth |-> n.depth - 1]
             ELSE [off |-> IF w.next >= 0 THEN NOTFOUND ELSE w.next, depth |-> n.depth]]
Climb(s) == CHOOSE f : Climbs(s, f)

LEMMA ClimbIs ==
  ASSUME NEW s, Legible(s)
  PROVE  /\ Climbs(s, Climb(s))
         /\ \A o, d : LET from == IF o >= 0 THEN CheckTag(s, o, "begin") ELSE 0
                      IN  NextNode(s, o, d) = IF from < 0 THEN [off |-> from, depth |-> d]
                                              ELSE Climb(s)[[off |-> from, depth |-> d]]
<1> DEFINE At(n)  == Skip(s, n.off, {"prop", "nop"})
           W(n)   == NextTag(s, At(n))
           Up(n)  == W(n).tag = "endnode" /\ n.depth > 0
           End(n) == IF W(n).tag = "begin" THEN [off |-> At(n), depth |-> n.depth + 1]
                     ELSE IF W(n).tag = "endnode" THEN [off |-> W(n).next, depth |-> n.depth - 1]
                     ELSE [off |-> IF W(n).next >= 0 THEN NOTFOUND ELSE W(n).next, depth |-> n.depth]
           stop == {n \in NodesMet : ~Up(n)}
           base == [n \in NodesMet |-> End(n)]
           g    == [n \in NodesMet |-> IF Up(n) THEN [off |-> W(n).next, depth |-> n.depth - 1] ELSE n]
           m    == [n \in NodesMet |-> Ahead(s)[n.off]]
<1>1. \A o, d : LET from == IF o >= 0 THEN CheckTag(s, o, "begin") ELSE 0
                IN  NextNode(s, o, d) = IF from < 0 THEN [off |-> from, depth |-> d]
                                        ELSE Climb(s)[[off |-> from, depth |-> d]]
  BY DEF NextNode, Climb, Climbs
<1>2. ASSUME NEW n \in NodesMet
      PROVE  /\ n.off \in Int /\ n.depth \in Int
             /\ At(n) \in Int /\ W(n).next \in Int
             /\ W(n).next >= 0 => At(n) \in 0 .. Len(s) /\ n.off <= At(n) /\ n.off \in 0 .. Len(s)
                                  /\ W(n).next > n.off /\ W(n).next <= Len(s)
             /\ W(n).tag # "end" => W(n).next >= 0
  <2>1. n.off \in Int /\ n.depth \in Int
    BY DEF NodesMet
  <2>2. /\ At(n) \in Int /\ (n.off \in 0 .. Len(s) => At(n) \in n.off .. Len(s))
        /\ (n.off \notin 0 .. Len(s) => At(n) = n.off)
    BY <2>1, SkipOn
  <2> HIDE DEF At
  <2>3. /\ W(n).next \in Int /\ (W(n).next < 0 => W(n).tag = "end") /\ Len(s) \in Nat
        /\ W(n).next >= 0 => At(n) >= 0 /\ At(n) < W(n).next /\ W(n).next <= Len(s)
    BY <2>2, NextTagOn
  <2> HIDE DEF W
  <2> QED
    BY <2>1, <2>2, <2>3
<1> HIDE DEF At, W
<1>3. g \in [NodesMet -> NodesMet]
  <2> SUFFICES ASSUME NEW n \in NodesMet, Up(n)
               PROVE  [off |-> W(n).next, depth |-> n.depth - 1] \in NodesMet
    OBVIOUS
  <2> QED
    BY <1>2 DEF NodesMet
<1>4. m \in [NodesMet -> 0 .. Len(s) + 1] /\ m \in [NodesMet -> Nat] /\ Len(s) + 1 \in Nat
  <2>1. \A n \in NodesMet : n.off \in Int
    BY <1>2
  <2>2. Ahead(s) \in [Int -> 0 .. Len(s) + 1] /\ Ahead(s) \in [Int -> Nat] /\ Len(s) \in Nat
    BY AheadOn
  <2> DEFINE a == Ahead(s)
             L == 0 .. Len(s) + 1
  <2>3. a \in [Int -> L] /\ a \in [Int -> Nat] /\ m = [n \in NodesMet |-> a[n.off]]
    BY <2>2
  <2>4. Len(s) + 1 \in Nat
    BY <2>2
  <2> HIDE DEF a, L, m
  <2>5. m \in [NodesMet -> L] /\ m \in [NodesMet -> Nat]
    BY <2>1, <2>3
  <2> QED
    BY <2>4, <2>5 DEF L
<1>5. ASSUME NEW n \in NodesMet, n \notin stop
      PROVE  /\ g[n].off > n.off /\ g[n].off \in 0 .. Len(s) /\ m[g[n]] < m[n]
  <2>1. g[n] = [off |-> W(n).next, depth |-> n.depth - 1] /\ W(n).tag = "endnode"
    BY <1>5
  <2>2. g[n] \in NodesMet
    BY <1>3
  <2>3. W(n).next > n.off /\ W(n).next \in 0 .. Len(s) /\ n.off \in 0 .. Len(s)
    <3>1. W(n).tag # "end"
      BY <2>1
    <3>2. Len(s) \in Nat
      BY AheadOn
    <3> HIDE DEF g, m, stop
    <3> QED
      BY <1>2, <3>1, <3>2
  <2>4. m[g[n]] = Ahead(s)[g[n].off] /\ m[n] = Ahead(s)[n.off]
    BY <2>2
  <2>5. g[n].off = W(n).next
    BY <2>1
  <2>6. Ahead(s)[W(n).next] < Ahead(s)[n.off]
    BY <1>2, <2>3, AheadOn
  <2> QED
    BY <2>3, <2>4, <2>5, <2>6
<1>6. \E f : Walks(f, NodesMet, stop, base, g)
  <2>1. \A n \in NodesMet : n \notin stop => m[g[n]] < m[n]
    BY <1>5
  <2> HIDE DEF stop, g, base, m
  <2> QED
    BY <1>3, <1>4, <2>1, WalkExists
<1>7. PICK f : Walks(f, NodesMet, stop, base, g)
  BY <1>6
<1>8. f = [n \in NodesMet |->
             IF W(n).tag = "begin" THEN [off |-> At(n), depth |-> n.depth + 1]
             ELSE IF W(n).tag = "endnode" /\ n.depth > 0
               THEN f[[off |-> W(n).next, depth |-> n.depth - 1]]
             ELSE IF W(n).tag = "endnode" THEN [off |-> W(n).next, depth |-> n.depth - 1]
             ELSE [off |-> IF W(n).next >= 0 THEN NOTFOUND ELSE W(n).next, depth |-> n.depth]]
  BY <1>7 DEF Walks
<1>9. Climbs(s, f)
  BY <1>8 DEF Climbs, W, At
<1>10. Climbs(s, Climb(s))
  BY <1>9 DEF Climb
<1> QED
  BY <1>1, <1>10

(* fdt_next_node gets on, or says that there is nothing more.              *)
LEMMA NextNodeOn ==
  ASSUME NEW s, Legible(s), NEW o \in Int, NEW d \in Int
  PROVE  /\ NextNode(s, o, d) \in NodesMet
         /\ \/ NextNode(s, o, d).off < 0
            \/ NextNode(s, o, d).off \in 0 .. Len(s) /\ NextNode(s, o, d).off > o
<1> DEFINE At(n)  == Skip(s, n.off, {"prop", "nop"})
           W(n)   == NextTag(s, At(n))
           Up(n)  == W(n).tag = "endnode" /\ n.depth > 0
           End(n) == IF W(n).tag = "begin" THEN [off |-> At(n), depth |-> n.depth + 1]
                     ELSE IF W(n).tag = "endnode" THEN [off |-> W(n).next, depth |-> n.depth - 1]
                     ELSE [off |-> IF W(n).next >= 0 THEN NOTFOUND ELSE W(n).next, depth |-> n.depth]
           stop == {n \in NodesMet : ~Up(n)}
           base == [n \in NodesMet |-> End(n)]
           g    == [n \in NodesMet |-> IF Up(n) THEN [off |-> W(n).next, depth |-> n.depth - 1] ELSE n]
           m    == [n \in NodesMet |-> Ahead(s)[n.off]]
           Go   == Climb(s)
           from == IF o >= 0 THEN CheckTag(s, o, "begin") ELSE 0
<1>1. NextNode(s, o, d) = IF from < 0 THEN [off |-> from, depth |-> d]
                          ELSE Go[[off |-> from, depth |-> d]]
  BY ClimbIs
<1>9. Go = [n \in NodesMet |->
             IF W(n).tag = "begin" THEN [off |-> At(n), depth |-> n.depth + 1]
             ELSE IF W(n).tag = "endnode" /\ n.depth > 0
               THEN Go[[off |-> W(n).next, depth |-> n.depth - 1]]
             ELSE IF W(n).tag = "endnode" THEN [off |-> W(n).next, depth |-> n.depth - 1]
             ELSE [off |-> IF W(n).next >= 0 THEN NOTFOUND ELSE W(n).next, depth |-> n.depth]]
  BY ClimbIs DEF Climbs
<1>2. ASSUME NEW n \in NodesMet
      PROVE  /\ n.off \in Int /\ n.depth \in Int
             /\ At(n) \in Int /\ W(n).next \in Int
             /\ W(n).next >= 0 => At(n) \in 0 .. Len(s) /\ n.off <= At(n) /\ n.off \in 0 .. Len(s)
                                  /\ W(n).next > n.off /\ W(n).next <= Len(s)
             /\ W(n).tag # "end" => W(n).next >= 0
  <2>1. n.off \in Int /\ n.depth \in Int
    BY DEF NodesMet
  <2>2. /\ At(n) \in Int /\ (n.off \in 0 .. Len(s) => At(n) \in n.off .. Len(s))
        /\ (n.off \notin 0 .. Len(s) => At(n) = n.off)
    BY <2>1, SkipOn
  <2> HIDE DEF At
  <2>3. /\ W(n).next \in Int /\ (W(n).next < 0 => W(n).tag = "end") /\ Len(s) \in Nat
        /\ W(n).next >= 0 => At(n) >= 0 /\ At(n) < W(n).next /\ W(n).next <= Len(s)
    BY <2>2, NextTagOn
  <2> HIDE DEF W
  <2> QED
    BY <2>1, <2>2, <2>3
<1> HIDE DEF At, W
<1>3. g \in [NodesMet -> NodesMet]
  <2> SUFFICES ASSUME NEW n \in NodesMet, Up(n)
               PROVE  [off |-> W(n).next, depth |-> n.depth - 1] \in NodesMet
    OBVIOUS
  <2> QED
    BY <1>2 DEF NodesMet
<1>4. m \in [NodesMet -> 0 .. Len(s) + 1] /\ m \in [NodesMet -> Nat] /\ Len(s) + 1 \in Nat
  <2>1. \A n \in NodesMet : n.off \in Int
    BY <1>2
  <2>2. Ahead(s) \in [Int -> 0 .. Len(s) + 1] /\ Ahead(s) \in [Int -> Nat] /\ Len(s) \in Nat
    BY AheadOn
  <2> DEFINE a == Ahead(s)
             L == 0 .. Len(s) + 1
  <2>3. a \in [Int -> L] /\ a \in [Int -> Nat] /\ m = [n \in NodesMet |-> a[n.off]]
    BY <2>2
  <2>4. Len(s) + 1 \in Nat
    BY <2>2
  <2> HIDE DEF a, L, m
  <2>5. m \in [NodesMet -> L] /\ m \in [NodesMet -> Nat]
    BY <2>1, <2>3
  <2> QED
    BY <2>4, <2>5 DEF L
<1>5. ASSUME NEW n \in NodesMet, n \notin stop
      PROVE  /\ g[n].off > n.off /\ g[n].off \in 0 .. Len(s) /\ m[g[n]] < m[n]
  <2>1. g[n] = [off |-> W(n).next, depth |-> n.depth - 1] /\ W(n).tag = "endnode"
    BY <1>5
  <2>2. g[n] \in NodesMet
    BY <1>3
  <2>3. W(n).next > n.off /\ W(n).next \in 0 .. Len(s) /\ n.off \in 0 .. Len(s)
    <3>1. W(n).tag # "end"
      BY <2>1
    <3>2. Len(s) \in Nat
      BY AheadOn
    <3> HIDE DEF g, m, stop
    <3> QED
      BY <1>2, <3>1, <3>2
  <2>4. m[g[n]] = Ahead(s)[g[n].off] /\ m[n] = Ahead(s)[n.off]
    BY <2>2
  <2>5. g[n].off = W(n).next
    BY <2>1
  <2>6. Ahead(s)[W(n).next] < Ahead(s)[n.off]
    BY <1>2, <2>3, AheadOn
  <2> QED
    BY <2>3, <2>4, <2>5, <2>6
<1> HIDE DEF Go
<1>10. Walks(Go, NodesMet, stop, base, g)
  BY <1>9 DEF Walks
<1>11. /\ from \in Int /\ Len(s) \in Nat
       /\ from >= 0 => from \in 0 .. Len(s) /\ from > o
  BY CheckTagOn, AheadOn
<1> HIDE DEF from
<1>12. CASE from >= 0
  <2> DEFINE P == {n \in NodesMet : n.off \in from .. Len(s)}
             Q == {n \in NodesMet : n.off < 0 \/ n.off \in from .. Len(s)}
             n0 == [off |-> from, depth |-> d]
  <2>1. ASSUME NEW n \in P, n \in stop PROVE base[n] \in Q
    <3>1. n \in NodesMet /\ n.off \in Int /\ n.off >= from /\ n.off <= Len(s)
      BY <1>11
    <3>2. base[n] = End(n)
      BY <3>1
    <3>3. CASE W(n).tag = "begin"
      <4>1. End(n) = [off |-> At(n), depth |-> n.depth + 1]
        BY <3>3
      <4>2. At(n) \in from .. Len(s) /\ n.depth + 1 \in Int
        BY <1>2, <1>11, <3>1, <3>3
      <4> QED
        BY <3>2, <4>1, <4>2 DEF NodesMet
    <3>4. CASE W(n).tag = "endnode"
      <4>1. End(n) = [off |-> W(n).next, depth |-> n.depth - 1]
        BY <3>4
      <4>2. W(n).next \in from .. Len(s) /\ n.depth - 1 \in Int
        BY <1>2, <1>11, <3>1, <3>4
      <4> QED
        BY <3>2, <4>1, <4>2 DEF NodesMet
    <3>5. CASE W(n).tag \notin {"begin", "endnode"}
      <4> DEFINE e == IF W(n).next >= 0 THEN NOTFOUND ELSE W(n).next
      <4>1. End(n) = [off |-> e, depth |-> n.depth]
        BY <3>5
      <4>2. e \in Int /\ e < 0 /\ n.depth \in Int
        BY <1>2, <3>1 DEF NOTFOUND
      <4> HIDE DEF e
      <4> QED
        BY <3>2, <4>1, <4>2 DEF NodesMet
    <3> QED
      BY <3>3, <3>4, <3>5
  <2>2. ASSUME NEW n \in P, n \notin stop PROVE g[n] \in P /\ m[g[n]] < m[n]
    <3>1. n \in NodesMet /\ n.off \in Int /\ n.off >= from
      BY <1>11
    <3>2. g[n] \in NodesMet /\ g[n].off > n.off /\ g[n].off \in 0 .. Len(s) /\ m[g[n]] < m[n]
      BY <1>3, <1>5, <2>2, <3>1
    <3> HIDE DEF g, m, stop
    <3> QED
      BY <1>11, <3>1, <3>2
  <2>3. Leads(stop, base, g, P, Q, m)
    <3> HIDE DEF P, Q, g, m, stop, base
    <3> QED
      BY <2>1, <2>2 DEF Leads
  <2>4. P \in SUBSET NodesMet /\ n0 \in P
    BY <1>11, <1>12 DEF NodesMet
  <2>5. \A n \in P : Go[n] \in Q
    <3> HIDE DEF P, Q, g, m, stop, base
    <3> QED
      BY <1>3, <1>4, <1>10, <2>3, <2>4, WalkEnds
  <2>6. Go[n0] \in Q
    BY <2>4, <2>5
  <2>7. NextNode(s, o, d) = Go[n0]
    BY <1>1, <1>12, <1>11
  <2> HIDE DEF n0
  <2>8. NextNode(s, o, d) \in NodesMet /\ (NextNode(s, o, d).off < 0 \/ NextNode(s, o, d).off \in from .. Len(s))
    BY <2>6, <2>7
  <2> QED
    BY <1>11, <1>12, <2>8
<1>13. CASE ~(from >= 0)
  <2>1. NextNode(s, o, d) = [off |-> from, depth |-> d] /\ from < 0
    BY <1>1, <1>11, <1>13
  <2> QED
    BY <1>11, <2>1 DEF NodesMet
<1> QED
  BY <1>12, <1>13

(* A measure for walks that stop at a negative offset.                     *)
Further(s) == [o \in Int |-> IF o < 0 THEN 0 ELSE Ahead(s)[o] + 1]

LEMMA FurtherOn ==
  ASSUME NEW s, Legible(s)
  PROVE  /\ Further(s) \in [Int -> 0 .. Len(s) + 2] /\ Further(s) \in [Int -> Nat]
         /\ Len(s) + 2 \in Nat
         /\ \A o, p \in Int : o >= 0 /\ (p < 0 \/ (p > o /\ p <= Len(s)))
                                => Further(s)[p] < Further(s)[o]
<1>1. Len(s) \in Nat
  BY DEF Legible
<1> QED
  BY <1>1 DEF Further, Ahead

(* Walks from node to node, to the end of a node or to a child of it.      *)
Onward(s) == [n \in NodesMet |-> NextNode(s, n.off, n.depth)]
Left(s)   == [n \in NodesMet |-> Further(s)[n.off]]

LEMMA OnwardOn ==
  ASSUME NEW s, Legible(s)
  PROVE  /\ Onward(s) \in [NodesMet -> NodesMet] /\ Left(s) \in [NodesMet -> Nat]
         /\ \A n \in NodesMet :
              /\ n.off \in Int /\ n.depth \in Int
              /\ Onward(s)[n] \in NodesMet /\ Onward(s)[n].off \in Int
              /\ \/ Onward(s)[n].off < 0
                 \/ Onward(s)[n].off \in 0 .. Len(s) /\ Onward(s)[n].off > n.off
              /\ n.off >= 0 => Left(s)[Onward(s)[n]] < Left(s)[n]
         /\ \A stop, base : (\A n \in NodesMet : n.off < 0 => n \in stop)
                           => \E f : Walks(f, NodesMet, stop, base, Onward(s))
<1> DEFINE g == Onward(s)
           m == Left(s)
<1>1. ASSUME NEW n \in NodesMet
      PROVE  /\ n.off \in Int /\ n.depth \in Int
             /\ g[n] \in NodesMet /\ g[n].off \in Int
             /\ \/ g[n].off < 0
                \/ g[n].off \in 0 .. Len(s) /\ g[n].off > n.off
  <2>1. n.off \in Int /\ n.depth \in Int
    BY DEF NodesMet
  <2>2. g[n] = NextNode(s, n.off, n.depth)
    BY DEF Onward
  <2>3. g[n] \in NodesMet /\ (g[n].off < 0 \/ (g[n].off \in 0 .. Len(s) /\ g[n].off > n.off))
    BY <2>1, <2>2, NextNodeOn
  <2> QED
    BY <2>1, <2>3 DEF NodesMet
<1>2. g \in [NodesMet -> NodesMet]
  BY <1>1 DEF Onward
<1>3. Len(s) \in Nat
  BY AheadOn
<1>4. m \in [NodesMet -> 0 .. Len(s) + 2] /\ m \in [NodesMet -> Nat] /\ Len(s) + 2 \in Nat
  <2> DEFINE a == Further(s)
             L == 0 .. Len(s) + 2
  <2>1. a \in [Int -> L] /\ a \in [Int -> Nat] /\ m = [n \in NodesMet |-> a[n.off]]
    BY FurtherOn DEF Left
  <2>2. Len(s) + 2 \in Nat
    BY <1>3
  <2>3. \A n \in NodesMet : n.off \in Int
    BY <1>1
  <2> HIDE DEF a, L, m
  <2>4. m \in [NodesMet -> L] /\ m \in [NodesMet -> Nat]
    BY <2>1, <2>3
  <2> QED
    BY <2>2, <2>4 DEF L
<1>5. ASSUME NEW n \in NodesMet, n.off >= 0 PROVE m[g[n]] < m[n]
  <2>1. /\ n.off \in Int /\ g[n] \in NodesMet /\ g[n].off \in Int
        /\ g[n].off < 0 \/ (g[n].off <= Len(s) /\ g[n].off > n.off)
    <3> HIDE DEF g
    <3> QED
      BY <1>1, <1>3
  <2>2. m[g[n]] = Further(s)[g[n].off] /\ m[n] = Further(s)[n.off]
    BY <2>1 DEF Left
  <2> HIDE DEF g, m
  <2> QED
    BY <1>5, <2>1, <2>2, FurtherOn
<1>6. ASSUME NEW stop, NEW base, \A n \in NodesMet : n.off < 0 => n \in stop
      PROVE  \E f : Walks(f, NodesMet, stop, base, g)
  <2>1. \A n \in NodesMet : n \notin stop => m[g[n]] < m[n]
    <3> HIDE DEF g, m
    <3> QED
      BY <1>1, <1>5, <1>6
  <2> HIDE DEF g, m
  <2> QED
    BY <1>2, <1>4, <2>1, WalkExists
<1> HIDE DEF g, m
<1>7. /\ g \in [NodesMet -> NodesMet] /\ m \in [NodesMet -> Nat]
      /\ \A n \in NodesMet :
           /\ n.off \in Int /\ n.depth \in Int
           /\ g[n] \in NodesMet /\ g[n].off \in Int
           /\ g[n].off < 0 \/ (g[n].off \in 0 .. Len(s) /\ g[n].off > n.off)
           /\ n.off >= 0 => m[g[n]] < m[n]
      /\ \A stop, base : (\A n \in NodesMet : n.off < 0 => n \in stop)
                        => \E f : Walks(f, NodesMet, stop, base, g)
  BY <1>1, <1>2, <1>4, <1>5, <1>6
<1> QED
  BY <1>7 DEF g, m

(* The walk to the end of a node.                                          *)
Passes(s, f) == f = [n \in NodesMet |-> IF n.off < 0 \/ n.depth < 0 THEN n.off
                                        ELSE f[NextNode(s, n.off, n.depth)]]
Pass(s) == CHOOSE f : Passes(s, f)

LEMMA PassIs ==
  ASSUME NEW s, Legible(s)
  PROVE  Passes(s, Pass(s)) /\ \A o : NodeEnd(s, o) = Pass(s)[[off |-> o, depth |-> 0]]
<1> DEFINE stop == {n \in NodesMet : n.off < 0 \/ n.depth < 0}
           base == [n \in NodesMet |-> n.off]
           g    == Onward(s)
<1>1. \A o : NodeEnd(s, o) = Pass(s)[[off |-> o, depth |-> 0]]
  BY DEF NodeEnd, Pass, Passes
<1>2. \E f : Walks(f, NodesMet, stop, base, g)
  <2>1. \A n \in NodesMet : n.off < 0 => n \in stop
    OBVIOUS
  <2> HIDE DEF stop, base
  <2> QED
    BY <2>1, OnwardOn
<1>3. PICK f : Walks(f, NodesMet, stop, base, g)
  BY <1>2
<1>4. Passes(s, f)
  BY <1>3 DEF Walks, Onward, Passes
<1>5. Passes(s, Pass(s))
  BY <1>4 DEF Pass
<1> QED
  BY <1>1, <1>5

(* The end of a node lies behind it.                                       *)
LEMMA NodeEndOn ==
  ASSUME NEW s, Legible(s), NEW o \in Int
  PROVE  /\ NodeEnd(s, o) \in Int
         /\ NodeEnd(s, o) >= 0 => o >= 0 /\ o <= NodeEnd(s, o) /\ NodeEnd(s, o) <= Len(s)
<1> DEFINE stop == {n \in NodesMet : n.off < 0 \/ n.depth < 0}
           base == [n \in NodesMet |-> n.off]
           g    == Onward(s)
           m    == Left(s)
           Go   == Pass(s)
           n0   == [off |-> o, depth |-> 0]
<1>1. NodeEnd(s, o) = Go[n0]
  BY PassIs
<1>2. ASSUME NEW n \in NodesMet
      PROVE  /\ n.off \in Int /\ n.depth \in Int
             /\ g[n] \in NodesMet /\ g[n].off \in Int
             /\ \/ g[n].off < 0
                \/ g[n].off \in 0 .. Len(s) /\ g[n].off > n.off
             /\ n.off >= 0 => m[g[n]] < m[n]
  BY OnwardOn
<1>3. g \in [NodesMet -> NodesMet] /\ m \in [NodesMet -> Nat]
  BY OnwardOn
<1>4. Len(s) \in Nat
  BY AheadOn
<1>5. ASSUME NEW n \in NodesMet, n \notin stop PROVE m[g[n]] < m[n]
  <2> HIDE DEF g, m
  <2> QED
    BY <1>2, <1>5
<1>10. Go = [n \in NodesMet |-> IF n.off < 0 \/ n.depth < 0 THEN n.off
                                ELSE Go[NextNode(s, n.off, n.depth)]]
  BY PassIs DEF Passes
<1> HIDE DEF Go
<1>11. Walks(Go, NodesMet, stop, base, g)
  BY <1>10 DEF Walks, Onward
<1> DEFINE P == {n \in NodesMet : n.off < 0 \/ n.off \in o .. Len(s) \/ (n.off = o /\ n.depth >= 0)}
           Q == {e \in Int : e < 0 \/ (o >= 0 /\ o <= e /\ e <= Len(s))}
<1>12. CASE o >= 0
  <2>1. ASSUME NEW n \in P, n \in stop PROVE base[n] \in Q
    <3>1. n \in NodesMet /\ n.off \in Int /\ base[n] = n.off /\ (n.off < 0 \/ n.depth < 0)
      BY <1>2, <2>1
    <3>2. n.off < 0 \/ n.off \in o .. Len(s) \/ (n.off = o /\ n.depth >= 0)
      OBVIOUS
    <3>3. n.depth \in Int
      BY <1>2, <3>1
    <3> HIDE DEF base, stop, P
    <3> QED
      BY <1>4, <1>12, <3>1, <3>2, <3>3
  <2>2. ASSUME NEW n \in P, n \notin stop PROVE g[n] \in P /\ m[g[n]] < m[n]
    <3>1. n \in NodesMet /\ n.off \in Int /\ n.off >= 0
      BY <1>2, <2>2
    <3>2. n.off >= o
      BY <1>2, <1>4, <1>12, <3>1
    <3>3. /\ g[n] \in NodesMet /\ g[n].off \in Int
          /\ g[n].off < 0 \/ (g[n].off \in 0 .. Len(s) /\ g[n].off > n.off)
      BY <1>2, <3>1
    <3>4. m[g[n]] < m[n]
      BY <1>5, <2>2, <3>1
    <3> HIDE DEF g, m, stop
    <3> QED
      BY <1>4, <1>12, <3>1, <3>2, <3>3, <3>4
  <2>3. Leads(stop, base, g, P, Q, m)
    <3> HIDE DEF P, Q, g, m, stop, base
    <3> QED
      BY <2>1, <2>2 DEF Leads
  <2>4. P \in SUBSET NodesMet /\ n0 \in P
    BY DEF NodesMet
  <2>5. \A n \in P : Go[n] \in Q
    <3> HIDE DEF P, Q, g, m, stop, base
    <3> QED
      BY <1>3, <1>11, <2>3, <2>4, WalkEnds
  <2>6. Go[n0] \in Q
    BY <2>4, <2>5
  <2> QED
    BY <1>1, <2>6
<1>13. CASE o < 0
  <2>1. n0 \in NodesMet /\ n0.off < 0
    BY <1>13 DEF NodesMet
  <2>2. Go[n0] = o
    BY <1>10, <2>1
  <2> QED
    BY <1>1, <1>13, <2>2
<1> QED
  BY <1>12, <1>13

(* The walk to a child.                                                    *)
Finds(s, name, f) ==
  f = [n \in NodesMet |->
         IF n.depth < 0 THEN NOTFOUND
         ELSE IF n.off < 0 THEN n.off
         ELSE IF n.depth = 1 /\ NameMatches(s, n.off, name) THEN n.off
         ELSE f[NextNode(s, n.off, n.depth)]]
Find(s, name) == CHOOSE f : Finds(s, name, f)

LEMMA FindIs ==
  ASSUME NEW s, Legible(s), NEW name
  PROVE  /\ Finds(s, name, Find(s, name))
         /\ \A o : SubnodeOffset(s, o, name) = Find(s, name)[[off |-> o, depth |-> 0]]
<1> DEFINE Hit(n) == n.depth = 1 /\ NameMatches(s, n.off, name)
           stop == {n \in NodesMet : n.depth < 0 \/ n.off < 0 \/ Hit(n)}
           base == [n \in NodesMet |-> IF n.depth < 0 THEN NOTFOUND ELSE n.off]
           g    == Onward(s)
<1>1. \A o : SubnodeOffset(s, o, name) = Find(s, name)[[off |-> o, depth |-> 0]]
  BY DEF SubnodeOffset, Find, Finds
<1> HIDE DEF Hit
<1>4. \E f : Walks(f, NodesMet, stop, base, g)
  <2>1. \A n \in NodesMet : n.off < 0 => n \in stop
    OBVIOUS
  <2> HIDE DEF stop, base
  <2> QED
    BY <2>1, OnwardOn
<1>5. PICK f : Walks(f, NodesMet, stop, base, g)
  BY <1>4
<1>6. f = [n \in NodesMet |-> IF n.depth < 0 THEN NOTFOUND ELSE IF n.off < 0 THEN n.off
                              ELSE IF Hit(n) THEN n.off ELSE f[NextNode(s, n.off, n.depth)]]
  BY <1>5 DEF Walks, Onward
<1>7. Finds(s, name, f)
  BY <1>6 DEF Hit, Finds
<1>8. Finds(s, name, Find(s, name))
  BY <1>7 DEF Find
<1> QED
  BY <1>1, <1>8

(* A look-up of a child returns an offset or an error.                     *)
LEMMA SubnodeOn == ASSUME NEW s, Legible(s), NEW o \in Int, NEW name
                   PROVE  SubnodeOffset(s, o, name) \in Int
<1> DEFINE Hit(n) == n.depth = 1 /\ NameMatches(s, n.off, name)
           stop == {n \in NodesMet : n.depth < 0 \/ n.off < 0 \/ Hit(n)}
           base == [n \in NodesMet |-> IF n.depth < 0 THEN NOTFOUND ELSE n.off]
           g    == Onward(s)
           m    == Left(s)
           Go   == Find(s, name)
           n0   == [off |-> o, depth |-> 0]
<1>1. SubnodeOffset(s, o, name) = Go[n0]
  BY FindIs
<1>2. g \in [NodesMet -> NodesMet] /\ m \in [NodesMet -> Nat]
  BY OnwardOn
<1>3. ASSUME NEW n \in NodesMet
      PROVE  n.off \in Int /\ g[n] \in NodesMet /\ (n.off >= 0 => m[g[n]] < m[n])
  BY OnwardOn
<1>7. Go = [n \in NodesMet |-> IF n.depth < 0 THEN NOTFOUND ELSE IF n.off < 0 THEN n.off
                               ELSE IF Hit(n) THEN n.off ELSE Go[NextNode(s, n.off, n.depth)]]
  BY FindIs DEF Finds
<1> HIDE DEF Hit, Go
<1>8. Walks(Go, NodesMet, stop, base, g)
  BY <1>7 DEF Walks, Onward
<1>9. Leads(stop, base, g, NodesMet, Int, m)
  <2>1. ASSUME NEW n \in NodesMet, n \in stop PROVE base[n] \in Int
    BY <1>3 DEF NOTFOUND
  <2>2. ASSUME NEW n \in NodesMet, n \notin stop PROVE g[n] \in NodesMet /\ m[g[n]] < m[n]
    <3>1. n.off >= 0
      BY <1>3, <2>2
    <3> HIDE DEF g, m, stop
    <3> QED
      BY <1>3, <3>1
  <2> HIDE DEF g, m, stop, base
  <2> QED
    BY <2>1, <2>2 DEF Leads
<1>10. \A n \in NodesMet : Go[n] \in Int
  <2> HIDE DEF g, m, stop, base
  <2> QED
    BY <1>2, <1>8, <1>9, WalkEnds
<1>11. n0 \in NodesMet
  BY DEF NodesMet
<1> QED
  BY <1>1, <1>10, <1>11

(* The walk over the properties of a node.                                 *)
Bears(t, i, name) == i \in DOMAIN t.strings /\ t.strings[i] = name
Seeks(t, name, f) ==
  f = [p \in Int |-> IF p < 0 \/ Bears(t, t.struct[p + 3][2], name) THEN p
                     ELSE f[NextProp(t.struct, CheckTag(t.struct, p, "prop"))]]
Seek(t, name) == CHOOSE f : Seeks(t, name, f)

LEMMA OnProp ==
  ASSUME NEW s, Legible(s), NEW p \in Int
  PROVE  LET q == NextProp(s, CheckTag(s, p, "prop"))
         IN  /\ q \in Int
             /\ q < 0 \/ (q > p /\ q <= Len(s) /\ NextTag(s, q).tag = "prop")
<1> DEFINE c == CheckTag(s, p, "prop")
           q == NextProp(s, c)
<1>1. c \in Int /\ (c >= 0 => c > p) /\ Len(s) \in Nat
  BY CheckTagOn, AheadOn
<1>2. /\ q \in Int
      /\ q >= 0 => NextTag(s, q).tag = "prop" /\ q >= c /\ c >= 0 /\ q < Len(s)
  BY <1>1, NextPropOn
<1> HIDE DEF c, q
<1>3. q \in Int /\ (q < 0 \/ (q > p /\ q <= Len(s) /\ NextTag(s, q).tag = "prop"))
  BY <1>1, <1>2
<1> QED
  BY <1>3 DEF c, q

LEMMA SeekIs ==
  ASSUME NEW t, Legible(t.struct), NEW name
  PROVE  /\ Seeks(t, name, Seek(t, name))
         /\ \A o : LET first == CheckTag(t.struct, o, "begin")
                   IN  PropOffset(t, o, name)
                         = IF first < 0 THEN first ELSE Seek(t, name)[NextProp(t.struct, first)]
<1> DEFINE s     == t.struct
           On(p) == NextProp(s, CheckTag(s, p, "prop"))
           stop == {p \in Int : p < 0 \/ Bears(t, s[p + 3][2], name)}
           base == [p \in Int |-> p]
           g    == [p \in Int |-> On(p)]
           m    == Further(s)
<1>1. \A o : LET first == CheckTag(s, o, "begin")
             IN  PropOffset(t, o, name) = IF first < 0 THEN first ELSE Seek(t, name)[NextProp(s, first)]
  BY DEF PropOffset, Seek, Seeks, Bears
<1>3. ASSUME NEW p \in Int
      PROVE  g[p] \in Int /\ (g[p] < 0 \/ (g[p] > p /\ g[p] <= Len(s)))
  BY OnProp
<1> HIDE DEF On
<1>4. g \in [Int -> Int]
  BY <1>3
<1>5. m \in [Int -> 0 .. Len(s) + 2] /\ m \in [Int -> Nat] /\ Len(s) + 2 \in Nat
  BY FurtherOn
<1>6. ASSUME NEW p \in Int, p \notin stop PROVE m[g[p]] < m[p]
  <2>1. p >= 0 /\ g[p] \in Int /\ (g[p] < 0 \/ (g[p] > p /\ g[p] <= Len(s)))
    BY <1>3, <1>6
  <2> HIDE DEF g
  <2> QED
    BY <2>1, FurtherOn
<1>7. \E f : Walks(f, Int, stop, base, g)
  <2>1. \A p \in Int : p \notin stop => m[g[p]] < m[p]
    BY <1>6
  <2> HIDE DEF stop, g, base, m
  <2> QED
    BY <1>4, <1>5, <2>1, WalkExists
<1>8. PICK f : Walks(f, Int, stop, base, g)
  BY <1>7
<1>9. Seeks(t, name, f)
  BY <1>8 DEF Walks, Seeks, On
<1>10. Seeks(t, name, Seek(t, name))
  BY <1>9 DEF Seek
<1> QED
  BY <1>1, <1>10

(* A look-up finds a property or returns an error.                         *)
LEMMA PropOffsetOn ==
  ASSUME NEW t, Legible(t.struct), NEW o \in Int, NEW name
  PROVE  /\ PropOffset(t, o, name) \in Int
         /\ PropOffset(t, o, name) >= 0 => NextTag(t.struct, PropOffset(t, o, name)).tag = "prop"
<1> DEFINE s    == t.struct
           Is(i) == Bears(t, i, name)
           On(p) == NextProp(s, CheckTag(s, p, "prop"))
           stop == {p \in Int : p < 0 \/ Is(s[p + 3][2])}
           base == [p \in Int |-> p]
           g    == [p \in Int |-> On(p)]
           Go   == Seek(t, name)
           first == CheckTag(s, o, "begin")
           m == Further(s)
<1>1. PropOffset(t, o, name) = IF first < 0 THEN first ELSE Go[NextProp(s, first)]
  BY SeekIs
<1>2. first \in Int /\ Len(s) \in Nat
  BY CheckTagOn, AheadOn
<1>3. ASSUME NEW p \in Int
      PROVE  /\ g[p] \in Int
             /\ g[p] < 0 \/ (g[p] > p /\ g[p] <= Len(s) /\ NextTag(s, g[p]).tag = "prop")
  BY OnProp
<1>10. Go = [p \in Int |-> IF p < 0 \/ Is(s[p + 3][2]) THEN p ELSE Go[On(p)]]
  BY SeekIs DEF Seeks
<1> HIDE DEF On, Is, Go
<1>4. g \in [Int -> Int]
  BY <1>3
<1>5. m \in [Int -> 0 .. Len(s) + 2] /\ m \in [Int -> Nat] /\ Len(s) + 2 \in Nat
  BY FurtherOn
<1>6. ASSUME NEW p \in Int, p \notin stop PROVE m[g[p]] < m[p]
  <2>1. p >= 0 /\ g[p] \in Int /\ (g[p] < 0 \/ (g[p] > p /\ g[p] <= Len(s)))
    BY <1>3, <1>6
  <2> HIDE DEF g
  <2> QED
    BY <2>1, FurtherOn
<1>11. Walks(Go, Int, stop, base, g)
  BY <1>10 DEF Walks
<1> DEFINE P == {p \in Int : p < 0 \/ NextTag(s, p).tag = "prop"}
<1>12. Leads(stop, base, g, P, P, m)
  <2>1. ASSUME NEW p \in P, p \in stop PROVE base[p] \in P
    OBVIOUS
  <2>2. ASSUME NEW p \in P, p \notin stop PROVE g[p] \in P /\ m[g[p]] < m[p]
    BY <1>3, <1>6, <2>2
  <2> HIDE DEF P, g, m, stop, base
  <2> QED
    BY <2>1, <2>2 DEF Leads
<1>13. \A p \in P : Go[p] \in P
  <2>1. P \in SUBSET Int
    OBVIOUS
  <2> HIDE DEF P, g, m, stop, base
  <2> QED
    BY <1>4, <1>5, <1>11, <1>12, <2>1, WalkEnds
<1>14. NextProp(s, first) \in P
  <2> DEFINE q == NextProp(s, first)
  <2>1. q \in Int /\ (q >= 0 => NextTag(s, q).tag = "prop")
    BY <1>2, NextPropOn
  <2> HIDE DEF first, s
  <2> QED
    BY <2>1
<1>15. CASE first < 0
  BY <1>1, <1>2, <1>15
<1>16. CASE ~(first < 0)
  <2>1. Go[NextProp(s, first)] \in P
    BY <1>13, <1>14
  <2> QED
    BY <1>1, <1>16, <2>1
<1> QED
  BY <1>15, <1>16

-----------------------------------------------------------------------------
(* Strings.  The length of a strings block is that of its strings: what a  *)
(* new one adds.                                                           *)
Sums(f, strings, n) ==
  f = [i \in 0 .. n |-> IF i = 0 THEN 0 ELSE f[i - 1] + StringWords[strings[i]]]

LEMMA SumsExist ==
  ASSUME NEW strings \in Seq(PropNames), NEW n \in 0 .. Len(strings)
  PROVE  \E f : Sums(f, strings, n) /\ \A i \in 0 .. n : f[i] \in Nat
<1> DEFINE Good(k) == \E f : Sums(f, strings, k) /\ \A i \in 0 .. k : f[i] \in Nat
           Bad == {k \in 0 .. n : ~Good(k)}
<1>1. n \in Nat /\ n <= Len(strings)
  BY LenProperties
<1>2. Bad = {}
  <2> SUFFICES ASSUME Bad # {} PROVE FALSE
    OBVIOUS
  <2>1. Bad \in SUBSET Nat
    BY <1>1
  <2>2. PICK k \in Bad : \A j \in Bad : k <= j
    <3> HIDE DEF Bad
    <3> QED
      BY <2>1, LeastNat
  <2>3. k \in 0 .. n /\ ~Good(k)
    OBVIOUS
  <2>4. CASE k = 0
    <3> DEFINE f == [i \in 0 .. 0 |-> 0]
    <3>1. f = [i \in 0 .. 0 |-> IF i = 0 THEN 0 ELSE f[i - 1] + StringWords[strings[i]]]
      OBVIOUS
    <3>2. Sums(f, strings, 0) /\ \A i \in 0 .. 0 : f[i] \in Nat
      BY <3>1 DEF Sums
    <3> QED
      BY <2>3, <2>4, <3>2
  <2>5. CASE k # 0
    <3>1. k - 1 \in 0 .. n /\ k - 1 \notin Bad
      BY <1>1, <2>2, <2>3, <2>5
    <3>2. PICK h : Sums(h, strings, k - 1) /\ \A i \in 0 .. k - 1 : h[i] \in Nat
      BY <3>1
    <3> DEFINE f == [i \in 0 .. k |-> IF i = 0 THEN 0 ELSE h[i - 1] + StringWords[strings[i]]]
    <3>3. \A i \in 1 .. k : StringWords[strings[i]] \in Nat
      <4> SUFFICES ASSUME NEW i \in 1 .. k PROVE StringWords[strings[i]] \in Nat
        OBVIOUS
      <4>1. i \in 1 .. Len(strings)
        BY <1>1, <2>3
      <4>2. strings[i] \in PropNames
        BY <4>1, ElementOfSeq
      <4> QED
        BY <4>2, FdtAssumption
    <3> HIDE DEF Bad, Good
    <3>4. \A i \in 0 .. k - 1 : h[i] = f[i]
      <4>1. h = [i \in 0 .. k - 1 |-> IF i = 0 THEN 0 ELSE h[i - 1] + StringWords[strings[i]]]
        BY <3>2 DEF Sums
      <4>2. \A i \in 0 .. k - 1 : i \in 0 .. k
        BY <2>3
      <4> QED
        BY <4>1, <4>2
    <3>5. \A i \in 0 .. k : f[i] \in Nat
      BY <2>3, <3>2, <3>3
    <3>6. \A i \in 0 .. k : f[i] = IF i = 0 THEN 0 ELSE f[i - 1] + StringWords[strings[i]]
      <4> SUFFICES ASSUME NEW i \in 0 .. k, i # 0 PROVE f[i] = f[i - 1] + StringWords[strings[i]]
        OBVIOUS
      <4>1. i - 1 \in 0 .. k - 1
        BY <2>3
      <4>2. f[i] = h[i - 1] + StringWords[strings[i]]
        OBVIOUS
      <4> HIDE DEF f
      <4> QED
        BY <3>4, <4>1, <4>2
    <3>7. f = [i \in 0 .. k |-> f[i]]
      OBVIOUS
    <3> HIDE DEF f
    <3>8. f = [i \in 0 .. k |-> IF i = 0 THEN 0 ELSE f[i - 1] + StringWords[strings[i]]]
      BY <3>6, <3>7
    <3>9. Good(k)
      BY <3>5, <3>8 DEF Sums, Good
    <3> QED
      BY <2>3, <3>9
  <2> QED
    BY <2>4, <2>5
<1>3. n \in 0 .. n
  BY <1>1
<1>4. Good(n)
  BY <1>2, <1>3
<1> QED
  BY <1>4

LEMMA SumsAgree ==
  ASSUME NEW a, NEW b, NEW n \in Nat, NEW k \in Nat, NEW s, NEW t,
         Sums(a, s, n), Sums(b, t, k), \A i \in 1 .. n : i <= k /\ s[i] = t[i]
  PROVE  \A i \in 0 .. n : a[i] = b[i]
<1> DEFINE Bad == {i \in 0 .. n : a[i] # b[i]}
<1> SUFFICES ASSUME Bad # {} PROVE FALSE
  OBVIOUS
<1>1. Bad \in SUBSET Nat
  OBVIOUS
<1>2. PICK i \in Bad : \A j \in Bad : i <= j
  <2> HIDE DEF Bad
  <2> QED
    BY <1>1, LeastNat
<1>3. i \in 0 .. n /\ i \in 0 .. k /\ a[i] # b[i]
  OBVIOUS
<1>4. /\ a[i] = IF i = 0 THEN 0 ELSE a[i - 1] + StringWords[s[i]]
      /\ b[i] = IF i = 0 THEN 0 ELSE b[i - 1] + StringWords[t[i]]
  BY <1>3 DEF Sums
<1>5. i # 0 /\ i - 1 \in 0 .. n /\ s[i] = t[i]
  BY <1>3, <1>4
<1>6. i - 1 \notin Bad
  BY <1>2, <1>5
<1>7. a[i - 1] = b[i - 1]
  BY <1>5, <1>6
<1> QED
  BY <1>3, <1>4, <1>5, <1>7

LEMMA SumIs == ASSUME NEW strings \in Seq(PropNames)
               PROVE  \E f : /\ Sums(f, strings, Len(strings))
                             /\ SumWords(strings) = f[Len(strings)] /\ SumWords(strings) \in Nat
<1> DEFINE sum == CHOOSE f : f = [i \in 0 .. Len(strings) |->
                                    IF i = 0 THEN 0 ELSE f[i - 1] + StringWords[strings[i]]]
<1>1. Len(strings) \in 0 .. Len(strings)
  BY LenProperties
<1>2. PICK f : Sums(f, strings, Len(strings)) /\ \A i \in 0 .. Len(strings) : f[i] \in Nat
  BY <1>1, SumsExist
<1>3. sum = [i \in 0 .. Len(strings) |->
               IF i = 0 THEN 0 ELSE sum[i - 1] + StringWords[strings[i]]]
  BY <1>2 DEF Sums
<1>4. SumWords(strings) = sum[Len(strings)]
  BY DEF SumWords
<1> HIDE DEF sum
<1>5. Sums(sum, strings, Len(strings))
  BY <1>3 DEF Sums
<1>6. \A i \in 0 .. Len(strings) : sum[i] = f[i]
  <2>1. Len(strings) \in Nat /\ \A i \in 1 .. Len(strings) : i <= Len(strings) /\ strings[i] = strings[i]
    BY LenProperties
  <2> QED
    BY <1>2, <1>5, <2>1, SumsAgree
<1>7. sum[Len(strings)] \in Nat
  BY <1>1, <1>2, <1>6
<1> QED
  BY <1>4, <1>5, <1>7

LEMMA SumAppend == ASSUME NEW strings \in Seq(PropNames), NEW p \in PropNames
                   PROVE  SumWords(Append(strings, p)) = SumWords(strings) + StringWords[p]
<1> DEFINE n == Len(strings)
           more == Append(strings, p)
<1>1. /\ n \in Nat /\ more \in Seq(PropNames) /\ Len(more) = n + 1 /\ more[n + 1] = p
      /\ \A i \in 1 .. n : more[i] = strings[i]
  BY AppendProperties, LenProperties
<1>2. PICK a : Sums(a, strings, n) /\ SumWords(strings) = a[n]
  BY SumIs
<1>3. PICK b : Sums(b, more, n + 1) /\ SumWords(more) = b[n + 1]
  <2>1. \E b : Sums(b, more, Len(more)) /\ SumWords(more) = b[Len(more)]
    <3> HIDE DEF more, n
    <3> QED
      BY <1>1, SumIs
  <2> HIDE DEF more, n
  <2> QED
    BY <1>1, <2>1
<1> HIDE DEF more, n
<1>4. \A i \in 0 .. n : a[i] = b[i]
  <2>1. n + 1 \in Nat /\ \A i \in 1 .. n : i <= n + 1 /\ strings[i] = more[i]
    BY <1>1
  <2> QED
    BY <1>1, <1>2, <1>3, <2>1, SumsAgree
<1>5. b[n + 1] = b[n] + StringWords[p]
  <2>1. n + 1 \in 0 .. n + 1 /\ n + 1 # 0 /\ (n + 1) - 1 = n
    BY <1>1
  <2>2. b[n + 1] = b[(n + 1) - 1] + StringWords[more[n + 1]]
    BY <1>3, <2>1 DEF Sums
  <2> QED
    BY <1>1, <2>1, <2>2
<1>6. a[n] = b[n]
  BY <1>1, <1>4
<1> QED
  BY <1>2, <1>3, <1>5, <1>6 DEF more

LEMMA SumPrepend == ASSUME NEW strings \in Seq(PropNames), NEW p \in PropNames
                    PROVE  SumWords(<<p>> \o strings) = SumWords(strings) + StringWords[p]
<1> DEFINE n == Len(strings)
           more == <<p>> \o strings
           x == StringWords[p]
<1>1. n \in Nat /\ x \in Nat /\ \A i \in 1 .. n : StringWords[strings[i]] \in Nat
  BY LenProperties, ElementOfSeq, FdtAssumption
<1>2. /\ more \in Seq(PropNames) /\ Len(more) = n + 1 /\ more[1] = p
      /\ \A i \in 1 .. n : more[i + 1] = strings[i]
  <2>1. <<p>> \in Seq(PropNames) /\ Len(<<p>>) = 1 /\ <<p>>[1] = p
    OBVIOUS
  <2>2. /\ more \in Seq(PropNames) /\ Len(more) = 1 + n
        /\ \A i \in 1 .. 1 + n : more[i] = IF i <= 1 THEN <<p>>[i] ELSE strings[i - 1]
    BY <2>1, ConcatProperties
  <2> HIDE DEF more, n
  <2>3. more[1] = p
    <3>1. 1 \in 1 .. 1 + n /\ 1 <= 1
      BY <1>1
    <3> QED
      BY <2>1, <2>2, <3>1
  <2>4. \A i \in 1 .. n : more[i + 1] = strings[i]
    <3> SUFFICES ASSUME NEW i \in 1 .. n PROVE more[i + 1] = strings[i]
      OBVIOUS
    <3>1. i + 1 \in 1 .. 1 + n /\ ~(i + 1 <= 1) /\ (i + 1) - 1 = i
      BY <1>1
    <3> QED
      BY <2>2, <3>1
  <2> QED
    BY <1>1, <2>2, <2>3, <2>4
<1>3. PICK a : Sums(a, strings, n) /\ SumWords(strings) = a[n]
  BY SumIs
<1>4. PICK b : Sums(b, more, n + 1) /\ SumWords(more) = b[n + 1]
  <2>1. \E b : Sums(b, more, Len(more)) /\ SumWords(more) = b[Len(more)]
    <3> HIDE DEF more, n
    <3> QED
      BY <1>2, SumIs
  <2> HIDE DEF more, n
  <2> QED
    BY <1>2, <2>1
<1> HIDE DEF more, n, x
<1>5. /\ a[0] = 0 /\ b[0] = 0
      /\ \A i \in 1 .. n : a[i] = a[i - 1] + StringWords[strings[i]]
      /\ \A i \in 1 .. n + 1 : b[i] = b[i - 1] + StringWords[more[i]]
  <2>1. 0 \in 0 .. n /\ 0 \in 0 .. n + 1 /\ (\A i \in 1 .. n : i \in 0 .. n /\ i # 0)
        /\ \A i \in 1 .. n + 1 : i \in 0 .. n + 1 /\ i # 0
    BY <1>1
  <2> QED
    BY <1>3, <1>4, <2>1 DEF Sums
<1> DEFINE Bad == {i \in 0 .. n : ~(a[i] \in Nat /\ b[i + 1] = a[i] + x)}
<1>6. Bad = {}
  <2> SUFFICES ASSUME Bad # {} PROVE FALSE
    OBVIOUS
  <2>1. Bad \in SUBSET Nat
    BY <1>1
  <2>2. PICK i \in Bad : \A j \in Bad : i <= j
    <3> HIDE DEF Bad
    <3> QED
      BY <2>1, LeastNat
  <2>3. i \in 0 .. n /\ ~(a[i] \in Nat /\ b[i + 1] = a[i] + x)
    OBVIOUS
  <2>4. CASE i = 0
    <3>1. b[1] = b[0] + x
      <4>1. 1 \in 1 .. n + 1 /\ 1 - 1 = 0
        BY <1>1
      <4> QED
        BY <1>2, <1>5, <4>1 DEF x
    <3> QED
      BY <1>1, <1>5, <2>3, <2>4, <3>1
  <2>5. CASE i # 0
    <3>1. i - 1 \in 0 .. n /\ i \in 1 .. n /\ i + 1 \in 1 .. n + 1 /\ (i + 1) - 1 = i
          /\ (i - 1) + 1 = i /\ ~(i <= i - 1)
      BY <1>1, <2>3, <2>5
    <3>2. i - 1 \notin Bad
      BY <2>2, <3>1
    <3>3. a[i - 1] \in Nat /\ b[i] = a[i - 1] + x
      BY <3>1, <3>2
    <3>4. a[i] = a[i - 1] + StringWords[strings[i]] /\ b[i + 1] = b[i] + StringWords[strings[i]]
      BY <1>2, <1>5, <3>1
    <3> HIDE DEF Bad
    <3>5. StringWords[strings[i]] \in Nat
      BY <1>1, <3>1
    <3> QED
      BY <1>1, <2>3, <3>3, <3>4, <3>5
  <2> QED
    BY <2>4, <2>5
<1>7. n \in 0 .. n
  BY <1>1
<1> QED
  BY <1>3, <1>4, <1>6, <1>7 DEF more, x

-----------------------------------------------------------------------------
(* The walk over all tags.  Where a cursor goes next, and the cursors that *)
(* are reached from one: those in every set that holds it and is closed.   *)
From(t, c) == {d \in Cursors : \A P \in SUBSET Cursors :
                                 c \in P /\ (\A e \in P : Hop(t, e) \in P) => d \in P}
Visited(t) == From(t, Start)

LEMMA HopOn ==
  ASSUME NEW t, Legible(t.struct), NEW c \in Cursors
  PROVE  /\ Hop(t, c) \in Cursors
         /\ ~Stops(t, c) => /\ Hop(t, c).off = NextTag(t.struct, c.off).next
                            /\ TagAt(t.struct, c.off, NextTag(t.struct, c.off))
                            /\ c.off \in 0 .. Len(t.struct) - 1
                            /\ Hop(t, c).off > c.off /\ Hop(t, c).off \in 0 .. Len(t.struct)
         /\ NextTag(t.struct, c.off).tag = "begin" => ~Stops(t, c)
<1> DEFINE s == t.struct
           w == NextTag(s, c.off)
<1>1. c.off \in Int /\ c.path \in Seq(NodeNames) /\ c.inTree \in BOOLEAN
  BY DEF Cursors
<1>2. /\ w.tag \in Tags /\ w.next \in Int /\ Len(s) \in Nat
      /\ w.next < 0 => w.tag = "end"
      /\ w.next >= 0 => TagAt(s, c.off, w)
      /\ w.next >= 0 => c.off >= 0 /\ c.off < w.next /\ w.next <= Len(s)
  BY <1>1, NextTagOn
<1>3. Hop(t, c) = Onto(t, c, w)
  BY DEF Hop
<1>4. Began(s, c) \in Seq(NodeNames) \/ w.tag # "begin"
  <2> SUFFICES ASSUME w.tag = "begin" PROVE Began(s, c) \in Seq(NodeNames)
    OBVIOUS
  <2>1. TagAt(s, c.off, w)
    BY <1>2
  <2>2. s[c.off + 2][2] \in NodeNames
    BY <2>1 DEF TagAt
  <2>3. <<>> \in Seq(NodeNames)
    OBVIOUS
  <2> QED
    BY <1>1, <2>2, <2>3, AppendProperties DEF Began
<1>5. c.path # <<>> => SubSeq(c.path, 1, Len(c.path) - 1) \in Seq(NodeNames)
  <2>1. Len(c.path) \in Nat /\ (c.path # <<>> => Len(c.path) # 0)
    BY <1>1, LenProperties, EmptySeq
  <2>2. c.path # <<>> => Len(c.path) - 1 \in 0 .. Len(c.path)
    BY <2>1
  <2> QED
    BY <1>1, <2>2, SubSeqProperties
<1>6. c.path = <<>> => SubSeq(c.path, 1, Len(c.path) - 1) \in Seq(NodeNames)
  OBVIOUS
<1> HIDE DEF w, s
<1>7. CASE w.tag = "begin"
  <2>1. Hop(t, c) = [off |-> w.next, path |-> Began(s, c), inTree |-> TRUE]
    BY <1>3, <1>7 DEF Onto, s
  <2>2. Hop(t, c) \in Cursors /\ Hop(t, c).off = w.next
    BY <1>2, <1>4, <1>7, <2>1 DEF Cursors
  <2> QED
    BY <1>1, <1>2, <1>7, <2>2 DEF Stops, w, s
<1>8. CASE w.tag = "nop" \/ (w.tag = "prop" /\ c.inTree /\ Known(t, c.off))
  <2>1. Hop(t, c) = [c EXCEPT !.off = w.next]
    BY <1>3, <1>8 DEF Onto
  <2>2. Hop(t, c) \in Cursors /\ Hop(t, c).off = w.next
    BY <1>2, <2>1 DEF Cursors
  <2> QED
    BY <1>1, <1>2, <1>8, <2>2 DEF Stops, w, s
<1>9. CASE w.tag = "endnode" /\ c.inTree
  <2>1. Hop(t, c) = [off |-> w.next, path |-> SubSeq(c.path, 1, Len(c.path) - 1),
                      inTree |-> c.path # <<>>]
    BY <1>3, <1>9 DEF Onto
  <2>2. Hop(t, c) \in Cursors /\ Hop(t, c).off = w.next
    BY <1>2, <1>5, <1>6, <2>1 DEF Cursors
  <2> QED
    BY <1>1, <1>2, <1>9, <2>2 DEF Stops, w, s
<1>10. CASE ~(\/ w.tag = "begin" \/ w.tag = "nop" \/ (w.tag = "prop" /\ c.inTree /\ Known(t, c.off))
              \/ (w.tag = "endnode" /\ c.inTree))
  <2>1. Hop(t, c) = c
    BY <1>3, <1>10 DEF Onto
  <2> QED
    BY <1>10, <2>1 DEF Stops, w, s
<1> QED
  BY <1>7, <1>8, <1>9, <1>10

(* What is reached.                                                        *)
LEMMA FromHere == ASSUME NEW t, NEW c \in Cursors PROVE c \in From(t, c)
  BY DEF From

LEMMA FromCursors == ASSUME NEW t, NEW c PROVE From(t, c) \subseteq Cursors
  BY DEF From

LEMMA FromWithin ==
  ASSUME NEW t, NEW c, NEW P \in SUBSET Cursors, c \in P, \A e \in P : Hop(t, e) \in P
  PROVE  From(t, c) \subseteq P
  BY DEF From

LEMMA FromMove ==
  ASSUME NEW t, Legible(t.struct), NEW c, NEW d \in From(t, c)
  PROVE  Hop(t, d) \in From(t, c)
<1>1. d \in Cursors /\ Hop(t, d) \in Cursors
  BY HopOn, FromCursors
<1> QED
  BY <1>1 DEF From

LEMMA FromFrom ==
  ASSUME NEW t, Legible(t.struct), NEW c, NEW d \in From(t, c)
  PROVE  From(t, d) \subseteq From(t, c)
  BY FromMove, FromCursors, FromWithin

LEMMA FromStep ==
  ASSUME NEW t, Legible(t.struct), NEW c \in Cursors
  PROVE  From(t, c) = {c} \cup From(t, Hop(t, c))
<1> DEFINE P == {c} \cup From(t, Hop(t, c))
<1>1. Hop(t, c) \in Cursors
  BY HopOn
<1>2. P \in SUBSET Cursors /\ c \in P
  BY FromCursors
<1>3. \A e \in P : Hop(t, e) \in P
  BY <1>1, FromHere, FromMove
<1>4. From(t, c) \subseteq P
  <2> HIDE DEF P
  <2> QED
    BY <1>2, <1>3, FromWithin
<1>5. Hop(t, c) \in From(t, c)
  BY FromHere, FromMove
<1> QED
  BY <1>4, <1>5, FromHere, FromFrom

LEMMA FromStop == ASSUME NEW t, Legible(t.struct), NEW c \in Cursors, Stops(t, c)
                  PROVE  From(t, c) = {c}
<1>1. From(t, c) \subseteq {c}
  <2>1. {c} \in SUBSET Cursors /\ c \in {c} /\ \A e \in {c} : Hop(t, e) \in {c}
    BY DEF Stops
  <2> QED
    BY <2>1, FromWithin
<1> QED
  BY <1>1, FromHere

(* Offsets grow along the way, and of two cursors on it one is reached     *)
(* from the other.                                                         *)
LEMMA FromOrder ==
  ASSUME NEW t, Legible(t.struct), NEW c \in Cursors, NEW d \in From(t, c)
  PROVE  d = c \/ (d.off > c.off /\ d.off \in 0 .. Len(t.struct))
<1> DEFINE P == {d1 \in Cursors : d1 = c \/ (d1.off > c.off /\ d1.off \in 0 .. Len(t.struct))}
<1>1. ASSUME NEW e \in P PROVE Hop(t, e) \in P
  <2>1. e \in Cursors /\ c.off \in Int /\ e.off \in Int
    BY DEF Cursors
  <2>2. /\ Hop(t, e) \in Cursors
        /\ ~Stops(t, e) => Hop(t, e).off > e.off /\ Hop(t, e).off \in 0 .. Len(t.struct)
    BY <2>1, HopOn
  <2>3. Stops(t, e) => Hop(t, e) = e
    BY DEF Stops
  <2> QED
    BY <2>1, <2>2, <2>3
<1>2. P \in SUBSET Cursors /\ c \in P
  OBVIOUS
<1>3. From(t, c) \subseteq P
  <2> HIDE DEF P
  <2> QED
    BY <1>1, <1>2, FromWithin
<1> QED
  BY <1>3

LEMMA FromTotal ==
  ASSUME NEW t, Legible(t.struct), NEW c \in Cursors, NEW x \in From(t, c), NEW y \in From(t, c)
  PROVE  y \in From(t, x) \/ x \in From(t, y)
<1> DEFINE P == {d \in Cursors : d \in From(t, x) \/ x \in From(t, d)}
<1>1. ASSUME NEW e \in P PROVE Hop(t, e) \in P
  <2>1. e \in Cursors /\ x \in Cursors
    BY FromCursors
  <2>2. Hop(t, e) \in Cursors
    BY <2>1, HopOn
  <2>3. CASE e \in From(t, x)
    BY <2>2, <2>3, FromMove
  <2>4. CASE x \in From(t, e)
    <3>1. x = e \/ x \in From(t, Hop(t, e))
      BY <2>1, <2>4, FromStep
    <3>2. x = e => Hop(t, e) \in From(t, x)
      BY <2>1, FromHere, FromMove
    <3> QED
      BY <2>2, <3>1, <3>2
  <2> QED
    BY <2>3, <2>4
<1>2. P \in SUBSET Cursors /\ c \in P
  OBVIOUS
<1>3. From(t, c) \subseteq P
  <2> HIDE DEF P
  <2> QED
    BY <1>1, <1>2, FromWithin
<1> QED
  BY <1>3

LEMMA FromOffsets ==
  ASSUME NEW t, Legible(t.struct), NEW c \in Cursors, NEW x \in From(t, c), NEW y \in From(t, c)
  PROVE  /\ x.off = y.off => x = y
         /\ x.off <= y.off => y \in From(t, x)
<1>1. x \in Cursors /\ y \in Cursors /\ x.off \in Int /\ y.off \in Int
  BY FromCursors DEF Cursors
<1>2. y \in From(t, x) \/ x \in From(t, y)
  BY FromTotal
<1>3. y \in From(t, x) => y = x \/ y.off > x.off
  BY <1>1, FromOrder
<1>4. x \in From(t, y) => x = y \/ x.off > y.off
  BY <1>1, FromOrder
<1> QED
  BY <1>1, <1>2, <1>3, <1>4, FromHere

LEMMA StartIs == Start \in Cursors /\ Start.off = 0 /\ Start.path = <<>> /\ Start.inTree = FALSE
  BY DEF Start, Cursors

-----------------------------------------------------------------------------
(* What a blob means, in terms of the cursors visited.                     *)
LEMMA TrailIs == ASSUME NEW t, Legible(t.struct) PROVE Trail(t) = Visited(t)
<1> DEFINE s == t.struct
           Body(f) == [c \in Cursors |-> IF Stops(t, c) THEN {c} ELSE {c} \cup f[Hop(t, c)]]
           Go == CHOOSE f : f = Body(f)
           g  == [c \in Cursors |-> From(t, c)]
<1>1. Trail(t) = Go[Start]
  BY DEF Trail
<1>3. g = Body(g)
  BY FromStep, FromStop, HopOn
<1>4. Go = Body(Go)
  BY <1>3
<1> HIDE DEF Go
<1>5. \A c \in Cursors : Go[c] = g[c]
  <2> DEFINE Bad == {Ahead(s)[c.off] : c \in {d \in Cursors : Go[d] # g[d]}}
  <2> SUFFICES ASSUME Bad # {} PROVE FALSE
    OBVIOUS
  <2>1. Bad \in SUBSET Nat
    <3>1. Ahead(s) \in [Int -> Nat] /\ \A d \in Cursors : d.off \in Int
      BY AheadOn DEF Cursors
    <3> QED
      BY <3>1
  <2>2. PICK n \in Bad : \A j \in Bad : n <= j
    <3> HIDE DEF Bad
    <3> QED
      BY <2>1, LeastNat
  <2>3. PICK c \in Cursors : Go[c] # g[c] /\ n = Ahead(s)[c.off]
    OBVIOUS
  <2>4. /\ Go[c] = IF Stops(t, c) THEN {c} ELSE {c} \cup Go[Hop(t, c)]
        /\ g[c] = IF Stops(t, c) THEN {c} ELSE {c} \cup g[Hop(t, c)]
    <3> HIDE DEF g
    <3> QED
      BY <1>3, <1>4
  <2> HIDE DEF g
  <2>5. ~Stops(t, c)
    BY <2>3, <2>4
  <2>6. Hop(t, c) \in Cursors /\ Go[Hop(t, c)] # g[Hop(t, c)]
    BY <2>3, <2>4, HopOn
  <2>7. Ahead(s)[Hop(t, c).off] < Ahead(s)[c.off]
    <3>1. c.off \in Int /\ Hop(t, c).off \in Int
      BY <2>6 DEF Cursors
    <3>2. c.off \in 0 .. Len(s) /\ Hop(t, c).off > c.off
      <4>1. c.off \in 0 .. Len(s) - 1 /\ Hop(t, c).off > c.off
        BY <2>5, HopOn
      <4>2. Len(s) \in Nat
        BY AheadOn
      <4> QED
        BY <4>1, <4>2
    <3> QED
      BY <3>1, <3>2, AheadOn
  <2>8. Ahead(s)[Hop(t, c).off] \in Bad
    BY <2>6
  <2>9. Ahead(s)[Hop(t, c).off] \in Nat /\ Ahead(s)[c.off] \in Nat
    BY <2>6, AheadOn DEF Cursors
  <2> HIDE DEF Bad, s
  <2> QED
    BY <2>2, <2>3, <2>7, <2>8, <2>9
<1> QED
  BY <1>1, <1>5, StartIs DEF Visited

LEMMA TreeIs == ASSUME NEW t, Legible(t.struct) PROVE TreeOf(t) = MeaningOf(t, Visited(t))
  BY TrailIs DEF TreeOf

(* Only the structure and the strings matter.                              *)
LEMMA SameReading ==
  ASSUME NEW t, NEW u, u.struct = t.struct, u.strings = t.strings
  PROVE  Visited(u) = Visited(t) /\ MeaningOf(u, Visited(u)) = MeaningOf(t, Visited(t))
<1>1. \A c : Hop(u, c) = Hop(t, c)
  BY DEF Hop, Onto, Known
<1>2. Visited(u) = Visited(t)
  BY <1>1 DEF Visited, From
<1>3. \A c : (Stops(u, c) = Stops(t, c)) /\ (Begins(u, c) = Begins(t, c)) /\ (Carries(u, c) = Carries(t, c))
             /\ (EndsWell(u, c) = EndsWell(t, c)) /\ PropAt(u, c) = PropAt(t, c)
  BY <1>1 DEF Stops, Begins, Carries, EndsWell, PropAt, PropValue, PropLen
<1> QED
  BY <1>2, <1>3 DEF MeaningOf

-----------------------------------------------------------------------------
(* Structures that are alike somewhere.                                    *)
LEMMA SubSeqSame ==
  ASSUME NEW s, NEW r, NEW m \in Int, NEW n \in Int, NEW d \in Int,
         \A i \in m .. n : r[i + d] = s[i]
  PROVE  SubSeq(r, m + d, n + d) = SubSeq(s, m, n)
<1> DEFINE S == {s[i] : i \in m .. n}
           a == SubSeq(s, m, n)
           b == SubSeq(r, m + d, n + d)
<1>1. /\ a \in Seq(S) /\ Len(a) = (IF m <= n THEN n - m + 1 ELSE 0)
      /\ \A i \in 1 .. n - m + 1 : a[i] = s[m + i - 1]
  <2>1. \A i \in m .. n : s[i] \in S
    OBVIOUS
  <2> HIDE DEF S
  <2> QED
    BY <2>1, SubSeqProperties
<1>2. /\ b \in Seq(S) /\ Len(b) = (IF m + d <= n + d THEN n + d - (m + d) + 1 ELSE 0)
      /\ \A i \in 1 .. n + d - (m + d) + 1 : b[i] = r[m + d + i - 1]
  <2>1. \A i \in m + d .. n + d : r[i] \in S
    <3> SUFFICES ASSUME NEW i \in m + d .. n + d PROVE r[i] \in S
      OBVIOUS
    <3>1. i - d \in m .. n /\ (i - d) + d = i
      OBVIOUS
    <3>2. r[(i - d) + d] = s[i - d]
      BY <3>1
    <3> QED
      BY <3>1, <3>2
  <2>2. m + d \in Int /\ n + d \in Int
    OBVIOUS
  <2> HIDE DEF S
  <2> QED
    BY <2>1, <2>2, SubSeqProperties
<1> HIDE DEF a, b, S
<1>3. Len(a) = Len(b)
  BY <1>1, <1>2
<1>4. ASSUME NEW i \in 1 .. Len(a) PROVE b[i] = a[i]
  <2>1. i \in 1 .. n - m + 1 /\ i \in 1 .. n + d - (m + d) + 1 /\ m + i - 1 \in m .. n
    BY <1>1
  <2>2. a[i] = s[m + i - 1] /\ b[i] = r[m + d + i - 1]
    BY <1>1, <1>2, <2>1
  <2>3. (m + i - 1) + d = m + d + i - 1
    BY <2>1
  <2>4. r[(m + i - 1) + d] = s[m + i - 1]
    BY <2>1
  <2> QED
    BY <2>2, <2>3, <2>4
<1>5. a = b
  BY <1>1, <1>2, <1>3, <1>4, SeqEqual
<1> QED
  BY <1>5 DEF a, b

(* Words that are tags, names and lengths are the same; the place of the   *)
(* name of a property may differ.                                          *)
Alike(x, y) == x = y \/ (x[1] = "nameoff" /\ y[1] = "nameoff")

LEMMA TagShift ==
  ASSUME NEW s, Legible(s), NEW r, Len(r) \in Nat, NEW o \in Int, NEW d \in Int,
         NextTag(s, o).next >= 0, o + d >= 0, NextTag(s, o).next + d <= Len(r),
         \A i \in o + 1 .. NextTag(s, o).next : Alike(s[i], r[i + d])
  PROVE  NextTag(r, o + d) = [tag |-> NextTag(s, o).tag, next |-> NextTag(s, o).next + d]
<1> DEFINE w == NextTag(s, o)
           a == s[o + 1]
           Behind(x, r0, p) ==
             IF x = Tag("begin") /\ p + 1 < Len(r0) /\ r0[p + 2][1] = "name"
               THEN p + 1 + NameWords[r0[p + 2][2]]
             ELSE IF x = Tag("prop") /\ p + 1 < Len(r0) /\ r0[p + 2][1] = "len"
               THEN p + 3 + r0[p + 2][2]
             ELSE IF x \in {Tag("endnode"), Tag("nop"), Tag("end")}
               THEN p + 1
             ELSE BADSTRUCTURE
           b == Behind(a, s, o)
<1>1. TagAt(s, o, w) /\ Len(s) \in Nat /\ w.next \in Int /\ o < w.next /\ w.next <= Len(s) /\ o >= 0
  BY NextTagOn
<1>2. o \in 0 .. Len(s) - 1 /\ o + d \in 0 .. Len(r) - 1
  <2> HIDE DEF w
  <2> QED
    BY <1>1 DEF w
<1>3. w = IF b < 0 \/ b > Len(s) THEN [tag |-> "end", next |-> BADSTRUCTURE]
          ELSE [tag |-> a[2], next |-> b]
  BY <1>2 DEF NextTag
<1>4. NextTag(r, o + d)
        = LET c == Behind(r[o + d + 1], r, o + d)
          IN  IF c < 0 \/ c > Len(r) THEN [tag |-> "end", next |-> BADSTRUCTURE]
              ELSE [tag |-> r[o + d + 1][2], next |-> c]
  BY <1>2 DEF NextTag
<1>5. w.tag = a[2] /\ w.next = b /\ b \in Int
  <2> HIDE DEF b
  <2>1. ~(b < 0 \/ b > Len(s))
    BY <1>1, <1>3 DEF BADSTRUCTURE
  <2> QED
    BY <1>1, <1>3, <2>1
<1>6. b \in Int /\ b > o /\ b <= Len(s) /\ b + d <= Len(r) /\ b >= 0 /\ o >= 0
  <2> HIDE DEF b, w
  <2> QED
    BY <1>1, <1>5 DEF w
<1>7. \A i \in o + 1 .. b : Alike(s[i], r[i + d])
  <2> HIDE DEF b
  <2> QED
    BY <1>5
<1>8. a \in {Tag("begin"), Tag("prop"), Tag("endnode"), Tag("nop"), Tag("end")}
  BY <1>6 DEF BADSTRUCTURE
<1>9. r[o + d + 1] = a
  <2> HIDE DEF b
  <2>1. o + 1 \in o + 1 .. b /\ (o + 1) + d = o + d + 1
    BY <1>6
  <2>2. Alike(s[o + 1], r[(o + 1) + d])
    BY <1>7, <2>1
  <2> QED
    BY <1>8, <2>1, <2>2 DEF Alike, Tag
<1>10. b >= o + 2 => Alike(s[o + 2], r[o + d + 2])
  <2> HIDE DEF b
  <2> SUFFICES ASSUME b >= o + 2 PROVE Alike(s[o + 2], r[o + d + 2])
    OBVIOUS
  <2>1. o + 2 \in o + 1 .. b /\ (o + 2) + d = o + d + 2
    BY <1>6
  <2> QED
    BY <1>7, <2>1
<1>11. Behind(a, r, o + d) = b + d
  <2>1. CASE a = Tag("begin")
    <3>1. o + 1 < Len(s) /\ s[o + 2][1] = "name" /\ b = o + 1 + NameWords[s[o + 2][2]]
      BY <1>6, <2>1 DEF BADSTRUCTURE, Tag
    <3>2. NameWords[s[o + 2][2]] \in Nat \ {0}
      <4>1. o + 2 \in 1 .. Len(s)
        BY <1>1, <1>2, <3>1
      <4>2. s[o + 2][2] \in NodeNames
        BY <3>1, <4>1, LegibleOn
      <4> QED
        BY <4>2, FdtAssumption
    <3> HIDE DEF b
    <3>3. b >= o + 2 /\ o + d + 1 < Len(r)
      <4> DEFINE k == NameWords[s[o + 2][2]]
      <4>1. k \in Nat \ {0} /\ b = o + 1 + k
        BY <3>1, <3>2
      <4> HIDE DEF k, Behind, a, w
      <4> QED
        BY <1>6, <4>1
    <3>4. r[o + d + 2] = s[o + 2]
      BY <1>10, <3>1, <3>3 DEF Alike
    <3>5. Behind(a, r, o + d) = o + d + 1 + NameWords[s[o + 2][2]]
      BY <2>1, <3>1, <3>3, <3>4
    <3> QED
      BY <3>1, <3>2, <3>5
  <2>2. CASE a = Tag("prop")
    <3>1. o + 1 < Len(s) /\ s[o + 2][1] = "len" /\ b = o + 3 + s[o + 2][2]
      BY <1>6, <2>2 DEF BADSTRUCTURE, Tag
    <3>2. s[o + 2][2] \in Nat
      <4>1. o + 2 \in 1 .. Len(s)
        BY <1>1, <1>2, <3>1
      <4> QED
        BY <3>1, <4>1, LegibleOn
    <3> HIDE DEF b
    <3>3. b >= o + 2 /\ o + d + 1 < Len(r)
      <4> DEFINE k == s[o + 2][2]
      <4>1. k \in Nat /\ b = o + 3 + k
        BY <3>1, <3>2
      <4> HIDE DEF k, Behind, a, w
      <4> QED
        BY <1>6, <4>1
    <3>4. r[o + d + 2] = s[o + 2]
      BY <1>10, <3>1, <3>3 DEF Alike
    <3>5. Behind(a, r, o + d) = o + d + 3 + s[o + 2][2]
      BY <2>2, <3>1, <3>3, <3>4 DEF Tag
    <3> DEFINE k == s[o + 2][2]
    <3>6. k \in Nat /\ b = o + 3 + k /\ Behind(a, r, o + d) = o + d + 3 + k
      BY <3>1, <3>2, <3>5
    <3> HIDE DEF Behind, a, w, k
    <3> QED
      BY <3>6
  <2>3. CASE a \in {Tag("endnode"), Tag("nop"), Tag("end")}
    <3>1. b = o + 1 /\ Behind(a, r, o + d) = o + d + 1
      BY <2>3 DEF Tag
    <3> HIDE DEF b, Behind
    <3> QED
      BY <3>1
  <2> QED
    BY <1>8, <2>1, <2>2, <2>3
<1> HIDE DEF b, w, Behind
<1>12. ~(b + d < 0 \/ b + d > Len(r))
  BY <1>2, <1>6
<1> QED
  BY <1>4, <1>5, <1>9, <1>11, <1>12 DEF w

-----------------------------------------------------------------------------
(* Blobs that are read alike at a cursor: the second one d words further   *)
(* on, with another place for the name perhaps.                            *)
Further1(c, d) == [off |-> c.off + d, path |-> c.path, inTree |-> c.inTree]

ReadAlike(t, u, c, d) ==
  LET e == Further1(c, d)
  IN  /\ Hop(u, e) = Further1(Hop(t, c), d)
      /\ Stops(u, e) = Stops(t, c) /\ Begins(u, e) = Begins(t, c) /\ Carries(u, e) = Carries(t, c)
      /\ Begins(t, c) => Began(u.struct, e) = Began(t.struct, c)
      /\ Carries(t, c) => PropAt(u, e) = PropAt(t, c)

NameSame(t, u, c, d) ==
  NextTag(t.struct, c.off).tag = "prop" =>
    LET i == t.struct[c.off + 3][2]
        j == u.struct[c.off + d + 3][2]
    IN  /\ i \in DOMAIN t.strings /\ j \in DOMAIN u.strings /\ u.strings[j] = t.strings[i]
        /\ \A k \in c.off + 4 .. NextTag(t.struct, c.off).next : u.struct[k + d] = t.struct[k]

LEMMA AlikeThere ==
  ASSUME NEW t, NEW u, Legible(t.struct), Len(u.struct) \in Nat, NEW c \in Cursors, NEW d \in Int,
         NextTag(t.struct, c.off).next >= 0,
         c.off + d >= 0, NextTag(t.struct, c.off).next + d <= Len(u.struct),
         \A i \in c.off + 1 .. NextTag(t.struct, c.off).next : Alike(t.struct[i], u.struct[i + d]),
         NameSame(t, u, c, d)
  PROVE  ReadAlike(t, u, c, d)
<1> DEFINE s == t.struct
           r == u.struct
           w == NextTag(s, c.off)
           e == Further1(c, d)
           x == NextTag(r, e.off)
<1>1. /\ c.off \in Int /\ e.off = c.off + d /\ e.path = c.path /\ e.inTree = c.inTree
      /\ c = [off |-> c.off, path |-> c.path, inTree |-> c.inTree]
      /\ e = [off |-> c.off + d, path |-> c.path, inTree |-> c.inTree]
  BY DEF Cursors, Further1
<1>2. TagAt(s, c.off, w) /\ w.next \in Int /\ Len(s) \in Nat
  BY <1>1, NextTagOn
<1>3. x = [tag |-> w.tag, next |-> w.next + d]
  BY <1>1, TagShift
<1>4. w.tag = "begin" => r[c.off + d + 2] = s[c.off + 2]
  <2> SUFFICES ASSUME w.tag = "begin" PROVE r[c.off + d + 2] = s[c.off + 2]
    OBVIOUS
  <2>1. w.next = c.off + 1 + NameWords[s[c.off + 2][2]] /\ c.off + 2 \in 1 .. Len(s)
        /\ NameWords[s[c.off + 2][2]] \in Nat \ {0}
    BY <1>2, FdtAssumption DEF TagAt
  <2>2. s[c.off + 2][1] = "name"
    BY <1>2 DEF TagAt
  <2>3. c.off + 2 \in c.off + 1 .. w.next /\ (c.off + 2) + d = c.off + d + 2
    <3> DEFINE k == NameWords[s[c.off + 2][2]]
    <3>1. k \in Nat \ {0} /\ w.next = c.off + 1 + k
      BY <2>1
    <3> HIDE DEF k, w
    <3> QED
      BY <1>1, <3>1
  <2>4. Alike(s[c.off + 2], r[(c.off + 2) + d])
    BY <2>3
  <2> QED
    BY <2>2, <2>3, <2>4 DEF Alike
<1>5. w.tag = "begin" => Began(r, e) = Began(s, c)
  BY <1>1, <1>4 DEF Began
<1>6. w.tag = "prop" => Known(t, c.off) /\ Known(u, e.off)
  BY <1>1 DEF NameSame, Known
<1>7. w.tag = "prop" => PropAt(u, e) = PropAt(t, c)
  <2> SUFFICES ASSUME w.tag = "prop" PROVE PropAt(u, e) = PropAt(t, c)
    OBVIOUS
  <2>1. w.next = c.off + 3 + s[c.off + 2][2] /\ s[c.off + 2][2] \in Nat /\ c.off + 2 \in 1 .. Len(s)
    BY <1>2 DEF TagAt
  <2>2. s[c.off + 2][1] = "len"
    BY <1>2 DEF TagAt
  <2>3. r[c.off + d + 2] = s[c.off + 2]
    <3> DEFINE k == s[c.off + 2][2]
    <3>1. k \in Nat /\ w.next = c.off + 3 + k
      BY <2>1
    <3>2. c.off + 2 \in c.off + 1 .. w.next /\ (c.off + 2) + d = c.off + d + 2
      <4> HIDE DEF k, w
      <4> QED
        BY <1>1, <3>1
    <3>3. Alike(s[c.off + 2], r[(c.off + 2) + d])
      BY <3>2
    <3> QED
      BY <2>2, <3>2, <3>3 DEF Alike
  <2> DEFINE n == s[c.off + 2][2]
             m == c.off + 4
             l == c.off + 3 + n
  <2>4. m \in Int /\ l \in Int /\ w.next = l
    BY SMTT(30), <1>1, <2>1
  <2>5. \A k \in m .. l : r[k + d] = s[k]
    BY <2>4 DEF NameSame
  <2>6. SubSeq(r, m + d, l + d) = SubSeq(s, m, l)
    <3> HIDE DEF m, l, s, r
    <3> QED
      BY <2>4, <2>5, SubSeqSame
  <2>7. PropLen(u, e.off) = n /\ PropLen(t, c.off) = n
    BY <1>1, <2>3 DEF PropLen
  <2>8. m + d = e.off + 4 /\ l + d = e.off + 3 + n
    <3>1. n \in Nat
      BY <2>1
    <3> HIDE DEF n
    <3> QED
      BY <1>1, <3>1
  <2>9. PropValue(u, e.off) = PropValue(t, c.off)
    BY <2>6, <2>7, <2>8 DEF PropValue
  <2>10. t.strings[s[c.off + 3][2]] = u.strings[r[e.off + 3][2]]
    BY <1>1 DEF NameSame
  <2> QED
    BY <1>1, <2>9, <2>10 DEF PropAt
<1>8. Hop(u, e) = Further1(Hop(t, c), d)
  <2>1. Hop(u, e) = Onto(u, e, x) /\ Hop(t, c) = Onto(t, c, w)
    BY DEF Hop
  <2>2. x.tag = w.tag /\ x.next = w.next + d
    BY <1>3
  <2> HIDE DEF w, x, e, s, r
  <2>3. CASE w.tag = "begin"
    <3>1. Onto(u, e, x) = [off |-> x.next, path |-> Began(r, e), inTree |-> TRUE]
      BY <2>2, <2>3 DEF Onto, r
    <3>2. Onto(t, c, w) = [off |-> w.next, path |-> Began(s, c), inTree |-> TRUE]
      BY <2>3 DEF Onto, s
    <3>3. Further1([off |-> w.next, path |-> Began(s, c), inTree |-> TRUE], d)
            = [off |-> w.next + d, path |-> Began(s, c), inTree |-> TRUE]
      BY DEF Further1
    <3> QED
      BY <1>5, <2>1, <2>2, <2>3, <3>1, <3>2, <3>3
  <2>4. CASE w.tag = "nop" \/ (w.tag = "prop" /\ c.inTree)
    <3>1. Onto(u, e, x) = [e EXCEPT !.off = x.next] /\ Onto(t, c, w) = [c EXCEPT !.off = w.next]
      BY <1>1, <1>6, <2>2, <2>4 DEF Onto
    <3>2. [e EXCEPT !.off = x.next] = [off |-> x.next, path |-> c.path, inTree |-> c.inTree]
      BY <1>1
    <3>3. Further1([c EXCEPT !.off = w.next], d)
            = [off |-> w.next + d, path |-> c.path, inTree |-> c.inTree]
      BY <1>1 DEF Further1
    <3> QED
      BY <2>1, <2>2, <3>1, <3>2, <3>3
  <2>5. CASE w.tag = "endnode" /\ c.inTree
    <3>1. /\ Onto(u, e, x) = [off |-> x.next, path |-> SubSeq(c.path, 1, Len(c.path) - 1),
                              inTree |-> c.path # <<>>]
          /\ Onto(t, c, w) = [off |-> w.next, path |-> SubSeq(c.path, 1, Len(c.path) - 1),
                              inTree |-> c.path # <<>>]
      BY <1>1, <2>2, <2>5 DEF Onto
    <3> DEFINE y == [off |-> w.next, path |-> SubSeq(c.path, 1, Len(c.path) - 1),
                     inTree |-> c.path # <<>>]
    <3>2. Further1(y, d) = [off |-> w.next + d, path |-> SubSeq(c.path, 1, Len(c.path) - 1),
                            inTree |-> c.path # <<>>]
      BY DEF Further1
    <3> QED
      BY <2>1, <2>2, <3>1, <3>2
  <2>6. CASE ~(w.tag = "begin" \/ w.tag = "nop" \/ (w.tag = "prop" /\ c.inTree)
               \/ (w.tag = "endnode" /\ c.inTree))
    <3>1. Onto(u, e, x) = e /\ Onto(t, c, w) = c
      BY <1>1, <2>2, <2>6 DEF Onto
    <3> QED
      BY <2>1, <3>1 DEF e
  <2> QED
    BY <2>3, <2>4, <2>5, <2>6
<1>9. Stops(u, e) = Stops(t, c)
  <2>1. Hop(t, c) \in Cursors
    BY HopOn
  <2>2. ASSUME NEW a \in Cursors PROVE (Further1(a, d) = Further1(c, d)) = (a = c)
    <3>1. a.off \in Int /\ c.off \in Int
      BY DEF Cursors
    <3>2. Further1(a, d) = Further1(c, d) => a.off = c.off /\ a.path = c.path /\ a.inTree = c.inTree
      BY <3>1 DEF Further1, Cursors
    <3>3. a.off = c.off /\ a.path = c.path /\ a.inTree = c.inTree => a = c
      BY DEF Cursors
    <3> QED
      BY <3>2, <3>3
  <2> QED
    BY <1>8, <2>1, <2>2 DEF Stops
<1> QED
  BY <1>3, <1>5, <1>7, <1>8, <1>9 DEF ReadAlike, Begins, Carries

(* Where the words are the same and so are the strings there were.         *)
Knows(u, t) == \A i \in DOMAIN t.strings : i \in DOMAIN u.strings /\ u.strings[i] = t.strings[i]

LEMMA SameWords ==
  ASSUME NEW t, NEW u, Legible(t.struct), Len(u.struct) \in Nat, NEW c \in Cursors, NEW d \in Int,
         NextTag(t.struct, c.off).next >= 0,
         NextTag(t.struct, c.off).tag = "prop" => Known(t, c.off),
         c.off + d >= 0, NextTag(t.struct, c.off).next + d <= Len(u.struct),
         Knows(u, t),
         \A i \in c.off + 1 .. NextTag(t.struct, c.off).next : u.struct[i + d] = t.struct[i]
  PROVE  ReadAlike(t, u, c, d)
<1> DEFINE w == NextTag(t.struct, c.off)
<1>1. \A i \in c.off + 1 .. w.next : Alike(t.struct[i], u.struct[i + d])
  BY DEF Alike
<1>2. c.off \in Int /\ w.next \in Int /\ TagAt(t.struct, c.off, w)
  BY NextTagOn DEF Cursors
<1>3. NameSame(t, u, c, d)
  <2> SUFFICES ASSUME w.tag = "prop" PROVE NameSame(t, u, c, d)
    BY DEF NameSame
  <2> DEFINE k == t.struct[c.off + 2][2]
  <2>1. k \in Nat /\ w.next = c.off + 3 + k
    BY <1>2 DEF TagAt
  <2>2. c.off + 3 \in c.off + 1 .. w.next /\ (c.off + 3) + d = c.off + d + 3
        /\ \A i \in c.off + 4 .. w.next : i \in c.off + 1 .. w.next
    <3> DEFINE a == c.off
               n == w.next
    <3>1. a \in Int /\ n \in Int /\ k \in Nat /\ n = a + 3 + k
      BY <1>2, <2>1
    <3> HIDE DEF a, n, k, w
    <3>2. a + 3 \in a + 1 .. n /\ (a + 3) + d = a + d + 3 /\ \A i \in a + 4 .. n : i \in a + 1 .. n
      BY <3>1
    <3> QED
      BY <3>2 DEF a, n
  <2>3. u.struct[c.off + d + 3] = t.struct[c.off + 3]
    BY <2>2
  <2>4. \A i \in c.off + 4 .. w.next : u.struct[i + d] = t.struct[i]
    BY <2>2
  <2>5. Known(t, c.off)
    OBVIOUS
  <2> QED
    BY <2>3, <2>4, <2>5 DEF NameSame, Known, Knows
<1> QED
  BY <1>1, <1>3, AlikeThere

LEMMA FurtherOff == ASSUME NEW c \in Cursors, NEW d \in Int
                   PROVE  /\ Further1(c, d) \in Cursors /\ Further1(c, d).off = c.off + d
                          /\ Further1(c, 0) = c /\ Further1(Further1(c, d), -d) = c
  BY DEF Cursors, Further1

Upto(t, a, e) == {c \in From(t, a) : c.off < e.off}
Moved(S, d)   == {Further1(c, d) : c \in S}

(* A walk that is read alike as far as e, and goes on from there.          *)
LEMMA FromJoin ==
  ASSUME NEW t, NEW u, Legible(t.struct), Legible(u.struct), NEW a \in Cursors, NEW d \in Int,
         NEW e \in From(t, a),
         \A c \in From(t, a) : c.off < e.off => Hop(u, Further1(c, d)) = Further1(Hop(t, c), d)
  PROVE  From(u, Further1(a, d)) = Moved(Upto(t, a, e), d) \cup From(u, Further1(e, d))
<1> DEFINE F(c) == Further1(c, d)
           V == From(t, a)
           L == {F(c) : c \in {b \in V : b.off < e.off}}
           P == L \cup From(u, F(e))
           Q == {c \in V : c.off > e.off \/ F(c) \in From(u, F(a))}
<1>1. /\ V \subseteq Cursors /\ e \in Cursors
      /\ \A c \in Cursors : F(c) \in Cursors /\ c.off \in Int
  BY FromCursors, FurtherOff DEF Cursors
<1>2. a \in V /\ F(e) \in From(u, F(e)) /\ F(a) \in From(u, F(a))
  BY <1>1, FromHere
<1>3. ASSUME NEW c \in V
      PROVE  /\ Hop(t, c) \in V /\ Hop(t, c).off \in Int /\ c.off \in Int
             /\ Hop(t, c).off > c.off \/ Hop(t, c) = c
             /\ c.off < e.off => Hop(t, c).off < e.off \/ Hop(t, c) = e
             /\ c.off = e.off => c = e
             /\ e.off \in Int
  <2>1. c \in Cursors /\ Hop(t, c) \in V
    BY <1>1, FromMove
  <2>2. Hop(t, c).off > c.off \/ Hop(t, c) = c
    BY <2>1, HopOn DEF Stops
  <2>3. c.off = e.off => c = e
    BY FromOffsets
  <2>4. ASSUME c.off < e.off PROVE Hop(t, c).off < e.off \/ Hop(t, c) = e
    <3>1. e \in From(t, c) /\ e # c
      BY <1>1, <2>1, <2>4, FromOffsets
    <3>2. e \in From(t, Hop(t, c))
      BY <2>1, <3>1, FromStep
    <3>3. e = Hop(t, c) \/ e.off > Hop(t, c).off
      BY <1>1, <2>1, <3>2, FromOrder
    <3> QED
      BY <1>1, <2>1, <3>3
  <2> QED
    BY <1>1, <2>1, <2>2, <2>3, <2>4
<1>4. ASSUME NEW x \in P PROVE Hop(u, x) \in P
  <2>1. CASE x \in From(u, F(e))
    BY <2>1, FromMove
  <2>2. CASE x \in L
    <3>1. PICK c \in V : c.off < e.off /\ x = F(c)
      BY <2>2
    <3>2. Hop(u, x) = F(Hop(t, c))
      BY <3>1
    <3> HIDE DEF F
    <3> QED
      BY <1>2, <1>3, <3>1, <3>2
  <2> QED
    BY <2>1, <2>2
<1>5. P \in SUBSET Cursors
  BY <1>1, FromCursors
<1>6. F(a) \in P
  <2>1. e = a \/ e.off > a.off
    BY FromOrder
  <2> HIDE DEF F
  <2> QED
    BY <1>1, <1>2, <2>1
<1>7. From(u, F(a)) \subseteq P
  <2> HIDE DEF P, F
  <2> QED
    BY <1>4, <1>5, <1>6, FromWithin
<1>8. ASSUME NEW c \in Q PROVE Hop(t, c) \in Q
  <2> HIDE DEF V, F
  <2>1. CASE c.off > e.off
    BY <1>3, <2>1
  <2>2. CASE c.off < e.off
    <3>1. F(c) \in From(u, F(a))
      BY <1>3, <2>2
    <3>2. Hop(u, F(c)) \in From(u, F(a))
      BY <3>1, FromMove
    <3>3. Hop(u, F(c)) = F(Hop(t, c))
      BY <2>2 DEF F, V
    <3> QED
      BY <1>3, <3>2, <3>3
  <2>3. CASE c.off = e.off
    BY <1>3, <2>3
  <2> QED
    BY <1>3, <2>1, <2>2, <2>3
<1>9. From(t, a) \subseteq Q
  <2>1. Q \in SUBSET Cursors /\ a \in Q
    BY <1>1, <1>2
  <2> HIDE DEF Q
  <2> QED
    BY <1>8, <2>1, FromWithin
<1>10. \A c \in V : c.off <= e.off => F(c) \in From(u, F(a))
  BY <1>3, <1>9
<1>11. F(e) \in From(u, F(a))
  <2> HIDE DEF F
  <2> QED
    BY <1>1, <1>10
<1>12. From(u, F(e)) \subseteq From(u, F(a))
  <2> HIDE DEF F
  <2> QED
    BY <1>11, FromFrom
<1>13. L \subseteq From(u, F(a))
  <2> HIDE DEF F
  <2> QED
    BY <1>3, <1>10
<1>14. Moved(Upto(t, a, e), d) = L
  BY DEF Moved, Upto
<1> QED
  BY <1>7, <1>12, <1>13, <1>14

LEMMA FromShift ==
  ASSUME NEW t, NEW u, Legible(t.struct), Legible(u.struct), NEW a \in Cursors, NEW d \in Int,
         \A c \in From(t, a) : Hop(u, Further1(c, d)) = Further1(Hop(t, c), d)
  PROVE  From(u, Further1(a, d)) = Moved(From(t, a), d)
<1> DEFINE F(c) == Further1(c, d)
           P == {F(c) : c \in From(t, a)}
           Q == {c \in From(t, a) : F(c) \in From(u, F(a))}
<1>1. /\ From(t, a) \subseteq Cursors /\ a \in From(t, a) /\ \A c \in Cursors : F(c) \in Cursors
  BY FromCursors, FromHere, FurtherOff
<1>2. P \in SUBSET Cursors /\ F(a) \in P /\ \A x \in P : Hop(u, x) \in P
  <2> HIDE DEF F
  <2> QED
    BY <1>1, FromMove DEF F
<1>3. From(u, F(a)) \subseteq P
  <2> HIDE DEF P, F
  <2> QED
    BY <1>2, FromWithin
<1>4. Q \in SUBSET Cursors /\ a \in Q
  <2>1. F(a) \in From(u, F(a))
    BY <1>1, FromHere
  <2> QED
    BY <1>1, <2>1
<1>5. ASSUME NEW c \in Q PROVE Hop(t, c) \in Q
  <2>1. Hop(t, c) \in From(t, a) /\ Hop(u, F(c)) \in From(u, F(a))
    <3> HIDE DEF F
    <3> QED
      BY FromMove
  <2> QED
    BY <2>1
<1>6. From(t, a) \subseteq Q
  <2> HIDE DEF Q
  <2> QED
    BY <1>4, <1>5, FromWithin
<1> QED
  BY <1>3, <1>6 DEF Moved

-----------------------------------------------------------------------------
(* A tree that is still being written: the walk comes to the end of the    *)
(* structure without meeting anything it cannot read.                      *)
LEMMA AtEdge ==
  ASSUME NEW t, Legible(t.struct), NEW e \in Cursors, e.off = Len(t.struct)
  PROVE  Stops(t, e) /\ ~Begins(t, e) /\ ~Carries(t, e)
<1>1. NextTag(t.struct, e.off).tag = "end"
  BY DEF NextTag, Legible
<1>2. Hop(t, e) = e
  BY <1>1 DEF Hop, Onto
<1> QED
  BY <1>1, <1>2 DEF Stops, Begins, Carries

LEMMA BeforeEdge ==
  ASSUME NEW t, Legible(t.struct), NEW a \in Cursors, NEW e \in From(t, a), e.off = Len(t.struct),
         NEW c \in From(t, a)
  PROVE  /\ c \in Cursors /\ c.off \in Int /\ e \in Cursors
         /\ c # e => /\ ~Stops(t, c) /\ c.off < e.off
                     /\ NextTag(t.struct, c.off).next \in c.off + 1 .. Len(t.struct)
                     /\ c.off \in 0 .. Len(t.struct) - 1
                     /\ TagAt(t.struct, c.off, NextTag(t.struct, c.off))
                     /\ NextTag(t.struct, c.off).tag = "prop" => Known(t, c.off)
<1>1. c \in Cursors /\ e \in Cursors /\ c.off \in Int /\ e.off \in Int /\ Len(t.struct) \in Nat
  BY FromCursors DEF Cursors, Legible
<1> SUFFICES ASSUME c # e
             PROVE  /\ ~Stops(t, c) /\ c.off < e.off
                    /\ NextTag(t.struct, c.off).next \in c.off + 1 .. Len(t.struct)
                    /\ c.off \in 0 .. Len(t.struct) - 1
                    /\ TagAt(t.struct, c.off, NextTag(t.struct, c.off))
                    /\ NextTag(t.struct, c.off).tag = "prop" => Known(t, c.off)
  BY <1>1
<1>2. From(t, e) = {e}
  BY <1>1, AtEdge, FromStop
<1>3. e \in From(t, c)
  BY <1>2, FromTotal
<1>4. e.off > c.off
  BY <1>1, <1>3, FromOrder
<1>5. ~Stops(t, c)
  BY <1>1, <1>3, FromStop
<1>6. TagAt(t.struct, c.off, NextTag(t.struct, c.off)) /\ c.off \in 0 .. Len(t.struct) - 1
  BY <1>1, <1>5, HopOn
<1>7. NextTag(t.struct, c.off).tag = "prop" => Known(t, c.off)
  <2> SUFFICES ASSUME NextTag(t.struct, c.off).tag = "prop", ~Known(t, c.off) PROVE FALSE
    OBVIOUS
  <2>1. Onto(t, c, NextTag(t.struct, c.off)) = c
    BY DEF Onto
  <2> QED
    BY <1>5, <2>1 DEF Stops, Hop
<1> QED
  BY <1>1, <1>4, <1>5, <1>6, <1>7 DEF TagAt

(* What the words of a property are made of: the place of its name, then   *)
(* words that no walk over the strings changes.                            *)
CleanAt(t, c) ==
  Carries(t, c) => /\ t.struct[c.off + 3][1] = "nameoff"
                 /\ \A k \in c.off + 4 .. NextTag(t.struct, c.off).next : t.struct[k][1] # "nameoff"
Clean(t) == \A c \in Visited(t) : CleanAt(t, c)

(* Some words are added that make one step of the walk.                    *)
LEMMA FromJoinHere ==
  ASSUME NEW t, NEW u, Legible(t.struct), Legible(u.struct), NEW a \in Cursors, NEW e \in From(t, a),
         \A c \in From(t, a) : c.off < e.off => Hop(u, c) = Hop(t, c)
  PROVE  From(u, a) = Upto(t, a, e) \cup From(u, e)
<1>0. PICK o \in Int : o = 0
  OBVIOUS
<1>1. \A c \in Cursors : Further1(c, o) = c
  BY <1>0, FurtherOff
<1>2. From(t, a) \subseteq Cursors
  BY FromCursors
<1>3. \A c \in From(t, a) : Hop(t, c) \in Cursors
  BY <1>2, HopOn
<1>4. \A c \in From(t, a) : c.off < e.off => Hop(u, Further1(c, o)) = Further1(Hop(t, c), o)
  BY <1>1, <1>2, <1>3
<1>5. From(u, Further1(a, o)) = Moved(Upto(t, a, e), o) \cup From(u, Further1(e, o))
  BY <1>4, FromJoin
<1>6. Moved(Upto(t, a, e), o) = Upto(t, a, e)
  BY <1>1, <1>2 DEF Moved, Upto
<1>7. Further1(a, o) = a /\ Further1(e, o) = e
  BY <1>1, <1>2
<1> QED
  BY <1>5, <1>6, <1>7

LEMMA TagHere ==
  ASSUME NEW s, Legible(s), NEW r, Len(r) \in Nat, NEW o \in Int, NextTag(s, o).next >= 0,
         NextTag(s, o).next <= Len(r), \A i \in o + 1 .. NextTag(s, o).next : Alike(s[i], r[i])
  PROVE  NextTag(r, o).tag = NextTag(s, o).tag /\ NextTag(r, o).next = NextTag(s, o).next
<1>0. PICK d \in Int : d = 0
  OBVIOUS
<1> DEFINE w == NextTag(s, o)
<1>1. w.next \in Int /\ o >= 0 /\ o < w.next
  BY NextTagOn
<1>2. o + d = o /\ w.next + d = w.next /\ \A i \in o + 1 .. w.next : i + d = i
  <2> HIDE DEF w
  <2> QED
    BY <1>0, <1>1
<1>3. \A i \in o + 1 .. w.next : Alike(s[i], r[i + d])
  BY <1>2
<1>4. o + d >= 0 /\ w.next + d <= Len(r)
  BY <1>1, <1>2
<1>5. NextTag(r, o + d) = [tag |-> w.tag, next |-> w.next + d]
  BY <1>3, <1>4, TagShift
<1> QED
  BY <1>2, <1>5

(* The words of the tag at c are the same in u, places of names aside.     *)
Kept(t, u, c) == \A i \in c.off + 1 .. NextTag(t.struct, c.off).next :
                   Alike(t.struct[i], u.struct[i])

LEMMA NextKept ==
  ASSUME NEW t, Legible(t.struct), NEW u, Len(u.struct) \in Nat, NEW c \in Cursors,
         NextTag(t.struct, c.off).next >= 0, NextTag(t.struct, c.off).next <= Len(u.struct),
         Kept(t, u, c)
  PROVE  NextTag(u.struct, c.off).next = NextTag(t.struct, c.off).next
<1> DEFINE s == t.struct
           r == u.struct
           o == c.off
<1>1. o \in Int /\ \A i \in o + 1 .. NextTag(s, o).next : Alike(s[i], r[i])
  BY DEF Cursors, Kept
<1>2. NextTag(s, o).next >= 0 /\ NextTag(s, o).next <= Len(r) /\ Len(r) \in Nat /\ Legible(s)
  OBVIOUS
<1> HIDE DEF s, r, o
<1>3. NextTag(r, o).next = NextTag(s, o).next
  BY <1>1, <1>2, TagHere
<1> QED
  BY <1>3 DEF s, r, o

(* u begins as t does, but for k strings in front of those of t, which the *)
(* properties of t pass over.                                              *)
Begun(t, u, k) ==
  /\ Len(t.struct) <= Len(u.struct)
  /\ \A i \in 1 .. Len(t.struct) :
       u.struct[i] = IF t.struct[i][1] = "nameoff" THEN NameOff(t.struct[i][2] + k) ELSE t.struct[i]
  /\ \A j \in DOMAIN t.strings : j + k \in DOMAIN u.strings /\ u.strings[j + k] = t.strings[j]

LEMMA StepKept ==
  ASSUME NEW t, NEW u, Legible(t.struct), Legible(u.struct), NEW k \in Nat, Begun(t, u, k),
         NEW c \in Cursors, ~Stops(t, c), CleanAt(t, c),
         NextTag(t.struct, c.off).tag = "prop" => Known(t, c.off)
  PROVE  /\ Hop(u, c) = Hop(t, c) /\ Stops(u, c) = Stops(t, c)
         /\ Begins(u, c) = Begins(t, c) /\ Carries(u, c) = Carries(t, c)
         /\ Begins(t, c) => Began(u.struct, c) = Began(t.struct, c)
         /\ Carries(t, c) => PropAt(u, c) = PropAt(t, c)
         /\ CleanAt(u, c)
<1> DEFINE w == NextTag(t.struct, c.off)
           m == Len(t.struct)
<1>0. PICK o \in Int : o = 0
  OBVIOUS
<1>1. /\ c.off \in Int /\ TagAt(t.struct, c.off, w) /\ Hop(t, c) \in Cursors
      /\ m \in Nat /\ Len(u.struct) \in Nat /\ m <= Len(u.struct)
  BY HopOn DEF Cursors, Legible, Begun
<1>2. c.off \in 0 .. m - 1 /\ w.next \in c.off + 1 .. m
  BY <1>1 DEF TagAt
<1>3. /\ w.next >= 0 /\ c.off + o >= 0 /\ w.next + o <= Len(u.struct) /\ w.next <= Len(u.struct)
      /\ \A i \in c.off + 1 .. w.next : i \in 1 .. m /\ i + o = i
  <2> HIDE DEF w, m
  <2> QED
    BY <1>0, <1>1, <1>2
<1>4. \A i \in c.off + 1 .. w.next :
        u.struct[i] = IF t.struct[i][1] = "nameoff" THEN NameOff(t.struct[i][2] + k) ELSE t.struct[i]
  BY <1>3 DEF Begun
<1>5. \A i \in c.off + 1 .. w.next : Alike(t.struct[i], u.struct[i])
  <2> SUFFICES ASSUME NEW i \in c.off + 1 .. w.next PROVE Alike(t.struct[i], u.struct[i])
    OBVIOUS
  <2> DEFINE x == t.struct[i]
  <2>1. u.struct[i] = IF x[1] = "nameoff" THEN NameOff(x[2] + k) ELSE x
    BY <1>4
  <2>2. NameOff(x[2] + k)[1] = "nameoff"
    BY DEF NameOff
  <2> HIDE DEF x
  <2>3. Alike(x, u.struct[i])
    BY <2>1, <2>2 DEF Alike
  <2> QED
    BY <2>3 DEF x
<1>6. \A i \in c.off + 1 .. w.next : Alike(t.struct[i], u.struct[i + o])
  BY <1>3, <1>5
<1>7. NextTag(u.struct, c.off).next = w.next
  <2>1. Kept(t, u, c)
    BY <1>5 DEF Kept
  <2> QED
    BY <1>1, <1>3, <2>1, NextKept
<1>8. ASSUME w.tag = "prop"
      PROVE  /\ Carries(t, c)
             /\ t.struct[c.off + 3][1] = "nameoff"
             /\ u.struct[c.off + 3] = NameOff(t.struct[c.off + 3][2] + k)
             /\ \A i \in c.off + 4 .. w.next : t.struct[i][1] # "nameoff" /\ u.struct[i] = t.struct[i]
             /\ \A i \in c.off + 4 .. w.next : i + o = i
             /\ c.off + o + 3 = c.off + 3
  <2> DEFINE n == t.struct[c.off + 2][2]
  <2>1. Carries(t, c)
    BY <1>8 DEF Carries
  <2>2. /\ t.struct[c.off + 3][1] = "nameoff"
        /\ \A i \in c.off + 4 .. w.next : t.struct[i][1] # "nameoff"
    BY <2>1 DEF CleanAt
  <2>3. n \in Nat /\ w.next = c.off + 3 + n
    BY <1>1, <1>8 DEF TagAt
  <2>4. /\ c.off + 3 \in c.off + 1 .. w.next /\ c.off + o + 3 = c.off + 3
        /\ \A i \in c.off + 4 .. w.next : i \in c.off + 1 .. w.next
    <3> HIDE DEF n, w, m
    <3> QED
      BY <1>0, <1>1, <2>3
  <2> QED
    BY <1>3, <1>4, <2>1, <2>2, <2>4
<1>9. NameSame(t, u, c, o)
  <2> SUFFICES ASSUME w.tag = "prop" PROVE NameSame(t, u, c, o)
    BY DEF NameSame
  <2>1. u.struct[c.off + o + 3][2] = t.struct[c.off + 3][2] + k
    BY <1>8 DEF NameOff
  <2>2. t.struct[c.off + 3][2] \in DOMAIN t.strings
    BY DEF Known
  <2>3. \A i \in c.off + 4 .. w.next : u.struct[i + o] = t.struct[i]
    BY <1>8
  <2> QED
    BY <2>1, <2>2, <2>3 DEF NameSame, Begun
<1>10. ReadAlike(t, u, c, o)
  BY <1>1, <1>3, <1>6, <1>9, AlikeThere
<1>11. Further1(c, o) = c /\ Further1(Hop(t, c), o) = Hop(t, c)
  BY <1>0, <1>1, FurtherOff
<1>12. CleanAt(u, c)
  <2> SUFFICES ASSUME Carries(t, c)
               PROVE  /\ u.struct[c.off + 3][1] = "nameoff"
                      /\ \A i \in c.off + 4 .. NextTag(u.struct, c.off).next :
                           u.struct[i][1] # "nameoff"
    BY <1>10, <1>11 DEF ReadAlike, CleanAt
  <2>1. w.tag = "prop"
    BY DEF Carries
  <2> QED
    BY <1>7, <1>8, <2>1 DEF NameOff
<1> QED
  BY <1>10, <1>11, <1>12 DEF ReadAlike

(* The words behind those of t make the walk go from the edge e of t to f, *)
(* where it ends.                                                          *)
LEMMA Grow ==
  ASSUME NEW t, NEW u, Legible(t.struct), Legible(u.struct), NEW k \in Nat, Begun(t, u, k),
         NEW e \in Visited(t), e.off = Len(t.struct), Clean(t), CleanAt(u, e),
         NEW f, f = Hop(u, e), Stops(u, f), ~Begins(u, f), ~Carries(u, f)
  PROVE  /\ f \in Visited(u) /\ Clean(u) /\ \A c \in Visited(u) : Stops(u, c) => c = f
         /\ MeaningOf(u, Visited(u)).nodes
              = MeaningOf(t, Visited(t)).nodes \cup (IF Begins(u, e) THEN {Began(u.struct, e)} ELSE {})
         /\ MeaningOf(u, Visited(u)).props
              = MeaningOf(t, Visited(t)).props \cup (IF Carries(u, e) THEN {PropAt(u, e)} ELSE {})
<1> DEFINE V == Visited(t)
<1>1. /\ Len(t.struct) \in Nat /\ e \in Cursors /\ V \subseteq Cursors
      /\ f \in Cursors /\ Start \in Cursors
  BY FromCursors, HopOn, StartIs DEF Legible, Visited
<1>2. ASSUME NEW c \in V, c # e
      PROVE  /\ c \in Cursors /\ c.off < e.off /\ ~Stops(t, c)
             /\ Hop(u, c) = Hop(t, c) /\ Stops(u, c) = Stops(t, c)
             /\ Begins(u, c) = Begins(t, c) /\ Carries(u, c) = Carries(t, c)
             /\ Begins(t, c) => Began(u.struct, c) = Began(t.struct, c)
             /\ Carries(t, c) => PropAt(u, c) = PropAt(t, c)
             /\ CleanAt(u, c)
  <2>1. /\ c \in Cursors /\ ~Stops(t, c) /\ c.off < e.off
        /\ NextTag(t.struct, c.off).tag = "prop" => Known(t, c.off)
    BY <1>1, <1>2, BeforeEdge DEF Visited
  <2>2. CleanAt(t, c)
    BY DEF Clean
  <2> QED
    BY <2>1, <2>2, StepKept
<1>3. Visited(u) = {c \in V : c.off < e.off} \cup From(u, e)
  <2>1. \A c \in From(t, Start) : c.off < e.off => Hop(u, c) = Hop(t, c)
    BY <1>1, <1>2 DEF Visited, Cursors
  <2> QED
    BY <1>1, <2>1, FromJoinHere DEF Visited, Upto
<1>4. From(u, e) = {e, f}
  BY <1>1, FromStep, FromStop
<1>5. \A c \in V : c = e \/ c.off < e.off
  BY <1>2
<1>6. e.off \in Int /\ ~(e.off < e.off)
  BY <1>1 DEF Cursors
<1>7. Visited(u) = (V \ {e}) \cup {e, f}
  BY <1>3, <1>4, <1>5, <1>6
<1>8. ~Begins(u, f) /\ ~Carries(u, f) /\ ~Begins(t, e) /\ ~Carries(t, e)
  BY <1>1, AtEdge
<1>9. {Began(u.struct, c) : c \in {d \in Visited(u) : Begins(u, d)}}
        = {Began(t.struct, c) : c \in {d \in V : Begins(t, d)}}
            \cup (IF Begins(u, e) THEN {Began(u.struct, e)} ELSE {})
  <2>1. {d \in Visited(u) : Begins(u, d)}
          = {d \in V : Begins(t, d)} \cup (IF Begins(u, e) THEN {e} ELSE {})
    BY <1>2, <1>7, <1>8
  <2>2. \A c \in V : Begins(t, c) => Began(u.struct, c) = Began(t.struct, c)
    BY <1>2, <1>8
  <2> QED
    BY <2>1, <2>2
<1>10. {PropAt(u, c) : c \in {d \in Visited(u) : Carries(u, d)}}
        = {PropAt(t, c) : c \in {d \in V : Carries(t, d)}}
            \cup (IF Carries(u, e) THEN {PropAt(u, e)} ELSE {})
  <2>1. {d \in Visited(u) : Carries(u, d)}
          = {d \in V : Carries(t, d)} \cup (IF Carries(u, e) THEN {e} ELSE {})
    BY <1>2, <1>7, <1>8
  <2>2. \A c \in V : Carries(t, c) => PropAt(u, c) = PropAt(t, c)
    BY <1>2, <1>8
  <2> QED
    BY <2>1, <2>2
<1>11. Clean(u)
  <2>1. CleanAt(u, f)
    BY <1>8 DEF CleanAt
  <2> QED
    BY <1>2, <1>7, <2>1 DEF Clean
<1>12. \A c \in Visited(u) : Stops(u, c) => c = f
  BY <1>2, <1>7 DEF Stops
<1> QED
  BY <1>7, <1>9, <1>10, <1>11, <1>12 DEF MeaningOf

(* Of the cursors on the way there is a first of every kind, and a last.   *)
LEMMA FirstOf ==
  ASSUME NEW t, Legible(t.struct), NEW a \in Cursors, NEW S \in SUBSET From(t, a), S # {}
  PROVE  \E e \in S : \A x \in S : e.off <= x.off /\ x \in From(t, e)
<1> DEFINE O == {x.off - a.off : x \in S}
<1>1. \A x \in S : x \in Cursors /\ x.off \in Int /\ a.off \in Int /\ x.off - a.off \in Nat
  <2> SUFFICES ASSUME NEW x \in S
               PROVE  x \in Cursors /\ x.off \in Int /\ a.off \in Int /\ x.off - a.off \in Nat
    OBVIOUS
  <2>1. x \in Cursors
    BY FromCursors
  <2>2. x.off \in Int /\ a.off \in Int
    BY <2>1 DEF Cursors
  <2>3. x = a \/ x.off > a.off
    BY FromOrder
  <2> QED
    BY <2>1, <2>2, <2>3
<1>2. O \in SUBSET Nat /\ O # {}
  BY <1>1
<1>3. PICK n \in O : \A m \in O : n <= m
  <2> HIDE DEF O
  <2> QED
    BY <1>2, LeastNat
<1>4. PICK e \in S : n = e.off - a.off
  OBVIOUS
<1>5. ASSUME NEW x \in S PROVE e.off <= x.off
  <2>1. x.off - a.off \in O
    OBVIOUS
  <2>2. n <= x.off - a.off
    BY <1>3, <2>1
  <2> HIDE DEF O
  <2> QED
    BY <1>1, <1>4, <2>2
<1> QED
  BY <1>5, FromOffsets

(* The way ends.                                                           *)
LEMMA FromEnds ==
  ASSUME NEW t, Legible(t.struct), NEW a \in Cursors
  PROVE  \E z \in From(t, a) : Stops(t, z)
<1> SUFFICES ASSUME \A z \in From(t, a) : ~Stops(t, z)
             PROVE  FALSE
  OBVIOUS
<1> DEFINE L == Len(t.struct)
           O == {L - x.off : x \in From(t, a)}
<1>0. L \in Nat
  BY AheadOn
<1>1. \A x \in From(t, a) : x \in Cursors /\ x.off \in 0 .. L - 1
                            /\ Hop(t, x) \in From(t, a) /\ Hop(t, x).off > x.off
  BY FromCursors, HopOn, FromMove
<1> HIDE DEF L
<1>2. O \in SUBSET Nat /\ O # {}
  <2>1. a \in From(t, a)
    BY FromHere
  <2>2. \A x \in From(t, a) : L - x.off \in Nat
    BY <1>0, <1>1
  <2> QED
    BY <2>1, <2>2
<1>3. PICK n \in O : \A m \in O : n <= m
  <2> HIDE DEF O
  <2> QED
    BY <1>2, LeastNat
<1>4. PICK e \in From(t, a) : n = L - e.off
  OBVIOUS
<1>5. L - Hop(t, e).off \in O /\ Hop(t, e).off \in 0 .. L - 1 /\ e.off \in 0 .. L - 1 /\ Hop(t, e).off > e.off
  BY <1>1
<1>6. L - e.off <= L - Hop(t, e).off
  BY <1>3, <1>4, <1>5
<1> HIDE DEF O
<1> QED
  BY <1>0, <1>5, <1>6

(* Every cursor but the first is reached from one.                         *)
LEMMA FromBefore ==
  ASSUME NEW t, Legible(t.struct), NEW a \in Cursors, NEW x \in From(t, a), x # a
  PROVE  \E e \in From(t, a) : ~Stops(t, e) /\ Hop(t, e) = x /\ e.off < x.off
<1> DEFINE P == {y \in From(t, a) : y = a \/ \E e \in From(t, a) : ~Stops(t, e) /\ Hop(t, e) = y}
<1>1. P \in SUBSET Cursors /\ a \in P
  BY FromCursors, FromHere
<1>2. ASSUME NEW y \in P PROVE Hop(t, y) \in P
  <2>1. y \in From(t, a)
    OBVIOUS
  <2>2. Hop(t, y) \in From(t, a)
    BY <2>1, FromMove
  <2>3. CASE Stops(t, y)
    BY <2>3 DEF Stops
  <2>4. CASE ~Stops(t, y)
    BY <2>1, <2>2, <2>4
  <2> QED
    BY <2>3, <2>4
<1>3. x \in P
  <2> HIDE DEF P
  <2> QED
    BY <1>1, <1>2, FromWithin
<1>4. PICK e \in From(t, a) : ~Stops(t, e) /\ Hop(t, e) = x
  BY <1>3
<1>5. e \in Cursors
  BY FromCursors
<1> QED
  BY <1>4, <1>5, HopOn

(* Nothing lies between a cursor and the next.                             *)
LEMMA FromNext ==
  ASSUME NEW t, Legible(t.struct), NEW a \in Cursors, NEW x \in From(t, a), NEW y \in From(t, a)
  PROVE  /\ x.off \in Int /\ y.off \in Int
         /\ y.off > x.off => y \in From(t, Hop(t, x)) /\ y.off >= Hop(t, x).off /\ ~Stops(t, x)
         /\ y.off <= Hop(t, x).off => y.off <= x.off \/ y = Hop(t, x)
<1>1. x \in Cursors /\ y \in Cursors /\ Hop(t, x) \in Cursors
  BY FromCursors, HopOn
<1>2. x.off \in Int /\ y.off \in Int /\ Hop(t, x).off \in Int
  BY <1>1 DEF Cursors
<1>3. ASSUME y.off > x.off
      PROVE  y \in From(t, Hop(t, x)) /\ (y = Hop(t, x) \/ y.off > Hop(t, x).off) /\ ~Stops(t, x)
  <2>1. y \in From(t, x) /\ y # x
    BY <1>2, <1>3, FromOffsets
  <2>2. y \in From(t, Hop(t, x))
    BY <1>1, <2>1, FromStep
  <2>3. y = Hop(t, x) \/ y.off > Hop(t, x).off
    BY <1>1, <2>2, FromOrder
  <2>4. ~Stops(t, x)
    BY <1>1, <2>1, FromStop
  <2> QED
    BY <2>2, <2>3, <2>4
<1> QED
  BY <1>2, <1>3

(* What does not change from one cursor to the next is the same in the end. *)
LEMMA FromSame ==
  ASSUME NEW t, Legible(t.struct), NEW a \in Cursors, NEW e \in From(t, a), NEW F,
         \A x \in From(t, a) : x.off < e.off => F[Hop(t, x)] = F[x]
  PROVE  F[e] = F[a]
<1> DEFINE P == {y \in From(t, a) : y.off <= e.off => F[y] = F[a]}
<1>1. P \in SUBSET Cursors /\ a \in P
  BY FromCursors, FromHere
<1>2. ASSUME NEW y \in P PROVE Hop(t, y) \in P
  <2>1. y \in From(t, a) /\ Hop(t, y) \in From(t, a) /\ y \in Cursors /\ Hop(t, y) \in Cursors /\ e \in Cursors
    BY FromMove, FromCursors
  <2>2. y.off \in Int /\ Hop(t, y).off \in Int /\ e.off \in Int
    BY <2>1 DEF Cursors
  <2>3. CASE Stops(t, y)
    BY <2>3 DEF Stops
  <2>4. CASE ~Stops(t, y)
    <3>1. Hop(t, y).off > y.off
      BY <2>1, <2>4, HopOn
    <3>2. ASSUME Hop(t, y).off <= e.off PROVE F[Hop(t, y)] = F[a]
      <4>1. y.off < e.off /\ y.off <= e.off
        BY <2>2, <3>1, <3>2
      <4>2. F[y] = F[a]
        BY <4>1
      <4> QED
        BY <2>1, <4>1, <4>2
    <3> QED
      BY <2>1, <3>2
  <2> QED
    BY <2>3, <2>4
<1>3. e \in P
  <2> HIDE DEF P
  <2> QED
    BY <1>1, <1>2, FromWithin
<1>4. e.off <= e.off
  <2>1. e \in Cursors
    BY FromCursors
  <2>2. e.off \in Int
    BY <2>1 DEF Cursors
  <2> QED
    BY <2>2
<1> QED
  BY <1>3, <1>4

(* And what holds as long as the cursors are before e holds at e.          *)
LEMMA FromHolds ==
  ASSUME NEW t, Legible(t.struct), NEW a \in Cursors, NEW e \in From(t, a), NEW G, a \in G,
         \A x \in From(t, a) : x \in G /\ x.off < e.off => Hop(t, x) \in G
  PROVE  \A x \in From(t, a) : x.off <= e.off => x \in G
<1> DEFINE P == {y \in From(t, a) : y.off <= e.off => y \in G}
<1>1. P \in SUBSET Cursors /\ a \in P
  BY FromCursors, FromHere
<1>2. ASSUME NEW y \in P PROVE Hop(t, y) \in P
  <2>1. y \in From(t, a) /\ Hop(t, y) \in From(t, a) /\ y \in Cursors /\ Hop(t, y) \in Cursors /\ e \in Cursors
    BY FromMove, FromCursors
  <2>2. y.off \in Int /\ Hop(t, y).off \in Int /\ e.off \in Int
    BY <2>1 DEF Cursors
  <2>3. CASE Stops(t, y)
    BY <2>3 DEF Stops
  <2>4. CASE ~Stops(t, y)
    <3>1. Hop(t, y).off > y.off
      BY <2>1, <2>4, HopOn
    <3>2. ASSUME Hop(t, y).off <= e.off PROVE Hop(t, y) \in G
      <4>1. y.off < e.off /\ y.off <= e.off
        BY <2>2, <3>1, <3>2
      <4>2. y \in G
        BY <4>1
      <4> QED
        BY <2>1, <4>1, <4>2
    <3> QED
      BY <2>1, <3>2
  <2> QED
    BY <2>3, <2>4
<1>3. From(t, a) \subseteq P
  <2> HIDE DEF P
  <2> QED
    BY <1>1, <1>2, FromWithin
<1> QED
  BY <1>3
-----------------------------------------------------------------------------
(* The walk over a blob that is read to its end.                           *)
Sane(t) == Legible(t.struct) /\ ReadsThrough(t, Visited(t))

Word(t, c) == NextTag(t.struct, c.off)

At(o, path, in) == [off |-> o, path |-> path, inTree |-> in]

LEMMA Met ==
  ASSUME NEW t, Sane(t), NEW c \in Visited(t)
  PROVE  /\ Legible(t.struct) /\ Len(t.struct) \in Nat
         /\ c \in Cursors /\ c.off \in Int /\ c.path \in Seq(NodeNames) /\ c.inTree \in BOOLEAN
         /\ c = At(c.off, c.path, c.inTree)
         /\ TagAt(t.struct, c.off, Word(t, c))
         /\ c.off \in 0 .. Len(t.struct) - 1 /\ Word(t, c).next \in c.off + 1 .. Len(t.struct)
         /\ Word(t, c).next \in Int /\ Word(t, c).tag \in Tags
         /\ Stops(t, c) <=> Word(t, c).tag = "end"
         /\ Stops(t, c) => ~c.inTree /\ Word(t, c).next = Len(t.struct)
         /\ ~Stops(t, c) => Hop(t, c).off = Word(t, c).next
         /\ Hop(t, c) \in Visited(t)
         /\ \A i \in c.off + 2 .. Word(t, c).next : t.struct[i][1] # "tag"
<1> USE DEF Word
<1>1. Legible(t.struct) /\ c \in Cursors /\ Len(t.struct) \in Nat
  BY FromCursors, AheadOn DEF Sane, Visited
<1>2. /\ Stops(t, c) => EndsWell(t, c) /\ Word(t, c).next = Len(t.struct)
      /\ \A i \in c.off + 2 .. Word(t, c).next : t.struct[i][1] # "tag"
  BY DEF Sane, ReadsThrough
<1>3. c.off \in Int /\ c.path \in Seq(NodeNames) /\ c.inTree \in BOOLEAN /\ c = At(c.off, c.path, c.inTree)
  BY <1>1 DEF Cursors, At
<1>4. Word(t, c).tag = "end" => Stops(t, c)
  BY DEF Stops, Hop, Onto
<1>5. Stops(t, c) => Word(t, c).tag = "end" /\ Word(t, c).next >= 0 /\ ~c.inTree
  BY <1>2 DEF EndsWell
<1>6. TagAt(t.struct, c.off, Word(t, c))
  BY <1>1, <1>3, <1>5, NextTagOn, HopOn
<1>7. Hop(t, c) \in Visited(t)
  BY <1>1, FromMove DEF Visited
<1>8. ~Stops(t, c) => Hop(t, c).off = Word(t, c).next
  BY <1>1, HopOn
<1> QED
  BY <1>1, <1>2, <1>3, <1>4, <1>5, <1>6, <1>7, <1>8 DEF TagAt

(* Where each kind of tag leads.                                           *)
LEMMA MetTag ==
  ASSUME NEW t, Sane(t), NEW c \in Visited(t)
  PROVE  /\ Word(t, c).tag = "begin" =>
              /\ Hop(t, c) = At(Word(t, c).next, Began(t.struct, c), TRUE)
              /\ Began(t.struct, c) \in Seq(NodeNames)
              /\ t.struct[c.off + 2][2] \in NodeNames
         /\ Word(t, c).tag \in {"prop", "nop"} => Hop(t, c) = At(Word(t, c).next, c.path, c.inTree)
         /\ Word(t, c).tag = "prop" => c.inTree /\ Known(t, c.off) /\ Carries(t, c)
         /\ Word(t, c).tag = "endnode" =>
              /\ Hop(t, c) = At(Word(t, c).next, SubSeq(c.path, 1, Len(c.path) - 1), c.path # <<>>)
              /\ c.inTree
<1>1. /\ c.path \in Seq(NodeNames) /\ c.inTree \in BOOLEAN /\ (Stops(t, c) <=> Word(t, c).tag = "end")
      /\ TagAt(t.struct, c.off, Word(t, c)) /\ c = At(c.off, c.path, c.inTree)
  BY Met
<1>2. Hop(t, c) = Onto(t, c, Word(t, c)) /\ (Stops(t, c) <=> Onto(t, c, Word(t, c)) = c)
  BY DEF Hop, Stops, Word
<1>3. ASSUME Word(t, c).tag = "begin"
      PROVE  /\ Hop(t, c) = At(Word(t, c).next, Began(t.struct, c), TRUE)
             /\ Began(t.struct, c) \in Seq(NodeNames) /\ t.struct[c.off + 2][2] \in NodeNames
  <2>1. t.struct[c.off + 2][2] \in NodeNames
    BY <1>1, <1>3 DEF TagAt
  <2>2. Began(t.struct, c) \in Seq(NodeNames)
    BY <1>1, <2>1 DEF Began
  <2> QED
    BY <1>2, <1>3, <2>1, <2>2 DEF Onto, At
<1>4. ASSUME Word(t, c).tag = "nop" PROVE Hop(t, c) = At(Word(t, c).next, c.path, c.inTree)
  BY <1>1, <1>2, <1>4 DEF Onto, At
<1>5. ASSUME Word(t, c).tag = "prop"
      PROVE  /\ Hop(t, c) = At(Word(t, c).next, c.path, c.inTree)
             /\ c.inTree /\ Known(t, c.off) /\ Carries(t, c)
  <2>1. ~Stops(t, c)
    BY <1>1, <1>5
  <2>2. c.inTree /\ Known(t, c.off)
    BY <1>2, <1>5, <2>1 DEF Onto
  <2>3. Carries(t, c)
    BY <1>5, <2>1 DEF Carries, Word
  <2> QED
    BY <1>1, <1>2, <1>5, <2>2, <2>3 DEF Onto, At
<1>6. ASSUME Word(t, c).tag = "endnode"
      PROVE  /\ Hop(t, c) = At(Word(t, c).next, SubSeq(c.path, 1, Len(c.path) - 1), c.path # <<>>)
             /\ c.inTree
  <2>1. ~Stops(t, c)
    BY <1>1, <1>6
  <2>2. c.inTree
    BY <1>2, <1>6, <2>1 DEF Onto
  <2> QED
    BY <1>2, <1>6, <2>2 DEF Onto, At
<1> QED
  BY <1>3, <1>4, <1>5, <1>6

(* Outside the tree there is no path.                                      *)
LEMMA OutsideEmpty ==
  ASSUME NEW t, Sane(t)
  PROVE  \A c \in Visited(t) : ~c.inTree => c.path = <<>>
<1> DEFINE P == {c \in Visited(t) : ~c.inTree => c.path = <<>>}
<1>1. P \in SUBSET Cursors /\ Start \in P
  BY StartIs, FromCursors, FromHere DEF Visited
<1>2. ASSUME NEW c \in P PROVE Hop(t, c) \in P
  <2>1. /\ Hop(t, c) \in Visited(t) /\ Word(t, c).tag \in Tags /\ (Stops(t, c) <=> Word(t, c).tag = "end")
        /\ c.path \in Seq(NodeNames)
    BY Met
  <2>2. CASE Word(t, c).tag = "end"
    BY <2>1, <2>2 DEF Stops
  <2>3. CASE Word(t, c).tag = "begin"
    BY <2>1, <2>3, MetTag DEF At
  <2>4. CASE Word(t, c).tag \in {"prop", "nop"}
    <3>1. Hop(t, c).path = c.path /\ Hop(t, c).inTree = c.inTree
      BY <2>4, MetTag DEF At
    <3> QED
      BY <2>1, <3>1
  <2>5. CASE Word(t, c).tag = "endnode"
    <3>1. Hop(t, c).path = SubSeq(c.path, 1, Len(c.path) - 1) /\ Hop(t, c).inTree = (c.path # <<>>)
      BY <2>5, MetTag DEF At
    <3>2. c.path = <<>> => SubSeq(c.path, 1, Len(c.path) - 1) = <<>>
      OBVIOUS
    <3> QED
      BY <2>1, <3>1, <3>2
  <2> QED
    BY <2>1, <2>2, <2>3, <2>4, <2>5 DEF Tags
<1>3. Legible(t.struct)
  BY DEF Sane
<1>4. Visited(t) \subseteq P
  <2> HIDE DEF P
  <2> QED
    BY <1>1, <1>2, <1>3, FromWithin DEF Visited
<1> QED
  BY <1>4

-----------------------------------------------------------------------------
(* Paths.                                                                  *)
Paths == Seq(NodeNames)
Up(p) == SubSeq(p, 1, Len(p) - 1)

(* The node at q is the one at p or one it is in.                          *)
Heads(q, p) == Len(p) >= Len(q) /\ SubSeq(p, 1, Len(q)) = q

LEMMA UpIs ==
  ASSUME NEW p \in Paths
  PROVE  /\ Up(p) \in Paths /\ Len(p) \in Nat /\ Len(Up(p)) \in Nat
         /\ (p = <<>> <=> Len(p) = 0)
         /\ Len(Up(p)) = IF p = <<>> THEN 0 ELSE Len(p) - 1
         /\ \A i \in 1 .. Len(Up(p)) : Up(p)[i] = p[i]
         /\ Up(<<>>) = <<>> /\ <<>> \in Paths
<1>1. Len(p) \in Nat /\ (p = <<>> <=> Len(p) = 0) /\ \A i \in 1 .. Len(p) : p[i] \in NodeNames
  BY EmptySeq DEF Paths
<1>2. \A i \in 1 .. Len(p) - 1 : p[i] \in NodeNames
  BY <1>1
<1>3. /\ Up(p) \in Paths
      /\ Len(Up(p)) = IF 1 <= Len(p) - 1 THEN Len(p) - 1 - 1 + 1 ELSE 0
      /\ \A i \in 1 .. Len(p) - 1 - 1 + 1 : Up(p)[i] = p[1 + i - 1]
  BY <1>1, <1>2, SubSeqProperties DEF Up, Paths
<1>4. Len(Up(p)) = IF p = <<>> THEN 0 ELSE Len(p) - 1
  BY <1>1, <1>3
<1>5. \A i \in 1 .. Len(Up(p)) : Up(p)[i] = p[i]
  BY <1>1, <1>3, <1>4
<1>6. Up(<<>>) = <<>> /\ <<>> \in Paths
  BY SubSeqEmpty DEF Up, Paths
<1> QED
  BY <1>1, <1>3, <1>4, <1>5, <1>6

LEMMA SamePath ==
  ASSUME NEW p \in Paths, NEW q \in Paths, Len(p) = Len(q), \A i \in 1 .. Len(q) : p[i] = q[i]
  PROVE  p = q
  BY SeqEqual DEF Paths

LEMMA AppendIs ==
  ASSUME NEW p \in Paths, NEW n \in NodeNames
  PROVE  /\ Append(p, n) \in Paths /\ Len(Append(p, n)) = Len(p) + 1 /\ Append(p, n) # <<>>
         /\ \A i \in 1 .. Len(p) : Append(p, n)[i] = p[i]
         /\ Append(p, n)[Len(p) + 1] = n
         /\ Up(Append(p, n)) = p
<1>1. /\ Append(p, n) \in Paths /\ Len(Append(p, n)) = Len(p) + 1 /\ Append(p, n) # <<>>
      /\ \A i \in 1 .. Len(p) : Append(p, n)[i] = p[i]
      /\ Append(p, n)[Len(p) + 1] = n
  BY AppendProperties DEF Paths
<1>2. Len(p) \in Nat
  BY UpIs
<1>3. /\ Up(Append(p, n)) \in Paths /\ Len(Up(Append(p, n))) = Len(p)
      /\ \A i \in 1 .. Len(Up(Append(p, n))) : Up(Append(p, n))[i] = Append(p, n)[i]
  <2> DEFINE r == Append(p, n)
  <2>1. r \in Paths /\ r # <<>> /\ Len(r) = Len(p) + 1
    BY <1>1
  <2> HIDE DEF r
  <2>2. /\ Up(r) \in Paths /\ Len(Up(r)) = IF r = <<>> THEN 0 ELSE Len(r) - 1
        /\ \A i \in 1 .. Len(Up(r)) : Up(r)[i] = r[i]
    BY <2>1, UpIs
  <2>3. Len(Up(r)) = Len(p)
    BY <1>2, <2>1, <2>2
  <2> QED
    BY <2>2, <2>3 DEF r
<1>4. Up(Append(p, n)) = p
  BY <1>1, <1>2, <1>3, SamePath
<1> QED
  BY <1>1, <1>4

LEMMA HeadsIs ==
  ASSUME NEW q \in Paths, NEW p \in Paths
  PROVE  /\ Len(q) \in Nat /\ Len(p) \in Nat
         /\ (Heads(q, p) <=> (Len(q) <= Len(p) /\ \A i \in 1 .. Len(q) : p[i] = q[i]))
<1>1. Len(q) \in Nat /\ Len(p) \in Nat
  BY UpIs
<1>2. ASSUME Len(q) <= Len(p)
      PROVE  SubSeq(p, 1, Len(q)) = q <=> \A i \in 1 .. Len(q) : p[i] = q[i]
  <2> DEFINE b == SubSeq(p, 1, Len(q))
  <2>1. \A i \in 1 .. Len(q) : p[i] \in NodeNames
    BY <1>1, <1>2, ElementOfSeq DEF Paths
  <2>2. /\ b \in Paths /\ Len(b) = IF 1 <= Len(q) THEN Len(q) - 1 + 1 ELSE 0
        /\ \A i \in 1 .. Len(q) - 1 + 1 : b[i] = p[1 + i - 1]
    BY <1>1, <2>1, SubSeqProperties DEF Paths
  <2>3. Len(b) = Len(q) /\ \A i \in 1 .. Len(q) : b[i] = p[i]
    BY <1>1, <2>2
  <2> HIDE DEF b
  <2>4. ASSUME \A i \in 1 .. Len(q) : p[i] = q[i] PROVE b = q
    BY <2>2, <2>3, <2>4, SamePath
  <2>5. ASSUME b = q PROVE \A i \in 1 .. Len(q) : p[i] = q[i]
    BY <2>3, <2>5
  <2>6. b = q <=> \A i \in 1 .. Len(q) : p[i] = q[i]
    BY <2>4, <2>5
  <2> QED
    BY <2>6 DEF b
<1> QED
  BY <1>1, <1>2 DEF Heads

LEMMA HeadsSame == ASSUME NEW p \in Paths PROVE Heads(p, p) /\ Heads(<<>>, p)
<1>1. <<>> \in Paths /\ Len(<<>>) = 0 /\ Len(p) \in Nat
  BY UpIs
<1>2. Heads(p, p)
  BY <1>1, HeadsIs
<1>3. Heads(<<>>, p)
  BY <1>1, HeadsIs
<1> QED
  BY <1>2, <1>3

LEMMA HeadsLonger ==
  ASSUME NEW q \in Paths, NEW p \in Paths, NEW n \in NodeNames
  PROVE  Heads(q, Append(p, n)) <=> (Heads(q, p) \/ q = Append(p, n))
<1> DEFINE r == Append(p, n)
<1>1. /\ r \in Paths /\ Len(r) = Len(p) + 1 /\ Len(p) \in Nat /\ Len(q) \in Nat
      /\ \A i \in 1 .. Len(p) : r[i] = p[i]
  BY AppendIs, UpIs
<1>2. Heads(q, p) <=> (Len(q) <= Len(p) /\ \A i \in 1 .. Len(q) : p[i] = q[i])
  BY HeadsIs
<1>3. Heads(q, r) <=> (Len(q) <= Len(r) /\ \A i \in 1 .. Len(q) : r[i] = q[i])
  BY <1>1, HeadsIs
<1> HIDE DEF r
<1>4. ASSUME Heads(q, p) PROVE Heads(q, r)
  BY <1>1, <1>2, <1>3, <1>4
<1>5. ASSUME q = r PROVE Heads(q, r)
  BY <1>1, <1>5, HeadsSame
<1>6. ASSUME Heads(q, r), Len(q) <= Len(p) PROVE Heads(q, p)
  BY <1>1, <1>2, <1>3, <1>6
<1>7. ASSUME Heads(q, r), Len(q) > Len(p) PROVE q = r
  <2>1. Len(q) = Len(r)
    BY <1>1, <1>3, <1>7
  <2> QED
    BY <1>1, <1>3, <1>7, <2>1, SamePath
<1> QED
  BY <1>1, <1>4, <1>5, <1>6, <1>7 DEF r

LEMMA HeadsUp ==
  ASSUME NEW q \in Paths, NEW p \in Paths
  PROVE  /\ Heads(q, p) /\ p # q => Heads(q, Up(p)) /\ p # <<>>
         /\ q # <<>> => ~Heads(q, Up(q))
         /\ Heads(q, p) /\ Heads(p, q) => p = q
<1>1. /\ Up(p) \in Paths /\ Len(p) \in Nat /\ Len(q) \in Nat
      /\ Len(Up(p)) = IF p = <<>> THEN 0 ELSE Len(p) - 1
      /\ (p = <<>> <=> Len(p) = 0) /\ (q = <<>> <=> Len(q) = 0)
      /\ \A i \in 1 .. Len(Up(p)) : Up(p)[i] = p[i]
  BY UpIs
<1>2. Heads(q, p) <=> (Len(q) <= Len(p) /\ \A i \in 1 .. Len(q) : p[i] = q[i])
  BY HeadsIs
<1>3. Heads(q, Up(p)) <=> (Len(q) <= Len(Up(p)) /\ \A i \in 1 .. Len(q) : Up(p)[i] = q[i])
  BY <1>1, HeadsIs
<1>4. ASSUME Heads(q, p), p # q PROVE Heads(q, Up(p)) /\ p # <<>>
  <2>1. Len(p) # Len(q)
    BY <1>2, <1>4, SamePath
  <2>2. Len(q) <= Len(p) - 1 /\ p # <<>>
    BY <1>1, <1>2, <1>4, <2>1
  <2> QED
    BY <1>1, <1>2, <1>3, <1>4, <2>2
<1>5. ASSUME q # <<>> PROVE ~Heads(q, Up(q))
  <2>1. Up(q) \in Paths /\ Len(Up(q)) = Len(q) - 1
    BY <1>5, UpIs
  <2>2. Heads(q, Up(q)) => Len(q) <= Len(Up(q))
    BY <2>1, HeadsIs
  <2> QED
    BY <1>1, <2>1, <2>2
<1>6. ASSUME Heads(q, p), Heads(p, q) PROVE p = q
  <2>1. Len(p) <= Len(q)
    BY <1>6, HeadsIs
  <2>2. Len(p) = Len(q)
    BY <1>1, <1>2, <1>6, <2>1
  <2> QED
    BY <1>2, <1>6, <2>2, SamePath
<1> QED
  BY <1>4, <1>5, <1>6

LEMMA HeadsDown ==
  ASSUME NEW q \in Paths, NEW p \in Paths, Heads(q, Up(p))
  PROVE  Heads(q, p)
<1>1. /\ Up(p) \in Paths /\ Len(p) \in Nat /\ Len(q) \in Nat
      /\ Len(Up(p)) = IF p = <<>> THEN 0 ELSE Len(p) - 1
      /\ (p = <<>> <=> Len(p) = 0)
      /\ \A i \in 1 .. Len(Up(p)) : Up(p)[i] = p[i]
  BY UpIs
<1>2. Heads(q, p) <=> (Len(q) <= Len(p) /\ \A i \in 1 .. Len(q) : p[i] = q[i])
  BY HeadsIs
<1>3. Len(q) <= Len(Up(p)) /\ \A i \in 1 .. Len(q) : Up(p)[i] = q[i]
  BY <1>1, HeadsIs
<1>4. Len(Up(p)) <= Len(p) /\ Len(Up(p)) \in Nat
  BY <1>1
<1>5. \A i \in 1 .. Len(q) : i \in 1 .. Len(Up(p))
  BY <1>1, <1>3, <1>4
<1> QED
  BY <1>1, <1>2, <1>3, <1>4, <1>5

-----------------------------------------------------------------------------
(* Nodes.  Between the begin tag c of a node and d the walk never leaves   *)
(* the node.                                                               *)
InNode(t, c, d) ==
  /\ d \in From(t, Hop(t, c))
  /\ \A x \in From(t, Hop(t, c)) :
       x.off <= d.off => x.inTree /\ Heads(Began(t.struct, c), x.path)

LEMMA VisitedFrom ==
  ASSUME NEW t, Sane(t), NEW c \in Visited(t)
  PROVE  /\ From(t, c) \subseteq Visited(t) /\ From(t, Hop(t, c)) \subseteq Visited(t)
         /\ From(t, Hop(t, c)) \subseteq From(t, c) /\ c \in From(t, c)
         /\ Hop(t, c) \in From(t, Hop(t, c)) /\ Hop(t, c) \in Cursors
<1>1. c \in Cursors /\ Hop(t, c) \in Cursors /\ Legible(t.struct)
  BY Met
<1> QED
  BY <1>1, FromFrom, FromMove, FromHere DEF Visited

LEMMA InsideOn ==
  ASSUME NEW t, Sane(t), NEW c \in Visited(t), NEW d, InNode(t, c, d),
         Hop(t, d).inTree, Heads(Began(t.struct, c), Hop(t, d).path)
  PROVE  InNode(t, c, Hop(t, d))
<1> DEFINE a == Hop(t, c)
<1>1. a \in Cursors /\ Legible(t.struct) /\ d \in From(t, a)
  BY VisitedFrom DEF InNode, Sane
<1>2. Hop(t, d) \in From(t, a)
  BY <1>1, FromMove
<1>3. ASSUME NEW x \in From(t, a), x.off <= Hop(t, d).off
      PROVE  x.inTree /\ Heads(Began(t.struct, c), x.path)
  <2>1. x.off <= d.off \/ x = Hop(t, d)
    BY <1>1, <1>3, FromNext
  <2> QED
    BY <1>1, <2>1 DEF InNode
<1> QED
  BY <1>2, <1>3 DEF InNode

LEMMA InsideFirst ==
  ASSUME NEW t, Sane(t), NEW c \in Visited(t), Begins(t, c)
  PROVE  InNode(t, c, Hop(t, c)) /\ Began(t.struct, c) \in Paths
<1>1. /\ Hop(t, c) = At(Word(t, c).next, Began(t.struct, c), TRUE)
      /\ Began(t.struct, c) \in Seq(NodeNames)
  BY MetTag DEF Begins, Word
<1>2. Hop(t, c).path = Began(t.struct, c) /\ Hop(t, c).inTree = TRUE
  BY <1>1 DEF At
<1>3. Hop(t, c) \in From(t, Hop(t, c)) /\ Hop(t, c) \in Cursors /\ Legible(t.struct)
  BY VisitedFrom DEF Sane
<1>4. ASSUME NEW x \in From(t, Hop(t, c)), x.off <= Hop(t, c).off PROVE x = Hop(t, c)
  <2>1. x.off \in Int /\ Hop(t, c).off \in Int
    BY <1>3, FromNext
  <2> QED
    BY <1>3, <1>4, <2>1, FromOrder
<1>5. Heads(Began(t.struct, c), Hop(t, c).path)
  BY <1>1, <1>2, HeadsSame DEF Paths
<1> QED
  BY <1>1, <1>2, <1>3, <1>4, <1>5 DEF InNode, Paths

(* Who is in the tree is in all the nodes its path names.                  *)
LEMMA Enclosed ==
  ASSUME NEW t, Sane(t), NEW d \in Visited(t), d.inTree, NEW q \in Paths, Heads(q, d.path)
  PROVE  \E c \in Visited(t) : Begins(t, c) /\ Began(t.struct, c) = q /\ InNode(t, c, d)
<1> DEFINE In(x, r) == \E c \in Visited(t) : Begins(t, c) /\ Began(t.struct, c) = r /\ InNode(t, c, x)
           P == {x \in Visited(t) : x.inTree => \A r \in Paths : Heads(r, x.path) => In(x, r)}
<1>1. P \in SUBSET Cursors /\ Start \in P /\ Legible(t.struct)
  BY StartIs, FromCursors, FromHere DEF Visited, Sane
<1>2. ASSUME NEW x \in P PROVE Hop(t, x) \in P
  <2>1. /\ Hop(t, x) \in Visited(t) /\ Word(t, x).tag \in Tags
        /\ (Stops(t, x) <=> Word(t, x).tag = "end")
        /\ x.path \in Paths /\ x.inTree \in BOOLEAN
    BY Met DEF Paths
  <2> SUFFICES ASSUME Hop(t, x).inTree, NEW r \in Paths, Heads(r, Hop(t, x).path)
               PROVE  In(Hop(t, x), r)
    BY <2>1
  <2>2. ASSUME x.inTree, Heads(r, x.path) PROVE In(Hop(t, x), r)
    <3>1. PICK c \in Visited(t) : Begins(t, c) /\ Began(t.struct, c) = r /\ InNode(t, c, x)
      BY <2>2
    <3>2. InNode(t, c, Hop(t, x))
      BY <3>1, InsideOn
    <3> QED
      BY <3>1, <3>2
  <2>3. CASE Word(t, x).tag = "end"
    <3>1. Hop(t, x) = x
      BY <2>1, <2>3 DEF Stops
    <3> QED
      BY <2>2, <3>1
  <2>4. CASE Word(t, x).tag \in {"prop", "nop"}
    <3>1. Hop(t, x) = At(Word(t, x).next, x.path, x.inTree)
      BY <2>1, <2>4, MetTag
    <3>2. Hop(t, x).path = x.path /\ x.inTree
      BY <3>1 DEF At
    <3> QED
      BY <2>2, <3>2
  <2>5. CASE Word(t, x).tag = "endnode"
    <3>1. Hop(t, x).path = Up(x.path) /\ x.inTree
      BY <2>5, MetTag DEF At, Up
    <3>2. Heads(r, x.path)
      BY <2>1, <3>1, HeadsDown
    <3> QED
      BY <2>2, <3>1, <3>2
  <2>6. CASE Word(t, x).tag = "begin"
    <3> DEFINE b == Began(t.struct, x)
    <3>1. Begins(t, x) /\ t.struct[x.off + 2][2] \in NodeNames /\ Hop(t, x).path = b
      BY <2>6, MetTag DEF Begins, Word, At
    <3>2. InNode(t, x, Hop(t, x)) /\ b \in Paths
      BY <3>1, InsideFirst
    <3>3. CASE r = b
      BY <3>1, <3>2, <3>3
    <3>4. CASE r # b
      <4>1. CASE x.inTree
        <5>1. b = Append(x.path, t.struct[x.off + 2][2])
          BY <4>1 DEF Began
        <5>2. Heads(r, x.path)
          BY <2>1, <3>1, <3>4, <5>1, HeadsLonger
        <5> QED
          BY <2>2, <4>1, <5>2
      <4>2. CASE ~x.inTree
        <5>1. b = <<>>
          BY <4>2 DEF Began
        <5>2. Heads(r, b) /\ Heads(b, r)
          BY <3>1, <5>1, HeadsSame
        <5> QED
          BY <3>2, <3>4, <5>2, HeadsUp
      <4> QED
        BY <4>1, <4>2, <2>1
    <3> QED
      BY <3>3, <3>4
  <2> QED
    BY <2>1, <2>3, <2>4, <2>5, <2>6 DEF Tags
<1>3. Visited(t) \subseteq P
  <2> HIDE DEF P
  <2> QED
    BY <1>1, <1>2, FromWithin DEF Visited
<1> QED
  BY <1>3

(* The end tag e of the node that begins at c.                             *)
Closes(t, c, e) == /\ InNode(t, c, e) /\ Word(t, e).tag = "endnode"
                   /\ e.path = Began(t.struct, c)

LEMMA ClosesOnce ==
  ASSUME NEW t, Sane(t), NEW c \in Visited(t), Begins(t, c)
  PROVE  \E e \in Visited(t) : Closes(t, c, e)
<1> DEFINE a == Hop(t, c)
           q == Began(t.struct, c)
           Good(x) == x.inTree /\ Heads(q, x.path)
           S == {x \in From(t, a) : ~Good(x)}
<1>1. /\ a \in Cursors /\ Legible(t.struct) /\ From(t, a) \subseteq Visited(t)
      /\ InNode(t, c, a) /\ q \in Paths /\ a \in From(t, a)
  BY VisitedFrom, InsideFirst DEF Sane
<1>2. S # {}
  <2>1. PICK z \in From(t, a) : Stops(t, z)
    BY <1>1, FromEnds
  <2>2. ~z.inTree
    BY <1>1, <2>1, Met
  <2> QED
    BY <2>2
<1>3. PICK f \in S : \A x \in S : f.off <= x.off
  <2>1. S \in SUBSET From(t, a)
    OBVIOUS
  <2> HIDE DEF S, a
  <2> QED
    BY <1>1, <1>2, <2>1, FirstOf
<1>4. Good(a)
  BY <1>1, FromNext DEF InNode
<1>5. PICK e \in From(t, a) : ~Stops(t, e) /\ Hop(t, e) = f /\ e.off < f.off
  BY <1>1, <1>3, <1>4, FromBefore
<1>6. ASSUME NEW x \in From(t, a), x.off <= e.off PROVE Good(x)
  <2>1. x.off \in Int /\ e.off \in Int /\ f.off \in Int
    BY <1>1, FromNext
  <2>2. ~(f.off <= x.off)
    BY <1>5, <1>6, <2>1
  <2> QED
    BY <1>3, <2>2
<1>7. Good(e)
  BY <1>1, <1>6, FromNext
<1>8. /\ e \in Visited(t) /\ e.path \in Paths /\ Word(t, e).tag \in Tags /\ Word(t, e).tag # "end"
  BY <1>1, <1>5, Met DEF Paths
<1>9. ~Good(f)
  OBVIOUS
<1>10. Word(t, e).tag # "begin"
  <2> SUFFICES ASSUME Word(t, e).tag = "begin" PROVE FALSE
    OBVIOUS
  <2>1. f.path = Append(e.path, t.struct[e.off + 2][2]) /\ f.inTree /\ t.struct[e.off + 2][2] \in NodeNames
    BY <1>5, <1>7, <1>8, MetTag DEF At, Began
  <2>2. Heads(q, f.path)
    BY <1>1, <1>7, <1>8, <2>1, HeadsLonger
  <2> QED
    BY <1>9, <2>1, <2>2
<1>11. Word(t, e).tag \notin {"prop", "nop"}
  <2> SUFFICES ASSUME Word(t, e).tag \in {"prop", "nop"} PROVE FALSE
    OBVIOUS
  <2>1. f.path = e.path /\ f.inTree = e.inTree
    BY <1>5, <1>8, MetTag DEF At
  <2> QED
    BY <1>7, <1>9, <2>1
<1>12. Word(t, e).tag = "endnode"
  BY <1>8, <1>10, <1>11 DEF Tags
<1>13. e.path = q
  <2> SUFFICES ASSUME e.path # q PROVE FALSE
    OBVIOUS
  <2>1. f.path = Up(e.path) /\ f.inTree = (e.path # <<>>)
    BY <1>5, <1>8, <1>12, MetTag DEF At, Up
  <2>2. Heads(q, Up(e.path)) /\ e.path # <<>>
    BY <1>1, <1>7, <1>8, HeadsUp
  <2> QED
    BY <1>9, <2>1, <2>2
<1>14. InNode(t, c, e)
  BY <1>6 DEF InNode
<1> QED
  BY <1>8, <1>12, <1>13, <1>14 DEF Closes

-----------------------------------------------------------------------------
(* Blobs as compilers write them, and as libfdt keeps them.                *)
Notes(t) == {Note(t, c) : c \in Visited(t)}
Whole(t) == Sane(t) /\ Tidy(Notes(t))

NameAt(t, c) == t.strings[t.struct[c.off + 3][2]]

LEMMA WholeIs == ASSUME NEW t, Legible(t.struct) PROVE WellFormed(t) <=> Whole(t)
  BY TrailIs DEF WellFormed, Whole, Sane, Notes

LEMMA NoteIs ==
  ASSUME NEW t, Sane(t), NEW c \in Visited(t)
  PROVE  /\ Note(t, c) \in Notes(t)
         /\ Note(t, c).off = c.off /\ Note(t, c).tag = Word(t, c).tag
         /\ Word(t, c).tag = "begin" => Note(t, c).path = Began(t.struct, c)
         /\ Word(t, c).tag # "begin" => Note(t, c).path = c.path
         /\ Word(t, c).tag = "prop" => /\ Note(t, c).prop = PropAt(t, c)
                                       /\ Note(t, c).prop[2] = NameAt(t, c)
<1>1. Word(t, c).tag = "prop" => Carries(t, c)
  BY MetTag
<1>2. PropAt(t, c)[2] = NameAt(t, c)
  BY DEF PropAt, NameAt
<1> QED
  BY <1>1, <1>2 DEF Note, Notes, Begins, Word

LEMMA SameOff ==
  ASSUME NEW t, Sane(t), NEW c \in Visited(t), NEW d \in Visited(t), c.off = d.off
  PROVE  c = d
  BY StartIs, FromOffsets DEF Visited, Sane

LEMMA OneNode ==
  ASSUME NEW t, Whole(t), NEW c \in Visited(t), NEW d \in Visited(t),
         Begins(t, c), Begins(t, d), Began(t.struct, c) = Began(t.struct, d)
  PROVE  c = d
<1> DEFINE x == Note(t, c)
           y == Note(t, d)
<1>1. /\ x \in Notes(t) /\ y \in Notes(t) /\ x.tag = "begin" /\ y.tag = "begin" /\ x.path = y.path
      /\ x.off = c.off /\ y.off = d.off
  BY NoteIs DEF Begins, Word, Whole
<1> HIDE DEF x, y
<1>2. x = y
  BY <1>1 DEF Whole, Tidy
<1> QED
  BY <1>1, <1>2, SameOff DEF Whole

LEMMA OneProp ==
  ASSUME NEW t, Whole(t), NEW c \in Visited(t), NEW d \in Visited(t),
         Word(t, c).tag = "prop", Word(t, d).tag = "prop", c.path = d.path,
         NameAt(t, c) = NameAt(t, d)
  PROVE  c = d
<1> DEFINE x == Note(t, c)
           y == Note(t, d)
<1>1. /\ x \in Notes(t) /\ y \in Notes(t) /\ x.tag = "prop" /\ y.tag = "prop" /\ x.path = y.path
      /\ x.off = c.off /\ y.off = d.off /\ x.prop[2] = y.prop[2]
  BY NoteIs DEF Whole
<1> HIDE DEF x, y
<1>2. x = y
  BY <1>1 DEF Whole, Tidy
<1> QED
  BY <1>1, <1>2, SameOff DEF Whole

LEMMA RootFirst ==
  ASSUME NEW t, Whole(t), NEW c \in Visited(t), Begins(t, c), Began(t.struct, c) = <<>>
  PROVE  c.off = 0
<1>1. Note(t, c) \in Notes(t) /\ Note(t, c).tag = "begin" /\ Note(t, c).path = <<>> /\ Note(t, c).off = c.off
  BY NoteIs DEF Begins, Word, Whole
<1> QED
  BY <1>1 DEF Whole, Tidy

(* The node a property is of.                                              *)
LEMMA PropFront ==
  ASSUME NEW t, Whole(t), NEW c \in Visited(t), Word(t, c).tag = "prop"
  PROVE  \E d \in Visited(t) :
           /\ Begins(t, d) /\ Began(t.struct, d) = c.path /\ d.off < c.off
           /\ \A x \in Visited(t) : d.off < x.off /\ x.off <= c.off => Word(t, x).tag \in {"prop", "nop"}
<1>1. /\ Note(t, c) \in Notes(t) /\ Note(t, c).tag = "prop" /\ Note(t, c).path = c.path
      /\ Note(t, c).off = c.off
  BY NoteIs DEF Whole
<1>2. PICK y \in Notes(t) :
        /\ y.tag = "begin" /\ y.path = c.path /\ y.off < c.off
        /\ \A z \in Notes(t) : y.off < z.off /\ z.off <= c.off => z.tag \in {"prop", "nop"}
  BY <1>1 DEF Whole, Tidy
<1>3. PICK d \in Visited(t) : y = Note(t, d)
  BY DEF Notes
<1>4. Word(t, d).tag = "begin" /\ Note(t, d).off = d.off /\ Begins(t, d) /\ Began(t.struct, d) = c.path
  BY <1>2, <1>3, NoteIs DEF Whole, Begins, Word
<1>5. ASSUME NEW x \in Visited(t), d.off < x.off, x.off <= c.off
      PROVE  Word(t, x).tag \in {"prop", "nop"}
  <2>1. Note(t, x) \in Notes(t) /\ Note(t, x).off = x.off /\ Note(t, x).tag = Word(t, x).tag
    BY NoteIs DEF Whole
  <2> QED
    BY <1>2, <1>3, <1>4, <1>5, <2>1
<1> QED
  BY <1>2, <1>3, <1>4, <1>5

(* The cursors between the begin tag and the end tag of a node are those   *)
(* of the node and of what is in it.                                       *)
LEMMA NodeSpan ==
  ASSUME NEW t, Whole(t), NEW c \in Visited(t), Begins(t, c), NEW e \in Visited(t), Closes(t, c, e),
         NEW b, b = Hop(t, e)
  PROVE  LET q == Began(t.struct, c)
         IN  /\ b \in From(t, c) /\ b \in Visited(t) /\ e.off < b.off /\ c.off < e.off
             /\ c.off \in Int /\ e.off \in Int /\ b.off \in Int
             /\ b.path = c.path /\ (b.inTree <=> c.inTree) /\ q \in Paths
             /\ \A x \in Visited(t) : c.off < x.off /\ x.off < b.off => x.inTree /\ Heads(q, x.path)
             /\ \A x \in Visited(t) : x.inTree /\ Heads(q, x.path) => c.off < x.off /\ x.off < b.off
<1> DEFINE q == Began(t.struct, c)
           a == Hop(t, c)
<1>0. Sane(t) /\ Legible(t.struct)
  BY DEF Whole, Sane
<1>1. /\ a \in Cursors /\ From(t, a) \subseteq Visited(t) /\ From(t, a) \subseteq From(t, c)
      /\ a \in From(t, a) /\ q \in Paths /\ c \in Cursors
      /\ c.off \in Int /\ a.off \in Int /\ a.off > c.off
  <2>1. ~Stops(t, c)
    BY <1>0, Met DEF Begins, Word
  <2>2. a.off > c.off
    BY <1>0, <2>1, Met, HopOn
  <2> QED
    BY <1>0, <2>2, VisitedFrom, InsideFirst, Met DEF Cursors
<1>2. /\ e \in From(t, a) /\ e.path = q /\ Word(t, e).tag = "endnode"
      /\ \A x \in From(t, a) : x.off <= e.off => x.inTree /\ Heads(q, x.path)
  BY DEF Closes, InNode
<1>3. /\ b = At(Word(t, e).next, Up(q), q # <<>>) /\ b \in From(t, a) /\ b.off = Word(t, e).next
      /\ b.off > e.off /\ e.off \in Int /\ b.off \in Int /\ e.off >= a.off
  <2>1. b = At(Word(t, e).next, Up(q), q # <<>>)
    BY ZenonT(60), <1>0, <1>2, MetTag DEF Up
  <2>2. b \in From(t, a)
    BY <1>0, <1>1, <1>2, FromMove
  <2>3. b.off = Word(t, e).next
    BY <2>1 DEF At
  <2>4. Word(t, e).next \in e.off + 1 .. Len(t.struct) /\ e.off \in Int /\ Len(t.struct) \in Nat
    BY <1>0, Met
  <2>5. e = a \/ e.off > a.off
    BY <1>0, <1>1, <1>2, FromOrder
  <2> HIDE DEF a
  <2> QED
    BY <1>1, <2>1, <2>2, <2>3, <2>4, <2>5
<1>4. b.path = c.path /\ (b.inTree <=> c.inTree)
  <2>1. b.path = Up(q) /\ b.inTree = (q # <<>>)
    BY <1>3 DEF At
  <2>2. CASE c.inTree
    <3>1. q = Append(c.path, t.struct[c.off + 2][2]) /\ t.struct[c.off + 2][2] \in NodeNames /\ c.path \in Paths
      BY <1>0, <2>2, MetTag, Met DEF Began, Begins, Word, Paths
    <3> HIDE DEF q
    <3> QED
      BY <2>1, <2>2, <3>1, AppendIs
  <2>3. CASE ~c.inTree
    <3>1. q = <<>> /\ c.path = <<>>
      BY <1>0, <2>3, OutsideEmpty DEF Began
    <3> HIDE DEF q
    <3> QED
      BY <1>1, <2>1, <2>3, <3>1, UpIs
  <2> QED
    BY <2>2, <2>3
<1>5. ASSUME NEW x \in Visited(t), c.off < x.off, x.off < b.off
      PROVE  x.inTree /\ Heads(q, x.path)
  <2>1. x \in From(t, a)
    <3>1. Start \in Cursors /\ Visited(t) = From(t, Start)
      BY StartIs DEF Visited
    <3> QED
      BY <1>0, <1>5, <3>1, FromNext
  <2>2. x.off <= e.off \/ x = b
    <3>1. x.off \in Int /\ (x.off <= Hop(t, e).off => x.off <= e.off \/ x = Hop(t, e))
      BY <1>0, <1>1, <1>2, <2>1, FromNext
    <3> QED
      BY <1>3, <1>5, <3>1
  <2>3. x # b
    BY <1>3, <1>5
  <2> QED
    BY <1>2, <2>1, <2>2, <2>3
<1>6. ASSUME NEW x \in Visited(t), x.inTree, Heads(q, x.path)
      PROVE  c.off < x.off /\ x.off < b.off
  <2>1. PICK f \in Visited(t) : Begins(t, f) /\ Began(t.struct, f) = q /\ InNode(t, f, x)
    BY <1>0, <1>1, <1>6, Enclosed
  <2>2. f = c
    BY <2>1, OneNode
  <2>3. /\ x \in From(t, a)
        /\ \A y \in From(t, a) : y.off <= x.off => y.inTree /\ Heads(q, y.path)
    BY <2>1, <2>2 DEF InNode
  <2>4. ~(b.inTree /\ Heads(q, b.path))
    <3>1. b.path = Up(q) /\ b.inTree = (q # <<>>)
      BY <1>3 DEF At
    <3> QED
      BY ZenonT(60), <1>1, <3>1, HeadsUp
  <2>5. ~(b.off <= x.off)
    BY <1>3, <2>3, <2>4
  <2>6. x = a \/ x.off > a.off
    BY <1>0, <1>1, <2>3, FromOrder
  <2>7. x.off \in Int
    BY <1>0, Met
  <2> HIDE DEF a, q
  <2> QED
    BY <1>1, <1>3, <2>5, <2>6, <2>7
<1> HIDE DEF q, a
<1>7. b \in From(t, c) /\ b \in Visited(t) /\ c.off < e.off
  BY <1>1, <1>3
<1> QED
  BY <1>1, <1>3, <1>4, <1>5, <1>6, <1>7 DEF q

-----------------------------------------------------------------------------
(* Where tags are.  The tags visited lie one behind the other ...          *)
LEMMA Tiles ==
  ASSUME NEW t, Sane(t), NEW o \in 0 .. Len(t.struct) - 1
  PROVE  \E x \in Visited(t) : x.off <= o /\ o < Word(t, x).next
<1> DEFINE S == {x \in From(t, Start) : x.off > o}
<1>1. Legible(t.struct) /\ Start \in Cursors /\ Start.off = 0 /\ Visited(t) = From(t, Start)
  BY StartIs DEF Sane, Visited
<1>2. o \in Int /\ o >= 0 /\ Len(t.struct) \in Nat /\ o < Len(t.struct)
  BY <1>1 DEF Legible
<1>3. CASE S = {}
  <2>1. PICK z \in From(t, Start) : Stops(t, z)
    BY <1>1, FromEnds
  <2>2. Word(t, z).next = Len(t.struct) /\ z.off \in Int
    BY <1>1, <2>1, Met
  <2>3. ~(z.off > o)
    BY <1>3
  <2> QED
    BY <1>1, <1>2, <2>2, <2>3
<1>4. CASE S # {}
  <2>1. PICK f \in S : \A x \in S : f.off <= x.off
    <3>1. S \in SUBSET From(t, Start)
      OBVIOUS
    <3> HIDE DEF S
    <3> QED
      BY <1>1, <1>4, <3>1, FirstOf
  <2>2. f \in From(t, Start) /\ f.off > o /\ f # Start
    BY <1>1, <1>2
  <2>3. PICK e \in From(t, Start) : ~Stops(t, e) /\ Hop(t, e) = f /\ e.off < f.off
    BY <1>1, <2>2, FromBefore
  <2>4. Word(t, e).next = f.off /\ e.off \in Int /\ f.off \in Int
    BY <1>1, <2>2, <2>3, Met
  <2>5. e.off <= o
    <3>1. ~(e.off > o)
      <4> SUFFICES ASSUME e.off > o PROVE FALSE
        OBVIOUS
      <4>1. e \in S
        OBVIOUS
      <4>2. f.off <= e.off
        BY <2>1, <4>1
      <4> QED
        BY <2>3, <2>4, <4>2
    <3> QED
      BY <1>2, <2>4, <3>1
  <2> QED
    BY <1>1, <2>2, <2>3, <2>4, <2>5
<1> QED
  BY <1>3, <1>4

(* ... so that every tag there is is visited.                              *)
LEMMA TagsMet ==
  ASSUME NEW t, Sane(t), NEW o \in Int, NextTag(t.struct, o).next >= 0
  PROVE  \E x \in Visited(t) : x.off = o
<1>1. TagAt(t.struct, o, NextTag(t.struct, o)) /\ Len(t.struct) \in Nat
  BY NextTagOn DEF Sane
<1>2. o \in 0 .. Len(t.struct) - 1 /\ t.struct[o + 1] = Tag(NextTag(t.struct, o).tag)
  BY <1>1 DEF TagAt
<1>3. t.struct[o + 1][1] = "tag"
  BY <1>2 DEF Tag
<1>4. PICK x \in Visited(t) : x.off <= o /\ o < Word(t, x).next
  BY <1>2, Tiles
<1>5. x.off \in Int /\ Word(t, x).next \in Int /\ \A i \in x.off + 2 .. Word(t, x).next : t.struct[i][1] # "tag"
  BY Met
<1>6. ~(o > x.off)
  <2> SUFFICES ASSUME o > x.off PROVE FALSE
    OBVIOUS
  <2>1. o + 1 \in x.off + 2 .. Word(t, x).next
    BY <1>4, <1>5
  <2> QED
    BY <1>3, <1>5, <2>1
<1> QED
  BY <1>4, <1>5, <1>6

LEMMA BeginsHere ==
  ASSUME NEW t, Sane(t), NEW o \in Int, NextTag(t.struct, o).tag = "begin"
  PROVE  \E c \in Visited(t) : c.off = o /\ Begins(t, c) /\ Word(t, c).tag = "begin"
<1>1. NextTag(t.struct, o).next >= 0
  BY NextTagOn DEF Sane, Tags
<1>2. PICK x \in Visited(t) : x.off = o
  BY <1>1, TagsMet
<1> QED
  BY <1>2 DEF Begins, Word

LEMMA CheckTagMet ==
  ASSUME NEW t, Sane(t), NEW c \in Visited(t), NEW kind
  PROVE  CheckTag(t.struct, c.off, kind) = IF Word(t, c).tag = kind THEN Word(t, c).next ELSE BADOFFSET
  BY DEF CheckTag, Word

(* Look-ups with an offset where no node begins fail.                      *)
LEMMA NotBegun ==
  ASSUME NEW t, Sane(t), NEW o \in Int, NextTag(t.struct, o).tag # "begin", NEW name
  PROVE  /\ NodeEnd(t.struct, o) < 0 /\ PropOffset(t, o, name) = BADOFFSET
         /\ CheckTag(t.struct, o, "begin") = BADOFFSET
         /\ SubnodeOffset(t.struct, o, name) = (IF o < 0 THEN o ELSE BADOFFSET)
<1> DEFINE s == t.struct
           m == [off |-> o, depth |-> 0]
           n == [off |-> BADOFFSET, depth |-> 0]
<1>1. Legible(s) /\ CheckTag(s, o, "begin") = BADOFFSET /\ BADOFFSET < 0 /\ BADOFFSET \in Int
  BY DEF Sane, CheckTag, BADOFFSET
<1>2. m \in NodesMet /\ n \in NodesMet /\ m.off = o /\ m.depth = 0 /\ n.off = BADOFFSET /\ n.depth = 0
  BY <1>1 DEF NodesMet
<1>3. o >= 0 => NextNode(s, o, 0) = n
  BY <1>1, ClimbIs
<1> HIDE DEF m, n
<1>4. NodeEnd(s, o) = Pass(s)[m] /\ Passes(s, Pass(s))
  BY <1>1, PassIs DEF m
<1>5. /\ Pass(s)[m] = IF o < 0 THEN o ELSE Pass(s)[NextNode(s, o, 0)]
      /\ Pass(s)[n] = BADOFFSET
  <2>1. /\ Pass(s)[m] = IF m.off < 0 \/ m.depth < 0 THEN m.off ELSE Pass(s)[NextNode(s, m.off, m.depth)]
        /\ Pass(s)[n] = IF n.off < 0 \/ n.depth < 0 THEN n.off ELSE Pass(s)[NextNode(s, n.off, n.depth)]
    BY <1>2, <1>4 DEF Passes
  <2> QED
    BY <1>1, <1>2, <2>1
<1>6. SubnodeOffset(s, o, name) = Find(s, name)[m] /\ Finds(s, name, Find(s, name))
  BY <1>1, FindIs DEF m
<1>7. /\ Find(s, name)[m] = IF o < 0 THEN o ELSE Find(s, name)[NextNode(s, o, 0)]
      /\ Find(s, name)[n] = BADOFFSET
  <2>1. /\ Find(s, name)[m] = IF m.depth < 0 THEN NOTFOUND ELSE IF m.off < 0 THEN m.off
                              ELSE IF m.depth = 1 /\ NameMatches(s, m.off, name) THEN m.off
                              ELSE Find(s, name)[NextNode(s, m.off, m.depth)]
        /\ Find(s, name)[n] = IF n.depth < 0 THEN NOTFOUND ELSE IF n.off < 0 THEN n.off
                              ELSE IF n.depth = 1 /\ NameMatches(s, n.off, name) THEN n.off
                              ELSE Find(s, name)[NextNode(s, n.off, n.depth)]
    BY <1>2, <1>6 DEF Finds
  <2> QED
    BY <1>1, <1>2, <2>1
<1>8. PropOffset(t, o, name) = BADOFFSET
  BY <1>1, SeekIs
<1> HIDE DEF s
<1> QED
  BY <1>1, <1>3, <1>4, <1>5, <1>6, <1>7, <1>8 DEF s

-----------------------------------------------------------------------------
(* What the walks read.                                                    *)
LEMMA SkipReads ==
  ASSUME NEW t, Sane(t), NEW kinds \in SUBSET {"prop", "nop"}, NEW c \in Visited(t)
  PROVE  \E e \in From(t, c) :
           /\ Skip(t.struct, c.off, kinds) = e.off
           /\ Word(t, e).tag \notin kinds /\ e.path = c.path /\ e.inTree = c.inTree
           /\ \A x \in From(t, c) : x.off < e.off => Word(t, x).tag \in kinds
<1> DEFINE s == t.struct
           S == {x \in From(t, c) : Word(t, x).tag \notin kinds}
           F == [x \in Cursors |-> Skip(s, x.off, kinds)]
           G == {x \in Cursors : x.path = c.path /\ x.inTree = c.inTree}
<1>0. Legible(s) /\ "end" \notin kinds /\ c \in Cursors /\ From(t, c) \subseteq Visited(t)
  BY Met, VisitedFrom
<1>1. PICK e \in S : \A x \in S : e.off <= x.off
  <2>1. PICK z \in From(t, c) : Stops(t, z)
    BY <1>0, FromEnds
  <2>2. Word(t, z).tag = "end"
    BY <1>0, <2>1, Met
  <2>3. S # {} /\ S \in SUBSET From(t, c)
    BY <1>0, <2>1, <2>2
  <2> HIDE DEF S
  <2> QED
    BY <1>0, <2>3, FirstOf
<1>2. ASSUME NEW x \in From(t, c), x.off < e.off
      PROVE  Word(t, x).tag \in kinds
  <2>1. x.off \in Int /\ e.off \in Int
    BY <1>0, FromNext
  <2> QED
    BY <1>1, <1>2, <2>1
<1>3. ASSUME NEW x \in From(t, c), x.off < e.off
      PROVE  /\ Hop(t, x).path = x.path /\ Hop(t, x).inTree = x.inTree
             /\ F[Hop(t, x)] = F[x]
  <2>1. Word(t, x).tag \in {"prop", "nop"} /\ Word(t, x).tag \in kinds
    BY <1>2, <1>3
  <2>2. Hop(t, x) = At(Word(t, x).next, x.path, x.inTree)
    BY <1>0, <2>1, MetTag
  <2>3. x \in Cursors /\ Hop(t, x) \in Cursors /\ x.off \in Int
    BY <1>0, Met, HopOn
  <2>4. Skip(s, x.off, kinds) = Skip(s, Hop(t, x).off, kinds)
    BY <1>0, <2>1, <2>2, <2>3, SkipStep DEF At, Word
  <2> QED
    BY <2>2, <2>3, <2>4 DEF At
<1>4. e \in From(t, c) /\ e \in Cursors /\ e.off \in Int
  BY <1>0, Met
<1>5. F[e] = F[c]
  <2> HIDE DEF F
  <2> QED
    BY <1>0, <1>3, <1>4, FromSame
<1>6. F[e] = e.off /\ F[c] = Skip(s, c.off, kinds)
  BY <1>0, <1>1, <1>4, SkipStep DEF Word
<1>7. \A x \in From(t, c) : x.off <= e.off => x \in G
  <2>1. c \in G
    BY <1>0
  <2>2. \A x \in From(t, c) : x \in G /\ x.off < e.off => Hop(t, x) \in G
    BY <1>0, <1>3, Met, HopOn
  <2> HIDE DEF G
  <2> QED
    BY <1>0, <1>4, <2>1, <2>2, FromHolds
<1> HIDE DEF F
<1> QED
  BY <1>1, <1>2, <1>4, <1>5, <1>6, <1>7

(* Where a walk over nodes is.                                             *)
Spot(o, d) == [off |-> o, depth |-> d]

LEMMA SpotIs == ASSUME NEW o \in Int, NEW d \in Int
                PROVE  Spot(o, d) \in NodesMet /\ Spot(o, d).off = o /\ Spot(o, d).depth = d
  BY DEF Spot, NodesMet

LEMMA NextReads ==
  ASSUME NEW t, Sane(t), NEW x \in Visited(t), Word(t, x).tag = "begin", NEW k
  PROVE  NextNode(t.struct, x.off, k) = Climb(t.struct)[Spot(Hop(t, x).off, k)]
<1> DEFINE s == t.struct
           y == Hop(t, x).off
<1>1. x.off \in 0 .. Len(s) - 1 /\ Len(s) \in Nat /\ Legible(s)
  BY Met
<1>2. Word(t, x).next \in x.off + 1 .. Len(s) /\ Word(t, x).next = y
  BY Met
<1>3. CheckTag(s, x.off, "begin") = y
  BY <1>2, CheckTagMet
<1>4. x.off >= 0 /\ y >= 0 /\ x.off \in Int /\ y \in Int
  BY <1>1, <1>2
<1>5. NextNode(s, x.off, k) = LET from == IF x.off >= 0 THEN CheckTag(s, x.off, "begin") ELSE 0
                              IN  IF from < 0 THEN [off |-> from, depth |-> k]
                                  ELSE Climb(s)[[off |-> from, depth |-> k]]
  BY <1>1, ClimbIs
<1> HIDE DEF s, y
<1>7. ~(x.off < 0) /\ ~(y < 0)
  BY <1>4
<1>6. NextNode(s, x.off, k) = Climb(s)[[off |-> y, depth |-> k]]
  BY <1>3, <1>4, <1>5, <1>7
<1> QED
  BY <1>6 DEF Spot, s, y

LEMMA ClimbReads ==
  ASSUME NEW t, Sane(t), NEW x \in Visited(t), NEW d \in Int
  PROVE  LET G == Climb(t.struct)
             n == Spot(x.off, d)
             y == Hop(t, x).off
         IN  /\ Word(t, x).tag \in {"prop", "nop"} => G[n] = G[Spot(y, d)]
             /\ Word(t, x).tag = "begin" => G[n] = Spot(x.off, d + 1)
             /\ Word(t, x).tag = "endnode" =>
                  G[n] = IF d > 0 THEN G[Spot(y, d - 1)]
                         ELSE Spot(y, d - 1)
             /\ Word(t, x).tag = "end" => G[n] = Spot(NOTFOUND, d)
<1> USE DEF Spot
<1> DEFINE s == t.struct
           G == Climb(s)
           K == {"prop", "nop"}
           y == Hop(t, x).off
           n == [off |-> x.off, depth |-> d]
           N(m, p, w) == IF w.tag = "begin" THEN [off |-> p, depth |-> m.depth + 1]
                         ELSE IF w.tag = "endnode" /\ m.depth > 0
                           THEN G[[off |-> w.next, depth |-> m.depth - 1]]
                         ELSE IF w.tag = "endnode" THEN [off |-> w.next, depth |-> m.depth - 1]
                         ELSE [off |-> IF w.next >= 0 THEN NOTFOUND ELSE w.next, depth |-> m.depth]
<1>0. Legible(s) /\ "end" \notin K /\ x.off \in Int /\ y \in Int /\ x.off >= 0
  <2>1. Hop(t, x) \in Visited(t)
    BY Met
  <2> QED
    BY <2>1, Met
<1>1. ASSUME NEW m \in NodesMet
      PROVE  G[m] = N(m, Skip(s, m.off, K), NextTag(s, Skip(s, m.off, K)))
  BY <1>0, ClimbIs DEF Climbs
<1>2. n \in NodesMet /\ n.off = x.off /\ n.depth = d
  BY <1>0 DEF NodesMet
<1>3. Skip(s, x.off, K) = IF Word(t, x).tag \in K THEN Skip(s, Word(t, x).next, K) ELSE x.off
  BY <1>0, SkipStep DEF Word
<1>4. /\ Word(t, x).next \in Int /\ Word(t, x).next >= 0
      /\ Word(t, x).tag # "end" => Word(t, x).next = y
  <2>1. /\ Word(t, x).next \in x.off + 1 .. Len(s) /\ (Stops(t, x) <=> Word(t, x).tag = "end")
        /\ ~Stops(t, x) => Hop(t, x).off = Word(t, x).next
    BY Met
  <2> QED
    BY <1>0, <2>1 DEF Legible
<1>5. ASSUME Word(t, x).tag \in K PROVE G[n] = G[[off |-> y, depth |-> d]]
  <2> DEFINE m == [off |-> y, depth |-> d]
  <2>1. m \in NodesMet /\ m.off = y /\ m.depth = d
    BY <1>0 DEF NodesMet
  <2>2. Skip(s, x.off, K) = Skip(s, y, K)
    BY <1>3, <1>4, <1>5
  <2>3. G[n] = N(n, Skip(s, n.off, K), NextTag(s, Skip(s, n.off, K)))
    BY <1>1, <1>2
  <2>4. G[m] = N(m, Skip(s, m.off, K), NextTag(s, Skip(s, m.off, K)))
    BY <1>1, <2>1
  <2> HIDE DEF n, m, K, G
  <2> QED
    BY <1>2, <2>1, <2>2, <2>3, <2>4 DEF m
<1>6. ASSUME Word(t, x).tag \notin K
      PROVE  G[n] = N(n, x.off, Word(t, x))
  <2>1. Skip(s, n.off, K) = x.off
    BY <1>2, <1>3, <1>6
  <2>2. NextTag(s, x.off) = Word(t, x)
    BY DEF Word
  <2>3. G[n] = N(n, Skip(s, n.off, K), NextTag(s, Skip(s, n.off, K)))
    BY <1>1, <1>2
  <2> HIDE DEF n, K, G, s
  <2> QED
    BY <2>1, <2>2, <2>3
<1> HIDE DEF G, n
<1>8. Word(t, x).tag = "begin" => G[n] = [off |-> x.off, depth |-> d + 1]
  BY <1>2, <1>6
<1>9. Word(t, x).tag = "endnode" => G[n] = IF d > 0 THEN G[[off |-> y, depth |-> d - 1]]
                                           ELSE [off |-> y, depth |-> d - 1]
  BY <1>2, <1>4, <1>6
<1>10. Word(t, x).tag = "end" => G[n] = [off |-> NOTFOUND, depth |-> d]
  BY <1>2, <1>4, <1>6
<1> HIDE DEF s
<1> QED
  BY <1>5, <1>8, <1>9, <1>10 DEF G, n, s

(* On the way from a node's begin tag c to its end tag e: where a walk     *)
(* that counts depths from there is.                                       *)
State(t, c, x) == Spot(x.off, Len(x.path) - Len(Began(t.struct, c)))

LEMMA WayIn ==
  ASSUME NEW t, Sane(t), NEW c \in Visited(t), Begins(t, c), NEW e \in Visited(t), Closes(t, c, e)
  PROVE  LET a == Hop(t, c)
             q == Began(t.struct, c)
         IN  /\ a \in Cursors /\ e \in From(t, a) /\ From(t, a) \subseteq Visited(t)
             /\ Legible(t.struct) /\ q \in Paths /\ Len(q) \in Nat /\ a.path = q
             /\ State(t, c, a) = Spot(a.off, 0) /\ a.off \in Int /\ a.off > c.off
             /\ State(t, c, e) = Spot(e.off, 0) /\ e.off \in Int
             /\ e.off < Hop(t, e).off
             /\ \A d : NextNode(t.struct, c.off, d) = Climb(t.struct)[Spot(a.off, d)]
<1> DEFINE a == Hop(t, c)
           q == Began(t.struct, c)
<1>1. /\ a \in Cursors /\ From(t, a) \subseteq Visited(t) /\ Legible(t.struct) /\ q \in Paths
      /\ Len(q) \in Nat /\ Word(t, c).tag = "begin"
  BY VisitedFrom, InsideFirst, UpIs DEF Begins, Word, Sane
<1>2. a.path = q /\ a.off \in Int /\ c.off \in Int /\ a.off > c.off
  <2>1. a = At(Word(t, c).next, q, TRUE)
    BY <1>1, MetTag
  <2>2. Word(t, c).next \in c.off + 1 .. Len(t.struct) /\ c.off \in Int /\ Len(t.struct) \in Nat
    BY Met
  <2> HIDE DEF a, q
  <2> QED
    BY <2>1, <2>2 DEF At
<1>3. e \in From(t, a) /\ e.path = q /\ e.off \in Int /\ Word(t, e).tag = "endnode"
  BY Met DEF Closes, InNode
<1>4. e.off < Hop(t, e).off
  <2>1. /\ Word(t, e).next \in e.off + 1 .. Len(t.struct) /\ Len(t.struct) \in Nat
        /\ Hop(t, e).off = Word(t, e).next
    BY <1>3, Met
  <2> QED
    BY <1>3, <2>1
<1>6. \A d : NextNode(t.struct, c.off, d) = Climb(t.struct)[Spot(a.off, d)]
  BY <1>1, NextReads
<1>7. Len(q) - Len(q) = 0
  BY <1>1
<1>8. State(t, c, a) = Spot(a.off, 0) /\ State(t, c, e) = Spot(e.off, 0)
  BY <1>2, <1>3, <1>7 DEF State
<1> QED
  BY <1>1, <1>2, <1>3, <1>4, <1>6, <1>8

(* A step of that way.                                                     *)
LEMMA WayStep ==
  ASSUME NEW t, Sane(t), NEW c \in Visited(t), Begins(t, c), NEW e \in Visited(t), Closes(t, c, e),
         NEW x \in From(t, Hop(t, c)), x.off < e.off
  PROVE  LET G == Climb(t.struct)
             n == State(t, c, x)
             y == State(t, c, Hop(t, x))
         IN  /\ x \in Visited(t) /\ x.off \in Int /\ x.off >= 0 /\ x.inTree
             /\ Heads(Began(t.struct, c), x.path)
             /\ n \in NodesMet /\ n.depth \in Int /\ n.depth >= 0 /\ n.off = x.off
             /\ n.depth = 0 <=> x.path = Began(t.struct, c)
             /\ y \in NodesMet
             /\ Word(t, x).tag # "begin" => G[n] = G[y]
             /\ Word(t, x).tag = "begin" =>
                  /\ G[n] = Spot(x.off, n.depth + 1)
                  /\ NextNode(t.struct, x.off, n.depth + 1) = G[y]
<1> DEFINE a == Hop(t, c)
           q == Began(t.struct, c)
           G == Climb(t.struct)
           n == State(t, c, x)
           y == State(t, c, Hop(t, x))
<1>1. /\ a \in Cursors /\ e \in From(t, a) /\ From(t, a) \subseteq Visited(t)
      /\ Legible(t.struct) /\ q \in Paths /\ Len(q) \in Nat
  BY WayIn
<1>2. /\ x \in Visited(t) /\ x.off \in Int /\ x.off >= 0 /\ e.off \in Int /\ x.path \in Paths
      /\ Hop(t, x) \in Visited(t) /\ Word(t, x).tag \in Tags
      /\ (Stops(t, x) <=> Word(t, x).tag = "end") /\ (Stops(t, x) => ~x.inTree)
      /\ Hop(t, x) \in From(t, a)
  <2>1. x.off \in 0 .. Len(t.struct) - 1 /\ Len(t.struct) \in Nat
    BY <1>1, Met
  <2> QED
    BY <1>1, <2>1, Met, FromMove DEF Paths
<1>3. \A z \in From(t, a) : z.off <= e.off => z.inTree /\ Heads(q, z.path)
  BY DEF Closes, InNode
<1>4. x.inTree /\ Heads(q, x.path)
  BY <1>2, <1>3
<1>5. Hop(t, x).inTree /\ Heads(q, Hop(t, x).path)
  <2>1. Hop(t, x).off <= e.off
    <3>1. e.off >= Hop(t, x).off
      BY <1>1, FromNext
    <3>2. Hop(t, x).off \in Int
      BY <1>2, Met
    <3> QED
      BY <1>2, <3>1, <3>2
  <2> QED
    BY <1>2, <1>3, <2>1
<1>6. /\ Len(x.path) \in Nat /\ Len(Hop(t, x).path) \in Nat /\ Hop(t, x).off \in Int
      /\ Hop(t, x).path \in Paths
      /\ Len(x.path) >= Len(q) /\ Len(Hop(t, x).path) >= Len(q)
  <2>1. Hop(t, x).path \in Paths /\ Hop(t, x).off \in Int
    BY <1>2, Met DEF Paths
  <2> QED
    BY <1>1, <1>2, <1>4, <1>5, <2>1, UpIs DEF Heads
<1>7. /\ n = Spot(x.off, Len(x.path) - Len(q))
      /\ y = Spot(Hop(t, x).off, Len(Hop(t, x).path) - Len(q))
  BY DEF State
<1>8. Len(x.path) = Len(q) <=> x.path = q
  <2>1. ASSUME Len(x.path) = Len(q) PROVE x.path = q
    <3>1. \A i \in 1 .. Len(q) : x.path[i] = q[i]
      BY <1>1, <1>2, <1>4, HeadsIs
    <3> QED
      BY <1>1, <1>2, <2>1, <3>1, SamePath
  <2> QED
    BY <2>1
<1> HIDE DEF q, G, n, y
<1>9. /\ n \in NodesMet /\ n.depth \in Int /\ n.depth >= 0 /\ n.off = x.off
      /\ (n.depth = 0 <=> x.path = q) /\ y \in NodesMet
      /\ n.depth = Len(x.path) - Len(q) /\ y.depth = Len(Hop(t, x).path) - Len(q)
      /\ y.off = Hop(t, x).off /\ y.depth >= 0
  <2> DEFINE i == Len(x.path) - Len(q)
             j == Len(Hop(t, x).path) - Len(q)
  <2>1. i \in Int /\ j \in Int /\ i >= 0 /\ j >= 0 /\ (i = 0 <=> x.path = q)
    BY <1>1, <1>6, <1>8
  <2>2. n = Spot(x.off, i) /\ y = Spot(Hop(t, x).off, j)
    BY <1>7
  <2>3. x.off \in Int /\ Hop(t, x).off \in Int
    BY <1>2, <1>6
  <2>4. /\ n \in NodesMet /\ n.off = x.off /\ n.depth = i
        /\ y \in NodesMet /\ y.off = Hop(t, x).off /\ y.depth = j
    <3> HIDE DEF i, j
    <3> QED
      BY <2>1, <2>2, <2>3, SpotIs
  <2> QED
    BY <2>1, <2>4
<1>10. n = Spot(x.off, n.depth) /\ y = Spot(Hop(t, x).off, y.depth)
  BY <1>7, <1>9
<1>14. /\ Word(t, x).tag \in {"prop", "nop"} => G[n] = G[Spot(Hop(t, x).off, n.depth)]
       /\ Word(t, x).tag = "begin" =>
            /\ G[n] = Spot(x.off, n.depth + 1)
            /\ \A k : NextNode(t.struct, x.off, k) = G[Spot(Hop(t, x).off, k)]
       /\ Word(t, x).tag = "endnode" /\ n.depth > 0 =>
            G[n] = G[Spot(Hop(t, x).off, n.depth - 1)]
  <2>1. PICK d \in Int : d = n.depth
    BY <1>9
  <2>2. n = Spot(x.off, d)
    BY <1>10, <2>1
  <2> DEFINE v == Hop(t, x).off
             C == Climb(t.struct)
             m == Spot(x.off, d)
  <2>3. Word(t, x).tag \in {"prop", "nop"} => C[m] = C[Spot(v, d)]
    BY <1>2, ClimbReads
  <2>4. Word(t, x).tag = "begin" => C[m] = Spot(x.off, d + 1)
    BY <1>2, ClimbReads
  <2>7. Word(t, x).tag = "begin" => \A k : NextNode(t.struct, x.off, k) = C[Spot(v, k)]
    BY <1>2, NextReads
  <2>5. Word(t, x).tag = "endnode" => C[m] = IF d > 0 THEN C[Spot(v, d - 1)] ELSE Spot(v, d - 1)
    BY <1>2, ClimbReads
  <2> HIDE DEF v, C, m
  <2>6. G = C /\ n = m
    BY <2>2 DEF G, C, m
  <2> QED
    BY <2>1, <2>3, <2>4, <2>5, <2>6, <2>7 DEF v
<1>11. CASE Word(t, x).tag = "begin"
  <2>1. Hop(t, x).path = Append(x.path, t.struct[x.off + 2][2]) /\ t.struct[x.off + 2][2] \in NodeNames
    BY <1>2, <1>4, <1>11, MetTag DEF At, Began
  <2>2. Len(Hop(t, x).path) = Len(x.path) + 1
    BY <1>2, <2>1, AppendIs
  <2>3. y.depth = n.depth + 1
    BY <1>1, <1>6, <1>9, <2>2
  <2>4. /\ G[n] = Spot(x.off, n.depth + 1)
        /\ \A k : NextNode(t.struct, x.off, k) = G[Spot(Hop(t, x).off, k)]
    BY <1>9, <1>10, <1>11, <1>14
  <2>5. NextNode(t.struct, x.off, n.depth + 1) = G[y]
    BY <1>10, <2>3, <2>4
  <2> QED
    BY <1>2, <1>4, <1>9, <1>11, <2>4, <2>5 DEF q, G, n, y
<1>12. CASE Word(t, x).tag \in {"prop", "nop"}
  <2>1. Hop(t, x).path = x.path
    BY <1>2, <1>12, MetTag DEF At
  <2>2. y.depth = n.depth
    BY <1>9, <2>1
  <2>3. G[n] = G[y]
    BY <1>9, <1>10, <1>12, <2>2, <1>14
  <2> QED
    BY <1>2, <1>4, <1>9, <1>12, <2>3 DEF q, G, n, y
<1>13. CASE Word(t, x).tag = "endnode"
  <2>1. Hop(t, x).path = Up(x.path) /\ Hop(t, x).inTree = (x.path # <<>>)
    BY <1>2, <1>13, MetTag DEF At, Up
  <2>2. x.path # <<>> /\ Len(Hop(t, x).path) = Len(x.path) - 1
    BY <1>2, <1>5, <2>1, UpIs
  <2>3. y.depth = n.depth - 1 /\ n.depth > 0
    BY <1>1, <1>6, <1>9, <2>2
  <2>4. G[n] = G[y]
    BY <1>9, <1>10, <1>13, <2>3, <1>14
  <2> QED
    BY <1>2, <1>4, <1>9, <1>13, <2>4 DEF q, G, n, y
<1> QED
  BY <1>2, <1>4, <1>11, <1>12, <1>13 DEF Tags

(* fdt_node_end_offset_ finds the end of a node.                           *)
LEMMA NodeEndIs ==
  ASSUME NEW t, Sane(t), NEW c \in Visited(t), Begins(t, c), NEW e \in Visited(t), Closes(t, c, e)
  PROVE  NodeEnd(t.struct, c.off) = Hop(t, e).off
<1> DEFINE s == t.struct
           G == Climb(s)
           H == Pass(s)
           a == Hop(t, c)
           F == [x \in Cursors |-> H[G[State(t, c, x)]]]
           n == Spot(c.off, 0)
           z == Spot(Hop(t, e).off, -1)
<1>1. /\ a \in Cursors /\ e \in From(t, a) /\ From(t, a) \subseteq Visited(t) /\ Legible(s)
      /\ State(t, c, a) = Spot(a.off, 0) /\ a.off > c.off
      /\ State(t, c, e) = Spot(e.off, 0) /\ e.off < Hop(t, e).off
      /\ \A d : NextNode(s, c.off, d) = G[Spot(a.off, d)]
  BY WayIn
<1>2. \A m \in NodesMet : H[m] = IF m.off < 0 \/ m.depth < 0 THEN m.off ELSE H[NextNode(s, m.off, m.depth)]
  BY <1>1, PassIs DEF Passes
<1>3. /\ c.off \in Int /\ c.off >= 0 /\ e.off \in Int /\ e.off >= 0
      /\ Hop(t, e).off \in Int /\ Word(t, e).tag = "endnode"
  <2>1. c.off \in 0 .. Len(s) - 1 /\ e.off \in 0 .. Len(s) - 1 /\ Len(s) \in Nat /\ Hop(t, e) \in Visited(t)
    BY Met
  <2> QED
    BY <2>1, Met DEF Closes
<1>4. /\ n \in NodesMet /\ n.off = c.off /\ n.depth = 0
      /\ z \in NodesMet /\ z.off = Hop(t, e).off /\ z.depth = -1
  BY <1>3, SpotIs
<1>5. ASSUME NEW x \in From(t, a), x.off < e.off
      PROVE  F[Hop(t, x)] = F[x]
  <2> DEFINE k == State(t, c, x).depth
             m == Spot(x.off, k + 1)
  <2>1. /\ k \in Int /\ k >= 0 /\ x.off \in Int /\ x.off >= 0
        /\ Word(t, x).tag # "begin" => G[State(t, c, x)] = G[State(t, c, Hop(t, x))]
        /\ Word(t, x).tag = "begin" => /\ G[State(t, c, x)] = m
                                       /\ NextNode(s, x.off, k + 1) = G[State(t, c, Hop(t, x))]
    BY <1>5, WayStep
  <2>2. x \in Cursors /\ Hop(t, x) \in Cursors
    BY <1>1, FromCursors, HopOn
  <2>3. m \in NodesMet /\ m.off = x.off /\ m.depth = k + 1
    <3>1. k + 1 \in Int /\ x.off \in Int
      BY <2>1
    <3> HIDE DEF k
    <3> QED
      BY <3>1, SpotIs
  <2>4. H[m] = H[NextNode(s, x.off, k + 1)]
    <3> HIDE DEF m, k, H
    <3> QED
      BY <1>2, <2>1, <2>3
  <2>5. F[x] = H[G[State(t, c, x)]] /\ F[Hop(t, x)] = H[G[State(t, c, Hop(t, x))]]
    BY <2>2
  <2> HIDE DEF m, k, H, F, G
  <2> QED
    BY <2>1, <2>4, <2>5
<1>6. F[e] = F[a]
  <2> HIDE DEF F
  <2> QED
    BY <1>1, <1>5, FromSame
<1>7. G[Spot(e.off, 0)] = z
  <2>1. PICK d \in Int : d = 0
    OBVIOUS
  <2>2. Word(t, e).tag = "endnode" =>
          G[Spot(e.off, d)] = IF d > 0 THEN G[Spot(Hop(t, e).off, d - 1)]
                              ELSE Spot(Hop(t, e).off, d - 1)
    BY ClimbReads
  <2>3. ~(d > 0) /\ d - 1 = -1
    BY <2>1
  <2> QED
    BY <1>3, <2>1, <2>2, <2>3
<1>8. F[e] = Hop(t, e).off
  <2>1. F[e] = H[z]
    <3>1. e \in Cursors
      BY Met
    <3> QED
      BY <1>1, <1>7, <3>1
  <2> HIDE DEF z, H, F
  <2> QED
    BY <1>2, <1>4, <2>1
<1>9. NodeEnd(s, c.off) = H[n]
  BY <1>1, PassIs DEF Spot
<1>10. H[n] = F[a]
  <2>1. F[a] = H[G[Spot(a.off, 0)]]
    BY <1>1
  <2>2. H[n] = H[NextNode(s, c.off, 0)]
    <3> HIDE DEF n, H, s
    <3> QED
      BY <1>2, <1>3, <1>4
  <2> HIDE DEF n, H, F, G, a
  <2> QED
    BY <1>1, <2>1, <2>2
<1> HIDE DEF F, H, n
<1> QED
  BY <1>6, <1>8, <1>9, <1>10

(* A child of the node at c that a look-up of this name may find.          *)
Child(t, c, x, name) == /\ Begins(t, x) /\ x.inTree /\ x.path = Began(t.struct, c)
                        /\ NameMatches(t.struct, x.off, name)

(* What is in a node lies on the way from its begin tag to its end tag.    *)
LEMMA OnTheWay ==
  ASSUME NEW t, Whole(t), NEW c \in Visited(t), Begins(t, c), NEW e \in Visited(t), Closes(t, c, e),
         NEW x \in Visited(t), x.inTree, Heads(Began(t.struct, c), x.path), x # e
  PROVE  x \in From(t, Hop(t, c)) /\ x.off < e.off
<1> DEFINE a == Hop(t, c)
<1>1. /\ e \in From(t, a) /\ a \in Cursors /\ Sane(t) /\ Legible(t.struct)
      /\ From(t, a) \subseteq Visited(t)
  BY WayIn DEF Whole, Sane
<1>2. c.off < x.off /\ x.off < Hop(t, e).off /\ Hop(t, e).off \in Int
  BY NodeSpan
<1>3. x \in From(t, a)
  <2>1. Start \in Cursors /\ Visited(t) = From(t, Start)
    BY StartIs DEF Visited
  <2> QED
    BY <1>1, <1>2, <2>1, FromNext
<1>4. x.off \in Int /\ e.off \in Int
  BY <1>1, Met
<1>5. x.off <= e.off
  <2>1. x.off <= Hop(t, e).off => x.off <= e.off \/ x = Hop(t, e)
    BY <1>1, <1>3, FromNext
  <2> QED
    BY <1>2, <1>4, <2>1
<1>6. x.off # e.off
  BY <1>1, SameOff
<1> QED
  BY <1>3, <1>4, <1>5, <1>6

(* fdt_subnode_offset finds a child of that name, or there is none.        *)
LEMMA SubnodeIs ==
  ASSUME NEW t, Whole(t), NEW c \in Visited(t), Begins(t, c), NEW name
  PROVE  \/ /\ SubnodeOffset(t.struct, c.off, name) = NOTFOUND
            /\ \A x \in Visited(t) : ~Child(t, c, x, name)
         \/ \E x \in Visited(t) : Child(t, c, x, name) /\ SubnodeOffset(t.struct, c.off, name) = x.off
<1> DEFINE s == t.struct
           G == Climb(s)
           H == Find(s, name)
           a == Hop(t, c)
           F == [x \in Cursors |-> H[G[State(t, c, x)]]]
           n == Spot(c.off, 0)
<1>a. Sane(t)
  BY DEF Whole
<1>b. PICK e \in Visited(t) : Closes(t, c, e)
  BY <1>a, ClosesOnce
<1> DEFINE z == Spot(Hop(t, e).off, -1)
           C == {x \in From(t, a) : x = e \/ (x.off < e.off /\ Child(t, c, x, name))}
<1>1. /\ a \in Cursors /\ e \in From(t, a) /\ From(t, a) \subseteq Visited(t) /\ Legible(s)
      /\ State(t, c, a) = Spot(a.off, 0) /\ a.off > c.off
      /\ State(t, c, e) = Spot(e.off, 0) /\ e.off < Hop(t, e).off
      /\ NextNode(s, c.off, 0) = G[Spot(a.off, 0)]
  BY <1>a, <1>b, WayIn
<1>2. \A m \in NodesMet : H[m] = IF m.depth < 0 THEN NOTFOUND
                                 ELSE IF m.off < 0 THEN m.off
                                 ELSE IF m.depth = 1 /\ NameMatches(s, m.off, name) THEN m.off
                                 ELSE H[NextNode(s, m.off, m.depth)]
  BY <1>1, FindIs DEF Finds
<1>3. /\ c.off \in Int /\ c.off >= 0 /\ e.off \in Int /\ e.off >= 0
      /\ Hop(t, e).off \in Int /\ Word(t, e).tag = "endnode"
  <2>1. c.off \in 0 .. Len(s) - 1 /\ e.off \in 0 .. Len(s) - 1 /\ Len(s) \in Nat /\ Hop(t, e) \in Visited(t)
    BY <1>a, Met
  <2> QED
    BY <1>a, <1>b, <2>1, Met DEF Closes
<1>4. /\ n \in NodesMet /\ n.off = c.off /\ n.depth = 0
      /\ z \in NodesMet /\ z.off = Hop(t, e).off /\ z.depth = -1
  BY <1>3, SpotIs
<1>5. PICK f \in C : \A x \in C : f.off <= x.off
  <2>1. C # {} /\ C \in SUBSET From(t, a)
    BY <1>1
  <2> HIDE DEF C, a
  <2> QED
    BY <1>1, <2>1, FirstOf
<1>6. f \in From(t, a) /\ f \in Visited(t) /\ f.off \in Int /\ f.off <= e.off /\ f \in Cursors
  BY <1>a, <1>1, <1>3, Met
<1>7. ASSUME NEW x \in From(t, a), x.off < e.off
      PROVE  LET k == State(t, c, x).depth
                 m == Spot(x.off, k + 1)
             IN  /\ k \in Int /\ k >= 0 /\ x.off \in Int /\ x.off >= 0 /\ x.inTree
                 /\ k = 0 <=> x.path = Began(s, c)
                 /\ m \in NodesMet /\ m.off = x.off /\ m.depth = k + 1
                 /\ Word(t, x).tag # "begin" => G[State(t, c, x)] = G[State(t, c, Hop(t, x))]
                 /\ Word(t, x).tag = "begin" => /\ G[State(t, c, x)] = m
                                                /\ NextNode(s, x.off, k + 1) = G[State(t, c, Hop(t, x))]
  <2> DEFINE k == State(t, c, x).depth
             m == Spot(x.off, k + 1)
  <2>1. /\ k \in Int /\ k >= 0 /\ x.off \in Int /\ x.off >= 0 /\ x.inTree
        /\ k = 0 <=> x.path = Began(s, c)
        /\ Word(t, x).tag # "begin" => G[State(t, c, x)] = G[State(t, c, Hop(t, x))]
        /\ Word(t, x).tag = "begin" => /\ G[State(t, c, x)] = m
                                       /\ NextNode(s, x.off, k + 1) = G[State(t, c, Hop(t, x))]
    BY <1>a, <1>b, <1>7, WayStep
  <2>2. m \in NodesMet /\ m.off = x.off /\ m.depth = k + 1
    <3>1. k + 1 \in Int /\ x.off \in Int
      BY <2>1
    <3> HIDE DEF k
    <3> QED
      BY <3>1, SpotIs
  <2> HIDE DEF k, m, G, s
  <2> QED
    BY <2>1, <2>2 DEF k, m
<1>8. ASSUME NEW x \in From(t, a), x.off < f.off
      PROVE  F[Hop(t, x)] = F[x]
  <2> DEFINE k == State(t, c, x).depth
             m == Spot(x.off, k + 1)
  <2>0. x.off < e.off /\ ~Child(t, c, x, name) /\ x \in Cursors /\ Hop(t, x) \in Cursors
    <3>1. x.off \in Int
      BY <1>a, <1>1, Met
    <3>2. x.off < e.off
      BY <1>3, <1>6, <1>8, <3>1
    <3>3. x \notin C
      <4>1. ~(f.off <= x.off)
        BY <1>6, <1>8, <3>1
      <4> HIDE DEF C
      <4> QED
        BY <1>5, <4>1
    <3> QED
      BY <1>1, <3>2, <3>3, FromCursors, HopOn
  <2>1. /\ k \in Int /\ k >= 0 /\ x.off \in Int /\ x.off >= 0 /\ x.inTree
        /\ k = 0 <=> x.path = Began(s, c)
        /\ m \in NodesMet /\ m.off = x.off /\ m.depth = k + 1
        /\ Word(t, x).tag # "begin" => G[State(t, c, x)] = G[State(t, c, Hop(t, x))]
        /\ Word(t, x).tag = "begin" => /\ G[State(t, c, x)] = m
                                       /\ NextNode(s, x.off, k + 1) = G[State(t, c, Hop(t, x))]
    BY <1>7, <2>0
  <2>2. Word(t, x).tag = "begin" => ~(k + 1 = 1 /\ NameMatches(s, x.off, name))
    <3>1. k + 1 = 1 => k = 0
      BY <2>1
    <3> HIDE DEF k
    <3> QED
      BY <2>0, <2>1, <3>1 DEF Child, Begins, Word
  <2>3. Word(t, x).tag = "begin" => H[m] = H[NextNode(s, x.off, k + 1)]
    <3> HIDE DEF m, k, H, s
    <3> QED
      BY <1>2, <2>1, <2>2
  <2>4. F[x] = H[G[State(t, c, x)]] /\ F[Hop(t, x)] = H[G[State(t, c, Hop(t, x))]]
    BY <2>0
  <2> HIDE DEF m, k, H, F, G
  <2> QED
    BY <2>1, <2>3, <2>4
<1>9. F[f] = F[a]
  <2> HIDE DEF F
  <2> QED
    BY <1>1, <1>6, <1>8, FromSame
<1>10. SubnodeOffset(s, c.off, name) = F[f]
  <2>1. F[a] = H[G[Spot(a.off, 0)]]
    BY <1>1
  <2>2. H[n] = H[NextNode(s, c.off, 0)]
    <3> HIDE DEF n, H, s
    <3> QED
      BY <1>2, <1>3, <1>4
  <2>3. SubnodeOffset(s, c.off, name) = H[n]
    BY <1>1, FindIs DEF Spot
  <2> HIDE DEF n, H, F, G, a
  <2> QED
    BY <1>1, <1>9, <2>1, <2>2, <2>3
<1>11. CASE f = e
  <2>1. G[Spot(e.off, 0)] = z
    <3>1. PICK d \in Int : d = 0
      OBVIOUS
    <3>2. Word(t, e).tag = "endnode" =>
            G[Spot(e.off, d)] = IF d > 0 THEN G[Spot(Hop(t, e).off, d - 1)]
                                ELSE Spot(Hop(t, e).off, d - 1)
      BY <1>a, ClimbReads
    <3>3. ~(d > 0) /\ d - 1 = -1
      BY <3>1
    <3> QED
      BY <1>3, <3>1, <3>2, <3>3
  <2>2. F[e] = H[z]
    BY <1>1, <1>6, <1>11, <2>1
  <2>3. H[z] = NOTFOUND
    <3> HIDE DEF z, H
    <3> QED
      BY <1>2, <1>4
  <2>4. ASSUME NEW x \in Visited(t), Child(t, c, x, name) PROVE FALSE
    <3>1. x.inTree /\ Heads(Began(s, c), x.path) /\ x # e
      <4>1. Began(s, c) \in Paths
        BY <1>a, InsideFirst
      <4>2. Heads(Began(s, c), Began(s, c))
        BY <4>1, HeadsSame
      <4> QED
        BY <1>3, <2>4, <4>2 DEF Child, Begins, Word
    <3>2. x \in From(t, a) /\ x.off < e.off
      BY <1>b, <3>1, OnTheWay
    <3>3. x \in C /\ x.off \in Int
      BY <1>a, <2>4, <3>2, Met
    <3>4. e.off <= x.off
      <4> HIDE DEF C
      <4> QED
        BY <1>5, <1>11, <3>3
    <3> QED
      BY <1>3, <3>2, <3>3, <3>4
  <2> HIDE DEF F, H, z
  <2> QED
    BY <1>10, <1>11, <2>2, <2>3, <2>4
<1>12. CASE f # e
  <2> DEFINE k == State(t, c, f).depth
             m == Spot(f.off, k + 1)
  <2>0. f.off < e.off /\ Child(t, c, f, name)
    BY <1>5, <1>12
  <2>1. /\ k \in Int /\ f.off \in Int /\ f.off >= 0
        /\ k = 0 <=> f.path = Began(s, c)
        /\ m \in NodesMet /\ m.off = f.off /\ m.depth = k + 1
        /\ Word(t, f).tag = "begin" => G[State(t, c, f)] = m
    BY <1>6, <1>7, <2>0
  <2>2. Word(t, f).tag = "begin" /\ k = 0 /\ NameMatches(s, f.off, name)
    BY <2>0, <2>1 DEF Child, Begins, Word
  <2>3. H[m] = f.off
    <3>1. m.depth = 1 /\ ~(m.depth < 0)
      <4> HIDE DEF k, m
      <4> QED
        BY <2>1, <2>2
    <3> HIDE DEF m, k, H, s
    <3> QED
      BY <1>2, <2>1, <2>2, <3>1
  <2>4. F[f] = H[G[State(t, c, f)]]
    BY <1>6
  <2> HIDE DEF F, H, m
  <2> QED
    BY <1>6, <1>10, <2>0, <2>1, <2>2, <2>3, <2>4
<1> QED
  BY <1>11, <1>12

LEMMA NextPropIs ==
  ASSUME NEW s, Legible(s), NEW o \in Int
  PROVE  /\ NextTag(s, o).tag = "nop" => NextProp(s, o) = NextProp(s, NextTag(s, o).next)
         /\ NextTag(s, o).tag = "prop" => NextProp(s, o) = o
         /\ NextTag(s, o).tag \notin {"nop", "prop", "end"} => NextProp(s, o) = NOTFOUND
<1> DEFINE E(p, w) == IF w.tag = "prop" THEN p
                      ELSE IF w.tag # "end" THEN NOTFOUND
                      ELSE IF w.next >= 0 THEN BADSTRUCTURE ELSE w.next
           K == {"nop"}
<1>1. \A i : NextProp(s, i) = E(Skip(s, i, K), NextTag(s, Skip(s, i, K)))
  BY DEF NextProp
<1>2. Skip(s, o, K) = IF NextTag(s, o).tag \in K THEN Skip(s, NextTag(s, o).next, K) ELSE o
  BY SkipStep
<1> QED
  BY <1>1, <1>2

(* fdt_get_property finds the property of that name, or there is none.     *)
LEMMA PropOffsetIs ==
  ASSUME NEW t, Whole(t), NEW c \in Visited(t), Begins(t, c), NEW name
  PROVE  LET Right(x) == /\ Word(t, x).tag = "prop" /\ x.path = Began(t.struct, c)
                         /\ NameAt(t, x) = name
         IN  \/ /\ PropOffset(t, c.off, name) = NOTFOUND
                /\ \A x \in Visited(t) : ~Right(x)
             \/ \E x \in Visited(t) : Right(x) /\ PropOffset(t, c.off, name) = x.off
<1> DEFINE s == t.struct
           q == Began(s, c)
           H == Seek(t, name)
           a == Hop(t, c)
           F == [x \in Cursors |-> H[NextProp(s, x.off)]]
           Passed(x) == Word(t, x).tag = "nop" \/ (Word(t, x).tag = "prop" /\ NameAt(t, x) # name)
           Right(x) == Word(t, x).tag = "prop" /\ x.path = q /\ NameAt(t, x) = name
           C == {x \in From(t, a) : ~Passed(x)}
           G == {x \in Cursors : x.path = q /\ x.inTree}
<1>1. Sane(t) /\ Legible(s)
  BY DEF Whole, Sane
<1>2. /\ a \in Cursors /\ From(t, a) \subseteq Visited(t) /\ a.path = q /\ a.inTree /\ c.off \in Int
      /\ CheckTag(s, c.off, "begin") = a.off /\ a.off >= 0 /\ a.off > c.off /\ a.off \in Int
  <2>1. Word(t, c).tag = "begin"
    BY DEF Begins, Word
  <2>2. a = At(Word(t, c).next, q, TRUE)
    BY <1>1, <2>1, MetTag
  <2>3. Word(t, c).next \in c.off + 1 .. Len(s) /\ Len(s) \in Nat /\ c.off \in 0 .. Len(s) - 1
    BY <1>1, Met
  <2>4. CheckTag(s, c.off, "begin") = Word(t, c).next
    BY <1>1, <2>1, CheckTagMet
  <2>5. a \in Cursors /\ From(t, a) \subseteq Visited(t)
    BY <1>1, VisitedFrom
  <2>6. a.path = q /\ a.inTree /\ a.off = Word(t, c).next
    BY <2>2 DEF At
  <2> HIDE DEF a, q, s
  <2> QED
    BY <2>3, <2>4, <2>5, <2>6
<1>3. \A p \in Int : H[p] = IF p < 0 \/ Bears(t, s[p + 3][2], name) THEN p
                            ELSE H[NextProp(s, CheckTag(s, p, "prop"))]
  BY <1>1, SeekIs DEF Seeks
<1>4. PICK f \in C : \A x \in C : f.off <= x.off
  <2>1. C # {} /\ C \in SUBSET From(t, a)
    <3>1. PICK z \in From(t, a) : Stops(t, z)
      BY <1>1, <1>2, FromEnds
    <3>2. Word(t, z).tag = "end"
      BY <1>1, <1>2, <3>1, Met
    <3> QED
      BY <3>1, <3>2
  <2> HIDE DEF C, a
  <2> QED
    BY <1>1, <1>2, <2>1, FirstOf
<1>5. f \in From(t, a) /\ f \in Visited(t) /\ f.off \in Int /\ f.off >= 0 /\ f \in Cursors
  <2>1. f.off \in 0 .. Len(s) - 1 /\ Len(s) \in Nat
    BY <1>1, <1>2, Met
  <2> QED
    BY <1>2, <2>1, FromCursors
<1>6. ASSUME NEW x \in From(t, a), x.off < f.off
      PROVE  Passed(x)
  <2>1. x.off \in Int
    BY <1>1, <1>2, Met
  <2>2. ~(f.off <= x.off)
    BY <1>5, <1>6, <2>1
  <2>3. x \notin C
    <3> HIDE DEF C
    <3> QED
      BY <1>4, <2>2
  <2> QED
    BY <2>3
<1>7. ASSUME NEW x \in From(t, a), Word(t, x).tag = "prop"
      PROVE  /\ x.off \in Int /\ x.off >= 0 /\ NextProp(s, x.off) = x.off
             /\ H[x.off] = IF NameAt(t, x) = name THEN x.off ELSE H[NextProp(s, Hop(t, x).off)]
  <2>1. /\ x.off \in 0 .. Len(s) - 1 /\ Len(s) \in Nat /\ ~Stops(t, x) /\ Hop(t, x).off = Word(t, x).next
        /\ Known(t, x.off)
    BY <1>1, <1>2, <1>7, Met, MetTag
  <2>2. Bears(t, s[x.off + 3][2], name) <=> NameAt(t, x) = name
    BY <2>1 DEF Bears, Known, NameAt
  <2>3. CheckTag(s, x.off, "prop") = Hop(t, x).off
    BY <1>1, <1>2, <1>7, <2>1, CheckTagMet
  <2>4. x.off \in Int /\ x.off >= 0
    BY <2>1
  <2>5. NextProp(s, x.off) = x.off
    BY <1>1, <1>7, <2>4, NextPropIs DEF Word
  <2> HIDE DEF H, s
  <2> QED
    BY <1>3, <2>2, <2>3, <2>4, <2>5
<1>8. ASSUME NEW x \in From(t, a), x.off < f.off
      PROVE  /\ F[Hop(t, x)] = F[x]
             /\ Hop(t, x).path = x.path /\ Hop(t, x).inTree = x.inTree
  <2>0. Passed(x) /\ x \in Cursors /\ Hop(t, x) \in Cursors /\ x.off \in Int
    BY <1>1, <1>2, <1>6, <1>8, Met, HopOn
  <2>1. Word(t, x).tag \in {"prop", "nop"}
    BY <2>0
  <2>2. Hop(t, x) = At(Word(t, x).next, x.path, x.inTree)
    BY <1>1, <1>2, <2>1, MetTag
  <2>3. Hop(t, x).off = Word(t, x).next /\ Hop(t, x).path = x.path /\ Hop(t, x).inTree = x.inTree
    BY <2>2 DEF At
  <2>4. F[x] = H[NextProp(s, x.off)] /\ F[Hop(t, x)] = H[NextProp(s, Hop(t, x).off)]
    BY <2>0
  <2>5. CASE Word(t, x).tag = "nop"
    <3>1. NextProp(s, x.off) = NextProp(s, Hop(t, x).off)
      BY <1>1, <2>0, <2>3, <2>5, NextPropIs DEF Word
    <3> QED
      BY <2>3, <2>4, <3>1
  <2>6. CASE Word(t, x).tag = "prop"
    <3>1. NameAt(t, x) # name
      BY <2>0, <2>6
    <3> HIDE DEF F, H
    <3> QED
      BY <1>7, <2>3, <2>4, <2>6, <3>1
  <2> QED
    BY <2>1, <2>5, <2>6
<1>9. F[f] = F[a]
  <2> HIDE DEF F
  <2> QED
    BY <1>1, <1>2, <1>5, <1>8, FromSame
<1>10. \A x \in From(t, a) : x.off <= f.off => x \in G
  <2>1. a \in G
    BY <1>2
  <2>2. \A x \in From(t, a) : x \in G /\ x.off < f.off => Hop(t, x) \in G
    BY <1>1, <1>2, <1>8, Met, HopOn
  <2> HIDE DEF G
  <2> QED
    BY <1>1, <1>2, <1>5, <2>1, <2>2, FromHolds
<1>11. f.path = q /\ f.inTree
  BY <1>5, <1>10
<1>12. PropOffset(t, c.off, name) = F[f]
  <2>1. PropOffset(t, c.off, name) = H[NextProp(s, a.off)]
    <3>1. LET first == CheckTag(s, c.off, "begin")
          IN  PropOffset(t, c.off, name) = IF first < 0 THEN first ELSE H[NextProp(s, first)]
      BY <1>1, SeekIs
    <3>2. ~(a.off < 0)
      BY <1>2
    <3> HIDE DEF H, a, s
    <3> QED
      BY <1>2, <3>1, <3>2
  <2>2. F[a] = H[NextProp(s, a.off)]
    BY <1>2
  <2> HIDE DEF F, H, a
  <2> QED
    BY <1>9, <2>1, <2>2
<1>13. F[f] = H[NextProp(s, f.off)]
  BY <1>5
<1>14. CASE Word(t, f).tag = "prop"
  <2>1. NameAt(t, f) = name
    BY <1>4, <1>14
  <2>2. PropOffset(t, c.off, name) = f.off
    <3> HIDE DEF F, H
    <3> QED
      BY <1>5, <1>7, <1>12, <1>13, <1>14, <2>1
  <2> QED
    BY <1>5, <1>11, <1>14, <2>1, <2>2
<1>15. CASE Word(t, f).tag # "prop"
  <2>1. Word(t, f).tag \notin {"nop", "prop", "end"}
    <3>1. Word(t, f).tag # "end"
      BY <1>1, <1>5, <1>11, Met
    <3>2. ~Passed(f)
      BY <1>4
    <3> QED
      BY <1>15, <3>1, <3>2
  <2>2. NextProp(s, f.off) = NOTFOUND
    BY <1>1, <1>5, <2>1, NextPropIs DEF Word
  <2>3. H[NOTFOUND] = NOTFOUND
    <3>1. NOTFOUND \in Int /\ NOTFOUND < 0
      BY DEF NOTFOUND
    <3> HIDE DEF H, s
    <3> QED
      BY <1>3, <3>1
  <2>4. PropOffset(t, c.off, name) = NOTFOUND
    <3> HIDE DEF F, H, s
    <3> QED
      BY <1>12, <1>13, <2>2, <2>3
  <2>5. ASSUME NEW x \in Visited(t), Right(x) PROVE FALSE
    <3>1. PICK d \in Visited(t) :
             /\ Begins(t, d) /\ Began(s, d) = x.path /\ d.off < x.off
             /\ \A y \in Visited(t) : d.off < y.off /\ y.off <= x.off => Word(t, y).tag \in {"prop", "nop"}
      BY <2>5, PropFront
    <3>2. d = c
      BY <2>5, <3>1, OneNode
    <3>3. x \in From(t, a) /\ x.off \in Int
      <4>1. Start \in Cursors /\ Visited(t) = From(t, Start)
        BY StartIs DEF Visited
      <4> QED
        BY <1>1, <3>1, <3>2, <4>1, FromNext, Met
    <3>4. f.off > x.off
      <4>1. f.off > c.off
        <5>1. f = a \/ f.off > a.off
          BY <1>1, <1>2, <1>5, FromOrder
        <5> HIDE DEF a
        <5> QED
          BY <1>2, <1>5, <5>1
      <4>2. ~(f.off <= x.off)
        BY <1>5, <2>1, <3>1, <3>2, <4>1
      <4> QED
        BY <1>5, <3>3, <4>2
    <3>5. Passed(x)
      BY <1>6, <3>3, <3>4
    <3> QED
      BY <2>5, <3>5
  <2> QED
    BY <2>4, <2>5
<1> QED
  BY <1>14, <1>15

(* Where a subnode goes: behind the properties of the node.                *)
LEMMA AfterPropsIs ==
  ASSUME NEW t, Sane(t), NEW c \in Visited(t), Begins(t, c)
  PROVE  \E e \in From(t, Hop(t, c)) :
           /\ Skip(t.struct, NextTag(t.struct, c.off).next, {"prop", "nop"}) = e.off
           /\ e \in Visited(t) /\ e.off > c.off /\ e.off \in Int /\ c.off \in Int
           /\ Word(t, e).tag \notin {"prop", "nop"} /\ e.path = Began(t.struct, c) /\ e.inTree
           /\ \A x \in Visited(t) : c.off < x.off /\ x.off < e.off => Word(t, x).tag \in {"prop", "nop"}
<1> DEFINE a == Hop(t, c)
           K == {"prop", "nop"}
<1>1. Word(t, c).tag = "begin" /\ Legible(t.struct)
  BY DEF Begins, Word, Sane
<1>2. a.path = Began(t.struct, c) /\ a.inTree /\ a.off = Word(t, c).next
  BY <1>1, MetTag DEF At
<1>3. a \in Visited(t) /\ a \in Cursors /\ From(t, a) \subseteq Visited(t) /\ a.off > c.off /\ a.off \in Int
  <2>1. /\ Word(t, c).next \in c.off + 1 .. Len(t.struct) /\ c.off \in 0 .. Len(t.struct) - 1
        /\ Len(t.struct) \in Nat /\ a \in Visited(t)
    BY Met
  <2>2. a \in Cursors /\ From(t, a) \subseteq Visited(t)
    BY VisitedFrom
  <2> HIDE DEF a
  <2> QED
    BY <1>2, <2>1, <2>2
<1>4. PICK e \in From(t, a) :
        /\ Skip(t.struct, a.off, K) = e.off
        /\ Word(t, e).tag \notin K /\ e.path = a.path /\ e.inTree = a.inTree
        /\ \A x \in From(t, a) : x.off < e.off => Word(t, x).tag \in K
  <2> HIDE DEF a
  <2>1. K \in SUBSET {"prop", "nop"}
    OBVIOUS
  <2> HIDE DEF K
  <2> QED
    BY <1>3, <2>1, SkipReads
<1>5. e.off > c.off /\ e.off \in Int /\ c.off \in Int
  <2>1. e = a \/ e.off > a.off
    BY <1>1, <1>3, FromOrder
  <2>2. e.off \in Int /\ c.off \in Int
    BY <1>3, Met
  <2> HIDE DEF a
  <2> QED
    BY <1>3, <2>1, <2>2
<1>6. ASSUME NEW x \in Visited(t), c.off < x.off, x.off < e.off
      PROVE  Word(t, x).tag \in K
  <2>1. Start \in Cursors /\ Visited(t) = From(t, Start)
    BY StartIs DEF Visited
  <2>2. x \in From(t, a)
    BY <1>1, <1>6, <2>1, FromNext
  <2> QED
    BY <1>4, <1>6, <2>2
<1>7. NextTag(t.struct, c.off).next = a.off
  BY <1>2 DEF Word
<1> HIDE DEF a
<1>8. e \in From(t, Hop(t, c)) /\ e \in Visited(t)
  BY <1>3, <1>4 DEF a
<1> QED
  BY <1>2, <1>3, <1>4, <1>5, <1>6, <1>7, <1>8

-----------------------------------------------------------------------------
(* Changing a structure.  In u the words of t from a to b gave way to      *)
(* others, d more, and the walk over those comes to where b is now.        *)
Mends(t, u, a, b, d) ==
  /\ a \in Visited(t) /\ b \in Visited(t) /\ a.off <= b.off /\ d \in Int
  /\ Legible(u.struct) /\ Knows(u, t)
  /\ Len(u.struct) = Len(t.struct) + d
  /\ b.off + d >= a.off
  /\ \A i \in 1 .. a.off : u.struct[i] = t.struct[i]
  /\ \A i \in b.off + 1 .. Len(t.struct) : u.struct[i + d] = t.struct[i]
  /\ Further1(b, d) \in From(u, a)

NoteThere(n, d) == [off |-> n.off + d, tag |-> n.tag, path |-> n.path, prop |-> n.prop]

(* A cursor outside the words that changed.                                *)
LEMMA MendAlike ==
  ASSUME NEW t, Sane(t), NEW u, NEW a, NEW b, NEW d, Mends(t, u, a, b, d), NEW c \in Visited(t), NEW k,
         (c.off < a.off /\ k = 0) \/ (c.off >= b.off /\ k = d)
  PROVE  /\ ReadAlike(t, u, c, k)
         /\ Word(u, Further1(c, k)) = [tag |-> Word(t, c).tag, next |-> Word(t, c).next + k]
         /\ Further1(c, k).off = c.off + k /\ k \in Int
         /\ \A i \in c.off + 1 .. Word(t, c).next : u.struct[i + k] = t.struct[i]
<1> DEFINE w == NextTag(t.struct, c.off)
<1>1. /\ a \in Visited(t) /\ b \in Visited(t) /\ a.off <= b.off /\ d \in Int
      /\ Legible(u.struct) /\ Knows(u, t) /\ Len(u.struct) \in Nat
      /\ Len(u.struct) = Len(t.struct) + d /\ b.off + d >= a.off
  BY DEF Mends, Legible
<1>2. /\ Legible(t.struct) /\ c \in Cursors /\ c.off \in 0 .. Len(t.struct) - 1 /\ Len(t.struct) \in Nat
      /\ w.next \in c.off + 1 .. Len(t.struct) /\ (w.tag = "prop" => Known(t, c.off))
      /\ a.off \in 0 .. Len(t.struct) - 1 /\ b.off \in 0 .. Len(t.struct) - 1
  BY <1>1, Met, MetTag DEF Word
<1>3. k \in Int /\ c.off + k >= 0 /\ w.next + k <= Len(u.struct)
      /\ \A i \in c.off + 1 .. w.next : u.struct[i + k] = t.struct[i]
  <2>1. CASE c.off < a.off /\ k = 0
    <3>1. w.next <= a.off
      <4>1. Start \in Cursors /\ Visited(t) = From(t, Start)
        BY StartIs DEF Visited
      <4>2. a.off >= Hop(t, c).off /\ ~Stops(t, c)
        BY <1>1, <1>2, <2>1, <4>1, FromNext
      <4>3. Hop(t, c).off = w.next
        BY <4>2, Met DEF Word
      <4> HIDE DEF w
      <4> QED
        BY <1>2, <4>2, <4>3
    <3>2. \A i \in 1 .. a.off : u.struct[i] = t.struct[i]
      BY DEF Mends
    <3>3. a.off <= Len(u.struct)
      BY <1>1, <1>2
    <3> HIDE DEF w
    <3>4. \A i \in c.off + 1 .. w.next : i \in 1 .. a.off /\ i + k = i
      BY <1>2, <2>1, <3>1
    <3> QED
      BY <1>2, <2>1, <3>1, <3>2, <3>3, <3>4
  <2>2. CASE c.off >= b.off /\ k = d
    <3>1. \A i \in b.off + 1 .. Len(t.struct) : u.struct[i + d] = t.struct[i]
      BY DEF Mends
    <3> HIDE DEF w
    <3>2. \A i \in c.off + 1 .. w.next : i \in b.off + 1 .. Len(t.struct)
      BY <1>2, <2>2
    <3> QED
      BY SMTT(30), <1>1, <1>2, <2>2, <3>1, <3>2
  <2> QED
    BY <2>1, <2>2
<1>4. w.next >= 0 /\ w.next \in Int /\ c.off \in Int
  <2> HIDE DEF w
  <2> QED
    BY <1>2
<1>5. ReadAlike(t, u, c, k)
  BY <1>1, <1>2, <1>3, <1>4, SameWords
<1>6. NextTag(u.struct, c.off + k) = [tag |-> w.tag, next |-> w.next + k]
  <2>1. \A i \in c.off + 1 .. w.next : Alike(t.struct[i], u.struct[i + k])
    BY <1>3 DEF Alike
  <2>2. PICK o \in Int : o = c.off
    BY <1>4
  <2>3. PICK s : s = t.struct
    OBVIOUS
  <2>4. PICK r : r = u.struct
    OBVIOUS
  <2>5. /\ Legible(s) /\ Len(r) \in Nat /\ k \in Int /\ NextTag(s, o).next >= 0 /\ o + k >= 0
        /\ NextTag(s, o).next + k <= Len(r)
        /\ \A i \in o + 1 .. NextTag(s, o).next : Alike(s[i], r[i + k])
    BY <1>1, <1>2, <1>3, <1>4, <2>1, <2>2, <2>3, <2>4
  <2>6. NextTag(r, o + k) = [tag |-> NextTag(s, o).tag, next |-> NextTag(s, o).next + k]
    BY <2>5, TagShift
  <2> QED
    BY <2>2, <2>3, <2>4, <2>6
<1>7. Further1(c, k).off = c.off + k
  BY <1>2, <1>3, FurtherOff
<1> QED
  BY <1>3, <1>5, <1>6, <1>7 DEF Word

LEMMA MendVisited ==
  ASSUME NEW t, Sane(t), NEW u, NEW a, NEW b, NEW d, Mends(t, u, a, b, d)
  PROVE  Visited(u) = Upto(t, Start, a) \cup Upto(u, a, Further1(b, d)) \cup Moved(From(t, b), d)
<1> DEFINE e == Further1(b, d)
<1>1. /\ a \in Visited(t) /\ b \in Visited(t) /\ d \in Int /\ Legible(u.struct) /\ Legible(t.struct)
      /\ e \in From(u, a) /\ a \in Cursors /\ b \in Cursors
      /\ Start \in Cursors /\ Visited(t) = From(t, Start) /\ Visited(u) = From(u, Start)
      /\ From(t, b) \subseteq Visited(t)
  BY StartIs, Met, VisitedFrom DEF Mends, Visited
<1>2. From(u, Start) = Upto(t, Start, a) \cup From(u, a)
  <2>1. ASSUME NEW c \in From(t, Start), c.off < a.off PROVE Hop(u, c) = Hop(t, c)
    <3>1. PICK k \in Int : k = 0
      OBVIOUS
    <3>2. ReadAlike(t, u, c, k)
      BY <1>1, <2>1, <3>1, MendAlike
    <3>3. c \in Cursors /\ Hop(t, c) \in Cursors
      BY <1>1, FromCursors, HopOn
    <3>4. Further1(c, k) = c /\ Further1(Hop(t, c), k) = Hop(t, c)
      BY <3>1, <3>3, FurtherOff
    <3> QED
      BY <3>2, <3>4 DEF ReadAlike
  <2> QED
    BY <1>1, <2>1, FromJoinHere
<1>3. From(u, a) = Upto(u, a, e) \cup From(u, e)
  BY <1>1, FromJoinHere
<1>4. From(u, e) = Moved(From(t, b), d)
  <2>1. ASSUME NEW c \in From(t, b) PROVE Hop(u, Further1(c, d)) = Further1(Hop(t, c), d)
    <3>1. c = b \/ c.off > b.off
      BY <1>1, FromOrder
    <3>2. c \in Visited(t) /\ c.off >= b.off
      BY <1>1, <3>1, Met
    <3>3. ReadAlike(t, u, c, d)
      BY <3>2, MendAlike
    <3> QED
      BY <3>3 DEF ReadAlike
  <2> QED
    BY <1>1, <2>1, FromShift
<1> QED
  BY <1>1, <1>2, <1>3, <1>4

(* Whether a cursor is at the end of the structure or at a tag with no     *)
(* other inside.                                                           *)
ReadAt(t, c) ==
  /\ Stops(t, c) => EndsWell(t, c) /\ Word(t, c).next = Len(t.struct)
  /\ \A i \in c.off + 2 .. Word(t, c).next : t.struct[i][1] # "tag"

LEMMA MendOuter ==
  ASSUME NEW t, Sane(t), NEW u, NEW a, NEW b, NEW d, Mends(t, u, a, b, d), NEW c \in Visited(t), NEW k,
         (c.off < a.off /\ k = 0) \/ (c.off >= b.off /\ k = d)
  PROVE  ReadAt(u, Further1(c, k)) /\ Note(u, Further1(c, k)) = NoteThere(Note(t, c), k)
<1> DEFINE e == Further1(c, k)
<1>1. /\ ReadAlike(t, u, c, k) /\ e.off = c.off + k /\ k \in Int
      /\ Word(u, e) = [tag |-> Word(t, c).tag, next |-> Word(t, c).next + k]
      /\ \A i \in c.off + 1 .. Word(t, c).next : u.struct[i + k] = t.struct[i]
  BY MendAlike
<1>2. /\ c.off \in 0 .. Len(t.struct) - 1 /\ Word(t, c).next \in c.off + 1 .. Len(t.struct)
      /\ Len(t.struct) \in Nat /\ (Stops(t, c) => ~c.inTree /\ Word(t, c).next = Len(t.struct))
      /\ (Stops(t, c) <=> Word(t, c).tag = "end") /\ c \in Cursors
      /\ \A i \in c.off + 2 .. Word(t, c).next : t.struct[i][1] # "tag"
  BY Met
<1>3. Stops(u, e) = Stops(t, c) /\ Begins(u, e) = Begins(t, c) /\ Carries(u, e) = Carries(t, c)
      /\ (Begins(t, c) => Began(u.struct, e) = Began(t.struct, c))
      /\ (Carries(t, c) => PropAt(u, e) = PropAt(t, c))
  BY <1>1 DEF ReadAlike
<1>4. e.path = c.path /\ e.inTree = c.inTree
  BY DEF Further1
<1>5. Len(u.struct) = Len(t.struct) + d /\ Len(u.struct) \in Nat /\ d \in Int
      /\ a \in Visited(t) /\ b \in Visited(t) /\ a.off <= b.off
  BY DEF Mends, Legible
<1>6. Word(u, e).tag = Word(t, c).tag /\ Word(u, e).next = Word(t, c).next + k
  BY <1>1
<1>7. Stops(t, c) => k = d
  <2> SUFFICES ASSUME Stops(t, c), c.off < a.off PROVE FALSE
    OBVIOUS
  <2>1. Start \in Cursors /\ Visited(t) = From(t, Start) /\ Legible(t.struct)
    BY StartIs DEF Visited, Sane
  <2> QED
    BY <1>5, <2>1, FromNext
<1>8. Stops(u, e) => EndsWell(u, e) /\ Word(u, e).next = Len(u.struct)
  <2> SUFFICES ASSUME Stops(u, e) PROVE EndsWell(u, e) /\ Word(u, e).next = Len(u.struct)
    OBVIOUS
  <2>1. Stops(t, c) /\ k = d
    BY <1>3, <1>7
  <2>2. Word(u, e).tag = "end" /\ ~e.inTree /\ Word(u, e).next = Len(u.struct)
    BY <1>2, <1>4, <1>5, <1>6, <2>1
  <2>3. Word(u, e).next >= 0
    BY <1>5, <2>2
  <2> QED
    BY <2>2, <2>3 DEF EndsWell, Word
<1>9. ASSUME NEW i \in e.off + 2 .. Word(u, e).next PROVE u.struct[i][1] # "tag"
  <2> DEFINE j == i - k
  <2>1. j \in c.off + 2 .. Word(t, c).next /\ j \in c.off + 1 .. Word(t, c).next /\ i = j + k
    <3>1. i \in Int /\ i >= e.off + 2 /\ i <= Word(u, e).next
      BY <1>1, <1>2, <1>6
    <3> QED
      BY SMTT(30), <1>1, <1>2, <1>6, <3>1
  <2> HIDE DEF j
  <2> QED
    BY <1>1, <1>2, <2>1
<1>10. Note(u, e) = NoteThere(Note(t, c), k)
  <2>1. Note(u, e).off = c.off + k
    BY <1>1 DEF Note
  <2> HIDE DEF e
  <2> QED
    BY <1>1, <1>3, <1>4, <1>6 DEF Note, NoteThere, Word
<1> QED
  BY <1>8, <1>9, <1>10 DEF ReadAt

LEMMA MendNotes ==
  ASSUME NEW t, Sane(t), NEW u, NEW a, NEW b, NEW d, Mends(t, u, a, b, d),
         \A x \in Upto(u, a, Further1(b, d)) : ReadAt(u, x)
  PROVE  /\ Sane(u)
         /\ Notes(u) = {n \in Notes(t) : n.off < a.off}
                       \cup {Note(u, x) : x \in Upto(u, a, Further1(b, d))}
                       \cup {NoteThere(n, d) : n \in {m \in Notes(t) : m.off >= b.off}}
<1> DEFINE M == Upto(u, a, Further1(b, d))
<1>1. Visited(u) = Upto(t, Start, a) \cup M \cup Moved(From(t, b), d)
  BY MendVisited
<1>2. /\ a \in Visited(t) /\ b \in Visited(t) /\ d \in Int /\ Legible(u.struct) /\ Legible(t.struct)
      /\ Visited(t) = From(t, Start) /\ Start \in Cursors /\ From(t, b) \subseteq Visited(t)
  BY StartIs, VisitedFrom DEF Mends, Visited, Sane
<1>3. ASSUME NEW c \in Upto(t, Start, a)
      PROVE  c \in Visited(t) /\ c.off < a.off /\ ReadAt(u, c) /\ Note(u, c) = Note(t, c)
  <2>1. c \in Visited(t) /\ c.off < a.off
    BY <1>2 DEF Upto
  <2>2. PICK k \in Int : k = 0
    OBVIOUS
  <2>3. ReadAt(u, Further1(c, k)) /\ Note(u, Further1(c, k)) = NoteThere(Note(t, c), k)
    BY <2>1, <2>2, MendOuter
  <2>4. Further1(c, k) = c
    BY <2>1, <2>2, Met, FurtherOff
  <2>5. NoteThere(Note(t, c), k) = Note(t, c)
    <3>1. c.off \in Int /\ c.off + k = c.off
      BY <2>1, <2>2, Met
    <3> QED
      BY <3>1 DEF Note, NoteThere
  <2> QED
    BY <2>1, <2>3, <2>4, <2>5
<1>4. \A c \in From(t, b) : c \in Visited(t) /\ c.off >= b.off
  <2>1. b \in Cursors /\ b.off \in Int
    BY <1>2, Met
  <2>2. \A c \in From(t, b) : c = b \/ c.off > b.off
    BY <1>2, <2>1, FromOrder
  <2>3. \A c \in From(t, b) : c \in Visited(t) /\ c.off \in Int
    BY <1>2, Met
  <2> QED
    BY <2>1, <2>2, <2>3
<1>5. ASSUME NEW c \in From(t, b)
      PROVE  ReadAt(u, Further1(c, d)) /\ Note(u, Further1(c, d)) = NoteThere(Note(t, c), d)
  BY <1>4, MendOuter
<1>6. Sane(u)
  <2>1. ASSUME NEW x \in Visited(u) PROVE ReadAt(u, x)
    BY <1>1, <1>3, <1>5 DEF Moved
  <2> QED
    BY <1>2, <2>1 DEF Sane, ReadsThrough, ReadAt, Word
<1>7. {n \in Notes(t) : n.off < a.off} = {Note(u, x) : x \in Upto(t, Start, a)}
  <2>1. \A c \in Visited(t) : Note(t, c).off = c.off
    BY DEF Note
  <2>2. \A c \in Visited(t) : c.off < a.off => c \in Upto(t, Start, a)
    BY <1>2 DEF Upto
  <2>3. {n \in Notes(t) : n.off < a.off} = {Note(t, x) : x \in Upto(t, Start, a)}
    <3> HIDE DEF M
    <3> QED
      BY <1>3, <2>1, <2>2 DEF Notes
  <2> QED
    BY <1>3, <2>3
<1>8. {NoteThere(n, d) : n \in {m \in Notes(t) : m.off >= b.off}} = {Note(u, x) : x \in Moved(From(t, b), d)}
  <2>1. \A c \in Visited(t) : Note(t, c).off = c.off
    BY DEF Note
  <2>2. \A c \in Visited(t) : c.off >= b.off => c \in From(t, b)
    <3> TAKE c \in Visited(t)
    <3>1. c.off \in Int /\ b.off \in Int /\ (c.off >= b.off => b.off <= c.off)
      BY <1>2, Met
    <3> QED
      BY <1>2, <3>1, FromOffsets
  <2>3. {m \in Notes(t) : m.off >= b.off} = {Note(t, x) : x \in From(t, b)}
    BY <1>4, <2>1, <2>2 DEF Notes
  <2> QED
    BY <1>5, <2>3 DEF Moved
<1>9. Notes(u) = {Note(u, x) : x \in Upto(t, Start, a)} \cup {Note(u, x) : x \in M}
                 \cup {Note(u, x) : x \in Moved(From(t, b), d)}
  <2> HIDE DEF M
  <2> QED
    BY <1>1 DEF Notes
<1> QED
  BY <1>6, <1>7, <1>8, <1>9

(* Notes from lo to hi give way to those of M, d more.                     *)
Changed(N, M, lo, hi, d) ==
  {n \in N : n.off < lo} \cup M \cup {NoteThere(n, d) : n \in {m \in N : m.off >= hi}}

Beside(N, lo, hi) == {n \in N : n.off < lo \/ n.off >= hi}

Minor == {"prop", "nop"}

LEMMA ThereIs == ASSUME NEW n, NEW d
                 PROVE  /\ NoteThere(n, d).off = n.off + d /\ NoteThere(n, d).tag = n.tag
                        /\ NoteThere(n, d).path = n.path /\ NoteThere(n, d).prop = n.prop
  BY DEF NoteThere

(* Where a note comes from.                                                *)
LEMMA Origin ==
  ASSUME NEW N, \A n \in N : n.off \in Int, NEW M, NEW lo \in Int, NEW hi \in Int, NEW d \in Int, lo <= hi,
         NEW x \in Changed(N, M, lo, hi, d), x \notin M
  PROVE  \E n \in Beside(N, lo, hi) :
           /\ n.tag = x.tag /\ n.path = x.path /\ n.prop = x.prop
           /\ (n.off < lo /\ x = n) \/ (n.off >= hi /\ x = NoteThere(n, d))
  BY ThereIs DEF Changed, Beside

LEMMA SameOrigin ==
  ASSUME NEW N, \A n \in N : n.off \in Int, NEW lo \in Int, NEW hi \in Int, NEW d \in Int, lo <= hi, NEW x, NEW y,
         NEW n \in N, (n.off < lo /\ x = n) \/ (n.off >= hi /\ x = NoteThere(n, d)),
         (n.off < lo /\ y = n) \/ (n.off >= hi /\ y = NoteThere(n, d))
  PROVE  x = y
<1>1. n.off \in Int
  OBVIOUS
<1>2. ~(n.off < lo /\ n.off >= hi)
  BY <1>1
<1> QED
  BY <1>2

LEMMA TidyChanged ==
  ASSUME NEW N, Tidy(N), \A n \in N : n.off \in Int,
         NEW lo \in Int, NEW hi \in Int, NEW d \in Int, lo <= hi, hi + d >= lo, 0 < hi,
         NEW M, \A m \in M : m.off \in Int /\ lo <= m.off /\ m.off < hi + d,
         \A m \in M : m.tag = "begin" =>
           /\ m.path # <<>>
           /\ \A n \in Beside(N, lo, hi) : n.tag = "begin" => n.path # m.path
           /\ \A n \in M : n.tag = "begin" /\ n.path = m.path => n = m,
         \A m \in M : m.tag = "prop" =>
           /\ \A n \in Beside(N, lo, hi) : n.tag = "prop" => n.path # m.path \/ n.prop[2] # m.prop[2]
           /\ \A n \in M : n.tag = "prop" /\ n.path = m.path /\ n.prop[2] = m.prop[2] => n = m
           /\ \E y \in N : /\ y.tag = "begin" /\ y.path = m.path /\ y.off < lo
                           /\ \A z \in N : y.off < z.off /\ z.off < lo => z.tag \in Minor
           /\ \A z \in M : z.off <= m.off => z.tag \in Minor,
         (\A m \in M : m.tag \in Minor) \/ (\E z \in N : z.off = hi /\ z.tag \notin Minor),
         \A n \in N : n.tag = "begin" /\ lo <= n.off /\ n.off < hi =>
           \A x \in Beside(N, lo, hi) : x.tag = "prop" => x.path # n.path
  PROVE  Tidy(Changed(N, M, lo, hi, d))
<1> DEFINE N2 == Changed(N, M, lo, hi, d)
           B  == Beside(N, lo, hi)
           Of(n, x) == (n.off < lo /\ x = n) \/ (n.off >= hi /\ x = NoteThere(n, d))
<1>1. ASSUME NEW x \in N2, x \notin M
      PROVE  \E n \in B : n.tag = x.tag /\ n.path = x.path /\ n.prop = x.prop /\ Of(n, x)
  BY <1>1, Origin
<1>2. \A n \in B : \A x, y : Of(n, x) /\ Of(n, y) => x = y
  BY SameOrigin DEF Beside
<1>3. B \in SUBSET N
  BY DEF Beside
<1>4. ASSUME NEW x \in N2, NEW y \in N2, x.tag = "begin", y.tag = "begin", x.path = y.path PROVE x = y
  <2>1. CASE x \in M /\ y \in M
    BY <1>4, <2>1
  <2>2. CASE x \in M /\ y \notin M
    BY <1>1, <1>4, <2>2
  <2>3. CASE x \notin M /\ y \in M
    BY <1>1, <1>4, <2>3
  <2>4. CASE x \notin M /\ y \notin M
    <3>1. PICK n \in B : n.tag = x.tag /\ n.path = x.path /\ Of(n, x)
      BY <1>1, <2>4
    <3>2. PICK m \in B : m.tag = y.tag /\ m.path = y.path /\ Of(m, y)
      BY <1>1, <2>4
    <3>3. n = m
      BY <1>3, <1>4, <3>1, <3>2 DEF Tidy
    <3> HIDE DEF Of
    <3> QED
      BY <1>2, <3>1, <3>2, <3>3
  <2> QED
    BY <2>1, <2>2, <2>3, <2>4
<1>5. ASSUME NEW x \in N2, NEW y \in N2, x.tag = "prop", y.tag = "prop", x.path = y.path,
             x.prop[2] = y.prop[2]
      PROVE  x = y
  <2>1. CASE x \in M /\ y \in M
    BY <1>5, <2>1
  <2>2. CASE x \in M /\ y \notin M
    BY <1>1, <1>5, <2>2
  <2>3. CASE x \notin M /\ y \in M
    BY <1>1, <1>5, <2>3
  <2>4. CASE x \notin M /\ y \notin M
    <3>1. PICK n \in B : n.tag = x.tag /\ n.path = x.path /\ n.prop = x.prop /\ Of(n, x)
      BY <1>1, <2>4
    <3>2. PICK m \in B : m.tag = y.tag /\ m.path = y.path /\ m.prop = y.prop /\ Of(m, y)
      BY <1>1, <2>4
    <3>3. n = m
      BY <1>3, <1>5, <3>1, <3>2 DEF Tidy
    <3> HIDE DEF Of
    <3> QED
      BY <1>2, <3>1, <3>2, <3>3
  <2> QED
    BY <2>1, <2>2, <2>3, <2>4
<1>6. ASSUME NEW x \in N2, x.tag = "begin", x.path = <<>> PROVE x.off = 0
  <2>1. x \notin M
    BY <1>6
  <2>2. PICK n \in B : n.tag = x.tag /\ n.path = x.path /\ Of(n, x)
    BY <1>1, <2>1
  <2>3. n.off = 0
    BY <1>3, <1>6, <2>2 DEF Tidy
  <2>4. ~(n.off >= hi)
    BY <2>3
  <2> QED
    BY <2>2, <2>3, <2>4
<1>7. ASSUME NEW x \in N2, x.tag = "prop"
      PROVE  \E y \in N2 : /\ y.tag = "begin" /\ y.path = x.path /\ y.off < x.off
                           /\ \A z \in N2 : y.off < z.off /\ z.off <= x.off => z.tag \in Minor
  <2>0. \A n \in N : (n.off < lo => n \in N2) /\ (n.off >= hi => NoteThere(n, d) \in N2)
    BY DEF Changed
  <2>1. CASE x \in M
    <3>1. PICK y \in N : /\ y.tag = "begin" /\ y.path = x.path /\ y.off < lo
                         /\ \A z \in N : y.off < z.off /\ z.off < lo => z.tag \in Minor
      BY <1>7, <2>1
    <3>2. y \in N2 /\ y.off < x.off
      <4>1. y.off \in Int /\ x.off \in Int /\ lo <= x.off
        BY <2>1
      <4> QED
        BY <2>0, <3>1, <4>1
    <3>3. ASSUME NEW z \in N2, y.off < z.off, z.off <= x.off PROVE z.tag \in Minor
      <4>1. CASE z \in M
        BY <1>7, <2>1, <3>3, <4>1
      <4>2. CASE z \notin M
        <5>1. PICK n \in B : n.tag = z.tag /\ Of(n, z)
          BY <1>1, <4>2
        <5>2. ~(n.off >= hi /\ z = NoteThere(n, d))
          <6> SUFFICES ASSUME n.off >= hi, z = NoteThere(n, d) PROVE FALSE
            OBVIOUS
          <6>1. z.off = n.off + d /\ n.off \in Int /\ x.off \in Int /\ x.off < hi + d
            BY <1>3, <2>1, ThereIs
          <6> QED
            BY <3>3, <6>1
        <5> QED
          BY <1>3, <3>1, <3>3, <5>1, <5>2
      <4> QED
        BY <4>1, <4>2
    <3> QED
      BY <3>1, <3>2, <3>3
  <2>2. CASE x \notin M
    <3>1. PICK n \in B : n.tag = x.tag /\ n.path = x.path /\ Of(n, x)
      BY <1>1, <2>2
    <3>2. PICK y \in N : /\ y.tag = "begin" /\ y.path = n.path /\ y.off < n.off
                         /\ \A z \in N : y.off < z.off /\ z.off <= n.off => z.tag \in Minor
      BY <1>3, <1>7, <3>1 DEF Tidy, Minor
    <3>3. n \in N /\ n.off \in Int /\ y.off \in Int
      BY <1>3
    <3>4. y \in B
      <4>1. ~(lo <= y.off /\ y.off < hi)
        BY <1>7, <3>1, <3>2
      <4> QED
        BY <3>3, <4>1 DEF Beside
    <3>5. CASE n.off < lo
      <4>1. x = n /\ y.off < lo /\ y \in N2
        BY <2>0, <3>1, <3>2, <3>3, <3>5
      <4>2. ASSUME NEW z \in N2, y.off < z.off, z.off <= x.off PROVE z.tag \in Minor
        <5>1. z \notin M
          BY <3>3, <3>5, <4>1, <4>2
        <5>2. PICK m \in B : m.tag = z.tag /\ Of(m, z)
          BY <1>1, <5>1
        <5>3. ~(m.off >= hi /\ z = NoteThere(m, d))
          <6> SUFFICES ASSUME m.off >= hi, z = NoteThere(m, d) PROVE FALSE
            OBVIOUS
          <6>1. z.off = m.off + d /\ m.off \in Int
            BY <1>3, ThereIs
          <6> QED
            BY <3>3, <3>5, <4>1, <4>2, <6>1
        <5> QED
          BY <1>3, <3>2, <4>1, <4>2, <5>2, <5>3
      <4> QED
        BY <3>1, <3>2, <4>1, <4>2
    <3>6. CASE n.off >= hi
      <4>0. x = NoteThere(n, d) /\ x.off = n.off + d
        <5>1. ~(n.off < lo)
          BY <3>3, <3>6
        <5> QED
          BY <3>1, <5>1, ThereIs
      <4>1. CASE y.off < lo
        <5>1. y \in N2 /\ y.off < x.off
          BY <2>0, <3>3, <3>6, <4>0, <4>1
        <5>2. ASSUME NEW z \in N2, y.off < z.off, z.off <= x.off PROVE z.tag \in Minor
          <6>1. CASE z \in M
            <7>1. CASE \A m \in M : m.tag \in Minor
              BY <6>1, <7>1
            <7>2. CASE \E v \in N : v.off = hi /\ v.tag \notin Minor
              <8>1. PICK v \in N : v.off = hi /\ v.tag \notin Minor
                BY <7>2
              <8>2. y.off < v.off /\ v.off <= n.off
                BY <3>3, <3>6, <4>1, <8>1
              <8> QED
                BY <3>2, <8>1, <8>2
            <7> QED
              BY <7>1, <7>2
          <6>2. CASE z \notin M
            <7>1. PICK m \in B : m.tag = z.tag /\ Of(m, z)
              BY <1>1, <6>2
            <7>2. m \in N /\ m.off \in Int
              BY <1>3
            <7>3. y.off < m.off /\ m.off <= n.off
              <8>1. CASE m.off < lo /\ z = m
                BY <3>3, <3>6, <5>2, <7>2, <8>1
              <8>2. CASE m.off >= hi /\ z = NoteThere(m, d)
                <9>1. z.off = m.off + d
                  BY <8>2, ThereIs
                <9> QED
                  BY <3>3, <4>0, <4>1, <5>2, <7>2, <8>2, <9>1
              <8> QED
                BY <7>1, <8>1, <8>2
            <7> QED
              BY <3>2, <7>1, <7>2, <7>3
          <6> QED
            BY <6>1, <6>2
        <5> QED
          BY <3>1, <3>2, <5>1, <5>2
      <4>2. CASE y.off >= hi
        <5> DEFINE v == NoteThere(y, d)
        <5>1. v \in N2 /\ v.off = y.off + d /\ v.off < x.off /\ v.tag = "begin" /\ v.path = x.path
          <6>1. v.off = y.off + d /\ v.tag = y.tag /\ v.path = y.path /\ v \in N2
            BY <2>0, <4>2, ThereIs
          <6> HIDE DEF v
          <6> QED
            BY <3>1, <3>2, <3>3, <4>0, <6>1
        <5> HIDE DEF v
        <5>2. ASSUME NEW z \in N2, v.off < z.off, z.off <= x.off PROVE z.tag \in Minor
          <6>1. z \notin M
            BY <3>3, <4>2, <5>1, <5>2
          <6>2. PICK m \in B : m.tag = z.tag /\ Of(m, z)
            BY <1>1, <6>1
          <6>3. m \in N /\ m.off \in Int
            BY <1>3
          <6>4. y.off < m.off /\ m.off <= n.off
            <7>1. ~(m.off < lo /\ z = m)
              BY <3>3, <4>2, <5>1, <5>2, <6>3
            <7>2. z.off = m.off + d
              BY <6>2, <7>1, ThereIs
            <7> QED
              BY <3>3, <4>0, <5>1, <5>2, <6>3, <7>2
          <6> QED
            BY <3>2, <6>2, <6>3, <6>4
        <5> QED
          BY <5>1, <5>2
      <4> QED
        BY <3>3, <3>4, <4>1, <4>2 DEF Beside
    <3> QED
      BY <3>1, <3>5, <3>6
  <2> QED
    BY <2>1, <2>2
<1> HIDE DEF N2
<1>8. Tidy(N2)
  BY <1>4, <1>5, <1>6, <1>7 DEF Tidy, Minor
<1> QED
  BY <1>8 DEF N2

(* What notes say about the tree.                                          *)
Nodes(N) == {n.path : n \in {m \in N : m.tag = "begin"}}
Props(N) == {n.prop : n \in {m \in N : m.tag = "prop"}}
Where(N) == {<<n.path, n.off>> : n \in {m \in N : m.tag = "begin"}}

LEMMA NotesAre ==
  ASSUME NEW t, Sane(t), NEW n \in Notes(t)
  PROVE  /\ n.off \in Int /\ n.off >= 0 /\ n.tag \in Tags
         /\ n.tag = "prop" => n.prop[1] = n.path /\ n.prop = <<n.path, n.prop[2], n.prop[3]>>
         /\ \E c \in Visited(t) : n = Note(t, c) /\ n.off = c.off /\ n.tag = Word(t, c).tag
<1>1. PICK c \in Visited(t) : n = Note(t, c)
  BY DEF Notes
<1>2. /\ n.off = c.off /\ n.tag = Word(t, c).tag
      /\ Word(t, c).tag = "prop" => n.prop = PropAt(t, c) /\ n.path = c.path
  BY <1>1, NoteIs
<1>3. c.off \in 0 .. Len(t.struct) - 1 /\ Len(t.struct) \in Nat /\ Word(t, c).tag \in Tags
  BY Met
<1>4. n.tag = "prop" => n.prop[1] = n.path /\ n.prop = <<n.path, n.prop[2], n.prop[3]>>
  BY <1>2 DEF PropAt
<1> QED
  BY <1>1, <1>2, <1>3, <1>4

LEMMA MeaningIs ==
  ASSUME NEW t, Sane(t)
  PROVE  /\ TreeOf(t).ok = TRUE /\ TreeOf(t).nodes = Nodes(Notes(t)) /\ TreeOf(t).props = Props(Notes(t))
         /\ TreeOf(t).where = Where(Notes(t))
<1>1. TreeOf(t) = MeaningOf(t, Visited(t))
  BY TreeIs DEF Sane
<1>2. \A c \in Visited(t) : Stops(t, c) => EndsWell(t, c)
  BY DEF Sane, ReadsThrough
<1>3. \A c \in Visited(t) : /\ Note(t, c).off = c.off
                            /\ Note(t, c).tag = "begin" <=> Begins(t, c)
                            /\ Note(t, c).tag = "prop" <=> Carries(t, c)
                            /\ Begins(t, c) => Note(t, c).path = Began(t.struct, c)
                            /\ Carries(t, c) => Note(t, c).prop = PropAt(t, c)
  <2> TAKE c \in Visited(t)
  <2>1. Word(t, c).tag = "prop" => Carries(t, c)
    BY MetTag
  <2> QED
    BY <2>1, NoteIs DEF Begins, Carries, Word
<1>4. Nodes(Notes(t)) = {Began(t.struct, c) : c \in {e \in Visited(t) : Begins(t, e)}}
  BY <1>3 DEF Notes, Nodes
<1>5. Props(Notes(t)) = {PropAt(t, c) : c \in {e \in Visited(t) : Carries(t, e)}}
  BY <1>3 DEF Notes, Props
<1>6. Where(Notes(t)) = {<<Began(t.struct, c), c.off>> : c \in {e \in Visited(t) : Begins(t, e)}}
  BY <1>3 DEF Notes, Where
<1>7. (\A c \in Visited(t) : Stops(t, c) => EndsWell(t, c)) = TRUE
  BY <1>2
<1> QED
  BY <1>1, <1>4, <1>5, <1>6, <1>7 DEF MeaningOf

LEMMA ChangedMeaning ==
  ASSUME NEW N, NEW M, NEW lo, NEW hi, NEW d
  PROVE  /\ Nodes(Changed(N, M, lo, hi, d)) = Nodes(Beside(N, lo, hi)) \cup Nodes(M)
         /\ Props(Changed(N, M, lo, hi, d)) = Props(Beside(N, lo, hi)) \cup Props(M)
<1> DEFINE C == Changed(N, M, lo, hi, d)
           B == Beside(N, lo, hi)
<1>1. \A x \in C : x \in M \/ \E n \in B : n.tag = x.tag /\ n.path = x.path /\ n.prop = x.prop
  BY ThereIs DEF Changed, Beside
<1>2. \A n \in B : \E x \in C : n.tag = x.tag /\ n.path = x.path /\ n.prop = x.prop
  BY ThereIs DEF Changed, Beside
<1>3. M \subseteq C
  BY DEF Changed
<1> HIDE DEF C, B
<1>4. Nodes(C) = Nodes(B) \cup Nodes(M)
  BY <1>1, <1>2, <1>3 DEF Nodes
<1>5. Props(C) = Props(B) \cup Props(M)
  BY <1>1, <1>2, <1>3 DEF Props
<1> QED
  BY <1>4, <1>5 DEF B, C

(* Between a tag and the next there is no other.                           *)
LEMMA OneNote ==
  ASSUME NEW t, Sane(t), NEW x \in Visited(t), NEW n \in Notes(t), x.off <= n.off, n.off < Hop(t, x).off
  PROVE  n = Note(t, x)
<1>1. PICK c \in Visited(t) : n = Note(t, c) /\ n.off = c.off
  BY NotesAre
<1>2. c.off \in Int /\ x.off \in Int /\ Hop(t, x).off \in Int
  <2>1. Hop(t, x) \in Visited(t)
    BY Met
  <2> QED
    BY <2>1, Met
<1>3. Start \in Cursors /\ Visited(t) = From(t, Start) /\ Legible(t.struct)
  BY StartIs DEF Visited, Sane
<1>4. ~(c.off > x.off)
  <2> SUFFICES ASSUME c.off > x.off PROVE FALSE
    OBVIOUS
  <2>1. c.off >= Hop(t, x).off
    BY <1>3, FromNext
  <2> QED
    BY <1>1, <1>2, <2>1
<1>5. c.off = x.off
  BY <1>1, <1>2, <1>4
<1> QED
  BY <1>1, <1>5, SameOff

(* The notes between the begin tag and the end of a node.                  *)
LEMMA NodeNotes ==
  ASSUME NEW t, Whole(t), NEW c \in Visited(t), Begins(t, c), NEW e \in Visited(t), Closes(t, c, e),
         NEW n \in Notes(t), n.tag \in {"begin", "prop"}
  PROVE  c.off <= n.off /\ n.off < Hop(t, e).off <=> Heads(Began(t.struct, c), n.path)
<1> DEFINE q == Began(t.struct, c)
           b == Hop(t, e)
<1>0. Sane(t)
  BY DEF Whole
<1>1. PICK x \in Visited(t) : n = Note(t, x) /\ n.off = x.off /\ n.tag = Word(t, x).tag
  BY <1>0, NotesAre
<1>2. /\ e.off < b.off /\ c.off < e.off /\ c.off \in Int /\ e.off \in Int /\ b.off \in Int
      /\ q \in Paths
      /\ \A y \in Visited(t) : c.off < y.off /\ y.off < b.off => y.inTree /\ Heads(q, y.path)
      /\ \A y \in Visited(t) : y.inTree /\ Heads(q, y.path) => c.off < y.off /\ y.off < b.off
  BY NodeSpan
<1>3. x.off \in Int /\ x.path \in Paths /\ x.inTree \in BOOLEAN
  BY <1>0, Met DEF Paths
<1>4. (n.tag = "begin" => n.path = Began(t.struct, x)) /\ (n.tag = "prop" => n.path = x.path /\ x.inTree)
  <2>1. n.tag = "begin" => n.path = Began(t.struct, x)
    BY <1>0, <1>1, NoteIs
  <2>2. n.tag = "prop" => n.path = x.path
    BY <1>0, <1>1, NoteIs
  <2>3. n.tag = "prop" => x.inTree
    BY <1>0, <1>1, MetTag
  <2> QED
    BY <2>1, <2>2, <2>3
<1>5. n.tag = "begin" => n.path \in Paths /\ t.struct[x.off + 2][2] \in NodeNames
  BY <1>0, <1>1, <1>4, MetTag DEF Paths
<1>6. c.off <= x.off <=> c.off < x.off \/ x = c
  BY <1>0, <1>2, <1>3, SameOff
<1>7. CASE n.tag = "prop"
  <2>1. x # c
    BY <1>1, <1>7 DEF Begins, Word
  <2> HIDE DEF q, b
  <2> QED
    BY <1>1, <1>2, <1>4, <1>6, <1>7, <2>1 DEF q, b
<1>8. CASE n.tag = "begin"
  <2>1. CASE x = c
    <3>1. n.path = q /\ Heads(q, q)
      BY <1>2, <1>4, <1>8, <2>1, HeadsSame
    <3>2. c.off <= n.off /\ n.off < b.off
      BY <1>1, <1>2, <2>1
    <3> QED
      BY <3>1, <3>2
  <2>2. CASE x # c
    <3>1. n.path # q
      <4>1. Begins(t, x)
        BY <1>1, <1>8 DEF Begins, Word
      <4> QED
        BY <1>4, <1>8, <2>2, <4>1, OneNode
    <3>2. Heads(q, n.path) <=> x.inTree /\ Heads(q, x.path)
      <4>1. CASE x.inTree
        <5>1. n.path = Append(x.path, t.struct[x.off + 2][2])
          BY <1>4, <1>8, <4>1 DEF Began
        <5>2. Heads(q, n.path) => Heads(q, x.path)
          BY <1>2, <1>3, <1>5, <1>8, <3>1, <5>1, HeadsLonger
        <5>3. Heads(q, x.path) => Heads(q, n.path)
          BY <1>2, <1>3, <1>5, <1>8, <5>1, HeadsLonger
        <5> QED
          BY <4>1, <5>2, <5>3
      <4>2. CASE ~x.inTree
        <5>1. n.path = <<>>
          BY <1>4, <1>8, <4>2 DEF Began
        <5>2. ~Heads(q, <<>>)
          <6>1. q # <<>>
            BY <3>1, <5>1
          <6>2. Len(q) \in Nat /\ Len(q) # 0
            BY <1>2, <6>1, UpIs
          <6>3. Len(<<>>) = 0
            OBVIOUS
          <6> QED
            BY <6>2, <6>3 DEF Heads
        <5> QED
          BY <4>2, <5>1, <5>2
      <4> QED
        BY <1>3, <4>1, <4>2
    <3> HIDE DEF q, b
    <3> QED
      BY <1>1, <1>2, <1>6, <2>2, <3>2 DEF q, b
  <2> QED
    BY <2>1, <2>2
<1> QED
  BY <1>7, <1>8

(* The notes on the words that are new.                                    *)
NewNotes(u, a, b, d) == {Note(u, x) : x \in Upto(u, a, Further1(b, d))}

LEMMA Mended ==
  ASSUME NEW t, Sane(t), NEW u, NEW a, NEW b, NEW d, Mends(t, u, a, b, d),
         \A x \in Upto(u, a, Further1(b, d)) : ReadAt(u, x)
  PROVE  LET N == Notes(t)
             M == NewNotes(u, a, b, d)
         IN  /\ Sane(u) /\ Notes(u) = Changed(N, M, a.off, b.off, d)
             /\ a.off \in Int /\ b.off \in Int /\ d \in Int /\ a.off <= b.off /\ b.off + d >= a.off
             /\ \A n \in N : n.off \in Int /\ n.off >= 0
             /\ \A m \in M : m.off \in Int /\ a.off <= m.off /\ m.off < b.off + d
<1>1. /\ a \in Visited(t) /\ b \in Visited(t) /\ a.off <= b.off /\ d \in Int /\ b.off + d >= a.off
      /\ a \in Cursors /\ b \in Cursors /\ a.off \in Int /\ b.off \in Int /\ Legible(u.struct)
  BY Met DEF Mends
<1>2. Sane(u) /\ Notes(u) = Changed(Notes(t), NewNotes(u, a, b, d), a.off, b.off, d)
  BY MendNotes DEF Changed, NewNotes
<1>3. \A n \in Notes(t) : n.off \in Int /\ n.off >= 0
  BY NotesAre
<1>4. ASSUME NEW m \in NewNotes(u, a, b, d) PROVE m.off \in Int /\ a.off <= m.off /\ m.off < b.off + d
  <2>1. PICK x \in Upto(u, a, Further1(b, d)) : m = Note(u, x)
    BY DEF NewNotes
  <2>2. x \in From(u, a) /\ x.off < b.off + d /\ m.off = x.off /\ x \in Cursors
    BY <1>1, <2>1, FurtherOff, FromCursors DEF Upto, Note
  <2>3. x = a \/ x.off > a.off
    BY <1>1, <2>2, FromOrder
  <2>4. x.off \in Int
    BY <2>2 DEF Cursors
  <2> QED
    BY <1>1, <2>2, <2>3, <2>4
<1> QED
  BY <1>1, <1>2, <1>3, <1>4

(* Nothing but nops comes where words were removed.                        *)
Removes(t, u, a, b, d) ==
  /\ Mends(t, u, a, b, d)
  /\ \A x \in Upto(u, a, Further1(b, d)) : ReadAt(u, x) /\ Word(u, x).tag = "nop"

LEMMA RemovedOn ==
  ASSUME NEW t, Sane(t), NEW u, NEW a, NEW b, NEW d, Removes(t, u, a, b, d)
  PROVE  /\ \A m \in NewNotes(u, a, b, d) : m.tag = "nop"
         /\ Nodes(Notes(u)) = Nodes(Beside(Notes(t), a.off, b.off))
         /\ Props(Notes(u)) = Props(Beside(Notes(t), a.off, b.off))
<1> DEFINE M == NewNotes(u, a, b, d)
<1>1. \A m \in M : m.tag = "nop"
  BY DEF Removes, NewNotes, Note, Word
<1>2. Notes(u) = Changed(Notes(t), M, a.off, b.off, d)
  BY Mended DEF Removes
<1>3. Nodes(M) = {} /\ Props(M) = {}
  BY <1>1 DEF Nodes, Props
<1> HIDE DEF M
<1>4. /\ Nodes(Notes(u)) = Nodes(Beside(Notes(t), a.off, b.off))
      /\ Props(Notes(u)) = Props(Beside(Notes(t), a.off, b.off))
  BY <1>2, <1>3, ChangedMeaning
<1> QED
  BY <1>1, <1>4 DEF M

LEMMA RemovedTidy ==
  ASSUME NEW t, Whole(t), NEW u, NEW a, NEW b, NEW d, Removes(t, u, a, b, d), 0 < b.off,
         \A n \in Notes(t) : n.tag = "begin" /\ a.off <= n.off /\ n.off < b.off =>
           \A x \in Beside(Notes(t), a.off, b.off) : x.tag = "prop" => x.path # n.path
  PROVE  Whole(u)
<1> DEFINE N == Notes(t)
           M == NewNotes(u, a, b, d)
           lo == a.off
           hi == b.off
<1>1. Sane(t) /\ Tidy(N)
  BY DEF Whole
<1>2. /\ Sane(u) /\ Notes(u) = Changed(N, M, lo, hi, d)
      /\ lo \in Int /\ hi \in Int /\ d \in Int /\ lo <= hi /\ hi + d >= lo
      /\ \A n \in N : n.off \in Int
      /\ \A m \in M : m.off \in Int /\ lo <= m.off /\ m.off < hi + d
  BY <1>1, Mended DEF Removes
<1>3. \A m \in M : m.tag = "nop" /\ m.tag # "begin" /\ m.tag # "prop" /\ m.tag \in Minor
  BY <1>1, RemovedOn DEF Minor
<1>4. 0 < hi /\ \A n \in N : n.tag = "begin" /\ lo <= n.off /\ n.off < hi =>
                  \A x \in Beside(N, lo, hi) : x.tag = "prop" => x.path # n.path
  OBVIOUS
<1> HIDE DEF N, M, lo, hi
<1>5. Tidy(Changed(N, M, lo, hi, d))
  BY <1>1, <1>2, <1>3, <1>4, TidyChanged
<1> QED
  BY <1>2, <1>5 DEF Whole

LEMMA PropRemoved ==
  ASSUME NEW t, Whole(t), NEW x \in Visited(t), Word(t, x).tag = "prop", NEW u, NEW d,
         Removes(t, u, x, Hop(t, x), d)
  PROVE  /\ Whole(u) /\ TreeOf(u).nodes = TreeOf(t).nodes
         /\ TreeOf(u).props = {y \in TreeOf(t).props : y[1] # x.path \/ y[2] # NameAt(t, x)}
<1> DEFINE N == Notes(t)
           lo == x.off
           hi == Hop(t, x).off
           B == Beside(N, lo, hi)
           v == Note(t, x)
<1>1. Sane(t) /\ Tidy(N)
  BY DEF Whole
<1>2. \A n \in N : n.off \in Int /\ (n.tag = "prop" => n.prop[1] = n.path)
  BY <1>1, NotesAre
<1>3. v \in N /\ v.tag = "prop" /\ v.path = x.path /\ v.prop[2] = NameAt(t, x) /\ v.off = lo
  BY <1>1, NoteIs
<1>4. lo \in Int /\ hi \in Int /\ lo < hi /\ 0 < hi
  <2>1. /\ x.off \in 0 .. Len(t.struct) - 1 /\ Len(t.struct) \in Nat
        /\ Word(t, x).next \in x.off + 1 .. Len(t.struct) /\ Hop(t, x).off = Word(t, x).next
    BY <1>1, Met
  <2> HIDE DEF N
  <2> QED
    BY <2>1
<1>5. \A n \in N : n \in B <=> n # v
  <2>1. \A n \in N : lo <= n.off /\ n.off < hi => n = v
    BY <1>1, OneNote
  <2> HIDE DEF N, v, lo, hi
  <2>2. \A n \in N : n \notin B => lo <= n.off /\ n.off < hi
    BY <1>2, <1>4 DEF Beside
  <2>3. v \notin B
    BY <1>3, <1>4 DEF Beside
  <2> QED
    BY <2>1, <2>2, <2>3
<1>6. B \subseteq N
  BY DEF Beside
<1>7. Whole(u) /\ Sane(u)
  <2>1. \A n \in N : n.tag = "begin" => n # v
    BY <1>3
  <2>2. \A n \in N : n.tag = "begin" => ~(lo <= n.off /\ n.off < hi)
    <3> HIDE DEF N, v, lo, hi
    <3> QED
      BY <1>2, <1>4, <1>5, <2>1 DEF Beside
  <2>3. \A n \in N : n.tag = "begin" /\ lo <= n.off /\ n.off < hi =>
          \A y \in Beside(N, lo, hi) : y.tag = "prop" => y.path # n.path
    BY <2>2
  <2>4. Whole(u)
    BY <1>4, <2>3, RemovedTidy
  <2> QED
    BY <2>4 DEF Whole
<1>8. Nodes(Notes(u)) = Nodes(B) /\ Props(Notes(u)) = Props(B)
  BY <1>1, RemovedOn
<1> HIDE DEF N, v, B, lo, hi
<1>9. Nodes(B) = Nodes(N)
  BY <1>3, <1>5, <1>6 DEF Nodes
<1>10. Props(B) = {y \in Props(N) : y[1] # x.path \/ y[2] # NameAt(t, x)}
  <2>1. ASSUME NEW n \in N, n.tag = "prop", n # v PROVE n.path # v.path \/ n.prop[2] # v.prop[2]
    BY <1>1, <1>3, <2>1 DEF Tidy
  <2>2. \A n \in N : n.tag = "prop" => (n \in B <=> (n.prop[1] # x.path \/ n.prop[2] # NameAt(t, x)))
    BY <1>2, <1>3, <1>5, <2>1
  <2> QED
    BY <1>6, <2>2 DEF Props
<1> QED
  BY <1>1, <1>7, <1>8, <1>9, <1>10, MeaningIs DEF N

LEMMA NodeRemoved ==
  ASSUME NEW t, Whole(t), NEW c \in Visited(t), Begins(t, c), NEW e \in Visited(t), Closes(t, c, e),
         NEW u, NEW d, Removes(t, u, c, Hop(t, e), d)
  PROVE  LET q == Began(t.struct, c)
         IN  /\ Whole(u) /\ TreeOf(u).nodes = {p \in TreeOf(t).nodes : ~Heads(q, p)}
             /\ TreeOf(u).props = {y \in TreeOf(t).props : ~Heads(q, y[1])}
<1> DEFINE N == Notes(t)
           q == Began(t.struct, c)
           lo == c.off
           hi == Hop(t, e).off
           B == Beside(N, lo, hi)
<1>1. Sane(t) /\ Tidy(N)
  BY DEF Whole
<1>2. \A n \in N : n.off \in Int /\ (n.tag = "prop" => n.prop[1] = n.path)
  BY <1>1, NotesAre
<1>4. lo \in Int /\ hi \in Int /\ lo < hi /\ 0 < hi
  <2>1. c.off \in 0 .. Len(t.struct) - 1 /\ Len(t.struct) \in Nat
    BY <1>1, Met
  <2>2. /\ e.off < hi /\ c.off < e.off /\ e.off \in Int /\ hi \in Int
    BY NodeSpan
  <2> HIDE DEF hi, N
  <2> QED
    BY <2>1, <2>2
<1>5. \A n \in N : n.tag \in {"begin", "prop"} => (lo <= n.off /\ n.off < hi <=> Heads(q, n.path))
  BY NodeNotes
<1> HIDE DEF N, lo, hi, q
<1>6. \A n \in N : n.tag \in {"begin", "prop"} => (n \in B <=> ~Heads(q, n.path))
  BY <1>2, <1>4, <1>5 DEF Beside
<1>7. B \subseteq N
  BY DEF Beside
<1>8. Whole(u) /\ Sane(u)
  <2>1. \A n \in N : n.tag = "begin" /\ lo <= n.off /\ n.off < hi =>
          \A y \in Beside(N, lo, hi) : y.tag = "prop" => y.path # n.path
    BY <1>5, <1>6, <1>7
  <2>2. Whole(u)
    BY <1>4, <2>1, RemovedTidy DEF N, lo, hi
  <2> QED
    BY <2>2 DEF Whole
<1>9. Nodes(Notes(u)) = Nodes(B) /\ Props(Notes(u)) = Props(B)
  BY <1>1, RemovedOn DEF N, lo, hi
<1> HIDE DEF B
<1>10. Nodes(B) = {p \in Nodes(N) : ~Heads(q, p)}
  BY <1>6, <1>7 DEF Nodes
<1>11. Props(B) = {y \in Props(N) : ~Heads(q, y[1])}
  BY <1>2, <1>6, <1>7 DEF Props
<1> QED
  BY <1>1, <1>8, <1>9, <1>10, <1>11, MeaningIs DEF N, q

-----------------------------------------------------------------------------
(* The words from a to b give way to words.                                *)
Gained(a, b, words) == a.off + Len(words) - b.off

Pasted(t, u, a, b, words) ==
  /\ a \in Visited(t) /\ b \in Visited(t) /\ a.off <= b.off /\ Len(words) \in Nat
  /\ Legible(u.struct) /\ Knows(u, t)
  /\ Len(u.struct) = Len(t.struct) + Gained(a, b, words)
  /\ \A i \in 1 .. a.off : u.struct[i] = t.struct[i]
  /\ \A i \in 1 .. Len(words) : u.struct[a.off + i] = words[i]
  /\ \A i \in b.off + 1 .. Len(t.struct) : u.struct[i + Gained(a, b, words)] = t.struct[i]

LEMMA PastedIs ==
  ASSUME NEW t, Sane(t), NEW u, NEW a, NEW b, NEW words, Pasted(t, u, a, b, words)
  PROVE  /\ a.off \in 0 .. Len(t.struct) - 1 /\ b.off \in 0 .. Len(t.struct) - 1
         /\ a.off \in Int /\ b.off \in Int /\ a \in Cursors /\ b \in Cursors
         /\ Len(t.struct) \in Nat /\ Len(u.struct) \in Nat /\ Legible(u.struct)
         /\ Gained(a, b, words) \in Int
         /\ a.off + Len(words) = b.off + Gained(a, b, words)
         /\ b.off + Gained(a, b, words) >= a.off /\ b.off + Gained(a, b, words) < Len(u.struct)
         /\ Further1(b, Gained(a, b, words)) = At(a.off + Len(words), b.path, b.inTree)
         /\ Further1(b, Gained(a, b, words)) \in From(u, a) => Mends(t, u, a, b, Gained(a, b, words))
<1> DEFINE d == Gained(a, b, words)
<1>1. /\ a \in Visited(t) /\ b \in Visited(t) /\ a.off <= b.off /\ Len(words) \in Nat
      /\ Legible(u.struct) /\ Knows(u, t) /\ Len(u.struct) = Len(t.struct) + d
      /\ \A i \in 1 .. a.off : u.struct[i] = t.struct[i]
      /\ \A i \in b.off + 1 .. Len(t.struct) : u.struct[i + d] = t.struct[i]
  BY DEF Pasted
<1>2. /\ a.off \in 0 .. Len(t.struct) - 1 /\ b.off \in 0 .. Len(t.struct) - 1
      /\ a \in Cursors /\ b \in Cursors /\ Len(t.struct) \in Nat
  BY <1>1, Met
<1>3. a.off \in Int /\ b.off \in Int
  BY <1>2
<1>4. d = a.off + Len(words) - b.off
  BY DEF Gained
<1>5. d \in Int /\ a.off + Len(words) = b.off + d
  BY <1>1, <1>3, <1>4
<1>6. b.off + d >= a.off /\ b.off + d < Len(u.struct) /\ Len(u.struct) \in Nat
  <2>1. Len(u.struct) \in Nat
    BY <1>1 DEF Legible
  <2> HIDE DEF d
  <2> QED
    BY <1>1, <1>2, <1>5, <2>1
<1>7. Further1(b, d) = At(a.off + Len(words), b.path, b.inTree)
  <2> HIDE DEF d
  <2> QED
    BY <1>5 DEF Further1, At
<1>8. Further1(b, d) \in From(u, a) => Mends(t, u, a, b, d)
  BY <1>1, <1>5, <1>6 DEF Mends
<1> HIDE DEF d
<1> QED
  BY <1>1, <1>2, <1>3, <1>5, <1>6, <1>7, <1>8 DEF d

(* Words that are cut out.                                                 *)
LEMMA Cut ==
  ASSUME NEW t, Sane(t), NEW u, NEW a, NEW b, NEW words, Pasted(t, u, a, b, words), Len(words) = 0,
         a.path = b.path, a.inTree = b.inTree
  PROVE  Removes(t, u, a, b, Gained(a, b, words))
<1> DEFINE f == Further1(b, Gained(a, b, words))
<1>1. /\ a.off \in Int /\ a \in Cursors /\ a \in Visited(t) /\ Legible(u.struct)
      /\ f = At(a.off + Len(words), b.path, b.inTree)
      /\ f \in From(u, a) => Mends(t, u, a, b, Gained(a, b, words))
  BY PastedIs DEF Pasted
<1>2. a = At(a.off, a.path, a.inTree)
  BY <1>1, Met
<1>3. f = a
  BY <1>1, <1>2
<1>4. a \in From(u, a)
  BY <1>1, FromHere
<1>5. \A x \in Upto(u, a, a) : FALSE
  <2>1. \A x \in From(u, a) : x = a \/ x.off > a.off
    BY <1>1, FromOrder
  <2>2. \A x \in From(u, a) : x \in Cursors
    BY FromCursors
  <2>3. \A x \in From(u, a) : x.off \in Int
    BY <2>2 DEF Cursors
  <2> QED
    BY <1>1, <2>1, <2>3 DEF Upto
<1> QED
  BY <1>1, <1>3, <1>4, <1>5 DEF Removes

LEMMA NopIs == ASSUME NEW s, Len(s) \in Nat, NEW o \in 0 .. Len(s) - 1, s[o + 1] = Tag("nop")
               PROVE  NextTag(s, o).tag = "nop" /\ NextTag(s, o).next = o + 1
<1>1. /\ s[o + 1] # Tag("begin") /\ s[o + 1] # Tag("prop")
      /\ s[o + 1] \in {Tag("endnode"), Tag("nop"), Tag("end")} /\ s[o + 1][2] = "nop"
  BY DEF Tag
<1>2. ~(o < 0 \/ o >= Len(s)) /\ ~(o + 1 < 0 \/ o + 1 > Len(s))
  OBVIOUS
<1> QED
  BY <1>1, <1>2 DEF NextTag

(* Words that become nops.                                                 *)
LEMMA NopsFrom ==
  ASSUME NEW t, Sane(t), NEW u, NEW a, NEW b, NEW words, Pasted(t, u, a, b, words),
         \A i \in 1 .. Len(words) : words[i] = Tag("nop")
  PROVE  /\ \A j \in 0 .. Len(words) : Further1(a, j) \in From(u, a)
         /\ \A o \in a.off .. a.off + Len(words) - 1 :
              NextTag(u.struct, o).tag = "nop" /\ NextTag(u.struct, o).next = o + 1
<1> DEFINE n == Len(words)
<1>1. /\ a.off \in Nat /\ a \in Cursors /\ Legible(u.struct) /\ Len(u.struct) \in Nat /\ n \in Nat
      /\ \A i \in 1 .. n : u.struct[a.off + i] = Tag("nop")
  <2>1. /\ a.off \in 0 .. Len(t.struct) - 1 /\ a \in Cursors /\ Legible(u.struct)
        /\ Len(u.struct) \in Nat /\ Len(t.struct) \in Nat
    BY PastedIs
  <2>2. Len(words) \in Nat /\ \A i \in 1 .. Len(words) : u.struct[a.off + i] = words[i]
    BY DEF Pasted
  <2> QED
    BY <2>1, <2>2
<1>2. a.off + n < Len(u.struct)
  BY PastedIs
<1> HIDE DEF n
<1>3. ASSUME NEW o \in a.off .. a.off + n - 1
      PROVE  NextTag(u.struct, o).tag = "nop" /\ NextTag(u.struct, o).next = o + 1
  <2>1. o - a.off + 1 \in 1 .. n /\ a.off + (o - a.off + 1) = o + 1
    BY <1>1
  <2>2. u.struct[o + 1] = Tag("nop")
    BY <1>1, <2>1
  <2>3. o \in 0 .. Len(u.struct) - 1
    BY <1>1, <1>2
  <2>4. PICK s : s = u.struct
    OBVIOUS
  <2> QED
    BY <1>1, <2>2, <2>3, <2>4, NopIs
<1>4. ASSUME NEW j \in 0 .. n - 1 PROVE Hop(u, Further1(a, j)) = Further1(a, j + 1)
  <2>1. a.off + j \in a.off .. a.off + n - 1 /\ j \in Int
    BY <1>1
  <2>2. Further1(a, j) \in Cursors /\ Further1(a, j).off = a.off + j
    BY <1>1, <2>1, FurtherOff
  <2>3. NextTag(u.struct, a.off + j).tag = "nop" /\ NextTag(u.struct, a.off + j).next = a.off + j + 1
    BY <1>3, <2>1
  <2>4. Hop(u, Further1(a, j)) = [Further1(a, j) EXCEPT !.off = a.off + j + 1]
    BY <2>2, <2>3 DEF Hop, Onto
  <2>5. a.off + j + 1 = a.off + (j + 1)
    BY <1>1
  <2>6. [Further1(a, j) EXCEPT !.off = a.off + (j + 1)] = Further1(a, j + 1)
    BY DEF Further1
  <2> QED
    BY <2>4, <2>5, <2>6
<1>5. ASSUME {j \in 0 .. n : Further1(a, j) \notin From(u, a)} # {} PROVE FALSE
  <2>1. {j \in 0 .. n : Further1(a, j) \notin From(u, a)} \in SUBSET Nat
    BY <1>1
  <2>2. PICK j \in {j \in 0 .. n : Further1(a, j) \notin From(u, a)} :
          \A k \in {k \in 0 .. n : Further1(a, k) \notin From(u, a)} : j <= k
    <3> DEFINE S == {j \in 0 .. n : Further1(a, j) \notin From(u, a)}
    <3>1. S \in SUBSET Nat /\ S # {}
      BY <1>5, <2>1
    <3> HIDE DEF S
    <3>2. \E j \in S : \A k \in S : j <= k
      BY <3>1, LeastNat
    <3> QED
      BY <3>2 DEF S
  <2>3. j # 0
    BY <1>1, <2>2, FurtherOff, FromHere
  <2>4. j - 1 \in 0 .. n - 1 /\ j - 1 \in 0 .. n /\ ~(j <= j - 1) /\ j - 1 + 1 = j
    BY <1>1, <2>2, <2>3
  <2>5. Further1(a, j - 1) \in From(u, a)
    BY <2>2, <2>4
  <2>6. Hop(u, Further1(a, j - 1)) \in From(u, a)
    BY <1>1, <2>5, FromMove
  <2> QED
    BY <1>4, <2>2, <2>4, <2>6
<1> QED
  BY <1>3, <1>5 DEF n

LEMMA Nopped ==
  ASSUME NEW t, Sane(t), NEW u, NEW a, NEW b, NEW words, Pasted(t, u, a, b, words),
         \A i \in 1 .. Len(words) : words[i] = Tag("nop"), a.path = b.path, a.inTree = b.inTree
  PROVE  Removes(t, u, a, b, Gained(a, b, words))
<1> DEFINE f == Further1(b, Gained(a, b, words))
           n == Len(words)
<1>1. /\ a.off \in Int /\ a \in Cursors /\ Legible(u.struct) /\ n \in Nat
      /\ f = At(a.off + n, b.path, b.inTree)
      /\ f \in From(u, a) => Mends(t, u, a, b, Gained(a, b, words))
  <2>1. Len(words) \in Nat
    BY DEF Pasted
  <2> QED
    BY <2>1, PastedIs
<1>2. /\ \A j \in 0 .. n : Further1(a, j) \in From(u, a)
      /\ \A o \in a.off .. a.off + n - 1 : NextTag(u.struct, o).tag = "nop" /\ NextTag(u.struct, o).next = o + 1
  BY NopsFrom
<1> HIDE DEF n
<1>3. f = Further1(a, n)
  BY <1>1 DEF At, Further1
<1>4. n \in 0 .. n
  BY <1>1
<1>5. Mends(t, u, a, b, Gained(a, b, words)) /\ f.off = a.off + n
  BY <1>1, <1>2, <1>3, <1>4 DEF At
<1> HIDE DEF f
<1>6. ASSUME NEW x \in Upto(u, a, f) PROVE ReadAt(u, x) /\ Word(u, x).tag = "nop"
  <2>1. x \in From(u, a) /\ x.off < f.off /\ x \in Cursors
    BY FromCursors DEF Upto
  <2>2. x.off \in Int
    BY <2>1 DEF Cursors
  <2>3. x = a \/ x.off > a.off
    BY <1>1, <2>1, FromOrder
  <2>4. x.off \in a.off .. a.off + n - 1
    BY <1>1, <1>5, <2>1, <2>2, <2>3
  <2>5. NextTag(u.struct, x.off).tag = "nop" /\ NextTag(u.struct, x.off).next = x.off + 1
    BY <1>2, <2>4
  <2>6. Hop(u, x).off = x.off + 1
    BY <2>1, <2>5 DEF Hop, Onto, Cursors
  <2>7. ~Stops(u, x)
    BY <2>2, <2>6 DEF Stops
  <2>8. x.off + 2 .. x.off + 1 = {}
    BY <2>2
  <2> QED
    BY <2>5, <2>7, <2>8 DEF ReadAt, Word
<1> QED
  BY <1>5, <1>6 DEF Removes, f

-----------------------------------------------------------------------------
(* The words of a property.                                                *)
Says(word, kind, x) == word[1] = kind /\ word[2] = x

OfProp(words, i, v) ==
  /\ Len(v) \in Nat /\ v = SubSeq(v, 1, Len(v)) /\ Len(words) = 3 + Len(v)
  /\ words[1] = Tag("prop") /\ Says(words[2], "len", Len(v))
  /\ words[3][2] = i /\ words[3][1] # "tag"
  /\ \A j \in 1 .. Len(v) : words[j + 3] = v[j] /\ v[j][1] # "tag"

Within(c) == c.inTree

LEMMA PropIs ==
  ASSUME NEW s, Len(s) \in Nat, NEW o \in 0 .. Len(s) - 1, NEW k \in Nat, o + 3 + k <= Len(s),
         s[o + 1] = Tag("prop"), Says(s[o + 2], "len", k)
  PROVE  NextTag(s, o).tag = "prop" /\ NextTag(s, o).next = o + 3 + k
<1>1. /\ s[o + 1] # Tag("begin") /\ s[o + 1][2] = "prop"
      /\ s[o + 2][1] = "len" /\ s[o + 2][2] = k
  BY DEF Tag, Says
<1>2. ~(o < 0 \/ o >= Len(s)) /\ ~(o + 3 + k < 0 \/ o + 3 + k > Len(s)) /\ o + 1 < Len(s)
  OBVIOUS
<1> QED
  BY <1>1, <1>2 DEF NextTag

(* A cursor at a property that is new.                                     *)
LEMMA PropThere ==
  ASSUME NEW t, Sane(t), NEW u, NEW a, NEW b, NEW words, Pasted(t, u, a, b, words),
         NEW i, NEW v, OfProp(words, i, v), i \in DOMAIN u.strings, Within(a)
  PROVE  /\ NextTag(u.struct, a.off).tag = "prop"
         /\ NextTag(u.struct, a.off).next = a.off + Len(words)
         /\ u.struct[a.off + 3][2] = i /\ PropValue(u, a.off) = v
         /\ Hop(u, a) = At(a.off + Len(words), a.path, a.inTree) /\ ~Stops(u, a)
         /\ ReadAt(u, a)
<1> DEFINE n == Len(words)
           o == a.off
           k == Len(v)
<1>1. /\ o \in 0 .. Len(t.struct) - 1 /\ a \in Cursors /\ Len(u.struct) \in Nat /\ Len(t.struct) \in Nat
      /\ o + n < Len(u.struct)
  <2>1. /\ a.off + Len(words) = b.off + Gained(a, b, words)
        /\ b.off + Gained(a, b, words) < Len(u.struct)
    BY PastedIs
  <2>2. a.off + Len(words) < Len(u.struct)
    BY <2>1
  <2> QED
    BY <2>2, PastedIs
<1>2. /\ k \in Nat /\ v = SubSeq(v, 1, k) /\ n = 3 + k
      /\ words[1] = Tag("prop") /\ Says(words[2], "len", k)
      /\ words[3][2] = i /\ words[3][1] # "tag"
      /\ \A j \in 1 .. k : words[j + 3] = v[j] /\ v[j][1] # "tag"
  BY DEF OfProp
<1>3. \A j \in 1 .. n : u.struct[o + j] = words[j]
  BY DEF Pasted
<1> HIDE DEF n, o, k
<1>4. o \in Nat /\ o + n < Len(u.struct) /\ o \in 0 .. Len(u.struct) - 1 /\ o + 3 + k = o + n
  BY <1>1, <1>2
<1>5. 1 \in 1 .. n /\ 2 \in 1 .. n /\ 3 \in 1 .. n
  BY <1>2
<1>6. /\ u.struct[o + 1] = Tag("prop") /\ Says(u.struct[o + 2], "len", k)
      /\ u.struct[o + 3][2] = i /\ u.struct[o + 3][1] # "tag"
  BY <1>2, <1>3, <1>5
<1>7. NextTag(u.struct, o).tag = "prop" /\ NextTag(u.struct, o).next = o + n
  <2>1. PICK s : s = u.struct
    OBVIOUS
  <2>2. o + 3 + k <= Len(s) /\ Len(s) \in Nat
    BY <1>1, <1>2, <1>4, <2>1
  <2>3. o \in 0 .. Len(s) - 1 /\ k \in Nat /\ s[o + 1] = Tag("prop") /\ Says(s[o + 2], "len", k)
    BY <1>2, <1>4, <1>6, <2>1
  <2>4. NextTag(s, o).tag = "prop" /\ NextTag(s, o).next = o + 3 + k
    BY <2>2, <2>3, PropIs
  <2> QED
    BY <1>4, <2>1, <2>4
<1>8. \A j \in 1 .. k : u.struct[j + (o + 3)] = v[j]
  <2> TAKE j \in 1 .. k
  <2>1. j + 3 \in 1 .. n /\ o + (j + 3) = j + (o + 3)
    BY <1>2, <1>4
  <2> QED
    BY <1>2, <1>3, <2>1
<1>9. PropValue(u, o) = v
  <2>1. SubSeq(u.struct, 1 + (o + 3), k + (o + 3)) = SubSeq(v, 1, k)
    <3>1. PICK e \in Int : e = o + 3
      BY <1>4
    <3>2. PICK m \in Int : m = 1
      OBVIOUS
    <3>3. PICK r : r = u.struct
      OBVIOUS
    <3>4. k \in Int /\ \A j \in m .. k : r[j + e] = v[j]
      BY <1>2, <1>8, <3>1, <3>2, <3>3
    <3>5. SubSeq(r, m + e, k + e) = SubSeq(v, m, k)
      BY <3>4, SubSeqSame
    <3> QED
      BY <3>1, <3>2, <3>3, <3>5
  <2>2. PropLen(u, o) = k
    BY <1>6 DEF PropLen, Says
  <2>3. 1 + (o + 3) = o + 4 /\ k + (o + 3) = o + 3 + k
    BY <1>2, <1>4
  <2> QED
    BY <1>2, <2>1, <2>2, <2>3 DEF PropValue
<1>10. Hop(u, a) = At(o + n, a.path, a.inTree) /\ ~Stops(u, a)
  <2>1. Known(u, o)
    BY <1>6 DEF Known
  <2>2. Hop(u, a) = [a EXCEPT !.off = o + n]
    BY <1>7, <2>1 DEF Hop, Onto, o, Within
  <2>3. Hop(u, a) = At(o + n, a.path, a.inTree)
    BY <1>1, <2>2 DEF At, Cursors
  <2>4. o + n # a.off
    BY <1>2, <1>4 DEF o
  <2>5. Hop(u, a).off = o + n
    BY <2>3 DEF At
  <2> QED
    BY <2>3, <2>4, <2>5 DEF Stops
<1>11. ASSUME NEW j \in o + 2 .. o + n PROVE u.struct[j][1] # "tag"
  <2>1. CASE j = o + 2
    BY <1>6, <2>1 DEF Says
  <2>2. CASE j = o + 3
    BY <1>6, <2>2
  <2>3. CASE j # o + 2 /\ j # o + 3
    <3>1. j - (o + 3) \in 1 .. k /\ j - (o + 3) + (o + 3) = j
      BY <1>2, <1>4, <2>3
    <3> QED
      BY <1>2, <1>8, <3>1
  <2> QED
    BY <2>1, <2>2, <2>3
<1>12. ReadAt(u, a)
  BY <1>7, <1>10, <1>11 DEF ReadAt, Word, o
<1> QED
  BY <1>6, <1>7, <1>9, <1>10, <1>12 DEF n, o

(* One tag that is new.                                                    *)
LEMMA OneTag ==
  ASSUME NEW t, Sane(t), NEW u, NEW a, NEW b, NEW words, Pasted(t, u, a, b, words), 0 < Len(words),
         Hop(u, a) = Further1(b, Gained(a, b, words)), ReadAt(u, a)
  PROVE  LET d == Gained(a, b, words)
         IN  /\ Mends(t, u, a, b, d) /\ Upto(u, a, Further1(b, d)) = {a}
             /\ NewNotes(u, a, b, d) = {Note(u, a)}
             /\ \A x \in Upto(u, a, Further1(b, d)) : ReadAt(u, x)
<1> DEFINE d == Gained(a, b, words)
           f == Further1(b, d)
<1>1. /\ a.off \in Int /\ a \in Cursors /\ Legible(u.struct) /\ b.off + d = a.off + Len(words) /\ b \in Cursors
      /\ d \in Int /\ Len(words) \in Nat /\ (f \in From(u, a) => Mends(t, u, a, b, d))
  <2>1. Len(words) \in Nat
    BY DEF Pasted
  <2> QED
    BY <2>1, PastedIs
<1> HIDE DEF d
<1>2. f.off = b.off + d /\ f \in Cursors
  BY <1>1, FurtherOff
<1>3. From(u, a) = {a} \cup From(u, f) /\ f \in From(u, f)
  BY <1>1, <1>2, FromStep, FromHere DEF d
<1>4. a.off < f.off
  BY <1>1, <1>2
<1>5. \A x \in From(u, f) : ~(x.off < f.off)
  <2> TAKE x \in From(u, f)
  <2>1. x = f \/ x.off > f.off
    BY <1>1, <1>2, FromOrder
  <2>2. x.off \in Int /\ f.off \in Int
    BY <1>2, FromCursors DEF Cursors
  <2> QED
    BY <2>1, <2>2
<1>6. Upto(u, a, f) = {a}
  BY <1>3, <1>4, <1>5 DEF Upto
<1>7. NewNotes(u, a, b, d) = {Note(u, a)}
  BY <1>6 DEF NewNotes
<1> QED
  BY <1>1, <1>3, <1>6, <1>7 DEF d

(* The notes with a new property.                                          *)
LEMMA PropNoted ==
  ASSUME NEW t, Sane(t), NEW u, NEW a, NEW b, NEW words, Pasted(t, u, a, b, words),
         NEW i, NEW v, OfProp(words, i, v), i \in DOMAIN u.strings,
         Within(a), a.path = b.path, Within(b)
  PROVE  LET d == Gained(a, b, words)
             m == Note(u, a)
         IN  /\ Mends(t, u, a, b, d) /\ NewNotes(u, a, b, d) = {m}
             /\ Upto(u, a, Further1(b, d)) = {a} /\ ReadAt(u, a)
             /\ m.tag = "prop" /\ m.path = a.path /\ m.prop = <<a.path, u.strings[i], v>>
<1> DEFINE d == Gained(a, b, words)
           f == Further1(b, d)
           m == Note(u, a)
<1>2. /\ NextTag(u.struct, a.off).tag = "prop" /\ NextTag(u.struct, a.off).next = a.off + Len(words)
      /\ u.struct[a.off + 3][2] = i /\ PropValue(u, a.off) = v
      /\ Hop(u, a) = At(a.off + Len(words), a.path, a.inTree) /\ ~Stops(u, a)
      /\ ReadAt(u, a)
  BY PropThere
<1>3. 0 < Len(words)
  <2>1. Len(v) \in Nat /\ Len(words) = 3 + Len(v)
    BY DEF OfProp
  <2> QED
    BY <2>1
<1>5. f = At(a.off + Len(words), b.path, b.inTree)
  BY PastedIs
<1>6. a.inTree = b.inTree
  <2>1. a.inTree \in BOOLEAN /\ b.inTree \in BOOLEAN
    BY Met DEF Pasted
  <2> QED
    BY <2>1 DEF Within
<1>7. Hop(u, a) = f
  BY <1>2, <1>5, <1>6
<1>8. /\ Mends(t, u, a, b, d) /\ NewNotes(u, a, b, d) = {m}
      /\ Upto(u, a, f) = {a}
  BY <1>2, <1>3, <1>7, OneTag
<1>10. m.tag = "prop" /\ m.path = a.path /\ m.prop = <<a.path, u.strings[i], v>>
  <2>1. Carries(u, a) /\ ~Begins(u, a)
    BY <1>2 DEF Carries, Begins
  <2>2. PropAt(u, a) = <<a.path, u.strings[i], v>>
    BY <1>2 DEF PropAt
  <2> QED
    BY <1>2, <2>1, <2>2 DEF Note
<1> HIDE DEF m
<1> QED
  BY <1>2, <1>8, <1>10 DEF m

(* A property in the place of words between the tags of a node in front of *)
(* which only properties come, of a name that no other has.                *)
LEMMA PropPlaced ==
  ASSUME NEW t, Whole(t), NEW u, NEW a, NEW b, NEW words, Pasted(t, u, a, b, words),
         NEW i, NEW v, OfProp(words, i, v), i \in DOMAIN u.strings,
         a.inTree, a.path = b.path, b.inTree, 0 < b.off,
         \A n \in Notes(t) : ~(n.tag = "begin" /\ a.off <= n.off /\ n.off < b.off),
         \A n \in Beside(Notes(t), a.off, b.off) :
           n.tag = "prop" => n.path # a.path \/ n.prop[2] # u.strings[i],
         \E y \in Notes(t) : /\ y.tag = "begin" /\ y.path = a.path /\ y.off < a.off
                             /\ \A z \in Notes(t) : y.off < z.off /\ z.off < a.off => z.tag \in Minor
  PROVE  /\ Whole(u) /\ TreeOf(u).nodes = TreeOf(t).nodes
         /\ TreeOf(u).props = Props(Beside(Notes(t), a.off, b.off)) \cup {<<a.path, u.strings[i], v>>}
<1> DEFINE N == Notes(t)
           d == Gained(a, b, words)
           f == Further1(b, d)
           M == NewNotes(u, a, b, d)
           m == Note(u, a)
           lo == a.off
           hi == b.off
           B == Beside(N, lo, hi)
<1>1. Sane(t) /\ Tidy(N)
  BY DEF Whole
<1>3. Within(a) /\ Within(b)
  BY DEF Within
<1>8. /\ Mends(t, u, a, b, d) /\ M = {m} /\ Upto(u, a, f) = {a} /\ ReadAt(u, a)
      /\ m.tag = "prop" /\ m.path = a.path /\ m.prop = <<a.path, u.strings[i], v>>
  BY <1>1, <1>3, PropNoted
<1>9. /\ Sane(u) /\ Notes(u) = Changed(N, M, lo, hi, d)
      /\ lo \in Int /\ hi \in Int /\ d \in Int /\ lo <= hi /\ hi + d >= lo
      /\ \A n \in N : n.off \in Int /\ n.off >= 0
      /\ \A x \in M : x.off \in Int /\ lo <= x.off /\ x.off < hi + d
  BY <1>1, <1>8, Mended
<1>10. m.tag = "prop" /\ m.path = a.path /\ m.prop = <<a.path, u.strings[i], v>>
  BY <1>8
<1>11. m.prop[2] = u.strings[i]
  BY <1>10
<1>12. \E y \in N : /\ y.tag = "begin" /\ y.path = a.path /\ y.off < lo
                    /\ \A z \in N : y.off < z.off /\ z.off < lo => z.tag \in Minor
  OBVIOUS
<1>13. \A n \in N : ~(n.tag = "begin" /\ lo <= n.off /\ n.off < hi)
  OBVIOUS
<1>14. \A n \in B : n.tag = "prop" => n.path # a.path \/ n.prop[2] # u.strings[i]
  OBVIOUS
<1>15. "prop" \in Minor
  BY DEF Minor
<1> HIDE DEF N, d, f, M, m, lo, hi, B
<1>16. Tidy(Changed(N, M, lo, hi, d))
  <2>1. \A x \in M : x.tag # "begin"
    BY <1>8, <1>10
  <2>2. ASSUME NEW x \in M
        PROVE  /\ \A n \in Beside(N, lo, hi) : n.tag = "prop" => n.path # x.path \/ n.prop[2] # x.prop[2]
               /\ \A n \in M : n.tag = "prop" /\ n.path = x.path /\ n.prop[2] = x.prop[2] => n = x
               /\ \E y \in N : /\ y.tag = "begin" /\ y.path = x.path /\ y.off < lo
                               /\ \A z \in N : y.off < z.off /\ z.off < lo => z.tag \in Minor
               /\ \A z \in M : z.off <= x.off => z.tag \in Minor
    <3>1. x = m
      BY <1>8
    <3>2. \A z \in M : z.tag \in Minor
      BY <1>8, <1>10, <1>15
    <3>3. \A n \in M : n = x
      BY <1>8, <3>1
    <3>4. \A n \in Beside(N, lo, hi) : n.tag = "prop" => n.path # x.path \/ n.prop[2] # x.prop[2]
      BY <1>10, <1>11, <1>14, <3>1 DEF B
    <3> QED
      BY <1>10, <1>12, <3>1, <3>2, <3>3, <3>4
  <2>3. \A x \in M : x.tag \in Minor
    BY <1>8, <1>10, <1>15
  <2>4. 0 < hi
    BY DEF hi
  <2>5. \A n \in N : n.off \in Int
    BY <1>9
  <2>6. \A n \in N : n.tag = "begin" /\ lo <= n.off /\ n.off < hi =>
           \A x \in Beside(N, lo, hi) : x.tag = "prop" => x.path # n.path
    BY <1>13
  <2> QED
    BY <1>1, <1>9, <2>1, <2>2, <2>3, <2>4, <2>5, <2>6, TidyChanged
<1>17. Whole(u)
  BY <1>9, <1>16 DEF Whole
<1>18. Nodes(B) = Nodes(N)
  <2>1. \A n \in N : n.tag = "begin" => n \in B
    BY <1>9, <1>13 DEF B, Beside
  <2>2. B \subseteq N
    BY DEF B, Beside
  <2> QED
    BY <2>1, <2>2 DEF Nodes
<1>19. Nodes(M) = {} /\ Props(M) = {<<a.path, u.strings[i], v>>}
  BY <1>8, <1>10 DEF Nodes, Props
<1>20. Nodes(Notes(u)) = Nodes(B) \cup Nodes(M) /\ Props(Notes(u)) = Props(B) \cup Props(M)
  BY <1>9, ChangedMeaning DEF B
<1>21. TreeOf(u).nodes = Nodes(Notes(u)) /\ TreeOf(u).props = Props(Notes(u)) /\ TreeOf(t).nodes = Nodes(N)
  BY <1>1, <1>9, MeaningIs DEF N
<1> QED
  BY <1>17, <1>18, <1>19, <1>20, <1>21 DEF B, N, lo, hi

(* The property at x gets another value.                                   *)
LEMMA PropReplaced ==
  ASSUME NEW t, Whole(t), NEW x \in Visited(t), Word(t, x).tag = "prop",
         NEW u, NEW words, Pasted(t, u, x, Hop(t, x), words),
         NEW i, NEW v, OfProp(words, i, v), i \in DOMAIN u.strings, u.strings[i] = NameAt(t, x)
  PROVE  /\ Whole(u) /\ TreeOf(u).nodes = TreeOf(t).nodes
         /\ TreeOf(u).props = {y \in TreeOf(t).props : y[1] # x.path \/ y[2] # NameAt(t, x)}
                              \cup {<<x.path, NameAt(t, x), v>>}
<1> DEFINE N == Notes(t)
           b == Hop(t, x)
           lo == x.off
           hi == b.off
           B == Beside(N, lo, hi)
           m == Note(t, x)
<1>1. Sane(t) /\ Tidy(N)
  BY DEF Whole
<1>2. \A n \in N : n.off \in Int /\ n.off >= 0 /\ (n.tag = "prop" => n.prop[1] = n.path)
  BY <1>1, NotesAre
<1>3. m \in N /\ m.tag = "prop" /\ m.path = x.path /\ m.prop[2] = NameAt(t, x) /\ m.off = lo
  BY <1>1, NoteIs
<1>4. /\ b = At(Word(t, x).next, x.path, x.inTree) /\ x.inTree
  BY <1>1, MetTag
<1>5. b.path = x.path /\ b.inTree /\ lo \in Int /\ hi \in Int /\ lo < hi /\ 0 < hi
  <2>1. /\ x.off \in 0 .. Len(t.struct) - 1 /\ Len(t.struct) \in Nat
        /\ Word(t, x).next \in x.off + 1 .. Len(t.struct)
    BY <1>1, Met
  <2>2. b.path = x.path /\ b.inTree /\ hi = Word(t, x).next
    BY <1>4 DEF At
  <2> HIDE DEF b, hi, N
  <2> QED
    BY <2>1, <2>2
<1>6. \A n \in N : lo <= n.off /\ n.off < hi => n = m
  BY <1>1, OneNote
<1>7. \A n \in N : n \in B <=> n # m
  <2> HIDE DEF N, m, lo, hi
  <2> QED
    BY <1>2, <1>3, <1>5, <1>6 DEF Beside
<1>8. \A n \in N : n.tag = "prop" /\ n # m => n.path # x.path \/ n.prop[2] # NameAt(t, x)
  BY <1>1, <1>3 DEF Tidy
<1>9. \A n \in B : n.tag = "prop" => n.path # x.path \/ n.prop[2] # u.strings[i]
  <2>1. B \subseteq N
    BY DEF Beside
  <2> HIDE DEF B, N, m
  <2> QED
    BY <1>7, <1>8, <2>1
<1>10. \A n \in N : ~(n.tag = "begin" /\ lo <= n.off /\ n.off < hi)
  <2> HIDE DEF N, m, lo, hi
  <2> QED
    BY <1>3, <1>6
<1>11. \E y \in N : /\ y.tag = "begin" /\ y.path = x.path /\ y.off < lo
                    /\ \A z \in N : y.off < z.off /\ z.off < lo => z.tag \in Minor
  <2> HIDE DEF N, m, lo
  <2>1. PICK y \in N : /\ y.tag = "begin" /\ y.path = m.path /\ y.off < m.off
                       /\ \A z \in N : y.off < z.off /\ z.off <= m.off => z.tag \in {"prop", "nop"}
    BY <1>1, <1>3 DEF Tidy
  <2>2. \A z \in N : z.off < lo => z.off <= m.off
    BY <1>2, <1>3, <1>5
  <2> QED
    BY <1>3, <2>1, <2>2 DEF Minor
<1>12. /\ Whole(u) /\ TreeOf(u).nodes = TreeOf(t).nodes
       /\ TreeOf(u).props = Props(B) \cup {<<x.path, u.strings[i], v>>}
  <2>1. x.path = b.path /\ x.inTree /\ b.inTree /\ 0 < b.off
    BY <1>4, <1>5
  <2> QED
    BY <1>9, <1>10, <1>11, <2>1, PropPlaced
<1>13. Props(B) = {y \in TreeOf(t).props : y[1] # x.path \/ y[2] # NameAt(t, x)}
  <2>1. TreeOf(t).props = Props(N)
    BY <1>1, MeaningIs
  <2>2. B \subseteq N
    BY DEF Beside
  <2> HIDE DEF B, N, m
  <2>3. \A n \in N : n.tag = "prop" => (n \in B <=> (n.prop[1] # x.path \/ n.prop[2] # NameAt(t, x)))
    BY <1>2, <1>3, <1>7, <1>8
  <2> QED
    BY <2>1, <2>2, <2>3 DEF Props
<1> QED
  BY <1>12, <1>13

(* The node at c gets another property.                                    *)
LEMMA PropNew ==
  ASSUME NEW t, Whole(t), NEW c \in Visited(t), Begins(t, c),
         NEW u, NEW words, Pasted(t, u, Hop(t, c), Hop(t, c), words),
         NEW i, NEW v, OfProp(words, i, v), i \in DOMAIN u.strings,
         \A x \in Visited(t) : ~(Word(t, x).tag = "prop" /\ x.path = Began(t.struct, c)
                                   /\ NameAt(t, x) = u.strings[i])
  PROVE  /\ Whole(u) /\ TreeOf(u).nodes = TreeOf(t).nodes
         /\ TreeOf(u).props = TreeOf(t).props \cup {<<Began(t.struct, c), u.strings[i], v>>}
<1> DEFINE N == Notes(t)
           q == Began(t.struct, c)
           b == Hop(t, c)
           lo == b.off
           B == Beside(N, lo, lo)
           m == Note(t, c)
<1>1. Sane(t) /\ Word(t, c).tag = "begin"
  BY DEF Whole, Begins, Word
<1>2. \A n \in N : n.off \in Int /\ n.off >= 0 /\ \E x \in Visited(t) : n = Note(t, x) /\ n.tag = Word(t, x).tag
  BY <1>1, NotesAre
<1>3. m \in N /\ m.tag = "begin" /\ m.path = q /\ m.off = c.off
  BY <1>1, NoteIs
<1>4. b = At(Word(t, c).next, q, TRUE)
  BY <1>1, MetTag
<1>5. b.path = q /\ b.inTree /\ lo \in Int /\ c.off \in Int /\ c.off < lo /\ 0 < lo
  <2>1. /\ c.off \in 0 .. Len(t.struct) - 1 /\ Len(t.struct) \in Nat
        /\ Word(t, c).next \in c.off + 1 .. Len(t.struct)
    BY <1>1, Met
  <2>2. b.path = q /\ b.inTree /\ lo = Word(t, c).next
    BY <1>4 DEF At
  <2> HIDE DEF b, lo, N
  <2> QED
    BY <2>1, <2>2
<1>6. \A n \in N : c.off <= n.off /\ n.off < lo => n = m
  BY <1>1, OneNote
<1>7. \E y \in N : /\ y.tag = "begin" /\ y.path = b.path /\ y.off < lo
                   /\ \A z \in N : y.off < z.off /\ z.off < lo => z.tag \in Minor
  <2>1. \A z \in N : ~(m.off < z.off /\ z.off < lo)
    <3> HIDE DEF N, m, lo
    <3>1. \A z \in N : c.off < z.off => c.off <= z.off /\ z.off # c.off
      BY <1>2, <1>5
    <3> QED
      BY <1>3, <1>6, <3>1
  <2> HIDE DEF N, m, lo, b, q
  <2> QED
    BY <1>3, <1>5, <2>1
<1>8. \A n \in N : n.tag = "prop" => n.path # q \/ n.prop[2] # u.strings[i]
  <2> TAKE n \in N
  <2> SUFFICES ASSUME n.tag = "prop", n.path = q, n.prop[2] = u.strings[i] PROVE FALSE
    OBVIOUS
  <2>1. PICK x \in Visited(t) : n = Note(t, x) /\ n.tag = Word(t, x).tag
    BY <1>2
  <2>2. n.path = x.path /\ n.prop[2] = NameAt(t, x)
    BY <1>1, <2>1, NoteIs
  <2> QED
    BY <2>1, <2>2
<1>9. B = N
  <2> HIDE DEF N, lo
  <2> QED
    BY <1>2, <1>5 DEF Beside
<1>10. \A n \in B : n.tag = "prop" => n.path # b.path \/ n.prop[2] # u.strings[i]
  <2> HIDE DEF B, N, b, q
  <2> QED
    BY <1>5, <1>8, <1>9
<1>11. \A n \in N : ~(n.tag = "begin" /\ lo <= n.off /\ n.off < lo)
  <2> HIDE DEF N, lo
  <2> QED
    BY <1>2, <1>5
<1>12. /\ Whole(u) /\ TreeOf(u).nodes = TreeOf(t).nodes
       /\ TreeOf(u).props = Props(B) \cup {<<b.path, u.strings[i], v>>}
  <2>1. b.inTree /\ 0 < b.off
    BY <1>5
  <2> QED
    BY <1>7, <1>10, <1>11, <2>1, PropPlaced
<1>13. TreeOf(t).props = Props(N)
  BY <1>1, MeaningIs
<1> HIDE DEF N, B, b
<1> QED
  BY <1>5, <1>9, <1>12, <1>13

-----------------------------------------------------------------------------
(* The words of a node with nothing in it.                                 *)
OfNode(words, n) ==
  /\ n \in NodeNames /\ NameWords[n] \in Nat /\ NameWords[n] > 0 /\ Len(words) = NameWords[n] + 2
  /\ words[1] = Tag("begin") /\ words[NameWords[n] + 2] = Tag("endnode")
  /\ \A j \in 1 .. NameWords[n] : words[1 + j] = Name(n)

LEMMA BeginIs ==
  ASSUME NEW s, Len(s) \in Nat, NEW o \in 0 .. Len(s) - 1, NEW n, NEW k \in Nat, k = NameWords[n], k > 0,
         o + 1 + k <= Len(s), s[o + 1] = Tag("begin"), s[o + 2] = Name(n)
  PROVE  NextTag(s, o).tag = "begin" /\ NextTag(s, o).next = o + 1 + k
<1>1. s[o + 1][2] = "begin" /\ s[o + 2][1] = "name" /\ s[o + 2][2] = n
  BY DEF Tag, Name
<1>2. /\ ~(o < 0 \/ o >= Len(s)) /\ o + 1 < Len(s)
      /\ ~(o + 1 + k < 0 \/ o + 1 + k > Len(s))
  OBVIOUS
<1> QED
  BY <1>1, <1>2 DEF NextTag

LEMMA EndIs ==
  ASSUME NEW s, Len(s) \in Nat, NEW o \in 0 .. Len(s) - 1, s[o + 1] = Tag("endnode")
  PROVE  NextTag(s, o).tag = "endnode" /\ NextTag(s, o).next = o + 1
<1>1. /\ s[o + 1] # Tag("begin") /\ s[o + 1] # Tag("prop")
      /\ s[o + 1] \in {Tag("endnode"), Tag("nop"), Tag("end")} /\ s[o + 1][2] = "endnode"
  BY DEF Tag
<1>2. ~(o < 0 \/ o >= Len(s)) /\ ~(o + 1 < 0 \/ o + 1 > Len(s))
  OBVIOUS
<1> QED
  BY <1>1, <1>2 DEF NextTag

(* Where its two tags lead.                                                *)
InNew(a, n) == At(a.off + 1 + NameWords[n], Append(a.path, n), TRUE)

LEMMA NodeThere ==
  ASSUME NEW t, Sane(t), NEW u, NEW a, NEW words, Pasted(t, u, a, a, words), NEW n, OfNode(words, n),
         Within(a)
  PROVE  LET g == InNew(a, n)
         IN  /\ NextTag(u.struct, a.off).tag = "begin" /\ Began(u.struct, a) = Append(a.path, n)
             /\ Hop(u, a) = g /\ g \in Cursors /\ g.off = a.off + 1 + NameWords[n]
             /\ ~Stops(u, a) /\ ReadAt(u, a)
             /\ NextTag(u.struct, g.off).tag = "endnode" /\ Hop(u, g).off = a.off + Len(words)
             /\ Hop(u, g) = Further1(a, Gained(a, a, words)) /\ ReadAt(u, g)
<1> DEFINE k == NameWords[n]
           o == a.off
           s == u.struct
           g == InNew(a, n)
<1>1. /\ o \in 0 .. Len(t.struct) - 1 /\ a \in Cursors /\ Len(s) \in Nat /\ Len(t.struct) \in Nat
      /\ o + Len(words) < Len(s)
  <2>1. /\ a.off + Len(words) = a.off + Gained(a, a, words)
        /\ a.off + Gained(a, a, words) < Len(u.struct)
    BY PastedIs
  <2>2. a.off + Len(words) < Len(u.struct)
    BY <2>1
  <2> QED
    BY <2>2, PastedIs
<1>2. /\ n \in NodeNames /\ k \in Nat /\ k > 0 /\ Len(words) = k + 2
      /\ words[1] = Tag("begin") /\ words[k + 2] = Tag("endnode")
      /\ \A j \in 1 .. k : words[1 + j] = Name(n)
  BY DEF OfNode
<1>3. \A j \in 1 .. Len(words) : s[o + j] = words[j]
  BY DEF Pasted
<1>0. Further1(a, Gained(a, a, words)) = At(a.off + Len(words), a.path, a.inTree)
  BY PastedIs
<1>4. a.path \in Paths /\ a.inTree = TRUE
  <2>1. a.inTree \in BOOLEAN
    BY <1>1 DEF Cursors
  <2> QED
    BY <1>1, <2>1 DEF Cursors, Paths, Within
<1> HIDE DEF k, o, s
<1>5. o \in Nat /\ o \in 0 .. Len(s) - 1 /\ o + 1 + k <= Len(s) /\ o + 1 + k \in 0 .. Len(s) - 1
  BY <1>1, <1>2
<1>6. s[o + 1] = Tag("begin") /\ s[o + 2] = Name(n) /\ s[o + 1 + k + 1] = Tag("endnode")
  <2>1. 1 \in 1 .. Len(words) /\ 2 \in 1 .. Len(words) /\ k + 2 \in 1 .. Len(words) /\ 1 \in 1 .. k
    BY <1>2
  <2>2. o + (k + 2) = o + 1 + k + 1 /\ 1 + 1 = 2
    BY <1>2, <1>5
  <2>3. s[o + 1] = words[1] /\ s[o + 2] = words[2] /\ s[o + (k + 2)] = words[k + 2] /\ words[1 + 1] = Name(n)
    BY <1>2, <1>3, <2>1
  <2> QED
    BY <1>2, <2>2, <2>3
<1>7. NextTag(s, o).tag = "begin" /\ NextTag(s, o).next = o + 1 + k
  <2>1. k = NameWords[n]
    BY DEF k
  <2> QED
    BY ZenonT(60), <1>1, <1>2, <1>5, <1>6, <2>1, BeginIs
<1>8. NextTag(s, o + 1 + k).tag = "endnode" /\ NextTag(s, o + 1 + k).next = o + 1 + k + 1
  BY <1>1, <1>5, <1>6, EndIs
<1>9. Began(s, a) = Append(a.path, n)
  BY <1>4, <1>6 DEF Began, Name, o
<1>10. Hop(u, a) = g
  BY <1>7, <1>9 DEF Hop, Onto, At, InNew, s, o, k
<1>11. /\ Append(a.path, n) \in Paths /\ Append(a.path, n) # <<>> /\ Up(Append(a.path, n)) = a.path
  BY <1>2, <1>4, AppendIs
<1>12. g \in Cursors /\ g.off = o + 1 + k /\ g.path = Append(a.path, n) /\ g.inTree = TRUE
  <2>1. a.off + 1 + NameWords[n] \in Int
    BY <1>2, <1>5 DEF o, k
  <2> QED
    BY <1>11, <2>1 DEF InNew, At, Cursors, Paths, o, k
<1> HIDE DEF g
<1>13. ~Stops(u, a)
  <2>1. g.off # a.off
    BY <1>2, <1>5, <1>12 DEF o
  <2> QED
    BY <1>10, <2>1 DEF Stops
<1>14. Hop(u, g) = At(o + Len(words), a.path, a.inTree)
  <2>1. o + 1 + k + 1 = o + Len(words)
    BY <1>2, <1>5
  <2>2. NextTag(u.struct, g.off).tag = "endnode" /\ NextTag(u.struct, g.off).next = o + Len(words)
    BY <1>8, <1>12, <2>1 DEF s
  <2>3. SubSeq(g.path, 1, Len(g.path) - 1) = a.path /\ (g.path # <<>>) = TRUE
    BY <1>11, <1>12 DEF Up
  <2>4. Hop(u, g) = [off |-> o + Len(words), path |-> SubSeq(g.path, 1, Len(g.path) - 1),
                     inTree |-> g.path # <<>>]
    BY <1>12, <2>2 DEF Hop, Onto
  <2> QED
    BY <1>4, <2>3, <2>4 DEF At
<1>15. ReadAt(u, a)
  <2>1. ASSUME NEW j \in o + 2 .. o + 1 + k PROVE s[j][1] # "tag"
    <3>1. j - o - 1 \in 1 .. k /\ j - o \in 1 .. Len(words) /\ o + (j - o) = j /\ 1 + (j - o - 1) = j - o
      BY <1>2, <1>5
    <3>2. s[j] = Name(n)
      BY <1>2, <1>3, <3>1
    <3> QED
      BY <3>2 DEF Name
  <2> QED
    BY <1>7, <1>13, <2>1 DEF ReadAt, Word, s, o
<1>16. ReadAt(u, g)
  <2>1. Hop(u, g).off # g.off
    <3>1. Hop(u, g).off = o + Len(words)
      BY <1>14 DEF At
    <3>2. o + Len(words) # o + 1 + k
      BY <1>2, <1>5
    <3> QED
      BY <1>12, <3>1, <3>2
  <2>2. ~Stops(u, g)
    BY <2>1 DEF Stops
  <2>3. g.off + 2 .. NextTag(u.struct, g.off).next = {}
    <3>1. o + 1 + k + 2 .. o + 1 + k + 1 = {}
      BY <1>2, <1>5
    <3> QED
      BY <1>8, <1>12, <3>1 DEF s
  <2> QED
    BY <2>2, <2>3 DEF ReadAt, Word
<1>17. Hop(u, g) = Further1(a, Gained(a, a, words)) /\ Hop(u, g).off = a.off + Len(words)
  BY <1>0, <1>14 DEF At, o
<1> QED
  BY <1>7, <1>8, <1>9, <1>10, <1>12, <1>13, <1>15, <1>16, <1>17 DEF s, o, k, g

LEMMA NodeNoted ==
  ASSUME NEW t, Sane(t), NEW u, NEW a, NEW words, Pasted(t, u, a, a, words), NEW n, OfNode(words, n),
         Within(a)
  PROVE  LET d == Gained(a, a, words)
             g == InNew(a, n)
         IN  /\ Mends(t, u, a, a, d) /\ NewNotes(u, a, a, d) = {Note(u, a), Note(u, g)}
             /\ \A x \in Upto(u, a, Further1(a, d)) : ReadAt(u, x)
             /\ Note(u, a).tag = "begin" /\ Note(u, a).path = Append(a.path, n)
             /\ Note(u, g).tag = "endnode"
<1> DEFINE d == Gained(a, a, words)
           f == Further1(a, d)
           g == InNew(a, n)
<1>1. /\ a.off \in Int /\ a \in Cursors /\ Legible(u.struct) /\ a.off + d = a.off + Len(words)
      /\ d \in Int /\ (f \in From(u, a) => Mends(t, u, a, a, d))
  BY PastedIs
<1>2. /\ NextTag(u.struct, a.off).tag = "begin" /\ Began(u.struct, a) = Append(a.path, n)
      /\ Hop(u, a) = g /\ g \in Cursors /\ g.off = a.off + 1 + NameWords[n]
      /\ ~Stops(u, a) /\ ReadAt(u, a)
      /\ NextTag(u.struct, g.off).tag = "endnode" /\ Hop(u, g) = f /\ ReadAt(u, g)
  BY NodeThere
<1>3. NameWords[n] \in Nat /\ NameWords[n] > 0 /\ Len(words) = NameWords[n] + 2
  BY DEF OfNode
<1>4. f.off = a.off + d /\ f \in Cursors
  BY <1>1, FurtherOff
<1> HIDE DEF d, f, g
<1>5. a.off < f.off /\ g.off < f.off
  BY <1>1, <1>2, <1>3, <1>4
<1>6. From(u, a) = {a} \cup From(u, g) /\ From(u, g) = {g} \cup From(u, f) /\ f \in From(u, f)
  BY <1>1, <1>2, <1>4, FromStep, FromHere
<1>7. \A x \in From(u, f) : ~(x.off < f.off)
  <2> TAKE x \in From(u, f)
  <2>1. x = f \/ x.off > f.off
    BY <1>1, <1>4, FromOrder
  <2>2. x.off \in Int /\ f.off \in Int
    BY <1>4, FromCursors DEF Cursors
  <2> QED
    BY <2>1, <2>2
<1>8. Upto(u, a, f) = {a, g}
  BY <1>5, <1>6, <1>7 DEF Upto
<1>9. NewNotes(u, a, a, d) = {Note(u, a), Note(u, g)}
  BY <1>8 DEF NewNotes, f
<1>10. \A x \in Upto(u, a, f) : ReadAt(u, x)
  BY <1>2, <1>8
<1>11. Note(u, a).tag = "begin" /\ Note(u, a).path = Append(a.path, n) /\ Note(u, g).tag = "endnode"
  BY <1>2 DEF Note, Begins
<1>12. f \in From(u, a)
  BY <1>6
<1> QED
  BY <1>1, <1>9, <1>10, <1>11, <1>12 DEF d, f, g

(* A node that is new, with nothing in it.                                 *)
LEMMA NodePlaced ==
  ASSUME NEW t, Whole(t), NEW u, NEW a, NEW words, Pasted(t, u, a, a, words), NEW n, OfNode(words, n),
         Within(a), 0 < a.off, Word(t, a).tag \notin Minor, Append(a.path, n) \notin TreeOf(t).nodes
  PROVE  /\ Whole(u) /\ TreeOf(u).nodes = TreeOf(t).nodes \cup {Append(a.path, n)}
         /\ TreeOf(u).props = TreeOf(t).props
         /\ \E z \in Visited(u) : Begins(u, z) /\ Began(u.struct, z) = Append(a.path, n) /\ z.off = a.off
<1> DEFINE N == Notes(t)
           d == Gained(a, a, words)
           M == NewNotes(u, a, a, d)
           m == Note(u, a)
           e == Note(u, InNew(a, n))
           p == Append(a.path, n)
           lo == a.off
           B == Beside(N, lo, lo)
<1>1. Sane(t) /\ Tidy(N) /\ Within(a) /\ a \in Visited(t)
  BY DEF Whole, Pasted
<1>2. /\ Mends(t, u, a, a, d) /\ M = {m, e} /\ \A x \in Upto(u, a, Further1(a, d)) : ReadAt(u, x)
      /\ m.tag = "begin" /\ m.path = p /\ e.tag = "endnode"
  BY <1>1, NodeNoted
<1>3. /\ Sane(u) /\ Notes(u) = Changed(N, M, lo, lo, d)
      /\ lo \in Int /\ d \in Int /\ lo <= lo /\ lo + d >= lo
      /\ \A x \in N : x.off \in Int /\ x.off >= 0
      /\ \A x \in M : x.off \in Int /\ lo <= x.off /\ x.off < lo + d
  <2>1. Sane(u) /\ Notes(u) = Changed(N, M, a.off, a.off, d)
    <3>1. Mends(t, u, a, a, d) /\ \A x \in Upto(u, a, Further1(a, d)) : ReadAt(u, x)
      BY <1>2
    <3> HIDE DEF d, N, M
    <3> QED
      BY <1>1, <3>1, Mended DEF N, M
  <2>2. a.off \in Int /\ d \in Int /\ a.off <= a.off /\ a.off + d >= a.off
    BY <1>1, <1>2, Mended
  <2>3. \A x \in N : x.off \in Int /\ x.off >= 0
    BY <1>1, <1>2, Mended
  <2>4. \A x \in M : x.off \in Int /\ a.off <= x.off /\ x.off < a.off + d
    BY <1>1, <1>2, Mended
  <2> QED
    BY <2>1, <2>2, <2>3, <2>4
<1>4. p # <<>>
  <2>1. a.path \in Paths /\ n \in NodeNames
    BY <1>1, Met DEF Paths, OfNode
  <2> QED
    BY <2>1, AppendIs
<1>5. Nodes(N) = TreeOf(t).nodes /\ Props(N) = TreeOf(t).props
  BY <1>1, MeaningIs
<1>6. \E z \in N : z.off = lo /\ z.tag \notin Minor
  <2>1. Note(t, a) \in N /\ Note(t, a).off = a.off /\ Note(t, a).tag = Word(t, a).tag
    BY <1>1, NoteIs
  <2> QED
    BY <2>1
<1>7. 0 < lo /\ p \notin TreeOf(t).nodes
  OBVIOUS
<1> HIDE DEF N, d, M, m, e, p, lo, B
<1>8. B = N
  BY <1>3 DEF B, Beside
<1>9. \A x \in N : x.tag = "begin" => x.path # p
  BY <1>5, <1>7 DEF Nodes
<1>10. Tidy(Changed(N, M, lo, lo, d))
  <2>1. ASSUME NEW x \in M, x.tag = "begin"
        PROVE  /\ x.path # <<>>
               /\ \A y \in Beside(N, lo, lo) : y.tag = "begin" => y.path # x.path
               /\ \A y \in M : y.tag = "begin" /\ y.path = x.path => y = x
    <3>1. x = m
      BY <1>2, <2>1
    <3>2. \A y \in M : y.tag = "begin" => y = m
      BY <1>2
    <3>3. \A y \in Beside(N, lo, lo) : y.tag = "begin" => y.path # x.path
      BY <1>2, <1>8, <1>9, <3>1 DEF B
    <3> QED
      BY <1>2, <1>4, <3>1, <3>2, <3>3
  <2>2. \A x \in M : x.tag # "prop"
    BY <1>2
  <2>3. \A x \in N : ~(lo <= x.off /\ x.off < lo)
    BY <1>3
  <2>4. \A x \in N : x.off \in Int
    BY <1>3
  <2> QED
    BY <1>1, <1>3, <1>6, <1>7, <2>1, <2>2, <2>3, <2>4, TidyChanged
<1>11. Whole(u)
  BY <1>3, <1>10 DEF Whole
<1>12. Nodes(M) = {p} /\ Props(M) = {}
  BY <1>2 DEF Nodes, Props
<1>13. Nodes(Notes(u)) = Nodes(B) \cup Nodes(M) /\ Props(Notes(u)) = Props(B) \cup Props(M)
  BY <1>3, ChangedMeaning DEF B
<1>14. TreeOf(u).nodes = Nodes(Notes(u)) /\ TreeOf(u).props = Props(Notes(u))
  BY <1>3, MeaningIs
<1>15. \E z \in Visited(u) : Begins(u, z) /\ Began(u.struct, z) = p /\ z.off = lo
  <2>1. m \in Notes(u) /\ m.off = lo
    <3>1. m \in M
      BY <1>2
    <3>2. Note(u, a).off = a.off
      BY DEF Note
    <3> QED
      BY <1>3, <3>1, <3>2 DEF Changed, m, lo
  <2>2. PICK z \in Visited(u) : m = Note(u, z) /\ m.off = z.off /\ m.tag = Word(u, z).tag
    BY <1>3, <2>1, NotesAre
  <2>3. Begins(u, z) /\ Began(u.struct, z) = p
    <3>1. Word(u, z).tag = "begin"
      BY <1>2, <2>2
    <3>2. Note(u, z).path = Began(u.struct, z)
      BY <1>3, <2>2, <3>1, NoteIs
    <3> QED
      BY <1>2, <2>2, <3>1, <3>2 DEF Begins, Word
  <2> QED
    BY <2>1, <2>2, <2>3
<1> QED
  BY <1>5, <1>8, <1>11, <1>12, <1>13, <1>14, <1>15 DEF p, lo

-----------------------------------------------------------------------------
(* A walk that goes through the images of the cursors of another.          *)
LEMMA FromMap ==
  ASSUME NEW t, NEW u, Legible(t.struct), Legible(u.struct), NEW F,
         \A x \in Visited(t) : F[x] \in Cursors,
         F[Start] = Start, \A x \in Visited(t) : F[Hop(t, x)] = Hop(u, F[x])
  PROVE  Visited(u) = {F[x] : x \in Visited(t)}
<1>1. Start \in Cursors
  BY StartIs
<1>2. Start \in Visited(t) /\ Start \in Visited(u)
  BY <1>1, FromHere DEF Visited
<1>3. (\A x \in Visited(t) : Hop(t, x) \in Visited(t)) /\ (\A x \in Visited(u) : Hop(u, x) \in Visited(u))
  BY FromMove DEF Visited
<1>4. Visited(t) \subseteq Cursors
  BY FromCursors DEF Visited
<1>5. Visited(u) \subseteq {F[x] : x \in Visited(t)}
  <2> DEFINE P == {F[x] : x \in Visited(t)}
  <2>1. P \in SUBSET Cursors /\ Start \in P
    BY <1>2
  <2>2. \A e \in P : Hop(u, e) \in P
    BY <1>3
  <2> HIDE DEF P
  <2>3. From(u, Start) \subseteq P
    BY <2>1, <2>2, FromWithin
  <2> QED
    BY <2>3 DEF P, Visited
<1>6. \A x \in Visited(t) : F[x] \in Visited(u)
  <2> DEFINE P == {x \in Visited(t) : F[x] \in Visited(u)}
  <2>1. P \in SUBSET Cursors /\ Start \in P
    BY <1>2, <1>4
  <2>2. \A e \in P : Hop(t, e) \in P
    BY <1>3
  <2>3. From(t, Start) \subseteq P
    <3> HIDE DEF P
    <3> QED
      BY <2>1, <2>2, FromWithin
  <2> QED
    BY <2>3 DEF Visited
<1> QED
  BY <1>5, <1>6

-----------------------------------------------------------------------------
(* The node at q, and all that is in it, gets name n.                      *)
Ren(q, n, p) == IF q # <<>> /\ Heads(q, p) THEN [p EXCEPT ![Len(q)] = n] ELSE p

LEMMA RenIs ==
  ASSUME NEW q \in Paths, NEW n \in NodeNames, NEW p \in Paths
  PROVE  /\ Ren(q, n, p) \in Paths /\ Len(Ren(q, n, p)) = Len(p) /\ Len(p) \in Nat /\ Len(q) \in Nat
         /\ \A i \in 1 .. Len(p) :
              Ren(q, n, p)[i] = IF q # <<>> /\ Heads(q, p) /\ i = Len(q) THEN n ELSE p[i]
         /\ (Ren(q, n, p) = <<>>) = (p = <<>>)
         /\ Heads(q, p) => Len(q) <= Len(p)
<1>1. Len(p) \in Nat /\ Len(q) \in Nat /\ (q = <<>> <=> Len(q) = 0) /\ (p = <<>> <=> Len(p) = 0)
  BY UpIs
<1>2. CASE q # <<>> /\ Heads(q, p)
  <2>1. Len(q) \in 1 .. Len(p) /\ Len(q) <= Len(p)
    BY <1>1, <1>2 DEF Heads
  <2>2. Ren(q, n, p) = [p EXCEPT ![Len(q)] = n]
    BY <1>2 DEF Ren
  <2>3. p \in Seq(NodeNames)
    BY DEF Paths
  <2>4. /\ [p EXCEPT ![Len(q)] = n] \in Seq(NodeNames) /\ Len([p EXCEPT ![Len(q)] = n]) = Len(p)
        /\ \A i \in 1 .. Len(p) : [p EXCEPT ![Len(q)] = n][i] = IF i = Len(q) THEN n ELSE p[i]
    BY <2>1, <2>3, ExceptSeq
  <2>5. Ren(q, n, p) \in Paths /\ Len(Ren(q, n, p)) = Len(p)
    BY <2>2, <2>4 DEF Paths
  <2>6. Len(Ren(q, n, p)) = 0 <=> Ren(q, n, p) = <<>>
    BY <2>5, UpIs
  <2> QED
    BY <1>1, <1>2, <2>1, <2>2, <2>4, <2>5, <2>6
<1>3. CASE ~(q # <<>> /\ Heads(q, p))
  <2>1. Ren(q, n, p) = p
    BY <1>3 DEF Ren
  <2>2. Heads(q, p) => Len(q) <= Len(p)
    BY <1>1, <1>3 DEF Heads
  <2> QED
    BY <1>1, <1>3, <2>1, <2>2
<1> QED
  BY <1>2, <1>3

(* The path of the child called m of the node at p.                        *)
ChildOf(a, p, m) == a = Append(p, m)

LEMMA RenAppend ==
  ASSUME NEW q \in Paths, NEW n \in NodeNames, NEW p \in Paths, NEW m \in NodeNames,
         NEW a, ChildOf(a, p, m)
  PROVE  /\ a # q => Ren(q, n, a) = Append(Ren(q, n, p), m)
         /\ a = q => Ren(q, n, a) = Append(p, n) /\ Ren(q, n, p) = p
<1>1. /\ a \in Paths /\ Len(a) = Len(p) + 1 /\ a # <<>> /\ a[Len(p) + 1] = m
      /\ \A i \in 1 .. Len(p) : a[i] = p[i]
  BY AppendIs DEF ChildOf
<1>2. Heads(q, a) <=> (Heads(q, p) \/ q = a)
  BY HeadsLonger DEF ChildOf
<1>3. ASSUME a # q PROVE Ren(q, n, a) = Append(Ren(q, n, p), m)
  <2>1. /\ Ren(q, n, p) \in Paths /\ Len(Ren(q, n, p)) = Len(p) /\ Len(p) \in Nat /\ Len(q) \in Nat
        /\ \A i \in 1 .. Len(p) :
             Ren(q, n, p)[i] = IF q # <<>> /\ Heads(q, p) /\ i = Len(q) THEN n ELSE p[i]
        /\ Heads(q, p) => Len(q) <= Len(p)
    BY RenIs
  <2>2. /\ Ren(q, n, a) \in Paths /\ Len(Ren(q, n, a)) = Len(a)
        /\ \A i \in 1 .. Len(a) :
             Ren(q, n, a)[i] = IF q # <<>> /\ Heads(q, a) /\ i = Len(q) THEN n ELSE a[i]
    BY <1>1, RenIs
  <2>3. /\ Append(Ren(q, n, p), m) \in Paths /\ Len(Append(Ren(q, n, p), m)) = Len(p) + 1
        /\ \A i \in 1 .. Len(p) : Append(Ren(q, n, p), m)[i] = Ren(q, n, p)[i]
        /\ Append(Ren(q, n, p), m)[Len(p) + 1] = m
    <3>1. PICK r \in Paths : r = Ren(q, n, p)
      BY <2>1
    <3>2. /\ Append(r, m) \in Paths /\ Len(Append(r, m)) = Len(r) + 1
          /\ (\A i \in 1 .. Len(r) : Append(r, m)[i] = r[i]) /\ Append(r, m)[Len(r) + 1] = m
      BY AppendIs
    <3> QED
      BY <2>1, <3>1, <3>2
  <2>4. \A i \in 1 .. Len(a) : Ren(q, n, a)[i] = Append(Ren(q, n, p), m)[i]
    <3> TAKE i \in 1 .. Len(a)
    <3>1. CASE i = Len(p) + 1
      <4>1. ~(Heads(q, a) /\ i = Len(q))
        BY <1>2, <1>3, <2>1, <3>1
      <4> QED
        BY <1>1, <2>2, <2>3, <3>1, <4>1
    <3>2. CASE i # Len(p) + 1
      <4>1. i \in 1 .. Len(p)
        BY <1>1, <2>1, <3>2
      <4> QED
        BY <1>1, <1>2, <1>3, <2>1, <2>2, <2>3, <4>1
    <3> QED
      BY <3>1, <3>2
  <2>5. Ren(q, n, a) \in Paths /\ Append(Ren(q, n, p), m) \in Paths
        /\ Len(Ren(q, n, a)) = Len(Append(Ren(q, n, p), m))
        /\ \A i \in 1 .. Len(Append(Ren(q, n, p), m)) : Ren(q, n, a)[i] = Append(Ren(q, n, p), m)[i]
    BY <1>1, <2>2, <2>3, <2>4
  <2> QED
    BY <2>5, SamePath
<1>4. ASSUME a = q PROVE Ren(q, n, a) = Append(p, n) /\ Ren(q, n, p) = p
  <2>1. ~Heads(q, p)
    <3>1. Len(p) \in Nat /\ Len(q) = Len(p) + 1
      BY <1>1, <1>4, UpIs
    <3> QED
      BY <3>1 DEF Heads
  <2>2. Ren(q, n, p) = p
    BY <2>1 DEF Ren
  <2>3. /\ Ren(q, n, a) \in Paths /\ Len(Ren(q, n, a)) = Len(a) /\ Len(p) \in Nat
        /\ \A i \in 1 .. Len(a) :
             Ren(q, n, a)[i] = IF q # <<>> /\ Heads(q, a) /\ i = Len(q) THEN n ELSE a[i]
    BY <1>1, RenIs, UpIs
  <2>4. /\ Append(p, n) \in Paths /\ Len(Append(p, n)) = Len(p) + 1 /\ Append(p, n)[Len(p) + 1] = n
        /\ \A i \in 1 .. Len(p) : Append(p, n)[i] = p[i]
    BY AppendIs
  <2>5. \A i \in 1 .. Len(Append(p, n)) : Ren(q, n, a)[i] = Append(p, n)[i]
    <3> TAKE i \in 1 .. Len(Append(p, n))
    <3>1. Len(q) = Len(p) + 1 /\ Heads(q, a) /\ q # <<>> /\ i \in 1 .. Len(a)
      BY <1>1, <1>2, <1>4, <2>4
    <3>2. CASE i = Len(p) + 1
      BY <2>3, <2>4, <3>1, <3>2
    <3>3. CASE i # Len(p) + 1
      <4>1. i \in 1 .. Len(p)
        BY <1>1, <2>3, <3>1, <3>3
      <4> QED
        BY <1>1, <2>3, <2>4, <3>1, <3>3, <4>1
    <3> QED
      BY <3>2, <3>3
  <2>6. Len(Ren(q, n, a)) = Len(Append(p, n))
    BY <1>1, <2>3, <2>4
  <2> QED
    BY <2>2, <2>3, <2>4, <2>5, <2>6, SamePath
<1> QED
  BY <1>3, <1>4

LEMMA RenUp ==
  ASSUME NEW q \in Paths, NEW n \in NodeNames, NEW p \in Paths
  PROVE  Ren(q, n, Up(p)) = Up(Ren(q, n, p))
<1> DEFINE a == Ren(q, n, Up(p))
           r == Ren(q, n, p)
<1>1. /\ Up(p) \in Paths /\ Len(p) \in Nat /\ Len(Up(p)) \in Nat
      /\ (p = <<>> <=> Len(p) = 0)
      /\ Len(Up(p)) = (IF p = <<>> THEN 0 ELSE Len(p) - 1)
      /\ \A i \in 1 .. Len(Up(p)) : Up(p)[i] = p[i]
  BY UpIs
<1>2. /\ r \in Paths /\ Len(r) = Len(p) /\ Len(q) \in Nat /\ (r = <<>>) = (p = <<>>)
      /\ \A i \in 1 .. Len(p) : r[i] = IF q # <<>> /\ Heads(q, p) /\ i = Len(q) THEN n ELSE p[i]
  BY RenIs
<1>3. /\ a \in Paths /\ Len(a) = Len(Up(p))
      /\ \A i \in 1 .. Len(Up(p)) :
           a[i] = IF q # <<>> /\ Heads(q, Up(p)) /\ i = Len(q) THEN n ELSE Up(p)[i]
  BY <1>1, RenIs
<1>4. \A i \in 1 .. Len(Up(p)) : (Heads(q, Up(p)) /\ i = Len(q)) <=> (Heads(q, p) /\ i = Len(q))
  <2> TAKE i \in 1 .. Len(Up(p))
  <2>1. Heads(q, Up(p)) => Heads(q, p)
    BY HeadsDown
  <2>2. Heads(q, p) /\ p # q => Heads(q, Up(p))
    BY HeadsUp
  <2>3. p = q => i # Len(q)
    BY <1>1
  <2> QED
    BY <2>1, <2>2, <2>3
<1> HIDE DEF a, r
<1>5. /\ Up(r) \in Paths /\ Len(Up(r)) = (IF r = <<>> THEN 0 ELSE Len(r) - 1)
      /\ \A i \in 1 .. Len(Up(r)) : Up(r)[i] = r[i]
  BY <1>2, UpIs
<1>6. Len(a) = Len(Up(r)) /\ Len(Up(r)) = Len(Up(p))
  BY <1>1, <1>2, <1>3, <1>5
<1>7. \A i \in 1 .. Len(Up(r)) : a[i] = Up(r)[i]
  <2> TAKE i \in 1 .. Len(Up(r))
  <2>1. i \in 1 .. Len(Up(p)) /\ i \in 1 .. Len(p)
    BY <1>1, <1>6
  <2> QED
    BY <1>1, <1>2, <1>3, <1>4, <1>5, <2>1
<1> QED
  BY <1>3, <1>5, <1>6, <1>7, SamePath DEF a, r

(* Two paths that become the same.                                         *)
LEMMA RenMeets ==
  ASSUME NEW q \in Paths, NEW n \in NodeNames, NEW p \in Paths, NEW r \in Paths,
         Ren(q, n, p) = Ren(q, n, r), Heads(q, p) <=> Heads(q, r)
  PROVE  p = r
<1>1. /\ Len(Ren(q, n, p)) = Len(p) /\ Len(Ren(q, n, r)) = Len(r) /\ Len(p) \in Nat
      /\ \A i \in 1 .. Len(p) :
           Ren(q, n, p)[i] = IF q # <<>> /\ Heads(q, p) /\ i = Len(q) THEN n ELSE p[i]
      /\ \A i \in 1 .. Len(r) :
           Ren(q, n, r)[i] = IF q # <<>> /\ Heads(q, r) /\ i = Len(q) THEN n ELSE r[i]
  BY RenIs
<1>2. /\ Heads(q, p) => \A i \in 1 .. Len(q) : p[i] = q[i]
      /\ Heads(q, r) => \A i \in 1 .. Len(q) : r[i] = q[i]
      /\ Len(q) \in Nat /\ (q = <<>> <=> Len(q) = 0)
  BY HeadsIs, UpIs
<1>3. Len(p) = Len(r)
  BY <1>1
<1>4. \A i \in 1 .. Len(r) : p[i] = r[i]
  <2> TAKE i \in 1 .. Len(r)
  <2>1. CASE q # <<>> /\ Heads(q, p) /\ i = Len(q)
    <3>1. i \in 1 .. Len(q)
      BY <1>2, <2>1
    <3> QED
      BY <1>2, <2>1, <3>1
  <2>2. CASE ~(q # <<>> /\ Heads(q, p) /\ i = Len(q))
    BY <1>1, <1>3, <2>2
  <2> QED
    BY <2>1, <2>2
<1> QED
  BY <1>3, <1>4, SamePath

LEMMA RenHead ==
  ASSUME NEW q \in Paths, NEW n \in NodeNames, NEW p \in Paths, q # <<>>, Heads(q, p)
  PROVE  Heads(Append(Up(q), n), Ren(q, n, p)) /\ Append(Up(q), n) \in Paths
<1> DEFINE a == Append(Up(q), n)
           r == Ren(q, n, p)
<1>1. /\ Up(q) \in Paths /\ Len(Up(q)) = Len(q) - 1 /\ Len(q) \in Nat /\ Len(q) # 0
      /\ \A i \in 1 .. Len(Up(q)) : Up(q)[i] = q[i]
  BY UpIs
<1>2. /\ a \in Paths /\ Len(a) = Len(Up(q)) + 1 /\ a[Len(Up(q)) + 1] = n
      /\ \A i \in 1 .. Len(Up(q)) : a[i] = Up(q)[i]
  BY <1>1, AppendIs
<1>3. /\ r \in Paths /\ Len(r) = Len(p) /\ Len(p) \in Nat
      /\ \A i \in 1 .. Len(p) : r[i] = IF q # <<>> /\ Heads(q, p) /\ i = Len(q) THEN n ELSE p[i]
  BY RenIs
<1>4. Len(q) <= Len(p) /\ \A i \in 1 .. Len(q) : p[i] = q[i]
  BY HeadsIs
<1> HIDE DEF a, r
<1>5. Len(a) = Len(q)
  BY <1>1, <1>2
<1>6. \A i \in 1 .. Len(a) : r[i] = a[i]
  <2> TAKE i \in 1 .. Len(a)
  <2>1. i \in 1 .. Len(q) /\ i \in 1 .. Len(p)
    BY <1>1, <1>3, <1>4, <1>5
  <2>2. CASE i = Len(q)
    <3>1. i = Len(Up(q)) + 1
      BY <1>1, <2>2
    <3> QED
      BY <1>2, <1>3, <2>1, <2>2, <3>1
  <2>3. CASE i # Len(q)
    <3>1. i \in 1 .. Len(Up(q))
      BY <1>1, <2>1, <2>3
    <3> QED
      BY <1>1, <1>2, <1>3, <1>4, <2>1, <2>3, <3>1
  <2> QED
    BY <2>2, <2>3
<1>7. Len(a) <= Len(r)
  BY <1>3, <1>4, <1>5
<1> QED
  BY <1>2, <1>3, <1>6, <1>7, HeadsIs DEF a, r

-----------------------------------------------------------------------------
(* The node that begins at c gets name n: its begin tag gives way to words *)
OfName(words, n) ==
  /\ n \in NodeNames /\ NameWords[n] \in Nat /\ NameWords[n] > 0 /\ Len(words) = NameWords[n] + 1
  /\ words[1] = Tag("begin")
  /\ \A j \in 1 .. NameWords[n] : words[1 + j] = Name(n)

Renamed(t, u, c, n, words) ==
  /\ Whole(t) /\ c \in Visited(t) /\ Begins(t, c)
  /\ Pasted(t, u, c, Hop(t, c), words) /\ OfName(words, n)

Longer(t, c, words) == Gained(c, Hop(t, c), words)

(* Where a cursor of t is in u.                                            *)
Shift(t, c, words, o) == IF o <= c.off THEN o ELSE o + Longer(t, c, words)
Image(t, c, n, words, x) ==
  At(Shift(t, c, words, x.off), Ren(Began(t.struct, c), n, x.path), x.inTree)

LEMMA RenamedIs ==
  ASSUME NEW t, NEW u, NEW c, NEW n, NEW words, Renamed(t, u, c, n, words)
  PROVE  LET b == Hop(t, c)
             d == Longer(t, c, words)
         IN  /\ Whole(t) /\ Sane(t) /\ c \in Visited(t) /\ Word(t, c).tag = "begin" /\ Begins(t, c)
             /\ c.off \in Nat /\ b.off \in Nat /\ c.off < b.off /\ d \in Int /\ n \in NodeNames
             /\ Len(t.struct) \in Nat /\ Len(u.struct) \in Nat /\ Len(u.struct) = Len(t.struct) + d
             /\ b.off + d = c.off + 1 + NameWords[n] /\ NameWords[n] \in Nat /\ NameWords[n] > 0
             /\ b.off < Len(t.struct) /\ Knows(u, t) /\ Legible(t.struct) /\ Legible(u.struct)
             /\ Began(t.struct, c) \in Paths
             /\ \A i \in 1 .. c.off : u.struct[i] = t.struct[i]
             /\ \A i \in b.off + 1 .. Len(t.struct) : u.struct[i + d] = t.struct[i]
             /\ u.struct[c.off + 1] = Tag("begin")
             /\ \A j \in c.off + 2 .. c.off + 1 + NameWords[n] : u.struct[j] = Name(n)
<1> DEFINE b == Hop(t, c)
           d == Longer(t, c, words)
           k == NameWords[n]
<1>1. /\ Whole(t) /\ Sane(t) /\ c \in Visited(t) /\ Begins(t, c) /\ Word(t, c).tag = "begin"
      /\ Pasted(t, u, c, b, words) /\ OfName(words, n)
  BY DEF Renamed, Whole, Begins, Word
<1>2. /\ c.off \in 0 .. Len(t.struct) - 1 /\ b.off \in 0 .. Len(t.struct) - 1
      /\ Len(t.struct) \in Nat /\ Len(u.struct) \in Nat /\ Legible(u.struct) /\ d \in Int
      /\ c.off + Len(words) = b.off + d
  BY <1>1, PastedIs DEF Longer
<1>3. /\ b.off = Word(t, c).next /\ Word(t, c).next \in c.off + 1 .. Len(t.struct) /\ Legible(t.struct)
  <2>1. ~Stops(t, c)
    BY <1>1, Met
  <2> QED
    BY <1>1, <2>1, Met
<1>4. n \in NodeNames /\ k \in Nat /\ k > 0 /\ Len(words) = k + 1 /\ words[1] = Tag("begin")
  BY <1>1 DEF OfName
<1>10. \A j \in 1 .. k : words[1 + j] = Name(n)
  BY <1>1 DEF OfName
<1>5. /\ Knows(u, t) /\ Len(u.struct) = Len(t.struct) + d
      /\ \A i \in 1 .. c.off : u.struct[i] = t.struct[i]
      /\ \A i \in 1 .. Len(words) : u.struct[c.off + i] = words[i]
      /\ \A i \in b.off + 1 .. Len(t.struct) : u.struct[i + d] = t.struct[i]
  BY <1>1 DEF Pasted, Longer
<1>6. Began(t.struct, c) \in Paths
  BY <1>1, MetTag DEF Paths
<1> HIDE DEF b, d, k
<1>7. c.off \in Nat /\ b.off \in Nat /\ c.off < b.off /\ b.off + d = c.off + 1 + k /\ b.off < Len(t.struct)
  <2>1. c.off \in Nat /\ b.off \in Nat /\ b.off < Len(t.struct)
    BY <1>2
  <2>2. c.off < b.off
    BY <1>3, <2>1
  <2>3. c.off + (k + 1) = b.off + d
    BY <1>2, <1>4
  <2> QED
    BY <1>4, <2>1, <2>2, <2>3
<1>8. u.struct[c.off + 1] = Tag("begin")
  BY <1>4, <1>5
<1>9. ASSUME NEW j \in c.off + 2 .. c.off + 1 + k PROVE u.struct[j] = Name(n)
  <2>1. j - c.off - 1 \in 1 .. k /\ j - c.off \in 1 .. Len(words) /\ c.off + (j - c.off) = j
        /\ 1 + (j - c.off - 1) = j - c.off
    BY SMTT(30), <1>4, <1>7
  <2> QED
    BY <1>5, <1>10, <2>1
<1> QED
  BY <1>1, <1>2, <1>3, <1>4, <1>5, <1>6, <1>7, <1>8, <1>9 DEF b, d, k

(* The begin tag of the node itself.                                       *)
LEMMA RenamedHere ==
  ASSUME NEW t, NEW u, NEW c, NEW n, NEW words, Renamed(t, u, c, n, words)
  PROVE  LET y == Image(t, c, n, words, c)
         IN  /\ y = c /\ Word(u, c).tag = "begin" /\ Word(u, c).next = Hop(t, c).off + Longer(t, c, words)
             /\ Began(u.struct, c) = Ren(Began(t.struct, c), n, Began(t.struct, c))
             /\ Ren(Began(t.struct, c), n, c.path) = c.path
             /\ \A i \in c.off + 2 .. Word(u, c).next : u.struct[i][1] # "tag"
<1> DEFINE b == Hop(t, c)
           d == Longer(t, c, words)
           k == NameWords[n]
           q == Began(t.struct, c)
<1>1. /\ Sane(t) /\ c \in Visited(t) /\ Begins(t, c) /\ Word(t, c).tag = "begin"
      /\ c.off \in Nat /\ b.off \in Nat /\ n \in NodeNames
      /\ Len(u.struct) \in Nat /\ Len(t.struct) \in Nat /\ d \in Int /\ Len(u.struct) = Len(t.struct) + d
      /\ b.off + d = c.off + 1 + k /\ k \in Nat /\ k > 0 /\ b.off < Len(t.struct)
      /\ q \in Paths /\ u.struct[c.off + 1] = Tag("begin")
  BY RenamedIs
<1>7. \A j \in c.off + 2 .. c.off + 1 + k : u.struct[j] = Name(n)
  BY RenamedIs
<1>8. u.struct[c.off + 2] = Name(n)
  <2>1. c.off + 2 \in c.off + 2 .. c.off + 1 + k
    BY SMTT(30), <1>1
  <2> QED
    BY <1>7, <2>1
<1>2. Word(u, c).tag = "begin" /\ Word(u, c).next = b.off + d /\ u.struct[c.off + 2] = Name(n)
  <2> HIDE DEF b, d
  <2>1. PICK s : s = u.struct
    OBVIOUS
  <2>2. PICK o \in Nat : o = c.off
    BY <1>1
  <2>3. PICK m \in Nat : m = NameWords[n]
    BY <1>1
  <2>6. Len(s) \in Nat /\ o \in 0 .. Len(s) - 1 /\ m > 0 /\ o + 1 + m <= Len(s)
    <3>1. /\ b.off \in Nat /\ d \in Int /\ Len(t.struct) \in Nat /\ Len(s) = Len(t.struct) + d
          /\ Len(s) \in Nat /\ b.off + d = o + 1 + m /\ b.off < Len(t.struct) /\ m > 0
      BY <1>1, <2>1, <2>2, <2>3
    <3> QED
      BY <3>1
  <2>4. /\ Len(s) \in Nat /\ o \in 0 .. Len(s) - 1 /\ m > 0 /\ o + 1 + m <= Len(s)
        /\ s[o + 1] = Tag("begin") /\ s[o + 2] = Name(n)
    BY <1>1, <1>8, <2>1, <2>2, <2>6
  <2>5. NextTag(s, o).tag = "begin" /\ NextTag(s, o).next = o + 1 + m
    BY <2>3, <2>4, BeginIs
  <2> QED
    BY <1>1, <2>1, <2>2, <2>3, <2>4, <2>5 DEF Word
<1>3. c.path \in Paths /\ c.off \in Int /\ c = At(c.off, c.path, c.inTree) /\ t.struct[c.off + 2][2] \in NodeNames
  BY <1>1, Met, MetTag DEF Paths
<1>4. Began(u.struct, c) = Ren(q, n, q) /\ Ren(q, n, c.path) = c.path
  <2>1. CASE c.inTree
    <3>1. q = Append(c.path, t.struct[c.off + 2][2])
      BY <2>1 DEF Began
    <3>2. Began(u.struct, c) = Append(c.path, n)
      BY <1>2, <2>1 DEF Began, Name
    <3> HIDE DEF q
    <3>3. PICK m \in NodeNames : m = t.struct[c.off + 2][2]
      BY <1>3
    <3>4. PICK p \in Paths : p = c.path
      BY <1>3
    <3>5. PICK r \in Paths : r = q
      BY <1>1
    <3>6. ChildOf(r, p, m)
      BY <3>1, <3>3, <3>4, <3>5 DEF ChildOf
    <3>7. Ren(r, n, r) = Append(p, n) /\ Ren(r, n, p) = p
      BY <1>1, <3>6, RenAppend
    <3>8. Ren(q, n, q) = Append(c.path, n) /\ Ren(q, n, c.path) = c.path
      BY <3>4, <3>5, <3>7
    <3> HIDE DEF q
    <3> QED
      BY <3>2, <3>8
  <2>2. CASE ~c.inTree
    <3>1. q = <<>> /\ Began(u.struct, c) = <<>>
      BY <2>2 DEF Began
    <3>2. Ren(q, n, q) = <<>> /\ Ren(q, n, c.path) = c.path
      BY <3>1 DEF Ren
    <3> QED
      BY <3>1, <3>2
  <2> QED
    BY <2>1, <2>2
<1>5. Image(t, c, n, words, c) = c
  <2>1. Shift(t, c, words, c.off) = c.off
    BY <1>3 DEF Shift
  <2> QED
    BY <1>3, <1>4, <2>1 DEF Image
<1>6. \A i \in c.off + 2 .. Word(u, c).next : u.struct[i][1] # "tag"
  BY SMTT(30), <1>1, <1>2, <1>7 DEF Name
<1> QED
  BY <1>2, <1>4, <1>5, <1>6

(* Any other tag.                                                          *)
LEMMA RenamedThere ==
  ASSUME NEW t, NEW u, NEW c, NEW n, NEW words, Renamed(t, u, c, n, words), NEW x \in Visited(t), x # c
  PROVE  LET y == Image(t, c, n, words, x)
             k == y.off - x.off
         IN  /\ y.off = Shift(t, c, words, x.off) /\ y.off \in Int /\ k \in Int
             /\ k = IF x.off <= c.off THEN 0 ELSE Longer(t, c, words)
             /\ Word(u, y).tag = Word(t, x).tag /\ Word(u, y).next = Word(t, x).next + k
             /\ Word(u, y).next = Shift(t, c, words, Word(t, x).next)
             /\ \A i \in x.off + 1 .. Word(t, x).next : u.struct[i + k] = t.struct[i]
<1> DEFINE b == Hop(t, c)
           d == Longer(t, c, words)
           w == NextTag(t.struct, x.off)
           y == Image(t, c, n, words, x)
           k == y.off - x.off
<1>1. /\ Sane(t) /\ c \in Visited(t) /\ Begins(t, c) /\ Word(t, c).tag = "begin" /\ Legible(t.struct)
      /\ c.off \in Nat /\ b.off \in Nat /\ c.off < b.off /\ d \in Int
      /\ Len(u.struct) \in Nat /\ Len(t.struct) \in Nat /\ Len(u.struct) = Len(t.struct) + d
      /\ b.off + d = c.off + 1 + NameWords[n] /\ NameWords[n] \in Nat /\ b.off < Len(t.struct)
  BY RenamedIs
<1>10. \A i \in 1 .. c.off : u.struct[i] = t.struct[i]
  BY RenamedIs
<1>11. \A i \in b.off + 1 .. Len(t.struct) : u.struct[i + d] = t.struct[i]
  BY RenamedIs
<1>12. c.off <= Len(u.struct) /\ b.off + d >= 0 /\ c.off <= b.off + d
  <2> HIDE DEF b, d
  <2> QED
    BY <1>1
<1>2. /\ x.off \in 0 .. Len(t.struct) - 1 /\ w.next \in x.off + 1 .. Len(t.struct)
      /\ (~Stops(t, x) => Hop(t, x).off = w.next)
  BY <1>1, Met DEF Word
<1>3. y.off = Shift(t, c, words, x.off)
  BY DEF Image, At
<1>4. x.off \in Int /\ y.off = x.off + (IF x.off <= c.off THEN 0 ELSE d)
  <2> HIDE DEF y, w, d
  <2> QED
    BY <1>1, <1>2, <1>3 DEF Shift, d
<1>5. (x.off < c.off /\ w.next <= c.off) \/ (x.off > c.off /\ x.off >= b.off /\ w.next > c.off)
  <2>1. Start \in Cursors /\ Visited(t) = From(t, Start)
    BY StartIs DEF Visited
  <2>2. x.off # c.off
    BY <1>1, SameOff
  <2>3. CASE x.off < c.off
    <3>1. c.off >= Hop(t, x).off /\ ~Stops(t, x)
      BY <1>1, <2>1, <2>3, FromNext
    <3> HIDE DEF w, b
    <3> QED
      BY <1>1, <1>2, <2>3, <3>1
  <2>4. CASE x.off > c.off
    <3>1. x.off >= Hop(t, c).off
      BY <1>1, <2>1, <2>4, FromNext
    <3> HIDE DEF w
    <3>2. w.next > c.off
      BY <1>1, <1>2, <2>4
    <3> QED
      BY <2>4, <3>1, <3>2
  <2> HIDE DEF w, b
  <2> QED
    BY <1>1, <1>4, <2>2, <2>3, <2>4
<1> HIDE DEF y, d, b
<1>6. k \in Int /\ x.off + k = y.off /\ k = (IF x.off <= c.off THEN 0 ELSE d)
  BY <1>1, <1>4
<1>7. /\ w.next + k <= Len(u.struct) /\ y.off >= 0 /\ \A i \in x.off + 1 .. w.next : u.struct[i + k] = t.struct[i]
  <2> HIDE DEF k, w
  <2>1. CASE x.off < c.off
    <3>1. k = 0 /\ w.next <= c.off
      BY <1>1, <1>4, <1>5, <1>6, <2>1
    <3>2. \A i \in x.off + 1 .. w.next : i \in 1 .. c.off /\ i + k = i
      BY <1>1, <1>2, <3>1
    <3>3. w.next + k <= Len(u.struct) /\ y.off >= 0
      BY <1>1, <1>2, <1>4, <1>6, <1>12, <2>1, <3>1
    <3> QED
      BY <1>10, <3>2, <3>3
  <2>2. CASE x.off > c.off
    <3>1. k = d /\ x.off >= b.off
      BY <1>1, <1>4, <1>5, <1>6, <2>2
    <3>2. ASSUME NEW i \in x.off + 1 .. w.next PROVE i \in b.off + 1 .. Len(t.struct)
      <4>1. w.next \in Int /\ w.next <= Len(t.struct) /\ b.off \in Int /\ Len(t.struct) \in Int
        BY <1>1, <1>2
      <4> QED
        BY <1>4, <3>1, <4>1
    <3>3. w.next \in Int /\ w.next <= Len(t.struct) /\ b.off \in Int /\ Len(t.struct) \in Int /\ d \in Int
      BY <1>1, <1>2
    <3>5. w.next + k <= Len(u.struct)
      BY <1>1, <3>1, <3>3
    <3>6. y.off = x.off + d /\ x.off \in Int
      BY <1>4, <1>6, <3>1
    <3>7. y.off >= 0
      BY <1>12, <3>1, <3>3, <3>6
    <3>4. w.next + k <= Len(u.struct) /\ y.off >= 0
      BY <3>5, <3>7
    <3> QED
      BY <1>11, <3>1, <3>2, <3>4
  <2> QED
    BY <1>5, <2>1, <2>2
<1>8. NextTag(u.struct, y.off) = [tag |-> w.tag, next |-> w.next + k]
  <2>1. PICK o \in Int : o = x.off
    BY <1>4
  <2>2. PICK s : s = t.struct
    OBVIOUS
  <2>3. PICK r : r = u.struct
    OBVIOUS
  <2>4. PICK j \in Int : j = k
    BY <1>6
  <2>5. \A i \in x.off + 1 .. w.next : Alike(t.struct[i], u.struct[i + k])
    BY <1>7 DEF Alike
  <2>6. w.next >= 0
    <3> HIDE DEF w
    <3> QED
      BY <1>1, <1>2
  <2>7. /\ Legible(s) /\ Len(r) \in Nat /\ NextTag(s, o).next >= 0 /\ o + j >= 0
        /\ NextTag(s, o).next + j <= Len(r)
        /\ \A i \in o + 1 .. NextTag(s, o).next : Alike(s[i], r[i + j])
    BY <1>1, <1>6, <1>7, <2>1, <2>2, <2>3, <2>4, <2>5, <2>6
  <2>8. NextTag(r, o + j) = [tag |-> NextTag(s, o).tag, next |-> NextTag(s, o).next + j]
    BY <2>7, TagShift
  <2> QED
    BY <1>6, <2>1, <2>2, <2>3, <2>4, <2>8
<1>9. w.next + k = Shift(t, c, words, w.next)
  <2> HIDE DEF w, k
  <2>1. w.next <= c.off <=> x.off <= c.off
    BY <1>1, <1>2, <1>4, <1>5
  <2>2. w.next \in Int
    BY <1>2
  <2> QED
    BY <1>6, <2>1, <2>2 DEF Shift, d
<1> QED
  BY <1>3, <1>4, <1>6, <1>7, <1>8, <1>9 DEF y, d, Word

LEMMA ImageIs ==
  ASSUME NEW t, NEW u, NEW c, NEW n, NEW words, Renamed(t, u, c, n, words), NEW x \in Visited(t)
  PROVE  LET y == Image(t, c, n, words, x)
             q == Began(t.struct, c)
         IN  /\ y \in Cursors /\ y.off = Shift(t, c, words, x.off) /\ y.path = Ren(q, n, x.path)
             /\ y.inTree = x.inTree /\ x.path \in Paths /\ Ren(q, n, x.path) \in Paths
             /\ Ren(q, n, Up(x.path)) = Up(Ren(q, n, x.path))
             /\ (Ren(q, n, x.path) # <<>>) = (x.path # <<>>)
             /\ Ren(q, n, <<>>) = <<>>
<1> DEFINE q == Began(t.struct, c)
<1>1. Sane(t) /\ q \in Paths /\ n \in NodeNames /\ c.off \in Nat /\ Longer(t, c, words) \in Int
  BY RenamedIs
<1>2. x.path \in Paths /\ x.off \in Int /\ x.inTree \in BOOLEAN
  BY <1>1, Met DEF Paths
<1>3. Ren(q, n, x.path) \in Paths /\ (Ren(q, n, x.path) = <<>>) = (x.path = <<>>)
  BY <1>1, <1>2, RenIs
<1>4. Ren(q, n, Up(x.path)) = Up(Ren(q, n, x.path))
  BY <1>1, <1>2, RenUp
<1>5. Ren(q, n, <<>>) = <<>>
  <2>1. <<>> \in Paths
    BY <1>1, UpIs
  <2> HIDE DEF q
  <2> QED
    BY <1>1, <2>1, RenIs
<1>6. Shift(t, c, words, x.off) \in Int
  BY <1>1, <1>2 DEF Shift
<1> HIDE DEF q
<1>7. Image(t, c, n, words, x) = At(Shift(t, c, words, x.off), Ren(q, n, x.path), x.inTree)
  BY DEF Image, q
<1>8. (Ren(q, n, x.path) # <<>>) = (x.path # <<>>)
  BY <1>3
<1>9. Image(t, c, n, words, x) \in Cursors
  BY <1>2, <1>3, <1>6, <1>7 DEF At, Cursors, Paths
<1> QED
  BY <1>2, <1>3, <1>4, <1>5, <1>7, <1>8, <1>9 DEF At, q

(* The paths of nodes that begin.                                          *)
LEMMA RenamedBegan ==
  ASSUME NEW t, NEW u, NEW c, NEW n, NEW words, Renamed(t, u, c, n, words),
         NEW x \in Visited(t), Word(t, x).tag = "begin"
  PROVE  Began(u.struct, Image(t, c, n, words, x)) = Ren(Began(t.struct, c), n, Began(t.struct, x))
<1> DEFINE q == Began(t.struct, c)
           y == Image(t, c, n, words, x)
<1>1. Whole(t) /\ Sane(t) /\ c \in Visited(t) /\ q \in Paths /\ n \in NodeNames /\ Begins(t, c)
  BY RenamedIs
<1>2. CASE x = c
  BY <1>2, RenamedHere
<1>3. CASE x # c
  <2>1. /\ y.path = Ren(q, n, x.path) /\ y.inTree = x.inTree /\ x.path \in Paths
        /\ Ren(q, n, <<>>) = <<>>
    BY ImageIs
  <2>2. u.struct[y.off + 2] = t.struct[x.off + 2]
    <3>1. \A i \in x.off + 1 .. Word(t, x).next : u.struct[i + (y.off - x.off)] = t.struct[i]
      BY <1>3, RenamedThere
    <3>2. y.off \in Int
      BY <1>3, RenamedThere
    <3>3. x.off \in Int /\ x.off + 2 \in x.off + 1 .. Word(t, x).next
      <4>1. TagAt(t.struct, x.off, Word(t, x)) /\ x.off \in Int
        BY <1>1, Met
      <4>2. /\ t.struct[x.off + 2][2] \in NodeNames
            /\ Word(t, x).next = x.off + 1 + NameWords[t.struct[x.off + 2][2]]
        BY <4>1 DEF TagAt
      <4>3. NameWords[t.struct[x.off + 2][2]] \in Nat \ {0}
        BY <4>2, FdtAssumption
      <4> QED
        BY <4>1, <4>2, <4>3
    <3>4. x.off + 2 + (y.off - x.off) = y.off + 2
      BY <3>2, <3>3
    <3> HIDE DEF y
    <3> QED
      BY <3>1, <3>3, <3>4
  <2>3. PICK m \in NodeNames : m = t.struct[x.off + 2][2]
    BY <1>1, MetTag
  <2>4. CASE x.inTree
    <3>1. Began(t.struct, x) = Append(x.path, m)
      BY <2>3, <2>4 DEF Began
    <3>2. Began(u.struct, y) = Append(Ren(q, n, x.path), m)
      BY <2>1, <2>2, <2>3, <2>4 DEF Began
    <3>3. Began(t.struct, x) # q
      <4>1. Begins(t, x)
        BY DEF Begins, Word
      <4> QED
        BY <1>1, <1>3, <4>1, OneNode
    <3>4. PICK a : a = Began(t.struct, x)
      OBVIOUS
    <3>5. ChildOf(a, x.path, m)
      BY <3>1, <3>4 DEF ChildOf
    <3>6. a # q
      BY <3>3, <3>4
    <3> HIDE DEF q
    <3>7. Ren(q, n, a) = Append(Ren(q, n, x.path), m)
      BY <1>1, <2>1, <3>5, <3>6, RenAppend
    <3> QED
      BY <3>2, <3>4, <3>7 DEF q
  <2>5. CASE ~x.inTree
    <3>1. Began(t.struct, x) = <<>> /\ Began(u.struct, y) = <<>>
      BY <2>1, <2>5 DEF Began
    <3> QED
      BY <2>1, <3>1
  <2>6. x.inTree \in BOOLEAN
    BY <1>1, Met
  <2> QED
    BY <2>4, <2>5, <2>6
<1> QED
  BY <1>2, <1>3

(* The tag at the image of a cursor.                                       *)
LEMMA RenamedWord ==
  ASSUME NEW t, NEW u, NEW c, NEW n, NEW words, Renamed(t, u, c, n, words), NEW x \in Visited(t)
  PROVE  LET y == Image(t, c, n, words, x)
         IN  /\ Word(u, y).tag = Word(t, x).tag
             /\ Word(u, y).next = Shift(t, c, words, Word(t, x).next)
<1>1. CASE x = c
  <2>1. /\ Image(t, c, n, words, c) = c /\ Word(u, c).tag = "begin"
        /\ Word(u, c).next = Hop(t, c).off + Longer(t, c, words)
    BY RenamedHere
  <2>2. Word(t, c).tag = "begin" /\ c.off \in Nat /\ Hop(t, c).off \in Nat /\ c.off < Hop(t, c).off
        /\ Sane(t) /\ c \in Visited(t)
    BY RenamedIs
  <2>3. Word(t, c).next = Hop(t, c).off
    BY <2>2, MetTag DEF At
  <2>4. Shift(t, c, words, Hop(t, c).off) = Hop(t, c).off + Longer(t, c, words)
    <3>1. PICK o \in Nat : o = Hop(t, c).off
      BY <2>2
    <3>2. ~(o <= c.off)
      BY <2>2, <3>1
    <3> QED
      BY <3>1, <3>2 DEF Shift
  <2> QED
    BY <1>1, <2>1, <2>2, <2>3, <2>4
<1>2. CASE x # c
  BY <1>2, RenamedThere
<1> QED
  BY <1>1, <1>2

(* A property is still that one.                                           *)
LEMMA RenamedProp ==
  ASSUME NEW t, NEW u, NEW c, NEW n, NEW words, Renamed(t, u, c, n, words),
         NEW x \in Visited(t), Word(t, x).tag = "prop"
  PROVE  LET y == Image(t, c, n, words, x)
         IN  /\ Known(u, y.off)
             /\ PropAt(u, y) = <<Ren(Began(t.struct, c), n, x.path), NameAt(t, x), PropValue(t, x.off)>>
<1> DEFINE y == Image(t, c, n, words, x)
           k == y.off - x.off
           m == PropLen(t, x.off)
<1>1. Sane(t) /\ Word(t, c).tag = "begin" /\ Knows(u, t)
  BY RenamedIs
<1>2. x # c
  BY <1>1
<1>3. /\ y.off \in Int /\ k \in Int
      /\ \A i \in x.off + 1 .. Word(t, x).next : u.struct[i + k] = t.struct[i]
  BY <1>2, RenamedThere
<1>4. y.path = Ren(Began(t.struct, c), n, x.path)
  BY ImageIs
<1>5. x.off \in Int /\ TagAt(t.struct, x.off, Word(t, x)) /\ Known(t, x.off)
  BY <1>1, Met, MetTag
<1>6. m \in Nat /\ Word(t, x).next = x.off + 3 + m
  BY <1>5 DEF TagAt, PropLen
<1> HIDE DEF y, m, k
<1>7. x.off + k = y.off
  BY <1>3, <1>5 DEF k
<1>8. /\ u.struct[y.off + 2] = t.struct[x.off + 2] /\ u.struct[y.off + 3] = t.struct[x.off + 3]
  <2>1. x.off + 2 \in x.off + 1 .. Word(t, x).next /\ x.off + 3 \in x.off + 1 .. Word(t, x).next
    BY <1>5, <1>6
  <2>2. x.off + 2 + k = y.off + 2 /\ x.off + 3 + k = y.off + 3
    BY <1>3, <1>5, <1>7
  <2> QED
    BY <1>3, <2>1, <2>2
<1>9. Known(u, y.off) /\ u.strings[u.struct[y.off + 3][2]] = NameAt(t, x)
  BY <1>1, <1>5, <1>8 DEF Known, Knows, NameAt
<1>10. PropValue(u, y.off) = PropValue(t, x.off)
  <2>1. PropLen(u, y.off) = m
    BY <1>8 DEF PropLen, m
  <2>2. \A i \in x.off + 4 .. x.off + 3 + m : u.struct[i + k] = t.struct[i]
    <3>1. \A i \in x.off + 4 .. x.off + 3 + m : i \in x.off + 1 .. Word(t, x).next
      BY <1>5, <1>6
    <3> QED
      BY <1>3, <3>1
  <2>3. SubSeq(u.struct, x.off + 4 + k, x.off + 3 + m + k) = SubSeq(t.struct, x.off + 4, x.off + 3 + m)
    <3>1. PICK a \in Int : a = x.off + 4
      BY <1>5
    <3>2. PICK b \in Int : b = x.off + 3 + m
      BY <1>5, <1>6
    <3>3. \A i \in a .. b : u.struct[i + k] = t.struct[i]
      BY <2>2, <3>1, <3>2
    <3>4. SubSeq(u.struct, a + k, b + k) = SubSeq(t.struct, a, b)
      BY <1>3, <3>3, SubSeqSame
    <3> QED
      BY <3>1, <3>2, <3>4
  <2>4. x.off + 4 + k = y.off + 4 /\ x.off + 3 + m + k = y.off + 3 + m
    BY <1>3, <1>5, <1>6, <1>7
  <2> QED
    BY <2>1, <2>3, <2>4 DEF PropValue, m
<1> QED
  BY <1>4, <1>9, <1>10 DEF PropAt, y

(* The walk goes through the images.                                       *)
LEMMA RenamedHop ==
  ASSUME NEW t, NEW u, NEW c, NEW n, NEW words, Renamed(t, u, c, n, words), NEW x \in Visited(t)
  PROVE  Hop(u, Image(t, c, n, words, x)) = Image(t, c, n, words, Hop(t, x))
<1> DEFINE q == Began(t.struct, c)
           y == Image(t, c, n, words, x)
           o == Shift(t, c, words, Word(t, x).next)
<1>1. Sane(t)
  BY RenamedIs
<1>2. /\ y \in Cursors /\ y.off = Shift(t, c, words, x.off) /\ y.path = Ren(q, n, x.path)
      /\ y.inTree = x.inTree /\ Ren(q, n, Up(x.path)) = Up(Ren(q, n, x.path))
      /\ (Ren(q, n, x.path) # <<>>) = (x.path # <<>>)
  BY ImageIs
<1>3. NextTag(u.struct, y.off).tag = Word(t, x).tag /\ NextTag(u.struct, y.off).next = o
  BY RenamedWord DEF Word
<1>4. Word(t, x).tag \in Tags /\ x.inTree \in BOOLEAN
  BY <1>1, Met
<1>5. CASE Word(t, x).tag = "begin"
  <2>1. Hop(t, x) = At(Word(t, x).next, Began(t.struct, x), TRUE)
    BY <1>1, <1>5, MetTag
  <2>2. Image(t, c, n, words, Hop(t, x)) = At(o, Ren(q, n, Began(t.struct, x)), TRUE)
    BY <2>1 DEF Image, At
  <2>3. Hop(u, y) = At(o, Began(u.struct, y), TRUE)
    BY <1>3, <1>5 DEF Hop, Onto, At
  <2>4. Began(u.struct, y) = Ren(q, n, Began(t.struct, x))
    BY <1>5, RenamedBegan
  <2> HIDE DEF y, o, q
  <2> QED
    BY <2>2, <2>3, <2>4 DEF y
<1>6. CASE Word(t, x).tag \in {"prop", "nop"}
  <2>1. Hop(t, x) = At(Word(t, x).next, x.path, x.inTree)
    BY <1>1, <1>6, MetTag
  <2>2. Image(t, c, n, words, Hop(t, x)) = At(o, Ren(q, n, x.path), x.inTree)
    BY <2>1 DEF Image, At
  <2>3. Hop(u, y) = [y EXCEPT !.off = o]
    <3>1. CASE Word(t, x).tag = "prop"
      <4>1. x.inTree
        BY <1>1, <3>1, MetTag
      <4>2. Known(u, y.off)
        BY <3>1, RenamedProp
      <4>3. y.inTree
        BY <1>2, <4>1
      <4> HIDE DEF y, o
      <4> QED
        BY <1>3, <3>1, <4>2, <4>3 DEF Hop, Onto
    <3>2. CASE Word(t, x).tag = "nop"
      <4> HIDE DEF y, o
      <4> QED
        BY <1>3, <3>2 DEF Hop, Onto
    <3> QED
      BY <1>6, <3>1, <3>2
  <2>4. [y EXCEPT !.off = o] = At(o, y.path, y.inTree)
    <3> HIDE DEF y, o
    <3> QED
      BY <1>2 DEF At, Cursors
  <2> HIDE DEF y, o, q
  <2> QED
    BY <1>2, <2>2, <2>3, <2>4 DEF y
<1>7. CASE Word(t, x).tag = "endnode"
  <2>1. Hop(t, x) = At(Word(t, x).next, SubSeq(x.path, 1, Len(x.path) - 1), x.path # <<>>) /\ x.inTree
    BY <1>1, <1>7, MetTag
  <2>2. Image(t, c, n, words, Hop(t, x)) = At(o, Ren(q, n, Up(x.path)), x.path # <<>>)
    BY <2>1 DEF Image, At, Up
  <2>3. y.inTree
    BY <1>2, <2>1
  <2>4. Hop(u, y) = At(o, Up(y.path), y.path # <<>>)
    <3> HIDE DEF y, o
    <3> QED
      BY <1>3, <1>7, <2>3 DEF Hop, Onto, At, Up
  <2> HIDE DEF y, o, q
  <2> QED
    BY <1>2, <2>2, <2>4 DEF y
<1>8. CASE Word(t, x).tag = "end"
  <2>1. Stops(t, x)
    BY <1>1, <1>8, Met
  <2>2. Hop(t, x) = x
    BY <2>1 DEF Stops
  <2>3. Hop(u, y) = y
    <3> HIDE DEF y, o
    <3> QED
      BY <1>3, <1>8 DEF Hop, Onto
  <2> QED
    BY <2>2, <2>3
<1> QED
  BY <1>4, <1>5, <1>6, <1>7, <1>8 DEF Tags

(* What the tree is afterwards, note by note.                              *)
LEMMA RenamedNote ==
  ASSUME NEW t, NEW u, NEW c, NEW n, NEW words, Renamed(t, u, c, n, words), NEW x \in Visited(t)
  PROVE  LET q == Began(t.struct, c)
             m == Note(u, Image(t, c, n, words, x))
             v == Note(t, x)
         IN  /\ m.off = Shift(t, c, words, v.off) /\ m.tag = v.tag /\ m.path = Ren(q, n, v.path)
             /\ v.tag = "prop" => m.prop = <<Ren(q, n, v.path), v.prop[2], v.prop[3]>>
             /\ v.tag # "prop" => m.prop = v.prop
             /\ ReadAt(u, Image(t, c, n, words, x))
<1> DEFINE q == Began(t.struct, c)
           y == Image(t, c, n, words, x)
           o == Shift(t, c, words, Word(t, x).next)
<1>1. Sane(t) /\ Len(u.struct) = Len(t.struct) + Longer(t, c, words) /\ c.off \in Nat /\ Len(t.struct) \in Nat
      /\ c.off < Hop(t, c).off /\ Hop(t, c).off < Len(t.struct) /\ Hop(t, c).off \in Nat
      /\ Word(t, c).tag = "begin"
  BY RenamedIs
<1>2. /\ y \in Cursors /\ y.off = Shift(t, c, words, x.off) /\ y.path = Ren(q, n, x.path)
      /\ y.inTree = x.inTree
  BY ImageIs
<1>3. NextTag(u.struct, y.off).tag = Word(t, x).tag /\ NextTag(u.struct, y.off).next = o
  BY RenamedWord DEF Word
<1>4. /\ Stops(t, x) <=> Word(t, x).tag = "end"
      /\ Stops(t, x) => ~x.inTree /\ Word(t, x).next = Len(t.struct)
      /\ \A i \in x.off + 2 .. Word(t, x).next : t.struct[i][1] # "tag"
      /\ x.off \in Int /\ Word(t, x).next \in Int /\ Hop(t, x) \in Visited(t)
  BY <1>1, Met
<1>5. Stops(u, y) <=> Stops(t, x)
  <2>1. Hop(u, y) = Image(t, c, n, words, Hop(t, x))
    BY RenamedHop
  <2>2. Stops(t, x) => Stops(u, y)
    BY <2>1 DEF Stops
  <2>3. ASSUME ~Stops(t, x) PROVE ~Stops(u, y)
    <3>1. Hop(t, x).off = Word(t, x).next /\ Word(t, x).next > x.off
      BY <1>1, <1>4, <2>3, Met
    <3>2. Hop(u, y).off = o
      BY <2>1, <3>1 DEF Image, At
    <3>3. o # y.off
      <4>1. PICK a \in Int : a = x.off
        BY <1>4
      <4>2. PICK b \in Int : b = Word(t, x).next
        BY <1>4
      <4>3. Word(u, y).next > y.off
        <5>1. CASE x = c
          <6>1. y.off = c.off /\ o = Hop(t, c).off + Longer(t, c, words)
            BY <1>3, <5>1, RenamedHere DEF Word
          <6>2. Hop(t, c).off + Longer(t, c, words) = c.off + 1 + NameWords[n] /\ NameWords[n] \in Nat
            BY RenamedIs
          <6> HIDE DEF y, o
          <6> QED
            BY <1>1, <1>3, <6>1, <6>2 DEF Word
        <5>2. CASE x # c
          <6>1. Word(u, y).next = Word(t, x).next + (y.off - x.off) /\ y.off \in Int
            BY <5>2, RenamedThere
          <6> HIDE DEF y, o
          <6> QED
            BY <1>4, <3>1, <6>1
        <5> QED
          BY <5>1, <5>2
      <4>4. y.off \in Int
        BY <1>2 DEF Cursors
      <4> HIDE DEF y, o
      <4> QED
        BY <1>3, <4>3, <4>4 DEF Word
    <3> HIDE DEF y, o
    <3> QED
      BY <3>2, <3>3 DEF Stops
  <2> QED
    BY <2>2, <2>3
<1>6. Begins(u, y) <=> Word(t, x).tag = "begin"
  BY <1>3 DEF Begins
<1>7. Carries(u, y) <=> Word(t, x).tag = "prop"
  BY <1>3, <1>4, <1>5 DEF Carries
<1>8. /\ Note(t, x).off = x.off /\ Note(t, x).tag = Word(t, x).tag
      /\ Word(t, x).tag = "begin" => Note(t, x).path = Began(t.struct, x)
      /\ Word(t, x).tag # "begin" => Note(t, x).path = x.path
      /\ Word(t, x).tag = "prop" => Note(t, x).prop = PropAt(t, x) /\ Note(t, x).prop[2] = NameAt(t, x)
  BY <1>1, NoteIs
<1>9. Word(t, x).tag # "prop" => Note(t, x).prop = <<>> /\ Note(u, y).prop = <<>>
  BY <1>7 DEF Note, Carries, Word
<1>10. Note(u, y).off = y.off /\ Note(u, y).tag = Word(t, x).tag
  BY <1>3 DEF Note
<1>11. Note(u, y).path = Ren(q, n, Note(t, x).path)
  <2>1. CASE Word(t, x).tag = "begin"
    <3>1. Note(u, y).path = Began(u.struct, y)
      BY <1>6, <2>1 DEF Note
    <3> QED
      BY <1>8, <2>1, <3>1, RenamedBegan
  <2>2. CASE Word(t, x).tag # "begin"
    <3>1. Note(u, y).path = y.path
      BY <1>6, <2>2 DEF Note
    <3> QED
      BY <1>2, <1>8, <2>2, <3>1
  <2> QED
    BY <2>1, <2>2
<1>12. ASSUME Word(t, x).tag = "prop"
       PROVE  Note(u, y).prop = <<Ren(q, n, Note(t, x).path), Note(t, x).prop[2], Note(t, x).prop[3]>>
  <2>1. Note(u, y).prop = PropAt(u, y)
    BY <1>7, <1>12 DEF Note
  <2>2. PropAt(u, y) = <<Ren(q, n, x.path), NameAt(t, x), PropValue(t, x.off)>>
    BY <1>12, RenamedProp
  <2>3. Note(t, x).prop[3] = PropValue(t, x.off)
    BY <1>8, <1>12 DEF PropAt
  <2> QED
    BY <1>8, <1>12, <2>1, <2>2, <2>3
<1>13. ReadAt(u, y)
  <2>1. ASSUME Stops(u, y) PROVE EndsWell(u, y) /\ Word(u, y).next = Len(u.struct)
    <3>1. Word(t, x).tag = "end" /\ ~x.inTree /\ Word(t, x).next = Len(t.struct)
      BY <1>4, <1>5, <2>1
    <3>2. o = Len(u.struct)
      <4>1. ~(Len(t.struct) <= c.off)
        BY <1>1
      <4> QED
        BY <1>1, <3>1, <4>1 DEF Shift
    <3>3. Len(u.struct) >= 0
      <4>1. Legible(u.struct)
        BY RenamedIs
      <4> QED
        BY <4>1 DEF Legible
    <3>4. ~y.inTree
      BY <1>2, <3>1
    <3> HIDE DEF y, o
    <3> QED
      BY <1>3, <3>1, <3>2, <3>3, <3>4 DEF EndsWell, Word
  <2>2. \A i \in y.off + 2 .. Word(u, y).next : u.struct[i][1] # "tag"
    <3>1. CASE x = c
      BY <3>1, RenamedHere
    <3>2. CASE x # c
      <4>1. /\ y.off \in Int /\ Word(u, y).next = Word(t, x).next + (y.off - x.off)
            /\ \A i \in x.off + 1 .. Word(t, x).next : u.struct[i + (y.off - x.off)] = t.struct[i]
        BY <3>2, RenamedThere
      <4> HIDE DEF y
      <4>2. ASSUME NEW i \in y.off + 2 .. Word(u, y).next PROVE u.struct[i][1] # "tag"
        <5>1. PICK j \in Int : j = i - (y.off - x.off)
          BY <1>4, <4>1
        <5>2. j \in x.off + 1 .. Word(t, x).next /\ j \in x.off + 2 .. Word(t, x).next
              /\ j + (y.off - x.off) = i
          BY <1>4, <4>1, <5>1
        <5>3. u.struct[i] = t.struct[j]
          BY <4>1, <5>2
        <5> QED
          BY <1>4, <5>2, <5>3
      <4> QED
        BY <4>2
    <3> QED
      BY <3>1, <3>2
  <2> QED
    BY <2>1, <2>2 DEF ReadAt
<1> HIDE DEF q, y
<1> QED
  BY <1>2, <1>8, <1>9, <1>10, <1>11, <1>12, <1>13 DEF q, y

LEMMA RenamedVisited ==
  ASSUME NEW t, NEW u, NEW c, NEW n, NEW words, Renamed(t, u, c, n, words)
  PROVE  Visited(u) = {Image(t, c, n, words, x) : x \in Visited(t)}
<1> DEFINE F == [x \in Visited(t) |-> Image(t, c, n, words, x)]
<1>1. Sane(t) /\ Legible(t.struct) /\ Legible(u.struct) /\ c.off \in Nat /\ c.off >= 0
  BY RenamedIs
<1>2. \A x \in Visited(t) : F[x] \in Cursors
  BY ImageIs
<1>3. Start \in Visited(t)
  BY StartIs, FromHere DEF Visited
<1>4. F[Start] = Start
  <2>1. Image(t, c, n, words, Start) = At(0, Ren(Began(t.struct, c), n, <<>>), FALSE)
    BY <1>1 DEF Image, Shift, Start
  <2>2. Ren(Began(t.struct, c), n, <<>>) = <<>>
    BY <1>3, ImageIs
  <2> QED
    BY <1>3, <2>1, <2>2 DEF At, Start
<1>5. \A x \in Visited(t) : F[Hop(t, x)] = Hop(u, F[x])
  <2>1. ASSUME NEW x \in Visited(t) PROVE F[Hop(t, x)] = Hop(u, F[x])
    <3>1. Hop(t, x) \in Visited(t)
      BY <1>1, Met
    <3>2. Hop(u, Image(t, c, n, words, x)) = Image(t, c, n, words, Hop(t, x))
      BY RenamedHop
    <3> QED
      BY <3>1, <3>2
  <2> QED
    BY <2>1
<1>6. \A x \in Visited(t) : F[x] = Image(t, c, n, words, x)
  OBVIOUS
<1> HIDE DEF F
<1>7. Visited(u) = {F[x] : x \in Visited(t)}
  BY <1>1, <1>2, <1>4, <1>5, FromMap
<1> QED
  BY <1>6, <1>7

LEMMA RenamedSane ==
  ASSUME NEW t, NEW u, NEW c, NEW n, NEW words, Renamed(t, u, c, n, words)
  PROVE  Sane(u) /\ Notes(u) = {Note(u, Image(t, c, n, words, x)) : x \in Visited(t)}
<1>1. Visited(u) = {Image(t, c, n, words, x) : x \in Visited(t)}
  BY RenamedVisited
<1>2. Legible(u.struct)
  BY RenamedIs
<1>3. \A y \in Visited(u) : ReadAt(u, y)
  BY <1>1, RenamedNote
<1>4. Sane(u)
  BY <1>2, <1>3 DEF Sane, ReadsThrough, ReadAt, Word
<1> QED
  BY <1>1, <1>4 DEF Notes

(* The tags stay in their order.                                           *)
LEMMA ShiftOrder ==
  ASSUME NEW t, NEW u, NEW c, NEW n, NEW words, Renamed(t, u, c, n, words),
         NEW x \in Visited(t), NEW y \in Visited(t)
  PROVE  x.off < y.off <=> Shift(t, c, words, x.off) < Shift(t, c, words, y.off)
<1>1. /\ Sane(t) /\ c \in Visited(t) /\ c.off \in Nat /\ Hop(t, c).off \in Nat /\ c.off < Hop(t, c).off
      /\ Longer(t, c, words) \in Int /\ NameWords[n] \in Nat
      /\ Hop(t, c).off + Longer(t, c, words) = c.off + 1 + NameWords[n]
  BY RenamedIs
<1>2. x.off \in Int /\ y.off \in Int
  BY <1>1, Met
<1>3. \A z \in Visited(t) : z.off > c.off => z.off >= Hop(t, c).off
  <2>1. Legible(t.struct) /\ Start \in Cursors
    BY <1>1, StartIs DEF Sane
  <2> QED
    BY <1>1, <2>1, FromNext DEF Visited
<1>4. (x.off > c.off => x.off >= Hop(t, c).off) /\ (y.off > c.off => y.off >= Hop(t, c).off)
  BY <1>3
<1>5. PICK k \in Int : k = Longer(t, c, words)
  BY <1>1
<1>6. Shift(t, c, words, x.off) = (IF x.off <= c.off THEN x.off ELSE x.off + k)
      /\ Shift(t, c, words, y.off) = (IF y.off <= c.off THEN y.off ELSE y.off + k)
  BY <1>5 DEF Shift
<1>7. Hop(t, c).off + k = c.off + 1 + NameWords[n]
  BY <1>1, <1>5
<1> QED
  BY <1>1, <1>2, <1>4, <1>5, <1>6, <1>7

(* The new name, if it is one, is that of no sibling.                      *)
FreeName(t, c, n) ==
  LET q == Began(t.struct, c)
  IN  q # <<>> /\ Append(Up(q), n) # q => Append(Up(q), n) \notin Nodes(Notes(t))

(* Different paths of the tree stay different.                             *)
LEMMA RenApart ==
  ASSUME NEW t, NEW u, NEW c, NEW n, NEW words, Renamed(t, u, c, n, words), FreeName(t, c, n),
         NEW x \in Visited(t), NEW y \in Visited(t), x.inTree, y.inTree,
         Ren(Began(t.struct, c), n, x.path) = Ren(Began(t.struct, c), n, y.path)
  PROVE  x.path = y.path
<1>1. /\ Sane(t) /\ n \in NodeNames /\ Began(t.struct, c) \in Paths
  BY RenamedIs
<1>2. x.path \in Paths /\ y.path \in Paths
  BY ImageIs
<1>3. ASSUME NEW z \in Visited(t), z.inTree, NEW v \in Visited(t), v.inTree,
             Ren(Began(t.struct, c), n, z.path) = Ren(Began(t.struct, c), n, v.path),
             Heads(Began(t.struct, c), z.path)
      PROVE  Heads(Began(t.struct, c), v.path)
  <2> SUFFICES ASSUME ~Heads(Began(t.struct, c), v.path) PROVE FALSE
    OBVIOUS
  <2>1. PICK q \in Paths : q = Began(t.struct, c)
    BY <1>1
  <2>2. z.path \in Paths /\ v.path \in Paths
    BY ImageIs
  <2>3. q # <<>>
    BY <2>1, <2>2, HeadsSame
  <2>4. Ren(q, n, v.path) = v.path
    BY <2>1 DEF Ren
  <2>5. Heads(Append(Up(q), n), Ren(q, n, z.path)) /\ Append(Up(q), n) \in Paths
    BY <1>1, <1>3, <2>1, <2>2, <2>3, RenHead
  <2>6. Heads(Append(Up(q), n), v.path)
    BY <1>3, <2>1, <2>4, <2>5
  <2>7. PICK d \in Visited(t) : Begins(t, d) /\ Began(t.struct, d) = Append(Up(q), n)
    BY <1>1, <1>3, <2>5, <2>6, Enclosed
  <2>8. Append(Up(q), n) # q
    BY <2>1, <2>6
  <2>9. Note(t, d) \in Notes(t) /\ Note(t, d).tag = "begin" /\ Note(t, d).path = Append(Up(q), n)
    BY <1>1, <2>7, NoteIs DEF Begins, Word
  <2>10. Append(Up(q), n) \in Nodes(Notes(t))
    BY <2>9 DEF Nodes
  <2> QED
    BY <2>1, <2>3, <2>8, <2>10 DEF FreeName
<1>4. Heads(Began(t.struct, c), x.path) <=> Heads(Began(t.struct, c), y.path)
  BY <1>3
<1> QED
  BY <1>1, <1>2, <1>4, RenMeets

LEMMA RenamedTidy ==
  ASSUME NEW t, NEW u, NEW c, NEW n, NEW words, Renamed(t, u, c, n, words), FreeName(t, c, n)
  PROVE  Whole(u)
<1> DEFINE I(x) == Note(u, Image(t, c, n, words, x))
<1>1. Whole(t) /\ Sane(t) /\ c.off \in Nat /\ Began(t.struct, c) \in Paths /\ n \in NodeNames
  BY RenamedIs
<1>2. Sane(u) /\ Notes(u) = {I(x) : x \in Visited(t)}
  BY RenamedSane
<1>3. PICK q \in Paths : q = Began(t.struct, c)
  BY <1>1
<1>0. ASSUME NEW x \in Visited(t), NEW y \in Visited(t), x.inTree, y.inTree,
             Ren(q, n, x.path) = Ren(q, n, y.path)
      PROVE  x.path = y.path
  <2>1. Ren(Began(t.struct, c), n, x.path) = Ren(Began(t.struct, c), n, y.path)
    BY <1>0, <1>3
  <2> QED
    BY <1>0, <2>1, RenApart
<1>4. ASSUME NEW x \in Visited(t)
      PROVE  /\ I(x).off = Shift(t, c, words, x.off) /\ I(x).tag = Word(t, x).tag
             /\ Word(t, x).tag = "begin" =>
                  /\ I(x).path = Ren(q, n, Began(t.struct, x))
                  /\ Hop(t, x).path = Began(t.struct, x) /\ Hop(t, x).inTree /\ Hop(t, x) \in Visited(t)
             /\ Word(t, x).tag = "prop" =>
                  /\ I(x).path = Ren(q, n, x.path) /\ I(x).prop[2] = NameAt(t, x) /\ x.inTree
  <2>1. /\ I(x).off = Shift(t, c, words, Note(t, x).off) /\ I(x).tag = Note(t, x).tag
        /\ I(x).path = Ren(q, n, Note(t, x).path)
        /\ Note(t, x).tag = "prop" => I(x).prop = <<Ren(q, n, Note(t, x).path), Note(t, x).prop[2], Note(t, x).prop[3]>>
    BY <1>3, RenamedNote
  <2>2. /\ Note(t, x).off = x.off /\ Note(t, x).tag = Word(t, x).tag
        /\ Word(t, x).tag = "begin" => Note(t, x).path = Began(t.struct, x)
        /\ Word(t, x).tag # "begin" => Note(t, x).path = x.path
        /\ Word(t, x).tag = "prop" => Note(t, x).prop[2] = NameAt(t, x)
    BY <1>1, NoteIs
  <2>3. Word(t, x).tag = "begin" => Hop(t, x) = At(Word(t, x).next, Began(t.struct, x), TRUE)
    BY <1>1, MetTag
  <2>4. Hop(t, x) \in Visited(t)
    BY <1>1, Met
  <2>5. Word(t, x).tag = "prop" => x.inTree
    BY <1>1, MetTag
  <2> HIDE DEF I
  <2> QED
    BY <2>1, <2>2, <2>3, <2>4, <2>5 DEF At
<1>5. ASSUME NEW m \in Notes(u) PROVE \E x \in Visited(t) : m = I(x)
  BY <1>2
<1> HIDE DEF I
<1>6. ASSUME NEW a \in Notes(u), NEW b \in Notes(u), a.tag = "begin", b.tag = "begin", a.path = b.path
      PROVE  a = b
  <2>1. PICK x \in Visited(t) : a = I(x)
    BY <1>5
  <2>2. PICK y \in Visited(t) : b = I(y)
    BY <1>5
  <2>3. /\ Word(t, x).tag = "begin" /\ a.path = Ren(q, n, Began(t.struct, x))
        /\ Hop(t, x).path = Began(t.struct, x) /\ Hop(t, x).inTree /\ Hop(t, x) \in Visited(t)
    BY <1>4, <1>6, <2>1
  <2>4. /\ Word(t, y).tag = "begin" /\ b.path = Ren(q, n, Began(t.struct, y))
        /\ Hop(t, y).path = Began(t.struct, y) /\ Hop(t, y).inTree /\ Hop(t, y) \in Visited(t)
    BY <1>4, <1>6, <2>2
  <2>5. Hop(t, x).path = Hop(t, y).path
    BY <1>0, <1>6, <2>3, <2>4
  <2>6. Began(t.struct, x) = Began(t.struct, y) /\ Begins(t, x) /\ Begins(t, y)
    BY <2>3, <2>4, <2>5 DEF Begins, Word
  <2>7. x = y
    BY <1>1, <2>6, OneNode
  <2> QED
    BY <2>1, <2>2, <2>7
<1>7. ASSUME NEW a \in Notes(u), NEW b \in Notes(u), a.tag = "prop", b.tag = "prop", a.path = b.path,
             a.prop[2] = b.prop[2]
      PROVE  a = b
  <2>1. PICK x \in Visited(t) : a = I(x)
    BY <1>5
  <2>2. PICK y \in Visited(t) : b = I(y)
    BY <1>5
  <2>3. Word(t, x).tag = "prop" /\ a.path = Ren(q, n, x.path) /\ a.prop[2] = NameAt(t, x) /\ x.inTree
    BY <1>4, <1>7, <2>1
  <2>4. Word(t, y).tag = "prop" /\ b.path = Ren(q, n, y.path) /\ b.prop[2] = NameAt(t, y) /\ y.inTree
    BY <1>4, <1>7, <2>2
  <2>5. x.path = y.path
    BY <1>0, <1>7, <2>3, <2>4
  <2>6. x = y
    BY <1>1, <1>7, <2>3, <2>4, <2>5, OneProp
  <2> QED
    BY <2>1, <2>2, <2>6
<1>8. ASSUME NEW a \in Notes(u), a.tag = "prop"
      PROVE  \E y \in Notes(u) :
               /\ y.tag = "begin" /\ y.path = a.path /\ y.off < a.off
               /\ \A z \in Notes(u) : y.off < z.off /\ z.off <= a.off => z.tag \in {"prop", "nop"}
  <2>1. PICK x \in Visited(t) : a = I(x)
    BY <1>5
  <2>2. Word(t, x).tag = "prop" /\ a.path = Ren(q, n, x.path) /\ a.off = Shift(t, c, words, x.off)
    BY <1>4, <1>8, <2>1
  <2>3. PICK d \in Visited(t) :
           /\ Begins(t, d) /\ Began(t.struct, d) = x.path /\ d.off < x.off
           /\ \A w \in Visited(t) : d.off < w.off /\ w.off <= x.off => Word(t, w).tag \in {"prop", "nop"}
    BY <1>1, <2>2, PropFront
  <2>4. I(d) \in Notes(u)
    BY <1>2
  <2>5. I(d).tag = "begin" /\ I(d).path = a.path /\ I(d).off = Shift(t, c, words, d.off)
    BY <1>4, <2>2, <2>3 DEF Begins, Word
  <2>6. I(d).off < a.off
    BY <2>2, <2>3, <2>5, ShiftOrder
  <2>7. ASSUME NEW z \in Notes(u), I(d).off < z.off, z.off <= a.off PROVE z.tag \in {"prop", "nop"}
    <3>1. PICK w \in Visited(t) : z = I(w)
      BY <1>5
    <3>2. z.tag = Word(t, w).tag /\ z.off = Shift(t, c, words, w.off)
      BY <1>4, <3>1
    <3>3. d.off < w.off
      BY <2>5, <2>7, <3>2, ShiftOrder
    <3>4. ~(Shift(t, c, words, x.off) < Shift(t, c, words, w.off))
      <4>1. a.off \in Int /\ z.off \in Int
        <5>1. Shift(t, c, words, x.off) \in Int /\ Shift(t, c, words, w.off) \in Int
          BY ImageIs DEF Cursors
        <5> QED
          BY <2>2, <3>2, <5>1
      <4> QED
        BY <2>2, <2>7, <3>2, <4>1
    <3>5. ~(x.off < w.off)
      BY <3>4, ShiftOrder
    <3>6. x.off \in Int /\ w.off \in Int
      BY <1>1, Met
    <3> QED
      BY <2>3, <3>2, <3>3, <3>5, <3>6
  <2> QED
    BY <2>4, <2>5, <2>6, <2>7
<1>9. ASSUME NEW a \in Notes(u), a.tag = "begin", a.path = <<>> PROVE a.off = 0
  <2>1. PICK x \in Visited(t) : a = I(x)
    BY <1>5
  <2>2. Word(t, x).tag = "begin" /\ Ren(q, n, Began(t.struct, x)) = <<>> /\ a.off = Shift(t, c, words, x.off)
    BY <1>4, <1>9, <2>1
  <2>3. Began(t.struct, x) \in Paths
    BY <1>1, <2>2, MetTag DEF Paths
  <2>4. Began(t.struct, x) = <<>>
    BY <1>1, <2>2, <2>3, RenIs
  <2>5. x.off = 0
    BY <1>1, <2>2, <2>4, RootFirst DEF Begins, Word
  <2> QED
    BY <1>1, <2>2, <2>5 DEF Shift
<1>10. Tidy(Notes(u))
  BY <1>6, <1>7, <1>8, <1>9 DEF Tidy
<1> QED
  BY <1>2, <1>10 DEF Whole

(* The node at c gets another name, and with it all that is in it.         *)
LEMMA NodeRenamed ==
  ASSUME NEW t, NEW u, NEW c, NEW n, NEW words, Renamed(t, u, c, n, words), FreeName(t, c, n)
  PROVE  LET q == Began(t.struct, c)
         IN  /\ Whole(u) /\ TreeOf(u).nodes = {Ren(q, n, p) : p \in TreeOf(t).nodes}
             /\ TreeOf(u).props = {<<Ren(q, n, y[1]), y[2], y[3]>> : y \in TreeOf(t).props}
<1> DEFINE q == Began(t.struct, c)
           I(x) == Note(u, Image(t, c, n, words, x))
<1>1. Sane(t) /\ Sane(u) /\ Whole(u) /\ Notes(u) = {I(x) : x \in Visited(t)}
  BY RenamedIs, RenamedSane, RenamedTidy
<1>2. \A x \in Visited(t) :
        /\ I(x).tag = Note(t, x).tag /\ I(x).path = Ren(q, n, Note(t, x).path)
        /\ Note(t, x).tag = "prop" => I(x).prop = <<Ren(q, n, Note(t, x).path), Note(t, x).prop[2], Note(t, x).prop[3]>>
  BY RenamedNote
<1>3. TreeOf(u).nodes = Nodes(Notes(u)) /\ TreeOf(u).props = Props(Notes(u))
      /\ TreeOf(t).nodes = Nodes(Notes(t)) /\ TreeOf(t).props = Props(Notes(t))
  BY <1>1, MeaningIs
<1>4. \A x \in Visited(t) : Note(t, x) \in Notes(t) /\ I(x) \in Notes(u)
  BY <1>1 DEF Notes
<1>5. \A v \in Notes(t) : \E x \in Visited(t) : v = Note(t, x)
  BY DEF Notes
<1>6. \A v \in Notes(t) : v.tag = "prop" => v.prop[1] = v.path /\ v.prop = <<v.path, v.prop[2], v.prop[3]>>
  BY <1>1, NotesAre
<1> HIDE DEF I, q
<1>7. Nodes(Notes(u)) = {Ren(q, n, p) : p \in Nodes(Notes(t))}
  <2>1. ASSUME NEW p \in Nodes(Notes(u)) PROVE p \in {Ren(q, n, r) : r \in Nodes(Notes(t))}
    <3>1. PICK x \in Visited(t) : I(x).tag = "begin" /\ p = I(x).path
      BY <1>1, <2>1 DEF Nodes
    <3>2. Note(t, x).path \in Nodes(Notes(t))
      BY <1>2, <1>4, <3>1 DEF Nodes
    <3> QED
      BY <1>2, <3>1, <3>2
  <2>2. ASSUME NEW r \in Nodes(Notes(t)) PROVE Ren(q, n, r) \in Nodes(Notes(u))
    <3>1. PICK v \in Notes(t) : v.tag = "begin" /\ v.path = r
      BY <2>2 DEF Nodes
    <3>2. PICK x \in Visited(t) : v = Note(t, x)
      BY <1>5
    <3> QED
      BY <1>2, <1>4, <3>1, <3>2 DEF Nodes
  <2> QED
    BY <2>1, <2>2
<1>8. Props(Notes(u)) = {<<Ren(q, n, y[1]), y[2], y[3]>> : y \in Props(Notes(t))}
  <2>1. ASSUME NEW p \in Props(Notes(u)) PROVE p \in {<<Ren(q, n, y[1]), y[2], y[3]>> : y \in Props(Notes(t))}
    <3>1. PICK x \in Visited(t) : I(x).tag = "prop" /\ p = I(x).prop
      BY <1>1, <2>1 DEF Props
    <3>2. Note(t, x).tag = "prop" /\ Note(t, x).prop \in Props(Notes(t))
      BY <1>2, <1>4, <3>1 DEF Props
    <3>3. p = <<Ren(q, n, Note(t, x).prop[1]), Note(t, x).prop[2], Note(t, x).prop[3]>>
      BY <1>2, <1>4, <1>6, <3>1, <3>2
    <3> QED
      BY <3>2, <3>3
  <2>2. ASSUME NEW y \in Props(Notes(t)) PROVE <<Ren(q, n, y[1]), y[2], y[3]>> \in Props(Notes(u))
    <3>1. PICK v \in Notes(t) : v.tag = "prop" /\ v.prop = y
      BY <2>2 DEF Props
    <3>2. PICK x \in Visited(t) : v = Note(t, x)
      BY <1>5
    <3>3. I(x).tag = "prop" /\ I(x).prop = <<Ren(q, n, y[1]), y[2], y[3]>>
      BY <1>2, <1>6, <3>1, <3>2
    <3> QED
      BY <1>4, <3>3 DEF Props
  <2> QED
    BY <2>1, <2>2
<1> QED
  BY <1>1, <1>3, <1>7, <1>8 DEF q

-----------------------------------------------------------------------------
(* Ancestors.  fdt_supernode_atdepth_offset walks from node to node and    *)
(* holds the last one of the depth it wants.                               *)
HeldOn(n, next, want) == [off |-> next.off, depth |-> next.depth,
                          super |-> IF n.depth = want THEN n.off ELSE n.super]

HeldAt(o, d, super) == [off |-> o, depth |-> d, super |-> super]

AtNode0(n, want) == [off   |-> IF want > n.depth THEN NOTFOUND
                               ELSE IF n.depth = want THEN n.off ELSE n.super,
                     depth |-> n.depth]

Supers(s, o, want, f) ==
  f = [n \in NodesHeld |->
         IF n.off < 0 \/ n.off > o
           THEN [off |-> IF n.off = NOTFOUND \/ n.off >= 0 THEN BADOFFSET
                         ELSE IF n.off = BADOFFSET THEN BADSTRUCTURE ELSE n.off,
                 depth |-> BADOFFSET]
         ELSE IF n.off = o THEN AtNode0(n, want)
         ELSE f[HeldOn(n, NextNode(s, n.off, n.depth), want)]]

Super(s, o, want) == CHOOSE f : Supers(s, o, want, f)

OnwardHeld(s, want) == [n \in NodesHeld |-> HeldOn(n, NextNode(s, n.off, n.depth), want)]
LeftHeld(s) == [n \in NodesHeld |-> Further(s)[n.off]]
SuperStop(o) == {n \in NodesHeld : n.off < 0 \/ n.off >= o}
SuperEnd(o, want) ==
  [n \in NodesHeld |->
     IF n.off < 0 \/ n.off > o
       THEN [off |-> IF n.off = NOTFOUND \/ n.off >= 0 THEN BADOFFSET
                     ELSE IF n.off = BADOFFSET THEN BADSTRUCTURE ELSE n.off,
             depth |-> BADOFFSET]
     ELSE AtNode0(n, want)]

LEMMA HeldIs ==
  ASSUME NEW o \in Int, NEW d \in Int, NEW p \in Int
  PROVE  /\ HeldAt(o, d, p) \in NodesHeld /\ HeldAt(o, d, p).off = o
         /\ HeldAt(o, d, p).depth = d /\ HeldAt(o, d, p).super = p
  BY DEF HeldAt, NodesHeld

LEMMA HeldOnward ==
  ASSUME NEW s, Legible(s), NEW want \in Int
  PROVE  /\ OnwardHeld(s, want) \in [NodesHeld -> NodesHeld]
         /\ LeftHeld(s) \in [NodesHeld -> 0 .. Len(s) + 2] /\ LeftHeld(s) \in [NodesHeld -> Nat]
         /\ Len(s) + 2 \in Nat
         /\ \A n \in NodesHeld : n.off >= 0 => LeftHeld(s)[OnwardHeld(s, want)[n]] < LeftHeld(s)[n]
<1> DEFINE g == OnwardHeld(s, want)
           m == LeftHeld(s)
           F == Further(s)
<1>1. ASSUME NEW n \in NodesHeld
      PROVE  /\ n.off \in Int /\ g[n] \in NodesHeld /\ g[n].off \in Int
             /\ n.off >= 0 => F[g[n].off] < F[n.off]
  <2>1. n.off \in Int /\ n.depth \in Int /\ n.super \in Int
    BY DEF NodesHeld
  <2>2. PICK y : y = NextNode(s, n.off, n.depth)
    OBVIOUS
  <2>3. y \in NodesMet /\ (y.off < 0 \/ (y.off \in 0 .. Len(s) /\ y.off > n.off))
    BY <2>1, <2>2, NextNodeOn
  <2>4. y.off \in Int /\ y.depth \in Int
    BY <2>3 DEF NodesMet
  <2>5. g[n] = HeldOn(n, y, want)
    BY <2>2 DEF OnwardHeld
  <2>6. g[n] \in NodesHeld /\ g[n].off = y.off
    BY <2>1, <2>4, <2>5 DEF HeldOn, NodesHeld
  <2>7. Len(s) \in Nat
    BY AheadOn
  <2>8. n.off >= 0 => F[y.off] < F[n.off]
    <3>1. PICK a \in Int, p \in Int : a = n.off /\ p = y.off
      BY <2>1, <2>4
    <3>2. a >= 0 => p < 0 \/ (p > a /\ p <= Len(s))
      BY <2>3, <2>7, <3>1
    <3>3. a >= 0 /\ (p < 0 \/ (p > a /\ p <= Len(s))) => F[p] < F[a]
      BY FurtherOn
    <3> HIDE DEF F
    <3> QED
      BY <3>1, <3>2, <3>3
  <2> HIDE DEF g, F
  <2> QED
    BY <2>1, <2>4, <2>6, <2>8
<1>2. g \in [NodesHeld -> NodesHeld]
  BY <1>1 DEF OnwardHeld
<1>3. /\ F \in [Int -> 0 .. Len(s) + 2] /\ F \in [Int -> Nat] /\ Len(s) + 2 \in Nat
  BY FurtherOn
<1>4. m = [n \in NodesHeld |-> F[n.off]]
  BY DEF LeftHeld
<1> DEFINE L == 0 .. Len(s) + 2
<1> HIDE DEF F, m, g, L
<1>5. m \in [NodesHeld -> L] /\ m \in [NodesHeld -> Nat]
  BY <1>1, <1>3, <1>4 DEF L
<1>6. \A n \in NodesHeld : n.off >= 0 => m[g[n]] < m[n]
  BY <1>1, <1>4
<1> QED
  BY <1>2, <1>3, <1>5, <1>6 DEF m, g, L

LEMMA SuperIs ==
  ASSUME NEW s, Legible(s), NEW o \in Int, NEW want \in Int
  PROVE  /\ Walks(Super(s, o, want), NodesHeld, SuperStop(o), SuperEnd(o, want), OnwardHeld(s, want))
         /\ want >= 0 => Supernode(s, o, want) = Super(s, o, want)[HeldAt(0, 0, INTERNAL)]
<1> DEFINE D == NodesHeld
           stop == SuperStop(o)
           base == SuperEnd(o, want)
           g == OnwardHeld(s, want)
<1>1. \E f : Walks(f, D, stop, base, g)
  <2>1. \A n \in D : n \notin stop => LeftHeld(s)[g[n]] < LeftHeld(s)[n]
    <3>1. \A n \in D : n \notin stop => n.off >= 0
      BY DEF NodesHeld, SuperStop
    <3> HIDE DEF D, stop, g
    <3> QED
      BY <3>1, HeldOnward DEF D, g
  <2> HIDE DEF D, stop, base, g
  <2> QED
    BY <2>1, HeldOnward, WalkExists DEF D, g
<1>2. ASSUME NEW f PROVE Walks(f, D, stop, base, g) <=> Supers(s, o, want, f)
  <2> DEFINE A(n) == IF n \in stop THEN base[n] ELSE f[g[n]]
             B(n) == IF n.off < 0 \/ n.off > o
                       THEN [off |-> IF n.off = NOTFOUND \/ n.off >= 0 THEN BADOFFSET
                                     ELSE IF n.off = BADOFFSET THEN BADSTRUCTURE ELSE n.off,
                             depth |-> BADOFFSET]
                     ELSE IF n.off = o THEN AtNode0(n, want)
                     ELSE f[HeldOn(n, NextNode(s, n.off, n.depth), want)]
  <2>1. ASSUME NEW n \in D PROVE A(n) = B(n)
    <3>1. n.off \in Int
      BY DEF NodesHeld
    <3>2. n \in stop <=> (n.off < 0 \/ n.off >= o)
      BY DEF SuperStop
    <3>3. g[n] = HeldOn(n, NextNode(s, n.off, n.depth), want)
      BY DEF OnwardHeld
    <3>4. base[n] = IF n.off < 0 \/ n.off > o
                      THEN [off |-> IF n.off = NOTFOUND \/ n.off >= 0 THEN BADOFFSET
                                    ELSE IF n.off = BADOFFSET THEN BADSTRUCTURE ELSE n.off,
                            depth |-> BADOFFSET]
                    ELSE AtNode0(n, want)
      BY DEF SuperEnd
    <3> HIDE DEF stop, base, g
    <3>5. CASE n.off < 0 \/ n.off > o
      BY <3>1, <3>2, <3>4, <3>5
    <3>6. CASE ~(n.off < 0 \/ n.off > o) /\ n.off = o
      BY <3>1, <3>2, <3>4, <3>6
    <3>7. CASE ~(n.off < 0 \/ n.off > o) /\ n.off # o
      <4>1. ~(n.off < 0 \/ n.off >= o)
        BY <3>1, <3>7
      <4> QED
        BY <3>2, <3>3, <3>7, <4>1
    <3> QED
      BY <3>5, <3>6, <3>7
  <2>2. [n \in D |-> A(n)] = [n \in D |-> B(n)]
    <3> HIDE DEF A, B, D
    <3> QED
      BY <2>1
  <2>3. Walks(f, D, stop, base, g) <=> f = [n \in D |-> A(n)]
    BY DEF Walks
  <2>4. Supers(s, o, want, f) <=> f = [n \in D |-> B(n)]
    BY DEF Supers
  <2> HIDE DEF A, B, D
  <2> QED
    BY <2>2, <2>3, <2>4
<1>3. \E f : Supers(s, o, want, f)
  BY <1>1, <1>2
<1>4. Supers(s, o, want, Super(s, o, want))
  BY <1>3 DEF Super
<1>5. want >= 0 => Supernode(s, o, want) = Super(s, o, want)[HeldAt(0, 0, INTERNAL)]
  <2>1. want >= 0 => ~(want < 0)
    OBVIOUS
  <2> QED
    BY <2>1 DEF Supernode, Super, Supers, HeldAt, HeldOn, AtNode0
<1> QED
  BY <1>2, <1>4, <1>5

(* The root, and what lies in it.                                          *)
LEMMA RootIs ==
  ASSUME NEW t, Whole(t), NEW x \in Visited(t), Begins(t, x)
  PROVE  \E r, e \in Visited(t) :
           /\ Begins(t, r) /\ Began(t.struct, r) = <<>> /\ r.off = 0 /\ Closes(t, r, e)
           /\ \A z \in Visited(t) : Begins(t, z) =>
                 z = r \/ (z.inTree /\ z \in From(t, Hop(t, r)) /\ z.off < e.off)
           /\ \A z \in Visited(t) : Begins(t, z) =>
                 From(t, Hop(t, z)) \subseteq From(t, Hop(t, r))
<1>0. Sane(t) /\ Legible(t.struct) /\ Start \in Cursors
  BY StartIs DEF Whole, Sane
<1>1. PICK r \in Visited(t) : Begins(t, r) /\ Began(t.struct, r) = <<>>
  <2>1. /\ Hop(t, x) \in Visited(t) /\ Hop(t, x).inTree /\ Hop(t, x).path \in Paths
    BY <1>0, Met, MetTag, InsideFirst DEF Begins, Word, At
  <2>2. <<>> \in Paths /\ Heads(<<>>, Hop(t, x).path)
    BY <2>1, UpIs, HeadsSame
  <2> QED
    BY <1>0, <2>1, <2>2, Enclosed
<1>2. r.off = 0
  BY <1>1, RootFirst
<1>3. PICK e \in Visited(t) : Closes(t, r, e)
  BY <1>0, <1>1, ClosesOnce
<1>4. ASSUME NEW z \in Visited(t), Begins(t, z), z # r
      PROVE  z.inTree /\ z \in From(t, Hop(t, r)) /\ z.off < e.off
  <2>1. z.inTree
    <3>1. ~z.inTree => Began(t.struct, z) = <<>>
      BY DEF Began
    <3> QED
      BY <1>1, <1>4, <3>1, OneNode
  <2>2. z.path \in Paths /\ Heads(<<>>, z.path)
    BY <1>0, Met, HeadsSame DEF Paths
  <2>3. z # e
    BY <1>3, <1>4 DEF Closes, Begins, Word
  <2> QED
    BY <1>1, <1>3, <2>1, <2>2, <2>3, OnTheWay
<1>5. ASSUME NEW z \in Visited(t), Begins(t, z)
      PROVE  From(t, Hop(t, z)) \subseteq From(t, Hop(t, r))
  <2>1. CASE z = r
    BY <2>1
  <2>2. CASE z # r
    <3>1. z \in From(t, Hop(t, r))
      BY <1>4, <1>5, <2>2
    <3>2. Hop(t, z) \in From(t, Hop(t, r))
      BY <1>0, <3>1, FromMove
    <3> QED
      BY <1>0, <3>2, FromFrom
  <2> QED
    BY <2>1, <2>2
<1> QED
  BY <1>1, <1>2, <1>3, <1>4, <1>5

(* fdt_next_node comes to the next node, and counts depths right.          *)
LEMMA NextNodeIs ==
  ASSUME NEW t, Whole(t), NEW x \in Visited(t), Begins(t, x), NEW c \in Visited(t), Begins(t, c),
         x.off < c.off
  PROVE  \E y \in Visited(t) :
           /\ Begins(t, y) /\ x.off < y.off /\ y.off <= c.off
           /\ NextNode(t.struct, x.off, Len(Began(t.struct, x))) = Spot(y.off, Len(Began(t.struct, y)))
           /\ \A z \in Visited(t) : Begins(t, z) /\ x.off < z.off => y.off <= z.off
<1> DEFINE s == t.struct
           a == Hop(t, x)
           G == Climb(s)
           S == {z \in From(t, a) : Begins(t, z)}
<1>0. /\ Sane(t) /\ Legible(s) /\ Start \in Cursors /\ x \in Cursors /\ a \in Cursors
      /\ x.off \in Int /\ c.off \in Int /\ x.off >= 0
  <2>1. Sane(t) /\ Legible(s) /\ Start \in Cursors
    BY StartIs DEF Whole, Sane
  <2>2. /\ x \in Cursors /\ x.off \in Int /\ c.off \in Int /\ a \in Visited(t)
        /\ x.off \in 0 .. Len(s) - 1 /\ Len(s) \in Nat
    BY <2>1, Met
  <2>3. a \in Cursors
    BY <2>1, <2>2, Met
  <2> QED
    BY <2>1, <2>2, <2>3
<1>1. PICK r, e \in Visited(t) :
           /\ Begins(t, r) /\ Began(s, r) = <<>> /\ r.off = 0 /\ Closes(t, r, e)
           /\ \A z \in Visited(t) : Begins(t, z) =>
                 z = r \/ (z.inTree /\ z \in From(t, Hop(t, r)) /\ z.off < e.off)
           /\ \A z \in Visited(t) : Begins(t, z) =>
                 From(t, Hop(t, z)) \subseteq From(t, Hop(t, r))
  BY RootIs
<1>2. ASSUME NEW z \in Visited(t), Begins(t, z), x.off < z.off
      PROVE  z \in S /\ z.off \in Int
  <2>1. z \in From(t, a)
    BY <1>0, <1>2, FromNext DEF Visited
  <2> QED
    BY <1>0, <1>2, <2>1, Met
<1>3. PICK y \in S : \A z \in S : y.off <= z.off
  <2>1. c \in S
    BY <1>2
  <2>2. S \in SUBSET From(t, a) /\ S # {}
    BY <2>1
  <2> HIDE DEF S, a
  <2> QED
    BY <1>0, <2>2, FirstOf
<1>4. y \in Visited(t) /\ Begins(t, y) /\ y \in From(t, a)
  BY <1>0, VisitedFrom
<1>5. x.off < y.off /\ y.off \in Int
  <2>1. Word(t, x).tag = "begin"
    BY DEF Begins, Word
  <2>2. ~Stops(t, x)
    BY <1>0, HopOn DEF Begins
  <2>3. a.off > x.off /\ a.off \in Int
    BY <1>0, <2>2, HopOn DEF Cursors
  <2>4. y = a \/ y.off > a.off
    BY <1>0, <1>4, FromOrder
  <2>5. y.off \in Int
    BY <1>0, <1>4, Met
  <2> HIDE DEF a
  <2> QED
    BY <1>0, <2>3, <2>4, <2>5
<1>6. y # r /\ y.inTree /\ y \in From(t, Hop(t, r)) /\ y.off < e.off /\ e.off \in Int
  <2>1. y # r
    BY <1>0, <1>1, <1>5
  <2> QED
    BY <1>0, <1>1, <1>4, <2>1, Met
<1>7. \A z \in From(t, a) : z.off < y.off =>
                      G[State(t, r, z)] = G[State(t, r, Hop(t, z))]
  <2> SUFFICES ASSUME NEW z \in From(t, a), z.off < y.off
               PROVE  G[State(t, r, z)] = G[State(t, r, Hop(t, z))]
    OBVIOUS
  <2>1. z \in From(t, Hop(t, r)) /\ z \in Visited(t)
    BY <1>0, <1>1, VisitedFrom
  <2>2. z.off \in Int /\ z.off < e.off
    <3>1. z.off \in Int
      BY <1>0, <2>1, Met
    <3> QED
      BY <1>5, <1>6, <3>1
  <2>3. ~Begins(t, z)
    <3>1. z \in S => y.off <= z.off
      BY <1>3
    <3> QED
      BY <1>5, <2>2, <3>1
  <2>4. Word(t, z).tag # "begin"
    BY <2>3 DEF Begins, Word
  <2> QED
    BY <1>0, <1>1, <2>1, <2>2, <2>4, WayStep
<1>8. G[State(t, r, y)] = G[State(t, r, a)]
  <2> DEFINE F == [z \in Cursors |-> G[State(t, r, z)]]
  <2>1. \A z \in From(t, a) : z.off < y.off => F[Hop(t, z)] = F[z]
    <3> SUFFICES ASSUME NEW z \in From(t, a), z.off < y.off PROVE F[Hop(t, z)] = F[z]
      OBVIOUS
    <3>1. z \in Cursors /\ Hop(t, z) \in Cursors
      BY <1>0, FromCursors, HopOn
    <3>2. F[z] = G[State(t, r, z)] /\ F[Hop(t, z)] = G[State(t, r, Hop(t, z))]
      BY <3>1
    <3> QED
      BY <1>7, <3>2
  <2>2. F[y] = F[a]
    <3> HIDE DEF F, a
    <3> QED
      BY <1>0, <1>4, <2>1, FromSame
  <2>3. y \in Cursors
    BY <1>0, <1>4, Met
  <2> QED
    BY <1>0, <2>2, <2>3
<1>9. /\ Len(Began(s, r)) = 0
      /\ \A z \in Visited(t) : Len(z.path) \in Nat /\ State(t, r, z) = Spot(z.off, Len(z.path))
  <2>1. Len(Began(s, r)) = 0
    BY <1>1
  <2> SUFFICES ASSUME NEW z \in Visited(t)
               PROVE  Len(z.path) \in Nat /\ State(t, r, z) = Spot(z.off, Len(z.path))
    BY <2>1
  <2>2. Len(z.path) \in Nat
    BY <1>0, Met
  <2>3. Len(z.path) - 0 = Len(z.path)
    BY <2>2
  <2> QED
    BY <2>1, <2>2, <2>3 DEF State
<1>10. G[State(t, r, y)] = Spot(y.off, Len(Began(s, y)))
  <2>1. Word(t, y).tag = "begin"
    BY <1>4 DEF Begins, Word
  <2>2. State(t, r, y).depth = Len(y.path) /\ Len(y.path) \in Nat
    BY <1>4, <1>9 DEF Spot
  <2>3. G[State(t, r, y)] = Spot(y.off, State(t, r, y).depth + 1)
    BY <1>0, <1>1, <1>6, <2>1, WayStep
  <2>4. Began(s, y) = Append(y.path, s[y.off + 2][2]) /\ s[y.off + 2][2] \in NodeNames
    BY <1>0, <1>4, <1>6, <2>1, MetTag DEF Began
  <2>5. Len(Began(s, y)) = Len(y.path) + 1
    <3>1. y.path \in Paths
      BY <1>0, <1>4, Met DEF Paths
    <3> QED
      BY <2>4, <3>1, AppendIs
  <2> QED
    BY <2>2, <2>3, <2>5
<1>11. NextNode(s, x.off, Len(Began(s, x))) = G[State(t, r, a)]
  <2>1. Word(t, x).tag = "begin"
    BY DEF Begins, Word
  <2>2. a.path = Began(s, x) /\ a \in Visited(t)
    BY <1>0, <2>1, Met, MetTag DEF At
  <2>3. NextNode(s, x.off, Len(Began(s, x))) = G[Spot(a.off, Len(Began(s, x)))]
    BY <1>0, <2>1, NextReads
  <2> QED
    BY <1>9, <2>2, <2>3
<1>12. \A z \in Visited(t) : Begins(t, z) /\ x.off < z.off => y.off <= z.off
  BY <1>2, <1>3
<1>13. y.off <= c.off
  BY <1>12
<1> QED
  BY <1>4, <1>5, <1>8, <1>10, <1>11, <1>12, <1>13

(* The node d that the node at c lies in, or is: where it begins, and what *)
(* lies between the two.                                                   *)
LEMMA AncestorIs ==
  ASSUME NEW t, Whole(t), NEW c \in Visited(t), Begins(t, c), NEW want \in 0 .. Len(Began(t.struct, c)),
         NEW d \in Visited(t), Begins(t, d), Began(t.struct, d) = SubSeq(Began(t.struct, c), 1, want)
  PROVE  /\ c.off \in Int /\ d.off \in Int /\ d.off <= c.off
         /\ Len(Began(t.struct, c)) \in Nat /\ Len(Began(t.struct, d)) = want
         /\ d.off = c.off <=> want = Len(Began(t.struct, c))
         /\ \A x \in Visited(t) : Begins(t, x) /\ d.off < x.off /\ x.off < c.off
                                    => Len(Began(t.struct, x)) > want
<1> DEFINE s == t.struct
           p == Began(s, c)
           q == Began(s, d)
<1>0. Sane(t) /\ Legible(s) /\ p \in Paths /\ q \in Paths /\ c.off \in Int /\ d.off \in Int
  BY InsideFirst, Met DEF Whole
<1>1. /\ Len(p) \in Nat /\ Len(q) = want /\ want \in Nat /\ want <= Len(p) /\ Heads(q, p)
  <2>1. PICK u \in Seq(NodeNames) : u = p
    BY <1>0 DEF Paths
  <2>2. PICK k \in 0 .. Len(u) : k = want
    BY <2>1
  <2>3. Len(SubSeq(u, 1, k)) = k /\ Len(u) \in Nat /\ k <= Len(u)
    BY <2>1, <2>2
  <2>4. q = SubSeq(u, 1, k)
    BY <2>1, <2>2
  <2> HIDE DEF p, q
  <2>5. Len(q) = k
    BY <2>3, <2>4
  <2>6. Heads(q, p)
    BY <2>1, <2>3, <2>4, <2>5 DEF Heads
  <2> QED
    BY <2>1, <2>2, <2>3, <2>5, <2>6
<1>2. CASE q = p
  <2>1. c = d
    BY <1>2, OneNode
  <2>2. Len(q) = Len(p)
    BY <1>2
  <2> HIDE DEF p, q
  <2>3. want = Len(p)
    BY <1>1, <2>2
  <2>4. c.off = d.off /\ d.off <= c.off
    BY <1>0, <2>1
  <2>5. \A x \in Visited(t) : ~(d.off < x.off /\ x.off < c.off)
    BY <1>0, <2>4, Met
  <2> QED
    BY <1>0, <1>1, <2>3, <2>4, <2>5 DEF p, q
<1>3. CASE q # p
  <2>1. c.inTree
    <3>1. ~c.inTree => p = <<>>
      BY DEF Began
    <3>2. Heads(p, q) => p = q
      BY <1>0, <1>1, HeadsUp
    <3>3. Heads(<<>>, q)
      BY <1>0, HeadsSame
    <3> QED
      BY <1>3, <3>1, <3>2, <3>3
  <2>2. /\ p = Append(c.path, s[c.off + 2][2]) /\ s[c.off + 2][2] \in NodeNames
        /\ c.path \in Paths
    BY <1>0, <2>1, Met, MetTag DEF Began, Begins, Word, Paths
  <2>3. Heads(q, c.path)
    <3>1. Heads(q, Append(c.path, s[c.off + 2][2]))
             <=> (Heads(q, c.path) \/ q = Append(c.path, s[c.off + 2][2]))
      BY <1>0, <2>2, HeadsLonger
    <3> QED
      BY <1>1, <1>3, <2>2, <3>1
  <2>4. PICK e \in Visited(t) : Closes(t, d, e)
    BY <1>0, ClosesOnce
  <2>5. Hop(t, e).off \in Int /\ d.off < c.off /\ c.off < Hop(t, e).off
    <3>1. Hop(t, e).off \in Int
      BY <2>4, NodeSpan
    <3>2. ASSUME NEW x \in Visited(t), x.inTree, Heads(Began(t.struct, d), x.path)
          PROVE  d.off < x.off /\ x.off < Hop(t, e).off
      BY <2>4, <3>2, NodeSpan
    <3> QED
      BY <2>1, <2>3, <3>1, <3>2
  <2>6. ASSUME NEW x \in Visited(t), d.off < x.off, x.off < Hop(t, e).off
        PROVE  x.inTree /\ Heads(q, x.path)
    BY <2>4, <2>6, NodeSpan
  <2>8. ASSUME NEW x \in Visited(t), Begins(t, x), d.off < x.off, x.off < c.off
        PROVE  Len(Began(s, x)) > want
    <3>1. x.off \in Int
      BY <1>0, Met
    <3>2. x.inTree /\ Heads(q, x.path)
      <4>1. x.off < Hop(t, e).off
        BY <1>0, <2>5, <2>8, <3>1
      <4> QED
        BY <2>6, <2>8, <4>1
    <3>3. /\ Began(s, x) = Append(x.path, s[x.off + 2][2]) /\ s[x.off + 2][2] \in NodeNames
          /\ x.path \in Paths
      BY <1>0, <2>8, <3>2, Met, MetTag DEF Began, Begins, Word, Paths
    <3>4. Len(Began(s, x)) = Len(x.path) + 1 /\ Len(x.path) \in Nat
      BY <3>3, AppendIs, UpIs
    <3>5. Len(x.path) >= Len(q)
      BY <3>2 DEF Heads
    <3> HIDE DEF q
    <3> QED
      BY <1>1, <3>4, <3>5
  <2>9. want # Len(p)
    <3>1. Len(p) = Len(q) => p = q
      <4>1. Heads(q, p) => \A i \in 1 .. Len(q) : p[i] = q[i]
        BY <1>0, HeadsIs
      <4> QED
        BY <1>0, <1>1, <4>1, SamePath
    <3> QED
      BY <1>1, <1>3, <3>1
  <2> QED
    BY <1>0, <1>1, <2>5, <2>8, <2>9
<1> QED
  BY <1>2, <1>3

LEMMA SupernodeIs ==
  ASSUME NEW t, Whole(t), NEW c \in Visited(t), Begins(t, c), NEW want \in 0 .. Len(Began(t.struct, c)),
         NEW d \in Visited(t), Begins(t, d), Began(t.struct, d) = SubSeq(Began(t.struct, c), 1, want)
  PROVE  Supernode(t.struct, c.off, want) = Spot(d.off, Len(Began(t.struct, c)))
<1> DEFINE s == t.struct
           D == NodesHeld
           stop == SuperStop(c.off)
           base == SuperEnd(c.off, want)
           g == OnwardHeld(s, want)
           m == LeftHeld(s)
           At0(n, x) == /\ Begins(t, x) /\ x.off <= c.off /\ n.off = x.off
                        /\ n.depth = Len(Began(s, x)) /\ (x.off > d.off => n.super = d.off)
           P == {n \in D : \E x \in Visited(t) : At0(n, x)}
           Q == {Spot(d.off, Len(Began(s, c)))}
<1>0. Sane(t) /\ Legible(s)
  BY DEF Whole, Sane
<1>1. /\ c.off \in Int /\ d.off \in Int /\ d.off <= c.off
      /\ Len(Began(s, c)) \in Nat /\ Len(Began(s, d)) = want
      /\ (d.off = c.off <=> want = Len(Began(s, c)))
      /\ \A x \in Visited(t) : Begins(t, x) /\ d.off < x.off /\ x.off < c.off
                                 => Len(Began(s, x)) > want
  BY AncestorIs
<1>2. want \in Int /\ want >= 0 /\ want <= Len(Began(s, c))
  BY <1>1
<1>3. /\ Walks(Super(s, c.off, want), D, stop, base, g)
      /\ Supernode(s, c.off, want) = Super(s, c.off, want)[HeldAt(0, 0, INTERNAL)]
  BY <1>0, <1>1, <1>2, SuperIs
<1>4. /\ g \in [D -> D] /\ m \in [D -> Nat]
      /\ \A n \in D : n.off >= 0 => m[g[n]] < m[n]
  BY <1>0, <1>2, HeldOnward
<1>5. ASSUME NEW x \in Visited(t), Begins(t, x)
      PROVE  x.off \in Int /\ x.off >= 0 /\ Len(Began(s, x)) \in Nat
  <2>1. x.off \in 0 .. Len(s) - 1 /\ Len(s) \in Nat
    BY <1>0, Met
  <2>2. Began(s, x) \in Paths
    BY <1>0, <1>5, InsideFirst
  <2> QED
    BY <2>1, <2>2, UpIs
<1>6. ASSUME NEW n \in D, NEW x \in Visited(t), At0(n, x), n \in stop
      PROVE  base[n] \in Q
  <2>1. x.off \in Int /\ x.off >= 0 /\ n.off = x.off /\ x.off <= c.off
    BY <1>5, <1>6
  <2>2. x.off = c.off
    BY <1>1, <1>6, <2>1 DEF SuperStop
  <2>3. x = c
    BY <1>0, <2>2, SameOff
  <2>4. base[n] = AtNode0(n, want)
    <3>1. ~(n.off < 0 \/ n.off > c.off)
      BY <1>1, <2>1, <2>2
    <3> QED
      BY <3>1 DEF SuperEnd
  <2>5. n.depth = Len(Began(s, c)) /\ n.off = c.off /\ (c.off > d.off => n.super = d.off)
    BY <1>6, <2>3
  <2>6. ~(want > n.depth)
    BY <1>1, <1>2, <2>5
  <2>7. base[n] = Spot(IF n.depth = want THEN n.off ELSE n.super, n.depth)
    BY <2>4, <2>6 DEF AtNode0, Spot
  <2>8. (IF n.depth = want THEN n.off ELSE n.super) = d.off
    <3>1. CASE n.depth = want
      BY <1>1, <2>5, <3>1
    <3>2. CASE n.depth # want
      <4>1. c.off > d.off
        BY <1>1, <2>5, <3>2
      <4> QED
        BY <2>5, <3>2, <4>1
    <3> QED
      BY <3>1, <3>2
  <2> QED
    BY <2>5, <2>7, <2>8
<1>7. ASSUME NEW n \in D, NEW x \in Visited(t), At0(n, x), n \notin stop
      PROVE  g[n] \in P /\ m[g[n]] < m[n]
  <2>1. x.off \in Int /\ x.off >= 0 /\ n.off = x.off /\ x.off <= c.off
    BY <1>5, <1>7
  <2>2. x.off < c.off
    BY <1>1, <1>7, <2>1 DEF SuperStop
  <2>3. PICK y \in Visited(t) :
           /\ Begins(t, y) /\ x.off < y.off /\ y.off <= c.off
           /\ NextNode(s, x.off, Len(Began(s, x))) = Spot(y.off, Len(Began(s, y)))
           /\ \A z \in Visited(t) : Begins(t, z) /\ x.off < z.off => y.off <= z.off
    BY <1>7, <2>2, NextNodeIs
  <2>4. y.off \in Int /\ Len(Began(s, y)) \in Nat
    BY <1>5, <2>3
  <2> DEFINE h == IF n.depth = want THEN n.off ELSE n.super
             k == HeldAt(y.off, Len(Began(s, y)), h)
  <2>5. g[n] = k
    <3>1. g[n] = HeldOn(n, NextNode(s, n.off, n.depth), want)
      BY DEF OnwardHeld
    <3>2. NextNode(s, n.off, n.depth) = Spot(y.off, Len(Began(s, y)))
      BY <1>7, <2>3
    <3> QED
      BY <3>1, <3>2 DEF HeldOn, HeldAt, Spot
  <2>6. n.off \in Int /\ n.depth \in Int /\ n.super \in Int
    BY DEF NodesHeld
  <2>7. h \in Int
    BY <2>6
  <2>8. y.off > d.off => h = d.off
    <3> SUFFICES ASSUME y.off > d.off PROVE h = d.off
      OBVIOUS
    <3>1. d.off <= x.off
      <4>1. x.off < d.off => y.off <= d.off
        BY <2>3
      <4> QED
        BY <1>1, <2>1, <2>4, <4>1
    <3>2. CASE x.off = d.off
      <4>1. x = d
        BY <1>0, <3>2, SameOff
      <4>2. n.depth = want /\ n.off = d.off
        BY <1>1, <1>7, <4>1
      <4> QED
        BY <4>2
    <3>3. CASE x.off # d.off
      <4>1. d.off < x.off /\ x.off > d.off
        BY <1>1, <2>1, <3>1, <3>3
      <4>2. Len(Began(s, x)) > want /\ Len(Began(s, x)) \in Nat
        BY <1>1, <1>5, <1>7, <2>2, <4>1
      <4>3. n.depth # want
        BY <1>2, <1>7, <4>2
      <4> QED
        BY <1>7, <4>1, <4>3
    <3> QED
      BY <3>2, <3>3
  <2> HIDE DEF h
  <2>9. k \in D /\ k.off = y.off /\ k.depth = Len(Began(s, y)) /\ k.super = h
    <3>1. PICK i \in Int, j \in Int, l \in Int : i = y.off /\ j = Len(Began(s, y)) /\ l = h
      BY <2>4, <2>7
    <3>2. /\ HeldAt(i, j, l) \in NodesHeld /\ HeldAt(i, j, l).off = i
          /\ HeldAt(i, j, l).depth = j /\ HeldAt(i, j, l).super = l
      BY HeldIs
    <3>3. k = HeldAt(i, j, l)
      BY <3>1
    <3> HIDE DEF k
    <3> QED
      BY <3>1, <3>2, <3>3
  <2>10. At0(k, y)
    BY <2>3, <2>8, <2>9
  <2>11. g[n] \in P
    <3> HIDE DEF k, g, At0
    <3> QED
      BY <2>5, <2>9, <2>10
  <2>12. m[g[n]] < m[n]
    <3> HIDE DEF g, m, D
    <3> QED
      BY <1>4, <2>1
  <2> QED
    BY <2>11, <2>12
<1>8. Leads(stop, base, g, P, Q, m)
  <2> SUFFICES ASSUME NEW n \in P
               PROVE  IF n \in stop THEN base[n] \in Q ELSE g[n] \in P /\ m[g[n]] < m[n]
    BY DEF Leads
  <2>1. n \in D
    OBVIOUS
  <2>2. PICK x \in Visited(t) : At0(n, x)
    OBVIOUS
  <2> HIDE DEF P, Q, m, g, base, stop, At0, D
  <2> QED
    BY <1>6, <1>7, <2>1, <2>2
<1>9. HeldAt(0, 0, INTERNAL) \in P
  <2>1. PICK r \in Visited(t) : Begins(t, r) /\ Began(s, r) = <<>> /\ r.off = 0
    BY RootIs
  <2>2. c.off >= 0 /\ d.off >= 0
    BY <1>5
  <2> DEFINE n == HeldAt(0, 0, INTERNAL)
  <2>3. n \in D /\ n.off = 0 /\ n.depth = 0 /\ n.super = INTERNAL
    BY Codes, HeldIs
  <2>4. Len(Began(s, r)) = 0
    BY <2>1
  <2> HIDE DEF n
  <2>5. At0(n, r)
    BY <1>1, <2>1, <2>2, <2>3, <2>4
  <2> HIDE DEF At0
  <2> QED
    BY <2>3, <2>5 DEF n
<1>10. \A n \in P : Super(s, c.off, want)[n] \in Q
  <2>1. P \in SUBSET D
    OBVIOUS
  <2>2. PICK f : f = Super(s, c.off, want)
    OBVIOUS
  <2>3. Walks(f, D, stop, base, g) /\ g \in [D -> D] /\ m \in [D -> Nat]
    BY <1>3, <1>4, <2>2
  <2> HIDE DEF P, Q, m, g, base, stop, D
  <2>4. \A n \in P : f[n] \in Q
    BY <1>8, <2>1, <2>3, WalkEnds
  <2> QED
    BY <2>2, <2>4
<1>11. Super(s, c.off, want)[HeldAt(0, 0, INTERNAL)] \in Q
  <2> HIDE DEF P, Q
  <2> QED
    BY <1>9, <1>10
<1> QED
  BY <1>3, <1>11

LEMMA AncestorMet ==
  ASSUME NEW t, Whole(t), NEW c \in Visited(t), Begins(t, c), NEW k \in 0 .. Len(Began(t.struct, c))
  PROVE  \E d \in Visited(t) : Begins(t, d) /\ Began(t.struct, d) = SubSeq(Began(t.struct, c), 1, k)
<1> DEFINE s == t.struct
           p == Began(s, c)
           q == SubSeq(p, 1, k)
<1>0. Sane(t) /\ Legible(s) /\ p \in Paths
  BY InsideFirst DEF Whole, Sane
<1>1. /\ Hop(t, c) \in Visited(t) /\ Hop(t, c).inTree /\ Hop(t, c).path = p
  BY <1>0, Met, MetTag DEF Begins, Word, At
<1>2. q \in Paths /\ Heads(q, p)
  <2>1. PICK u \in Seq(NodeNames) : u = p
    BY <1>0 DEF Paths
  <2>2. PICK j \in 0 .. Len(u) : j = k
    BY <2>1
  <2>3. /\ SubSeq(u, 1, j) \in Seq(NodeNames) /\ Len(SubSeq(u, 1, j)) = j
        /\ Len(u) \in Nat /\ j <= Len(u)
    BY <2>2
  <2>4. q = SubSeq(u, 1, j)
    BY <2>1, <2>2
  <2> HIDE DEF p, q
  <2> QED
    BY <2>1, <2>3, <2>4 DEF Heads, Paths
<1> HIDE DEF p, q
<1> QED
  BY <1>0, <1>1, <1>2, Enclosed DEF p, q

(* fdt_parent_offset finds the node a node lies in.                        *)
LEMMA ParentIs ==
  ASSUME NEW t, Whole(t), NEW c \in Visited(t), Begins(t, c), Began(t.struct, c) # <<>>
  PROVE  \E d \in Visited(t) : /\ Begins(t, d) /\ Began(t.struct, d) = Up(Began(t.struct, c))
                               /\ ParentOffset(t.struct, c.off) = d.off
<1> DEFINE s == t.struct
           p == Began(s, c)
<1>0. Sane(t) /\ p \in Paths
  BY InsideFirst DEF Whole
<1>1. PICK n \in Nat : n = Len(p)
  BY <1>0, UpIs
<1>2. n # 0 /\ 0 \in 0 .. n /\ n - 1 \in 0 .. n
  <2>1. n # 0
    BY <1>0, <1>1, UpIs
  <2> QED
    BY <2>1
<1>3. PICK r \in Visited(t) : Begins(t, r) /\ Began(s, r) = SubSeq(p, 1, 0)
  BY <1>1, <1>2, AncestorMet
<1>4. PICK d \in Visited(t) : Begins(t, d) /\ Began(s, d) = SubSeq(p, 1, n - 1)
  BY <1>1, <1>2, AncestorMet
<1>5. Supernode(s, c.off, 0) = Spot(r.off, n)
  BY <1>1, <1>2, <1>3, SupernodeIs
<1>6. Supernode(s, c.off, n - 1) = Spot(d.off, n)
  BY <1>1, <1>2, <1>4, SupernodeIs
<1>7. r.off \in 0 .. Len(s) - 1 /\ Len(s) \in Nat
  BY <1>0, Met
<1>8. ~(r.off < 0)
  BY <1>7
<1>9. ParentOffset(s, c.off) = d.off
  BY <1>5, <1>6, <1>8 DEF ParentOffset, Spot
<1>10. Began(s, d) = Up(p)
  BY <1>1, <1>4 DEF Up
<1> QED
  BY <1>4, <1>9, <1>10

(* fdt_path_offset finds the node of a path, when no sibling on the way    *)
(* has that name with a unit address.                                      *)
PathSteps(s, path, f) ==
  f = [i \in 0 .. Len(path) |->
         IF i = 0 THEN 0
         ELSE IF f[i - 1] < 0 THEN f[i - 1]
         ELSE SubnodeOffset(s, f[i - 1], path[i])]
PathWalk(s, path) == CHOOSE f : PathSteps(s, path, f)

Unambiguous(t, path) ==
  \A i \in DOMAIN path : \A m \in NodeNames \ {path[i]} : BaseName[m] = path[i] =>
    \A x \in Visited(t) : Begins(t, x) => Began(t.struct, x) # Append(SubSeq(path, 1, i - 1), m)

LEMMA ChildIs ==
  ASSUME NEW t, Whole(t), NEW path \in Paths, Unambiguous(t, path), NEW i \in 1 .. Len(path),
         NEW y \in Visited(t), Begins(t, y), Began(t.struct, y) = SubSeq(path, 1, i - 1),
         NEW x \in Visited(t), Begins(t, x), Began(t.struct, x) = SubSeq(path, 1, i)
  PROVE  SubnodeOffset(t.struct, y.off, path[i]) = x.off
<1> DEFINE s == t.struct
           name == path[i]
<1>0. Sane(t) /\ i \in DOMAIN path
  <2>1. path \in Seq(NodeNames)
    BY DEF Paths
  <2> QED
    BY <2>1 DEF Whole
<1>1. SubSeq(path, 1, i) = Append(SubSeq(path, 1, i - 1), name) /\ SubSeq(path, 1, i - 1) \in Paths
      /\ name \in NodeNames
  <2>1. PICK u \in Seq(NodeNames) : u = path
    BY DEF Paths
  <2>2. PICK j \in 1 .. Len(u) : j = i
    BY <2>1
  <2>3. /\ SubSeq(u, 1, j) = Append(SubSeq(u, 1, j - 1), u[j]) /\ SubSeq(u, 1, j - 1) \in Seq(NodeNames)
        /\ u[j] \in NodeNames
    BY <2>2
  <2> QED
    BY <2>1, <2>2, <2>3 DEF Paths
<1>2. ASSUME NEW z \in Visited(t), Begins(t, z), z.inTree, z.path = Began(s, y)
      PROVE  Began(s, z) = Append(SubSeq(path, 1, i - 1), s[z.off + 2][2]) /\ s[z.off + 2][2] \in NodeNames
  BY <1>0, <1>2, MetTag DEF Began, Begins, Word
<1>3. x.inTree /\ x.path = Began(s, y) /\ s[x.off + 2][2] = name
  <2>1. x.inTree
    <3>1. ~x.inTree => Began(s, x) = <<>>
      BY DEF Began
    <3>2. Append(SubSeq(path, 1, i - 1), name) # <<>>
      BY <1>1, AppendIs
    <3> QED
      BY <1>1, <3>1, <3>2
  <2>2. /\ Began(s, x) = Append(x.path, s[x.off + 2][2]) /\ s[x.off + 2][2] \in NodeNames
        /\ x.path \in Paths
    BY <1>0, <2>1, Met, MetTag DEF Began, Begins, Word, Paths
  <2>3. PICK u \in Paths, v \in Paths, m \in NodeNames, k \in NodeNames :
             /\ u = x.path /\ v = SubSeq(path, 1, i - 1)
             /\ m = s[x.off + 2][2] /\ k = name
    BY <1>1, <2>2
  <2>4. Append(u, m) = Append(v, k) /\ m \in NodeNames /\ k \in NodeNames
    BY <1>1, <2>2, <2>3
  <2>5. u = v /\ m = k
    <3>1. /\ Up(Append(u, m)) = u /\ Len(Append(u, m)) = Len(u) + 1
          /\ Append(u, m)[Len(u) + 1] = m
      BY <2>3, <2>4, AppendIs
    <3>2. /\ Up(Append(v, k)) = v /\ Len(Append(v, k)) = Len(v) + 1
          /\ Append(v, k)[Len(v) + 1] = k
      BY <2>3, <2>4, AppendIs
    <3> QED
      BY <2>4, <3>1, <3>2
  <2> QED
    BY <2>1, <2>3, <2>5
<1>4. Child(t, y, x, name)
  BY <1>3 DEF Child, NameMatches
<1>5. PICK z \in Visited(t) : Child(t, y, z, name) /\ SubnodeOffset(s, y.off, name) = z.off
  BY <1>4, SubnodeIs
<1>6. /\ Began(s, z) = Append(SubSeq(path, 1, i - 1), s[z.off + 2][2]) /\ s[z.off + 2][2] \in NodeNames
      /\ Begins(t, z) /\ (s[z.off + 2][2] = name \/ BaseName[s[z.off + 2][2]] = name)
  BY <1>2, <1>5 DEF Child, NameMatches
<1>7. s[z.off + 2][2] = name
  BY <1>0, <1>6 DEF Unambiguous
<1>8. z = x
  BY <1>1, <1>6, <1>7, OneNode
<1> QED
  BY <1>5, <1>8

LEMMA PathIs ==
  ASSUME NEW t, Whole(t), NEW c \in Visited(t), Begins(t, c), Unambiguous(t, Began(t.struct, c))
  PROVE  PathOffset(t.struct, Began(t.struct, c)) = c.off
<1> DEFINE s == t.struct
           p == Began(s, c)
           On(i, x) == Begins(t, x) /\ Began(s, x) = SubSeq(p, 1, i)
           g == [i \in 0 .. Len(p) |-> (CHOOSE x \in Visited(t) : On(i, x)).off]
<1>0. Sane(t) /\ p \in Paths /\ Len(p) \in Nat
  BY InsideFirst, UpIs DEF Whole
<1>1. ASSUME NEW i \in 0 .. Len(p), NEW x \in Visited(t), On(i, x)
      PROVE  g[i] = x.off
  <2>1. (CHOOSE y \in Visited(t) : On(i, y)) = x
    <3>1. \A y \in Visited(t) : On(i, y) => y = x
      BY <1>1, OneNode
    <3> HIDE DEF On
    <3> QED
      BY <1>1, <3>1
  <2> QED
    BY <2>1
<1>2. \A i \in 0 .. Len(p) : \E x \in Visited(t) : On(i, x)
  BY AncestorMet
<1> DEFINE R(f, i) == IF i = 0 THEN 0 ELSE IF f[i - 1] < 0 THEN f[i - 1]
                      ELSE SubnodeOffset(s, f[i - 1], p[i])
<1>3. ASSUME NEW i \in 0 .. Len(p) PROVE g[i] = R(g, i)
  <2>1. PICK x \in Visited(t) : On(i, x)
    BY <1>2
  <2>2. g[i] = x.off
    BY <1>1, <2>1
  <2>3. CASE i = 0
    <3>1. Began(s, x) = <<>>
      BY <2>1, <2>3
    <3>2. x.off = 0
      BY <2>1, <3>1, RootFirst
    <3> HIDE DEF g
    <3> QED
      BY <2>2, <2>3, <3>2
  <2>4. CASE i # 0
    <3>1. i - 1 \in 0 .. Len(p) /\ i \in 1 .. Len(p)
      BY <1>0, <2>4
    <3>2. PICK y \in Visited(t) : On(i - 1, y)
      BY <1>2, <3>1
    <3>3. g[i - 1] = y.off
      BY <1>1, <3>1, <3>2
    <3>4. y.off \in 0 .. Len(s) - 1 /\ Len(s) \in Nat
      BY <1>0, Met
    <3>5. ~(y.off < 0)
      BY <3>4
    <3>6. PICK path \in Paths : path = p
      BY <1>0
    <3>7. SubnodeOffset(s, y.off, path[i]) = x.off
      <4>1. /\ Begins(t, y) /\ Began(t.struct, y) = SubSeq(path, 1, i - 1)
            /\ Begins(t, x) /\ Began(t.struct, x) = SubSeq(path, 1, i)
            /\ Unambiguous(t, path) /\ i \in 1 .. Len(path)
        BY <2>1, <3>1, <3>2, <3>6
      <4> QED
        BY <4>1, ChildIs
    <3> HIDE DEF g, p
    <3> QED
      BY <2>2, <2>4, <3>3, <3>5, <3>6, <3>7
  <2> QED
    BY <2>3, <2>4
<1>4. PathSteps(s, p, g)
  <2> DEFINE E(i) == (CHOOSE x \in Visited(t) : On(i, x)).off
  <2>1. g = [i \in 0 .. Len(p) |-> E(i)]
    OBVIOUS
  <2>2. \A i \in 0 .. Len(p) : g[i] = E(i)
    OBVIOUS
  <2> HIDE DEF E, g
  <2>3. g = [i \in 0 .. Len(p) |-> R(g, i)]
    <3> HIDE DEF R
    <3> QED
      BY <1>3, <2>1, <2>2
  <2> QED
    BY <2>3 DEF PathSteps
<1>5. PICK f : f = PathWalk(s, p) /\ PathSteps(s, p, f)
  <2> HIDE DEF g
  <2> QED
    BY <1>4 DEF PathWalk
<1>6. \A i \in 0 .. Len(p) : f[i] = R(f, i)
  BY <1>5 DEF PathSteps
<1>7. \A i \in 0 .. Len(p) : f[i] = g[i]
  <2> DEFINE S == {i \in 0 .. Len(p) : f[i] # g[i]}
  <2> SUFFICES ASSUME S # {} PROVE FALSE
    OBVIOUS
  <2>1. S \in SUBSET Nat
    BY <1>0
  <2>2. PICK i \in S : \A j \in S : i <= j
    <3> HIDE DEF S
    <3> QED
      BY <2>1, LeastNat
  <2>3. i \in 0 .. Len(p) /\ f[i] # g[i]
    OBVIOUS
  <2> HIDE DEF g
  <2>4. f[i] = R(f, i) /\ g[i] = R(g, i)
    BY <1>3, <1>6, <2>3
  <2>5. CASE i = 0
    BY <2>3, <2>4, <2>5
  <2>6. CASE i # 0
    <3>1. i - 1 \in 0 .. Len(p) /\ ~(i <= i - 1)
      BY <1>0, <2>3, <2>6
    <3>2. f[i - 1] = g[i - 1]
      BY <2>2, <3>1
    <3> QED
      BY <2>3, <2>4, <3>2
  <2> QED
    BY <2>5, <2>6
<1>8. f[Len(p)] = c.off
  <2>1. SubSeq(p, 1, Len(p)) = p
    <3>1. PICK u \in Seq(NodeNames) : u = p
      BY <1>0 DEF Paths
    <3>2. SubSeq(u, 1, Len(u)) = u
      OBVIOUS
    <3> QED
      BY <3>1, <3>2
  <2>2. On(Len(p), c)
    BY <2>1
  <2>3. Len(p) \in 0 .. Len(p)
    BY <1>0
  <2>4. g[Len(p)] = c.off
    <3> HIDE DEF g, On
    <3> QED
      BY <1>1, <2>2, <2>3
  <2> HIDE DEF g
  <2> QED
    BY <1>7, <2>3, <2>4
<1>9. PathOffset(s, p) = PathWalk(s, p)[Len(p)]
  BY DEF PathOffset, PathWalk, PathSteps
<1> QED
  BY <1>5, <1>8, <1>9
=============================================================================
