-------------------------- MODULE FdtWriterProofs ---------------------------
(***************************************************************************)
(* Proofs about writing a device tree from its beginning to its end, for   *)
(* any names, any properties, any sizes of buffers and any order of calls. *)
(***************************************************************************)
EXTENDS FdtWriter, FdtReadProofs

WordSet == ({"tag"} \X Tags) \cup ({"name"} \X NodeNames) \cup ({"len"} \X Nat)
             \cup ({"nameoff"} \X Int) \cup Words

WriterBlobs == [magic : {"none", "sw", "fdt"}, flags : {"none", "no name dedup"}, total : Nat,
                offRsv : Nat, rsv : Seq(Nat), offStruct : Nat, struct : Seq(WordSet),
                offStrings : Nat, strings : Seq(PropNames), sizeStrings : Nat]

(* Header, structure, strings: none reaches into the next.                 *)
Apart(v) == v.magic # "none" => /\ HeaderWords <= v.offStruct
                                /\ v.offStruct + Len(v.struct) + v.sizeStrings <= v.total

(* While the reserve map is open there is nothing behind it.               *)
Modes(v) == v.magic = "sw" => /\ v.offStrings \in {0, v.total}
                              /\ v.offStrings = 0 => Len(v.struct) = 0 /\ v.sizeStrings = 0

Sound(v) == v \in WriterBlobs /\ Apart(v) /\ Modes(v)

(* What a call may leave: a sound blob, and after a failure the same.      *)
Safe(v, r) == Sound(r.t) /\ r.ret \in Int /\ (r.ret # 0 => r.t = v)

LEMMA ErrorCodes == /\ NOSPACE \in Int /\ BADFLAGS \in Int /\ INTERNAL \in Int
                    /\ BADSTATE \in Int /\ BADMAGIC \in Int
  BY DEF NOSPACE, BADFLAGS, INTERNAL, BADSTATE, BADMAGIC

LEMMA Probes == ASSUME NEW v
                PROVE  /\ SwProbe(v) \in Int /\ SwProbeMemRsv(v) \in Int
                       /\ SwProbeStruct(v) \in Int /\ RoProbe(v) \in Int
  BY DEF SwProbe, SwProbeMemRsv, SwProbeStruct, RoProbe, BADSTATE, BADMAGIC

LEMMA FailSafe == ASSUME NEW v, Sound(v), NEW e \in Int PROVE Safe(v, Fail(e, v))
  BY DEF Safe, Fail

LEMMA ProbeSafe == ASSUME NEW v, Sound(v), NEW probe \in Int, NEW r, probe = 0 => Safe(v, r)
                   PROVE  Safe(v, If(probe, v, r))
  BY FailSafe DEF If

-----------------------------------------------------------------------------
(* A structure can be written into: the probe of most functions.           *)
LEMMA InStruct == ASSUME NEW v, Sound(v), SwProbeStruct(v) = 0
                  PROVE  v.magic = "sw" /\ v.offStrings = v.total /\ v.offStrings # 0
<1>1. v.magic = "sw"
  BY DEF SwProbeStruct, SwProbe, BADSTATE, BADMAGIC
<1>2. v.offStrings = v.total
  BY DEF SwProbeStruct, SwProbe, BADSTATE, BADMAGIC
<1>3. v.total # 0
  <2>1. v.struct \in Seq(WordSet) /\ v.total \in Nat /\ v.offStruct \in Nat /\ v.sizeStrings \in Nat
    BY DEF Sound, WriterBlobs
  <2>2. Len(v.struct) \in Nat
    BY <2>1, LenProperties
  <2> QED
    BY <1>1, <2>1, <2>2 DEF Sound, Apart, HeaderWords
<1> QED
  BY <1>1, <1>2, <1>3

LEMMA GrabSafe ==
  ASSUME NEW v, Sound(v), SwProbeStruct(v) = 0, NEW words \in Seq(WordSet)
  PROVE  Safe(v, GrabSpace(v, words))
<1>1. v.magic = "sw" /\ v.offStrings = v.total /\ v.offStrings # 0
  BY InStruct
<1>2. CASE Len(v.struct) + Len(words) > v.total - v.offStruct - v.sizeStrings
  BY <1>2, FailSafe, ErrorCodes DEF GrabSpace
<1>3. CASE ~(Len(v.struct) + Len(words) > v.total - v.offStruct - v.sizeStrings)
  <2> DEFINE t == [v EXCEPT !.struct = v.struct \o words]
  <2>1. GrabSpace(v, words) = [ret |-> 0, t |-> t]
    BY <1>3 DEF GrabSpace, Ok
  <2>2. /\ v.struct \o words \in Seq(WordSet)
        /\ Len(v.struct \o words) = Len(v.struct) + Len(words)
        /\ Len(v.struct) \in Nat /\ Len(words) \in Nat
    BY ZenonT(60), ConcatLen DEF Sound, WriterBlobs
  <2>3. t \in WriterBlobs
    BY <2>2 DEF Sound, WriterBlobs
  <2>4. /\ t.magic = "sw" /\ t.struct = v.struct \o words /\ t.total = v.total
        /\ t.offStruct = v.offStruct /\ t.sizeStrings = v.sizeStrings
        /\ t.offStrings = v.offStrings
    BY <1>1 DEF Sound, WriterBlobs
  <2>5. /\ v.total \in Nat /\ v.offStruct \in Nat /\ v.sizeStrings \in Nat
        /\ HeaderWords <= v.offStruct
    BY <1>1 DEF Sound, WriterBlobs, Apart
  <2>6. Apart(t)
    <3> HIDE DEF t
    <3> QED
      BY <1>3, <2>2, <2>4, <2>5 DEF Apart
  <2>7. Modes(t)
    <3> HIDE DEF t
    <3> QED
      BY <1>1, <2>4 DEF Modes
  <2> HIDE DEF t
  <2> QED
    BY <2>1, <2>3, <2>6, <2>7 DEF Safe, Sound
<1> QED
  BY <1>2, <1>3

-----------------------------------------------------------------------------
(* The functions that open and move a buffer.                              *)
LEMMA GarbageBlob == /\ Garbage \in WriterBlobs /\ Garbage.magic = "none" /\ Garbage.struct = <<>>
                     /\ Garbage.sizeStrings = 0 /\ Garbage.offStrings = 0 /\ Garbage.rsv = <<>>
                     /\ Garbage.strings = <<>>
<1>1. <<>> \in Seq(Nat) /\ <<>> \in Seq(WordSet) /\ <<>> \in Seq(PropNames)
  OBVIOUS
<1> QED
  BY <1>1 DEF Garbage, WriterBlobs

LEMMA CreateSafe == ASSUME NEW v, Sound(v), NEW size \in Nat, NEW flags
                    PROVE  Safe(v, FdtCreate(v, size, flags))
<1>1. CASE size < HeaderWords \/ flags \notin {"none", "no name dedup"}
  BY <1>1, FailSafe, ErrorCodes DEF FdtCreate
<1>2. CASE ~(size < HeaderWords) /\ flags \in {"none", "no name dedup"}
  <2> DEFINE t == [Garbage EXCEPT !.magic = "sw", !.flags = flags, !.total = size,
                                  !.offRsv = HeaderWords, !.offStruct = HeaderWords]
  <2>1. FdtCreate(v, size, flags) = [ret |-> 0, t |-> t]
    BY <1>2 DEF FdtCreate, Ok
  <2>2. Garbage \in WriterBlobs /\ Garbage.struct = <<>> /\ Garbage.sizeStrings = 0
        /\ Garbage.offStrings = 0
    BY GarbageBlob
  <2>3. HeaderWords \in Nat /\ HeaderWords <= size
    <3>1. ~(size < HeaderWords)
      BY <1>2
    <3> HIDE DEF t
    <3> QED
      BY <3>1 DEF HeaderWords
  <2>4. t \in WriterBlobs
    BY <1>2, <2>2, <2>3 DEF WriterBlobs
  <2>5. /\ t.offStruct = HeaderWords /\ t.struct = <<>> /\ t.sizeStrings = 0 /\ t.total = size
        /\ t.offStrings = 0
    BY <2>2 DEF WriterBlobs
  <2>6. Len(t.struct) = 0
    BY <2>5
  <2> HIDE DEF t
  <2>7. Apart(t) /\ Modes(t)
    BY <2>3, <2>5, <2>6 DEF Apart, Modes
  <2> QED
    BY <2>1, <2>4, <2>7 DEF Safe, Sound
<1> QED
  BY <1>1, <1>2

LEMMA ResizeSafe == ASSUME NEW v, Sound(v), NEW size \in Nat
                    PROVE  Safe(v, FdtResize(v, size))
<1> DEFINE body == IF StructTop(v) + v.sizeStrings > v.total THEN Fail(INTERNAL, v)
                   ELSE IF StructTop(v) + v.sizeStrings > size THEN Fail(NOSPACE, v)
                   ELSE Ok([v EXCEPT !.total = size,
                                     !.offStrings = IF v.offStrings # 0 THEN size ELSE 0])
<1>1. ASSUME SwProbe(v) = 0 PROVE Safe(v, body)
  <2>1. v.magic = "sw"
    BY <1>1 DEF SwProbe, BADSTATE, BADMAGIC
  <2>2. CASE StructTop(v) + v.sizeStrings > v.total \/ StructTop(v) + v.sizeStrings > size
    BY <2>2, FailSafe, ErrorCodes
  <2>3. CASE ~(StructTop(v) + v.sizeStrings > v.total) /\ ~(StructTop(v) + v.sizeStrings > size)
    <3> DEFINE t == [v EXCEPT !.total = size,
                              !.offStrings = IF v.offStrings # 0 THEN size ELSE 0]
    <3>1. body = [ret |-> 0, t |-> t]
      BY <2>3 DEF Ok
    <3>2. (IF v.offStrings # 0 THEN size ELSE 0) \in Nat
      OBVIOUS
    <3>3. t \in WriterBlobs
      BY <3>2 DEF Sound, WriterBlobs
    <3>4. /\ t.magic = "sw" /\ t.struct = v.struct /\ t.total = size /\ t.offStruct = v.offStruct
          /\ t.sizeStrings = v.sizeStrings
          /\ t.offStrings = IF v.offStrings # 0 THEN size ELSE 0
      BY <2>1 DEF Sound, WriterBlobs
    <3>5. /\ v.struct \in Seq(WordSet) /\ v.offStruct \in Nat /\ v.sizeStrings \in Nat
          /\ HeaderWords <= v.offStruct
      BY <2>1 DEF Sound, WriterBlobs, Apart
    <3>6. Len(v.struct) \in Nat
      BY <3>5, LenProperties
    <3> HIDE DEF t
    <3>7. Apart(t)
      BY <2>3, <3>4, <3>5, <3>6 DEF Apart, StructTop
    <3>8. size # 0
      BY <2>3, <3>5, <3>6 DEF StructTop, HeaderWords
    <3>9. Modes(t)
      BY <2>1, <3>4, <3>8 DEF Sound, Modes
    <3> QED
      BY <3>1, <3>3, <3>7, <3>9 DEF Safe, Sound
  <2> QED
    BY <2>2, <2>3
<1>2. FdtResize(v, size) = If(SwProbe(v), v, body)
  BY DEF FdtResize
<1> HIDE DEF body
<1> QED
  BY <1>1, <1>2, ProbeSafe, Probes

LEMMA MoveSafe == ASSUME NEW v, Sound(v), NEW size \in Nat
                  PROVE  Safe(v, FdtMove(v, size))
<1> DEFINE body == IF v.total > size THEN Fail(NOSPACE, v) ELSE Ok(v)
<1>1. Safe(v, body)
  BY FailSafe, ErrorCodes DEF Safe, Ok
<1>2. FdtMove(v, size) = If(RoProbe(v), v, body)
  BY DEF FdtMove
<1> HIDE DEF body
<1> QED
  BY <1>1, <1>2, ProbeSafe, Probes

-----------------------------------------------------------------------------
(* The reserve map.                                                        *)
LEMMA AddRsvSafe == ASSUME NEW v, Sound(v), NEW size \in Nat
                    PROVE  Safe(v, FdtAddReservemapEntry(v, size))
<1> DEFINE t    == [v EXCEPT !.rsv = Append(v.rsv, size), !.offStruct = v.offStruct + RsvWords]
           body == IF v.offStruct + RsvWords > v.total THEN Fail(NOSPACE, v) ELSE Ok(t)
<1>1. ASSUME SwProbeMemRsv(v) = 0 PROVE Safe(v, body)
  <2>1. v.magic = "sw" /\ v.offStrings = 0
    BY <1>1 DEF SwProbeMemRsv, SwProbe, BADSTATE, BADMAGIC
  <2>2. CASE v.offStruct + RsvWords > v.total
    BY <2>2, FailSafe, ErrorCodes
  <2>3. CASE ~(v.offStruct + RsvWords > v.total)
    <3>1. body = [ret |-> 0, t |-> t]
      BY <2>3 DEF Ok
    <3>2. Append(v.rsv, size) \in Seq(Nat) /\ v.offStruct + RsvWords \in Nat
      <4>1. v.rsv \in Seq(Nat) /\ v.offStruct \in Nat
        BY DEF Sound, WriterBlobs
      <4> QED
        BY <4>1 DEF RsvWords
    <3>3. t \in WriterBlobs
      BY <3>2 DEF Sound, WriterBlobs
    <3>4. /\ t.magic = "sw" /\ t.struct = v.struct /\ t.total = v.total
          /\ t.offStruct = v.offStruct + RsvWords
          /\ t.sizeStrings = v.sizeStrings /\ t.offStrings = 0
      BY <2>1 DEF Sound, WriterBlobs
    <3>5. /\ Len(v.struct) = 0 /\ v.sizeStrings = 0
          /\ HeaderWords <= v.offStruct /\ v.offStruct \in Nat /\ v.total \in Nat
      BY <2>1 DEF Sound, WriterBlobs, Apart, Modes
    <3> HIDE DEF t
    <3>6. Apart(t) /\ Modes(t)
      BY <2>3, <3>4, <3>5 DEF Apart, Modes, HeaderWords, RsvWords
    <3> QED
      BY <3>1, <3>3, <3>6 DEF Safe, Sound
  <2> QED
    BY <2>2, <2>3
<1>2. FdtAddReservemapEntry(v, size) = If(SwProbeMemRsv(v), v, body)
  BY DEF FdtAddReservemapEntry
<1> HIDE DEF body
<1> QED
  BY <1>1, <1>2, ProbeSafe, Probes

LEMMA FinishRsvSafe == ASSUME NEW v, Sound(v) PROVE Safe(v, FdtFinishReservemap(v))
<1> DEFINE r == FdtAddReservemapEntry(v, 0)
           u == r.t
           t == [u EXCEPT !.offStrings = u.total]
<1>1. Safe(v, r)
  BY AddRsvSafe
<1>2. FdtFinishReservemap(v) = IF r.ret # 0 THEN r ELSE Ok(t)
  BY DEF FdtFinishReservemap
<1>3. ASSUME r.ret = 0 PROVE Sound(t)
  <2>1. u.magic = "sw"
    <3>1. SwProbeMemRsv(v) = 0
      BY <1>3 DEF FdtAddReservemapEntry, If, Fail
    <3>2. v.magic = "sw"
      BY <3>1 DEF SwProbeMemRsv, SwProbe, BADSTATE, BADMAGIC
    <3>3. r.t = [v EXCEPT !.rsv = Append(v.rsv, 0), !.offStruct = v.offStruct + RsvWords]
      <4>1. r = IF v.offStruct + RsvWords > v.total THEN Fail(NOSPACE, v)
                ELSE Ok([v EXCEPT !.rsv = Append(v.rsv, 0), !.offStruct = v.offStruct + RsvWords])
        BY <3>1 DEF FdtAddReservemapEntry, If
      <4>2. ~(v.offStruct + RsvWords > v.total)
        BY <1>3, <4>1 DEF Fail, NOSPACE
      <4> QED
        BY <4>1, <4>2 DEF Ok
    <3> QED
      BY <3>2, <3>3 DEF Sound, WriterBlobs
  <2> HIDE DEF r
  <2>2. u \in WriterBlobs /\ Apart(u) /\ Modes(u)
    BY <1>1 DEF Safe, Sound
  <2> HIDE DEF u
  <2>3. t \in WriterBlobs
    BY <2>2 DEF WriterBlobs
  <2>4. /\ t.magic = "sw" /\ t.struct = u.struct /\ t.total = u.total /\ t.offStruct = u.offStruct
        /\ t.sizeStrings = u.sizeStrings /\ t.offStrings = u.total
    BY <2>1, <2>2 DEF WriterBlobs
  <2>5. u.struct \in Seq(WordSet) /\ u.total \in Nat /\ u.offStruct \in Nat /\ u.sizeStrings \in Nat
    BY <2>2 DEF WriterBlobs
  <2>6. Len(u.struct) \in Nat
    BY <2>5, LenProperties
  <2> HIDE DEF t
  <2>7. Apart(t)
    BY <2>1, <2>2, <2>4 DEF Apart
  <2>8. u.total # 0
    BY <2>1, <2>2, <2>5, <2>6 DEF Apart, HeaderWords
  <2>9. Modes(t)
    BY <2>4, <2>8 DEF Modes
  <2> QED
    BY <2>3, <2>7, <2>9 DEF Sound
<1> HIDE DEF r, t
<1> QED
  BY <1>1, <1>2, <1>3 DEF Safe, Ok

-----------------------------------------------------------------------------
(* Nodes and properties.                                                   *)
LEMMA BeginWords == ASSUME NEW name \in NodeNames
                    PROVE  LET words == <<Tag("begin")>> \o NameOf(name)
                           IN  words \in Seq(WordSet) /\ Len(words) = NameWords[name] + 1
<1>1. NameWords[name] \in Nat
  BY FdtAssumption
<1>2. <<"tag", "begin">> \in WordSet /\ <<"name", name>> \in WordSet
  BY DEF WordSet, Tags
<1>3. Tag("begin") \in WordSet /\ Name(name) \in WordSet
  BY <1>2 DEF Tag, Name
<1>4. NameOf(name) \in Seq(WordSet)
  BY <1>1, <1>3, IsASeq DEF NameOf
<1>5. DOMAIN NameOf(name) = 1 .. NameWords[name]
  BY DEF NameOf
<1>6. Len(NameOf(name)) = NameWords[name]
  BY <1>1, <1>4, <1>5, LenProperties
<1>7. <<Tag("begin")>> \in Seq(WordSet) /\ Len(<<Tag("begin")>>) = 1
  BY <1>3
<1> QED
  BY <1>1, <1>4, <1>6, <1>7, ConcatLen

LEMMA PropSeq == ASSUME NEW i \in Int, NEW val \in Seq(Words)
                 PROVE  /\ PropWords(i, val) \in Seq(WordSet)
                        /\ Len(PropWords(i, val)) = 3 + Len(val)
<1>1. Len(val) \in Nat
  BY LenProperties
<1>2. <<"tag", "prop">> \in WordSet /\ <<"len", Len(val)>> \in WordSet /\ <<"nameoff", i>> \in WordSet
  BY <1>1 DEF WordSet, Tags
<1>3. /\ <<Tag("prop"), Length(Len(val)), NameOff(i)>> \in Seq(WordSet)
      /\ Len(<<Tag("prop"), Length(Len(val)), NameOff(i)>>) = 3
  BY <1>2 DEF Tag, Length, NameOff
<1>4. Words \subseteq WordSet
  BY DEF WordSet
<1>5. val \in Seq(WordSet)
  BY <1>4
<1> QED
  BY <1>3, <1>5, ConcatLen DEF PropWords

LEMMA TagSeq == ASSUME NEW x \in Tags PROVE <<Tag(x)>> \in Seq(WordSet) /\ Len(<<Tag(x)>>) = 1
<1>1. <<"tag", x>> \in WordSet
  BY DEF WordSet
<1> QED
  BY <1>1 DEF Tag

LEMMA BeginNodeSafe == ASSUME NEW v, Sound(v), NEW name \in NodeNames
                       PROVE  Safe(v, FdtBeginNode(v, name))
<1>1. <<Tag("begin")>> \o NameOf(name) \in Seq(WordSet)
  BY BeginWords
<1>2. SwProbeStruct(v) = 0 => Safe(v, GrabSpace(v, <<Tag("begin")>> \o NameOf(name)))
  BY <1>1, GrabSafe
<1> QED
  BY <1>2, ProbeSafe, Probes DEF FdtBeginNode

LEMMA EndNodeSafe == ASSUME NEW v, Sound(v) PROVE Safe(v, FdtEndNode(v))
<1>1. <<Tag("endnode")>> \in Seq(WordSet)
  BY TagSeq DEF Tags
<1>2. SwProbeStruct(v) = 0 => Safe(v, GrabSpace(v, <<Tag("endnode")>>))
  BY <1>1, GrabSafe
<1> QED
  BY <1>2, ProbeSafe, Probes DEF FdtEndNode

(* A string that is added ends where the strings before it begin; the test *)
(* of the code looks at where it begins only.                              *)
LEMMA AddStringSound ==
  ASSUME NEW v, Sound(v), SwProbeStruct(v) = 0, NEW name \in PropNames,
         AddString(v, name).ret # 0
  PROVE  /\ Sound(AddString(v, name).t) /\ SwProbeStruct(AddString(v, name).t) = 0
         /\ AddString(v, name).ret \in Int
<1> DEFINE n    == StringWords[name]
           left == v.total - (v.sizeStrings + n)
           t    == [v EXCEPT !.strings = <<name>> \o v.strings, !.sizeStrings = v.sizeStrings + n]
<1>1. v.magic = "sw" /\ v.offStrings = v.total /\ v.offStrings # 0
  BY InStruct
<1>2. /\ v.struct \in Seq(WordSet) /\ v.offStruct \in Nat /\ v.sizeStrings \in Nat /\ v.total \in Nat
      /\ HeaderWords <= v.offStruct
      /\ v.offStruct + Len(v.struct) + v.sizeStrings <= v.total
  BY <1>1 DEF Sound, WriterBlobs, Apart
<1>3. Len(v.struct) \in Nat
  BY <1>2, LenProperties
<1>4. n \in Nat /\ n <= HeaderWords
  BY FdtAssumption, SwAssumption
<1>5. left >= 0
  <2> HIDE DEF n
  <2> QED
    BY <1>2, <1>3, <1>4 DEF HeaderWords
<1>6. /\ ~(left < StructTop(v))
      /\ AddString(v, name) = [ret |-> -(Len(v.strings) + 1), t |-> t]
  BY <1>5 DEF AddString
<1>7. v.strings \in Seq(PropNames) /\ <<name>> \in Seq(PropNames)
  <2>1. v.strings \in Seq(PropNames)
    BY DEF Sound, WriterBlobs
  <2> QED
    BY <2>1
<1>8. /\ <<name>> \o v.strings \in Seq(PropNames) /\ Len(v.strings) \in Nat
      /\ v.sizeStrings + n \in Nat
  <2> HIDE DEF n
  <2> QED
    BY <1>2, <1>4, <1>7, ConcatLen
<1>9. t \in WriterBlobs
  <2> HIDE DEF n
  <2> QED
    BY <1>8 DEF Sound, WriterBlobs
<1>10. /\ t.magic = "sw" /\ t.struct = v.struct /\ t.total = v.total /\ t.offStruct = v.offStruct
       /\ t.sizeStrings = v.sizeStrings + n /\ t.offStrings = v.total
  BY <1>1 DEF Sound, WriterBlobs
<1> HIDE DEF t, n
<1>11. Apart(t)
  BY <1>2, <1>3, <1>4, <1>6, <1>10 DEF Apart, StructTop
<1>12. Modes(t)
  BY <1>1, <1>10 DEF Modes
<1>13. SwProbeStruct(t) = 0
  BY <1>10 DEF SwProbeStruct, SwProbe
<1>14. -(Len(v.strings) + 1) \in Int
  BY <1>8
<1> QED
  BY <1>6, <1>9, <1>11, <1>12, <1>13, <1>14 DEF Sound

LEMMA NameForSound ==
  ASSUME NEW v, Sound(v), SwProbeStruct(v) = 0, NEW name \in PropNames, NameFor(v, name).ret # 0
  PROVE  /\ Sound(NameFor(v, name).t) /\ SwProbeStruct(NameFor(v, name).t) = 0
         /\ NameFor(v, name).ret \in Int
<1> DEFINE found == {i \in DOMAIN v.strings : v.strings[i] = name}
           First == CHOOSE i \in found : \A j \in found : i <= j
<1>1. CASE found # {} /\ v.flags # "no name dedup"
  <2>1. v.strings \in Seq(PropNames)
    BY DEF Sound, WriterBlobs
  <2>2. found \subseteq Nat /\ Len(v.strings) \in Nat
    BY <2>1, LenProperties
  <2>3. \E i \in found : \A j \in found : i <= j
    BY <1>1, <2>2, LeastNat
  <2>4. First \in found
    BY <2>3
  <2>5. NameFor(v, name) = [ret |-> First - (Len(v.strings) + 1), t |-> v]
    BY <1>1 DEF NameFor, FindOrAddString
  <2>6. First - (Len(v.strings) + 1) \in Int
    <3>1. First \in Nat
      BY <2>2, <2>4
    <3> HIDE DEF First
    <3> QED
      BY <2>2, <3>1
  <2> QED
    BY <2>5, <2>6
<1>2. CASE ~(found # {} /\ v.flags # "no name dedup")
  <2>1. NameFor(v, name) = AddString(v, name)
    BY <1>2 DEF NameFor, FindOrAddString
  <2> QED
    BY <2>1, AddStringSound
<1> QED
  BY <1>1, <1>2

(* When there is no room for the value the string is deleted again: the    *)
(* blob is what it was.                                                    *)
LEMMA PropertySafe ==
  ASSUME NEW v, Sound(v), NEW name \in PropNames, NEW val \in Seq(Words)
  PROVE  Safe(v, FdtProperty(v, name, val))
<1> DEFINE str  == NameFor(v, name)
           g    == GrabSpace(str.t, PropWords(str.ret, val))
           body == IF str.ret = 0 THEN Fail(NOSPACE, v) ELSE IF g.ret # 0 THEN Fail(g.ret, v) ELSE g
<1>1. ASSUME SwProbeStruct(v) = 0 PROVE Safe(v, body)
  <2>1. CASE str.ret = 0
    BY <2>1, FailSafe, ErrorCodes
  <2>2. CASE str.ret # 0
    <3>1. Sound(str.t) /\ SwProbeStruct(str.t) = 0 /\ str.ret \in Int
      BY <1>1, <2>2, NameForSound
    <3> HIDE DEF str
    <3>2. PropWords(str.ret, val) \in Seq(WordSet)
      BY <3>1, PropSeq
    <3>3. Safe(str.t, g)
      BY <3>1, <3>2, GrabSafe
    <3> HIDE DEF g
    <3>4. g.ret = 0 => Safe(v, g)
      BY <3>3 DEF Safe
    <3>5. g.ret \in Int
      BY <3>3 DEF Safe
    <3> QED
      BY <2>2, <3>4, <3>5, FailSafe
  <2> QED
    BY <2>1, <2>2
<1>2. FdtProperty(v, name, val) = If(SwProbeStruct(v), v, body)
  BY DEF FdtProperty
<1> HIDE DEF body
<1> QED
  BY <1>1, <1>2, ProbeSafe, Probes

-----------------------------------------------------------------------------
(* Finishing: the words of the structure stay as many as they were.        *)
LEMMA FromFirstSeq == ASSUME NEW s \in Seq(WordSet), NEW n \in Int
                      PROVE  FromFirst(s, n) \in Seq(WordSet) /\ Len(FromFirst(s, n)) = Len(s)
<1>1. Len(s) \in Nat /\ DOMAIN s = 1 .. Len(s)
  BY LenProperties
<1>2. ASSUME NEW i \in 1 .. Len(s)
      PROVE  (IF s[i][1] = "nameoff" THEN NameOff(s[i][2] + n) ELSE s[i]) \in WordSet
  <2>1. s[i] \in WordSet
    BY <1>2, ElementOfSeq
  <2>2. CASE s[i][1] = "nameoff"
    <3>1. s[i] \in {"nameoff"} \X Int
      BY <2>1, <2>2, WriterAssumption DEF WordSet
    <3>2. s[i][2] + n \in Int
      BY <3>1
    <3>3. <<"nameoff", s[i][2] + n>> \in WordSet
      BY <3>2 DEF WordSet
    <3> QED
      BY <2>2, <3>3 DEF NameOff
  <2> QED
    BY <2>1, <2>2
<1>3. FromFirst(s, n) = [i \in 1 .. Len(s) |-> IF s[i][1] = "nameoff" THEN NameOff(s[i][2] + n)
                                                                  ELSE s[i]]
  BY <1>1 DEF FromFirst
<1>4. FromFirst(s, n) \in Seq(WordSet)
  BY <1>1, <1>2, <1>3, IsASeq
<1>5. DOMAIN FromFirst(s, n) = 1 .. Len(s)
  BY <1>3
<1> QED
  BY <1>1, <1>4, <1>5, LenProperties

(* What fdt_finish leaves when the end tag fits.                           *)
Closed(u) == [u EXCEPT !.magic = "fdt", !.flags = "none",
                       !.struct = FromFirst(u.struct, Len(u.strings) + 1),
                       !.offStrings = StructTop(u), !.total = StructTop(u) + u.sizeStrings]

LEMMA ClosedSound == ASSUME NEW u, Sound(u), u.magic = "sw"
                     PROVE  /\ Sound(Closed(u)) /\ Closed(u).magic = "fdt"
                            /\ Closed(u).offStrings = Closed(u).offStruct + Len(Closed(u).struct)
                            /\ Closed(u).total = Closed(u).offStrings + Closed(u).sizeStrings
                            /\ Closed(u).rsv = u.rsv /\ Closed(u).offRsv = u.offRsv
                            /\ Closed(u).offStruct = u.offStruct
                            /\ Closed(u).strings = u.strings
                            /\ Closed(u).sizeStrings = u.sizeStrings
<1> DEFINE t == Closed(u)
<1>1. u \in WriterBlobs /\ u.struct \in Seq(WordSet) /\ u.strings \in Seq(PropNames)
      /\ u.offStruct \in Nat /\ u.sizeStrings \in Nat /\ HeaderWords <= u.offStruct
  BY DEF Sound, WriterBlobs, Apart
<1>2. Len(u.strings) \in Nat /\ Len(u.struct) \in Nat
  BY <1>1, LenProperties
<1>3. /\ FromFirst(u.struct, Len(u.strings) + 1) \in Seq(WordSet)
      /\ Len(FromFirst(u.struct, Len(u.strings) + 1)) = Len(u.struct)
  <2>1. Len(u.strings) + 1 \in Int
    BY <1>2
  <2> QED
    BY <1>1, <2>1, FromFirstSeq
<1>4. StructTop(u) = u.offStruct + Len(u.struct) /\ StructTop(u) \in Nat
      /\ StructTop(u) + u.sizeStrings \in Nat
  BY SMTT(30), <1>1, <1>2 DEF StructTop
<1>5. t \in WriterBlobs
  BY <1>1, <1>3, <1>4 DEF WriterBlobs, Closed
<1>6. /\ t.magic = "fdt" /\ t.struct = FromFirst(u.struct, Len(u.strings) + 1)
      /\ t.offStruct = u.offStruct /\ t.offStrings = StructTop(u) /\ t.sizeStrings = u.sizeStrings
      /\ t.total = StructTop(u) + u.sizeStrings /\ t.rsv = u.rsv /\ t.offRsv = u.offRsv
      /\ t.strings = u.strings
  BY <1>1 DEF WriterBlobs, Closed
<1> HIDE DEF t
<1>7. Apart(t)
  BY <1>1, <1>2, <1>3, <1>4, <1>6 DEF Apart
<1>8. Modes(t)
  BY <1>6 DEF Modes
<1>9. t.offStrings = t.offStruct + Len(t.struct) /\ t.total = t.offStrings + t.sizeStrings
  BY <1>3, <1>4, <1>6
<1> USE DEF t
<1> QED
  BY <1>5, <1>6, <1>7, <1>8, <1>9 DEF Sound

(* What grab_space leaves of the rest of the blob.                         *)
LEMMA GrabKeeps ==
  ASSUME NEW v, Sound(v), NEW words
  PROVE  LET u == GrabSpace(v, words).t
         IN  /\ u.magic = v.magic /\ u.rsv = v.rsv /\ u.offRsv = v.offRsv
             /\ u.offStruct = v.offStruct /\ u.strings = v.strings /\ u.sizeStrings = v.sizeStrings
             /\ u.offStrings = v.offStrings /\ u.total = v.total
<1>1. GrabSpace(v, words).t \in {v, [v EXCEPT !.struct = v.struct \o words]}
  BY DEF GrabSpace, Ok, Fail
<1> QED
  BY <1>1 DEF Sound, WriterBlobs

LEMMA FinishIs ==
  ASSUME NEW v, Sound(v), SwProbeStruct(v) = 0
  PROVE  LET r == GrabSpace(v, <<Tag("end")>>)
         IN  /\ FdtFinish(v) = IF r.ret # 0 THEN r ELSE Ok(Closed(r.t))
             /\ Safe(v, r)
             /\ r.t.magic = "sw"
<1> DEFINE r == GrabSpace(v, <<Tag("end")>>)
<1>1. <<Tag("end")>> \in Seq(WordSet)
  BY TagSeq DEF Tags
<1>2. Safe(v, r)
  BY <1>1, GrabSafe
<1>3. r.t.magic = "sw"
  BY InStruct, GrabKeeps
<1>4. FdtFinish(v) = IF r.ret # 0 THEN r ELSE Ok(Closed(r.t))
  BY DEF FdtFinish, If, Closed
<1> QED
  BY <1>2, <1>3, <1>4

LEMMA FinishSafe == ASSUME NEW v, Sound(v) PROVE Safe(v, FdtFinish(v))
<1> DEFINE r == GrabSpace(v, <<Tag("end")>>)
<1>1. CASE SwProbeStruct(v) # 0
  BY <1>1, FailSafe, Probes DEF FdtFinish, If
<1>2. CASE SwProbeStruct(v) = 0
  <2>1. /\ FdtFinish(v) = IF r.ret # 0 THEN r ELSE Ok(Closed(r.t))
        /\ Safe(v, r) /\ r.t.magic = "sw"
    BY <1>2, FinishIs
  <2>2. r.ret = 0 => Sound(Closed(r.t))
    BY <2>1, ClosedSound DEF Safe
  <2> HIDE DEF r
  <2> QED
    BY <2>1, <2>2 DEF Safe, Ok
<1> QED
  BY <1>1, <1>2

-----------------------------------------------------------------------------
(* The empty tree: one call after the other, as long as they succeed.      *)
LEMMA SumEmpty == SumWords(<<>>) = 0
<1> DEFINE F(f) == [i \in 0 .. Len(<<>>) |-> IF i = 0 THEN 0 ELSE f[i - 1] + StringWords[<<>>[i]]]
           sum  == CHOOSE f : f = F(f)
           zero == [i \in 0 .. Len(<<>>) |-> 0]
<1>1. Len(<<>>) = 0 /\ \A i \in 0 .. Len(<<>>) : i = 0
  OBVIOUS
<1>2. zero = F(zero)
  BY <1>1
<1>3. sum = F(sum)
  BY <1>2
<1>4. F(sum)[0] = 0
  BY <1>1
<1>5. SumWords(<<>>) = sum[Len(<<>>)]
  BY DEF SumWords
<1> HIDE DEF F, sum
<1>6. sum[0] = 0
  BY <1>3, <1>4
<1> QED
  BY <1>1, <1>5, <1>6

(* No strings yet, and a reserve map that is open or only its terminator.  *)
Opening(t) == /\ t.rsv = <<>> /\ t.offRsv = HeaderWords /\ t.offStruct = HeaderWords
              /\ t.strings = <<>> /\ t.sizeStrings = 0
Plain(t)   == /\ t.rsv = <<0>> /\ t.offRsv = HeaderWords /\ t.offStruct = HeaderWords + RsvWords
              /\ t.strings = <<>> /\ t.sizeStrings = 0

LEMMA CreateOpens == ASSUME NEW v, NEW size, FdtCreate(v, size, "none").ret = 0
                     PROVE  Opening(FdtCreate(v, size, "none").t)
<1>1. FdtCreate(v, size, "none").t
        = [Garbage EXCEPT !.magic = "sw", !.flags = "none", !.total = size,
                          !.offRsv = HeaderWords, !.offStruct = HeaderWords]
  BY DEF FdtCreate, Ok, Fail, NOSPACE
<1> QED
  BY <1>1 DEF Opening, Garbage

LEMMA FinishRsvPlain == ASSUME NEW v, Sound(v), Opening(v), FdtFinishReservemap(v).ret = 0
                        PROVE  Plain(FdtFinishReservemap(v).t)
<1> DEFINE r == FdtAddReservemapEntry(v, 0)
           u == [v EXCEPT !.rsv = Append(v.rsv, 0), !.offStruct = v.offStruct + RsvWords]
           t == [u EXCEPT !.offStrings = u.total]
<1>1. r.ret = 0 /\ FdtFinishReservemap(v).t = [r.t EXCEPT !.offStrings = r.t.total]
  BY DEF FdtFinishReservemap, Ok
<1>2. r.t = u
  BY <1>1 DEF FdtAddReservemapEntry, If, Ok, Fail, NOSPACE
<1>3. /\ t.rsv = Append(v.rsv, 0) /\ t.offRsv = v.offRsv /\ t.offStruct = v.offStruct + RsvWords
      /\ t.strings = v.strings /\ t.sizeStrings = v.sizeStrings
  BY DEF Sound, WriterBlobs
<1>4. Append(v.rsv, 0) = <<0>>
  BY DEF Opening
<1> QED
  BY <1>1, <1>2, <1>3, <1>4 DEF Plain, Opening

LEMMA GrabPlain == ASSUME NEW v, Sound(v), Plain(v), NEW words
                   PROVE  Plain(GrabSpace(v, words).t)
  BY GrabKeeps DEF Plain

LEMMA FinishPlain ==
  ASSUME NEW v, Sound(v), Plain(v), FdtFinish(v).ret = 0
  PROVE  /\ Plain(FdtFinish(v).t)
         /\ FdtFinish(v).t.offStrings = FdtFinish(v).t.offStruct + Len(FdtFinish(v).t.struct)
         /\ FdtFinish(v).t.total = FdtFinish(v).t.offStrings + FdtFinish(v).t.sizeStrings
         /\ FdtFinish(v).t.magic = "fdt"
<1> DEFINE r == GrabSpace(v, <<Tag("end")>>)
<1>1. SwProbeStruct(v) = 0
  BY DEF FdtFinish, If, Fail
<1>2. FdtFinish(v) = (IF r.ret # 0 THEN r ELSE Ok(Closed(r.t))) /\ Safe(v, r) /\ r.t.magic = "sw"
  BY <1>1, FinishIs
<1>3. Plain(r.t)
  BY GrabPlain
<1> HIDE DEF r
<1>4. FdtFinish(v).t = Closed(r.t) /\ Sound(r.t)
  BY <1>2 DEF Ok, Safe
<1> QED
  BY <1>2, <1>3, <1>4, ClosedSound DEF Plain

(* Its blocks are in order, so that opening it only makes it larger.       *)
LEMMA OpenIs ==
  ASSUME NEW v, Sound(v), Plain(v), NEW size \in Nat,
         v.offStrings = v.offStruct + Len(v.struct), v.total = v.offStrings + v.sizeStrings
  PROVE  FdtOpenInto(v, size, FALSE) = IF v.total > size THEN Fail(NOSPACE, v)
                                       ELSE Ok([v EXCEPT !.total = size])
<1>1. NumRsv(v) = 0
  <2> DEFINE Last(n) == v.rsv[n + 1] = 0 /\ \A i \in 1 .. n : v.rsv[i] # 0
             S       == 0 .. Len(v.rsv) - 1
  <2>1. v.rsv = <<0>> /\ Len(v.rsv) = 1 /\ v.rsv[1] = 0
    BY DEF Plain
  <2>2. S = {0}
    BY <2>1
  <2>3. Last(0)
    BY <2>1
  <2>4. NumRsv(v) = CHOOSE n \in S : Last(n)
    BY DEF NumRsv
  <2> HIDE DEF S, Last
  <2> QED
    BY <2>2, <2>3, <2>4
<1>2. StringsEnd(v) = v.offStrings
  <2>1. v.strings = <<>>
    BY DEF Plain
  <2>2. SumWords(v.strings) = 0
    BY <2>1, SumEmpty
  <2>3. v.offStrings \in Nat
    BY DEF Sound, WriterBlobs
  <2> QED
    BY <2>1, <2>2, <2>3 DEF StringsEnd
<1>3. v.offStrings \in Nat /\ Len(v.struct) \in Nat
  <2>1. v.struct \in Seq(WordSet) /\ v.offStrings \in Nat
    BY DEF Sound, WriterBlobs
  <2> QED
    BY <2>1, LenProperties
<1>4. v.offRsv = HeaderWords /\ v.offStruct = HeaderWords + RsvWords /\ v.sizeStrings = 0
  BY DEF Plain
<1>5. ~Misordered(v, RsvWords * (NumRsv(v) + 1))
  BY <1>1, <1>2, <1>3, <1>4 DEF Misordered, HeaderWords, RsvWords
<1> QED
  BY <1>5 DEF FdtOpenInto

LEMMA OpenSound ==
  ASSUME NEW v, Sound(v), Plain(v), NEW size \in Nat, v.magic = "fdt",
         v.offStrings = v.offStruct + Len(v.struct), v.total = v.offStrings + v.sizeStrings
  PROVE  Sound(FdtOpenInto(v, size, FALSE).t)
<1> DEFINE t == [v EXCEPT !.total = size]
<1>1. FdtOpenInto(v, size, FALSE).t = IF v.total > size THEN v ELSE t
  <2>1. FdtOpenInto(v, size, FALSE) = IF v.total > size THEN Fail(NOSPACE, v) ELSE Ok(t)
    BY OpenIs
  <2> HIDE DEF t
  <2>2. Fail(NOSPACE, v).t = v /\ Ok(t).t = t
    BY DEF Ok, Fail
  <2>3. CASE v.total > size
    BY <2>1, <2>2, <2>3
  <2>4. CASE ~(v.total > size)
    BY <2>1, <2>2, <2>4
  <2> QED
    BY <2>3, <2>4
<1>2. CASE v.total > size
  BY <1>1, <1>2
<1>3. CASE ~(v.total > size)
  <2>1. t \in WriterBlobs
    BY DEF Sound, WriterBlobs
  <2>2. /\ t.magic = "fdt" /\ t.struct = v.struct /\ t.total = size /\ t.offStruct = v.offStruct
        /\ t.sizeStrings = v.sizeStrings
    BY DEF Sound, WriterBlobs
  <2>3. /\ v.total \in Nat /\ HeaderWords <= v.offStruct
        /\ v.offStruct + Len(v.struct) + v.sizeStrings <= v.total
    BY DEF Sound, WriterBlobs, Apart
  <2>4. v.offStruct + Len(v.struct) + v.sizeStrings = v.total
    OBVIOUS
  <2> HIDE DEF t
  <2>5. Apart(t)
    BY <1>3, <2>2, <2>3, <2>4 DEF Apart
  <2>6. Modes(t)
    BY <2>2 DEF Modes
  <2> QED
    BY <1>1, <1>3, <2>1, <2>5, <2>6 DEF Sound
<1> QED
  BY <1>2, <1>3

LEMMA NodePlain ==
  ASSUME NEW v, Sound(v), Plain(v), NEW name
  PROVE  /\ FdtBeginNode(v, name).ret = 0 => Plain(FdtBeginNode(v, name).t)
         /\ FdtEndNode(v).ret = 0 => Plain(FdtEndNode(v).t)
  BY GrabPlain DEF FdtBeginNode, FdtEndNode, If, Fail

LEMMA EmptyTreeSound == ASSUME NEW v, Sound(v), NEW size \in Nat
                        PROVE  /\ Sound(FdtCreateEmptyTree(v, size, Root).t)
                               /\ FdtCreateEmptyTree(v, size, Root).ret \in Int
<1> DEFINE r1 == FdtCreate(v, size, "none")
           r2 == FdtFinishReservemap(r1.t)
           r3 == FdtBeginNode(r2.t, Root)
           r4 == FdtEndNode(r3.t)
           r5 == FdtFinish(r4.t)
           r6 == FdtOpenInto(r5.t, size, FALSE)
<1>1. FdtCreateEmptyTree(v, size, Root)
        = IF r1.ret # 0 THEN r1 ELSE IF r2.ret # 0 THEN r2 ELSE IF r3.ret # 0 THEN r3
          ELSE IF r4.ret # 0 THEN r4 ELSE IF r5.ret # 0 THEN r5 ELSE r6
  BY DEF FdtCreateEmptyTree
<1>2. Sound(r1.t) /\ r1.ret \in Int /\ (r1.ret = 0 => Opening(r1.t))
  BY CreateSafe, CreateOpens DEF Safe
<1> HIDE DEF r1
<1>3. Sound(r2.t) /\ r2.ret \in Int /\ (r1.ret = 0 /\ r2.ret = 0 => Plain(r2.t))
  BY <1>2, FinishRsvSafe, FinishRsvPlain DEF Safe
<1> HIDE DEF r2
<1>4. Sound(r3.t) /\ r3.ret \in Int /\ (r1.ret = 0 /\ r2.ret = 0 /\ r3.ret = 0 => Plain(r3.t))
  BY <1>3, BeginNodeSafe, NodePlain, WriterAssumption DEF Safe
<1> HIDE DEF r3
<1>5. Sound(r4.t) /\ r4.ret \in Int /\ (r1.ret = 0 /\ r2.ret = 0 /\ r3.ret = 0 /\ r4.ret = 0 => Plain(r4.t))
  BY <1>4, EndNodeSafe, NodePlain DEF Safe
<1> HIDE DEF r4
<1>6. Sound(r5.t) /\ r5.ret \in Int
  BY <1>5, FinishSafe DEF Safe
<1>7. ASSUME r1.ret = 0, r2.ret = 0, r3.ret = 0, r4.ret = 0, r5.ret = 0 PROVE Sound(r6.t)
  <2>1. /\ Plain(r5.t) /\ r5.t.magic = "fdt"
        /\ r5.t.offStrings = r5.t.offStruct + Len(r5.t.struct)
        /\ r5.t.total = r5.t.offStrings + r5.t.sizeStrings
    BY <1>5, <1>7, FinishPlain
  <2> HIDE DEF r5
  <2> QED
    BY <1>6, <2>1, OpenSound
<1>8. r6.ret \in Int
  BY ErrorCodes DEF FdtOpenInto, Ok, Fail
<1> HIDE DEF r5, r6
<1> QED
  BY <1>1, <1>2, <1>3, <1>4, <1>5, <1>6, <1>7, <1>8

-----------------------------------------------------------------------------
LEMMA CallSafe == ASSUME NEW r, Safe(w, r), Do(r)
                  PROVE  Sound(w') /\ ret' \in Int /\ (ret' # 0 => w' = w)
  BY DEF Safe, Do, Sound, Apart, Modes

LEMMA NextSafe == ASSUME Sound(w), Next
                  PROVE  /\ Sound(w') /\ ret' \in Int
                         /\ (ret' # 0 /\ w.magic # "none") => w' = w
<1> USE DEF Call, Step
<1>1. CASE Create
  BY <1>1, CreateSafe, CallSafe, WriterAssumption DEF Create
<1>2. CASE ResizeBuffer
  BY <1>2, ResizeSafe, CallSafe, WriterAssumption DEF ResizeBuffer
<1>3. CASE Move
  BY <1>3, MoveSafe, CallSafe, WriterAssumption DEF Move
<1>4. CASE AddRsv
  BY <1>4, AddRsvSafe, CallSafe, WriterAssumption DEF AddRsv
<1>5. CASE FinishRsv
  BY <1>5, FinishRsvSafe, CallSafe DEF FinishRsv
<1>6. CASE BeginNode
  BY <1>6, BeginNodeSafe, CallSafe DEF BeginNode
<1>7. CASE Property
  <2>1. PICK x \in PropMenu : Do(FdtProperty(w, x[2], x[3]))
    BY <1>7 DEF Property
  <2>2. x[2] \in PropNames /\ x[3] \in Seq(Words)
    BY WriterAssumption
  <2> QED
    BY <2>1, <2>2, PropertySafe, CallSafe
<1>8. CASE EndNode
  BY <1>8, EndNodeSafe, CallSafe DEF EndNode
<1>9. CASE Finish
  BY <1>9, FinishSafe, CallSafe DEF Finish
<1>10. CASE Early
  <2>1. CASE Call(FdtBeginNode(w, Root))
    BY <2>1, BeginNodeSafe, CallSafe, WriterAssumption
  <2>2. CASE Call(FdtEndNode(w))
    BY <2>2, EndNodeSafe, CallSafe
  <2>3. CASE \E x \in PropMenu : Call(FdtProperty(w, x[2], x[3]))
    <3>1. PICK x \in PropMenu : Do(FdtProperty(w, x[2], x[3]))
      BY <2>3
    <3>2. x[2] \in PropNames /\ x[3] \in Seq(Words)
      BY WriterAssumption
    <3> QED
      BY <3>1, <3>2, PropertySafe, CallSafe
  <2>4. CASE Call(FdtFinish(w))
    BY <2>4, FinishSafe, CallSafe
  <2> QED
    BY <1>10, <2>1, <2>2, <2>3, <2>4 DEF Early
<1>11. CASE CreateEmptyTree
  <2>1. PICK size \in Sizes : w.magic = "none" /\ Do(FdtCreateEmptyTree(w, size, Root))
    BY <1>11 DEF CreateEmptyTree
  <2>2. Sound(FdtCreateEmptyTree(w, size, Root).t) /\ FdtCreateEmptyTree(w, size, Root).ret \in Int
    BY EmptyTreeSound, WriterAssumption
  <2>3. w' = FdtCreateEmptyTree(w, size, Root).t /\ ret' = FdtCreateEmptyTree(w, size, Root).ret
    BY <2>1 DEF Do
  <2> QED
    BY <2>1, <2>2, <2>3
<1> QED
  BY <1>1, <1>2, <1>3, <1>4, <1>5, <1>6, <1>7, <1>8, <1>9, <1>10, <1>11 DEF Next

(* The nodes that are open.                                                *)
Nesting == open \in Seq(NodeNames) /\ props \in BOOLEAN

LEMMA NextNests == ASSUME Nesting, Next PROVE Nesting'
<1>1. <<>> \in Seq(NodeNames) /\ \A name \in NodeNames : Append(open, name) \in Seq(NodeNames)
  BY DEF Nesting
<1>2. open # <<>> => SubSeq(open, 1, Len(open) - 1) \in Seq(NodeNames)
  <2>1. Len(open) \in Nat /\ Len(open) - 1 <= Len(open)
    BY LenProperties DEF Nesting
  <2>2. open # <<>> => Len(open) - 1 \in 0 .. Len(open)
    BY <2>1, EmptySeq DEF Nesting
  <2> QED
    BY <2>2, SubSeqProperties DEF Nesting
<1>3. open' \in {open, <<>>, SubSeq(open, 1, Len(open) - 1)} \cup {Append(open, name) : name \in NodeNames}
  BY DEF Next, Create, ResizeBuffer, Move, AddRsv, FinishRsv, BeginNode, Property, EndNode, Finish,
         Early, CreateEmptyTree, Call, Step
<1>4. open' = SubSeq(open, 1, Len(open) - 1) => open # <<>> \/ open' \in {open, <<>>}
  BY DEF Nesting
<1>5. props' \in {props, TRUE, FALSE}
  BY DEF Next, Create, ResizeBuffer, Move, AddRsv, FinishRsv, BeginNode, Property, EndNode, Finish,
         Early, CreateEmptyTree, Call, Step
<1> QED
  BY <1>1, <1>2, <1>3, <1>4, <1>5 DEF Nesting

SoundBlob == Sound(w) /\ ret \in Int /\ Nesting

LEMMA InitSound == ASSUME Init PROVE SoundBlob
<1>1. w = Garbage /\ ret = 0 /\ open = <<>> /\ props = FALSE
  BY DEF Init
<1>2. Sound(w)
  BY <1>1, GarbageBlob DEF Sound, Apart, Modes
<1>3. Nesting
  <2>1. <<>> \in Seq(NodeNames)
    OBVIOUS
  <2> QED
    BY <1>1, <2>1 DEF Nesting
<1> QED
  BY <1>1, <1>2, <1>3 DEF SoundBlob

LEMMA StepSound == ASSUME SoundBlob, [Next]_wvars PROVE SoundBlob'
<1>1. CASE Next
  BY <1>1, NextSafe, NextNests DEF SoundBlob
<1>2. CASE UNCHANGED wvars
  BY <1>2 DEF wvars, SoundBlob, Nesting, Sound, Apart, Modes
<1> QED
  BY <1>1, <1>2

(* The inductive invariant: the blob is sound at every moment.             *)
THEOREM WriterInvariant == Spec => []SoundBlob
  BY InitSound, StepSound, PTL DEF Spec

(* Every variable keeps its type.                                          *)
THEOREM WriterTypeCorrect == Spec => []TypeOK
<1>1. SoundBlob => TypeOK
  BY DEF SoundBlob, Nesting, Sound, WriterBlobs, TypeOK
<1> QED
  BY <1>1, WriterInvariant, PTL

(* Whatever is called, in whatever order and with whatever space: header,  *)
(* structure and strings stay apart in the buffer (fdt_sw.c:94-107,        *)
(* 250-266).                                                               *)
THEOREM NeverMeetAlways == Spec => []NeverMeet
<1>1. SoundBlob => NeverMeet
  BY DEF SoundBlob, Sound, Apart, Modes, NeverMeet, StructTop
<1> QED
  BY <1>1, WriterInvariant, PTL

(* A call that fails leaves the blob as it was, a property that had added  *)
(* its string already included (fdt_sw.c:311-316).                         *)
THEOREM FailuresChangeNothing == Spec => FailedCallChangesNothing
<1>1. SoundBlob /\ [Next]_wvars => [(ret' < 0 /\ w.magic # "none") => w' = w]_wvars
  BY NextSafe DEF SoundBlob, wvars
<1> QED
  BY <1>1, WriterInvariant, PTL DEF Spec, FailedCallChangesNothing

-----------------------------------------------------------------------------
(* When the words of a call do not fit.                                    *)
LEMMA GrabFull ==
  ASSUME NEW v, Sound(v), v.magic # "none", NEW words \in Seq(WordSet)
  PROVE  GrabSpace(v, words).ret = NOSPACE
           <=> Len(words) > v.total - StructTop(v) - v.sizeStrings
<1>1. /\ v.struct \in Seq(WordSet) /\ v.offStruct \in Nat /\ v.sizeStrings \in Nat /\ v.total \in Nat
  BY DEF Sound, WriterBlobs
<1>2. Len(v.struct) \in Nat /\ Len(words) \in Nat
  BY <1>1, LenProperties
<1>3. GrabSpace(v, words).ret = NOSPACE
        <=> Len(v.struct) + Len(words) > v.total - v.offStruct - v.sizeStrings
  BY DEF GrabSpace, Ok, Fail, NOSPACE
<1> QED
  BY <1>1, <1>2, <1>3 DEF StructTop

LEMMA CountedTwice == ASSUME NEW a \in Int, NEW b \in Int, NEW c \in Int, NEW n \in Int, NEW k \in Int
                      PROVE  n + k > a - b - c <=> k > a - b - (c + n)
  OBVIOUS

LEMMA TooFull == ASSUME NEW a \in Nat, NEW b \in Nat, NEW c \in Nat, NEW n \in Nat, NEW k \in Nat,
                        a - (c + n) < b
                 PROVE  n + 3 + k > a - b - c
  OBVIOUS

LEMMA PropertyFull ==
  ASSUME Sound(w), SwProbeStruct(w) = 0, NEW name \in PropNames, NEW val \in Seq(Words)
  PROVE  FdtProperty(w, name, val).ret = NOSPACE <=> NewString(name) + 3 + Len(val) > RoomLeft
<1> DEFINE str   == NameFor(w, name)
           words == PropWords(str.ret, val)
           g     == GrabSpace(str.t, words)
           found == {i \in DOMAIN w.strings : w.strings[i] = name}
           First == CHOOSE i \in found : \A j \in found : i <= j
           n     == StringWords[name]
<1>1. FdtProperty(w, name, val).ret = NOSPACE <=> str.ret = 0 \/ g.ret = NOSPACE
  BY DEF FdtProperty, If, Fail, GrabSpace, Ok, NOSPACE
<1>2. /\ w.struct \in Seq(WordSet) /\ w.strings \in Seq(PropNames) /\ w.offStruct \in Nat
      /\ w.sizeStrings \in Nat /\ w.total \in Nat /\ HeaderWords <= w.offStruct
      /\ w.flags \in {"none", "no name dedup"} /\ w.magic = "sw"
      /\ w.offStruct + Len(w.struct) + w.sizeStrings <= w.total
  BY InStruct DEF Sound, WriterBlobs, Apart
<1>3. Len(w.struct) \in Nat /\ Len(w.strings) \in Nat /\ Len(val) \in Nat
      /\ DOMAIN w.strings = 1 .. Len(w.strings)
  BY <1>2, LenProperties
<1>4. n \in Nat /\ n <= HeaderWords
  BY FdtAssumption, SwAssumption
<1>5. \A i \in Int : PropWords(i, val) \in Seq(WordSet) /\ Len(PropWords(i, val)) = 3 + Len(val)
  BY PropSeq
<1>6. /\ w.offStruct \in Nat /\ w.sizeStrings \in Nat /\ w.total \in Nat /\ Len(w.struct) \in Nat
      /\ n \in Nat /\ n <= 10 /\ 10 <= w.offStruct /\ Len(val) \in Nat
      /\ w.offStruct + Len(w.struct) + w.sizeStrings <= w.total
      /\ StructTop(w) = w.offStruct + Len(w.struct)
  BY <1>2, <1>3, <1>4 DEF HeaderWords, StructTop
<1>7. CASE found # {} /\ w.flags = "none"
  <2>1. NewString(name) = 0
    BY <1>7 DEF NewString
  <2>2. First \in found
    <3>1. found \subseteq Nat
      BY <1>3
    <3>2. \E i \in found : \A j \in found : i <= j
      BY <1>7, <3>1, LeastNat
    <3> QED
      BY <3>2
  <2>3. First \in 1 .. Len(w.strings)
    BY <1>3, <2>2
  <2>4. str = [ret |-> First - (Len(w.strings) + 1), t |-> w]
    BY <1>7 DEF NameFor, FindOrAddString
  <2> HIDE DEF First
  <2>5. str.ret \in Int /\ str.ret # 0 /\ str.t = w
    BY <1>3, <2>3, <2>4
  <2> HIDE DEF str
  <2>6. g.ret = NOSPACE <=> 3 + Len(val) > w.total - StructTop(w) - w.sizeStrings
    BY <1>2, <1>5, <2>5, GrabFull
  <2> HIDE DEF g
  <2> QED
    BY <1>1, <1>3, <2>1, <2>5, <2>6 DEF RoomLeft
<1>8. CASE ~(found # {} /\ w.flags = "none")
  <2>1. NewString(name) = n
    BY <1>8 DEF NewString
  <2>2. str = AddString(w, name)
    BY <1>2, <1>8 DEF NameFor, FindOrAddString
  <2> DEFINE left == w.total - (w.sizeStrings + n)
             t    == [w EXCEPT !.strings = <<name>> \o w.strings, !.sizeStrings = w.sizeStrings + n]
  <2>3. left >= 0
    <3> HIDE DEF n, str, g, words, found, First, t
    <3> QED
      BY <1>6
  <2>4. CASE left < StructTop(w)
    <3>1. str.ret = 0
      BY <2>2, <2>3, <2>4 DEF AddString
    <3>2. n + 3 + Len(val) > RoomLeft
      <4>1. StructTop(w) \in Nat /\ w.total \in Nat /\ w.sizeStrings \in Nat /\ n \in Nat
        BY <1>6
      <4>2. Len(val) \in Nat /\ w.total - (w.sizeStrings + n) < StructTop(w)
        BY <1>6, <2>4
      <4> HIDE DEF n, str, g, words, found, First, t
      <4> QED
        BY <4>1, <4>2, TooFull DEF RoomLeft
    <3> QED
      BY <1>1, <2>1, <3>1, <3>2
  <2>5. CASE ~(left < StructTop(w))
    <3>1. str = [ret |-> -(Len(w.strings) + 1), t |-> t]
      BY <2>2, <2>5 DEF AddString
    <3>2. str.ret \in Int /\ str.ret # 0 /\ str.t = t
      BY <1>3, <3>1
    <3>3. Sound(t)
      BY <2>2, <3>2, AddStringSound
    <3>4. /\ t.magic = "sw" /\ t.total = w.total /\ t.sizeStrings = w.sizeStrings + n
          /\ StructTop(t) = StructTop(w)
      BY <1>2 DEF Sound, WriterBlobs, StructTop
    <3> HIDE DEF str, t
    <3>5. g.ret = NOSPACE <=> 3 + Len(val) > w.total - StructTop(w) - (w.sizeStrings + n)
      BY <1>5, <3>2, <3>3, <3>4, GrabFull
    <3> HIDE DEF g, n, words, found, First
    <3>6. n + 3 + Len(val) > RoomLeft
            <=> 3 + Len(val) > w.total - StructTop(w) - (w.sizeStrings + n)
      <4>1. StructTop(w) \in Int /\ 3 + Len(val) \in Int /\ n + 3 + Len(val) = n + (3 + Len(val))
        BY <1>6
      <4>2. w.total \in Int /\ w.sizeStrings \in Int /\ n \in Int
        BY <1>6
      <4> HIDE DEF left
      <4> QED
        BY SMTT(30), <4>1, <4>2, CountedTwice DEF RoomLeft
    <3> QED
      BY <1>1, <2>1, <3>2, <3>5, <3>6
  <2> QED
    BY <2>4, <2>5
<1> QED
  BY <1>7, <1>8

LEMMA FinishFull == ASSUME Sound(w), SwProbeStruct(w) = 0
                    PROVE  FdtFinish(w).ret = NOSPACE <=> RoomLeft < 1
<1> DEFINE r == GrabSpace(w, <<Tag("end")>>)
<1>1. w.magic # "none"
  BY InStruct
<1>2. FdtFinish(w).ret = NOSPACE <=> r.ret = NOSPACE
  BY FinishIs DEF Ok, NOSPACE
<1>3. <<Tag("end")>> \in Seq(WordSet) /\ Len(<<Tag("end")>>) = 1
  BY TagSeq DEF Tags
<1>4. r.ret = NOSPACE <=> 1 > w.total - StructTop(w) - w.sizeStrings
  BY <1>1, <1>3, GrabFull
<1> HIDE DEF r
<1>5. w.total - StructTop(w) - w.sizeStrings \in Int
  <2>1. w.struct \in Seq(WordSet) /\ w.offStruct \in Nat /\ w.total \in Nat /\ w.sizeStrings \in Nat
    BY DEF Sound, WriterBlobs
  <2>2. Len(w.struct) \in Nat
    BY <2>1, LenProperties
  <2> QED
    BY <2>1, <2>2 DEF StructTop
<1> QED
  BY <1>2, <1>4, <1>5 DEF RoomLeft

LEMMA BeginFull == ASSUME Sound(w), SwProbeStruct(w) = 0, NEW name \in NodeNames
                   PROVE  FdtBeginNode(w, name).ret = NOSPACE <=> NameWords[name] + 1 > RoomLeft
<1> DEFINE words == <<Tag("begin")>> \o NameOf(name)
<1>1. w.magic # "none"
  BY InStruct
<1>2. words \in Seq(WordSet) /\ Len(words) = NameWords[name] + 1
  BY BeginWords
<1> HIDE DEF words
<1>3. GrabSpace(w, words).ret = NOSPACE <=> NameWords[name] + 1 > w.total - StructTop(w) - w.sizeStrings
  BY <1>1, <1>2, GrabFull
<1>4. FdtBeginNode(w, name) = GrabSpace(w, words)
  BY DEF FdtBeginNode, If, words
<1> QED
  BY <1>3, <1>4 DEF RoomLeft

(* A call is refused for want of space exactly when the words it would add,*)
(* the string of a new name among them, are more than the buffer has left  *)
(* (fdt_sw.c:94-107, 250-266, 293-323).                                    *)
THEOREM NoSpaceMeansFullAlways == Spec => []NoSpaceMeansFull
<1>1. ASSUME SoundBlob PROVE NoSpaceMeansFull
  <2> SUFFICES ASSUME SwProbeStruct(w) = 0
               PROVE  /\ \A name \in NodeNames :
                           FdtBeginNode(w, name).ret = NOSPACE <=> NameWords[name] + 1 > RoomLeft
                      /\ \A x \in PropMenu : FdtProperty(w, x[2], x[3]).ret = NOSPACE
                                               <=> NewString(x[2]) + 3 + Len(x[3]) > RoomLeft
                      /\ FdtFinish(w).ret = NOSPACE <=> RoomLeft < 1
    BY DEF NoSpaceMeansFull
  <2>1. Sound(w)
    BY <1>1 DEF SoundBlob
  <2>2. \A name \in NodeNames :
          FdtBeginNode(w, name).ret = NOSPACE <=> NameWords[name] + 1 > RoomLeft
    BY <2>1, BeginFull
  <2>3. ASSUME NEW x \in PropMenu
        PROVE  FdtProperty(w, x[2], x[3]).ret = NOSPACE
                 <=> NewString(x[2]) + 3 + Len(x[3]) > RoomLeft
    <3>1. x[2] \in PropNames /\ x[3] \in Seq(Words)
      BY WriterAssumption
    <3> QED
      BY <2>1, <3>1, PropertyFull
  <2>4. FdtFinish(w).ret = NOSPACE <=> RoomLeft < 1
    BY <2>1, FinishFull
  <2> QED
    BY <2>2, <2>3, <2>4
<1> QED
  BY <1>1, WriterInvariant, PTL

-----------------------------------------------------------------------------
(* The tree that the words written so far describe: what a program that    *)
(* reads the unfinished blob finds in it, and where the next word goes.    *)
Read(v) == [struct |-> FromFirst(v.struct, Len(v.strings) + 1), strings |-> v.strings]

Edge(v, o) == [off |-> Len(v.struct), path |-> IF o = <<>> THEN <<>> ELSE Tail(o),
               inTree |-> o # <<>>]

Means(t, m) == /\ MeaningOf(t, Visited(t)).nodes = m.nodes
               /\ MeaningOf(t, Visited(t)).props = m.props

Built(v, m, o) == /\ Edge(v, o) \in Visited(Read(v))
                  /\ Clean(Read(v))
                  /\ Means(Read(v), m)

Fixed(x, n) == IF x[1] = "nameoff" THEN NameOff(x[2] + n) ELSE x

LEMMA WordsLegible == ASSUME NEW s \in Seq(WordSet) PROVE Legible(s)
<1>1. Len(s) \in Nat
  BY LenProperties
<1>2. ASSUME NEW i \in 1 .. Len(s)
      PROVE  /\ s[i][1] = "name" => s[i][2] \in NodeNames
             /\ s[i][1] = "len" => s[i][2] \in Nat
  <2>1. s[i] \in WordSet
    BY <1>2, ElementOfSeq
  <2>2. ASSUME NEW x \in WordSet
        PROVE  (x[1] = "name" => x[2] \in NodeNames) /\ (x[1] = "len" => x[2] \in Nat)
    BY WriterAssumption DEF WordSet
  <2> QED
    BY <2>1, <2>2
<1> QED
  BY <1>1, <1>2 DEF Legible

LEMMA ReadIs ==
  ASSUME NEW v, Sound(v)
  PROVE  /\ Legible(Read(v).struct) /\ Len(Read(v).struct) = Len(v.struct)
         /\ Len(v.struct) \in Nat /\ Len(v.strings) \in Nat
         /\ DOMAIN v.strings = 1 .. Len(v.strings) /\ Read(v).strings = v.strings
         /\ \A i \in 1 .. Len(v.struct) : /\ v.struct[i] \in WordSet
                                          /\ Read(v).struct[i] = Fixed(v.struct[i], Len(v.strings) + 1)
<1>1. v.struct \in Seq(WordSet) /\ v.strings \in Seq(PropNames)
  BY DEF Sound, WriterBlobs
<1>2. /\ Len(v.struct) \in Nat /\ DOMAIN v.struct = 1 .. Len(v.struct)
      /\ Len(v.strings) \in Nat /\ DOMAIN v.strings = 1 .. Len(v.strings)
      /\ \A i \in 1 .. Len(v.struct) : v.struct[i] \in WordSet
  BY <1>1, LenProperties, ElementOfSeq
<1>3. Len(v.strings) + 1 \in Int
  BY <1>2
<1>4. /\ FromFirst(v.struct, Len(v.strings) + 1) \in Seq(WordSet)
      /\ Len(FromFirst(v.struct, Len(v.strings) + 1)) = Len(v.struct)
  BY <1>1, <1>3, FromFirstSeq
<1>5. \A i \in 1 .. Len(v.struct) : FromFirst(v.struct, Len(v.strings) + 1)[i]
                                      = Fixed(v.struct[i], Len(v.strings) + 1)
  BY <1>2 DEF FromFirst, Fixed
<1> QED
  BY <1>2, <1>4, <1>5, WordsLegible DEF Read

(* A word of the structure, and what is read when a string is added.       *)
LEMMA FixedAgain ==
  ASSUME NEW x \in WordSet, NEW n \in Int, NEW k \in Int
  PROVE  Fixed(x, n + k) = IF Fixed(x, n)[1] = "nameoff" THEN NameOff(Fixed(x, n)[2] + k)
                           ELSE Fixed(x, n)
<1>1. CASE x[1] = "nameoff"
  <2>1. x[2] \in Int
    BY <1>1, WriterAssumption DEF WordSet
  <2>2. x[2] + (n + k) = (x[2] + n) + k
    BY <2>1
  <2>3. Fixed(x, n)[1] = "nameoff" /\ Fixed(x, n)[2] = x[2] + n
    BY <1>1 DEF Fixed, NameOff
  <2>4. Fixed(x, n + k) = NameOff(x[2] + (n + k))
    BY <1>1 DEF Fixed
  <2> QED
    BY <2>2, <2>3, <2>4
<1>2. CASE x[1] # "nameoff"
  BY <1>2 DEF Fixed
<1> QED
  BY <1>1, <1>2

(* u is v with these words behind it and k strings in front of its strings.*)
Grown(v, u, words, k) ==
  /\ u.struct = v.struct \o words
  /\ Len(u.strings) = Len(v.strings) + k
  /\ \A j \in 1 .. Len(v.strings) : u.strings[j + k] = v.strings[j]

LEMMA ReadGrown ==
  ASSUME NEW v, NEW u, Sound(v), Sound(u), NEW words \in Seq(WordSet), NEW k \in Nat,
         Grown(v, u, words, k)
  PROVE  /\ Begun(Read(v), Read(u), k)
         /\ Len(Read(u).struct) = Len(v.struct) + Len(words) /\ Len(words) \in Nat
         /\ \A i \in 1 .. Len(words) :
              Read(u).struct[Len(v.struct) + i] = Fixed(words[i], Len(u.strings) + 1)
<1> DEFINE n == Len(v.struct)
           l == Len(words)
           a == Len(v.strings)
<1>1. /\ n \in Nat /\ a \in Nat /\ Len(Read(v).struct) = n /\ DOMAIN v.strings = 1 .. a
      /\ Read(v).strings = v.strings
      /\ \A i \in 1 .. n : v.struct[i] \in WordSet /\ Read(v).struct[i] = Fixed(v.struct[i], a + 1)
  BY ReadIs
<1>2. /\ Len(u.struct) \in Nat /\ Len(Read(u).struct) = Len(u.struct)
      /\ DOMAIN u.strings = 1 .. Len(u.strings) /\ Read(u).strings = u.strings
      /\ \A i \in 1 .. Len(u.struct) : Read(u).struct[i] = Fixed(u.struct[i], Len(u.strings) + 1)
  BY ReadIs
<1>3. v.struct \in Seq(WordSet)
  BY DEF Sound, WriterBlobs
<1>4. /\ l \in Nat /\ Len(u.struct) = n + l
      /\ \A i \in 1 .. n + l : u.struct[i] = IF i <= n THEN v.struct[i] ELSE words[i - n]
      /\ Len(u.strings) = a + k
  BY <1>3, ConcatProperties, LenProperties DEF Grown
<1> HIDE DEF n, l, a
<1>5. \A i \in 1 .. l : Read(u).struct[n + i] = Fixed(words[i], Len(u.strings) + 1)
  <2> SUFFICES ASSUME NEW i \in 1 .. l PROVE Read(u).struct[n + i] = Fixed(words[i], Len(u.strings) + 1)
    OBVIOUS
  <2>1. n + i \in 1 .. n + l /\ ~(n + i <= n) /\ (n + i) - n = i
    BY <1>1, <1>4
  <2> QED
    BY <1>2, <1>4, <2>1
<1>6. \A i \in 1 .. n : Read(u).struct[i] = Fixed(v.struct[i], (a + 1) + k)
  <2> SUFFICES ASSUME NEW i \in 1 .. n PROVE Read(u).struct[i] = Fixed(v.struct[i], (a + 1) + k)
    OBVIOUS
  <2>1. i \in 1 .. n + l /\ i <= n /\ (a + 1) + k = Len(u.strings) + 1
    BY <1>1, <1>4
  <2> QED
    BY <1>2, <1>4, <2>1
<1>7. \A i \in 1 .. n :
        Read(u).struct[i] = IF Read(v).struct[i][1] = "nameoff" THEN NameOff(Read(v).struct[i][2] + k)
                            ELSE Read(v).struct[i]
  <2> SUFFICES ASSUME NEW i \in 1 .. n
               PROVE  Read(u).struct[i] = IF Read(v).struct[i][1] = "nameoff"
                                            THEN NameOff(Read(v).struct[i][2] + k)
                                          ELSE Read(v).struct[i]
    OBVIOUS
  <2> DEFINE q == a + 1
             x == v.struct[i]
  <2>1. q \in Int /\ k \in Int /\ x \in WordSet
    BY <1>1
  <2>2. Read(u).struct[i] = Fixed(x, q + k) /\ Read(v).struct[i] = Fixed(x, q)
    BY <1>1, <1>6
  <2> HIDE DEF q, x
  <2> QED
    BY <2>1, <2>2, FixedAgain
<1>8. \A j \in DOMAIN v.strings : j + k \in DOMAIN u.strings /\ u.strings[j + k] = v.strings[j]
  <2>1. \A j \in 1 .. a : j + k \in 1 .. a + k
    BY <1>1
  <2> QED
    BY <1>1, <1>2, <1>4, <2>1 DEF Grown, a
<1>9. n <= n + l
  BY <1>1, <1>4
<1>10. Begun(Read(v), Read(u), k)
  BY ZenonT(60), <1>1, <1>2, <1>4, <1>7, <1>8, <1>9 DEF Begun
<1> QED
  BY <1>2, <1>4, <1>5, <1>10 DEF n, l

(* Tags whose words end where the structure ends.                          *)
LEMMA LastBegin ==
  ASSUME NEW s, NEW o \in Nat, NEW name \in NodeNames, s[o + 1] = Tag("begin"),
         s[o + 2] = Name(name), Len(s) = o + 1 + NameWords[name]
  PROVE  NextTag(s, o) = [tag |-> "begin", next |-> o + 1 + NameWords[name]]
<1>1. NameWords[name] \in Nat \ {0}
  BY FdtAssumption
<1> DEFINE b == o + 1 + NameWords[name]
<1>2. ~(o < 0 \/ o >= Len(s)) /\ o + 1 < Len(s) /\ ~(b < 0 \/ b > Len(s))
  <2> DEFINE x == NameWords[name]
  <2>1. x \in Nat \ {0} /\ Len(s) = o + 1 + x
    BY <1>1
  <2> HIDE DEF x
  <2>2. ~(o < 0 \/ o >= Len(s)) /\ o + 1 < Len(s) /\ ~(o + 1 + x < 0 \/ o + 1 + x > Len(s))
    BY <2>1
  <2> QED
    BY <2>2 DEF x
<1>3. s[o + 2][1] = "name" /\ s[o + 2][2] = name /\ Tag("begin")[2] = "begin"
  BY DEF Name, Tag
<1> QED
  BY <1>2, <1>3 DEF NextTag

LEMMA LastProp ==
  ASSUME NEW s, NEW o \in Nat, NEW k \in Nat, s[o + 1] = Tag("prop"),
         s[o + 2] = Length(k), Len(s) = o + 3 + k
  PROVE  NextTag(s, o) = [tag |-> "prop", next |-> o + 3 + k]
<1> DEFINE b == o + 3 + k
<1>2. ~(o < 0 \/ o >= Len(s)) /\ o + 1 < Len(s) /\ ~(b < 0 \/ b > Len(s))
  OBVIOUS
<1>3. s[o + 2][1] = "len" /\ s[o + 2][2] = k /\ Tag("prop")[2] = "prop" /\ Tag("prop") # Tag("begin")
  BY DEF Length, Tag
<1> QED
  BY <1>2, <1>3 DEF NextTag

LEMMA LastTag ==
  ASSUME NEW s, NEW o \in Nat, NEW x \in {"endnode", "end"}, s[o + 1] = Tag(x), Len(s) = o + 1
  PROVE  NextTag(s, o) = [tag |-> x, next |-> o + 1]
<1> DEFINE b == o + 1
<1>2. ~(o < 0 \/ o >= Len(s)) /\ ~(b < 0 \/ b > Len(s))
  OBVIOUS
<1>3. Tag(x) \in {Tag("endnode"), Tag("nop"), Tag("end")} /\ Tag(x)[2] = x
      /\ Tag(x) # Tag("begin") /\ Tag(x) # Tag("prop")
  BY DEF Tag
<1> QED
  BY <1>2, <1>3 DEF NextTag

(* The edge where a written tree ends.                                     *)
LEMMA EdgeIs ==
  ASSUME NEW v, Sound(v), NEW m, NEW o \in Seq(NodeNames), Built(v, m, o)
  PROVE  LET e == Edge(v, o)
         IN  /\ e \in Cursors /\ e \in Visited(Read(v)) /\ e.off = Len(v.struct)
             /\ e.off = Len(Read(v).struct) /\ e.off \in Nat
             /\ e.path = (IF o = <<>> THEN <<>> ELSE Tail(o)) /\ e.inTree = (o # <<>>)
             /\ Clean(Read(v)) /\ Means(Read(v), m)
<1>1. Edge(v, o) \in Visited(Read(v)) /\ Clean(Read(v)) /\ Means(Read(v), m)
  BY DEF Built
<1>2. Edge(v, o) \in Cursors
  BY <1>1, FromCursors DEF Visited
<1> QED
  BY <1>1, <1>2, ReadIs DEF Edge

(* Nothing is written yet.                                                 *)
LEMMA EmptyBuilt == ASSUME NEW v, Sound(v), v.struct = <<>> PROVE Built(v, Nothing, <<>>)
<1> DEFINE t == Read(v)
<1>1. Legible(t.struct) /\ Len(t.struct) = 0
  BY ReadIs
<1>2. Edge(v, <<>>) = Start
  BY DEF Edge, Start
<1>3. Start \in Cursors /\ Start.off = 0
  BY StartIs
<1> HIDE DEF t
<1>4. Stops(t, Start) /\ ~Begins(t, Start) /\ ~Carries(t, Start)
  BY <1>1, <1>3, AtEdge
<1>5. Visited(t) = {Start}
  BY <1>1, <1>3, <1>4, FromStop DEF Visited
<1>6. Means(t, Nothing)
  BY <1>4, <1>5 DEF Means, MeaningOf, Nothing
<1>7. Clean(t)
  BY <1>4, <1>5 DEF Clean, CleanAt
<1> QED
  BY <1>2, <1>5, <1>6, <1>7 DEF Built, t

(* One more step of the description: u has the words of it behind v.       *)
LEMMA StepBuilt ==
  ASSUME NEW v, NEW u, Sound(v), Sound(u), NEW words \in Seq(WordSet), NEW k \in Nat,
         Grown(v, u, words, k),
         NEW m, NEW o \in Seq(NodeNames), Built(v, m, o),
         NEW more \in Seq(NodeNames), Edge(u, more) = Hop(Read(u), Edge(v, o)),
         CleanAt(Read(u), Edge(v, o))
  PROVE  /\ Edge(u, more) \in Visited(Read(u)) /\ Clean(Read(u))
         /\ MeaningOf(Read(u), Visited(Read(u))).nodes
              = m.nodes \cup (IF Begins(Read(u), Edge(v, o)) THEN {Began(Read(u).struct, Edge(v, o))}
                              ELSE {})
         /\ MeaningOf(Read(u), Visited(Read(u))).props
              = m.props \cup (IF Carries(Read(u), Edge(v, o)) THEN {PropAt(Read(u), Edge(v, o))} ELSE {})
<1> DEFINE e == Edge(v, o)
           f == Edge(u, more)
           t == Read(v)
           r == Read(u)
<1>1. /\ e \in Cursors /\ e \in Visited(t) /\ e.off = Len(t.struct) /\ Clean(t) /\ Means(t, m)
  BY EdgeIs
<1>2. Legible(t.struct) /\ Legible(r.struct) /\ f.off = Len(r.struct)
  BY ReadIs DEF Edge
<1>3. Begun(t, r, k) /\ CleanAt(r, e) /\ f = Hop(r, e)
  BY ReadGrown
<1> HIDE DEF e, f, t, r
<1>4. f \in Cursors
  BY <1>1, <1>2, <1>3, HopOn
<1>5. Stops(r, f) /\ ~Begins(r, f) /\ ~Carries(r, f)
  BY <1>2, <1>4, AtEdge
<1>6. /\ f \in Visited(r) /\ Clean(r)
      /\ MeaningOf(r, Visited(r)).nodes
              = MeaningOf(t, Visited(t)).nodes \cup (IF Begins(r, e) THEN {Began(r.struct, e)} ELSE {})
      /\ MeaningOf(r, Visited(r)).props
              = MeaningOf(t, Visited(t)).props \cup (IF Carries(r, e) THEN {PropAt(r, e)} ELSE {})
  BY <1>1, <1>2, <1>3, <1>5, Grow
<1>7. MeaningOf(t, Visited(t)).nodes = m.nodes /\ MeaningOf(t, Visited(t)).props = m.props
  BY <1>1 DEF Means
<1> USE DEF e, f, t, r
<1> QED
  BY <1>6, <1>7

(* Paths of nodes that are opened and closed.                              *)
LEMMA Opened ==
  ASSUME NEW o \in Seq(NodeNames), NEW name \in NodeNames
  PROVE  /\ Append(o, name) \in Seq(NodeNames) /\ Append(o, name) # <<>>
         /\ o = <<>> => Tail(Append(o, name)) = <<>>
         /\ o # <<>> => Tail(Append(o, name)) = Append(Tail(o), name)
<1>1. Append(o, name) \in Seq(NodeNames) /\ Append(o, name) # <<>>
  <2>1. Append(o, name) \in Seq(NodeNames) /\ Len(Append(o, name)) = Len(o) + 1 /\ Len(o) \in Nat
    BY AppendProperties, LenProperties
  <2>2. Len(Append(o, name)) # 0
    BY <2>1
  <2> QED
    BY <2>1, <2>2, EmptySeq
<1>2. o = <<>> => Tail(Append(o, name)) = <<>>
  <2> SUFFICES ASSUME o = <<>> PROVE Tail(Append(o, name)) = <<>>
    OBVIOUS
  <2>1. Append(o, name) = <<name>>
    OBVIOUS
  <2> QED
    BY <2>1
<1>3. ASSUME o # <<>> PROVE Tail(Append(o, name)) = Append(Tail(o), name)
  <2> DEFINE a == Tail(Append(o, name))
             b == Append(Tail(o), name)
  <2>1. /\ Len(o) \in Nat \ {0} /\ Tail(o) \in Seq(NodeNames) /\ Len(Tail(o)) = Len(o) - 1
        /\ \A i \in 1 .. Len(o) - 1 : Tail(o)[i] = o[i + 1]
    BY <1>3, HeadTailProperties, EmptySeq
  <2>2. /\ Len(Append(o, name)) = Len(o) + 1 /\ Append(o, name)[Len(o) + 1] = name
        /\ \A i \in 1 .. Len(o) : Append(o, name)[i] = o[i]
    BY AppendProperties
  <2>3. /\ a \in Seq(NodeNames) /\ Len(a) = Len(o)
        /\ \A i \in 1 .. Len(o) : a[i] = Append(o, name)[i + 1]
    <3>1. /\ Tail(Append(o, name)) \in Seq(NodeNames)
          /\ Len(Tail(Append(o, name))) = Len(Append(o, name)) - 1
          /\ \A i \in 1 .. Len(Tail(Append(o, name))) : Tail(Append(o, name))[i] = Append(o, name)[i + 1]
      BY <1>1, HeadTailProperties
    <3> QED
      BY <2>1, <2>2, <3>1
  <2>4. /\ b \in Seq(NodeNames) /\ Len(b) = Len(o) /\ b[Len(o)] = name
        /\ \A i \in 1 .. Len(o) - 1 : b[i] = o[i + 1]
    BY <2>1, AppendProperties
  <2> HIDE DEF a, b
  <2>5. \A i \in 1 .. Len(a) : a[i] = b[i]
    <3> SUFFICES ASSUME NEW i \in 1 .. Len(o) PROVE a[i] = b[i]
      BY <2>3
    <3>1. CASE i = Len(o)
      BY <2>1, <2>2, <2>3, <2>4, <3>1
    <3>2. CASE i # Len(o)
      <4> DEFINE n == Len(o)
      <4>0. n \in Nat /\ i \in 1 .. n /\ i # n
        BY <2>1, <3>2
      <4> HIDE DEF n
      <4>2. i \in 1 .. n - 1 /\ i + 1 \in 1 .. n
        BY <4>0
      <4>1. i \in 1 .. Len(o) - 1 /\ i + 1 \in 1 .. Len(o)
        BY <4>2 DEF n
      <4> QED
        BY <2>2, <2>3, <2>4, <4>1
    <3> QED
      BY <3>1, <3>2
  <2>6. a = b
    BY <2>3, <2>4, <2>5, SeqEqual
  <2> QED
    BY <2>6 DEF a, b
<1> QED
  BY <1>1, <1>2, <1>3

LEMMA Closing ==
  ASSUME NEW o \in Seq(NodeNames), o # <<>>
  PROVE  LET front == SubSeq(o, 1, Len(o) - 1)
             p     == Tail(o)
         IN  /\ front \in Seq(NodeNames) /\ p \in Seq(NodeNames)
             /\ (front # <<>>) = (p # <<>>)
             /\ SubSeq(p, 1, Len(p) - 1) = IF front = <<>> THEN <<>> ELSE Tail(front)
<1> DEFINE n     == Len(o)
           front == SubSeq(o, 1, n - 1)
           p     == Tail(o)
           q     == SubSeq(p, 1, n - 2)
<1>1. /\ n \in Nat \ {0} /\ p \in Seq(NodeNames) /\ Len(p) = n - 1
      /\ \A i \in 1 .. n - 1 : p[i] = o[i + 1] /\ p[i] \in NodeNames
  <2>1. n \in Nat \ {0} /\ p \in Seq(NodeNames) /\ Len(p) = n - 1
        /\ \A i \in 1 .. n - 1 : p[i] = o[i + 1]
    BY HeadTailProperties, EmptySeq
  <2> HIDE DEF p, n
  <2> QED
    BY <2>1, ElementOfSeq
<1>2. \A i \in 1 .. n - 1 : o[i] \in NodeNames
  BY <1>1, ElementOfSeq
<1>3. /\ front \in Seq(NodeNames) /\ Len(front) = (IF 1 <= n - 1 THEN n - 1 ELSE 0)
      /\ \A i \in 1 .. n - 1 : front[i] = o[i]
  <2>1. /\ front \in Seq(NodeNames) /\ Len(front) = (IF 1 <= n - 1 THEN n - 1 - 1 + 1 ELSE 0)
        /\ \A i \in 1 .. n - 1 - 1 + 1 : front[i] = o[1 + i - 1]
    <3>1. 1 \in Int /\ n - 1 \in Int
      BY <1>1
    <3> QED
      BY <1>2, <3>1, SubSeqProperties
  <2> HIDE DEF front, n
  <2>2. n - 1 - 1 + 1 = n - 1 /\ \A i \in 1 .. n - 1 : 1 + i - 1 = i
    BY <1>1
  <2> QED
    BY <2>1, <2>2
<1>4. /\ q \in Seq(NodeNames) /\ Len(q) = (IF 1 <= n - 2 THEN n - 2 ELSE 0)
      /\ \A i \in 1 .. n - 2 : q[i] = p[i]
  <2>1. /\ q \in Seq(NodeNames) /\ Len(q) = (IF 1 <= n - 2 THEN n - 2 - 1 + 1 ELSE 0)
        /\ \A i \in 1 .. n - 2 - 1 + 1 : q[i] = p[1 + i - 1]
    <3>1. 1 \in Int /\ n - 2 \in Int /\ \A i \in 1 .. n - 2 : p[i] \in NodeNames
      BY <1>1
    <3> HIDE DEF p, n
    <3> QED
      BY <3>1, SubSeqProperties
  <2> HIDE DEF q, n, p
  <2>2. n - 2 - 1 + 1 = n - 2 /\ \A i \in 1 .. n - 2 : 1 + i - 1 = i
    BY <1>1
  <2> QED
    BY <2>1, <2>2
<1>5. Len(p) - 1 = n - 2
  <2> HIDE DEF p, n
  <2> QED
    BY <1>1
<1> HIDE DEF n, front, p, q
<1>6. (front # <<>>) = (n > 1) /\ (p # <<>>) = (n > 1)
  <2>1. \A s \in Seq(NodeNames) : (s # <<>>) = (Len(s) # 0)
    BY EmptySeq
  <2>2. (Len(front) # 0) = (n > 1) /\ (Len(p) # 0) = (n > 1)
    BY <1>1, <1>3
  <2> QED
    BY <1>1, <1>3, <2>1, <2>2
<1>7. CASE n > 1
  <2>1. /\ Tail(front) \in Seq(NodeNames) /\ Len(Tail(front)) = Len(front) - 1
        /\ \A i \in 1 .. Len(Tail(front)) : Tail(front)[i] = front[i + 1]
    BY <1>3, <1>6, <1>7, HeadTailProperties
  <2>2. Len(Tail(front)) = n - 2 /\ Len(q) = n - 2
    BY <1>1, <1>3, <1>4, <1>7, <2>1
  <2>3. \A i \in 1 .. n - 2 : q[i] = Tail(front)[i]
    <3> SUFFICES ASSUME NEW i \in 1 .. n - 2 PROVE q[i] = Tail(front)[i]
      OBVIOUS
    <3>1. i \in 1 .. n - 1 /\ i + 1 \in 1 .. n - 1
      BY <1>1
    <3> QED
      BY <1>1, <1>3, <1>4, <2>1, <2>2, <3>1
  <2>4. q = Tail(front)
    BY <1>4, <2>1, <2>2, <2>3, SeqEqual
  <2> QED
    BY <1>1, <1>3, <1>5, <1>6, <1>7, <2>4 DEF front, p, q, n
<1>8. CASE ~(n > 1)
  <2>1. Len(q) = 0
    BY <1>1, <1>4, <1>8
  <2>2. q = <<>>
    BY <1>4, <2>1, EmptySeq
  <2> QED
    BY <1>1, <1>3, <1>5, <1>6, <1>8, <2>2 DEF front, p, q, n
<1> QED
  BY <1>7, <1>8

(* The three steps of the description.                                     *)
Trees == [nodes : SUBSET Seq(NodeNames), props : SUBSET PropMenu]

LEMMA BeginBuilt ==
  ASSUME NEW v, NEW u, Sound(v), Sound(u), NEW name \in NodeNames,
         Grown(v, u, <<Tag("begin")>> \o NameOf(name), 0),
         NEW m \in Trees, NEW o \in Seq(NodeNames), Built(v, m, o)
  PROVE  LET path == IF o = <<>> THEN <<>> ELSE Append(Tail(o), name)
         IN  Built(u, [m EXCEPT !.nodes = @ \cup {path}], Append(o, name))
<1> DEFINE words == <<Tag("begin")>> \o NameOf(name)
           path  == IF o = <<>> THEN <<>> ELSE Append(Tail(o), name)
           new   == [m EXCEPT !.nodes = @ \cup {path}]
           e     == Edge(v, o)
           more  == Append(o, name)
           f     == Edge(u, more)
           s     == Read(u).struct
           p     == Len(v.struct)
           n     == Len(u.strings) + 1
           x     == NameWords[name]
<1>1. words \in Seq(WordSet) /\ Len(words) = x + 1 /\ x \in Nat \ {0} /\ Grown(v, u, words, 0)
  BY BeginWords, FdtAssumption
<1>2. /\ e \in Cursors /\ e.off = p /\ p \in Nat
      /\ e.path = (IF o = <<>> THEN <<>> ELSE Tail(o)) /\ e.inTree = (o # <<>>)
  BY EdgeIs
<1>3. words[1] = Tag("begin") /\ words[2] = Name(name)
  <2>1. NameOf(name) \in Seq(WordSet) /\ <<Tag("begin")>> \in Seq(WordSet)
        /\ Len(<<Tag("begin")>>) = 1 /\ Len(NameOf(name)) = x
    <3>1. Name(name) \in WordSet /\ Tag("begin") \in WordSet
      BY DEF WordSet, Name, Tag, Tags
    <3>2. NameOf(name) \in Seq(WordSet)
      BY <1>1, <3>1, IsASeq DEF NameOf
    <3>3. DOMAIN NameOf(name) = 1 .. x
      BY DEF NameOf
    <3>4. Len(NameOf(name)) = x
      BY <1>1, <3>2, <3>3, LenProperties
    <3> QED
      BY <3>1, <3>2, <3>4
  <2>2. 1 \in 1 .. 1 + x /\ 2 \in 1 .. 1 + x
    BY <1>1
  <2>3. \A i \in 1 .. 1 + x : words[i] = IF i <= 1 THEN <<Tag("begin")>>[i] ELSE NameOf(name)[i - 1]
    BY <2>1, ConcatProperties
  <2>4. words[1] = <<Tag("begin")>>[1] /\ words[2] = NameOf(name)[1]
    <3> HIDE DEF words
    <3> QED
      BY <2>2, <2>3
  <2>5. NameOf(name)[1] = Name(name)
    BY <1>1 DEF NameOf
  <2> HIDE DEF words
  <2> QED
    BY <2>4, <2>5
<1> HIDE DEF words
<1>4. /\ Len(s) = p + (x + 1) /\ s[p + 1] = Fixed(words[1], n) /\ s[p + 2] = Fixed(words[2], n)
  <2>1. 0 \in Nat /\ 1 \in 1 .. Len(words) /\ 2 \in 1 .. Len(words)
    BY <1>1
  <2>2. Len(s) = p + Len(words) /\ \A i \in 1 .. Len(words) : s[p + i] = Fixed(words[i], n)
    BY <1>1, <2>1, ReadGrown
  <2> HIDE DEF s, p, n, x
  <2> QED
    BY <1>1, <2>1, <2>2
<1>5. s[p + 1] = Tag("begin") /\ s[p + 2] = Name(name)
  <2> HIDE DEF s, p, n
  <2> QED
    BY <1>3, <1>4 DEF Fixed, Tag, Name
<1>6. NextTag(s, p) = [tag |-> "begin", next |-> p + 1 + x]
  <2>1. Len(s) = p + 1 + x
    <3> HIDE DEF p, x
    <3> QED
      BY <1>1, <1>2, <1>4
  <2> HIDE DEF s, p
  <2> QED
    BY <1>2, <1>5, <2>1, LastBegin
<1>7. Len(u.struct) = p + 1 + x
  <2>1. Len(s) = Len(u.struct)
    BY ReadIs
  <2> HIDE DEF p, x, s
  <2> QED
    BY SMTT(30), <1>1, <1>2, <1>4, <2>1
<1>8. Began(s, e) = path
  <2> HIDE DEF s, e, p
  <2>1. s[e.off + 2][2] = name
    BY <1>2, <1>5 DEF Name
  <2> QED
    BY <1>2, <2>1 DEF Began
<1>9. Hop(Read(u), e) = [off |-> p + 1 + x, path |-> path, inTree |-> TRUE]
  BY <1>2, <1>6, <1>8 DEF Hop, Onto
<1>10. f = Hop(Read(u), e) /\ more \in Seq(NodeNames)
  BY <1>7, <1>9, Opened DEF Edge
<1>11. Begins(Read(u), e) /\ ~Carries(Read(u), e)
  BY <1>2, <1>6 DEF Begins, Carries
<1>12. CleanAt(Read(u), e)
  BY <1>11 DEF CleanAt
<1>13. /\ f \in Visited(Read(u)) /\ Clean(Read(u))
       /\ MeaningOf(Read(u), Visited(Read(u))).nodes
              = m.nodes \cup (IF Begins(Read(u), e) THEN {Began(s, e)} ELSE {})
       /\ MeaningOf(Read(u), Visited(Read(u))).props
              = m.props \cup (IF Carries(Read(u), e) THEN {PropAt(Read(u), e)} ELSE {})
  <2>1. 0 \in Nat
    OBVIOUS
  <2> HIDE DEF more
  <2> QED
    BY <1>1, <1>10, <1>12, <2>1, StepBuilt
<1>14. new.nodes = m.nodes \cup {path} /\ new.props = m.props
  BY DEF Trees
<1> HIDE DEF new, s, e, f, path
<1>15. Means(Read(u), new)
  BY <1>8, <1>11, <1>13, <1>14 DEF Means
<1> QED
  BY <1>13, <1>15 DEF Built, f, new, path

LEMMA EndBuilt ==
  ASSUME NEW v, NEW u, Sound(v), Sound(u), Grown(v, u, <<Tag("endnode")>>, 0),
         NEW m \in Trees, NEW o \in Seq(NodeNames), o # <<>>, Built(v, m, o)
  PROVE  Built(u, m, SubSeq(o, 1, Len(o) - 1))
<1> DEFINE words == <<Tag("endnode")>>
           front == SubSeq(o, 1, Len(o) - 1)
           e     == Edge(v, o)
           f     == Edge(u, front)
           s     == Read(u).struct
           p     == Len(v.struct)
           n     == Len(u.strings) + 1
<1>1. words \in Seq(WordSet) /\ Len(words) = 1 /\ words[1] = Tag("endnode")
  BY TagSeq DEF Tags
<1>2. /\ e \in Cursors /\ e.off = p /\ p \in Nat /\ e.path = Tail(o) /\ e.inTree = TRUE
  BY EdgeIs
<1>3. Len(s) = p + 1 /\ s[p + 1] = Fixed(words[1], n)
  <2>1. 0 \in Nat /\ 1 \in 1 .. Len(words)
    BY <1>1
  <2> HIDE DEF words
  <2> QED
    BY <1>1, <2>1, ReadGrown DEF words
<1>4. s[p + 1] = Tag("endnode")
  BY <1>1, <1>3 DEF Fixed, Tag
<1>5. NextTag(s, p) = [tag |-> "endnode", next |-> p + 1]
  <2> HIDE DEF s, p
  <2> QED
    BY <1>2, <1>3, <1>4, LastTag
<1>6. Len(u.struct) = p + 1
  BY <1>3, ReadIs
<1>7. Hop(Read(u), e) = [off |-> p + 1, path |-> SubSeq(Tail(o), 1, Len(Tail(o)) - 1),
                         inTree |-> Tail(o) # <<>>]
  BY <1>2, <1>5 DEF Hop, Onto
<1>8. /\ front \in Seq(NodeNames) /\ (front # <<>>) = (Tail(o) # <<>>)
      /\ SubSeq(Tail(o), 1, Len(Tail(o)) - 1) = IF front = <<>> THEN <<>> ELSE Tail(front)
  BY Closing
<1>9. f = Hop(Read(u), e)
  <2> HIDE DEF front
  <2> QED
    BY <1>6, <1>7, <1>8 DEF Edge
<1>10. ~Begins(Read(u), e) /\ ~Carries(Read(u), e)
  BY <1>2, <1>5 DEF Begins, Carries
<1>11. CleanAt(Read(u), e)
  BY <1>10 DEF CleanAt
<1>12. /\ f \in Visited(Read(u)) /\ Clean(Read(u))
       /\ MeaningOf(Read(u), Visited(Read(u))).nodes
              = m.nodes \cup (IF Begins(Read(u), e) THEN {Began(s, e)} ELSE {})
       /\ MeaningOf(Read(u), Visited(Read(u))).props
              = m.props \cup (IF Carries(Read(u), e) THEN {PropAt(Read(u), e)} ELSE {})
  <2>1. 0 \in Nat
    OBVIOUS
  <2> HIDE DEF words, front
  <2> QED
    BY ZenonT(60), <1>1, <1>8, <1>9, <1>11, <2>1, StepBuilt DEF words
<1> HIDE DEF s, e, f, front
<1>13. Means(Read(u), m)
  BY <1>10, <1>12 DEF Means
<1> QED
  BY <1>12, <1>13 DEF Built, f, front

LEMMA PropParts ==
  ASSUME NEW i \in Int, NEW val \in Seq(Words)
  PROVE  LET words == PropWords(i, val)
         IN  /\ words \in Seq(WordSet) /\ Len(words) = 3 + Len(val) /\ Len(val) \in Nat
             /\ words[1] = Tag("prop") /\ words[2] = Length(Len(val)) /\ words[3] = NameOff(i)
             /\ \A j \in 1 .. Len(val) : words[3 + j] = val[j] /\ val[j] \in Words
<1> DEFINE head  == <<Tag("prop"), Length(Len(val)), NameOff(i)>>
           words == head \o val
           n     == Len(val)
<1>1. n \in Nat /\ \A j \in 1 .. n : val[j] \in Words
  BY LenProperties, ElementOfSeq
<1>2. words \in Seq(WordSet) /\ Len(words) = 3 + n
  BY PropSeq DEF PropWords
<1>3. head \in Seq(WordSet) /\ Len(head) = 3 /\ val \in Seq(WordSet)
  <2>1. <<"tag", "prop">> \in WordSet /\ <<"len", n>> \in WordSet /\ <<"nameoff", i>> \in WordSet
    BY <1>1 DEF WordSet, Tags
  <2>2. Words \subseteq WordSet
    BY DEF WordSet
  <2> QED
    BY <2>1, <2>2 DEF Tag, Length, NameOff
<1>4. \A j \in 1 .. 3 + n : words[j] = IF j <= 3 THEN head[j] ELSE val[j - 3]
  BY <1>3, ConcatProperties
<1>5. head[1] = Tag("prop") /\ head[2] = Length(n) /\ head[3] = NameOff(i)
  OBVIOUS
<1> HIDE DEF words, head, n
<1>6. words[1] = head[1] /\ words[2] = head[2] /\ words[3] = head[3]
  BY <1>1, <1>4
<1>7. \A j \in 1 .. n : words[3 + j] = val[j]
  BY <1>1, <1>4
<1> QED
  BY <1>1, <1>2, <1>5, <1>6, <1>7 DEF PropWords, words, head, n

LEMMA SubSeqIs ==
  ASSUME NEW S, NEW val \in Seq(S), NEW s, NEW m \in Int, NEW n \in Int, n - m + 1 = Len(val),
         \A j \in 1 .. Len(val) : s[m + j - 1] = val[j]
  PROVE  SubSeq(s, m, n) = val
<1> DEFINE a == SubSeq(s, m, n)
           l == Len(val)
<1>1. l \in Nat /\ n - m + 1 = l /\ \A j \in 1 .. l : val[j] \in S /\ s[m + j - 1] = val[j]
  BY LenProperties, ElementOfSeq
<1> HIDE DEF l
<1>2. \A j \in m .. n : s[j] \in S
  <2> SUFFICES ASSUME NEW j \in m .. n PROVE s[j] \in S
    OBVIOUS
  <2>1. j - m + 1 \in 1 .. l /\ m + (j - m + 1) - 1 = j
    BY <1>1
  <2> QED
    BY <1>1, <2>1
<1>3. /\ a \in Seq(S) /\ Len(a) = (IF m <= n THEN n - m + 1 ELSE 0)
      /\ \A j \in 1 .. n - m + 1 : a[j] = s[m + j - 1]
  BY <1>2, SubSeqProperties
<1> HIDE DEF a
<1>4. Len(a) = l
  <2>1. Len(a) = (IF m <= n THEN n - m + 1 ELSE 0)
    BY <1>3
  <2> QED
    BY <1>1, <2>1
<1> QED
  BY <1>1, <1>3, <1>4, SeqEqual DEF a, l

LEMMA PropBuilt ==
  ASSUME NEW v, NEW u, Sound(v), Sound(u), NEW i \in Int, NEW val \in Seq(Words), NEW k \in Nat,
         Grown(v, u, PropWords(i, val), k),
         NEW name, i + (Len(u.strings) + 1) \in 1 .. Len(u.strings),
         u.strings[i + (Len(u.strings) + 1)] = name,
         NEW m \in Trees, NEW o \in Seq(NodeNames), o # <<>>, Built(v, m, o),
         <<Tail(o), name, val>> \in PropMenu
  PROVE  Built(u, [m EXCEPT !.props = @ \cup {<<Tail(o), name, val>>}], o)
<1> DEFINE words == PropWords(i, val)
           new   == [m EXCEPT !.props = @ \cup {<<Tail(o), name, val>>}]
           e     == Edge(v, o)
           f     == Edge(u, o)
           s     == Read(u).struct
           p     == Len(v.struct)
           n     == Len(u.strings) + 1
           l     == Len(val)
<1>1. /\ words \in Seq(WordSet) /\ Len(words) = 3 + l /\ l \in Nat
      /\ words[1] = Tag("prop") /\ words[2] = Length(l) /\ words[3] = NameOff(i)
      /\ \A j \in 1 .. l : words[3 + j] = val[j] /\ val[j] \in Words
      /\ Grown(v, u, words, k)
  BY PropParts
<1> HIDE DEF words
<1>2. /\ e \in Cursors /\ e.off = p /\ p \in Nat /\ e.path = Tail(o) /\ e.inTree = TRUE
      /\ e = [off |-> p, path |-> Tail(o), inTree |-> TRUE]
  BY EdgeIs DEF Edge
<1>3. /\ Len(u.strings) \in Nat /\ DOMAIN u.strings = 1 .. Len(u.strings)
      /\ Read(u).strings = u.strings /\ Len(u.struct) = Len(s)
  BY ReadIs
<1>4. Len(s) = p + Len(words) /\ \A j \in 1 .. Len(words) : s[p + j] = Fixed(words[j], n)
  BY ZenonT(60), <1>1, ReadGrown
<1> HIDE DEF e, f, s, p, n, l
<1>5. /\ Len(s) = p + 3 + l /\ s[p + 1] = Tag("prop") /\ s[p + 2] = Length(l)
      /\ s[p + 3] = NameOff(i + n)
  <2>1. s[p + 1] = Fixed(words[1], n) /\ s[p + 2] = Fixed(words[2], n) /\ s[p + 3] = Fixed(words[3], n)
    BY <1>1, <1>4
  <2>2. /\ Fixed(Tag("prop"), n) = Tag("prop") /\ Fixed(Length(l), n) = Length(l)
        /\ Fixed(NameOff(i), n) = NameOff(i + n)
    BY DEF Fixed, Tag, Length, NameOff
  <2> QED
    BY <1>1, <1>2, <1>4, <2>1, <2>2
<1>6. \A j \in 1 .. l : s[p + 3 + j] = val[j] /\ val[j][1] # "nameoff"
  <2> SUFFICES ASSUME NEW j \in 1 .. l PROVE s[p + 3 + j] = val[j] /\ val[j][1] # "nameoff"
    OBVIOUS
  <2>1. val[j][1] # "nameoff"
    BY <1>1, WriterAssumption
  <2>2. 3 + j \in 1 .. Len(words) /\ p + (3 + j) = p + 3 + j
    BY <1>1, <1>2
  <2>3. s[p + (3 + j)] = Fixed(words[3 + j], n)
    BY <1>4, <2>2
  <2> QED
    BY <1>1, <2>1, <2>2, <2>3 DEF Fixed
<1>7. NextTag(s, p) = [tag |-> "prop", next |-> p + 3 + l]
  BY <1>1, <1>2, <1>5, LastProp
<1>8. Known(Read(u), p)
  BY <1>3, <1>5 DEF Known, NameOff, s, n
<1>9. Hop(Read(u), e) = [off |-> p + 3 + l, path |-> Tail(o), inTree |-> TRUE]
  <2>1. Hop(Read(u), e) = [e EXCEPT !.off = p + 3 + l]
    BY <1>2, <1>7, <1>8 DEF Hop, Onto, s
  <2> QED
    BY <1>2, <2>1
<1>10. f = Hop(Read(u), e)
  BY <1>3, <1>5, <1>9 DEF f, Edge
<1>11. Begins(Read(u), e) = FALSE /\ Carries(Read(u), e)
  <2>1. NextTag(Read(u).struct, e.off).tag = "prop"
    BY <1>2, <1>7 DEF s
  <2>2. p + 3 + l # p
    BY <1>1, <1>2
  <2>3. Hop(Read(u), e) # e
    BY <1>2, <1>9, <2>2
  <2> QED
    BY <2>1, <2>3 DEF Begins, Carries, Stops
<1>12. CleanAt(Read(u), e)
  <2>1. NextTag(Read(u).struct, e.off).next = p + 3 + l /\ Read(u).struct = s
    BY <1>2, <1>7 DEF s
  <2>2. s[e.off + 3][1] = "nameoff"
    BY <1>2, <1>5 DEF NameOff
  <2>3. \A j \in e.off + 4 .. p + 3 + l : s[j][1] # "nameoff"
    <3> SUFFICES ASSUME NEW j \in p + 4 .. p + 3 + l PROVE s[j][1] # "nameoff"
      BY <1>2
    <3>1. j - (p + 3) \in 1 .. l /\ p + 3 + (j - (p + 3)) = j
      BY <1>1, <1>2
    <3>2. s[p + 3 + (j - (p + 3))] = val[j - (p + 3)] /\ val[j - (p + 3)][1] # "nameoff"
      BY <1>6, <3>1
    <3> QED
      BY <3>1, <3>2
  <2> QED
    BY <2>1, <2>2, <2>3 DEF CleanAt
<1>13. PropAt(Read(u), e) = <<Tail(o), name, val>>
  <2>1. u.strings[s[e.off + 3][2]] = name
    BY <1>2, <1>5 DEF NameOff, n
  <2>2. PropLen(Read(u), e.off) = l
    BY <1>2, <1>5 DEF PropLen, Length, s
  <2> DEFINE a == SubSeq(s, p + 4, p + 3 + l)
  <2>3. a = val
    <3>2. \A j \in 1 .. l : s[p + 4 + j - 1] = val[j]
      <4> SUFFICES ASSUME NEW j \in 1 .. l PROVE s[p + 4 + j - 1] = val[j]
        OBVIOUS
      <4>1. p + 4 + j - 1 = p + 3 + j
        BY <1>1, <1>2
      <4> QED
        BY <1>6, <4>1
    <3> DEFINE x == p + 4
               y == p + 3 + l
    <3>3. x \in Int /\ y \in Int /\ y - x + 1 = l
      BY <1>1, <1>2
    <3>5. \A j \in 1 .. l : s[x + j - 1] = val[j]
      BY <3>2
    <3> HIDE DEF x, y
    <3>6. y - x + 1 = Len(val) /\ \A j \in 1 .. Len(val) : s[x + j - 1] = val[j]
      BY <3>3, <3>5 DEF l
    <3>4. SubSeq(s, x, y) = val
      BY <3>3, <3>6, SubSeqIs
    <3> QED
      BY <3>4 DEF x, y
  <2>4. PropValue(Read(u), e.off) = val
    BY <1>2, <2>2, <2>3 DEF PropValue, s
  <2> QED
    BY <1>2, <1>3, <2>1, <2>4 DEF PropAt, s
<1>14. /\ f \in Visited(Read(u)) /\ Clean(Read(u))
       /\ MeaningOf(Read(u), Visited(Read(u))).nodes
              = m.nodes \cup (IF Begins(Read(u), e) THEN {Began(s, e)} ELSE {})
       /\ MeaningOf(Read(u), Visited(Read(u))).props
              = m.props \cup (IF Carries(Read(u), e) THEN {PropAt(Read(u), e)} ELSE {})
  BY <1>1, <1>10, <1>12, StepBuilt DEF e, f, s
<1>15. new.nodes = m.nodes /\ new.props = m.props \cup {<<Tail(o), name, val>>}
  BY DEF Trees
<1> HIDE DEF new
<1>16. Means(Read(u), new)
  BY <1>11, <1>13, <1>14, <1>15 DEF Means
<1> QED
  BY <1>14, <1>16 DEF Built, f, new

-----------------------------------------------------------------------------
(* What the calls that succeed add to the blob.                            *)
LEMMA GrabGrows ==
  ASSUME NEW v, Sound(v), NEW words, GrabSpace(v, words).ret = 0
  PROVE  Grown(v, GrabSpace(v, words).t, words, 0)
<1>1. GrabSpace(v, words).t = [v EXCEPT !.struct = v.struct \o words]
  BY DEF GrabSpace, Ok, Fail, NOSPACE
<1>2. [v EXCEPT !.struct = v.struct \o words].struct = v.struct \o words
  BY DEF Sound, WriterBlobs
<1>3. GrabSpace(v, words).t.strings = v.strings
  BY GrabKeeps
<1>4. v.strings \in Seq(PropNames)
  BY DEF Sound, WriterBlobs
<1>5. Len(v.strings) \in Nat
  BY <1>4, LenProperties
<1>6. Len(v.strings) + 0 = Len(v.strings) /\ \A j \in 1 .. Len(v.strings) : j + 0 = j
  BY <1>5
<1> QED
  BY <1>1, <1>2, <1>3, <1>6 DEF Grown

LEMMA IfZero == ASSUME NEW probe, NEW v, NEW r, If(probe, v, r).ret = 0
                PROVE  probe = 0 /\ If(probe, v, r) = r
  BY DEF If, Fail

LEMMA BeginGrows == ASSUME NEW v, Sound(v), NEW name, FdtBeginNode(v, name).ret = 0
                    PROVE  Grown(v, FdtBeginNode(v, name).t, <<Tag("begin")>> \o NameOf(name), 0)
<1> DEFINE words == <<Tag("begin")>> \o NameOf(name)
<1>1. FdtBeginNode(v, name) = GrabSpace(v, words)
  BY IfZero DEF FdtBeginNode
<1> HIDE DEF words
<1>2. Grown(v, FdtBeginNode(v, name).t, words, 0)
  BY <1>1, GrabGrows
<1> QED
  BY <1>2 DEF words

LEMMA EndGrows == ASSUME NEW v, Sound(v), FdtEndNode(v).ret = 0
                  PROVE  Grown(v, FdtEndNode(v).t, <<Tag("endnode")>>, 0)
<1> DEFINE words == <<Tag("endnode")>>
<1>1. FdtEndNode(v) = GrabSpace(v, words)
  BY IfZero DEF FdtEndNode
<1> HIDE DEF words
<1>2. Grown(v, FdtEndNode(v).t, words, 0)
  BY <1>1, GrabGrows
<1> QED
  BY <1>2 DEF words

(* The name of a property: its place counted from the end, and how many    *)
(* strings were added.                                                     *)
Named(v, str, name, k) ==
  /\ Len(str.t.strings) = Len(v.strings) + k /\ str.t.struct = v.struct
  /\ \A j \in 1 .. Len(v.strings) : str.t.strings[j + k] = v.strings[j]
  /\ str.ret + (Len(str.t.strings) + 1) \in 1 .. Len(str.t.strings)
  /\ str.t.strings[str.ret + (Len(str.t.strings) + 1)] = name

LEMMA NameForNames ==
  ASSUME NEW v, Sound(v), SwProbeStruct(v) = 0, NEW name \in PropNames, NameFor(v, name).ret # 0
  PROVE  \E k \in Nat : Named(v, NameFor(v, name), name, k)
<1> DEFINE found == {i \in DOMAIN v.strings : v.strings[i] = name}
           First == CHOOSE i \in found : \A j \in found : i <= j
           n     == Len(v.strings)
<1>1. /\ v.strings \in Seq(PropNames) /\ n \in Nat /\ DOMAIN v.strings = 1 .. n
      /\ <<name>> \in Seq(PropNames) /\ Len(<<name>>) = 1 /\ <<name>>[1] = name
  <2>1. v.strings \in Seq(PropNames)
    BY DEF Sound, WriterBlobs
  <2>2. Len(v.strings) \in Nat /\ DOMAIN v.strings = 1 .. Len(v.strings)
    BY <2>1, LenProperties
  <2> QED
    BY <2>1, <2>2
<1> HIDE DEF n
<1>2. CASE found # {} /\ v.flags # "no name dedup"
  <2>1. found \subseteq Nat
    BY <1>1
  <2>2. \E i \in found : \A j \in found : i <= j
    BY <1>2, <2>1, LeastNat
  <2>3. First \in found
    BY <2>2
  <2>4. First \in 1 .. n /\ v.strings[First] = name
    BY <1>1, <2>3
  <2>5. NameFor(v, name) = [ret |-> First - (n + 1), t |-> v]
    BY <1>2 DEF NameFor, FindOrAddString, n
  <2> HIDE DEF First, found
  <2>6. First - (n + 1) + (n + 1) = First /\ n + 0 = n /\ \A j \in 1 .. n : j + 0 = j
    BY <1>1, <2>4
  <2>7. Named(v, NameFor(v, name), name, 0)
    BY <2>4, <2>5, <2>6 DEF Named, n
  <2> QED
    BY <2>7
<1>3. CASE ~(found # {} /\ v.flags # "no name dedup")
  <2> DEFINE t == [v EXCEPT !.strings = <<name>> \o v.strings,
                            !.sizeStrings = v.sizeStrings + StringWords[name]]
  <2>1. NameFor(v, name) = AddString(v, name)
    BY <1>3 DEF NameFor, FindOrAddString
  <2>2. NameFor(v, name) = [ret |-> -(n + 1), t |-> t]
    BY <2>1 DEF AddString, n
  <2>3. t.strings = <<name>> \o v.strings /\ t.struct = v.struct
    BY DEF Sound, WriterBlobs
  <2> HIDE DEF t
  <2>4. /\ Len(t.strings) = n + 1
        /\ \A j \in 1 .. n + 1 : t.strings[j] = IF j <= 1 THEN <<name>>[j] ELSE v.strings[j - 1]
    <3>1. /\ Len(<<name>> \o v.strings) = Len(<<name>>) + Len(v.strings)
          /\ \A j \in 1 .. Len(<<name>>) + Len(v.strings) :
               (<<name>> \o v.strings)[j]
                 = IF j <= Len(<<name>>) THEN <<name>>[j] ELSE v.strings[j - Len(<<name>>)]
      BY <1>1, ConcatProperties
    <3>2. Len(<<name>>) + Len(v.strings) = n + 1
      BY <1>1 DEF n
    <3> QED
      BY <1>1, <2>3, <3>1, <3>2
  <2>5. t.strings[1] = name
    <3>1. 1 \in 1 .. n + 1 /\ 1 <= 1
      BY <1>1
    <3> QED
      BY <1>1, <2>4, <3>1
  <2>6. \A j \in 1 .. n : t.strings[j + 1] = v.strings[j]
    <3> SUFFICES ASSUME NEW j \in 1 .. n PROVE t.strings[j + 1] = v.strings[j]
      OBVIOUS
    <3>1. j + 1 \in 1 .. n + 1 /\ ~(j + 1 <= 1) /\ (j + 1) - 1 = j
      BY <1>1
    <3> QED
      BY <2>4, <3>1
  <2>7. -(n + 1) + ((n + 1) + 1) = 1 /\ 1 \in 1 .. n + 1
    BY <1>1
  <2> DEFINE str == NameFor(v, name)
  <2>9. str.ret = -(n + 1) /\ str.t = t
    BY <2>2
  <2> HIDE DEF str
  <2>10. Len(str.t.strings) = n + 1 /\ str.ret + (Len(str.t.strings) + 1) = 1
    BY <2>4, <2>7, <2>9
  <2>8. Named(v, str, name, 1)
    BY <2>3, <2>4, <2>5, <2>6, <2>7, <2>9, <2>10 DEF Named, n
  <2> QED
    BY <2>8 DEF str
<1> QED
  BY <1>2, <1>3

(* fdt_property puts the words of the property behind the structure.       *)
LEMMA PropertyGrows ==
  ASSUME NEW v, Sound(v), NEW name \in PropNames, NEW val \in Seq(Words),
         FdtProperty(v, name, val).ret = 0
  PROVE  \E i \in Int, k \in Nat :
           LET u == FdtProperty(v, name, val).t
           IN  /\ Grown(v, u, PropWords(i, val), k)
               /\ i + (Len(u.strings) + 1) \in 1 .. Len(u.strings)
               /\ u.strings[i + (Len(u.strings) + 1)] = name
<1> DEFINE str  == NameFor(v, name)
           g    == GrabSpace(str.t, PropWords(str.ret, val))
           body == IF str.ret = 0 THEN Fail(NOSPACE, v) ELSE IF g.ret # 0 THEN Fail(g.ret, v) ELSE g
<1>1. FdtProperty(v, name, val) = If(SwProbeStruct(v), v, body)
  BY DEF FdtProperty
<1>2. SwProbeStruct(v) = 0 /\ FdtProperty(v, name, val) = body /\ body.ret = 0
  <2> HIDE DEF body
  <2> QED
    BY <1>1, IfZero
<1>3. str.ret # 0
  BY <1>2 DEF Fail, NOSPACE
<1>4. PICK k \in Nat : Named(v, str, name, k)
  BY <1>2, <1>3, NameForNames
<1>5. Sound(str.t) /\ str.ret \in Int
  BY <1>2, <1>3, NameForSound
<1> HIDE DEF str
<1>6. g.ret = 0 /\ body = g
  BY <1>2, <1>3 DEF Fail
<1>7. Grown(str.t, g.t, PropWords(str.ret, val), 0)
  BY <1>5, <1>6, GrabGrows
<1>8. g.t.strings = str.t.strings
  BY <1>5, GrabKeeps
<1> HIDE DEF g, body
<1>9. Grown(v, g.t, PropWords(str.ret, val), k)
  BY <1>4, <1>7, <1>8 DEF Grown, Named
<1> QED
  BY <1>2, <1>4, <1>5, <1>6, <1>8, <1>9 DEF Named

(* The end tag closes the tree: its meaning is the description.            *)
LEMMA FinishBuilt ==
  ASSUME NEW v, Sound(v), NEW m \in Trees, Built(v, m, <<>>), FdtFinish(v).ret = 0
  PROVE  LET tree == TreeOf(FdtFinish(v).t)
         IN  tree.ok = TRUE /\ tree.nodes = m.nodes /\ tree.props = m.props
<1> DEFINE words == <<Tag("end")>>
           g     == GrabSpace(v, words)
           u     == g.t
           r     == Read(u)
           c     == FdtFinish(v).t
           e     == Edge(v, <<>>)
           s     == r.struct
           p     == Len(v.struct)
           n     == Len(u.strings) + 1
<1>1. SwProbeStruct(v) = 0
  BY IfZero DEF FdtFinish
<1>2. /\ FdtFinish(v) = IF g.ret # 0 THEN g ELSE Ok(Closed(u))
      /\ Safe(v, g) /\ u.magic = "sw"
  BY <1>1, FinishIs
<1>3. g.ret = 0 /\ c = Closed(u) /\ Sound(u)
  <2> HIDE DEF g
  <2> QED
    BY <1>2 DEF Ok, Safe
<1>4. words \in Seq(WordSet) /\ Len(words) = 1 /\ words[1] = Tag("end")
  BY TagSeq DEF Tags
<1> HIDE DEF words
<1>5. Grown(v, u, words, 0)
  BY <1>3, GrabGrows
<1> HIDE DEF c, g, u
<1>6. /\ e \in Cursors /\ e \in Visited(Read(v)) /\ e.off = p /\ p \in Nat /\ e.inTree = FALSE
      /\ e.off = Len(Read(v).struct) /\ Clean(Read(v)) /\ Means(Read(v), m)
  <2>1. <<>> \in Seq(NodeNames)
    OBVIOUS
  <2> QED
    BY <2>1, EdgeIs
<1>7. Legible(Read(v).struct) /\ Legible(s)
  BY <1>3, ReadIs
<1>8. /\ Len(s) = p + 1 /\ s[p + 1] = Fixed(words[1], n) /\ Begun(Read(v), r, 0)
  <2>1. 0 \in Nat /\ 1 \in 1 .. Len(words)
    BY <1>4
  <2> QED
    BY <1>3, <1>4, <1>5, <2>1, ReadGrown
<1> HIDE DEF r, e, s, p, n
<1>9. s[p + 1] = Tag("end")
  BY <1>4, <1>8 DEF Fixed, Tag
<1>10. NextTag(s, p) = [tag |-> "end", next |-> p + 1]
  BY <1>6, <1>8, <1>9, LastTag
<1>11. NextTag(r.struct, e.off).tag = "end" /\ NextTag(r.struct, e.off).next >= 0
  BY <1>6, <1>10 DEF s
<1>12. Hop(r, e) = e /\ Stops(r, e) /\ ~Begins(r, e) /\ ~Carries(r, e) /\ EndsWell(r, e)
  BY <1>6, <1>11 DEF Hop, Onto, Stops, Begins, Carries, EndsWell
<1>13. CleanAt(r, e)
  BY <1>12 DEF CleanAt
<1>14. /\ \A d \in Visited(r) : Stops(r, d) => d = e
       /\ MeaningOf(r, Visited(r)).nodes
              = MeaningOf(Read(v), Visited(Read(v))).nodes
                  \cup (IF Begins(r, e) THEN {Began(r.struct, e)} ELSE {})
       /\ MeaningOf(r, Visited(r)).props
              = MeaningOf(Read(v), Visited(Read(v))).props
                  \cup (IF Carries(r, e) THEN {PropAt(r, e)} ELSE {})
  <2>1. 0 \in Nat /\ e = Hop(r, e)
    BY <1>12
  <2>2. Legible(r.struct)
    BY <1>7 DEF s
  <2> QED
    BY <1>6, <1>7, <1>8, <1>12, <1>13, <2>1, <2>2, Grow
<1>15. /\ MeaningOf(r, Visited(r)).nodes = m.nodes /\ MeaningOf(r, Visited(r)).props = m.props
  BY <1>6, <1>12, <1>14 DEF Means
<1>16. MeaningOf(r, Visited(r)).ok = TRUE
  BY <1>12, <1>14 DEF MeaningOf
<1>17. c.struct = r.struct /\ c.strings = r.strings
  <2>1. Closed(u).struct = FromFirst(u.struct, Len(u.strings) + 1) /\ Closed(u).strings = u.strings
    BY <1>3 DEF Sound, WriterBlobs, Closed
  <2> QED
    BY <1>3, <2>1 DEF r, Read
<1>18. TreeOf(c) = MeaningOf(r, Visited(r))
  <2>1. TreeOf(c) = MeaningOf(c, Visited(c))
    BY <1>7, <1>17, TreeIs DEF s
  <2> QED
    BY <1>17, <2>1, SameReading
<1> QED
  BY <1>15, <1>16, <1>18 DEF c

-----------------------------------------------------------------------------
(* Where everything lies in the blob.                                      *)
Laid(v) == v.magic # "none" =>
  /\ v.offRsv = HeaderWords /\ v.offStruct = HeaderWords + RsvWords * Len(v.rsv)
  /\ v.sizeStrings = SumWords(v.strings)
  /\ v.magic = "fdt" => v.offStrings = v.offStruct + Len(v.struct)

(* u is v with other words, another size or another state.                 *)
LEMMA SameLaid ==
  ASSUME NEW v, NEW u, Laid(v), v.magic # "none", u.magic = "sw", u.offRsv = v.offRsv, u.rsv = v.rsv,
         u.offStruct = v.offStruct, u.strings = v.strings, u.sizeStrings = v.sizeStrings
  PROVE  Laid(u)
  BY DEF Laid

LEMMA CreateLaid ==
  ASSUME NEW v, NEW size, NEW flags, FdtCreate(v, size, flags).ret = 0
  PROVE  LET u == FdtCreate(v, size, flags).t
         IN  Laid(u) /\ u.magic = "sw" /\ u.struct = <<>> /\ u.total = size
<1> DEFINE u == FdtCreate(v, size, flags).t
<1>1. u = [Garbage EXCEPT !.magic = "sw", !.flags = flags, !.total = size,
                          !.offRsv = HeaderWords, !.offStruct = HeaderWords]
  <2> DEFINE t == [Garbage EXCEPT !.magic = "sw", !.flags = flags, !.total = size,
                                  !.offRsv = HeaderWords, !.offStruct = HeaderWords]
  <2>1. FdtCreate(v, size, flags)
          = IF size < HeaderWords THEN Fail(NOSPACE, v)
            ELSE IF flags \notin {"none", "no name dedup"} THEN Fail(BADFLAGS, v) ELSE Ok(t)
    BY DEF FdtCreate
  <2> HIDE DEF t
  <2>2. Fail(NOSPACE, v).ret # 0 /\ Fail(BADFLAGS, v).ret # 0 /\ Ok(t).t = t
    BY DEF Fail, Ok, NOSPACE, BADFLAGS
  <2>3. FdtCreate(v, size, flags) = Ok(t)
    BY <2>1, <2>2
  <2> QED
    BY <2>2, <2>3 DEF t
<1>2. /\ u.magic = "sw" /\ u.struct = <<>> /\ u.total = size /\ u.offRsv = HeaderWords
      /\ u.offStruct = HeaderWords /\ u.rsv = <<>> /\ u.strings = <<>> /\ u.sizeStrings = 0
  BY <1>1 DEF Garbage
<1> HIDE DEF u
<1>3. Len(u.rsv) = 0 /\ HeaderWords + RsvWords * 0 = HeaderWords
  BY <1>2 DEF HeaderWords, RsvWords
<1>4. Laid(u)
  BY <1>2, <1>3, SumEmpty DEF Laid
<1> USE DEF u
<1> QED
  BY <1>2, <1>4

LEMMA ResizeIs ==
  ASSUME NEW v, Sound(v), NEW size, FdtResize(v, size).ret = 0
  PROVE  LET u == FdtResize(v, size).t
         IN  /\ v.magic = "sw" /\ u.magic = "sw" /\ u.offRsv = v.offRsv /\ u.rsv = v.rsv
             /\ u.offStruct = v.offStruct /\ u.strings = v.strings /\ u.sizeStrings = v.sizeStrings
             /\ u.struct = v.struct
<1> DEFINE t    == [v EXCEPT !.total = size, !.offStrings = IF v.offStrings # 0 THEN size ELSE 0]
           body == IF StructTop(v) + v.sizeStrings > v.total THEN Fail(INTERNAL, v)
                   ELSE IF StructTop(v) + v.sizeStrings > size THEN Fail(NOSPACE, v)
                   ELSE Ok(t)
<1>1. FdtResize(v, size) = If(SwProbe(v), v, body)
  BY DEF FdtResize
<1>2. SwProbe(v) = 0 /\ FdtResize(v, size) = body /\ body.ret = 0
  <2> HIDE DEF body
  <2> QED
    BY <1>1, IfZero
<1>3. body.t = t
  BY <1>2 DEF Ok, Fail, NOSPACE, INTERNAL
<1>4. v.magic = "sw"
  BY <1>2 DEF SwProbe, BADSTATE, BADMAGIC
<1>5. /\ t.magic = v.magic /\ t.offRsv = v.offRsv /\ t.rsv = v.rsv /\ t.offStruct = v.offStruct
      /\ t.strings = v.strings /\ t.sizeStrings = v.sizeStrings /\ t.struct = v.struct
  BY DEF Sound, WriterBlobs
<1> HIDE DEF t, body
<1> QED
  BY <1>2, <1>3, <1>4, <1>5

(* One more entry of the reserve map.                                      *)
LEMMA AddRsvLaid ==
  ASSUME NEW v, Sound(v), Laid(v), NEW size \in Nat, FdtAddReservemapEntry(v, size).ret = 0
  PROVE  LET u == FdtAddReservemapEntry(v, size).t
         IN  /\ v.magic = "sw" /\ u.magic = "sw" /\ Laid(u)
             /\ u.struct = v.struct /\ u.strings = v.strings /\ u.total = v.total
<1> DEFINE t    == [v EXCEPT !.rsv = Append(v.rsv, size), !.offStruct = v.offStruct + RsvWords]
           body == IF v.offStruct + RsvWords > v.total THEN Fail(NOSPACE, v) ELSE Ok(t)
<1>1. FdtAddReservemapEntry(v, size) = If(SwProbeMemRsv(v), v, body)
  BY DEF FdtAddReservemapEntry
<1>2. SwProbeMemRsv(v) = 0 /\ FdtAddReservemapEntry(v, size) = body /\ body.ret = 0
  <2> HIDE DEF body
  <2> QED
    BY <1>1, IfZero
<1>3. body.t = t
  BY <1>2 DEF Ok, Fail, NOSPACE
<1>4. v.magic = "sw"
  BY <1>2 DEF SwProbeMemRsv, SwProbe, BADSTATE, BADMAGIC
<1>5. /\ t.magic = v.magic /\ t.offRsv = v.offRsv /\ t.rsv = Append(v.rsv, size)
      /\ t.offStruct = v.offStruct + RsvWords /\ t.total = v.total
      /\ t.strings = v.strings /\ t.sizeStrings = v.sizeStrings /\ t.struct = v.struct
  BY DEF Sound, WriterBlobs
<1> HIDE DEF t, body
<1>6. v.rsv \in Seq(Nat)
  BY DEF Sound, WriterBlobs
<1>7. Len(Append(v.rsv, size)) = Len(v.rsv) + 1 /\ Len(v.rsv) \in Nat
  BY <1>6, AppendProperties, LenProperties
<1>8. HeaderWords + RsvWords * Len(v.rsv) + RsvWords = HeaderWords + RsvWords * (Len(v.rsv) + 1)
  BY <1>7 DEF HeaderWords, RsvWords
<1>9. Laid(t)
  BY <1>4, <1>5, <1>7, <1>8 DEF Laid
<1> QED
  BY <1>2, <1>3, <1>4, <1>5, <1>9

LEMMA FinishRsvLaid ==
  ASSUME NEW v, Sound(v), Laid(v), FdtFinishReservemap(v).ret = 0
  PROVE  LET u == FdtFinishReservemap(v).t
         IN  /\ v.magic = "sw" /\ u.magic = "sw" /\ Laid(u)
             /\ u.struct = v.struct /\ u.strings = v.strings /\ u.total = v.total
<1> DEFINE r == FdtAddReservemapEntry(v, 0)
           t == [r.t EXCEPT !.offStrings = r.t.total]
<1>1. r.ret = 0 /\ FdtFinishReservemap(v).t = t
  BY DEF FdtFinishReservemap, Ok
<1>2. /\ v.magic = "sw" /\ r.t.magic = "sw" /\ Laid(r.t)
      /\ r.t.struct = v.struct /\ r.t.strings = v.strings /\ r.t.total = v.total
  BY <1>1, AddRsvLaid
<1>3. Sound(r.t)
  BY AddRsvSafe DEF Safe
<1> HIDE DEF r
<1>4. /\ t.magic = r.t.magic /\ t.offRsv = r.t.offRsv /\ t.rsv = r.t.rsv
      /\ t.offStruct = r.t.offStruct /\ t.total = r.t.total
      /\ t.strings = r.t.strings /\ t.sizeStrings = r.t.sizeStrings /\ t.struct = r.t.struct
  BY <1>3 DEF Sound, WriterBlobs
<1> HIDE DEF t
<1>5. Laid(t)
  BY <1>2, <1>4 DEF Laid
<1> QED
  BY <1>1, <1>2, <1>4, <1>5

LEMMA GrabLaid ==
  ASSUME NEW v, Sound(v), Laid(v), SwProbeStruct(v) = 0, NEW words
  PROVE  LET u == GrabSpace(v, words).t
         IN  v.magic = "sw" /\ u.magic = "sw" /\ Laid(u) /\ u.total = v.total
<1>1. v.magic = "sw"
  BY InStruct
<1> DEFINE u == GrabSpace(v, words).t
<1>2. /\ u.magic = v.magic /\ u.rsv = v.rsv /\ u.offRsv = v.offRsv
      /\ u.offStruct = v.offStruct /\ u.strings = v.strings /\ u.sizeStrings = v.sizeStrings
      /\ u.total = v.total
  BY GrabKeeps
<1> HIDE DEF u
<1>3. Laid(u)
  BY <1>1, <1>2, SameLaid
<1> USE DEF u
<1> QED
  BY <1>1, <1>2, <1>3

LEMMA NodeLaid ==
  ASSUME NEW v, Sound(v), Laid(v), NEW name
  PROVE  /\ FdtBeginNode(v, name).ret = 0 =>
              LET u == FdtBeginNode(v, name).t
              IN  v.magic = "sw" /\ u.magic = "sw" /\ Laid(u) /\ u.total = v.total
         /\ FdtEndNode(v).ret = 0 =>
              LET u == FdtEndNode(v).t
              IN  v.magic = "sw" /\ u.magic = "sw" /\ Laid(u) /\ u.total = v.total
  BY IfZero, GrabLaid DEF FdtBeginNode, FdtEndNode

(* A string that was found, or one more in front of the others.            *)
LEMMA NameForLaid ==
  ASSUME NEW v, Sound(v), Laid(v), SwProbeStruct(v) = 0, NEW name \in PropNames,
         NameFor(v, name).ret # 0
  PROVE  LET u == NameFor(v, name).t IN u.magic = "sw" /\ Laid(u)
<1> DEFINE t == [v EXCEPT !.strings = <<name>> \o v.strings,
                          !.sizeStrings = v.sizeStrings + StringWords[name]]
<1>1. v.magic = "sw"
  BY InStruct
<1>2. NameFor(v, name).t \in {v, t}
  BY DEF NameFor, FindOrAddString, AddString
<1>3. /\ t.magic = v.magic /\ t.offRsv = v.offRsv /\ t.rsv = v.rsv /\ t.offStruct = v.offStruct
      /\ t.strings = <<name>> \o v.strings /\ t.sizeStrings = v.sizeStrings + StringWords[name]
  BY DEF Sound, WriterBlobs
<1> HIDE DEF t
<1>4. v.strings \in Seq(PropNames)
  BY DEF Sound, WriterBlobs
<1>5. SumWords(t.strings) = SumWords(v.strings) + StringWords[name]
  BY <1>3, <1>4, SumPrepend
<1>6. Laid(t)
  BY <1>1, <1>3, <1>5 DEF Laid
<1> QED
  BY <1>1, <1>2, <1>3, <1>6

LEMMA PropertyLaid ==
  ASSUME NEW v, Sound(v), Laid(v), NEW name \in PropNames, NEW val \in Seq(Words),
         FdtProperty(v, name, val).ret = 0
  PROVE  LET u == FdtProperty(v, name, val).t IN v.magic = "sw" /\ u.magic = "sw" /\ Laid(u)
<1> DEFINE str  == NameFor(v, name)
           g    == GrabSpace(str.t, PropWords(str.ret, val))
           body == IF str.ret = 0 THEN Fail(NOSPACE, v) ELSE IF g.ret # 0 THEN Fail(g.ret, v) ELSE g
<1>1. FdtProperty(v, name, val) = If(SwProbeStruct(v), v, body)
  BY DEF FdtProperty
<1>2. SwProbeStruct(v) = 0 /\ FdtProperty(v, name, val) = body /\ body.ret = 0
  <2> HIDE DEF body
  <2> QED
    BY <1>1, IfZero
<1>3. str.ret # 0 /\ v.magic = "sw"
  BY <1>2, InStruct DEF Fail, NOSPACE
<1>4. str.t.magic = "sw" /\ Laid(str.t)
  BY <1>2, <1>3, NameForLaid
<1>5. Sound(str.t)
  BY <1>2, <1>3, NameForSound
<1> HIDE DEF str
<1>6. body = g
  BY <1>2, <1>3 DEF Fail
<1>7. /\ g.t.magic = str.t.magic /\ g.t.rsv = str.t.rsv /\ g.t.offRsv = str.t.offRsv
      /\ g.t.offStruct = str.t.offStruct /\ g.t.strings = str.t.strings
      /\ g.t.sizeStrings = str.t.sizeStrings
  BY <1>5, GrabKeeps
<1> HIDE DEF g, body
<1>8. Laid(g.t)
  BY <1>4, <1>7, SameLaid
<1> QED
  BY <1>2, <1>3, <1>4, <1>6, <1>7, <1>8

LEMMA FinishLaid ==
  ASSUME NEW v, Sound(v), Laid(v), FdtFinish(v).ret = 0
  PROVE  LET u == FdtFinish(v).t
         IN  /\ v.magic = "sw" /\ u.magic = "fdt" /\ Laid(u) /\ u.total <= v.total
             /\ u.total = u.offStrings + u.sizeStrings
<1> DEFINE g == GrabSpace(v, <<Tag("end")>>)
           c == Closed(g.t)
<1>1. SwProbeStruct(v) = 0
  BY IfZero DEF FdtFinish
<1>2. /\ FdtFinish(v) = (IF g.ret # 0 THEN g ELSE Ok(c))
      /\ Safe(v, g) /\ g.t.magic = "sw"
  BY <1>1, FinishIs
<1>3. v.magic = "sw" /\ Laid(g.t) /\ g.t.total = v.total
  BY <1>1, GrabLaid
<1> HIDE DEF g, c
<1>4. FdtFinish(v).t = c /\ Sound(g.t)
  BY <1>2 DEF Ok, Safe
<1>5. /\ c.magic = "fdt" /\ c.offStrings = c.offStruct + Len(c.struct)
      /\ c.total = c.offStrings + c.sizeStrings /\ c.rsv = g.t.rsv /\ c.offRsv = g.t.offRsv
      /\ c.offStruct = g.t.offStruct /\ c.strings = g.t.strings /\ c.sizeStrings = g.t.sizeStrings
  BY <1>2, <1>4, ClosedSound DEF c
<1>6. Laid(c)
  BY <1>2, <1>3, <1>5 DEF Laid
<1>7. c.total = g.t.offStruct + Len(g.t.struct) + g.t.sizeStrings
  BY <1>4 DEF c, Closed, StructTop, Sound, WriterBlobs
<1>8. g.t.offStruct + Len(g.t.struct) + g.t.sizeStrings <= g.t.total
  BY <1>2, <1>4 DEF Sound, Apart
<1> QED
  BY <1>3, <1>4, <1>5, <1>6, <1>7, <1>8

-----------------------------------------------------------------------------
(* The inductive invariant of the description: what lies in the buffer and *)
(* what the calls that succeeded have described.  An empty tree whose      *)
(* calls ran out of space is not described and can only be left alone.     *)
Told(v, m, o) ==
  /\ Laid(v) /\ m \in Trees /\ o \in Seq(NodeNames)
  /\ v.magic = "none" => m = Nothing /\ o = <<>>
  /\ v.magic = "sw" => Built(v, m, o) \/ (m = Nothing /\ o = <<>> /\ v.struct # <<>>)
  /\ v.magic = "fdt" => /\ o = <<>> /\ TreeOf(v).ok = TRUE
                        /\ TreeOf(v).nodes = m.nodes /\ TreeOf(v).props = m.props

LEMMA SameBuilt == ASSUME NEW v, NEW u, u.struct = v.struct, u.strings = v.strings, NEW m, NEW o
                   PROVE  Built(v, m, o) <=> Built(u, m, o)
<1>1. Read(u) = Read(v) /\ Edge(u, o) = Edge(v, o)
  BY DEF Read, Edge
<1> QED
  BY <1>1 DEF Built

(* A call that adds no words to the structure.                             *)
LEMMA SameTold ==
  ASSUME NEW v, NEW u, NEW m, NEW o, Told(v, m, o), Laid(u), v.magic = "sw", u.magic = "sw",
         u.struct = v.struct, u.strings = v.strings
  PROVE  Told(u, m, o)
  BY SameBuilt DEF Told

LEMMA NothingIs == Nothing \in Trees /\ Nothing.nodes = {} /\ Nothing.props = {}
                   /\ <<>> \in Seq(NodeNames)
  BY DEF Nothing, Trees

LEMMA BuiltTold ==
  ASSUME NEW u, NEW m \in Trees, NEW o \in Seq(NodeNames), Laid(u), u.magic = "sw", Built(u, m, o)
  PROVE  Told(u, m, o)
  BY DEF Told

LEMMA CreateTold ==
  ASSUME NEW v, Sound(v), NEW size \in Nat, NEW flags, FdtCreate(v, size, flags).ret = 0
  PROVE  Told(FdtCreate(v, size, flags).t, Nothing, <<>>)
<1> DEFINE u == FdtCreate(v, size, flags).t
<1>1. Laid(u) /\ u.magic = "sw" /\ u.struct = <<>>
  BY CreateLaid
<1>2. Sound(u)
  BY CreateSafe DEF Safe
<1> HIDE DEF u
<1>3. Built(u, Nothing, <<>>)
  BY <1>1, <1>2, EmptyBuilt
<1>4. Told(u, Nothing, <<>>)
  BY <1>1, <1>3, NothingIs, BuiltTold
<1> QED
  BY <1>4 DEF u

LEMMA BeginTold ==
  ASSUME NEW v, Sound(v), NEW m, NEW o, Told(v, m, o), o = <<>> => v.struct = <<>>,
         NEW name \in NodeNames, FdtBeginNode(v, name).ret = 0
  PROVE  LET path == IF o = <<>> THEN <<>> ELSE Append(Tail(o), name)
         IN  Told(FdtBeginNode(v, name).t, [m EXCEPT !.nodes = @ \cup {path}], Append(o, name))
<1> DEFINE u    == FdtBeginNode(v, name).t
           path == IF o = <<>> THEN <<>> ELSE Append(Tail(o), name)
           new  == [m EXCEPT !.nodes = @ \cup {path}]
<1>1. v.magic = "sw" /\ u.magic = "sw" /\ Laid(u)
  BY NodeLaid DEF Told
<1>2. Sound(u)
  BY BeginNodeSafe DEF Safe
<1>3. Grown(v, u, <<Tag("begin")>> \o NameOf(name), 0)
  BY BeginGrows
<1>4. m \in Trees /\ o \in Seq(NodeNames) /\ Built(v, m, o)
  BY <1>1 DEF Told
<1> HIDE DEF u
<1>5. Built(u, new, Append(o, name))
  BY <1>2, <1>3, <1>4, BeginBuilt
<1>6. path \in Seq(NodeNames)
  <2>1. <<>> \in Seq(NodeNames)
    OBVIOUS
  <2>2. o # <<>> => Tail(o) \in Seq(NodeNames)
    BY <1>4, HeadTailProperties
  <2>3. o # <<>> => Append(Tail(o), name) \in Seq(NodeNames)
    BY <2>2, AppendProperties
  <2> QED
    BY <2>1, <2>3
<1>7. new \in Trees
  <2> HIDE DEF path
  <2> QED
    BY <1>4, <1>6 DEF Trees
<1>8. Append(o, name) \in Seq(NodeNames)
  BY <1>4, AppendProperties
<1> HIDE DEF new
<1>9. Told(u, new, Append(o, name))
  BY <1>1, <1>5, <1>7, <1>8, BuiltTold
<1> QED
  BY <1>9 DEF u, new

LEMMA EndTold ==
  ASSUME NEW v, Sound(v), NEW m, NEW o, Told(v, m, o), o # <<>>, FdtEndNode(v).ret = 0
  PROVE  Told(FdtEndNode(v).t, m, SubSeq(o, 1, Len(o) - 1))
<1> DEFINE u     == FdtEndNode(v).t
           front == SubSeq(o, 1, Len(o) - 1)
<1>1. v.magic = "sw" /\ u.magic = "sw" /\ Laid(u)
  BY NodeLaid DEF Told
<1>2. Sound(u)
  BY EndNodeSafe DEF Safe
<1>3. Grown(v, u, <<Tag("endnode")>>, 0)
  BY EndGrows
<1>4. m \in Trees /\ o \in Seq(NodeNames) /\ Built(v, m, o)
  BY <1>1 DEF Told
<1> HIDE DEF u
<1>5. Built(u, m, front)
  BY <1>2, <1>3, <1>4, EndBuilt
<1>6. front \in Seq(NodeNames)
  <2>1. Len(o) \in Nat /\ Len(o) # 0
    BY <1>4, LenProperties, EmptySeq
  <2>2. Len(o) - 1 \in 0 .. Len(o)
    BY <2>1
  <2> QED
    BY <1>4, <2>2, SubSeqProperties
<1> HIDE DEF front
<1>7. Told(u, m, front)
  BY <1>1, <1>4, <1>5, <1>6, BuiltTold
<1> QED
  BY <1>7 DEF u, front

LEMMA PropertyTold ==
  ASSUME NEW v, Sound(v), NEW m, NEW o, Told(v, m, o), o # <<>>,
         NEW x \in PropMenu, x[1] = Tail(o), FdtProperty(v, x[2], x[3]).ret = 0
  PROVE  Told(FdtProperty(v, x[2], x[3]).t, [m EXCEPT !.props = @ \cup {x}], o)
<1> DEFINE u    == FdtProperty(v, x[2], x[3]).t
           name == x[2]
           val  == x[3]
           new  == [m EXCEPT !.props = @ \cup {x}]
<1>1. name \in PropNames /\ val \in Seq(Words) /\ x = <<Tail(o), name, val>>
  BY WriterAssumption
<1>2. v.magic = "sw" /\ u.magic = "sw" /\ Laid(u)
  BY <1>1, PropertyLaid DEF Told
<1>3. Sound(u)
  BY <1>1, PropertySafe DEF Safe
<1>4. \E i \in Int, k \in Nat :
        /\ Grown(v, u, PropWords(i, val), k)
        /\ i + (Len(u.strings) + 1) \in 1 .. Len(u.strings)
        /\ u.strings[i + (Len(u.strings) + 1)] = name
  BY <1>1, PropertyGrows
<1>5. m \in Trees /\ o \in Seq(NodeNames) /\ Built(v, m, o)
  BY <1>2 DEF Told
<1> HIDE DEF u, name, val
<1>6. PICK i \in Int, k \in Nat :
        /\ Grown(v, u, PropWords(i, val), k)
        /\ i + (Len(u.strings) + 1) \in 1 .. Len(u.strings)
        /\ u.strings[i + (Len(u.strings) + 1)] = name
  BY <1>4
<1>7. Built(u, [m EXCEPT !.props = @ \cup {<<Tail(o), name, val>>}], o)
  BY <1>1, <1>3, <1>5, <1>6, PropBuilt
<1>8. Built(u, new, o)
  BY <1>1, <1>7
<1>9. new \in Trees
  BY <1>5 DEF Trees
<1> HIDE DEF new
<1>10. Told(u, new, o)
  BY <1>2, <1>5, <1>8, <1>9, BuiltTold
<1> QED
  BY <1>10 DEF u, new, name, val

LEMMA FinishTold ==
  ASSUME NEW v, Sound(v), NEW m \in Trees, Laid(v), Built(v, m, <<>>), FdtFinish(v).ret = 0
  PROVE  Told(FdtFinish(v).t, m, <<>>) /\ FdtFinish(v).t.magic = "fdt"
<1> DEFINE u == FdtFinish(v).t
<1>1. u.magic = "fdt" /\ Laid(u)
  BY FinishLaid
<1>2. TreeOf(u).ok = TRUE /\ TreeOf(u).nodes = m.nodes /\ TreeOf(u).props = m.props
  BY FinishBuilt
<1> HIDE DEF u
<1>3. Told(u, m, <<>>)
  BY <1>1, <1>2, NothingIs DEF Told
<1> QED
  BY <1>1, <1>3 DEF u

(* The empty tree, opened into the buffer it was written in.               *)
LEMMA OpenTold ==
  ASSUME NEW v, Sound(v), Plain(v), NEW size \in Nat, v.magic = "fdt", v.total <= size,
         v.total = v.offStrings + v.sizeStrings, NEW m, Told(v, m, <<>>)
  PROVE  FdtOpenInto(v, size, FALSE).ret = 0 /\ Told(FdtOpenInto(v, size, FALSE).t, m, <<>>)
<1> DEFINE t == [v EXCEPT !.total = size]
<1>1. v.offStrings = v.offStruct + Len(v.struct) /\ v.total \in Nat
  BY DEF Told, Laid, Sound, WriterBlobs
<1>2. FdtOpenInto(v, size, FALSE) = IF v.total > size THEN Fail(NOSPACE, v) ELSE Ok(t)
  BY <1>1, OpenIs
<1>3. /\ t.magic = v.magic /\ t.offRsv = v.offRsv /\ t.rsv = v.rsv /\ t.offStruct = v.offStruct
      /\ t.strings = v.strings /\ t.sizeStrings = v.sizeStrings /\ t.struct = v.struct
      /\ t.offStrings = v.offStrings
  BY DEF Sound, WriterBlobs
<1> HIDE DEF t
<1>4. FdtOpenInto(v, size, FALSE) = Ok(t)
  <2>1. ~(v.total > size)
    BY <1>1
  <2> QED
    BY <1>2, <2>1
<1>5. Ok(t).ret = 0 /\ Ok(t).t = t
  BY DEF Ok
<1>6. TreeOf(t) = TreeOf(v)
  <2>1. Legible(v.struct)
    <3>1. v.struct \in Seq(WordSet)
      BY DEF Sound, WriterBlobs
    <3> QED
      BY <3>1, WordsLegible
  <2>2. TreeOf(v) = MeaningOf(v, Visited(v)) /\ TreeOf(t) = MeaningOf(t, Visited(t))
    BY <1>3, <2>1, TreeIs
  <2> QED
    BY <1>3, <2>2, SameReading
<1>7. Laid(t)
  BY <1>3 DEF Told, Laid
<1>8. Told(t, m, <<>>)
  BY <1>3, <1>6, <1>7 DEF Told
<1> QED
  BY <1>4, <1>5, <1>8

LEMMA EmptyTreeTold ==
  ASSUME NEW v, Sound(v), Told(v, Nothing, <<>>), NEW size \in Nat
  PROVE  LET r == FdtCreateEmptyTree(v, size, Root)
         IN  Told(r.t, IF r.ret = 0 THEN [Nothing EXCEPT !.nodes = {<<>>}] ELSE Nothing, <<>>)
<1> DEFINE r1   == FdtCreate(v, size, "none")
           r2   == FdtFinishReservemap(r1.t)
           r3   == FdtBeginNode(r2.t, Root)
           r4   == FdtEndNode(r3.t)
           r5   == FdtFinish(r4.t)
           r6   == FdtOpenInto(r5.t, size, FALSE)
           one  == [Nothing EXCEPT !.nodes = @ \cup {<<>>}]
           Undone(r) == Told(r.t, Nothing, <<>>)
<1>1. FdtCreateEmptyTree(v, size, Root)
        = IF r1.ret # 0 THEN r1 ELSE IF r2.ret # 0 THEN r2 ELSE IF r3.ret # 0 THEN r3
          ELSE IF r4.ret # 0 THEN r4 ELSE IF r5.ret # 0 THEN r5 ELSE r6
  BY DEF FdtCreateEmptyTree
<1>2. /\ Safe(v, r1)
      /\ r1.ret = 0 => /\ Opening(r1.t) /\ Told(r1.t, Nothing, <<>>) /\ Laid(r1.t)
                       /\ r1.t.magic = "sw" /\ r1.t.struct = <<>> /\ r1.t.total = size
  BY CreateSafe, CreateOpens, CreateTold, CreateLaid
<1>3. r1.ret # 0 => Undone(r1)
  BY <1>2 DEF Safe
<1> HIDE DEF r1
<1>4. ASSUME r1.ret = 0
      PROVE  /\ Safe(r1.t, r2)
             /\ r2.ret = 0 => /\ Plain(r2.t) /\ Told(r2.t, Nothing, <<>>) /\ Laid(r2.t)
                              /\ r2.t.magic = "sw" /\ r2.t.struct = <<>> /\ r2.t.total = size
  <2>1. Sound(r1.t)
    BY <1>2 DEF Safe
  <2>2. Safe(r1.t, r2)
    BY <2>1, FinishRsvSafe
  <2>3. ASSUME r2.ret = 0
        PROVE  /\ Plain(r2.t) /\ Laid(r2.t) /\ r2.t.magic = "sw" /\ r2.t.struct = r1.t.struct
               /\ r2.t.total = r1.t.total /\ r2.t.strings = r1.t.strings
    BY <1>2, <1>4, <2>1, <2>3, FinishRsvPlain, FinishRsvLaid
  <2> HIDE DEF r2
  <2>4. r2.ret = 0 => Told(r2.t, Nothing, <<>>)
    BY <1>2, <1>4, <2>3, SameTold
  <2> QED
    BY <1>2, <1>4, <2>2, <2>3, <2>4
<1>5. r1.ret = 0 /\ r2.ret # 0 => Undone(r2)
  BY <1>2, <1>4 DEF Safe
<1> HIDE DEF r2
<1>6. ASSUME r1.ret = 0, r2.ret = 0
      PROVE  /\ Safe(r2.t, r3)
             /\ r3.ret = 0 => /\ Plain(r3.t) /\ Told(r3.t, one, <<Root>>) /\ Laid(r3.t)
                              /\ r3.t.magic = "sw" /\ r3.t.struct # <<>> /\ r3.t.total = size
  <2>1. Sound(r2.t)
    BY <1>4, <1>6 DEF Safe
  <2>2. Root \in NodeNames
    BY WriterAssumption
  <2>3. Safe(r2.t, r3)
    BY <2>1, <2>2, BeginNodeSafe
  <2>4. ASSUME r3.ret = 0
        PROVE  /\ Plain(r3.t) /\ Laid(r3.t) /\ r3.t.magic = "sw" /\ r3.t.total = r2.t.total
               /\ Grown(r2.t, r3.t, <<Tag("begin")>> \o NameOf(Root), 0)
    BY <1>4, <1>6, <2>1, <2>4, NodePlain, NodeLaid, BeginGrows
  <2>5. ASSUME r3.ret = 0 PROVE Told(r3.t, one, <<Root>>)
    <3>1. <<>> = <<>> => r2.t.struct = <<>>
      BY <1>4, <1>6
    <3>2. Told(r3.t, one, Append(<<>>, Root))
      BY <1>4, <1>6, <2>1, <2>2, <2>5, <3>1, BeginTold
    <3>3. Append(<<>>, Root) = <<Root>>
      OBVIOUS
    <3> QED
      BY <3>2, <3>3
  <2> HIDE DEF r3
  <2>6. ASSUME r3.ret = 0 PROVE r3.t.struct # <<>>
    <3> DEFINE words == <<Tag("begin")>> \o NameOf(Root)
    <3>1. words \in Seq(WordSet) /\ Len(words) = NameWords[Root] + 1 /\ NameWords[Root] \in Nat
      BY <2>2, BeginWords, FdtAssumption
    <3> HIDE DEF words
    <3>2. r3.t.struct = <<>> \o words
      BY <1>4, <1>6, <2>4, <2>6 DEF Grown, words
    <3>3. <<>> \o words = words /\ Len(words) # 0
      BY <3>1, ConcatEmptySeq
    <3> QED
      BY <3>2, <3>3
  <2> QED
    BY <1>4, <1>6, <2>3, <2>4, <2>5, <2>6
<1>7. r1.ret = 0 /\ r2.ret = 0 /\ r3.ret # 0 => Undone(r3)
  BY <1>4, <1>6 DEF Safe
<1> HIDE DEF r3
<1>8. ASSUME r1.ret = 0, r2.ret = 0, r3.ret = 0
      PROVE  /\ Safe(r3.t, r4)
             /\ r4.ret = 0 => /\ Plain(r4.t) /\ Told(r4.t, one, <<>>) /\ Laid(r4.t)
                              /\ r4.t.magic = "sw" /\ r4.t.struct # <<>> /\ r4.t.total = size
  <2>1. Sound(r3.t)
    BY <1>6, <1>8 DEF Safe
  <2>2. Safe(r3.t, r4)
    BY <2>1, EndNodeSafe
  <2>3. ASSUME r4.ret = 0
        PROVE  /\ Plain(r4.t) /\ Laid(r4.t) /\ r4.t.magic = "sw" /\ r4.t.total = r3.t.total
               /\ Grown(r3.t, r4.t, <<Tag("endnode")>>, 0)
    BY <1>6, <1>8, <2>1, <2>3, NodePlain, NodeLaid, EndGrows
  <2>4. ASSUME r4.ret = 0 PROVE Told(r4.t, one, <<>>)
    <3>1. <<Root>> # <<>> /\ SubSeq(<<Root>>, 1, Len(<<Root>>) - 1) = <<>>
      OBVIOUS
    <3>2. Told(r4.t, one, SubSeq(<<Root>>, 1, Len(<<Root>>) - 1))
      BY <1>6, <1>8, <2>1, <2>4, <3>1, EndTold
    <3> QED
      BY <3>1, <3>2
  <2> HIDE DEF r4
  <2>5. ASSUME r4.ret = 0 PROVE r4.t.struct # <<>>
    <3>1. r3.t.struct \in Seq(WordSet) /\ <<Tag("endnode")>> \in Seq(WordSet)
      BY <2>1, TagSeq DEF Sound, WriterBlobs, Tags
    <3>2. Len(r4.t.struct) = Len(r3.t.struct) + 1 /\ Len(r3.t.struct) \in Nat
      <4> DEFINE words == <<Tag("endnode")>>
      <4>1. words \in Seq(WordSet) /\ Len(words) = 1 /\ r4.t.struct = r3.t.struct \o words
        BY <2>3, <2>5, <3>1 DEF Grown
      <4> HIDE DEF words
      <4>2. Len(r3.t.struct \o words) = Len(r3.t.struct) + Len(words) /\ Len(r3.t.struct) \in Nat
        BY <3>1, <4>1, ConcatLen
      <4> QED
        BY <4>1, <4>2
    <3> QED
      BY <3>2
  <2> QED
    BY <1>6, <1>8, <2>2, <2>3, <2>4, <2>5
<1>9. r1.ret = 0 /\ r2.ret = 0 /\ r3.ret = 0 /\ r4.ret # 0 => Undone(r4)
  BY <1>6, <1>8, NothingIs DEF Safe, Told
<1> HIDE DEF r4
<1>10. ASSUME r1.ret = 0, r2.ret = 0, r3.ret = 0, r4.ret = 0
       PROVE  /\ Safe(r4.t, r5)
              /\ r5.ret = 0 => /\ Plain(r5.t) /\ Told(r5.t, one, <<>>) /\ r5.t.magic = "fdt"
                               /\ r5.t.total <= size /\ r5.t.total = r5.t.offStrings + r5.t.sizeStrings
  <2>1. Sound(r4.t)
    BY <1>8, <1>10 DEF Safe
  <2>2. Safe(r4.t, r5)
    BY <2>1, FinishSafe
  <2>3. one \in Trees
    BY <1>8, <1>10 DEF Told
  <2>4. one.nodes # Nothing.nodes
    BY NothingIs DEF Nothing
  <2>5. Built(r4.t, one, <<>>)
    <3> HIDE DEF one
    <3> QED
      BY <1>8, <1>10, <2>4 DEF Told
  <2>6. ASSUME r5.ret = 0
        PROVE  /\ Plain(r5.t) /\ Told(r5.t, one, <<>>) /\ r5.t.magic = "fdt"
               /\ r5.t.total <= r4.t.total /\ r5.t.total = r5.t.offStrings + r5.t.sizeStrings
    BY <1>8, <1>10, <2>1, <2>3, <2>5, <2>6, FinishPlain, FinishTold, FinishLaid
  <2> HIDE DEF r5
  <2> QED
    BY <1>8, <1>10, <2>2, <2>6
<1>11. r1.ret = 0 /\ r2.ret = 0 /\ r3.ret = 0 /\ r4.ret = 0 /\ r5.ret # 0 => Undone(r5)
  BY <1>8, <1>10, NothingIs DEF Safe, Told
<1> HIDE DEF r5
<1>12. ASSUME r1.ret = 0, r2.ret = 0, r3.ret = 0, r4.ret = 0, r5.ret = 0
       PROVE  r6.ret = 0 /\ Told(r6.t, one, <<>>)
  <2>1. Sound(r5.t)
    BY <1>10, <1>12 DEF Safe
  <2> HIDE DEF one
  <2> QED
    BY <1>10, <1>12, <2>1, OpenTold
<1>13. one = [Nothing EXCEPT !.nodes = {<<>>}]
  BY DEF Nothing
<1> HIDE DEF r6, one
<1> QED
  BY <1>1, <1>3, <1>5, <1>7, <1>9, <1>11, <1>12, <1>13

-----------------------------------------------------------------------------
(* A call that fails leaves what was told, one that succeeds tells more.   *)
Describing == SoundBlob /\ Told(w, made, open)

LEMMA FailTold == ASSUME Told(w, made, open), w' = w, UNCHANGED <<made, open>>
                  PROVE  Told(w, made, open)'
<1>1. made' = made /\ open' = open
  OBVIOUS
<1> QED
  BY <1>1 DEF Told, Laid, Trees

LEMMA CallFails == ASSUME NEW r, Safe(w, r), r.ret # 0, Do(r), Told(w, made, open),
                          UNCHANGED <<made, open>>
                   PROVE  Told(w, made, open)'
<1>1. w' = w
  BY DEF Safe, Do
<1> QED
  BY <1>1, FailTold

LEMMA NowTold == ASSUME NEW v, NEW m, NEW o, Told(v, m, o), w' = v, made' = m, open' = o
                 PROVE  Told(w, made, open)'
  BY DEF Told

LEMMA StepTold == ASSUME Describing, Next PROVE Told(w, made, open)'
<1>1. Sound(w) /\ Told(w, made, open) /\ open \in Seq(NodeNames)
  BY DEF Describing, SoundBlob, Nesting
<1>2. CASE Create
  <2>1. PICK size \in Sizes, flags \in Flags : /\ w.magic = "none"
                                               /\ Call(FdtCreate(w, size, flags))
    BY <1>2 DEF Create
  <2> DEFINE r == FdtCreate(w, size, flags)
  <2>2. Safe(w, r) /\ (r.ret = 0 => Told(r.t, Nothing, <<>>))
    BY <1>1, CreateSafe, CreateTold, WriterAssumption
  <2>3. Do(r) /\ made' = made /\ open' = open /\ made = Nothing /\ open = <<>>
    BY <1>1, <2>1 DEF Call, Told
  <2> HIDE DEF r
  <2>4. CASE r.ret # 0
    BY <1>1, <2>2, <2>3, <2>4, CallFails
  <2>5. CASE r.ret = 0
    <3>1. w' = r.t
      BY <2>3 DEF Do
    <3> QED
      BY <2>2, <2>3, <2>5, <3>1, NowTold
  <2> QED
    BY <2>4, <2>5
<1>3. CASE ResizeBuffer
  <2>1. PICK size \in Sizes : Call(FdtResize(w, size))
    BY <1>3 DEF ResizeBuffer
  <2> DEFINE r == FdtResize(w, size)
  <2>2. Safe(w, r)
    BY <1>1, ResizeSafe, WriterAssumption
  <2>3. Do(r) /\ made' = made /\ open' = open
    BY <2>1 DEF Call
  <2>4. CASE r.ret # 0
    <3> HIDE DEF r
    <3> QED
      BY <1>1, <2>2, <2>3, <2>4, CallFails
  <2>5. CASE r.ret = 0
    <3>1. /\ w.magic = "sw" /\ r.t.magic = "sw" /\ r.t.offRsv = w.offRsv /\ r.t.rsv = w.rsv
          /\ r.t.offStruct = w.offStruct /\ r.t.strings = w.strings
          /\ r.t.sizeStrings = w.sizeStrings /\ r.t.struct = w.struct
      BY <1>1, <2>5, ResizeIs
    <3> HIDE DEF r
    <3>2. Laid(r.t)
      BY <1>1, <3>1, SameLaid DEF Told
    <3>3. Told(r.t, made, open)
      BY <1>1, <3>1, <3>2, SameTold
    <3>4. w' = r.t
      BY <2>3 DEF Do
    <3> QED
      BY <2>3, <3>3, <3>4, NowTold
  <2> QED
    BY <2>4, <2>5
<1>4. CASE Move
  <2>1. PICK size \in Sizes : Call(FdtMove(w, size))
    BY <1>4 DEF Move
  <2>2. w' = w /\ made' = made /\ open' = open
    BY <2>1 DEF Call, Do, FdtMove, If, Ok, Fail
  <2> QED
    BY <1>1, <2>2, FailTold
<1>5. CASE AddRsv
  <2>1. PICK size \in RsvSizes : Call(FdtAddReservemapEntry(w, size))
    BY <1>5 DEF AddRsv
  <2> DEFINE r == FdtAddReservemapEntry(w, size)
  <2>2. Safe(w, r) /\ size \in Nat
    BY <1>1, AddRsvSafe, WriterAssumption
  <2>3. Do(r) /\ made' = made /\ open' = open
    BY <2>1 DEF Call
  <2>4. CASE r.ret # 0
    <3> HIDE DEF r
    <3> QED
      BY <1>1, <2>2, <2>3, <2>4, CallFails
  <2>5. CASE r.ret = 0
    <3>1. /\ w.magic = "sw" /\ r.t.magic = "sw" /\ Laid(r.t)
          /\ r.t.struct = w.struct /\ r.t.strings = w.strings
      BY <1>1, <2>2, <2>5, AddRsvLaid DEF Told
    <3> HIDE DEF r
    <3>2. Told(r.t, made, open)
      BY <1>1, <3>1, SameTold
    <3>3. w' = r.t
      BY <2>3 DEF Do
    <3> QED
      BY <2>3, <3>2, <3>3, NowTold
  <2> QED
    BY <2>4, <2>5
<1>6. CASE FinishRsv
  <2> DEFINE r == FdtFinishReservemap(w)
  <2>1. Call(r)
    BY <1>6 DEF FinishRsv
  <2>2. Safe(w, r)
    BY <1>1, FinishRsvSafe
  <2>3. Do(r) /\ made' = made /\ open' = open
    BY <2>1 DEF Call
  <2>4. CASE r.ret # 0
    <3> HIDE DEF r
    <3> QED
      BY <1>1, <2>2, <2>3, <2>4, CallFails
  <2>5. CASE r.ret = 0
    <3>1. /\ w.magic = "sw" /\ r.t.magic = "sw" /\ Laid(r.t)
          /\ r.t.struct = w.struct /\ r.t.strings = w.strings
      BY <1>1, <2>5, FinishRsvLaid DEF Told
    <3> HIDE DEF r
    <3>2. Told(r.t, made, open)
      BY <1>1, <3>1, SameTold
    <3>3. w' = r.t
      BY <2>3 DEF Do
    <3> QED
      BY <2>3, <3>2, <3>3, NowTold
  <2> QED
    BY <2>4, <2>5
<1>7. CASE BeginNode
  <2>1. PICK name \in NodeNames :
          LET path == IF open = <<>> THEN <<>> ELSE Append(Here, name)
          IN  /\ MayBegin(name)
              /\ Step(FdtBeginNode(w, name), [made EXCEPT !.nodes = @ \cup {path}],
                      Append(open, name), TRUE)
    BY <1>7 DEF BeginNode
  <2> DEFINE r    == FdtBeginNode(w, name)
             path == IF open = <<>> THEN <<>> ELSE Append(Tail(open), name)
             new  == [made EXCEPT !.nodes = made.nodes \cup {path}]
  <2>2. Safe(w, r) /\ (open = <<>> => w.struct = <<>>)
    BY <1>1, <2>1, BeginNodeSafe DEF MayBegin
  <2>3. /\ Do(r)
        /\ r.ret = 0 => made' = new /\ open' = Append(open, name)
        /\ r.ret # 0 => made' = made /\ open' = open
    BY <2>1 DEF Step, Here
  <2>4. r.ret = 0 => Told(r.t, new, Append(open, name))
    BY <1>1, <2>2, BeginTold
  <2> HIDE DEF r, new
  <2>5. CASE r.ret # 0
    BY <1>1, <2>2, <2>3, <2>5, CallFails
  <2>6. CASE r.ret = 0
    <3>1. w' = r.t
      BY <2>3 DEF Do
    <3> QED
      BY <2>3, <2>4, <2>6, <3>1, NowTold
  <2> QED
    BY <2>5, <2>6
<1>8. CASE Property
  <2>1. PICK x \in PropMenu :
          /\ open # <<>> /\ x[1] = Here
          /\ Step(FdtProperty(w, x[2], x[3]), [made EXCEPT !.props = @ \cup {x}], open, TRUE)
    BY <1>8 DEF Property
  <2> DEFINE r   == FdtProperty(w, x[2], x[3])
             new == [made EXCEPT !.props = made.props \cup {x}]
  <2>2. x[2] \in PropNames /\ x[3] \in Seq(Words)
    BY WriterAssumption
  <2>3. Safe(w, r)
    BY <1>1, <2>2, PropertySafe
  <2>4. /\ Do(r) /\ open' = open
        /\ r.ret = 0 => made' = new
        /\ r.ret # 0 => made' = made
    BY <2>1 DEF Step
  <2>5. r.ret = 0 => Told(r.t, new, open)
    BY <1>1, <2>1, PropertyTold DEF Here
  <2> HIDE DEF r, new
  <2>6. CASE r.ret # 0
    BY <1>1, <2>3, <2>4, <2>6, CallFails
  <2>7. CASE r.ret = 0
    <3>1. w' = r.t
      BY <2>4 DEF Do
    <3> QED
      BY <2>4, <2>5, <2>7, <3>1, NowTold
  <2> QED
    BY <2>6, <2>7
<1>9. CASE EndNode
  <2> DEFINE r     == FdtEndNode(w)
             front == SubSeq(open, 1, Len(open) - 1)
  <2>1. open # <<>> /\ Step(r, made, front, FALSE)
    BY <1>9 DEF EndNode
  <2>2. Safe(w, r)
    BY <1>1, EndNodeSafe
  <2>3. /\ Do(r) /\ made' = made
        /\ r.ret = 0 => open' = front
        /\ r.ret # 0 => open' = open
    BY <2>1 DEF Step
  <2>4. r.ret = 0 => Told(r.t, made, front)
    BY <1>1, <2>1, EndTold
  <2> HIDE DEF r, front
  <2>5. CASE r.ret # 0
    BY <1>1, <2>2, <2>3, <2>5, CallFails
  <2>6. CASE r.ret = 0
    <3>1. w' = r.t
      BY <2>3 DEF Do
    <3> QED
      BY <2>3, <2>4, <2>6, <3>1, NowTold
  <2> QED
    BY <2>5, <2>6
<1>10. CASE Finish
  <2> DEFINE r == FdtFinish(w)
  <2>1. open = <<>> /\ made.nodes # {} /\ Call(r)
    BY <1>10 DEF Finish
  <2>2. Safe(w, r)
    BY <1>1, FinishSafe
  <2>3. Do(r) /\ made' = made /\ open' = <<>>
    BY <2>1 DEF Call
  <2>4. CASE r.ret # 0
    <3> HIDE DEF r
    <3> QED
      BY <1>1, <2>1, <2>2, <2>3, <2>4, CallFails
  <2>5. CASE r.ret = 0
    <3>1. w.magic = "sw"
      BY <1>1, <2>5, FinishLaid DEF Told
    <3>2. Built(w, made, <<>>) /\ Laid(w) /\ made \in Trees
      BY <1>1, <2>1, <3>1, NothingIs DEF Told
    <3>3. Told(r.t, made, <<>>)
      BY <1>1, <2>5, <3>2, FinishTold
    <3> HIDE DEF r
    <3>4. w' = r.t
      BY <2>3 DEF Do
    <3> QED
      BY <2>3, <3>3, <3>4, NowTold
  <2> QED
    BY <2>4, <2>5
<1>11. CASE Early
  <2>1. SwProbeStruct(w) # 0
    BY <1>11 DEF Early
  <2>2. \A r : Do(If(SwProbeStruct(w), w, r)) => w' = w
    BY <2>1 DEF Do, If, Fail
  <2>3. /\ Do(FdtBeginNode(w, Root)) => w' = w
        /\ Do(FdtEndNode(w)) => w' = w
        /\ \A x \in PropMenu : Do(FdtProperty(w, x[2], x[3])) => w' = w
        /\ Do(FdtFinish(w)) => w' = w
    BY <2>2 DEF FdtBeginNode, FdtEndNode, FdtProperty, FdtFinish
  <2>4. w' = w /\ made' = made /\ open' = open
    BY <1>11, <2>3 DEF Early, Call
  <2> QED
    BY <1>1, <2>4, FailTold
<1>12. CASE CreateEmptyTree
  <2>1. PICK size \in Sizes :
          /\ w.magic = "none"
          /\ Step(FdtCreateEmptyTree(w, size, Root), [made EXCEPT !.nodes = {<<>>}], <<>>, FALSE)
    BY <1>12 DEF CreateEmptyTree
  <2> DEFINE r   == FdtCreateEmptyTree(w, size, Root)
             one == [Nothing EXCEPT !.nodes = {<<>>}]
  <2>2. made = Nothing /\ open = <<>> /\ size \in Nat
    BY <1>1, <2>1, WriterAssumption DEF Told
  <2>3. Told(r.t, IF r.ret = 0 THEN one ELSE Nothing, <<>>)
    BY <1>1, <2>2, EmptyTreeTold
  <2>4. w' = r.t /\ made' = (IF r.ret = 0 THEN one ELSE Nothing) /\ open' = <<>>
    BY <2>1, <2>2 DEF Step, Do
  <2> HIDE DEF r, one
  <2> QED
    BY <2>3, <2>4, NowTold
<1> QED
  BY <1>2, <1>3, <1>4, <1>5, <1>6, <1>7, <1>8, <1>9, <1>10, <1>11, <1>12 DEF Describing, Next

LEMMA InitTold == ASSUME Init PROVE Told(w, made, open)
<1>1. w.magic = "none" /\ made = Nothing /\ open = <<>>
  BY GarbageBlob DEF Init
<1> QED
  BY <1>1, NothingIs DEF Told, Laid

(* What the buffer holds is at every moment what the calls described.      *)
THEOREM DescribingAlways == Spec => []Describing
<1>1. Init => Describing
  BY InitSound, InitTold DEF Describing
<1>2. Describing /\ [Next]_wvars => Describing'
  <2> SUFFICES ASSUME Describing, [Next]_wvars PROVE Describing'
    OBVIOUS
  <2>1. SoundBlob'
    BY StepSound DEF Describing
  <2>2. CASE Next
    BY <2>1, <2>2, StepTold DEF Describing
  <2>3. CASE UNCHANGED wvars
    <3>1. w' = w /\ UNCHANGED <<made, open>>
      BY <2>3 DEF wvars
    <3> QED
      BY <2>1, <3>1, FailTold DEF Describing
  <2> QED
    BY <2>2, <2>3
<1> QED
  BY <1>1, <1>2, PTL DEF Spec

(* Blocks one behind the other do not overlap.                             *)
LEMMA InOrder ==
  ASSUME NEW a \in Nat, NEW b \in Nat, NEW c \in Nat, NEW d \in Nat, NEW e \in Nat,
         a <= b, b <= c, c <= d, d <= e
  PROVE  LET blocks == {<<0, a>>, <<a, b>>, <<b, c>>, <<c, d>>, <<e, e + 1>>}
         IN  /\ \A x, y \in blocks : x = y \/ x[2] <= y[1] \/ y[2] <= x[1]
             /\ \A x \in blocks : x[1] <= e
  OBVIOUS

LEMMA WrittenLaidOut ==
  ASSUME NEW v, Sound(v), Laid(v), v.magic = "fdt"
  PROVE  FdtCheckHeader(v) = 0 /\ WellLaidOut(v) /\ v.sizeStrings = SumWords(v.strings)
<1>1. /\ v.offRsv = HeaderWords /\ v.offStruct = HeaderWords + RsvWords * Len(v.rsv)
      /\ v.sizeStrings = SumWords(v.strings) /\ v.offStrings = v.offStruct + Len(v.struct)
      /\ v.offStruct + Len(v.struct) + v.sizeStrings <= v.total
  BY DEF Sound, Apart, Laid
<1>2. /\ v.rsv \in Seq(Nat) /\ v.struct \in Seq(WordSet) /\ v.sizeStrings \in Nat
      /\ v.total \in Nat /\ v.offStruct \in Nat /\ v.offStrings \in Nat
  BY DEF Sound, WriterBlobs
<1>3. Len(v.rsv) \in Nat /\ Len(v.struct) \in Nat
  BY <1>2, LenProperties
<1> DEFINE a == HeaderWords
           b == v.offStruct
           c == v.offStrings
           d == StringsEnd(v)
<1>4. /\ a \in Nat /\ b \in Nat /\ c \in Nat /\ d \in Nat /\ d = c + v.sizeStrings
      /\ a <= b /\ b <= c /\ c <= d /\ d <= v.total
  <2>1. d = c + v.sizeStrings
    BY <1>1 DEF StringsEnd
  <2> HIDE DEF d
  <2> DEFINE n == Len(v.rsv)
             l == Len(v.struct)
             k == v.sizeStrings
             t == v.total
  <2>2. b = 10 + 4 * n /\ c = b + l /\ b + l + k <= t /\ d = c + k
    BY <1>1, <2>1 DEF HeaderWords, RsvWords
  <2>3. n \in Nat /\ l \in Nat /\ k \in Nat /\ t \in Nat /\ b \in Nat /\ c \in Nat
    BY <1>2, <1>3
  <2> HIDE DEF b, c, n, l, k, t
  <2>4. d \in Nat /\ 10 <= b /\ b <= c /\ c <= d /\ d <= t
    BY <2>2, <2>3
  <2>5. a = 10 /\ a \in Nat /\ d = c + k
    BY <2>2 DEF HeaderWords
  <2> QED
    BY <2>3, <2>4, <2>5 DEF k, t
<1>5. FdtCheckHeader(v) = 0
  <2>1. Inside(v, v.offRsv) /\ Inside(v, v.offStruct) /\ Inside(v, StructTop(v))
        /\ Inside(v, v.offStrings) /\ Inside(v, v.offStrings + v.sizeStrings)
        /\ ~(v.total < HeaderWords)
    BY <1>1, <1>2, <1>3, <1>4 DEF Inside, StructTop, HeaderWords
  <2> QED
    BY <2>1 DEF FdtCheckHeader
<1>6. Blocks(v) = {<<0, a>>, <<a, b>>, <<b, c>>, <<c, d>>, <<v.total, v.total + 1>>}
  <2>1. v.offRsv = a /\ v.offRsv + RsvWords * Len(v.rsv) = b /\ v.offStruct = b
        /\ v.offStruct + Len(v.struct) = c /\ v.offStrings = c
    BY <1>1
  <2> HIDE DEF a, b, c, d
  <2> QED
    BY <2>1 DEF Blocks, d, a
<1> HIDE DEF a, b, c, d
<1>7. WellLaidOut(v)
  BY <1>2, <1>4, <1>6, InOrder DEF WellLaidOut
<1> QED
  BY <1>1, <1>5, <1>7

(* A finished blob reads back as the tree the calls described, whatever    *)
(* names were shared and in whatever buffers it grew (fdt_sw.c:337-384;    *)
(* fdt.c, fdt_ro.c).                                                       *)
THEOREM FinishedTreeAlways == Spec => []FinishedTree
<1>1. Describing => FinishedTree
  <2> SUFFICES ASSUME Describing, w.magic = "fdt" PROVE FinishedTree
    BY DEF FinishedTree
  <2>1. Sound(w) /\ Told(w, made, open) /\ Laid(w)
    BY DEF Describing, SoundBlob, Told
  <2>2. TreeOf(w).ok = TRUE /\ TreeOf(w).nodes = made.nodes /\ TreeOf(w).props = made.props
    BY <2>1 DEF Told
  <2>3. FdtCheckHeader(w) = 0 /\ WellLaidOut(w) /\ w.sizeStrings = SumWords(w.strings)
    BY <2>1, WrittenLaidOut
  <2> QED
    BY <2>2, <2>3 DEF FinishedTree, Written
<1> QED
  BY <1>1, DescribingAlways, PTL
=============================================================================
