------------------------------- MODULE FdtRw --------------------------------
(***************************************************************************)
(* Changing a device tree blob in place: libfdt/fdt_rw.c and fdt_wip.c.    *)
(* Every operation is an operator from a blob to its return value and the  *)
(* blob it leaves.                                                         *)
(***************************************************************************)
EXTENDS Fdt

Ok(t) == [ret |-> 0, t |-> t]
Fail(e, t) == [ret |-> e, t |-> t]

(* fdt_splice_: may old words at absolute offset at give way to new ones?  *)
SpliceErr(t, at, old, new) ==
  LET Check(dsize) == IF old < 0 \/ at + old > dsize \/ dsize + new < old THEN BADOFFSET
                      ELSE IF dsize - old + new > t.total THEN NOSPACE
                      ELSE 0
  IN  Check(StringsEnd(t))

(* A splice is made unless there is an error.                              *)
SpliceOr(e, t, changed) == IF e # 0 THEN Fail(e, t) ELSE Ok(changed)

Spliced(s, p, old, words) == SubSeq(s, 1, p) \o words \o SubSeq(s, p + old + 1, Len(s))

SpliceStructOnly(t, p, old, words) ==                   \* mutant: offsets not shifted
  SpliceOr(SpliceErr(t, t.offStruct + p, old, Len(words)), t,
         [t EXCEPT !.struct = Spliced(@, p, old, words)])

(* fdt_splice_struct_ at structure offset p, with the words that the       *)
(* caller then writes there.                                               *)
SpliceStruct(t, p, old, words) ==
  SpliceOr(SpliceErr(t, t.offStruct + p, old, Len(words)), t,
         [t EXCEPT !.struct = Spliced(@, p, old, words),
                   !.offStrings = @ + Len(words) - old])

(* fdt_splice_mem_rsv_: the structure block moves too.                     *)
SpliceRsv(t, n, old, entries) ==
  LET delta == RsvWords * (Len(entries) - old)
  IN  SpliceOr(SpliceErr(t, t.offRsv + RsvWords * n, RsvWords * old, RsvWords * Len(entries)), t,
             [t EXCEPT !.rsv = Spliced(@, n, old, entries),
                       !.offStruct = @ + delta,
                       !.offStrings = @ + delta])

(* fdt_find_add_string_: index of the string, appended when it is new.     *)
FindAddString(t, name) ==
  LET found == {i \in DOMAIN t.strings : t.strings[i] = name}
      Added(e) == IF e # 0 THEN Fail(e, t)
                  ELSE [ret |-> Len(t.strings) + 1, t |-> [t EXCEPT !.strings = Append(@, name)]]
  IN  IF found # {} THEN [Ok(t) EXCEPT !.ret = CHOOSE i \in found : \A j \in found : i <= j]
      ELSE Added(SpliceErr(t, StringsEnd(t), 0, StringWords[name]))

AddPropertyNoRollback(t, o, name, v) ==                 \* mutant: string not deleted
  LET AddAt(first, str) == IF first < 0 THEN Fail(first, t)
                           ELSE IF str.ret < 0 THEN Fail(str.ret, t)
                           ELSE SpliceStruct(str.t, first, 0, PropWords(str.ret, v))
  IN  AddAt(CheckTag(t.struct, o, "begin"), FindAddString(t, name))

(* fdt_add_property_: in front of the node's other properties; a string    *)
(* added for it goes when the property does not fit.                       *)
AddProperty(t, o, name, v) ==
  LET OrBack(r) == IF r.ret < 0 THEN Fail(r.ret, t) ELSE r
      AddAt(first, str) == IF first < 0 THEN Fail(first, t)
                           ELSE IF str.ret < 0 THEN Fail(str.ret, t)
                           ELSE OrBack(SpliceStruct(str.t, first, 0, PropWords(str.ret, v)))
  IN  AddAt(CheckTag(t.struct, o, "begin"), FindAddString(t, name))

(* The property at p gets value v: its words are replaced, then its length.*)
Resize(t, p, v) ==
  LET Measured(r) == IF r.ret < 0 THEN r ELSE [r EXCEPT !.t.struct[p + 2] = Length(Len(v))]
  IN  Measured(SpliceStruct(t, p + 3, PropLen(t, p), v))

----------------------------------------------------------------------------
FdtSetProp(t, o, name, v) ==
  LET Set(p) == IF p >= 0 THEN Resize(t, p, v)
                ELSE IF p = NOTFOUND THEN AddProperty(t, o, name, v)
                ELSE Fail(p, t)
  IN  Set(PropOffset(t, o, name))

(* fdt_appendprop adds the property on any error of the look-up.           *)
FdtAppendProp(t, o, name, v) ==
  LET Extend(p) == IF p >= 0 THEN Resize(t, p, PropValue(t, p) \o v)
                   ELSE AddProperty(t, o, name, v)
  IN  Extend(PropOffset(t, o, name))

FdtDelProp(t, o, name) ==
  LET Del(p) == IF p < 0 THEN Fail(p, t) ELSE SpliceStruct(t, p, 3 + PropLen(t, p), <<>>)
  IN  Del(PropOffset(t, o, name))

FdtSetNameNew(t, o, name) ==                            \* mutant: wrong length replaced
  LET Set(next) == IF next < 0 THEN Fail(next, t)
                   ELSE SpliceStruct(t, o + 1, NameWords[name], NameOf(name))
  IN  Set(CheckTag(t.struct, o, "begin"))

FdtSetName(t, o, name) ==
  LET Set(next) == IF next < 0 THEN Fail(next, t)
                   ELSE SpliceStruct(t, o + 1, NameWords[t.struct[o + 2][2]], NameOf(name))
  IN  Set(CheckTag(t.struct, o, "begin"))

BehindTag(s, o) == NextTag(s, o).next                   \* mutant: properties not skipped

(* The first tag behind o that is neither a property nor a nop.            *)
AfterProps(s, o) == Skip(s, NextTag(s, o).next, {"prop", "nop"})

FdtAddSubnode(t, o, name) ==
  LET Placed(r, at) == IF r.ret < 0 THEN r ELSE [r EXCEPT !.ret = at]
      AddAt(at)  == Placed(SpliceStruct(t, at, 0, NodeWords(name)), at)
      Add(child) == IF child >= 0 THEN Fail(EXISTS, t)
                    ELSE IF child # NOTFOUND THEN Fail(child, t)
                    ELSE IF NextTag(t.struct, o).tag # "begin" THEN Fail(INTERNAL, t)
                    ELSE AddAt(AfterProps(t.struct, o))
  IN  Add(SubnodeOffset(t.struct, o, name))

FdtDelNode(t, o) ==
  LET Del(end) == IF end < 0 THEN Fail(end, t) ELSE SpliceStruct(t, o, end - o, <<>>)
  IN  Del(NodeEnd(t.struct, o))

(* fdt_num_mem_rsv: entries in front of the first of size zero.            *)
NumRsv(t) == CHOOSE n \in 0 .. Len(t.rsv) - 1 :
               t.rsv[n + 1] = 0 /\ \A i \in 1 .. n : t.rsv[i] # 0

FdtAddMemRsv(t, size) == SpliceRsv(t, NumRsv(t), 0, <<size>>)

FdtDelMemRsv(t, n) ==
  IF n >= NumRsv(t) THEN Fail(NOTFOUND, t) ELSE SpliceRsv(t, n, 1, <<>>)

----------------------------------------------------------------------------
(* fdt_wip.c: changes that move nothing.                                   *)
FdtSetPropInplace(t, o, name, v) ==
  LET Set(p) == IF p < 0 THEN Fail(p, t)
                ELSE IF PropLen(t, p) # Len(v) THEN Fail(NOSPACE, t)
                ELSE Ok([t EXCEPT !.struct = Spliced(@, p + 3, Len(v), v)])
  IN  Set(PropOffset(t, o, name))

NopRegion(t, p, len) ==
  Ok([t EXCEPT !.struct = Spliced(@, p, len, [i \in 1 .. len |-> Tag("nop")])])

FdtNopProperty(t, o, name) ==
  LET Nop(p) == IF p < 0 THEN Fail(p, t) ELSE NopRegion(t, p, 3 + PropLen(t, p))
  IN  Nop(PropOffset(t, o, name))

FdtNopNode(t, o) ==
  LET Nop(end) == IF end < 0 THEN Fail(end, t) ELSE NopRegion(t, o, end - o)
  IN  Nop(NodeEnd(t.struct, o))

----------------------------------------------------------------------------
(* fdt_packblocks_: the blocks one behind the other.  The entries of the   *)
(* reserve map behind the first terminator are not taken along.            *)
Packed(t) ==
  LET Keep(n) == [t EXCEPT !.offRsv = HeaderWords,
                           !.rsv = SubSeq(@, 1, n),
                           !.offStruct = HeaderWords + RsvWords * n,
                           !.offStrings = HeaderWords + RsvWords * n + Len(t.struct)]
  IN  Keep(NumRsv(t) + 1)

FdtPack(t) == LET Shrunk(p) == Ok([p EXCEPT !.total = StringsEnd(p)]) IN Shrunk(Packed(t))

(* fdt_blocks_misordered_, with rsvwords for the reserve map.              *)
Misordered(t, rsvwords) == \/ t.offRsv < HeaderWords
                           \/ t.offStruct < t.offRsv + rsvwords
                           \/ t.offStrings < t.offStruct + Len(t.struct)
                           \/ t.total < StringsEnd(t)

(* FDT_RW_PROBE: an operation of fdt_rw.c with result r refuses a blob     *)
(* whose blocks are out of order.                                          *)
Rw(t, r) == IF Misordered(t, RsvWords) THEN Fail(BADLAYOUT, t) ELSE r

(* fdt_open_into: blocks in order are copied as they are, others are put   *)
(* in order, behind the old blob first when it is opened into itself.      *)
FdtOpenInto(t, bufsize, apart) ==
  LET newsize == StringsEnd(Packed(t))
      needed  == IF apart THEN newsize ELSE t.total + newsize
  IN  IF ~Misordered(t, RsvWords * (NumRsv(t) + 1))
        THEN IF t.total > bufsize THEN Fail(NOSPACE, t) ELSE Ok([t EXCEPT !.total = bufsize])
      ELSE IF bufsize < needed THEN Fail(NOSPACE, t)
      ELSE Ok([Packed(t) EXCEPT !.total = bufsize])
=============================================================================
