------------------------------- MODULE FdtSw --------------------------------
(***************************************************************************)
(* Writing a device tree blob from its beginning to its end:               *)
(* libfdt/fdt_sw.c and fdt_empty_tree.c.  Every function is an operator    *)
(* from what is in the buffer to its return value and what it leaves in    *)
(* the buffer.  The structure grows upwards behind the reserve map and the *)
(* strings grow downwards from the end of the buffer; until fdt_finish a   *)
(* property names its string by its place counted back from the end: -1 is *)
(* the one that was added first.                                           *)
(***************************************************************************)
EXTENDS FdtRw

(* A property name longer than all that is left of the buffer and the      *)
(* header together would wrap around the test of fdt_add_string_.          *)
ASSUME SwAssumption == \A p \in PropNames : StringWords[p] <= HeaderWords

BADSTATE == -7
BADMAGIC == -9
BADFLAGS == -18

(* magic is the magic word: "sw" while the blob is being written and       *)
(* "fdt" when it is finished; sizeStrings is size_dt_strings.              *)
Garbage == [magic |-> "none", flags |-> "none", total |-> 0, offRsv |-> 0, rsv |-> <<>>,
            offStruct |-> 0, struct |-> <<>>, offStrings |-> 0, strings |-> <<>>, sizeStrings |-> 0]

StructTop(w) == w.offStruct + Len(w.struct)

(* fdt_sw_probe_, fdt_sw_probe_memrsv_ and fdt_sw_probe_struct_: zero, or  *)
(* why the function is refused.  The state is kept in off_dt_strings.      *)
SwProbe(w) == IF w.magic = "fdt" THEN BADSTATE ELSE IF w.magic # "sw" THEN BADMAGIC ELSE 0
SwProbeMemRsv(w) == IF SwProbe(w) # 0 THEN SwProbe(w) ELSE IF w.offStrings # 0 THEN BADSTATE ELSE 0
SwProbeStruct(w) ==
  IF SwProbe(w) # 0 THEN SwProbe(w) ELSE IF w.offStrings # w.total THEN BADSTATE ELSE 0

(* The result r of a function, unless its probe refuses it.                *)
If(probe, w, r) == IF probe # 0 THEN Fail(probe, w) ELSE r

----------------------------------------------------------------------------
(* fdt_create_with_flags; fdt_create has no flags.                         *)
FdtCreate(w, bufsize, flags) ==
  IF bufsize < HeaderWords THEN Fail(NOSPACE, w)
  ELSE IF flags \notin {"none", "no name dedup"} THEN Fail(BADFLAGS, w)
  ELSE Ok([Garbage EXCEPT !.magic = "sw", !.flags = flags, !.total = bufsize,
                          !.offRsv = HeaderWords, !.offStruct = HeaderWords])

(* Head and tail move to a buffer of another size.                         *)
FdtResize(w, bufsize) ==
  If(SwProbe(w), w,
     IF StructTop(w) + w.sizeStrings > w.total THEN Fail(INTERNAL, w)
     ELSE IF StructTop(w) + w.sizeStrings > bufsize THEN Fail(NOSPACE, w)
     ELSE Ok([w EXCEPT !.total = bufsize, !.offStrings = IF @ # 0 THEN bufsize ELSE 0]))

FdtAddReservemapEntry(w, size) ==
  If(SwProbeMemRsv(w), w,
     IF w.offStruct + RsvWords > w.total THEN Fail(NOSPACE, w)
     ELSE Ok([w EXCEPT !.rsv = Append(@, size), !.offStruct = @ + RsvWords]))

FdtFinishReservemap(w) ==
  LET Open(r) == IF r.ret # 0 THEN r ELSE Ok([r.t EXCEPT !.offStrings = r.t.total])
  IN  Open(FdtAddReservemapEntry(w, 0))

(* fdt_grab_space_, with the words the caller writes there.                *)
GrabSpaceToEnd(w, words) ==                       \* mutant: strings not counted
  IF Len(w.struct) + Len(words) > w.total - w.offStruct THEN Fail(NOSPACE, w)
  ELSE Ok([w EXCEPT !.struct = @ \o words])
GrabSpaceAll(w, words) ==                         \* mutant: the last word never used
  IF Len(w.struct) + Len(words) >= w.total - w.offStruct - w.sizeStrings THEN Fail(NOSPACE, w)
  ELSE Ok([w EXCEPT !.struct = @ \o words])
GrabSpace(w, words) ==
  IF Len(w.struct) + Len(words) > w.total - w.offStruct - w.sizeStrings THEN Fail(NOSPACE, w)
  ELSE Ok([w EXCEPT !.struct = @ \o words])

FdtBeginNode(w, name) == If(SwProbeStruct(w), w, GrabSpace(w, <<Tag("begin")>> \o NameOf(name)))
FdtEndNode(w) == If(SwProbeStruct(w), w, GrabSpace(w, <<Tag("endnode")>>))

(* fdt_add_string_: the name below all others, unless it would reach into  *)
(* the structure; the result is its place, or 0.                           *)
AddString(w, name) ==
  LET left == w.total - (w.sizeStrings + StringWords[name])
  IN  IF left >= 0 /\ left < StructTop(w) THEN [ret |-> 0, t |-> w]
      ELSE [ret |-> -(Len(w.strings) + 1),
            t |-> [w EXCEPT !.strings = <<name>> \o @,
                            !.sizeStrings = @ + StringWords[name]]]

(* fdt_find_add_string_: the copy of the name at the lowest address, or    *)
(* a new one.                                                              *)
FindOrAddString(w, name) ==
  LET found == {i \in DOMAIN w.strings : w.strings[i] = name}
      First == CHOOSE i \in found : \A j \in found : i <= j
  IN  IF found # {} THEN [ret |-> First - (Len(w.strings) + 1), t |-> w] ELSE AddString(w, name)

(* fdt_property: a string added for a property that does not fit goes      *)
(* again (fdt_del_last_string_).                                           *)
NameFor(w, name) == IF w.flags = "no name dedup" THEN AddString(w, name) ELSE FindOrAddString(w, name)

FdtPropertyNoRollback(w, name, v) ==              \* mutant: string not deleted
  LET Put(str) == IF str.ret = 0 THEN Fail(NOSPACE, w)
                  ELSE GrabSpace(str.t, PropWords(str.ret, v))
  IN  If(SwProbeStruct(w), w, Put(NameFor(w, name)))
FdtProperty(w, name, v) ==
  LET OrBack(r) == IF r.ret # 0 THEN Fail(r.ret, w) ELSE r
      Put(str)  == IF str.ret = 0 THEN Fail(NOSPACE, w)
                   ELSE OrBack(GrabSpace(str.t, PropWords(str.ret, v)))
  IN  If(SwProbeStruct(w), w, Put(NameFor(w, name)))

(* fdt_finish: the end tag; the strings move down behind it, and every     *)
(* property gets the place of its name counted from the first string.      *)
FromFirst(s, n) ==
  [i \in DOMAIN s |-> IF s[i][1] = "nameoff" THEN NameOff(s[i][2] + n) ELSE s[i]]

FdtFinishStale(w) ==                              \* mutant: nameoff not corrected
  LET Close(r) == IF r.ret # 0 THEN r
                  ELSE Ok([r.t EXCEPT !.magic = "fdt", !.flags = "none",
                                      !.offStrings = StructTop(r.t),
                                      !.total = StructTop(r.t) + r.t.sizeStrings])
  IN  If(SwProbeStruct(w), w, Close(GrabSpace(w, <<Tag("end")>>)))
FdtFinish(w) ==
  LET Close(r) == IF r.ret # 0 THEN r
                  ELSE Ok([r.t EXCEPT !.magic = "fdt", !.flags = "none",
                                      !.struct = FromFirst(@, Len(r.t.strings) + 1),
                                      !.offStrings = StructTop(r.t),
                                      !.total = StructTop(r.t) + r.t.sizeStrings])
  IN  If(SwProbeStruct(w), w, Close(GrabSpace(w, <<Tag("end")>>)))

(* fdt_create_empty_tree: each call on what the one before it left, and    *)
(* the blob is opened into its own buffer.                                 *)
FdtCreateEmptyTree(w, bufsize, root) ==
  LET Opened(r)   == IF r.ret # 0 THEN r ELSE FdtOpenInto(r.t, bufsize, FALSE)
      Finished(r) == IF r.ret # 0 THEN r ELSE Opened(FdtFinish(r.t))
      Ended(r)    == IF r.ret # 0 THEN r ELSE Finished(FdtEndNode(r.t))
      Begun(r)    == IF r.ret # 0 THEN r ELSE Ended(FdtBeginNode(r.t, root))
      Mapped(r)   == IF r.ret # 0 THEN r ELSE Begun(FdtFinishReservemap(r.t))
  IN  Mapped(FdtCreate(w, bufsize, "none"))

----------------------------------------------------------------------------
(* Reading a blob that may be unfinished: fdt_get_string counts the names  *)
(* of one from the end of the buffer.                                      *)
ReadableOffByOne(w) ==                       \* mutant: counted from one before the end
  IF w.magic = "sw" THEN [w EXCEPT !.struct = FromFirst(@, Len(w.strings))] ELSE w
Readable(w) == IF w.magic = "sw"
                 THEN [w EXCEPT !.struct = FromFirst(@, Len(w.strings) + 1)]
               ELSE w

(* fdt_ro_probe_, on a blob of any size.                                   *)
RoProbe(w) == IF w.magic = "fdt" THEN 0
              ELSE IF w.magic # "sw" THEN BADMAGIC
              ELSE IF Len(w.struct) = 0 THEN BADSTATE ELSE 0

(* fdt_check_header, of a blob of the latest version.                      *)
Inside(w, off) == HeaderWords <= off /\ off <= w.total
FdtCheckHeader(w) ==
  IF w.magic # "fdt" THEN BADMAGIC
  ELSE IF w.total < HeaderWords \/ ~Inside(w, w.offRsv) THEN TRUNCATED
  ELSE IF ~(Inside(w, w.offStruct) /\ Inside(w, StructTop(w))) THEN TRUNCATED
  ELSE IF ~(Inside(w, w.offStrings) /\ Inside(w, w.offStrings + w.sizeStrings)) THEN TRUNCATED
  ELSE 0

(* fdt_move into a buffer of another size.                                 *)
FdtMove(w, bufsize) ==
  If(RoProbe(w), w, IF w.total > bufsize THEN Fail(NOSPACE, w) ELSE Ok(w))
=============================================================================
