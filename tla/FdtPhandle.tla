----------------------------- MODULE FdtPhandle -----------------------------
(***************************************************************************)
(* Nodes that refer to each other: phandles, the paths of nodes, and the   *)
(* walks over the children and the properties of a node that the overlay   *)
(* code makes (libfdt/fdt_ro.c, the loops of libfdt.h).  A phandle is a    *)
(* cell: a number below Radix.                                             *)
(***************************************************************************)
EXTENDS FdtAddr

BADPATH    == -5
BADPHANDLE == -6
BADVALUE   == -15
NOPHANDLES == -17

NoPhandle  == Radix - 1                      \* (uint32_t)-1
MaxPhandle == Radix - 2                      \* FDT_MAX_PHANDLE

(* fdt_for_each_subnode and fdt_for_each_property_offset.                  *)
Children(s, o) ==
  LET Go[c \in Int] == IF c < 0 THEN <<>> ELSE <<c>> \o Go[NextSubnode(s, c)]
  IN  Go[FirstSubnode(s, o)]

Properties(s, o) ==
  LET Go[p \in Int] == IF p < 0 THEN <<>> ELSE <<p>> \o Go[NextProp(s, CheckTag(s, p, "prop"))]
      From(first)   == IF first < 0 THEN <<>> ELSE Go[NextProp(s, first)]
  IN  From(CheckTag(s, o, "begin"))

NodeName(s, o) == s[o + 2][2]                \* fdt_get_name
PropName(t, p) == t.strings[t.struct[p + 3][2]]

----------------------------------------------------------------------------
(* The number in a property of exactly one cell, as a set of none or one.  *)
SoleCell(t, o, name) ==
  LET At(p) == IF p >= 0 /\ PropLen(t, p) = 1 THEN {PropValue(t, p)[1][2]} ELSE {}
  IN  At(PropOffset(t, o, name))

FdtGetPhandle(t, o) ==
  LET Linux(cells) == IF cells = {} THEN 0 ELSE CHOOSE c \in cells : TRUE
      First(cells) == IF cells = {} THEN Linux(SoleCell(t, o, "linux,phandle"))
                      ELSE CHOOSE c \in cells : TRUE
  IN  First(SoleCell(t, o, "phandle"))

(* The highest phandle of the tree, or an error.                           *)
FindMaxPhandle(t) ==
  LET Higher(a, b) == IF a > b THEN a ELSE b
      Go[o \in Int, max \in Nat] ==
        IF o = NOTFOUND THEN max
        ELSE IF o < 0 THEN o
        ELSE Go[NextNodeAny(t.struct, o), Higher(FdtGetPhandle(t, o), max)]
  IN  Go[NextNodeAny(t.struct, -1), 0]

GeneratePhandle(t) ==
  LET After(max) == IF max < 0 THEN max ELSE IF max = MaxPhandle THEN NOPHANDLES ELSE max + 1
  IN  After(FindMaxPhandle(t))

NodeByPhandle(t, phandle) ==
  LET Go[o \in Int] == IF o < 0 \/ FdtGetPhandle(t, o) = phandle THEN o
                       ELSE Go[NextNodeAny(t.struct, o)]
  IN  IF phandle \in {0, NoPhandle} THEN BADPHANDLE ELSE Go[NextNodeAny(t.struct, -1)]

(* fdt_node_offset_by_prop_value: the first node behind o with this value. *)
NodeByPropValue(t, o, name, v) ==
  LET Has(p)      == p >= 0 /\ PropValue(t, p) = v
      Go[n \in Int] == IF n < 0 \/ Has(PropOffset(t, n, name)) THEN n
                       ELSE Go[NextNodeAny(t.struct, n)]
  IN  Go[NextNodeAny(t.struct, o)]

----------------------------------------------------------------------------
(* A path takes a slash in front of each name; the root's is a slash.  The *)
(* length of a name is counted in its words.                               *)
NamesSize(names) ==
  LET Sum[i \in 0 .. Len(names)] == IF i = 0 THEN 0 ELSE Sum[i - 1] + NameWords[names[i]] + 1
  IN  Sum[Len(names)]
PathSize(path) == IF path = <<>> THEN 1 ELSE NamesSize(path)

GetPathLenNames(t, o) ==                     \* mutant: slashes not counted
  LET Up[n \in Int, len \in Nat] ==
        IF n < 0 THEN n
        ELSE IF n = 0 THEN IF len = 0 THEN 1 ELSE len
        ELSE Up[ParentOffset(t.struct, n), len + NameWords[NodeName(t.struct, n)]]
  IN  Up[o, 0]

(* get_path_len (fdt_overlay.c): up from the node to the root.             *)
GetPathLen(t, o) ==
  LET Up[n \in Int, len \in Nat] ==
        IF n < 0 THEN n
        ELSE IF n = 0 THEN IF len = 0 THEN 1 ELSE len
        ELSE Up[ParentOffset(t.struct, n), len + NameWords[NodeName(t.struct, n)] + 1]
  IN  Up[o, 0]

(* fdt_get_path into a buffer of buflen: the walk keeps the names of the   *)
(* nodes above where it is, as far as they fit.                            *)
GetPath(t, o, buflen) ==
  LET None(e) == [ret |-> e, path |-> <<>>]
      Used(names) == 1 + NamesSize(Tail(names))          \* the root's name is empty
      Kept(names, depth) == SubSeq(names, 1, IF Len(names) < depth THEN Len(names) ELSE depth)
      Extended(names, depth, name) ==
        IF Len(names) < depth \/ (names # <<>> /\ Used(Append(names, name)) > buflen) THEN names
        ELSE Append(names, name)
      Go[n \in NodesMet, names \in Seq(NodeNames)] ==
        IF n.off < 0 \/ n.off > o
          THEN None(IF n.off = NOTFOUND \/ n.off >= 0 THEN BADOFFSET
                    ELSE IF n.off = BADOFFSET THEN BADSTRUCTURE ELSE n.off)
        ELSE LET now == Extended(Kept(names, n.depth), n.depth, NodeName(t.struct, n.off))
             IN  IF n.off # o THEN Go[NextNode(t.struct, n.off, n.depth), now]
                 ELSE IF Len(now) < n.depth + 1 THEN None(NOSPACE)
                 ELSE [ret |-> 0, path |-> Tail(now)]
  IN  IF buflen < 2 THEN None(NOSPACE) ELSE Go[[off |-> 0, depth |-> 0], <<>>]

(* fdt_setprop_inplace_namelen_partial: part of a value, from word i on.   *)
SetPropPartial(t, o, name, i, v) ==
  LET Set(p) == IF p < 0 THEN Fail(p, t)
                ELSE IF PropLen(t, p) < i + Len(v) THEN Fail(NOSPACE, t)
                ELSE Ok([t EXCEPT !.struct = Spliced(@, p + 3 + i, Len(v), v)])
  IN  Set(PropOffset(t, o, name))

(* fdt_appendprop_addrrange: an address and a size appended to a property, *)
(* each in as many cells as the parent says.  UINT32_MAX + 1 is zero: the  *)
(* test of the end of the range is made in 64 bits (Radix * Radix).        *)
TooBigFor1(addr, size) == addr >= Radix \/ (-addr) % (Radix * Radix) < size

AppendPropAddrRange(t, parent, o, name, addr, size) ==
  LET InCells(x, n) == IF n = 1 THEN <<Value(x)>> ELSE <<Value(x \div Radix), Value(x % Radix)>>
      Refused(ac, sc) == IF ac = 1 /\ TooBigFor1(addr, size) THEN BADVALUE
                         ELSE IF ac \notin {1, 2} THEN BADNCELLS
                         ELSE IF sc = 1 /\ size >= Radix THEN BADVALUE
                         ELSE IF sc \notin {1, 2} THEN BADNCELLS ELSE 0
      Appended(ac, sc, e) == IF e # 0 THEN Fail(e, t)
                             ELSE FdtAppendProp(t, o, name, InCells(addr, ac) \o InCells(size, sc))
      By(ac, sc) == IF ac < 0 THEN Fail(ac, t)
                    ELSE IF sc < 0 THEN Fail(sc, t)
                    ELSE Appended(ac, sc, Refused(ac, sc))
  IN  By(AddressCells(t, parent), SizeCells(t, parent))
=============================================================================
