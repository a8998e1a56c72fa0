------------------------------ MODULE FdtMake -------------------------------
(***************************************************************************)
(* A program that writes a device tree as FdtWriter does, opens it in a    *)
(* larger buffer and merges overlays into it, one after another, whatever  *)
(* became of those before.                                                 *)
(***************************************************************************)
EXTENDS FdtWriter, FdtOverlay, FdtStrings
LOCAL INSTANCE FiniteSetsExt

CONSTANTS Overlays,    \* overlays as a compiler delivers them
          Buffers,     \* sizes of the buffer the tree is opened into
          MaxOverlays  \* how many overlays the program merges

VARIABLES fdt,     \* the base tree in its buffer
          fdto,    \* the last overlay, as fdt_overlay_apply left it
          source,  \* that overlay as it was delivered
          before,  \* the base tree in front of that overlay
          merged   \* how many overlays were tried

mvars == <<w, ret, made, open, props, fdt, fdto, source, before, merged>>
overlayVars == <<fdto, source, before, merged>>

MInit == /\ Init
         /\ fdt = Garbage /\ fdto = Garbage /\ source = Garbage /\ before = Garbage
         /\ merged = 0

Write == fdt.magic = "none" /\ Next /\ UNCHANGED <<fdt, overlayVars>>

Opened(r) == ret' = r.ret /\ fdt' = IF r.ret = 0 THEN r.t ELSE fdt
OpenTree == \E size \in Buffers :
  /\ w.magic = "fdt" /\ fdt.magic = "none"
  /\ Opened(FdtOpenInto(w, size, TRUE))
  /\ UNCHANGED <<w, made, open, props, overlayVars>>

(* An overlay fresh from the compiler, or the last one once more.          *)
Applied(o, r) == /\ ret' = r.ret /\ fdt' = r.t /\ fdto' = r.o
                 /\ source' = o /\ before' = fdt /\ merged' = merged + 1
Apply == \E o \in (Overlays \cup {fdto}) \ {Garbage} :
  /\ fdt.magic # "none" /\ merged < MaxOverlays
  /\ Applied(o, OverlayApply(fdt, o))
  /\ UNCHANGED <<w, made, open, props>>

MNext == Write \/ OpenTree \/ Apply
MSpec == MInit /\ [][MNext]_mvars

----------------------------------------------------------------------------
(* What trees say, seen as nodes and properties.                           *)
ValuesAt(tr, path, name) == {x[3] : x \in {y \in tr.props : y[1] = path /\ y[2] = name}}
CellAt(tr, path, name) == {v[1][2] : v \in {u \in ValuesAt(tr, path, name) : Len(u) = 1}}
PhandlesOf(tr, path) == IF CellAt(tr, path, "phandle") # {} THEN CellAt(tr, path, "phandle")
                        ELSE CellAt(tr, path, "linux,phandle")
NodesWith(tr, h) == {m \in tr.nodes : PhandlesOf(tr, m) = {h}}
Symbols == <<"__symbols__">>
LabelPaths(tr, label) == {v[1][2] : v \in ValuesAt(tr, Symbols, label)}    \* paths

(* What an overlay asks for.                                               *)
Fixups(so) == UNION {{[label |-> x[2], path |-> x[3][i][2].path, name |-> x[3][i][2].name,
                       pos |-> x[3][i][2].pos] : i \in DOMAIN x[3]} :
                     x \in {y \in so.props : y[1] = <<"__fixups__">>}}
LocalFixups(so) == UNION {{[path |-> Tail(x[1]), name |-> x[2], pos |-> x[3][i][2]] :
                           i \in DOMAIN x[3]} :
                          x \in {y \in so.props : Len(y[1]) > 0 /\ y[1][1] = "__local_fixups__"}}
Fragments(so) == {f \in NodeNames : <<f, "__overlay__">> \in so.nodes}
InOverlay(path) == Len(path) >= 2 /\ path[2] = "__overlay__"

(* The paths a fragment's target may have: by its label, by its phandle or *)
(* by its path.                                                            *)
TargetPaths(old, so, f) ==
  LET labels == {x.label : x \in {y \in Fixups(so) : y.path = <<f>> /\ y.name = "target"}}
  IN  IF labels # {} THEN UNION {LabelPaths(old, label) : label \in labels}
      ELSE IF CellAt(so, <<f>>, "target") # {}
        THEN UNION {NodesWith(old, h) : h \in CellAt(so, <<f>>, "target")}
      ELSE {v[1][2] : v \in ValuesAt(so, <<f>>, "target-path")}

(* Where a node of the overlay ends up.                                    *)
Placed(old, so, path) == (CHOOSE target \in TargetPaths(old, so, path[1]) : TRUE)
                         \o SubSeq(path, 3, Len(path))

Offset(tr, path) == (CHOOSE x \in tr.where : x[1] = path)[2]
Succeeded == merged > 0 /\ ret = 0
Attempted == merged > 0 /\ RoProbe(before) = 0 /\ RoProbe(source) = 0

(* The properties of the overlay that end up at a property of the tree;    *)
(* the one of the last fragment stays.                                     *)
PutAt(old, so, key) == {y \in so.props : /\ InOverlay(y[1]) /\ y[2] = key[2]
                                         /\ Placed(old, so, y[1]) = key[1]}
Stays(old, so, y) == \A z \in PutAt(old, so, <<Placed(old, so, y[1]), y[2]>>) :
                       Offset(so, z[1]) <= Offset(so, y[1])

IsReference(so, y, i) ==
  \/ y[2] \in {"phandle", "linux,phandle"}
  \/ \E x \in Fixups(so) \cup LocalFixups(so) : x.path = y[1] /\ x.name = y[2] /\ x.pos = i - 1

(* A base tree that can be read holds whole overlays and nothing of those  *)
(* that failed: each node of a fragment is below the fragment's target,    *)
(* with the values of the last fragment that sets them, and everything     *)
(* else is what it was (overlay_merge, overlay_apply_node; the erased      *)
(* magic words of fdt_overlay.c:860-881).                                  *)
MergeExact(old, so, new) ==
  /\ new.nodes = old.nodes \cup {Placed(old, so, p) : p \in {q \in so.nodes : InOverlay(q)}}
                 \cup {p \in so.nodes : p = Symbols}
  /\ \A x \in old.props : x[1] = Symbols \/ x \in new.props \/ PutAt(old, so, x) # {}
  /\ \A y \in so.props : InOverlay(y[1]) /\ Stays(old, so, y) =>
       \E v \in ValuesAt(new, Placed(old, so, y[1]), y[2]) :
         Len(v) = Len(y[3]) /\ \A i \in DOMAIN v : v[i] = y[3][i] \/ IsReference(so, y, i)
  /\ \A x \in new.props : \/ x[1] = Symbols \/ x \in old.props \/ PutAt(old, so, x) # {}
                          /\ Cardinality(ValuesAt(new, x[1], x[2])) = 1

WholeOverlays ==
  /\ Succeeded => MergeExact(TreeOf(before), TreeOf(source), TreeOf(fdt))
  /\ merged > 0 /\ ret < 0 => RoProbe(fdt) # 0 \/ fdt = before

(* References mean the same node as before.  A reference of the overlay to *)
(* a node of its own, the cell that takes the phandle of a label of the    *)
(* base tree, and every reference in the base tree itself find the node    *)
(* they were made for, and no two nodes have one phandle.  The exception   *)
(* is a node of the base tree that the overlay gives a phandle anew: what  *)
(* referred to it is lost (nothing in fdt_overlay.c keeps its phandle).    *)
Renumbered(old, so) ==
  {m \in old.nodes : /\ PhandlesOf(old, m) # {}
                     /\ \E y \in so.props : /\ InOverlay(y[1]) /\ Placed(old, so, y[1]) = m
                                            /\ y[2] \in {"phandle", "linux,phandle"}}

LongEnough(values, ref) == {v \in values : ref.pos < Len(v)}
CellIs(old, so, new, ref, node) ==            \* the cell ref of the overlay names that node
  node \in Renumbered(old, so) \/
    \A v \in LongEnough(ValuesAt(new, Placed(old, so, ref.path), ref.name), ref) :
      \E h \in PhandlesOf(new, node) : v[ref.pos + 1] = Value(h)

ReferencesKept(old, so, new) ==
  /\ \A ref \in LocalFixups(so) :
       \A v \in LongEnough(ValuesAt(so, ref.path, ref.name), ref) :
         InOverlay(ref.path) /\ Stays(old, so, <<ref.path, ref.name, v>>) =>
           \A m \in NodesWith(so, v[ref.pos + 1][2]) :
             InOverlay(m) => CellIs(old, so, new, ref, Placed(old, so, m))
  /\ \A ref \in Fixups(so) :
       InOverlay(ref.path) /\ Stays(old, so, <<ref.path, ref.name>>) =>
         \A node \in LabelPaths(old, ref.label) : CellIs(old, so, new, ref, node)
  /\ \A m \in old.nodes \ Renumbered(old, so) :
       PhandlesOf(old, m) # {} => PhandlesOf(new, m) = PhandlesOf(old, m)
  /\ \A m, n \in new.nodes : m = n \/ PhandlesOf(new, m) \cap PhandlesOf(new, n) = {}

(* Every label of the overlay that lies in a fragment becomes a label of   *)
(* the node that was made of it, with room for its path and a NUL; the     *)
(* other labels of the base tree stay (overlay_symbol_update).             *)
OwnLabels(so) == {y \in so.props : y[1] = Symbols /\ InOverlay(y[3][1][2])}
LabelsExact(old, so, new) ==
  LET own == OwnLabels(so)
  IN  /\ \A y \in own : \E v \in ValuesAt(new, Symbols, y[2]) :
           LET path == Placed(old, so, y[3][1][2])
           IN  /\ Len(v) > PathSize(path) /\ path \in new.nodes
               /\ \A i \in DOMAIN v : v[i] = <<"path", path>>
      /\ \A x \in old.props : x[1] = Symbols => x \in new.props \/ \E y \in own : y[2] = x[2]
      /\ \A x \in new.props : x[1] = Symbols => x \in old.props \/ \E y \in own : y[2] = x[2]

RefsResolve == Succeeded => /\ ReferencesKept(TreeOf(before), TreeOf(source), TreeOf(fdt))
                            /\ LabelsExact(TreeOf(before), TreeOf(source), TreeOf(fdt))

(* Merging fails for a cause and only then: a phandle that would be too    *)
(* high, a label, a node or a cell the overlay names that is not there, or *)
(* a buffer with less room than the nodes, the properties, the labels and  *)
(* the names take that the overlay adds or makes longer.                   *)
Has(tr, ref) == \E v \in ValuesAt(tr, ref.path, ref.name) : ref.pos < Len(v)
MaxOf(old) == {h \in 0 .. MaxPhandle : \A m \in old.nodes : \A g \in PhandlesOf(old, m) : g <= h}

Meaningful(old, so) ==
  /\ \A ref \in LocalFixups(so) : Has(so, ref)
  /\ \A ref \in Fixups(so) :
       Has(so, ref) /\ \E m \in LabelPaths(old, ref.label) \cap old.nodes : PhandlesOf(old, m) # {}
  /\ \A y \in so.props : y[2] \in {"phandle", "linux,phandle"} =>
       Len(y[3]) = 1 /\ y[3][1][2] + (CHOOSE h \in MaxOf(old) : h - 1 \notin MaxOf(old)) < NoPhandle
  /\ \A f \in Fragments(so) : \E target \in TargetPaths(old, so, f) :
       \/ target \in old.nodes
       \/ \E p \in so.nodes : /\ InOverlay(p) /\ Offset(so, p) < Offset(so, <<f>>)
                              /\ Placed(old, so, p) = target

Owned(so)    == {y \in so.props : InOverlay(y[1])}
AddedNodes(old, so) == ({Placed(old, so, p) : p \in {q \in so.nodes : InOverlay(q)}}
                        \cup {p \in so.nodes : p = Symbols}) \ old.nodes
OldLen(old, path, name) == CHOOSE n \in {Len(v) : v \in ValuesAt(old, path, name)} \cup {-3} :
                             n >= 0 \/ ValuesAt(old, path, name) = {}
More(old, path, name, len) == Max({0, len - OldLen(old, path, name)})
Longest(old, so, key) == Max({Len(y[3]) : y \in PutAt(old, so, key)})

Growth(old, so, strings) ==
  MapThenSumSet(LAMBDA p : NameWords[p[Len(p)]] + 2, AddedNodes(old, so))
  + MapThenSumSet(LAMBDA key : More(old, key[1], key[2], Longest(old, so, key)),
                  {<<Placed(old, so, y[1]), y[2]>> : y \in Owned(so)})
  + MapThenSumSet(LAMBDA y : More(old, Symbols, y[2], PathSize(Placed(old, so, y[3][1][2])) + 2),
                  OwnLabels(so))
  + MapThenSumSet(LAMBDA name : StringWords[name],
                  {y[2] : y \in Owned(so) \cup OwnLabels(so)} \ strings)

Causeless(old, so) ==
  /\ Meaningful(old, so)
  /\ StringsEnd(before) + Growth(old, so, {before.strings[i] : i \in DOMAIN before.strings})
       <= before.total

FailsForCause == Attempted =>
  IF ret = 0 THEN Meaningful(TreeOf(before), TreeOf(source))
  ELSE ~Causeless(TreeOf(before), TreeOf(source))

----------------------------------------------------------------------------
(* What is found in the finished tree is what is in it: the path of every  *)
(* node in a buffer just large enough, every phandle, an unused phandle    *)
(* while there is one, and each node by the value of a property.           *)
NodesExact(t, tr) ==
  /\ \A x \in tr.where :
       LET path == x[1]
           o    == x[2]
       IN  /\ GetPath(t, o, PathSize(path) + 1) = [ret |-> 0, path |-> path]
           /\ GetPath(t, o, PathSize(path)).ret = NOSPACE
           /\ GetPathLen(t, o) = PathSize(path)
           /\ \A h \in PhandlesOf(tr, path) : FdtGetPhandle(t, o) = h /\ NodeByPhandle(t, h) = o
           /\ \A y \in tr.props : y[1] = path =>
                LET found == NodeByPropValue(t, -1, y[2], y[3])
                IN  /\ found <= o
                    /\ \E z \in tr.where : z[2] = found /\ <<z[1], y[2], y[3]>> \in tr.props
  /\ \A h \in 1 .. MaxPhandle : NodesWith(tr, h) = {} => NodeByPhandle(t, h) = NOTFOUND
  /\ LET h == GeneratePhandle(t)
     IN  IF h > 0 THEN NodesWith(tr, h) = {} ELSE h = NOPHANDLES /\ NodesWith(tr, MaxPhandle) # {}

NodesFound == fdt.magic = "fdt" => NodesExact(fdt, TreeOf(fdt))

(* fdt_ro.c:706-821: a list of strings counts, finds and gives each of its *)
(* strings and no other, and a list that does not end with a NUL is        *)
(* refused where that matters.  The test for a string, which compares the  *)
(* NUL as well, goes by the list and not by the character behind it; it is *)
(* asked for strings that are not empty, in lists that end with a NUL.     *)
Strings(n) == UNION {[1 .. k -> Words \ {NUL}] : k \in 0 .. n}
ListExact(t, o, name, list) ==
  LET ended  == list = <<>> \/ list[Len(list)] = NUL
      Nth(i) == StringAt(list, StringlistGet(t, o, name, i))
      nuls   == Cardinality({i \in DOMAIN list : list[i] = NUL})
      listed == {Nth(i) : i \in 0 .. nuls - 1}
      Found(string) == StringlistSearch(t, o, name, string)
  IN  /\ StringlistCount(t, o, name) = IF ended THEN nuls ELSE BADVALUE
      /\ StringlistGet(t, o, name, nuls) = IF ended THEN NOTFOUND ELSE BADVALUE
      /\ \A i \in 0 .. nuls - 1 : /\ NUL \notin {Nth(i)[j] : j \in DOMAIN Nth(i)}
                                  /\ Found(Nth(i)) \in 0 .. i
                                  /\ Nth(Found(Nth(i))) = Nth(i)
      /\ \A string \in Strings(2) \ listed : Found(string) = IF ended THEN NOTFOUND ELSE BADVALUE
      /\ ended => \A string \in Strings(2) \ {<<>>}, past \in Words :
                    StringlistContains(list, string, past) <=> string \in listed

ListsExact == fdt.magic = "fdt" /\ merged = 0 =>
  \A x \in made.props : ListExact(fdt, PathOffset(fdt.struct, x[1]), x[2], x[3])

(* fdt_addresses.c:57-101: a range appended to a property is read back as  *)
(* it was given, and it is refused, but for want of space, just when "addr *)
(* or size doesn't fit to respective cells size" (libfdt.h:1973).  This is *)
(* asked of every address but 0 in a single cell, which the test of the    *)
(* range's end always refuses (its UINT32_MAX + 1 is zero).                *)
ReadsBack(t, p, ac, sc, addr, size) ==
  /\ Number(Cells(t, p, PropLen(t, p) - (ac + sc), ac)) = addr
  /\ Number(Cells(t, p, PropLen(t, p) - sc, sc)) = size
Fits(x, cells) == cells = 1 => x < Radix
RangeExact(r, ac, sc, addr, size) ==
  \/ r.ret = 0 /\ ReadsBack(r.t, PropOffset(r.t, 0, "reg"), ac, sc, addr, size)
                /\ Fits(addr, ac) /\ Fits(size, sc)
  \/ r.ret = NOSPACE
  \/ r.ret = BADNCELLS /\ ~({ac, sc} \subseteq {1, 2})
  \/ r.ret = BADVALUE /\ ~(Fits(addr, ac) /\ Fits(size, sc))

Numbers == {0, 1, Radix - 1, Radix, Radix * Radix - 1}
RangesExact == fdt.magic = "fdt" =>
  \A x \in TreeOf(fdt).where, addr, size \in Numbers :
    LET ac == AddressCells(fdt, x[2])
    IN  addr + size < Radix * Radix /\ ~(ac = 1 /\ addr = 0) =>
          RangeExact(AppendPropAddrRange(fdt, x[2], 0, "reg", addr, size),
                     ac, SizeCells(fdt, x[2]), addr, size)

(* What a value is taken apart into is what it was made of.                *)
ValuesRead == ListsExact /\ RangesExact
=============================================================================
