----------------------------- MODULE FdtOverlay -----------------------------
(***************************************************************************)
(* Merging an overlay fdto into a base tree fdt (libfdt/fdt_overlay.c).    *)
(* A string that is a path is as many words as it has characters, all of   *)
(* them that path; a string of __fixups__ is one word that says which      *)
(* cell of which property of which node of the overlay is meant.           *)
(***************************************************************************)
EXTENDS FdtPhandle, FdtSw

BADOVERLAY == -16

PathWords(path, size) == [i \in 1 .. size |-> <<"path", path>>]
FixupWord(path, name, pos) == <<"fixup", [path |-> path, name |-> name, pos |-> pos]>>

(* A step that is made unless the one before it failed, and a loop that    *)
(* ends with the first that does.                                          *)
Then(r, Step(_)) == IF r.ret # 0 THEN r ELSE Step(r.t)
Each(Step(_, _), t, items) ==
  LET Unless(r, x) == IF r.ret # 0 THEN r ELSE Step(r.t, x)
      Go[i \in 0 .. Len(items)] == IF i = 0 THEN Ok(t) ELSE Unless(Go[i - 1], items[i])
  IN  Go[Len(items)]

----------------------------------------------------------------------------
(* overlay_get_target_phandle and overlay_get_target: the node a fragment  *)
(* goes to and, if the fragment has it, its path.                          *)
TargetPhandle(fdto, fragment) ==
  LET At(p) == IF p < 0 THEN 0
               ELSE IF PropLen(fdto, p) # 1 THEN NoPhandle ELSE PropValue(fdto, p)[1][2]
  IN  At(PropOffset(fdto, fragment, "target"))

OverlayTarget(fdt, fdto, fragment) ==
  LET ByPath(p) == IF p = NOTFOUND THEN [off |-> BADOVERLAY, path |-> {}]
                   ELSE IF p < 0 THEN [off |-> p, path |-> {}]
                   ELSE [off  |-> PathOffset(fdt.struct, PropValue(fdto, p)[1][2]),
                         path |-> {PropValue(fdto, p)[1][2]}]
      By(phandle) == IF phandle = NoPhandle THEN [off |-> BADPHANDLE, path |-> {}]
                     ELSE IF phandle = 0 THEN ByPath(PropOffset(fdto, fragment, "target-path"))
                     ELSE [off |-> NodeByPhandle(fdt, phandle), path |-> {}]
  IN  By(TargetPhandle(fdto, fragment))

(* The phandles of the overlay move behind those of the base tree ...      *)
PhandleAddOffset(t, node, name, delta) ==
  LET Set(n) == IF n >= NoPhandle THEN Fail(NOPHANDLES, t)
                ELSE FdtSetPropInplace(t, node, name, <<Value(n)>>)
      Add(p) == IF p < 0 THEN Fail(p, t)
                ELSE IF PropLen(t, p) # 1 THEN Fail(BADPHANDLE, t)
                ELSE Set(PropValue(t, p)[1][2] + delta)
  IN  Add(PropOffset(t, node, name))

RECURSIVE AdjustNodePhandles(_, _, _)
AdjustNodePhandles(t, node, delta) ==
  LET IfThere(r)     == IF r.ret = NOTFOUND THEN Ok(r.t) ELSE r
      Add(o, name)   == IfThere(PhandleAddOffset(o, node, name, delta))
      Below(o, c)    == AdjustNodePhandles(o, c, delta)
      Descend(o)     == Each(Below, o, Children(o.struct, node))
  IN  Then(Each(Add, t, <<"phandle", "linux,phandle">>), Descend)

AdjustLocalPhandles(fdto, delta) == AdjustNodePhandles(fdto, 0, delta)

(* ... and every cell that __local_fixups__ lists with them.               *)
RECURSIVE UpdateLocalNodeReferences(_, _, _, _)
UpdateLocalNodeReferences(t, node, fixup, delta) ==
  LET Missing(e) == IF e = NOTFOUND THEN BADOVERLAY ELSE e
      Shift(o, p, name, pos) ==
        IF pos >= PropLen(o, p) THEN Fail(BADOVERLAY, o)
        ELSE SetPropPartial(o, node, name, pos,
                            <<Value((PropValue(o, p)[pos + 1][2] + delta) % Radix)>>)
      Listed(o, f) ==
        LET At(p) == IF p < 0 THEN Fail(Missing(p), o)
                     ELSE Each(LAMBDA x, cell : Shift(x, p, PropName(o, f), cell[2]),
                               o, PropValue(o, f))
        IN  At(PropOffset(o, node, PropName(o, f)))
      Below(o, f) ==
        LET In(child) == IF child < 0 THEN Fail(Missing(child), o)
                         ELSE UpdateLocalNodeReferences(o, child, f, delta)
        IN  In(SubnodeOffset(o.struct, node, NodeName(o.struct, f)))
      Descend(o) == Each(Below, o, Children(o.struct, fixup))
  IN  Then(Each(Listed, t, Properties(t.struct, fixup)), Descend)

LocalKept(fdto, delta) == Ok(fdto)             \* mutant: local references not adjusted
UpdateLocalReferences(fdto, delta) ==
  LET From(fixups) == IF fixups = NOTFOUND THEN Ok(fdto)
                      ELSE IF fixups < 0 THEN Fail(fixups, fdto)
                      ELSE UpdateLocalNodeReferences(fdto, 0, fixups, delta)
  IN  From(PathOffset(fdto.struct, <<"__local_fixups__">>))

----------------------------------------------------------------------------
(* The cells that __fixups__ lists get the phandle of the base tree's node *)
(* of that label.                                                          *)
FixupCell(fdto, node, fixup, phandle) ==
  IF node < 0 THEN Fail(IF node = NOTFOUND THEN BADOVERLAY ELSE node, fdto)
  ELSE SetPropPartial(fdto, node, fixup.name, fixup.pos, <<Value(phandle)>>)
FixupWith(fdto, fixup, phandle) ==
  IF phandle = 0 THEN Fail(NOTFOUND, fdto)
  ELSE FixupCell(fdto, PathOffset(fdto.struct, fixup.path), fixup, phandle)
FixupTo(fdt, fdto, fixup, node) ==
  IF node < 0 THEN Fail(node, fdto) ELSE FixupWith(fdto, fixup, FdtGetPhandle(fdt, node))
FixupOnePhandle(fdt, fdto, fixup, symbol) ==
  IF symbol < 0 THEN Fail(symbol, fdto)
  ELSE FixupTo(fdt, fdto, fixup, PathOffset(fdt.struct, PropValue(fdt, symbol)[1][2]))

FixupPhandle(fdt, fdto, symbol, words) ==
  LET One(o, word) == IF word[1] # "fixup" THEN Fail(BADOVERLAY, o)
                      ELSE FixupOnePhandle(fdt, o, word[2], symbol)
  IN  IF words = <<>> THEN Fail(BADOVERLAY, fdto) ELSE Each(One, fdto, words)

LabelOffset(fdt, symbols, label) ==
  IF symbols < 0 THEN symbols ELSE PropOffset(fdt, symbols, label)
FixupAll(fdt, fdto, symbols, fixups) ==
  LET One(o, p) == FixupPhandle(fdt, o, LabelOffset(fdt, symbols, PropName(o, p)), PropValue(o, p))
  IN  IF symbols < 0 /\ symbols # NOTFOUND THEN Fail(symbols, fdto)
      ELSE Each(One, fdto, Properties(fdto.struct, fixups))
FixupPhandles(fdt, fdto) ==
  LET From(fixups) == IF fixups = NOTFOUND THEN Ok(fdto)
                      ELSE IF fixups < 0 THEN Fail(fixups, fdto)
                      ELSE FixupAll(fdt, fdto, PathOffset(fdt.struct, <<"__symbols__">>), fixups)
  IN  From(PathOffset(fdto.struct, <<"__fixups__">>))

----------------------------------------------------------------------------
(* The properties of an overlay's node go to the target, and its children  *)
(* to children of the target, which are made if they are not there.        *)
RECURSIVE ApplyNode(_, _, _, _)
ApplyNode(fdt, target, fdto, node) ==
  LET Set(t, p)   == Rw(t, FdtSetProp(t, target, PropName(fdto, p), PropValue(fdto, p)))
      Into(t, at, c) == IF at < 0 THEN Fail(IF at = NOTFOUND THEN INTERNAL ELSE at, t)
                        ELSE ApplyNode(t, at, fdto, c)
      Made(t, r, c) == IF r.ret = EXISTS
                         THEN Into(t, SubnodeOffset(t.struct, target, NodeName(fdto.struct, c)), c)
                       ELSE IF r.ret < 0 THEN r ELSE Into(r.t, r.ret, c)
      Below(t, c) == Made(t, Rw(t, FdtAddSubnode(t, target, NodeName(fdto.struct, c))), c)
      Descend(t)  == Each(Below, t, Children(fdto.struct, node))
  IN  Then(Each(Set, fdt, Properties(fdto.struct, node)), Descend)

ApplyTo(fdt, target, fdto, overlay) ==
  IF target < 0 THEN Fail(target, fdt) ELSE ApplyNode(fdt, target, fdto, overlay)
MergeFragmentAll(fdt, fdto, f, overlay) ==     \* mutant: nodes that are no fragment refused
  IF overlay < 0 THEN Fail(overlay, fdt)
  ELSE ApplyTo(fdt, OverlayTarget(fdt, fdto, f).off, fdto, overlay)
MergeFragment(fdt, fdto, f, overlay) ==
  IF overlay = NOTFOUND THEN Ok(fdt)
  ELSE IF overlay < 0 THEN Fail(overlay, fdt)
  ELSE ApplyTo(fdt, OverlayTarget(fdt, fdto, f).off, fdto, overlay)
Merge(fdt, fdto) ==
  LET One(t, f) == MergeFragment(t, fdto, f, SubnodeOffset(fdto.struct, f, "__overlay__"))
  IN  Each(One, fdt, Children(fdto.struct, 0))

----------------------------------------------------------------------------
(* The labels of the overlay become labels of the base tree: room for the  *)
(* path of the target and of the node below it is made first, then the     *)
(* path is written there.                                                  *)
Undefined(size) == [i \in 1 .. size |-> <<"undefined">>]

SymbolSize(len, rel) ==
  len + (IF len > 1 THEN 1 ELSE 0) + (IF rel = <<>> THEN 0 ELSE NamesSize(rel) - 1) + 1
ByPathOnly(target) == CHOOSE path \in target.path : TRUE

TargetLen(fdt, target) == IF target.off < 0 THEN target.off
                          ELSE IF target.path = {} THEN GetPathLen(fdt, target.off)
                          ELSE PathSize(ByPathOnly(target))
TargetPath(fdt, len, target) ==
  IF target.off < 0 THEN [ret |-> target.off, path |-> <<>>]
  ELSE IF len > 1 /\ target.path = {} THEN GetPath(fdt, target.off, len + 1)
  ELSE [ret |-> 0, path |-> IF len > 1 THEN ByPathOnly(target) ELSE <<>>]

WriteSymbol(fdt, symbols, name, len, rel, r) ==
  IF r.ret < 0 THEN Fail(r.ret, fdt)
  ELSE FdtSetPropInplace(fdt, symbols, name, PathWords(r.path \o rel, SymbolSize(len, rel)))
TargetAgain(fdt, fdto, f, target) ==
  IF target.path = {} THEN OverlayTarget(fdt, fdto, f) ELSE target
PutSymbol(fdt, symbols, fdto, f, name, rel, target, len) ==
  IF len < 0 THEN Fail(len, fdt)
  ELSE Then(Rw(fdt, FdtSetProp(fdt, symbols, name, Undefined(SymbolSize(len, rel)))),
            LAMBDA t : WriteSymbol(t, symbols, name, len, rel,
                                   TargetPath(t, len, TargetAgain(t, fdto, f, target))))
SymbolAt(fdt, symbols, fdto, f, name, rel, target) ==
  PutSymbol(fdt, symbols, fdto, f, name, rel, target, TargetLen(fdt, target))
SymbolIn(fdt, symbols, fdto, f, name, rel) ==
  IF f < 0 \/ SubnodeOffset(fdto.struct, f, "__overlay__") < 0 THEN Fail(BADOVERLAY, fdt)
  ELSE SymbolAt(fdt, symbols, fdto, f, name, rel, OverlayTarget(fdt, fdto, f))

UpdateSymbol(fdt, symbols, fdto, name, v) ==
  IF v = <<>> \/ v[1][1] # "path" THEN Fail(BADVALUE, fdt)
  ELSE IF Len(v[1][2]) < 2 \/ v[1][2][2] # "__overlay__" THEN Ok(fdt)
  ELSE SymbolIn(fdt, symbols, fdto, SubnodeOffset(fdto.struct, 0, v[1][2][1]), name,
                SubSeq(v[1][2], 3, Len(v[1][2])))

SymbolsRoot(fdt, root) == IF root = NOTFOUND THEN Rw(fdt, FdtAddSubnode(fdt, 0, "__symbols__"))
                          ELSE [ret |-> root, t |-> fdt]
UpdateSymbols(r, fdto, own) ==
  IF r.ret < 0 THEN r
  ELSE Each(LAMBDA t, p : UpdateSymbol(t, r.ret, fdto, PropName(fdto, p), PropValue(fdto, p)),
            r.t, Properties(fdto.struct, own))
SymbolUpdate(fdt, fdto) ==
  LET From(own) == IF own < 0 THEN Ok(fdt)
                   ELSE UpdateSymbols(SymbolsRoot(fdt, SubnodeOffset(fdt.struct, 0, "__symbols__")),
                                      fdto, own)
  IN  From(SubnodeOffset(fdto.struct, 0, "__symbols__"))

----------------------------------------------------------------------------
(* fdt_overlay_apply: an overlay that was begun with cannot be read again, *)
(* and nor can the base tree unless all of the overlay is merged.          *)
Erased(t) == [t EXCEPT !.magic = "erased"]
OutcomeLeaveBase(e, t, o) == [ret |-> e, t |-> t, o |-> Erased(o)]    \* mutant: base left readable
Outcome(e, t, o) == [ret |-> e, t |-> IF e = 0 THEN t ELSE Erased(t), o |-> Erased(o)]

(* Each phase works on what the one before it, r, left.                    *)
Local(r, delta) == IF r.ret # 0 THEN r ELSE UpdateLocalReferences(r.t, delta)
Fixed(fdt, r)   == IF r.ret # 0 THEN r ELSE FixupPhandles(fdt, r.t)
Labelled(r, o)  == IF r.ret # 0 THEN r ELSE SymbolUpdate(r.t, o)
Ended(r, o)     == Outcome(r.ret, r.t, o)
Overlaid(fdt, r) == IF r.ret # 0 THEN Outcome(r.ret, fdt, r.t)
                    ELSE Ended(Labelled(Merge(fdt, r.t), r.t), r.t)
ApplyBy(fdt, fdto, delta) ==
  IF delta < 0 THEN Outcome(delta, fdt, fdto)
  ELSE Overlaid(fdt, Fixed(fdt, Local(AdjustLocalPhandles(fdto, delta), delta)))
OverlayApply(fdt, fdto) ==
  IF RoProbe(fdt) # 0 THEN [ret |-> RoProbe(fdt), t |-> fdt, o |-> fdto]
  ELSE IF RoProbe(fdto) # 0 THEN [ret |-> RoProbe(fdto), t |-> fdt, o |-> fdto]
  ELSE ApplyBy(fdt, fdto, FindMaxPhandle(fdt))
=============================================================================
