-------------------------------- MODULE Fdt ---------------------------------
(***************************************************************************)
(* The flattened device tree as libfdt reads it (libfdt/fdt.c, fdt_ro.c).  *)
(* Offsets count 4-byte words.  The structure block is a sequence of       *)
(* words; a word is a tag, the name of a node, the length or the           *)
(* name offset of a property, or a word of its value, which may stand for  *)
(* a whole string.  The bytes of a name or a value are not modelled: a     *)
(* node name takes NameWords words, all of them that name, and a string of *)
(* the strings block StringWords words.                                    *)
(* Words of values are never taken for tags: device trees whose values     *)
(* hold the numbers of tags are outside the model.                         *)
(***************************************************************************)
EXTENDS Integers, Sequences, FiniteSets

CONSTANTS NodeNames,    \* names of nodes
          PropNames,    \* names of properties
          BaseName,     \* BaseName[n]: n without its unit address ("cpu@0" -> "cpu")
          NameWords,    \* NameWords[n]: words node name n takes, with its NUL
          StringWords   \* StringWords[p]: words property name p takes

ASSUME FdtAssumption == /\ BaseName \in [NodeNames -> NodeNames]
                        /\ NameWords \in [NodeNames -> Nat \ {0}]
                        /\ StringWords \in [PropNames -> Nat \ {0}]

(* Error codes of libfdt.h.  A result below zero is one of them.           *)
NOTFOUND     == -1
EXISTS       == -2
NOSPACE      == -3
BADOFFSET    == -4
TRUNCATED    == -8
BADSTRUCTURE == -11
INTERNAL     == -13
BADLAYOUT    == -12

(* Words.                                                                  *)
Tag(x)     == <<"tag", x>>
Name(n)    == <<"name", n>>
Length(k)  == <<"len", k>>
NameOff(i) == <<"nameoff", i>>
Value(v)   == <<"value", v>>
Str(s)     == <<"string", s>>

NameOf(n) == [i \in 1 .. NameWords[n] |-> Name(n)]
NodeWords(n) == <<Tag("begin")>> \o NameOf(n) \o <<Tag("endnode")>>
PropWords(i, v) == <<Tag("prop"), Length(Len(v)), NameOff(i)>> \o v

(* A blob: the reserve map (sizes of its entries, the last one zero), the  *)
(* structure and the strings block, where each begins and the total size.  *)
HeaderWords == 10
RsvWords    == 4

ValueWords == ({"value"} \X Int) \cup ({"string"} \X STRING)
BlobWords  == ({"tag"} \X {"begin", "endnode", "prop", "nop", "end"}) \cup ({"name"} \X NodeNames)
              \cup ({"len"} \X Nat) \cup ({"nameoff"} \X Nat) \cup ValueWords

Blobs == [offRsv : Nat, rsv : Seq(Nat), offStruct : Nat, struct : Seq(BlobWords),
          offStrings : Nat, strings : Seq(PropNames), total : Nat]

(* The reserve map ends with an entry of size zero.                        *)
Terminated(t) == \E i \in DOMAIN t.rsv : t.rsv[i] = 0

SumWords(strings) ==
  LET Sum[i \in 0 .. Len(strings)] ==
        IF i = 0 THEN 0 ELSE Sum[i - 1] + StringWords[strings[i]]
  IN  Sum[Len(strings)]

StringsEnd(t) == t.offStrings + SumWords(t.strings)    \* fdt_data_size_

----------------------------------------------------------------------------
(* fdt_next_tag: the tag at offset o of structure block s and the offset   *)
(* after it, or the end tag and an error where no whole tag lies.          *)
NextTag(s, o) ==
  LET Behind(at) == IF at = Tag("begin") /\ o + 1 < Len(s) /\ s[o + 2][1] = "name"
                      THEN o + 1 + NameWords[s[o + 2][2]]
                    ELSE IF at = Tag("prop") /\ o + 1 < Len(s) /\ s[o + 2][1] = "len"
                      THEN o + 3 + s[o + 2][2]
                    ELSE IF at \in {Tag("endnode"), Tag("nop"), Tag("end")}
                      THEN o + 1
                    ELSE BADSTRUCTURE
      Whole(at, next) == IF next < 0 \/ next > Len(s)
                           THEN [tag |-> "end", next |-> BADSTRUCTURE]
                         ELSE [tag |-> at[2], next |-> next]
  IN  IF o < 0 \/ o >= Len(s) THEN [tag |-> "end", next |-> TRUNCATED]
      ELSE Whole(s[o + 1], Behind(s[o + 1]))

NodesMet == [off : Int, depth : Int]       \* where a walk is, and how deep

(* Walks read tag after tag from offset o: the first that is not of these  *)
(* kinds.                                                                  *)
Skip(s, o, kinds) ==
  LET Go[p \in Int] == LET Or(w) == IF w.tag \in kinds THEN Go[w.next] ELSE p
                       IN  Or(NextTag(s, p))
  IN  Go[o]

(* fdt_check_node_offset_ and fdt_check_prop_offset_: the offset after the *)
(* tag at o if it is of the kind asked for.                                *)
CheckTag(s, o, kind) ==
  LET After(w) == IF w.tag = kind THEN w.next ELSE BADOFFSET IN After(NextTag(s, o))

(* fdt_next_node from offset o (or from the start, o < 0) at depth d: the  *)
(* next node and its depth; when the depth falls below zero, the offset    *)
(* after the end tag that made it fall.                                    *)
NextNode(s, o, d) ==
  LET Go[n \in NodesMet] ==
        LET At(p, w) ==
              IF w.tag = "begin" THEN [off |-> p, depth |-> n.depth + 1]
              ELSE IF w.tag = "endnode" /\ n.depth > 0 THEN Go[[off |-> w.next, depth |-> n.depth - 1]]
              ELSE IF w.tag = "endnode" THEN [off |-> w.next, depth |-> n.depth - 1]
              ELSE [off |-> IF w.next >= 0 THEN NOTFOUND ELSE w.next, depth |-> n.depth]
            First(p) == At(p, NextTag(s, p))
        IN  First(Skip(s, n.off, {"prop", "nop"}))
      From(p) == IF p < 0 THEN [off |-> p, depth |-> d] ELSE Go[[off |-> p, depth |-> d]]
  IN  From(IF o >= 0 THEN CheckTag(s, o, "begin") ELSE 0)

(* The callers that pass no depth walk on to the next node of the tree.    *)
NextNodeAny(s, o) ==
  LET Found(p) == IF p = TRUNCATED THEN NOTFOUND ELSE p IN Found(NextNode(s, o, Len(s)).off)

(* fdt_nodename_eq_: a name without a unit address finds any.              *)
NameMatches(s, o, name) == s[o + 2][2] = name \/ BaseName[s[o + 2][2]] = name

(* fdt_subnode_offset: the first child of the node at o called name.       *)
SubnodeOffset(s, o, name) ==
  LET Go[n \in NodesMet] ==
        IF n.depth < 0 THEN NOTFOUND
        ELSE IF n.off < 0 THEN n.off
        ELSE IF n.depth = 1 /\ NameMatches(s, n.off, name) THEN n.off
        ELSE Go[NextNode(s, n.off, n.depth)]
  IN  Go[[off |-> o, depth |-> 0]]

(* fdt_path_offset of an absolute path.                                    *)
PathOffset(s, path) ==
  LET Go[i \in 0 .. Len(path)] ==
        IF i = 0 THEN 0
        ELSE IF Go[i - 1] < 0 THEN Go[i - 1]
        ELSE SubnodeOffset(s, Go[i - 1], path[i])
  IN  Go[Len(path)]

(* fdt_node_end_offset_: just behind the node at o.                        *)
NodeEnd(s, o) ==
  LET Go[n \in NodesMet] ==
        IF n.off < 0 \/ n.depth < 0 THEN n.off ELSE Go[NextNode(s, n.off, n.depth)]
  IN  Go[[off |-> o, depth |-> 0]]

(* nextprop_: the next property from offset o on, nops skipped.            *)
NextProp(s, o) ==
  LET At(p, w) == IF w.tag = "prop" THEN p
                  ELSE IF w.tag # "end" THEN NOTFOUND
                  ELSE IF w.next >= 0 THEN BADSTRUCTURE ELSE w.next
      From(p)  == At(p, NextTag(s, p))
  IN  From(Skip(s, o, {"nop"}))

(* fdt_get_property: the offset of the property called name of the node at *)
(* o of blob t.                                                            *)
PropOffset(t, o, name) ==
  LET s == t.struct
      Is(i) == i \in DOMAIN t.strings /\ t.strings[i] = name
      Go[p \in Int] == IF p < 0 \/ Is(s[p + 3][2]) THEN p
                       ELSE Go[NextProp(s, CheckTag(s, p, "prop"))]
      From(first) == IF first < 0 THEN first ELSE Go[NextProp(s, first)]
  IN  From(CheckTag(s, o, "begin"))

PropLen(t, p)   == t.struct[p + 2][2]
PropValue(t, p) == SubSeq(t.struct, p + 4, p + 3 + PropLen(t, p))

(* fdt_supernode_atdepth_offset: the ancestor at depth want of the node at *)
(* o, and the depth of that node; BADOFFSET when no node begins at o.      *)
NodesHeld == [off : Int, depth : Int, super : Int]     \* and the ancestor met

Supernode(s, o, want) ==
  LET Here(n) == IF n.depth = want THEN n.off ELSE n.super
      On(n, next) == [off |-> next.off, depth |-> next.depth, super |-> Here(n)]
      Go[n \in NodesHeld] ==
        IF n.off < 0 \/ n.off > o
          THEN [off |-> IF n.off = NOTFOUND \/ n.off >= 0 THEN BADOFFSET
                        ELSE IF n.off = BADOFFSET THEN BADSTRUCTURE ELSE n.off,
                depth |-> BADOFFSET]
        ELSE IF n.off = o
          THEN [off |-> IF want > n.depth THEN NOTFOUND ELSE Here(n), depth |-> n.depth]
        ELSE Go[On(n, NextNode(s, n.off, n.depth))]
  IN  IF want < 0 THEN [off |-> NOTFOUND, depth |-> NOTFOUND]
      ELSE Go[[off |-> 0, depth |-> 0, super |-> INTERNAL]]

ParentOffsetSelf(s, o) ==                               \* mutant: depth not lowered
  LET Of(self) == IF self.off < 0 THEN self.off ELSE Supernode(s, o, self.depth).off
  IN  Of(Supernode(s, o, 0))
ParentOffset(s, o) ==
  LET Of(self) == IF self.off < 0 THEN self.off ELSE Supernode(s, o, self.depth - 1).off
  IN  Of(Supernode(s, o, 0))

----------------------------------------------------------------------------
(* The walk over all tags (fdt_check_full).  A cursor is the offset of a   *)
(* tag, whether it is inside a node, and the path of that node.  Began is  *)
(* the path of a node that begins there, and Onto is where the walk goes   *)
(* on with that tag: it stays where none follows or none may be.           *)
Cursors == [off : Int, path : Seq(NodeNames), inTree : BOOLEAN]

Start == [off |-> 0, path |-> <<>>, inTree |-> FALSE]

Began(s, c) == IF c.inTree THEN Append(c.path, s[c.off + 2][2]) ELSE <<>>

Known(t, p) == t.struct[p + 3][2] \in DOMAIN t.strings

Onto(t, c, w) ==
  IF w.tag = "begin" THEN [off |-> w.next, path |-> Began(t.struct, c), inTree |-> TRUE]
  ELSE IF w.tag = "nop" \/ (w.tag = "prop" /\ c.inTree /\ Known(t, c.off))
    THEN [c EXCEPT !.off = w.next]
  ELSE IF w.tag = "endnode" /\ c.inTree
    THEN [off |-> w.next, path |-> SubSeq(c.path, 1, Len(c.path) - 1), inTree |-> c.path # <<>>]
  ELSE c

Hop(t, c)   == Onto(t, c, NextTag(t.struct, c.off))
Stops(t, c) == Hop(t, c) = c

(* The cursors the walk comes to.                                          *)
Trail(t) ==
  LET Go[c \in Cursors] == IF Stops(t, c) THEN {c} ELSE {c} \cup Go[Hop(t, c)]
  IN  Go[Start]

Begins(t, c)   == NextTag(t.struct, c.off).tag = "begin"
Carries(t, c)  == NextTag(t.struct, c.off).tag = "prop" /\ ~Stops(t, c)
EndsWell(t, c) == /\ NextTag(t.struct, c.off).tag = "end" /\ NextTag(t.struct, c.off).next >= 0
                  /\ ~c.inTree
PropAt(t, c)   == <<c.path, t.strings[t.struct[c.off + 3][2]], PropValue(t, c.off)>>

(* What a blob means: the paths of its nodes, the value of each property   *)
(* of each node, and which node begins at which offset; ok says that the   *)
(* walk ends as it should.                                                 *)
MeaningOf(t, V) ==
  [ok    |-> \A c \in V : Stops(t, c) => EndsWell(t, c),
   nodes |-> {Began(t.struct, c) : c \in {d \in V : Begins(t, d)}},
   props |-> {PropAt(t, c) : c \in {d \in V : Carries(t, d)}},
   where |-> {<<Began(t.struct, c), c.off>> : c \in {d \in V : Begins(t, d)}}]

TreeOf(t) == MeaningOf(t, Trail(t))

(* What is at a cursor, as far as trees go.                                *)
Note(t, c) == [off  |-> c.off,
               tag  |-> NextTag(t.struct, c.off).tag,
               path |-> IF Begins(t, c) THEN Began(t.struct, c) ELSE c.path,
               prop |-> IF Carries(t, c) THEN PropAt(t, c) ELSE <<>>]

(* Notes are those of a tree when no two nodes have the same path and no   *)
(* two properties of a node the same name, when the properties of a node   *)
(* follow its begin tag, and when the root comes first.                    *)
Tidy(N) ==
  /\ \A x, y \in N : x.tag = "begin" /\ y.tag = "begin" /\ x.path = y.path => x = y
  /\ \A x, y \in N : x.tag = "prop" /\ y.tag = "prop" /\ x.path = y.path /\ x.prop[2] = y.prop[2]
                       => x = y
  /\ \A x \in N : x.tag = "prop" =>
       \E y \in N : /\ y.tag = "begin" /\ y.path = x.path /\ y.off < x.off
                    /\ \A z \in N : y.off < z.off /\ z.off <= x.off => z.tag \in {"prop", "nop"}
  /\ \A x \in N : x.tag = "begin" /\ x.path = <<>> => x.off = 0

(* The walk reads all words, and nothing inside a tag is one.              *)
ReadsThrough(t, V) ==
  \A c \in V : LET next == NextTag(t.struct, c.off).next
               IN  /\ Stops(t, c) => EndsWell(t, c) /\ next = Len(t.struct)
                   /\ \A i \in c.off + 2 .. next : t.struct[i][1] # "tag"

(* A blob as compilers write it.                                           *)
WellFormed(t) == ReadsThrough(t, Trail(t)) /\ Tidy({Note(t, c) : c \in Trail(t)})

(* The header and the three blocks lie inside the blob and do not overlap. *)
Blocks(t) == {<<0, HeaderWords>>,
              <<t.offRsv, t.offRsv + RsvWords * Len(t.rsv)>>,
              <<t.offStruct, t.offStruct + Len(t.struct)>>,
              <<t.offStrings, StringsEnd(t)>>,
              <<t.total, t.total + 1>>}

WellLaidOut(t) == /\ \A x, y \in Blocks(t) : x = y \/ x[2] <= y[1] \/ y[2] <= x[1]
                  /\ \A x \in Blocks(t) : x[1] <= t.total
=============================================================================
