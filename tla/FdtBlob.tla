------------------------------ MODULE FdtBlob -------------------------------
(***************************************************************************)
(* One device tree blob to which a caller of libfdt applies the operations *)
(* of FdtRw in any order, with node offsets it may hold, right or wrong.   *)
(***************************************************************************)
EXTENDS FdtRw

CONSTANTS Delivered, \* blobs as boot ROMs and compilers deliver them
          Values,    \* property values, sequences of Value words
          NewNames,  \* names callers give to nodes
          RsvSizes,  \* sizes of memory reservations callers add
          Buffers,   \* buffer sizes callers pass to fdt_open_into
          StaleOffsets  \* offsets callers hold that no node need begin at

ASSUME BlobAssumption == /\ \A t \in Delivered :
                              t \in Blobs /\ WellLaidOut(t) /\ Terminated(t) /\ WellFormed(t)
                         /\ Values \subseteq Seq(ValueWords)
                         /\ NewNames \subseteq NodeNames
                         /\ RsvSizes \subseteq Nat /\ Buffers \subseteq Nat
                         /\ StaleOffsets \subseteq Int

VARIABLES blob, \* the device tree blob
          ret,  \* what the last operation returned, 0 for any success
          tree  \* what the blob means, TreeOf(blob), kept beside it

fvars == <<blob, ret, tree>>

Init == blob \in Delivered /\ ret = 0 /\ tree = TreeOf(blob)

Do(r) == /\ blob' = r.t
         /\ tree' = IF r.t = blob THEN tree ELSE TreeOf(r.t)
         /\ ret' = IF r.ret < 0 THEN r.ret ELSE 0

DoRw(r) == Do(Rw(blob, r))

(* Offsets callers use: those of nodes and, from before the last change or *)
(* from a look-up that failed, others.                                     *)
Offsets == StaleOffsets \cup
           {o \in 0 .. Len(blob.struct) : NextTag(blob.struct, o).tag = "begin"}

(* A caller renames a node to a name that none of its siblings has.        *)
MayRename(o, name) ==
  \A x \in tree.where : LET path == x[1]
                          up   == SubSeq(path, 1, Len(path) - 1)
                      IN  x[2] = o /\ path # <<>> /\ Append(up, name) # path
                            => Append(up, name) \notin tree.nodes

SetProp    == \E o \in Offsets, p \in PropNames, v \in Values : DoRw(FdtSetProp(blob, o, p, v))
AppendProp == \E o \in Offsets, p \in PropNames, v \in Values : DoRw(FdtAppendProp(blob, o, p, v))
DelProp    == \E o \in Offsets, p \in PropNames : DoRw(FdtDelProp(blob, o, p))
SetName    == \E o \in Offsets, n \in NewNames : MayRename(o, n) /\ DoRw(FdtSetName(blob, o, n))
AddSubnode == \E o \in Offsets, n \in NewNames : DoRw(FdtAddSubnode(blob, o, n))
DelNode    == \E o \in Offsets : DoRw(FdtDelNode(blob, o))
AddMemRsv  == \E size \in RsvSizes : DoRw(FdtAddMemRsv(blob, size))
DelMemRsv  == \E n \in 0 .. Len(blob.rsv) : DoRw(FdtDelMemRsv(blob, n))
Pack       == DoRw(FdtPack(blob))
OpenInto   == \E b \in Buffers, apart \in BOOLEAN : Do(FdtOpenInto(blob, b, apart))
SetInplace == \E o \in Offsets, p \in PropNames, v \in Values : Do(FdtSetPropInplace(blob, o, p, v))
NopProp    == \E o \in Offsets, p \in PropNames : Do(FdtNopProperty(blob, o, p))
NopNode    == \E o \in Offsets : Do(FdtNopNode(blob, o))

Next == \/ SetProp \/ AppendProp \/ DelProp \/ SetName
        \/ AddSubnode \/ DelNode \/ AddMemRsv \/ DelMemRsv
        \/ Pack \/ OpenInto
        \/ SetInplace \/ NopProp \/ NopNode

Spec == Init /\ [][Next]_fvars

----------------------------------------------------------------------------
(* Types: a blob, with its reserve map ended, and a return value that is   *)
(* zero or an error (fdt_rw.c, fdt_wip.c).                                 *)
TypeOK == blob \in Blobs /\ Terminated(blob) /\ ret \in Int /\ ret <= 0

(* The blocks never overlap each other, the header or the end of the blob, *)
(* whatever is inserted, removed, packed or opened (fdt_splice_ and the    *)
(* offsets its callers shift), and the reserve map keeps its end.          *)
LaidOut == WellLaidOut(blob) /\ Terminated(blob)

(* An operation that returns an error has changed nothing, not even after  *)
(* it had already added a string (fdt_rw.c:225-229).                       *)
FailureChangesNothing == [][ret' < 0 => blob' = blob]_fvars

(* Seen as a tree of nodes and properties, every operation is a change of *)
(* one node or one property of it, or no change (fdt_rw.c, fdt_wip.c).     *)
Meaning(tr) == [nodes |-> tr.nodes, props |-> tr.props]
Abstract == INSTANCE DeviceTree WITH tree <- Meaning(tree)
ImplementsTree == Abstract!Spec

(* And it is the change its name says, to the node and the property it is  *)
(* given: in no blob that is ever reached does an operation that succeeds  *)
(* do anything else to the tree, or leave one that cannot be walked to its *)
(* end (fdt_rw.c:258-394, fdt_wip.c).                                      *)
Makes(r, tr) == r.ret >= 0 => TreeOf(r.t).ok /\ Meaning(TreeOf(r.t)) = tr

RwMakes(r, tr) == Makes(Rw(blob, r), tr)

OpsExact == \A x \in tree.where :
  LET path == x[1]
      o    == x[2]
      now  == Meaning(tree)
  IN  /\ \A p \in PropNames :
           /\ RwMakes(FdtDelProp(blob, o, p), Abstract!WithoutProp(now, path, p))
           /\ Makes(FdtNopProperty(blob, o, p), Abstract!WithoutProp(now, path, p))
           /\ \A v \in Values :
                LET set == Abstract!WithProp(now, path, p, v)
                IN  /\ RwMakes(FdtSetProp(blob, o, p, v), set)
                    /\ Makes(FdtSetPropInplace(blob, o, p, v), set)
                    /\ \A old \in Abstract!ValueOf(now, path, p) :
                         RwMakes(FdtAppendProp(blob, o, p, v),
                                 Abstract!WithProp(now, path, p, old \o v))
      /\ \A n \in NewNames : RwMakes(FdtAddSubnode(blob, o, n), Abstract!WithNode(now, path, n))
      /\ RwMakes(FdtDelNode(blob, o), Abstract!WithoutNode(now, path))
      /\ Makes(FdtNopNode(blob, o), Abstract!WithoutNode(now, path))

(* Look-ups find what the tree holds: the parent of every node, the node   *)
(* of every path no sibling's unit address makes ambiguous, the value of   *)
(* every property, and no property that is not there (fdt_ro.c).           *)
LookupsExact == \A x \in tree.where :
  LET path == x[1]
      o    == x[2]
      up   == SubSeq(path, 1, Len(path) - 1)
  IN  /\ path # <<>> => <<up, ParentOffset(blob.struct, o)>> \in tree.where
      /\ (\A i \in DOMAIN path : \A m \in NodeNames \ {path[i]} :
            BaseName[m] = path[i] => Append(SubSeq(path, 1, i - 1), m) \notin tree.nodes)
           => PathOffset(blob.struct, path) = o
      /\ \A p \in PropNames :
           LET at == PropOffset(blob, o, p)
           IN  Abstract!ValueOf(tree, path, p) = IF at < 0 THEN {} ELSE {PropValue(blob, at)}
=============================================================================
