----------------------------- MODULE FdtWriter ------------------------------
(***************************************************************************)
(* A program that writes a device tree with the functions of FdtSw.  It    *)
(* nests its nodes properly, puts a node's properties in front of its      *)
(* children and finishes when the root is closed; beyond that it calls any *)
(* function at any time, in the wrong state too, and when it runs out of   *)
(* space it may resize the buffer and try again.                           *)
(***************************************************************************)
EXTENDS FdtSw

CONSTANTS Root,      \* the name of the root
          Menu,      \* nodes the program may write: paths of names below the root
          PropMenu,  \* properties: triples of a path, a name and a value
          Sizes,     \* sizes of buffers
          Words,     \* words the values of properties are made of
          Flags,     \* flags passed to fdt_create_with_flags
          RsvSizes,  \* sizes of memory reservations
          MaxRsv     \* how many reservations the program makes

ASSUME WriterAssumption == /\ Root \in NodeNames
                           /\ Menu \subseteq Seq(NodeNames)
                           /\ \A x \in PropMenu :
                                x \in (Menu \cup {<<>>}) \X PropNames \X Seq(Words)
                           /\ \A x \in Words : x[1] \notin {"tag", "name", "len", "nameoff"}
                           /\ Sizes \subseteq Nat /\ MaxRsv \in Nat
                           /\ RsvSizes \subseteq Nat \ {0}

VARIABLES w,     \* what is in the buffer
          ret,   \* what the last call returned
          made,  \* the tree the calls that succeeded describe
          open,  \* names of the nodes that are open, from the root on
          props  \* properties may still be added to the last of them

wvars == <<w, ret, made, open, props>>

Nothing == [nodes |-> {}, props |-> {}]
Here == Tail(open)                         \* the path of the innermost open node

Init == w = Garbage /\ ret = 0 /\ made = Nothing /\ open = <<>> /\ props = FALSE

Do(r) == w' = r.t /\ ret' = r.ret

(* A call that leaves the description of the tree as it is.                *)
Call(r) == Do(r) /\ UNCHANGED <<made, open, props>>

(* A call that, if it succeeds, is this step of the description.           *)
Step(r, tree, nodes, more) ==
  /\ Do(r)
  /\ IF r.ret = 0 THEN made' = tree /\ open' = nodes /\ props' = more
     ELSE UNCHANGED <<made, open, props>>

Create == \E size \in Sizes, flags \in Flags :
            /\ w.magic = "none"
            /\ Call(FdtCreate(w, size, flags))
ResizeBuffer == \E size \in Sizes : Call(FdtResize(w, size))
Move == \E size \in Sizes : Call(FdtMove(w, size))
AddRsv == \E size \in RsvSizes : /\ Len(w.rsv) < MaxRsv
                                 /\ Call(FdtAddReservemapEntry(w, size))
FinishRsv == Call(FdtFinishReservemap(w))

(* The root first and once, then what the menu has, no child twice.        *)
MayBegin(name) == IF open = <<>> THEN w.struct = <<>> /\ name = Root
                  ELSE Append(Here, name) \in Menu \ made.nodes

BeginNode == \E name \in NodeNames :
  LET path == IF open = <<>> THEN <<>> ELSE Append(Here, name)
  IN  /\ MayBegin(name)
      /\ Step(FdtBeginNode(w, name), [made EXCEPT !.nodes = @ \cup {path}],
              Append(open, name), TRUE)

Property == \E x \in PropMenu :
  /\ props /\ open # <<>> /\ x[1] = Here
  /\ ~\E y \in made.props : y[1] = x[1] /\ y[2] = x[2]
  /\ Step(FdtProperty(w, x[2], x[3]), [made EXCEPT !.props = @ \cup {x}], open, TRUE)

EndNode == /\ open # <<>>
           /\ Step(FdtEndNode(w), made, SubSeq(open, 1, Len(open) - 1), FALSE)

Finish == /\ open = <<>> /\ made.nodes # {}
          /\ Call(FdtFinish(w))

(* A call in the wrong state, of a function that would begin the tree.     *)
Early == /\ SwProbeStruct(w) # 0
         /\ \/ Call(FdtBeginNode(w, Root))
            \/ Call(FdtEndNode(w))
            \/ \E x \in PropMenu : Call(FdtProperty(w, x[2], x[3]))
            \/ Call(FdtFinish(w))

CreateEmptyTree == \E size \in Sizes :
  /\ w.magic = "none"
  /\ LET r == FdtCreateEmptyTree(w, size, Root)
     IN  Step(r, [made EXCEPT !.nodes = {<<>>}], <<>>, FALSE)

Next == \/ Create \/ ResizeBuffer \/ Move \/ AddRsv \/ FinishRsv
        \/ BeginNode \/ Property \/ EndNode \/ Finish
        \/ Early \/ CreateEmptyTree

Spec == Init /\ [][Next]_wvars

----------------------------------------------------------------------------
TypeOK == /\ w.magic \in {"none", "sw", "fdt"}
          /\ w.total \in Nat /\ w.offStruct \in Nat /\ w.sizeStrings \in Nat
          /\ ret \in Int
          /\ open \in Seq(NodeNames) /\ props \in BOOLEAN

(* However full the buffer gets, the strings that grow down from its end   *)
(* never reach the structure that grows up, nor either of them the header  *)
(* (fdt_sw.c:94-107, 250-266); a finished blob ends where its strings do.  *)
NeverMeet ==
  w.magic # "none" =>
    /\ HeaderWords <= w.offStruct
    /\ StructTop(w) + w.sizeStrings <= w.total
    /\ w.magic = "sw" => w.offStrings \in {0, w.total}

(* A finished blob is the tree that the calls described: every property    *)
(* has its name, whatever the order in which names were shared, and those  *)
(* who read it accept it and find in it every node and every property      *)
(* (fdt_sw.c:337-384; fdt.c, fdt_ro.c).                                    *)
Written == LET tr == TreeOf(w) IN [nodes |-> tr.nodes, props |-> tr.props, ok |-> tr.ok]

FinishedTree == w.magic = "fdt" =>
  /\ Written = [nodes |-> made.nodes, props |-> made.props, ok |-> TRUE]
  /\ FdtCheckHeader(w) = 0
  /\ WellLaidOut(w)
  /\ w.sizeStrings = SumWords(w.strings)

(* What has been written can also be read while the rest is being written: every*)
(* node is found by its path and every property by its name (the branches  *)
(* of fdt_ro_probe_ and fdt_get_string for an unfinished blob).            *)
UnfinishedTree == (w.magic = "sw" /\ made.nodes # {}) =>
  LET t == Readable(w)
      Offset(path) == PathOffset(t.struct, path)
  IN  /\ RoProbe(w) = 0
      /\ \A path \in made.nodes : Offset(path) >= 0
      /\ \A x \in made.props : LET p == PropOffset(t, Offset(x[1]), x[2])
                               IN  p >= 0 /\ PropValue(t, p) = x[3]

(* A call that fails has changed nothing, not even after it had already    *)
(* added a string, so that it can be made again (fdt_sw.c:311-316); the    *)
(* empty tree, made of several calls, may be left unfinished.              *)
FailedCallChangesNothing ==
  [][(ret' < 0 /\ w.magic # "none") => w' = w]_wvars

(* A call runs out of space only when the buffer has less room than the    *)
(* words it adds: with the string of a property as well, if its name is    *)
(* not there yet or is not looked for.                                     *)
RoomLeft == w.total - StructTop(w) - w.sizeStrings
NewString(name) == IF w.flags = "none" /\ \E i \in DOMAIN w.strings : w.strings[i] = name
                     THEN 0 ELSE StringWords[name]
NoSpaceMeansFull == SwProbeStruct(w) = 0 =>
  /\ \A name \in NodeNames :
       FdtBeginNode(w, name).ret = NOSPACE <=> NameWords[name] + 1 > RoomLeft
  /\ \A x \in PropMenu :
       FdtProperty(w, x[2], x[3]).ret = NOSPACE <=> NewString(x[2]) + 3 + Len(x[3]) > RoomLeft
  /\ FdtFinish(w).ret = NOSPACE <=> RoomLeft < 1
=============================================================================
