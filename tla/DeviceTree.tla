----------------------------- MODULE DeviceTree -----------------------------
(***************************************************************************)
(* What the flattened device tree stands for: a set of nodes, each known   *)
(* by its path, and the values of their properties, with the changes       *)
(* libfdt promises to make to it.                                          *)
(***************************************************************************)
EXTENDS Integers, Sequences

CONSTANTS PropNames, Values, NewNames, BaseName

VARIABLE tree   \* tree.nodes: paths, sequences of names, the root is <<>>;
                \* tree.props: triples of a path, a property name and a value

Below(tr, path) == {q \in tr.nodes : Len(q) >= Len(path) /\ SubSeq(q, 1, Len(path)) = path}

Others(tr, path, p) == {x \in tr.props : x[1] # path \/ x[2] # p}

(* The value of property p, as a set of none or one.                       *)
ValueOf(tr, path, p) == {x[3] : x \in {y \in tr.props : y[1] = path /\ y[2] = p}}

WithProp(tr, path, p, v) == [tr EXCEPT !.props = Others(tr, path, p) \cup {<<path, p, v>>}]

WithoutProp(tr, path, p) == [tr EXCEPT !.props = Others(tr, path, p)]

WithNode(tr, path, n) == [tr EXCEPT !.nodes = @ \cup {Append(path, n)}]

(* A node goes with all that is below it.                                  *)
WithoutNode(tr, path) ==
  [nodes |-> tr.nodes \ Below(tr, path),
   props |-> {x \in tr.props : x[1] \notin Below(tr, path)}]

WithName(tr, path, n) ==
  LET Renamed(q) == IF q \in Below(tr, path) THEN [q EXCEPT ![Len(path)] = n] ELSE q
  IN  IF path = <<>> THEN tr   \* the root's name is in no path
      ELSE [nodes |-> {Renamed(q) : q \in tr.nodes},
            props |-> {<<Renamed(x[1]), x[2], x[3]>> : x \in tr.props}]

(* A new child's name must not find a child there is.                      *)
Free(tr, path, n) == \A m \in DOMAIN BaseName :
                       (m = n \/ BaseName[m] = n) => Append(path, m) \notin tr.nodes

----------------------------------------------------------------------------
Init == \A x \in tree.props : x[1] \in tree.nodes

SetProp(path, p, v) == tree' = WithProp(tree, path, p, v)

AppendProp(path, p, v) == \E old \in ValueOf(tree, path, p) :
                            tree' = WithProp(tree, path, p, old \o v)

DelProp(path, p) == /\ ValueOf(tree, path, p) # {}
                    /\ tree' = WithoutProp(tree, path, p)

AddNode(path, n) == /\ Free(tree, path, n)
                    /\ tree' = WithNode(tree, path, n)

DelNode(path) == tree' = WithoutNode(tree, path)

SetName(path, n) == tree' = WithName(tree, path, n)

Next == \E path \in tree.nodes :
          \/ \E p \in PropNames, v \in Values : SetProp(path, p, v) \/ AppendProp(path, p, v)
          \/ \E p \in PropNames : DelProp(path, p)
          \/ \E n \in NewNames : AddNode(path, n) \/ SetName(path, n)
          \/ DelNode(path)

Spec == Init /\ [][Next]_tree
=============================================================================
