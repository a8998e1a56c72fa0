----------------------------- MODULE MCFdtMake ------------------------------
(* Trees of two nodes and a node of labels, which refer to each other, and *)
(* overlays that a compiler might deliver.                                 *)
EXTENDS FdtMake

MCNodeNames == {"/", "b", "c", "n", "f0", "f1", "__overlay__", "__symbols__",
                "__fixups__", "__local_fixups__"}
MCPropNames == {"phandle", "linux,phandle", "p", "q", "c", "n", "m", "target", "target-path",
                "#address-cells", "#size-cells", "reg"}
MCBaseName    == [n \in MCNodeNames |-> n]
MCNameWords   == [n \in MCNodeNames |-> IF n = "c" THEN 2 ELSE 1]
MCStringWords == [p \in MCPropNames |-> IF p = "q" THEN 2 ELSE 1]

MCMenu == {<<"b">>, <<"c">>, <<"__symbols__">>}
One == Value(1)
Two == Value(2)
MCPropMenu == {<< <<"b">>, "phandle", <<One>> >>,
               << <<"c">>, "phandle", <<Two>> >>,
               << <<"c">>, "p", <<One, Two, NUL, Two, NUL>> >>,
               << <<"__symbols__">>, "c", <<<<"path", <<"c">> >>>> >>}
MCWords == {NUL, One, Two, <<"path", <<"c">> >>}

(* An overlay is compiled from a list of calls.                            *)
Begin(name)   == <<"begin", name>>
Prop(name, v) == <<"prop", name, v>>
Close           == <<"end">>
Call1(t, x) == CASE x[1] = "begin" -> FdtBeginNode(t, x[2]).t
                 [] x[1] = "prop"  -> FdtProperty(t, x[2], x[3]).t
                 [] OTHER          -> FdtEndNode(t).t
Compiled(calls) ==
  LET Go[i \in 0 .. Len(calls)] ==
        IF i = 0 THEN FdtFinishReservemap(FdtCreate(Garbage, 200, "none").t).t
        ELSE Call1(Go[i - 1], calls[i])
  IN  FdtFinish(Go[Len(calls)]).t

Hole == Value(MaxPhandle)        \* a cell that is filled in when the overlay is merged

(* A node below /b with a phandle, which refers to itself and to the base  *)
(* tree's c; a fragment that is not merged; a label in each.               *)
AddNode == <<
  Begin("/"),
    Begin("f0"), Prop("target-path", PathWords(<<"b">>, 3)),
      Begin("__overlay__"), Prop("p", <<Two>>),
        Begin("n"), Prop("phandle", <<One>>), Prop("q", <<Hole, One>>), Close,
      Close, Close,
    Begin("f1"), Close,
    Begin("__symbols__"), Prop("n", <<<<"path", <<"f0", "__overlay__", "n">> >>>>),
                          Prop("m", <<<<"path", <<"f1">> >>>>), Close,
    Begin("__fixups__"), Prop("c", <<FixupWord(<<"f0", "__overlay__", "n">>, "q", 0)>>), Close,
    Begin("__local_fixups__"),
      Begin("f0"), Begin("__overlay__"), Begin("n"), Prop("q", <<One>>), Close, Close, Close, Close,
  Close>>

(* A fragment that goes to a label, perhaps of an overlay before, sets one *)
(* property there twice and gives the node a second label.                 *)
UseLabel(label) == <<
  Begin("/"),
    Begin("f0"), Prop("target", <<Hole>>),
      Begin("__overlay__"), Prop("p", <<One, Two>>), Close, Close,
    Begin("f1"), Prop("target", <<Hole>>),
      Begin("__overlay__"), Prop("p", <<Hole, Two>>), Begin("n"), Prop("#address-cells", <<One>>), Close, Close, Close,
    Begin("__symbols__"), Prop("m", <<<<"path", <<"f0", "__overlay__">> >>>>), Close,
    Begin("__fixups__"),
      Prop(label, <<FixupWord(<<"f0">>, "target", 0), FixupWord(<<"f1">>, "target", 0),
                    FixupWord(<<"f1", "__overlay__">>, "p", 0)>>), Close,
  Close>>

(* A fragment of the root that numbers /b anew and makes a new node, with  *)
(* a reference to it that comes first.                                     *)
Renumber == <<
  Begin("/"),
    Begin("f0"), Prop("target-path", PathWords(<<>>, 2)),
      Begin("__overlay__"), Prop("p", <<One>>),
        Begin("b"), Prop("phandle", <<Two>>), Close,
        Begin("n"), Prop("linux,phandle", <<One>>), Prop("q", <<Two>>),
                    Prop("#size-cells", <<Two>>), Close,
      Close, Close,
    Begin("__symbols__"), Prop("n", <<<<"path", <<"f0", "__overlay__", "n">> >>>>), Close,
    Begin("__local_fixups__"),
      Begin("f0"), Begin("__overlay__"), Prop("p", <<Value(0)>>),
        Begin("n"), Prop("q", <<Value(0)>>), Close, Close, Close, Close,
  Close>>

(* One that fails late, when no node has phandle 1, or early, when its own *)
(* phandle gets too high; and one whose local fixups name a cell that is   *)
(* not there.                                                              *)
LostTarget == <<
  Begin("/"),
    Begin("f0"), Prop("target-path", PathWords(<<"b">>, 3)),
      Begin("__overlay__"), Prop("q", <<One>>),
        Begin("n"), Prop("phandle", <<Value(5)>>), Prop("#address-cells", <<Value(3)>>), Close, Close, Close,
    Begin("f1"), Prop("target", <<One>>), Begin("__overlay__"), Prop("q", <<>>), Close, Close,
  Close>>
LostCell == <<
  Begin("/"),
    Begin("f0"), Prop("target-path", PathWords(<<"b">>, 3)),
      Begin("__overlay__"), Prop("p", <<One>>), Close, Close,
    Begin("__local_fixups__"), Begin("f0"), Begin("__overlay__"), Prop("p", <<One>>), Close, Close, Close,
  Close>>

MCOverlays == {Compiled(AddNode), Compiled(UseLabel("c")), Compiled(UseLabel("n")),
               Compiled(Renumber), Compiled(LostTarget), Compiled(LostCell)}
MCSizes    == {30, 80}
MCFlags    == {"none", "no name dedup", "other"}
MCRsvSizes == {1}
MCBuffers  == {88}
=============================================================================
