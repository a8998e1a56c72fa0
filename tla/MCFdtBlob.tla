------------------------------ MODULE MCFdtBlob -------------------------------
(* One blob with a root, a node b@1 that has property p, and little room:  *)
(* delivered with the blocks in order and gaps between them, or with the   *)
(* strings in front of the structure block.                                *)
EXTENDS FdtBlob

MCNodeNames   == {"root", "b", "b@1"}
MCPropNames   == {"p", "q"}
MCBaseName    == [n \in MCNodeNames |-> IF n = "b@1" THEN "b" ELSE n]
MCNameWords   == [n \in MCNodeNames |-> IF n = "b@1" THEN 2 ELSE 1]
MCStringWords == [p \in MCPropNames |-> IF p = "q" THEN 2 ELSE 1]
MCNewNames    == {"b"}
MCValues      == {<<>>, <<Value(7)>>}
MCStaleOffsets == {-1, 2, 8}
MCRsvSizes    == {1}
MCBuffers     == {27, 31}

MCStruct == <<Tag("begin"), Name("root")>>
            \o <<Tag("begin"), Name("b@1"), Name("b@1")>>
            \o PropWords(1, <<Value(7)>>)
            \o <<Tag("endnode"), Tag("endnode"), Tag("end")>>

MCDelivered ==
  {[offRsv |-> 10, rsv |-> <<0>>, offStruct |-> 15, struct |-> MCStruct,
    offStrings |-> 28, strings |-> <<"p">>, total |-> 30],
   [offRsv |-> 11, rsv |-> <<0>>, offStruct |-> 17, struct |-> MCStruct,
    offStrings |-> 15, strings |-> <<"p">>, total |-> 29]}
=============================================================================
