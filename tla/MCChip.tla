------------------------------- MODULE MCChip -------------------------------
(* Harts 0, 1 and 3 of a chip with four MSIP registers.  Nibbles of two    *)
(* bits, three to an int, and digits to the base three, with the numbers   *)
(* at which a sign or a digit more begins.  The three harts meet four      *)
(* times at the barrier: each of its two generations is used twice, so a   *)
(* flag or a count left over from its first use is met.                    *)
EXTENDS Chip

MCHarts == {0, 1, 3}
MCLongNibbles == [xlen \in {32, 64} |-> IF xlen = 32 THEN 3 ELSE 6]

MCPrograms ==
  {[job |-> "smp", atomic |-> TRUE, xlen |-> 32], [job |-> "smp", atomic |-> FALSE, xlen |-> 32]}
    \cup [job : {"main"}, atomic : BOOLEAN, xlen : {32}]
    \cup [job : {"barrier"}, atomic : {TRUE}, xlen : {32}]
    \cup [job : {"clock"}, atomic : {TRUE}, xlen : {32, 64}]
    \cup [job : {"print"}, atomic : {TRUE}, xlen : {32, 64}]

Ints  == {0, 1, 3, 9, 31, 32, 63}
Longs == Ints \cup {64, 2047, 2048, 4095}
Flags == {<<>>, <<"l">>, <<"h">>}
Letters == {"x", "d", "i"}

MCCalls ==
  [job \in {"smp", "print"} |->
     IF job = "smp" THEN {Kputs(<<"a", "b">>)}
     ELSE {KprintfOf(<<Conv(f, c, n)>>) : f \in {<<>>, <<"h">>}, c \in Letters, n \in Ints}
       \cup {KprintfOf(<<Conv(<<"l">>, c, n)>>) : c \in Letters, n \in Longs}
       \cup {Put(fn, n) : fn \in {"put_hex_1b", "put_hex", "put_dec"}, n \in Ints}
       \cup {Put("put_hex64", n) : n \in Longs}
       \cup {KprintfOf(<<Literal(<<"a">>), Conv(<<>>, "?", 0), ConvText("s", <<"s", "t">>),
                       ConvText("c", <<"u">>), Conv(<<"l">>, "d", 9), Conv(<<>>, "x", 5)>>)}]

(* What PrintsExactly is proved from, of every call this instance makes:  *)
(* the conversions of kprintf and of the put functions spell their values. *)
ASSUME MCSpells == Spells
=============================================================================
