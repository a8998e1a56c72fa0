------------------------------ MODULE Kprintf -------------------------------
(***************************************************************************)
(* The characters that kprintf (kprintf/kprintf.c) and the uart_put_       *)
(* functions (uart/uart.c) give to uart_putc.  A digit is its value; every *)
(* other character is a string.  Numbers are given as the word the caller  *)
(* passes.  The bases and the widths are scaled down: Hex for 16, Base for *)
(* 10, and as many digits as the code has.                                 *)
(***************************************************************************)
EXTENDS Integers, Sequences

CONSTANTS Hex,         \* values of a nibble, 16
          IntNibbles,  \* nibbles of an int, 8
          LongNibbles, \* LongNibbles[xlen]: nibbles of a long
          Base,        \* 10
          IntDigits,   \* digits of the buffer for an int, 10
          LongDigits   \* digits of the buffer for a long, 20

ASSUME KprintfAssumption ==
  /\ Hex \in Nat \ {0, 1} /\ IntNibbles \in Nat \ {0, 1}
  /\ LongNibbles \in [{32, 64} -> Nat]
  /\ LongNibbles[32] = IntNibbles /\ LongNibbles[64] = 2 * IntNibbles
  /\ Base \in Nat \ {0, 1}
  /\ Base ^ IntDigits > Hex ^ IntNibbles /\ Base ^ LongDigits > Hex ^ LongNibbles[64]

Char(c)  == <<"char", c>>
Digit(d) == <<"digit", d>>

IntMod == Hex ^ IntNibbles
Nibbles(long, xlen) == IF long THEN LongNibbles[xlen] ELSE IntNibbles
Mod(long, xlen) == Hex ^ Nibbles(long, xlen)

(* The value of a signed word, and that of -num in a long: the lowest      *)
(* number of a long has no negative and stays as it is.                    *)
Signed(n, mod) == IF n % mod >= mod \div 2 THEN (n % mod) - mod ELSE n % mod
Negative(n, xlen) == Signed(-n, Hex ^ LongNibbles[xlen])

(* for (; i >= 0; i -= 4)                                                  *)
HexText(n, count) == [k \in 1 .. count |-> Digit((n \div Hex ^ (count - k)) % Hex)]

(* p[inum-1] down to p[0]; the remainder of a negative number is negative. *)
Digits(num, count) ==
  [k \in 1 .. count |-> IF num >= 0 THEN (num \div Base ^ (count - k)) % Base
                        ELSE -(((-num) \div Base ^ (count - k)) % Base)]
AsText(p) == [k \in DOMAIN p |-> Digit(p[k])]

WithoutLeadingZeros(p) ==
  LET From[i \in Nat] == IF i > Len(p) THEN <<>>
                         ELSE IF p[i] # 0 THEN SubSeq(p, i, Len(p)) ELSE From[i + 1]
  IN  From[1]

Unsigned(num, count) == IF num = 0 THEN <<Digit(0)>>
                        ELSE AsText(WithoutLeadingZeros(Digits(num, count)))

DText(num, count, xlen) ==
  IF num < 0 THEN <<Char("-")>> \o Unsigned(Negative(num, xlen), count) ELSE Unsigned(num, count)
IText(num, count, xlen) ==
  IF num < 0 THEN <<Char("-")>> \o AsText(Digits(Negative(num, xlen), count))
  ELSE <<Digit(0)>> \o AsText(Digits(num, count))

----------------------------------------------------------------------------
(* One conversion, after its flags: an unknown letter prints nothing.  An  *)
(* argument is a number n or the characters text.                          *)
Count(long) == IF long THEN LongDigits ELSE IntDigits
Chars(text) == [k \in DOMAIN text |-> Char(text[k])]
Conversion(c, arg, long, char, xlen) ==
  CASE c = "x" -> HexText(arg.n, IF char /\ ~long THEN 2 ELSE Nibbles(long, xlen))
    [] c = "d" -> DText(Signed(arg.n, Mod(long, xlen)), Count(long), xlen)
    [] c = "i" -> IText(Signed(arg.n, Mod(long, xlen)), Count(long), xlen)
    [] c \in {"s", "c"} -> Chars(arg.text)
    [] OTHER   -> <<>>
Takes(c) == c \in {"x", "d", "i", "s", "c"}            \* an argument

(* The loop over the format; k is the argument that va_arg returns next.   *)
KprintfText(fmt, args, xlen) ==
  LET Plain == [format |-> FALSE, long |-> FALSE, char |-> FALSE]
      Go[i \in Nat, is \in [format : BOOLEAN, long : BOOLEAN, char : BOOLEAN], k \in Nat] ==
        IF i > Len(fmt) THEN <<>>
        ELSE IF is.format /\ fmt[i] = "l" THEN Go[i + 1, [is EXCEPT !.long = TRUE], k]
        ELSE IF is.format /\ fmt[i] = "h" THEN Go[i + 1, [is EXCEPT !.char = TRUE], k]
        ELSE IF is.format
          THEN (IF Takes(fmt[i]) THEN Conversion(fmt[i], args[k], is.long, is.char, xlen) ELSE <<>>)
                 \o Go[i + 1, Plain, IF Takes(fmt[i]) THEN k + 1 ELSE k]
        ELSE IF fmt[i] = "%" THEN Go[i + 1, [is EXCEPT !.format = TRUE], k]
        ELSE <<Char(fmt[i])>> \o Go[i + 1, is, k]
  IN  Go[1, Plain, 1]

(* uart_put_hex_1b, uart_put_hex, uart_put_hex64 and uart_put_dec.         *)
PutText(fn, n) ==
  CASE fn = "put_hex_1b" -> HexText(n % (Hex * Hex), 2)
    [] fn = "put_hex"    -> HexText(n % IntMod, IntNibbles)
    [] fn = "put_hex64"  -> HexText((n \div IntMod) % IntMod, IntNibbles)
                              \o HexText(n % IntMod, IntNibbles)
    [] fn = "put_dec"    -> Unsigned(n % IntMod, IntDigits)
=============================================================================
