------------------------------ MODULE Console -------------------------------
(***************************************************************************)
(* The calls that print (kprintf, kputs and the uart_put functions), of    *)
(* harts that share one UART: each call turns into characters, and         *)
(* uart_putc (uart/uart.c:13-28) puts them into the transmit FIFO one by   *)
(* one while the other harts do the same and the UART takes them out.      *)
(***************************************************************************)
EXTENDS Kprintf
LOCAL INSTANCE SequencesExt

CONSTANT Depth  \* of the transmit FIFO

ASSUME ConsoleAssumption == Depth \in Nat \ {0}

VARIABLES asked,  \* asked[h]: the call hart h is in
          todo,   \* todo[h]: characters of the call not yet in the FIFO
          out,    \* out[h]: characters of the call that went into the FIFO
          queued, \* how many characters the FIFO holds
          polled  \* harts that found room and have not yet stored (plain build)

conVars == <<asked, todo, out, queued, polled>>

(* A call of kprintf or kputs is given by the pieces of its text: letter   *)
(* "lit" for plain characters, or a conversion, its flags and its argument.*)
(* A call of a uart_put function has the number n.                         *)
Literal(text)      == [letter |-> "lit", flags |-> <<>>, n |-> 0, text |-> text]
Conv(flags, c, n)  == [letter |-> c, flags |-> flags, n |-> n, text |-> <<>>]
ConvText(c, text)  == [letter |-> c, flags |-> <<>>, n |-> 0, text |-> text]
KprintfOf(pieces)    == [fn |-> "kprintf", pieces |-> pieces, n |-> 0]
Kputs(text)        == [fn |-> "kputs", pieces |-> <<Literal(text)>>, n |-> 0]
Put(fn, n)         == [fn |-> fn, pieces |-> <<>>, n |-> n]
NoText             == [fn |-> "none", pieces |-> <<>>, n |-> 0]

Format(p) == IF p.letter = "lit" THEN p.text ELSE <<"%">> \o p.flags \o <<p.letter>>
Pieces(call, Op(_)) == FlattenSeq([k \in DOMAIN call.pieces |-> Op(call.pieces[k])])

Text(call, xlen) ==
  CASE call.fn = "kprintf" -> KprintfText(Pieces(call, Format),
                                          SelectSeq(call.pieces, LAMBDA p : Takes(p.letter)), xlen)
    [] call.fn = "kputs"   -> Chars(call.pieces[1].text)
    [] OTHER               -> PutText(call.fn, call.n)

ConsoleInit(harts) == /\ asked = [h \in harts |-> NoText]
                      /\ todo = [h \in harts |-> <<>>]
                      /\ out = [h \in harts |-> <<>>]
                      /\ queued = 0
                      /\ polled = {}

Idle(h) == asked[h] = NoText

Begin(h, call, xlen) == /\ Idle(h)
                        /\ asked' = [asked EXCEPT ![h] = call]
                        /\ todo' = [todo EXCEPT ![h] = Text(call, xlen)]
                        /\ UNCHANGED <<out, queued, polled>>

Finish(h) == /\ ~Idle(h) /\ todo[h] = <<>>
             /\ asked' = [asked EXCEPT ![h] = NoText]
             /\ out' = [out EXCEPT ![h] = <<>>]
             /\ UNCHANGED <<todo, queued, polled>>

----------------------------------------------------------------------------
(* TXFIFO reads negative while the FIFO is full.                           *)
ReadyAlways == TRUE                      \* mutant: the sign of TXFIFO is not tested
Ready == queued < Depth

(* A character stored into a full FIFO is lost.                            *)
Enqueue(h) == /\ todo[h] # <<>>
              /\ todo' = [todo EXCEPT ![h] = Tail(@)]
              /\ IF queued < Depth
                   THEN /\ queued' = queued + 1
                        /\ out' = [out EXCEPT ![h] = Append(@, Head(todo[h]))]
                   ELSE UNCHANGED <<queued, out>>
              /\ UNCHANGED asked

(* With __riscv_atomic one amoor.w both tests and stores, and is repeated  *)
(* while it finds the FIFO full.                                           *)
PutAtomic(h) == Ready /\ Enqueue(h) /\ UNCHANGED polled

(* Without, a load finds room and a store follows.                         *)
PollFifo(h) == /\ todo[h] # <<>> /\ h \notin polled
               /\ Ready
               /\ polled' = polled \cup {h}
               /\ UNCHANGED <<asked, todo, out, queued>>
StoreFifo(h) == h \in polled /\ Enqueue(h) /\ polled' = polled \ {h}

PutChar(h, atomic) == \/ atomic /\ PutAtomic(h)
                      \/ ~atomic /\ PollFifo(h)
                      \/ ~atomic /\ StoreFifo(h)

(* The UART sends a character.                                             *)
Drain == queued > 0 /\ queued' = queued - 1 /\ UNCHANGED <<asked, todo, out, polled>>

----------------------------------------------------------------------------
(* What a call is meant to print, said without the code's buffers.         *)
Number(num, base) ==
  LET f[k \in Nat] == IF k < base THEN <<Digit(k)>> ELSE Append(f[k \div base], Digit(k % base))
  IN  f[num]
Pad(text, width) == [k \in 1 .. width - Len(text) |-> Digit(0)] \o text
Abs(num) == IF num < 0 THEN -num ELSE num

Long(p)  == \E k \in DOMAIN p.flags : p.flags[k] = "l"
Short(p) == ~Long(p) /\ \E k \in DOMAIN p.flags : p.flags[k] = "h"
Value(p, xlen) == Signed(p.n, Mod(Long(p), xlen))
Width(p, xlen) == IF Short(p) THEN 2 ELSE Nibbles(Long(p), xlen)
Sign(num, plus) == IF num < 0 THEN <<Char("-")>> ELSE plus

PieceMeant(p, xlen) ==
  CASE p.letter \in {"lit", "s", "c"} -> Chars(p.text)
    [] p.letter = "x" -> Pad(Number(p.n % Hex ^ Width(p, xlen), Hex), Width(p, xlen))
    [] p.letter = "d" -> Sign(Value(p, xlen), <<>>) \o Number(Abs(Value(p, xlen)), Base)
    [] p.letter = "i" -> Sign(Value(p, xlen), <<Digit(0)>>)
                           \o Pad(Number(Abs(Value(p, xlen)), Base), Count(Long(p)))
    [] OTHER -> <<>>

Meant(call, xlen) ==
  CASE call.fn \in {"kprintf", "kputs"} -> Pieces(call, LAMBDA p : PieceMeant(p, xlen))
    [] call.fn = "put_hex_1b" -> Pad(Number(call.n % Hex ^ 2, Hex), 2)
    [] call.fn = "put_hex"    -> Pad(Number(call.n % IntMod, Hex), IntNibbles)
    [] call.fn = "put_hex64"  -> Pad(Number(call.n % IntMod ^ 2, Hex), 2 * IntNibbles)
    [] call.fn = "put_dec"    -> Number(call.n % IntMod, Base)

(* The lowest long has no negative: -num overflows and its digits come out *)
(* negative, which is undefined in C and not said to print anything.       *)
Printable(call, xlen) ==
  \A k \in DOMAIN call.pieces :
    call.pieces[k].letter \in {"d", "i"} =>
      Value(call.pieces[k], xlen) # -(Mod(TRUE, xlen) \div 2)

(* Of every call exactly the characters meant reach the UART, in order and *)
(* none lost, whoever else prints meanwhile and however slowly the UART    *)
(* sends (uart.c:13-28, kprintf.c:27-136).                                 *)
TextExact(xlen) == \A h \in DOMAIN asked :
  ~Idle(h) /\ Printable(asked[h], xlen) => out[h] \o todo[h] = Meant(asked[h], xlen)
=============================================================================
