------------------------------ MODULE Program -------------------------------
(***************************************************************************)
(* Programs on the harts of the chip: every hart goes through smp_pause    *)
(* and smp_resume, and then                                                *)
(*   - uses the macros again, with harts that print in between ("smp"),    *)
(*   - NONSMP_HART is at the end of main(), where it prints the numbers of *)
(*     the TRNG and loops (main.c:473-496), the others in slave_main       *)
(*     ("main"),                                                           *)
(*   - or NONSMP_HART calls the time functions ("clock") or the functions  *)
(*     that print ("print"), or the harts meet at a barrier ("barrier",    *)
(*     module Chip).                                                       *)
(* In a build without atomics only NONSMP_HART prints.                     *)
(***************************************************************************)
EXTENDS Smp, Clock, Trng, Console

CONSTANTS Programs,  \* [job, atomic, xlen]: what runs, and how it is built
          Calls      \* Calls[job]: the calls its harts print with

ASSUME ProgramAssumption ==
  Programs \subseteq [job : {"smp", "main", "clock", "print", "barrier"}, atomic : BOOLEAN, xlen : {32, 64}]

VARIABLE program

vars == <<program, svars, cvars, tvars, conVars>>

ProgramInit == /\ Init /\ ClockInit /\ TrngInit /\ ConsoleInit(Harts)
               /\ program \in Programs
               /\ program.job # "clock" => ns = 0

At(h, job) == pc[h] = "multi" /\ program.job = job

(* The two macros; a hart comes back to smp_pause when it has printed.     *)
Macros(h) ==
  /\ \/ Pause(h) \/ Resume(h) \/ Raise(h) \/ (Wake(h) /\ mie[h] = 1) \/ Clear(h) \/ Scan(h)
     \/ At(h, "smp") /\ Idle(h) /\ Again(h)
  /\ UNCHANGED <<program, cvars, tvars, conVars>>

(* A hart begins to print.                                                 *)
Talk(h) == /\ \/ At(h, "smp") /\ (program.atomic \/ h = NonSmpHart)
              \/ At(h, "print") /\ h = NonSmpHart
           /\ \E call \in Calls[program.job] : Begin(h, call, program.xlen)
           /\ UNCHANGED <<program, svars, cvars, tvars>>

(* uart_putc, and the return of the call that prints.                      *)
Putc(h) == PutChar(h, program.atomic) /\ UNCHANGED <<program, svars, cvars, tvars>>
Printing(h) == h = NonSmpHart /\ m.at \in {"printing", "saying"}
Returned(h) == /\ Finish(h)
               /\ IF Printing(h) THEN NextNumber \/ Said ELSE UNCHANGED tvars
               /\ UNCHANGED <<program, svars, cvars>>

(* kprintf("random number %d: %d \n",i, rand), and the messages on errors. *)
NumberCall == KprintfOf(<<Literal(<<"r">>), Conv(<<>>, "d", m.i), Literal(<<":">>),
                        Conv(<<>>, "d", m.rand)>>)
ErrorCall  == KprintfOf(<<Literal(<<"E">>)>>)

Main == /\ At(NonSmpHart, "main")
        /\ \/ DriverStep /\ UNCHANGED conVars
           \/ Printed /\ Begin(NonSmpHart, NumberCall, program.xlen)
           \/ SayError /\ Begin(NonSmpHart, ErrorCall, program.xlen)
        /\ UNCHANGED <<program, svars, cvars>>

Time == /\ At(NonSmpHart, "clock")
        /\ ClockCall(program.xlen) \/ ClockStep
        /\ UNCHANGED <<program, svars, tvars, conVars>>

GoesOn(h) == \/ Macros(h)
             \/ Putc(h)
             \/ Returned(h)
             \/ h = NonSmpHart /\ Main
             \/ h = NonSmpHart /\ Time

HartStep(h) == GoesOn(h) \/ Talk(h)

(* What the devices do by themselves.                                      *)
Sends   == Drain /\ UNCHANGED <<program, svars, cvars, tvars>>
Counts  == Tick /\ UNCHANGED <<program, svars, tvars, conVars>>
Makes   == Make /\ UNCHANGED <<program, svars, cvars, conVars>>

ProgramNext == \/ \E h \in Harts : HartStep(h)
               \/ Sends
               \/ Counts
               \/ Makes

(* Every hart goes on with what it has begun, and the UART sends what it   *)
(* holds; the generator may keep main waiting for ever.                    *)
ProgramFairness == WF_vars(Sends) /\ \A h \in Harts : WF_vars(GoesOn(h))

ProgramSpec == ProgramInit /\ [][ProgramNext]_vars /\ ProgramFairness

----------------------------------------------------------------------------
(* What is printed is what was asked for, in every program (uart.c:13-28). *)
TextsExact == TextExact(program.xlen)

(* What the harts say, and that its conversion, which is sequential, is    *)
(* right: the characters of a call are a sequence and those it means.      *)
NumberOf(k, v) == KprintfOf(<<Literal(<<"r">>), Conv(<<>>, "d", k), Literal(<<":">>), Conv(<<>>, "d", v)>>)
Spoken == Calls["smp"] \cup Calls["print"] \cup {ErrorCall}
            \cup {NumberOf(k, v) : k \in 0 .. Numbers - 1, v \in Values}
Alphabet(text) == {text[k] : k \in DOMAIN text}
Spells == \A call \in Spoken, xlen \in {32, 64} :
            /\ call # NoText
            /\ Text(call, xlen) \in Seq(Alphabet(Text(call, xlen)))
            /\ Printable(call, xlen) => Text(call, xlen) = Meant(call, xlen)

(* main always gets to its last loop: it does not wait for ever for harts, *)
(* for the UART, or for a generator that never answers (trng.c:41-47,      *)
(* 71-77; main.c:496).                                                     *)
MainEnds == <>(program.job = "main" => m.at = "loop")
=============================================================================
