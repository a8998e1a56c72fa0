-------------------------------- MODULE I2c ---------------------------------
(***************************************************************************)
(* The polled I2C driver, i2c/driver.c, over a controller that carries out *)
(* one command at a time, when it gets round to it or never, and a device  *)
(* that acknowledges a byte or does not.  A call is a list of legs, each   *)
(* an address and some bytes in one direction.  Every access of the        *)
(* driver to a register of the controller or to the clock is a step.       *)
(***************************************************************************)
EXTENDS Integers, Sequences

CONSTANTS LoMod,     \* values of the low half of mtime, 2^32
          TimeBase,  \* timescale_freq, ticks of mtime in a second
          Calls,     \* calls made: records of op, tx, rx, stop and there
          Word,      \* values of an unsigned long, 2^32
          Byte,      \* values of a byte, 2^8
          ClockRate, \* tlclk_freq
          Bauds      \* rates asked for

ASSUME I2cAssumption == /\ Calls \subseteq [op : {"write", "read", "transfer"}, tx : Nat, rx : Nat,
                                       stop : BOOLEAN, there : BOOLEAN]
                        /\ TimeBase \in Nat \ {0} /\ LoMod \in Nat \ {0}
                        /\ Byte \in Nat \ {0} /\ Word \in Nat
                        /\ Byte * Byte < Word \div 2
                        /\ ClockRate \in 1 .. Word \div 2 - 1
                        /\ Bauds \subseteq 1 .. Word - 1

VARIABLES pc,       \* where the driver is, "idle" between calls
          call,     \* the call in progress or the last one
          legs,     \* its legs still to do
          i,        \* bytes of the first of them sent or received
          ret,      \* the driver's return value
          timeout,  \* the second after which it gives up
          waited,   \* ticks since timeout was set, up to TimeBase + 1
          tip,      \* TIP: the controller is carrying out a command
          rxack,    \* RXACK: the last byte was not acknowledged
          log,      \* commands of the call, each with its acknowledgement
          lo,       \* low half of mtime
          baud,     \* the rate last set, 0 before
          prescale  \* the two prescaler registers

cvars == <<call, legs, i, ret, log>>
tvars == <<timeout, waited>>
bvars == <<baud, prescale>>
vars  == <<pc, cvars, tvars, tip, rxack, lo, bvars>>

Ok  == 0
Err == -1

Leg(rw, len, stop) == [rw |-> rw, len |-> len, stop |-> stop]
LegType == [rw : {"W", "R"}, len : Nat, stop : BOOLEAN]

(* i2c0_write, i2c0_read and i2c0_transfer, which leaves out a leg with no *)
(* bytes and sends one STOP, at its end.                                   *)
LegsOf(c) ==
  IF c.op = "write" THEN <<Leg("W", c.tx, c.stop)>>
  ELSE IF c.op = "read" THEN <<Leg("R", c.rx, c.stop)>>
  ELSE (IF c.tx > 0 THEN <<Leg("W", c.tx, c.rx = 0)>> ELSE <<>>)
         \o (IF c.rx > 0 THEN <<Leg("R", c.rx, TRUE)>> ELSE <<>>)

(* Commands: START and an address, or a byte; the last one read is not     *)
(* acknowledged by the driver.                                             *)
CmdType == [kind : {"addr", "byte"}, rw : {"W", "R"}, n : Nat, stop : BOOLEAN, nack : BOOLEAN]
Address(leg) == [kind |-> "addr", rw |-> leg.rw, n |-> 0, stop |-> FALSE, nack |-> FALSE]
ByteCmd(leg, n) ==
  [kind |-> "byte", rw |-> leg.rw, n |-> n, stop |-> leg.stop /\ n = leg.len - 1,
   nack |-> leg.rw = "R" /\ n = leg.len - 1]

Now == lo \div TimeBase                             \* metal_time()
MaxTime == (LoMod - 1) \div TimeBase                \* then it is 0 again

TypeOK == /\ pc \in {"idle", "addr", "free", "free?", "start", "byte", "arm", "poll", "poll?", "answer"}
          /\ call \in Calls
          /\ legs \in Seq(LegType) /\ i \in Nat
          /\ pc = "idle" \/ (legs # <<>> /\ i <= legs[1].len)
          /\ log \in Seq([cmd : CmdType, acked : BOOLEAN])
          /\ ret \in {Ok, Err}
          /\ timeout \in 0 .. MaxTime + 1 /\ waited \in 0 .. TimeBase + 1
          /\ tip \in BOOLEAN /\ rxack \in BOOLEAN
          /\ lo \in 0 .. LoMod - 1
          /\ baud \in Bauds \cup {0} /\ prescale \in [low : 0 .. Byte - 1, high : 0 .. Byte - 1]

Init == /\ pc = "idle"
        /\ call \in Calls /\ call.there = FALSE     \* none yet
        /\ legs = <<>> /\ i = 0 /\ ret = Err /\ log = <<>>
        /\ timeout = 0 /\ waited = 0
        /\ tip = FALSE /\ rxack = FALSE
        /\ lo \in 0 .. LoMod - 1
        /\ baud = 0 /\ prescale = [low |-> 0, high |-> 0]

----------------------------------------------------------------------------
(* The driver goes to label there, its bookkeeping as it was.              *)
Goto(here, there) == pc = here /\ pc' = there
Device == <<tip, rxack, lo, bvars>>

(* A call of the driver; without a device (gi2c is NULL) it fails at once. *)
Call(c) == /\ pc = "idle"
           /\ pc' = IF c.there /\ LegsOf(c) # <<>> THEN "addr" ELSE "idle"
           /\ call' = c
           /\ legs' = IF c.there THEN LegsOf(c) ELSE <<>>
           /\ i' = 0
           /\ ret' = IF c.there THEN Ok ELSE Err
           /\ log' = <<>>
           /\ UNCHANGED <<tvars, Device>>

(* METAL_I2C_TIMEOUT_RESET                                                 *)
TimeoutReset(here, there) == /\ Goto(here, there)
                             /\ timeout' = Now + 1
                             /\ waited' = 0
                             /\ UNCHANGED <<cvars, Device>>

NeverUp == FALSE                                    \* mutant: no timeout check
UpEarly == Now >= timeout                           \* mutant: >= for >
TimeUp == Now > timeout

Return(value) == /\ pc' = "idle"
                 /\ ret' = value
                 /\ legs' = <<>>
                 /\ UNCHANGED <<call, i, log>>

(* METAL_I2C_REG_CHECK: read TIP, and the clock while it is set.           *)
Poll(here, asking, there) == /\ Goto(here, IF tip THEN asking ELSE there)
                             /\ UNCHANGED <<cvars, tvars, Device>>
NotYet(asking, here) == /\ ~TimeUp
                        /\ Goto(asking, here)
                        /\ UNCHANGED <<cvars, tvars, Device>>
GiveUp == /\ pc \in {"free?", "poll?"}
          /\ TimeUp
          /\ Return(Err)
          /\ UNCHANGED <<tvars, Device>>

(* A command is written to the controller, which sets TIP.                 *)
Issue(command) == /\ pc' = "arm"
                  /\ tip' = TRUE
                  /\ log' = Append(log, [cmd |-> command, acked |-> FALSE])
                  /\ UNCHANGED <<call, legs, i, ret, tvars, rxack, lo, bvars>>

BeginUnchecked == TimeoutReset("addr", "start")     \* mutant: first check of TIP left out
Begin == TimeoutReset("addr", "free")

SendAddress == pc = "start" /\ Issue(Address(legs[1]))
SendByte == pc = "byte" /\ i < legs[1].len /\ Issue(ByteCmd(legs[1], i))

(* The leg is over: the next one, or the call returns what it has.         *)
NextLeg(value) == IF Len(legs) > 1
                    THEN /\ pc' = "addr"
                         /\ legs' = Tail(legs)
                         /\ i' = 0
                         /\ ret' = value
                         /\ UNCHANGED <<call, log>>
                  ELSE Return(value)

EndLeg == /\ pc = "byte" /\ i = legs[1].len
          /\ NextLeg(ret)
          /\ UNCHANGED <<tvars, Device>>

Answered == log[Len(log)].cmd
NackedNever == FALSE                                \* mutant: RXACK not looked at
Nacked == rxack /\ (Answered.kind = "addr" \/ Answered.rw = "W")

(* The command is done.  An address that nobody acknowledges ends the      *)
(* call, a byte only the leg; an address that is acknowledged sets ret.    *)
AddressDone == /\ pc = "answer" /\ Answered.kind = "addr"
               /\ IF Nacked THEN Return(Err)
                  ELSE /\ pc' = "byte"
                       /\ ret' = Ok
                       /\ UNCHANGED <<call, legs, i, log>>
               /\ UNCHANGED <<tvars, Device>>
ByteDone == /\ pc = "answer" /\ Answered.kind = "byte"
            /\ IF Nacked THEN NextLeg(Err)
               ELSE /\ pc' = "byte"
                    /\ i' = i + 1
                    /\ UNCHANGED <<call, legs, ret, log>>
            /\ UNCHANGED <<tvars, Device>>

Work == \/ Begin
        \/ Poll("free", "free?", "start") \/ NotYet("free?", "free")
        \/ SendAddress
        \/ TimeoutReset("arm", "poll")
        \/ Poll("poll", "poll?", "answer") \/ NotYet("poll?", "poll")
        \/ AddressDone \/ SendByte \/ ByteDone \/ EndLeg

(* i2c0_set_baud_rate: the prescaler as a long, -1 and less included,      *)
(* which the test lets through.                                            *)
Signed(x) == IF x >= Word \div 2 THEN x - Word ELSE x
Quotient(a, b) == IF b = 0 THEN Word - 1 ELSE a \div b      \* divu
Prescaler(b) == Signed((Quotient(ClockRate, (b * 5) % Word) - 1) % Word)
SplitLow(p) == [low |-> p % Byte, high |-> p % Byte]        \* mutant: no shift
Split(p) == [low |-> p % Byte, high |-> (p \div Byte) % Byte]

SetBaud(b) == /\ pc = "idle"
              /\ LET p == Prescaler(b)
                 IN  IF p <= Byte * Byte - 1 \/ p < 0
                       THEN prescale' = Split(p) /\ baud' = b
                     ELSE UNCHANGED bvars
              /\ UNCHANGED <<pc, cvars, tvars, tip, rxack, lo>>

(* The controller and the clock.                                           *)
Complete(nack) == /\ tip
                  /\ tip' = FALSE
                  /\ rxack' = nack
                  /\ log' = IF log = <<>> THEN log ELSE [log EXCEPT ![Len(log)].acked = ~nack]
                  /\ UNCHANGED <<pc, call, legs, i, ret, tvars, lo, bvars>>

Tick == /\ lo' = (lo + 1) % LoMod
        /\ waited' = IF waited > TimeBase THEN waited ELSE waited + 1
        /\ UNCHANGED <<pc, cvars, timeout, tip, rxack, bvars>>

Next == \/ \E c \in Calls : Call(c)
        \/ Work
        \/ GiveUp
        \/ \E b \in Bauds : SetBaud(b)
        \/ \E nack \in BOOLEAN : Complete(nack)
        \/ Tick

(* The driver and the clock run; the second in which a timeout can be seen *)
(* is long enough for a poll.  Nothing is assumed of the controller.       *)
Spec == /\ Init /\ [][Next]_vars
        /\ WF_vars(Work) /\ SF_vars(TimeUp /\ Work) /\ SF_vars(GiveUp) /\ WF_vars(Tick)

----------------------------------------------------------------------------
(* What a call asks the bus to do.                                         *)
Commands(leg, n) ==
  <<Address(leg)>> \o [k \in 1 .. n |-> [kind |-> "byte", rw |-> leg.rw, n |-> k - 1,
                                        stop |-> leg.stop /\ k = leg.len,
                                        nack |-> leg.rw = "R" /\ k = leg.len]]

Issued == [k \in DOMAIN log |-> log[k].cmd]

(* Every command the device must acknowledge was, but those at except.     *)
AllAcked(except) == \A k \in DOMAIN log :
  log[k].acked \/ k \in except \/ (log[k].cmd.rw = "R" /\ log[k].cmd.kind = "byte")

(* The address and the bytes of the call's legs, in order, with its STOP;  *)
(* the first of two legs may have broken off at a byte not acknowledged.   *)
Done ==
  LET all == LegsOf(call)
  IN  /\ Len(all) = 0 => log = <<>>
      /\ Len(all) = 1 => Issued = Commands(all[1], all[1].len) /\ AllAcked({})
      /\ Len(all) = 2 => \E n \in 1 .. all[1].len :
                           /\ Issued = Commands(all[1], n) \o Commands(all[2], all[2].len)
                           /\ AllAcked({n + 1})
                           /\ n < all[1].len => ~log[n + 1].acked

(* A call that returns success has put on the bus exactly the address and  *)
(* the bytes of its legs, in order, with its STOP, and all were            *)
(* acknowledged; only a transfer that goes on to read may have broken off  *)
(* its writing at a byte that was not (driver.c:130-331).                  *)
OkMeansDone == (pc = "idle" /\ ret = Ok) => Done

(* No command is given while another one is in progress, not even after a  *)
(* timeout: the answer a call looks at is the answer to its own command.   *)
OneAtATime == [][Len(log') > Len(log) => ~tip]_vars

(* A call gives up no earlier than a second after it began to wait,        *)
(* wherever the clock is when it wraps around (driver.c:30-42).            *)
NotEarly == [][(pc \in {"free?", "poll?"} /\ pc' = "idle") => waited >= TimeBase]_vars

(* A call returns whatever the controller does, unless it began to wait in *)
(* the last two seconds before metal_time() wraps around: its timeout is   *)
(* then a time that never comes, and a controller that does not finish     *)
(* keeps it for ever.                                                      *)
Returns == []<>(pc = "idle") \/ <>[](tip /\ timeout >= MaxTime)

(* A rate that can be made at all, 5 * baud <= ClockRate, is met by the    *)
(* slowest rate the controller can make that is not slower (driver.c:61,   *)
(* 68-76): the next divisor would make it too slow.                        *)
RateClosest == LET divisor == prescale.low + Byte * prescale.high + 1
               IN  (baud > 0 /\ 5 * baud <= ClockRate) =>
                     5 * divisor * baud <= ClockRate /\ ClockRate < 5 * (divisor + 1) * baud

(* driver.c:82, on a prescaler of less than 0 or more than                 *)
(* METAL_I2C_PRESCALE_MAX: "Out of range value, return error".             *)
OutOfRangeRefused == baud > 0 => ClockRate \div (5 * baud) - 1 \in 0 .. Byte * Byte - 1

(* driver.c:287, on a byte of i2c0_transfer: "No ACK, return error".       *)
NackMeansError == (pc = "idle" /\ ret = Ok) => AllAcked({})
=============================================================================
