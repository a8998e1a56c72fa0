----------------------------- MODULE I2cProofs ------------------------------
(***************************************************************************)
(* Proofs about the I2C driver for any calls, clock and rates: one command *)
(* at a time, a call that succeeds has done what it says, none gives up    *)
(* before a second is over, and the rate set is the closest.               *)
(***************************************************************************)
EXTENDS I2c, SequenceTheorems, TLAPS

Places == {"idle", "addr", "free", "free?", "start", "byte", "arm", "poll", "poll?", "answer"}

(* The driver gives a command, or looks at an answer, only when it has     *)
(* seen the controller at rest.                                            *)
AtRest == pc \in {"start", "byte", "answer"} => ~tip

Waiting == pc \in {"free", "free?", "poll", "poll?"}

(* The clock has not gone further from the second before timeout than it   *)
(* has ticked, unless it wrapped around and is far below.                  *)
Behind == Waiting /\ waited <= TimeBase => lo < timeout * TimeBase + waited

Times == lo \in Nat /\ timeout \in Nat /\ waited \in 0 .. TimeBase + 1 /\ tip \in BOOLEAN

IInv == Times /\ AtRest /\ Behind

-----------------------------------------------------------------------------
LEMMA Divided == ASSUME NEW n \in Nat
                 PROVE  /\ n \div TimeBase \in Nat
                        /\ n < (n \div TimeBase + 1) * TimeBase
                        /\ (n \div TimeBase) * TimeBase <= n
  BY I2cAssumption

(* While the time is up, a second is over.                                 *)
LEMMA UpMeansOver == ASSUME IInv, Waiting, TimeUp
                     PROVE  waited >= TimeBase
<1>1. lo \in Nat /\ timeout \in Nat /\ waited \in Nat /\ TimeBase \in Nat \ {0}
  BY I2cAssumption DEF IInv, Times
<1> DEFINE q == lo \div TimeBase
<1>2. q \in Nat /\ q * TimeBase <= lo /\ q >= timeout + 1
  BY <1>1, Divided DEF TimeUp, Now
<1>3. q * TimeBase >= (timeout + 1) * TimeBase
  <2> HIDE DEF q
  <2> QED
    BY <1>1, <1>2
<1>4. (timeout + 1) * TimeBase = timeout * TimeBase + TimeBase
  BY <1>1
<1>5. lo >= timeout * TimeBase + TimeBase
  <2> HIDE DEF q
  <2>1. timeout * TimeBase \in Nat
    BY <1>1
  <2> QED
    BY <1>1, <1>2, <1>3, <1>4, <2>1
<1>6. timeout * TimeBase \in Nat
  BY <1>1
<1> QED
  BY <1>1, <1>5, <1>6 DEF IInv, Behind

LEMMA IInvInit == Init => IInv
<1> SUFFICES ASSUME Init
             PROVE  IInv
  OBVIOUS
<1>1. pc = "idle" /\ timeout = 0 /\ waited = 0 /\ tip = FALSE /\ lo \in 0 .. LoMod - 1
  BY DEF Init
<1>2. TimeBase \in Nat \ {0} /\ LoMod \in Nat \ {0}
  BY I2cAssumption
<1>3. lo \in Nat /\ 0 \in Nat /\ 0 \in 0 .. TimeBase + 1
  BY <1>1, <1>2
<1>4. Times
  BY <1>1, <1>3 DEF Times
<1> QED
  BY <1>1, <1>4 DEF IInv, AtRest, Behind, Waiting

LEMMA ResetStep == ASSUME IInv, NEW here, NEW there \in {"free", "poll"},
                          TimeoutReset(here, there)
                   PROVE  IInv'
<1>1. lo' = lo /\ tip' = tip /\ pc' = there /\ timeout' = lo \div TimeBase + 1 /\ waited' = 0
  BY DEF TimeoutReset, Goto, Device, Now
<1>2. lo \in Nat /\ TimeBase \in Nat
  BY I2cAssumption DEF IInv, Times
<1>3. Times'
  BY <1>1, <1>2, Divided DEF IInv, Times
<1>4. AtRest'
  BY <1>1 DEF AtRest
<1>5. Behind'
  BY <1>1, <1>2, Divided DEF Behind
<1> QED
  BY <1>3, <1>4, <1>5 DEF IInv

(* Steps that leave the clock, the time-out and the controller alone.      *)
Still == lo' = lo /\ timeout' = timeout /\ waited' = waited /\ tip' = tip

LEMMA StillStep == ASSUME IInv, Still,
                          pc' \in {"start", "byte", "answer"} =>
                            pc \in {"start", "byte", "answer"} \/ ~tip,
                          Waiting' => Waiting
                   PROVE  IInv'
<1>1. Times'
  BY DEF IInv, Times, Still
<1>2. AtRest'
  BY DEF IInv, AtRest, Still
<1>3. Behind'
  BY DEF IInv, Behind, Still
<1> QED
  BY <1>1, <1>2, <1>3 DEF IInv

LEMMA PollStep == ASSUME IInv, \/ Poll("free", "free?", "start") \/ NotYet("free?", "free")
                               \/ Poll("poll", "poll?", "answer") \/ NotYet("poll?", "poll")
                  PROVE  IInv'
<1>1. Still
  BY DEF Poll, NotYet, Still, tvars, Device
<1>2. Waiting
  BY DEF Poll, NotYet, Goto, Waiting
<1>3. pc' \in {"start", "byte", "answer"} => ~tip
  BY DEF Poll, NotYet, Goto
<1> QED
  BY <1>1, <1>2, <1>3, StillStep

LEMMA LegStep == ASSUME IInv, GiveUp \/ EndLeg \/ AddressDone \/ ByteDone
                 PROVE  IInv'
<1>1. Still
  BY DEF GiveUp, EndLeg, AddressDone, ByteDone, Still, tvars, Device
<1>2. pc' \in {"idle", "addr", "byte"}
  BY DEF GiveUp, EndLeg, AddressDone, ByteDone, NextLeg, Return
<1>3. pc' = "byte" => pc = "answer"
  BY DEF GiveUp, EndLeg, AddressDone, ByteDone, NextLeg, Return
<1>4. ~Waiting'
  BY <1>2 DEF Waiting
<1> QED
  BY <1>1, <1>2, <1>3, <1>4, StillStep

LEMMA CallStep == ASSUME IInv, (\E c \in Calls : Call(c)) \/ (\E b \in Bauds : SetBaud(b))
                  PROVE  IInv'
<1>1. Still
  BY DEF Call, SetBaud, Still, tvars, Device
<1>2. pc' \in {"idle", "addr"}
  BY DEF Call, SetBaud
<1> QED
  BY <1>1, <1>2, StillStep DEF Waiting

LEMMA IssueStep == ASSUME IInv, NEW command, Issue(command)
                   PROVE  IInv'
<1>1. pc' = "arm" /\ lo' = lo /\ timeout' = timeout /\ waited' = waited /\ tip' = TRUE
  BY DEF Issue, tvars
<1> QED
  BY <1>1 DEF IInv, Times, AtRest, Behind, Waiting

LEMMA CompleteStep == ASSUME IInv, NEW nack \in BOOLEAN, Complete(nack)
                      PROVE  IInv'
<1>1. pc' = pc /\ lo' = lo /\ timeout' = timeout /\ waited' = waited /\ tip' = FALSE
  BY DEF Complete, tvars
<1> QED
  BY <1>1 DEF IInv, Times, AtRest, Behind, Waiting

LEMMA TickStep == ASSUME IInv, Tick
                  PROVE  IInv'
<1>1. /\ pc' = pc /\ timeout' = timeout /\ tip' = tip
      /\ waited' = IF waited > TimeBase THEN waited ELSE waited + 1
  BY DEF Tick
<1>2. TimeBase \in Nat \ {0} /\ LoMod \in Nat \ {0}
  BY I2cAssumption
<1>3. lo' \in Nat /\ lo' <= lo + 1
  BY <1>2 DEF IInv, Times, Tick
<1>4. Times'
  BY <1>1, <1>2, <1>3 DEF IInv, Times
<1>5. AtRest'
  BY <1>1 DEF IInv, AtRest
<1>6. Behind'
  <2>1. timeout * TimeBase \in Nat
    BY <1>2 DEF IInv, Times
  <2> QED
    BY <1>1, <1>2, <1>3, <2>1 DEF IInv, Times, Behind, Waiting
<1> QED
  BY <1>4, <1>5, <1>6 DEF IInv

LEMMA IInvStep == IInv /\ [Next]_vars => IInv'
<1> SUFFICES ASSUME IInv, [Next]_vars
             PROVE  IInv'
  OBVIOUS
<1>1. CASE Work
  <2>1. CASE Begin \/ TimeoutReset("arm", "poll")
    BY <2>1, ResetStep DEF Begin
  <2>2. CASE \/ Poll("free", "free?", "start") \/ NotYet("free?", "free")
             \/ Poll("poll", "poll?", "answer") \/ NotYet("poll?", "poll")
    BY <2>2, PollStep
  <2>3. CASE SendAddress \/ SendByte
    BY <2>3, IssueStep DEF SendAddress, SendByte
  <2>4. CASE AddressDone \/ ByteDone \/ EndLeg
    BY <2>4, LegStep
  <2> QED
    BY <1>1, <2>1, <2>2, <2>3, <2>4 DEF Work
<1>2. CASE (\E c \in Calls : Call(c)) \/ (\E b \in Bauds : SetBaud(b))
  BY <1>2, CallStep
<1>3. CASE GiveUp
  BY <1>3, LegStep
<1>4. CASE \E nack \in BOOLEAN : Complete(nack)
  BY <1>4, CompleteStep
<1>5. CASE Tick
  BY <1>5, TickStep
<1>6. CASE UNCHANGED vars
  BY <1>6, StillStep DEF vars, tvars, Still, Waiting
<1> QED
  BY <1>1, <1>2, <1>3, <1>4, <1>5, <1>6 DEF Next

(* The inductive invariant: the driver acts on a controller at rest, and   *)
(* how far the clock is from the time-out.                                 *)
THEOREM DriverInvariant == Spec => []IInv
  BY IInvInit, IInvStep, PTL DEF Spec

-----------------------------------------------------------------------------
(* Types, with what makes a leg's count of bytes stay within its length:   *)
(* a byte on its way is one of the leg.                                    *)
Entry == [cmd : CmdType, acked : BOOLEAN]
InFlight == pc \in {"arm", "poll", "poll?", "answer"} =>
              log # <<>> /\ (Answered.kind = "byte" => i < legs[1].len)

TInv == TypeOK /\ InFlight

LEMMA LegsTyped == ASSUME NEW c \in Calls
                   PROVE  LegsOf(c) \in Seq(LegType)
<1>1. c.tx \in Nat /\ c.rx \in Nat /\ c.stop \in BOOLEAN
  BY I2cAssumption
<1>2. \A n \in Nat, b \in BOOLEAN : Leg("W", n, b) \in LegType /\ Leg("R", n, b) \in LegType
  BY DEF Leg, LegType
<1>3. <<Leg("W", c.tx, c.stop)>> \in Seq(LegType) /\ <<Leg("R", c.rx, c.stop)>> \in Seq(LegType)
  BY <1>1, <1>2
<1> DEFINE last == c.rx = 0
           out == IF c.tx > 0 THEN <<Leg("W", c.tx, last)>> ELSE <<>>
           in == IF c.rx > 0 THEN <<Leg("R", c.rx, TRUE)>> ELSE <<>>
<1>4. out \in Seq(LegType) /\ in \in Seq(LegType)
  <2>1. last \in BOOLEAN
    BY Zenon
  <2> HIDE DEF last
  <2>2. Leg("W", c.tx, last) \in LegType /\ Leg("R", c.rx, TRUE) \in LegType
    BY <1>1, <1>2, <2>1
  <2>3. \A leg \in LegType : <<leg>> \in Seq(LegType)
    OBVIOUS
  <2>4. <<>> \in Seq(LegType)
    OBVIOUS
  <2> QED
    BY <2>2, <2>3, <2>4, Zenon
<1>5. out \o in \in Seq(LegType)
  <2> HIDE DEF out, in
  <2> QED
    BY <1>4
<1> QED
  <2>1. LegsOf(c) \in {<<Leg("W", c.tx, c.stop)>>, <<Leg("R", c.rx, c.stop)>>, out \o in}
    BY Zenon DEF LegsOf
  <2> HIDE DEF out, in
  <2> QED
    BY <1>3, <1>5, <2>1

LEMMA NowInRange == /\ MaxTime \in Nat
                    /\ lo \in 0 .. LoMod - 1 => Now \in 0 .. MaxTime
<1>0. MaxTime \in Nat
  BY I2cAssumption DEF MaxTime
<1> SUFFICES ASSUME lo \in 0 .. LoMod - 1
             PROVE  Now \in 0 .. MaxTime
  BY <1>0
<1>1. lo \in Nat /\ LoMod - 1 \in Nat /\ TimeBase \in Nat \ {0}
  BY I2cAssumption
<1> DEFINE q == lo \div TimeBase
           m == (LoMod - 1) \div TimeBase
<1>2. q \in Nat /\ m \in Nat /\ q * TimeBase <= lo /\ LoMod - 1 < (m + 1) * TimeBase
  BY <1>1, Divided
<1>3. q <= m
  <2> HIDE DEF q, m
  <2>1. SUFFICES ASSUME q >= m + 1
                 PROVE  FALSE
    BY <1>2
  <2>2. q * TimeBase >= (m + 1) * TimeBase
    BY <1>1, <1>2, <2>1
  <2>3. q * TimeBase \in Nat /\ (m + 1) * TimeBase \in Nat
    BY <1>1, <1>2
  <2> QED
    BY <1>1, <1>2, <2>2, <2>3
<1> QED
  BY <1>2, <1>3 DEF Now, MaxTime

LEMMA TInvInit == Init => TInv
<1> SUFFICES ASSUME Init
             PROVE  TInv
  OBVIOUS
<1>1. 0 \in 0 .. Byte - 1 /\ 0 \in 0 .. MaxTime + 1 /\ 0 \in 0 .. TimeBase + 1
  BY I2cAssumption, NowInRange
<1>2. <<>> \in Seq(LegType) /\ <<>> \in Seq([cmd : CmdType, acked : BOOLEAN])
  OBVIOUS
<1>3. call \in Calls /\ baud \in Bauds \cup {0} /\ prescale \in [low : 0 .. Byte - 1, high : 0 .. Byte - 1]
  BY <1>1 DEF Init
<1>4. tip \in BOOLEAN /\ rxack \in BOOLEAN
  BY Zenon DEF Init
<1>5. TypeOK
  BY <1>1, <1>2, <1>3, <1>4 DEF Init, TypeOK
<1> QED
  BY <1>5 DEF Init, TInv, InFlight

(* Parts of TypeOK that most steps leave alone.                            *)
Fixed == /\ ret' \in {Ok, Err} /\ call' \in Calls
         /\ timeout' \in 0 .. MaxTime + 1 /\ waited' \in 0 .. TimeBase + 1
         /\ tip' \in BOOLEAN /\ rxack' \in BOOLEAN /\ lo' \in 0 .. LoMod - 1
         /\ baud' \in Bauds \cup {0} /\ prescale' \in [low : 0 .. Byte - 1, high : 0 .. Byte - 1]

LEMMA CallTypes == ASSUME TInv, NEW c \in Calls, Call(c)
                   PROVE  TInv'
<1>1. Fixed
  BY DEF TInv, TypeOK, Fixed, Call, tvars, Device, bvars
<1>2. legs' \in Seq(LegType) /\ i' = 0 /\ log' = <<>>
  BY LegsTyped DEF Call
<1>3. pc' = "addr" => legs' = LegsOf(c) /\ LegsOf(c) # <<>>
  BY DEF Call
<1>4. pc' = "addr" => legs'[1] \in LegType
  BY <1>2, <1>3
<1>5. log' \in Seq([cmd : CmdType, acked : BOOLEAN]) /\ pc' \in {"idle", "addr"}
  BY <1>2 DEF Call
<1>6. pc' = "addr" => legs' # <<>> /\ i' <= legs'[1].len
  <2>1. \A leg \in LegType : 0 <= leg.len
    BY DEF LegType
  <2> QED
    BY <1>2, <1>3, <1>4, <2>1
<1> QED
  BY <1>1, <1>2, <1>5, <1>6 DEF TInv, TypeOK, Fixed, InFlight

LEMMA ResetTypes == ASSUME TInv, Begin \/ TimeoutReset("arm", "poll")
                    PROVE  TInv'
<1>1. Now + 1 \in 0 .. MaxTime + 1 /\ 0 \in 0 .. TimeBase + 1
  BY NowInRange, I2cAssumption DEF TInv, TypeOK
<1>2. Fixed /\ cvars' = cvars
  BY <1>1 DEF TInv, TypeOK, Fixed, Begin, TimeoutReset, Device, cvars, bvars, Now
<1>3. (pc = "addr" /\ pc' = "free") \/ (pc = "arm" /\ pc' = "poll")
  BY DEF Begin, TimeoutReset, Goto
<1> QED
  BY <1>2, <1>3 DEF TInv, TypeOK, Fixed, InFlight, Answered, cvars

LEMMA PollTypes == ASSUME TInv, \/ Poll("free", "free?", "start") \/ NotYet("free?", "free")
                                \/ Poll("poll", "poll?", "answer") \/ NotYet("poll?", "poll")
                   PROVE  TInv'
<1>1. Fixed /\ cvars' = cvars
  BY DEF TInv, TypeOK, Fixed, Poll, NotYet, tvars, Device, cvars, bvars
<1>2. \/ pc # "idle" /\ pc' \in {"free", "free?", "start"}
      \/ pc \in {"poll", "poll?"} /\ pc' \in {"poll", "poll?", "answer"}
  BY DEF Poll, NotYet, Goto
<1> QED
  BY <1>1, <1>2 DEF TInv, TypeOK, Fixed, InFlight, Answered, cvars

(* The call is over, or its next leg begins.                               *)
LEMMA ReturnTypes == ASSUME TInv, NEW value \in {Ok, Err}, Return(value), UNCHANGED <<tvars, Device>>
                     PROVE  TInv'
<1>1. Fixed
  BY DEF TInv, TypeOK, Fixed, Return, tvars, Device, bvars
<1>2. pc' = "idle" /\ legs' = <<>> /\ i' = i /\ log' = log
  BY DEF Return
<1>3. <<>> \in Seq(LegType)
  OBVIOUS
<1> QED
  BY <1>1, <1>2, <1>3 DEF TInv, TypeOK, Fixed, InFlight

LEMMA NextLegTypes == ASSUME TInv, NEW value \in {Ok, Err}, NextLeg(value), UNCHANGED <<tvars, Device>>
                      PROVE  TInv'
<1>1. CASE ~(Len(legs) > 1)
  BY <1>1, ReturnTypes DEF NextLeg
<1>2. CASE Len(legs) > 1
  <2>1. Fixed
    BY <1>2 DEF TInv, TypeOK, Fixed, NextLeg, tvars, Device, bvars
  <2>2. pc' = "addr" /\ legs' = Tail(legs) /\ i' = 0 /\ log' = log
    BY <1>2 DEF NextLeg
  <2>3. legs \in Seq(LegType)
    BY DEF TInv, TypeOK
  <2>4. legs' \in Seq(LegType) /\ legs' # <<>> /\ legs'[1] \in LegType
    BY <1>2, <2>2, <2>3
  <2>5. \A leg \in LegType : 0 <= leg.len
    BY DEF LegType
  <2>6. 0 <= legs'[1].len
    BY <2>4, <2>5
  <2> QED
    BY <2>1, <2>2, <2>4, <2>6 DEF TInv, TypeOK, Fixed, InFlight
<1> QED
  BY <1>1, <1>2

LEMMA AnswerTypes == ASSUME TInv, GiveUp \/ EndLeg \/ AddressDone \/ ByteDone
                     PROVE  TInv'
<1>1. Ok \in {Ok, Err} /\ Err \in {Ok, Err} /\ ret \in {Ok, Err}
  BY DEF TInv, TypeOK
<1>2. CASE GiveUp
  BY <1>1, <1>2, ReturnTypes DEF GiveUp
<1>3. CASE EndLeg
  BY <1>1, <1>3, NextLegTypes DEF EndLeg
<1>4. CASE AddressDone
  <2>1. CASE Nacked
    BY <1>1, <1>4, <2>1, ReturnTypes DEF AddressDone
  <2>2. CASE ~Nacked
    <3>1. pc = "answer" /\ pc' = "byte" /\ ret' = Ok /\ call' = call /\ legs' = legs /\ i' = i /\ log' = log
      BY <1>4, <2>2 DEF AddressDone
    <3>2. Fixed
      BY <1>1, <1>4, <3>1 DEF AddressDone, TInv, TypeOK, Fixed, tvars, Device, bvars
    <3> QED
      BY <3>1, <3>2 DEF TInv, TypeOK, Fixed, InFlight
  <2> QED
    BY <2>1, <2>2
<1>5. CASE ByteDone
  <2>1. CASE Nacked
    BY <1>1, <1>5, <2>1, NextLegTypes DEF ByteDone
  <2>2. CASE ~Nacked
    <3>1. pc = "answer" /\ pc' = "byte" /\ ret' = ret /\ call' = call /\ legs' = legs /\ i' = i + 1 /\ log' = log
      BY <1>5, <2>2 DEF ByteDone
    <3>2. Fixed
      BY <1>5, <3>1 DEF ByteDone, TInv, TypeOK, Fixed, tvars, Device, bvars
    <3>3. i' \in Nat /\ legs' # <<>> /\ i' <= legs'[1].len
      <4>1. i \in Nat /\ legs # <<>> /\ legs \in Seq(LegType) /\ i < legs[1].len
        BY <1>5, <3>1 DEF ByteDone, TInv, TypeOK, InFlight
      <4>2. legs[1] \in LegType
        BY <4>1
      <4>3. legs[1].len \in Nat
        BY <4>2 DEF LegType
      <4> QED
        BY <3>1, <4>1, <4>3
    <3> QED
      BY <3>1, <3>2, <3>3 DEF TInv, TypeOK, Fixed, InFlight
  <2> QED
    BY <2>1, <2>2
<1> QED
  BY <1>2, <1>3, <1>4, <1>5

LEMMA IssueTypes == ASSUME TInv, SendAddress \/ SendByte
                    PROVE  TInv'
<1>1. legs \in Seq(LegType) /\ legs # <<>> /\ i \in Nat /\ i <= legs[1].len
  BY DEF SendAddress, SendByte, TInv, TypeOK
<1>2. legs[1] \in LegType
  BY <1>1
<1>3. PICK command \in CmdType : /\ Issue(command)
                                 /\ command.kind = "byte" => i < legs[1].len
  <2>1. Address(legs[1]) \in CmdType /\ Address(legs[1]).kind = "addr"
    BY <1>2 DEF Address, CmdType, LegType
  <2>2. ByteCmd(legs[1], i) \in CmdType
    <3> DEFINE stop == legs[1].stop /\ i = legs[1].len - 1
               nack == legs[1].rw = "R" /\ i = legs[1].len - 1
    <3>1. stop \in BOOLEAN /\ nack \in BOOLEAN
      BY Zenon
    <3>2. legs[1].rw \in {"W", "R"}
      BY <1>2 DEF LegType
    <3>3. ByteCmd(legs[1], i) = [kind |-> "byte", rw |-> legs[1].rw, n |-> i, stop |-> stop, nack |-> nack]
      BY Zenon DEF ByteCmd
    <3> HIDE DEF stop, nack
    <3> QED
      BY <1>1, <3>1, <3>2, <3>3 DEF CmdType
  <2>3. CASE SendAddress
    BY <2>1, <2>3 DEF SendAddress
  <2>4. CASE SendByte
    BY <2>2, <2>4 DEF SendByte
  <2> QED
    BY <2>3, <2>4
<1> DEFINE entry == [cmd |-> command, acked |-> FALSE]
<1>4. entry \in Entry /\ entry.cmd = command
  BY <1>3 DEF Entry
<1>5. pc' = "arm" /\ legs' = legs /\ i' = i /\ log' = Append(log, entry)
  BY <1>3 DEF Issue
<1>6. Fixed
  <2>1. tip' = TRUE
    BY <1>3 DEF Issue
  <2>2. tip' \in BOOLEAN
    BY <2>1, Zenon
  <2> QED
    BY <1>3, <2>2 DEF Issue, TInv, TypeOK, Fixed, tvars, bvars
<1>7. log \in Seq(Entry)
  BY DEF TInv, TypeOK, Entry
<1>8. log' \in Seq(Entry) /\ log' # <<>> /\ log'[Len(log')] = entry
  <2> HIDE DEF entry
  <2> QED
    BY <1>4, <1>5, <1>7
<1> QED
  BY <1>1, <1>3, <1>4, <1>5, <1>6, <1>8 DEF TInv, TypeOK, Fixed, InFlight, Answered, Entry

(* An answer changes the acknowledgement of the last command and no more.  *)
LEMMA AckedLog == ASSUME log \in Seq(Entry), log # <<>>, NEW acked \in BOOLEAN
                  PROVE  LET new == [log EXCEPT ![Len(log)].acked = acked]
                         IN  /\ new \in Seq(Entry) /\ Len(new) = Len(log)
                             /\ new[Len(log)].cmd = log[Len(log)].cmd
<1> DEFINE n == Len(log)
           last == [log[n] EXCEPT !.acked = acked]
           new == [log EXCEPT ![n] = last]
<1>1. n \in 1 .. Len(log) /\ log[n] \in Entry
  OBVIOUS
<1>2. last \in Entry /\ last.cmd = log[n].cmd
  BY <1>1 DEF Entry
<1>3. new \in Seq(Entry) /\ Len(new) = Len(log) /\ new[n] = last
  <2> HIDE DEF last
  <2> QED
    BY <1>1, <1>2
<1> QED
  BY <1>2, <1>3

LEMMA CompleteTypes == ASSUME TInv, NEW nack \in BOOLEAN, Complete(nack)
                       PROVE  TInv' /\ Len(log') = Len(log)
<1>1. Fixed
  <2>1. tip' = FALSE /\ rxack' = nack
    BY DEF Complete
  <2>2. tip' \in BOOLEAN /\ rxack' \in BOOLEAN
    BY <2>1, Zenon
  <2> QED
    BY <2>2 DEF Complete, TInv, TypeOK, Fixed, tvars, bvars
<1>2. pc' = pc /\ legs' = legs /\ i' = i
  BY DEF Complete
<1>3. log \in Seq(Entry)
  BY DEF TInv, TypeOK, Entry
<1>4. CASE log = <<>>
  <2>1. log' = log
    BY <1>4 DEF Complete
  <2> QED
    BY <1>1, <1>2, <2>1 DEF TInv, TypeOK, Fixed, InFlight, Answered
<1>5. CASE log # <<>>
  <2>1. PICK acked \in BOOLEAN : log' = [log EXCEPT ![Len(log)].acked = acked]
    BY <1>5, Zenon DEF Complete
  <2>2. /\ log' \in Seq(Entry) /\ Len(log') = Len(log)
        /\ log'[Len(log)].cmd = log[Len(log)].cmd
    BY <1>3, <1>5, <2>1, AckedLog
  <2>3. log' # <<>>
    BY <1>3, <1>5, <2>2
  <2> QED
    BY <1>1, <1>2, <1>5, <2>2, <2>3 DEF TInv, TypeOK, Fixed, InFlight, Answered, Entry
<1> QED
  BY <1>4, <1>5

LEMMA TickTypes == ASSUME TInv, Tick
                   PROVE  TInv'
<1>1. lo' \in 0 .. LoMod - 1 /\ waited' \in 0 .. TimeBase + 1
  BY I2cAssumption DEF TInv, TypeOK, Tick
<1>2. Fixed /\ cvars' = cvars /\ pc' = pc
  BY <1>1 DEF TInv, TypeOK, Fixed, Tick, cvars, bvars
<1> QED
  BY <1>2 DEF TInv, TypeOK, Fixed, InFlight, Answered, cvars

LEMMA SetBaudTypes == ASSUME TInv, NEW b \in Bauds, SetBaud(b)
                      PROVE  TInv'
<1>1. \A p \in Int : Split(p) \in [low : 0 .. Byte - 1, high : 0 .. Byte - 1]
  BY I2cAssumption DEF Split
<1>2. Prescaler(b) \in Int
  <2>1. b * 5 \in Nat /\ ClockRate \in Nat /\ Word \in Nat \ {0}
    BY I2cAssumption
  <2>2. \A a \in Nat : Quotient(ClockRate, a) \in Int
    BY <2>1 DEF Quotient
  <2>3. (b * 5) % Word \in Nat
    BY <2>1
  <2>4. (Quotient(ClockRate, (b * 5) % Word) - 1) % Word \in Int
    <3>1. Quotient(ClockRate, (b * 5) % Word) \in Int
      BY <2>2, <2>3, Zenon
    <3>2. \A q \in Int : (q - 1) % Word \in Int
      BY <2>1
    <3> QED
      BY <3>1, <3>2, Zenon
  <2>5. \A x \in Int : Signed(x) \in Int
    BY <2>1 DEF Signed
  <2> QED
    BY <2>4, <2>5 DEF Prescaler
<1>3. baud' \in Bauds \cup {0} /\ prescale' \in [low : 0 .. Byte - 1, high : 0 .. Byte - 1]
  BY <1>1, <1>2 DEF SetBaud, TInv, TypeOK, bvars
<1>4. Fixed /\ cvars' = cvars /\ pc' = pc
  BY <1>3 DEF TInv, TypeOK, Fixed, SetBaud, cvars, tvars
<1> QED
  BY <1>4 DEF TInv, TypeOK, Fixed, InFlight, Answered, cvars

LEMMA TInvStep == TInv /\ [Next]_vars => TInv'
<1> SUFFICES ASSUME TInv, [Next]_vars
             PROVE  TInv'
  OBVIOUS
<1>1. CASE Work
  <2>1. CASE Begin \/ TimeoutReset("arm", "poll")
    BY <2>1, ResetTypes
  <2>2. CASE \/ Poll("free", "free?", "start") \/ NotYet("free?", "free")
             \/ Poll("poll", "poll?", "answer") \/ NotYet("poll?", "poll")
    BY <2>2, PollTypes
  <2>3. CASE SendAddress \/ SendByte
    BY <2>3, IssueTypes
  <2>4. CASE AddressDone \/ ByteDone \/ EndLeg
    BY <2>4, AnswerTypes
  <2> QED
    BY <1>1, <2>1, <2>2, <2>3, <2>4 DEF Work
<1>2. CASE \E c \in Calls : Call(c)
  BY <1>2, CallTypes
<1>3. CASE \E b \in Bauds : SetBaud(b)
  BY <1>3, SetBaudTypes
<1>4. CASE GiveUp
  BY <1>4, AnswerTypes
<1>5. CASE \E nack \in BOOLEAN : Complete(nack)
  BY <1>5, CompleteTypes
<1>6. CASE Tick
  BY <1>6, TickTypes
<1>7. CASE UNCHANGED vars
  BY <1>7 DEF vars, cvars, tvars, bvars, TInv, TypeOK, InFlight, Answered
<1> QED
  BY <1>1, <1>2, <1>3, <1>4, <1>5, <1>6, <1>7 DEF Next

(* The driver's variables keep their types and its count of bytes never    *)
(* passes the length of the leg, whatever calls are made and whatever the  *)
(* device acknowledges (driver.c:130-331).                                 *)
THEOREM I2cTypeCorrect == Spec => []TypeOK
<1>1. TInv => TypeOK
  BY DEF TInv
<1> QED
  BY <1>1, TInvInit, TInvStep, PTL DEF Spec

-----------------------------------------------------------------------------
(* No command is given while another one is in progress, for any calls,    *)
(* any controller and any clock (driver.c:92-118, 153-170).                *)
THEOREM CommandsOneAtATime == Spec => OneAtATime
<1>1. IInv /\ TInv /\ [Next]_vars => [Len(log') > Len(log) => ~tip]_vars
  <2> SUFFICES ASSUME IInv, TInv, Next, Len(log') > Len(log)
               PROVE  ~tip
    BY DEF vars
  <2>1. Len(log) \in Nat /\ Len(<<>>) = 0
    BY DEF TInv, TypeOK
  <2>2. log' # log /\ Len(log') # Len(log) /\ log' # <<>>
    BY <2>1
  <2>3. SendAddress \/ SendByte
    <3>1. CASE Work
      <4>1. /\ ~Begin /\ ~TimeoutReset("arm", "poll")
            /\ ~Poll("free", "free?", "start") /\ ~NotYet("free?", "free")
            /\ ~Poll("poll", "poll?", "answer") /\ ~NotYet("poll?", "poll")
        BY <2>2 DEF Begin, TimeoutReset, Poll, NotYet, cvars
      <4>2. ~AddressDone /\ ~ByteDone /\ ~EndLeg
        BY <2>2 DEF AddressDone, ByteDone, EndLeg, NextLeg, Return
      <4> QED
        BY <3>1, <4>1, <4>2 DEF Work
    <3>2. ~\E nack \in BOOLEAN : Complete(nack)
      BY <2>2, CompleteTypes
    <3>3. ~Tick /\ ~GiveUp /\ ~\E b \in Bauds : SetBaud(b)
      BY <2>2 DEF Tick, GiveUp, Return, SetBaud, cvars
    <3>4. ~\E c \in Calls : Call(c)
      BY <2>2 DEF Call
    <3> QED
      BY <3>1, <3>2, <3>3, <3>4 DEF Next
  <2> QED
    BY <2>3 DEF SendAddress, SendByte, IInv, AtRest
<1> QED
  BY <1>1, DriverInvariant, TInvInit, TInvStep, PTL DEF Spec, OneAtATime

(* A call waits for at least a second before it gives up, for any clock,   *)
(* even one that wraps around while it waits (driver.c:30-42).             *)
THEOREM GivesUpNoEarlier == Spec => NotEarly
<1>1. IInv /\ [Next]_vars => [(pc \in {"free?", "poll?"} /\ pc' = "idle") => waited >= TimeBase]_vars
  <2> SUFFICES ASSUME IInv, Next, pc \in {"free?", "poll?"}, pc' = "idle"
               PROVE  waited >= TimeBase
    BY DEF vars
  <2>1. TimeUp
    <3>1. ~Work
      BY DEF Work, Begin, TimeoutReset, Poll, NotYet, Goto, SendAddress, SendByte, Issue,
             AddressDone, ByteDone, EndLeg
    <3>2. ~(\E c \in Calls : Call(c)) /\ ~(\E b \in Bauds : SetBaud(b))
      BY DEF Call, SetBaud
    <3>3. ~(\E nack \in BOOLEAN : Complete(nack)) /\ ~Tick
      BY DEF Complete, Tick
    <3> QED
      BY <3>1, <3>2, <3>3 DEF Next, GiveUp
  <2> QED
    BY <2>1, UpMeansOver DEF Waiting
<1> QED
  BY <1>1, DriverInvariant, PTL DEF Spec, NotEarly

-----------------------------------------------------------------------------
(* The rate: two registers hold any divisor that passes the test.          *)
LEMMA SplitWhole == ASSUME NEW p \in Nat, p <= Byte * Byte - 1
                    PROVE  Split(p).low + Byte * Split(p).high = p
<1>1. Byte \in Nat \ {0} /\ Byte * Byte \in Nat
  BY I2cAssumption
<1> DEFINE low == p % Byte
           high == p \div Byte
<1>2. low \in Nat /\ high \in Nat /\ p = Byte * high + low /\ low < Byte
  BY <1>1
<1>3. high < Byte
  <2> HIDE DEF low, high
  <2>1. SUFFICES ASSUME high >= Byte
                 PROVE  FALSE
    BY <1>1, <1>2
  <2>2. Byte * high >= Byte * Byte
    BY <1>1, <1>2, <2>1
  <2>3. Byte * high \in Nat
    BY <1>1, <1>2
  <2> QED
    BY <1>1, <1>2, <2>2, <2>3
<1>4. high % Byte = high
  <2> HIDE DEF high
  <2> QED
    BY <1>1, <1>2, <1>3
<1>5. Split(p).low = low /\ Split(p).high = high
  BY <1>4 DEF Split
<1> QED
  <2> HIDE DEF low, high
  <2>1. Byte * high \in Nat
    BY <1>1, <1>2
  <2> QED
    BY <1>2, <1>5, <2>1

(* The division is the quotient, and it is at least one, when the rate can *)
(* be made at all.                                                         *)
LEMMA PrescalerOf == ASSUME NEW b \in Bauds, 5 * b <= ClockRate
                     PROVE  LET q == ClockRate \div (5 * b)
                            IN  /\ q \in Nat \ {0} /\ Prescaler(b) = q - 1
                                /\ 5 * q * b <= ClockRate /\ ClockRate < 5 * (q + 1) * b
<1> DEFINE d == 5 * b
           q == ClockRate \div d
<1>1. /\ b \in Nat \ {0} /\ ClockRate \in Nat /\ Word \in Nat /\ ClockRate < Word \div 2
      /\ Word \div 2 \in Nat /\ Word \div 2 <= Word
  BY I2cAssumption
<1>2. d \in Nat \ {0} /\ d <= ClockRate /\ d < Word /\ (b * 5) % Word = d
  BY <1>1
<1>3. q \in Nat /\ q * d <= ClockRate /\ ClockRate < (q + 1) * d
  <2> HIDE DEF d
  <2> QED
    BY <1>1, <1>2
<1>4. q >= 1
  <2> HIDE DEF d, q
  <2> QED
    BY <1>1, <1>2, <1>3
<1>5. q <= ClockRate
  <2> HIDE DEF d, q
  <2>1. q * d >= q
    BY <1>2, <1>3
  <2> QED
    BY <1>1, <1>2, <1>3, <2>1
<1>6. Quotient(ClockRate, (b * 5) % Word) = q
  <2> HIDE DEF d
  <2> QED
    BY <1>2 DEF Quotient
<1>7. (q - 1) % Word = q - 1 /\ Signed(q - 1) = q - 1
  <2> HIDE DEF q
  <2> QED
    BY <1>1, <1>3, <1>4, <1>5 DEF Signed
<1>8. Prescaler(b) = q - 1
  <2> HIDE DEF q, d
  <2> QED
    BY <1>6, <1>7 DEF Prescaler
<1>9. 5 * q * b = q * d /\ 5 * (q + 1) * b = (q + 1) * d
  <2> HIDE DEF q
  <2> QED
    BY <1>1, <1>3
<1>10. q \in Nat \ {0} /\ 5 * q * b <= ClockRate /\ ClockRate < 5 * (q + 1) * b
  <2> HIDE DEF q, d
  <2> QED
    BY <1>3, <1>4, <1>9
<1> QED
  BY <1>8, <1>10, Zenon

(* Whatever rate is asked for that the controller can make (5 * baud <=    *)
(* ClockRate), the slowest is set that the divider can make and that is    *)
(* not slower than the one asked for (driver.c:62-83).                     *)
THEOREM RateIsClosest == Spec => []RateClosest
<1>1. Init => RateClosest
  <2>1. Init => baud = 0
    BY Zenon DEF Init
  <2>2. baud = 0 => ~(baud > 0)
    OBVIOUS
  <2> QED
    BY <2>1, <2>2, Zenon DEF RateClosest
<1>2. RateClosest /\ [Next]_vars => RateClosest'
  <2> SUFFICES ASSUME RateClosest, [Next]_vars
               PROVE  RateClosest'
    OBVIOUS
  <2>1. CASE UNCHANGED bvars
    BY <2>1 DEF RateClosest, bvars
  <2>2. CASE \E b \in Bauds : SetBaud(b)
    <3>1. PICK b \in Bauds : SetBaud(b)
      BY <2>2
    <3>2. CASE Prescaler(b) <= Byte * Byte - 1 \/ Prescaler(b) < 0
      <4>0. prescale' = Split(Prescaler(b)) /\ baud' = b
        BY <3>1, <3>2 DEF SetBaud
      <4> SUFFICES ASSUME 5 * b <= ClockRate
                   PROVE  LET divisor == prescale'.low + Byte * prescale'.high + 1
                          IN  5 * divisor * b <= ClockRate /\ ClockRate < 5 * (divisor + 1) * b
        BY <4>0, Zenon DEF RateClosest
      <4> DEFINE q == ClockRate \div (5 * b)
      <4>1. /\ q \in Nat \ {0} /\ Prescaler(b) = q - 1
            /\ 5 * q * b <= ClockRate /\ ClockRate < 5 * (q + 1) * b
        BY PrescalerOf
      <4> HIDE DEF q
      <4>2. q - 1 \in Nat /\ q - 1 <= Byte * Byte - 1
        BY <3>2, <4>1
      <4>3. prescale'.low + Byte * prescale'.high = q - 1
        BY <4>0, <4>1, <4>2, SplitWhole
      <4>4. prescale'.low + Byte * prescale'.high + 1 = q
        BY <4>1, <4>3
      <4> QED
        BY <4>1, <4>4
    <3>3. CASE ~(Prescaler(b) <= Byte * Byte - 1 \/ Prescaler(b) < 0)
      BY <2>1, <3>1, <3>3 DEF SetBaud
    <3> QED
      BY <3>1, <3>2, <3>3 DEF SetBaud
  <2>3. CASE Work
    <3>1. CASE Begin \/ TimeoutReset("arm", "poll")
      BY <2>1, <3>1 DEF Begin, TimeoutReset, Device
    <3>2. CASE \/ Poll("free", "free?", "start") \/ NotYet("free?", "free")
               \/ Poll("poll", "poll?", "answer") \/ NotYet("poll?", "poll")
      BY <2>1, <3>2 DEF Poll, NotYet, Device
    <3>3. CASE SendAddress \/ SendByte
      BY <2>1, <3>3 DEF SendAddress, SendByte, Issue
    <3>4. CASE AddressDone \/ ByteDone \/ EndLeg
      BY <2>1, <3>4 DEF AddressDone, ByteDone, EndLeg, Device
    <3> QED
      BY <2>3, <3>1, <3>2, <3>3, <3>4 DEF Work
  <2>4. CASE GiveUp \/ \E c \in Calls : Call(c)
    BY <2>1, <2>4 DEF GiveUp, Call, Device
  <2>5. CASE (\E nack \in BOOLEAN : Complete(nack)) \/ Tick
    BY <2>1, <2>5 DEF Complete, Tick
  <2> QED
    BY <2>1, <2>2, <2>3, <2>4, <2>5 DEF Next, vars
<1> QED
  BY <1>1, <1>2, PTL DEF Spec
-----------------------------------------------------------------------------
(* What is on the bus: the commands of the legs before this one, n bytes   *)
(* of them (0 in the first leg), and of this leg as far as it has got.     *)
Begun == {"addr", "free", "free?", "start"}
Asked == {"arm", "poll", "poll?", "answer"}

Before(n) == IF n = 0 THEN <<>> ELSE Commands(LegsOf(call)[1], n)
Spared(n) == IF n = 0 THEN {} ELSE {n + 1}

Place(n) == \/ n = 0 /\ legs = LegsOf(call)
            \/ /\ Len(LegsOf(call)) = 2 /\ legs = <<LegsOf(call)[2]>>
               /\ n \in 1 .. LegsOf(call)[1].len
               /\ n < LegsOf(call)[1].len => ~log[n + 1].acked

SentNow(before) ==
  \/ pc \in Begun /\ i = 0 /\ Issued = before
  \/ pc = "byte" /\ ret = Ok /\ Issued = before \o Commands(legs[1], i)
  \/ pc \in Asked /\ i = 0 /\ Answered.kind = "addr" /\ Issued = before \o Commands(legs[1], 0)
  \/ pc \in Asked /\ ret = Ok /\ Answered.kind = "byte" /\ Issued = before \o Commands(legs[1], i + 1)

AckedNow(except) == AllAcked(IF pc \in Asked THEN except \cup {Len(log)} ELSE except)

Told == pc # "idle" => \E n \in Nat : Place(n) /\ SentNow(Before(n)) /\ AckedNow(Spared(n))

(* The last answer is the last command's, and a controller still at work   *)
(* is at work for this call or for none that succeeded.                    *)
Heard == pc \in Asked /\ ~tip => log[Len(log)].acked = ~rxack
Busy == tip => log = <<>> \/ pc \in Asked \/ (pc = "idle" /\ ret = Err)

BusInv == OkMeansDone /\ Told /\ Heard /\ Busy

LEMMA CommandsTyped == ASSUME NEW leg \in LegType, NEW n \in Nat
                       PROVE  /\ Commands(leg, n) \in Seq(CmdType)
                              /\ Len(Commands(leg, n)) = n + 1
                              /\ Commands(leg, 0) = <<Address(leg)>>
<1> DEFINE byte(k) == [kind |-> "byte", rw |-> leg.rw, n |-> k - 1, stop |-> leg.stop /\ k = leg.len,
                       nack |-> leg.rw = "R" /\ k = leg.len]
           bytes(m) == [k \in 1 .. m |-> byte(k)]
<1>1. Address(leg) \in CmdType
  <2>1. leg.rw \in {"W", "R"}
    BY DEF LegType
  <2>2. FALSE \in BOOLEAN /\ 0 \in Nat
    OBVIOUS
  <2> QED
    BY <2>1, <2>2 DEF Address, CmdType
<1>2. \A k \in 1 .. n : byte(k) \in CmdType
  <2> SUFFICES ASSUME NEW k \in 1 .. n
               PROVE  byte(k) \in CmdType
    OBVIOUS
  <2> DEFINE stop == leg.stop /\ k = leg.len
             nack == leg.rw = "R" /\ k = leg.len
  <2>1. stop \in BOOLEAN /\ nack \in BOOLEAN
    BY Zenon
  <2>2. leg.rw \in {"W", "R"} /\ k - 1 \in Nat
    BY DEF LegType
  <2>3. byte(k) = [kind |-> "byte", rw |-> leg.rw, n |-> k - 1, stop |-> stop, nack |-> nack]
    BY Zenon
  <2> HIDE DEF stop, nack, byte
  <2> QED
    BY <2>1, <2>2, <2>3 DEF CmdType
<1> HIDE DEF byte
<1>3. bytes(n) \in Seq(CmdType) /\ Len(bytes(n)) = n /\ bytes(0) = <<>>
  BY <1>2
<1>4. \A m : Commands(leg, m) = <<Address(leg)>> \o bytes(m)
  BY Zenon DEF Commands, byte
<1> HIDE DEF bytes
<1>5. <<Address(leg)>> \in Seq(CmdType) /\ Len(<<Address(leg)>>) = 1
  BY <1>1
<1>6. Commands(leg, n) \in Seq(CmdType) /\ Len(Commands(leg, n)) = n + 1
  <2>1. Commands(leg, n) = <<Address(leg)>> \o bytes(n)
    BY <1>4
  <2>2. /\ <<Address(leg)>> \o bytes(n) \in Seq(CmdType)
        /\ Len(<<Address(leg)>> \o bytes(n)) = Len(<<Address(leg)>>) + Len(bytes(n))
    BY <1>3, <1>5, ConcatProperties
  <2> QED
    BY <1>3, <1>5, <2>1, <2>2
<1>7. Commands(leg, 0) = <<Address(leg)>>
  BY <1>3, <1>4, <1>5
<1> QED
  BY <1>6, <1>7

LEMMA CommandsNext == ASSUME NEW leg \in LegType, NEW n \in Nat
                      PROVE  Commands(leg, n + 1) = Append(Commands(leg, n), ByteCmd(leg, n))
<1> DEFINE byte(k) == [kind |-> "byte", rw |-> leg.rw, n |-> k - 1, stop |-> leg.stop /\ k = leg.len,
                       nack |-> leg.rw = "R" /\ k = leg.len]
           bytes(m) == [k \in 1 .. m |-> byte(k)]
           first == <<Address(leg)>>
<1>1. \A m : Commands(leg, m) = first \o bytes(m)
  BY Zenon DEF Commands
<1>2. byte(n + 1) = ByteCmd(leg, n)
  <2>1. (n + 1 = leg.len) <=> (n = leg.len - 1)
    BY DEF LegType
  <2>2. n + 1 - 1 = n
    OBVIOUS
  <2> DEFINE m == n + 1
  <2>3. byte(m) = [kind |-> "byte", rw |-> leg.rw, n |-> m - 1, stop |-> leg.stop /\ m = leg.len,
                   nack |-> leg.rw = "R" /\ m = leg.len]
    BY Zenon
  <2> HIDE DEF m, byte
  <2>4. m - 1 = n /\ ((m = leg.len) <=> (n = leg.len - 1))
    BY <2>1, <2>2 DEF m
  <2>5. /\ (leg.stop /\ m = leg.len) = (leg.stop /\ n = leg.len - 1)
        /\ (leg.rw = "R" /\ m = leg.len) = (leg.rw = "R" /\ n = leg.len - 1)
    BY <2>4, Zenon
  <2>6. byte(m) = ByteCmd(leg, n)
    BY <2>3, <2>4, <2>5, Zenon DEF ByteCmd
  <2> QED
    BY <2>6, Zenon DEF m
<1> HIDE DEF byte, first
<1>3. bytes(n + 1) = Append(bytes(n), byte(n + 1))
  <2> DEFINE S == {byte(k) : k \in Nat}
  <2>1. bytes(n) \in Seq(S) /\ Len(bytes(n)) = n /\ byte(n + 1) \in S
    OBVIOUS
  <2>2. bytes(n + 1) \in Seq(S) /\ Len(bytes(n + 1)) = n + 1
    OBVIOUS
  <2>3. \A k \in 1 .. n + 1 : bytes(n + 1)[k] = Append(bytes(n), byte(n + 1))[k]
    BY <2>1
  <2>4. Append(bytes(n), byte(n + 1)) \in Seq(S) /\ Len(Append(bytes(n), byte(n + 1))) = n + 1
    BY <2>1
  <2> HIDE DEF S, bytes
  <2> QED
    BY <2>2, <2>3, <2>4, SeqEqual
<1>4. first \o Append(bytes(n), byte(n + 1)) = Append(first \o bytes(n), byte(n + 1))
  <2> DEFINE S == {byte(k) : k \in Nat} \cup {Address(leg)}
  <2>1. bytes(n) \in Seq(S) /\ byte(n + 1) \in S
    OBVIOUS
  <2>2. first \in Seq(S)
    BY DEF first
  <2> HIDE DEF S, bytes
  <2> QED
    BY <2>1, <2>2
<1> QED
  <2> HIDE DEF bytes
  <2> QED
    BY <1>1, <1>2, <1>3, <1>4

LEMMA AtMostOne == ASSUME NEW S, NEW w \in S, NEW seq, seq = <<>> \/ seq = <<w>>
                   PROVE  seq \in Seq(S) /\ Len(seq) \in 0 .. 1 /\ (Len(seq) = 1 => seq[1] = w)
<1>1. CASE seq = <<>>
  BY <1>1
<1>2. CASE seq = <<w>>
  BY <1>2
<1> QED
  BY <1>1, <1>2

LEMMA AtMostTwo == ASSUME NEW S, NEW X \in Seq(S), NEW Y \in Seq(S), Len(X) \in 0 .. 1, Len(Y) \in 0 .. 1
                   PROVE  /\ Len(X \o Y) \in 0 .. 2
                          /\ Len(X \o Y) = 2 => (X \o Y)[1] = X[1] /\ Len(X) = 1
<1> DEFINE x == Len(X)
           y == Len(Y)
           z == Len(X \o Y)
<1>1. z = x + y
  BY ConcatProperties
<1>2. x \in 0 .. 1 /\ y \in 0 .. 1
  OBVIOUS
<1>3. x = 1 /\ y = 1 => (X \o Y)[1] = X[1]
  BY ConcatProperties
<1> HIDE DEF x, y, z
<1>4. z \in 0 .. 2 /\ (z = 2 => x = 1 /\ y = 1)
  BY <1>1, <1>2
<1> QED
  BY <1>3, <1>4 DEF x, y, z

LEMMA LegsShape == ASSUME NEW c \in Calls
                   PROVE  /\ LegsOf(c) \in Seq(LegType) /\ Len(LegsOf(c)) \in 0 .. 2
                          /\ Len(LegsOf(c)) = 2 => LegsOf(c)[1].len >= 1
<1>1. c.tx \in Nat /\ c.rx \in Nat /\ c.stop \in BOOLEAN
  BY I2cAssumption
<1> DEFINE last == c.rx = 0
           out == IF c.tx > 0 THEN <<Leg("W", c.tx, last)>> ELSE <<>>
           in == IF c.rx > 0 THEN <<Leg("R", c.rx, TRUE)>> ELSE <<>>
<1>2. \A leg : Len(<<leg>>) = 1
  OBVIOUS
<1>3. Len(<<>>) = 0
  OBVIOUS
<1>4. \/ LegsOf(c) = <<Leg("W", c.tx, c.stop)>> \/ LegsOf(c) = <<Leg("R", c.rx, c.stop)>>
      \/ LegsOf(c) = out \o in
  BY Zenon DEF LegsOf
<1>5. out = <<>> \/ (out = <<Leg("W", c.tx, last)>> /\ c.tx > 0)
  BY Zenon
<1>6. in = <<>> \/ in = <<Leg("R", c.rx, TRUE)>>
  BY Zenon
<1>7. Leg("W", c.tx, last).len = c.tx
  BY DEF Leg
<1>8. /\ out \in Seq(LegType) /\ Len(out) \in 0 .. 1
      /\ Len(out) = 1 => out[1].len = c.tx /\ c.tx > 0
      /\ in \in Seq(LegType) /\ Len(in) \in 0 .. 1
  <2>1. last \in BOOLEAN
    BY Zenon
  <2> DEFINE w == Leg("W", c.tx, last)
             r == Leg("R", c.rx, TRUE)
  <2>2. w \in LegType /\ r \in LegType
    BY <1>1, <2>1 DEF Leg, LegType
  <2>3. w.len = c.tx
    BY DEF Leg
  <2>4. out = <<>> \/ (out = <<w>> /\ c.tx > 0)
    BY <1>5
  <2>5. in = <<>> \/ in = <<r>>
    BY <1>6
  <2> HIDE DEF out, in, last, w, r
  <2>6. out \in Seq(LegType) /\ Len(out) \in 0 .. 1 /\ (Len(out) = 1 => out[1] = w)
    BY <2>2, <2>4, AtMostOne
  <2>7. in \in Seq(LegType) /\ Len(in) \in 0 .. 1
    BY <2>2, <2>5, AtMostOne
  <2>8. Len(out) = 1 => c.tx > 0
    BY <1>3, <2>4
  <2> QED
    BY <2>3, <2>6, <2>7, <2>8
<1>9. /\ Len(out \o in) \in 0 .. 2
      /\ Len(out \o in) = 2 => (out \o in)[1].len >= 1
  <2>1. out \in Seq(LegType) /\ in \in Seq(LegType) /\ Len(out) \in 0 .. 1 /\ Len(in) \in 0 .. 1
    BY <1>8
  <2>2. Len(out) = 1 => out[1].len = c.tx /\ c.tx > 0
    BY <1>8
  <2> HIDE DEF out, in, last
  <2>3. /\ Len(out \o in) \in 0 .. 2
        /\ Len(out \o in) = 2 => (out \o in)[1] = out[1] /\ Len(out) = 1
    BY <2>1, AtMostTwo
  <2>4. c.tx > 0 => c.tx >= 1
    BY <1>1
  <2> QED
    BY <2>2, <2>3, <2>4
<1> HIDE DEF out, in, last
<1>10. CASE LegsOf(c) = out \o in
  BY <1>9, <1>10, LegsTyped
<1>11. CASE LegsOf(c) = <<Leg("W", c.tx, c.stop)>> \/ LegsOf(c) = <<Leg("R", c.rx, c.stop)>>
  <2>1. Len(LegsOf(c)) = 1
    BY <1>2, <1>11
  <2> QED
    BY <2>1, LegsTyped
<1> QED
  BY <1>4, <1>10, <1>11

CmdsOf(h) == [k \in DOMAIN h |-> h[k].cmd]

LEMMA CmdsTyped == ASSUME NEW h \in Seq(Entry)
                   PROVE  /\ CmdsOf(h) \in Seq(CmdType) /\ Len(CmdsOf(h)) = Len(h)
                          /\ \A k \in 1 .. Len(h) : CmdsOf(h)[k] = h[k].cmd
<1>1. \A k \in 1 .. Len(h) : h[k].cmd \in CmdType
  <2>1. \A entry \in Entry : entry.cmd \in CmdType
    BY DEF Entry
  <2> HIDE DEF Entry
  <2> QED
    BY <2>1
<1> QED
  BY <1>1 DEF CmdsOf

LEMMA CmdsAppend == ASSUME NEW h \in Seq(Entry), NEW e \in Entry
                    PROVE  CmdsOf(Append(h, e)) = Append(CmdsOf(h), e.cmd)
<1> DEFINE g == Append(h, e)
           cmds == CmdsOf(h)
<1>1. g \in Seq(Entry) /\ Len(g) = Len(h) + 1 /\ g[Len(h) + 1] = e /\ \A k \in 1 .. Len(h) : g[k] = h[k]
  BY AppendProperties
<1>2. e.cmd \in CmdType
  BY DEF Entry
<1>3. /\ cmds \in Seq(CmdType) /\ Len(cmds) = Len(h) /\ CmdsOf(g) \in Seq(CmdType) /\ Len(CmdsOf(g)) = Len(g)
      /\ \A k \in 1 .. Len(h) : cmds[k] = h[k].cmd
      /\ \A k \in 1 .. Len(g) : CmdsOf(g)[k] = g[k].cmd
  BY <1>1, CmdsTyped
<1> HIDE DEF cmds, g
<1>4. /\ Append(cmds, e.cmd) \in Seq(CmdType) /\ Len(Append(cmds, e.cmd)) = Len(h) + 1
      /\ Append(cmds, e.cmd)[Len(h) + 1] = e.cmd
      /\ \A k \in 1 .. Len(h) : Append(cmds, e.cmd)[k] = h[k].cmd
  BY <1>2, <1>3, AppendProperties
<1>5. Len(h) \in Nat
  BY LenProperties
<1>6. \A k \in 1 .. Len(CmdsOf(g)) : CmdsOf(g)[k] = Append(cmds, e.cmd)[k]
  BY <1>1, <1>3, <1>4, <1>5
<1>7. CmdsOf(g) = Append(cmds, e.cmd)
  BY <1>1, <1>3, <1>4, <1>6, SeqEqual
<1> QED
  BY <1>7 DEF cmds, g

LEMMA Records == ASSUME TInv
                 PROVE  /\ log \in Seq(Entry) /\ Issued \in Seq(CmdType)
                        /\ Len(Issued) = Len(log) /\ DOMAIN log = 1 .. Len(log) /\ Len(log) \in Nat
                        /\ \A k \in 1 .. Len(log) : Issued[k] = log[k].cmd
<1>1. log \in Seq(Entry)
  BY DEF TInv, TypeOK, Entry
<1>2. Issued = CmdsOf(log)
  BY DEF Issued, CmdsOf
<1> QED
  BY <1>1, <1>2, CmdsTyped, LenProperties

LEMMA BeforeTyped == ASSUME TInv, NEW n \in Nat, Place(n)
                     PROVE  /\ Before(n) \in Seq(CmdType) /\ legs \in Seq(LegType)
                            /\ Len(Before(n)) = IF n = 0 THEN 0 ELSE n + 1
                            /\ Spared(n) \subseteq 1 .. Len(Before(n))
<1>1. legs \in Seq(LegType) /\ LegsOf(call) \in Seq(LegType)
  BY LegsShape DEF TInv, TypeOK
<1>2. CASE n = 0
  <2>1. <<>> \in Seq(CmdType) /\ Len(<<>>) = 0
    OBVIOUS
  <2> QED
    BY <1>1, <1>2, <2>1 DEF Before, Spared
<1>3. CASE n # 0
  <2>1. LegsOf(call)[1] \in LegType
    BY <1>1, <1>3 DEF Place
  <2>2. Before(n) = Commands(LegsOf(call)[1], n)
    BY <1>3 DEF Before
  <2>3. Spared(n) = {n + 1}
    BY <1>3 DEF Spared
  <2> QED
    BY <1>1, <1>3, <2>1, <2>2, <2>3, CommandsTyped
<1> QED
  BY <1>2, <1>3

(* The commands before this leg stay where they are in the log.            *)
LEMMA BeforeFirst == ASSUME TInv, NEW n \in Nat, Place(n), pc # "idle", SentNow(Before(n))
                     PROVE  /\ Len(Before(n)) <= Len(log)
                            /\ pc \in Asked => Len(Before(n)) < Len(log)
<1>1. Before(n) \in Seq(CmdType) /\ legs[1] \in LegType /\ i \in Nat
  <2>1. legs \in Seq(LegType) /\ legs # <<>>
    BY DEF TInv, TypeOK
  <2> QED
    BY <2>1, BeforeTyped DEF TInv, TypeOK
<1>2. \A m \in Nat : Len(Before(n) \o Commands(legs[1], m)) = Len(Before(n)) + m + 1
  <2> TAKE m \in Nat
  <2>1. Commands(legs[1], m) \in Seq(CmdType) /\ Len(Commands(legs[1], m)) = m + 1
    BY <1>1, CommandsTyped
  <2>2. Len(Before(n)) \in Nat
    BY <1>1
  <2>3. Len(Before(n) \o Commands(legs[1], m)) = Len(Before(n)) + Len(Commands(legs[1], m))
    BY <1>1, <2>1, ConcatProperties
  <2> QED
    BY <2>1, <2>2, <2>3
<1>3. Len(Issued) = Len(log) /\ Len(Before(n)) \in Nat
  BY <1>1, Records
<1>4. \/ Issued = Before(n) /\ pc \notin Asked
      \/ \E m \in Nat : Issued = Before(n) \o Commands(legs[1], m)
  <2>1. i + 1 \in Nat /\ 0 \in Nat
    BY <1>1
  <2> QED
    BY <1>1, <2>1 DEF SentNow, Begun, Asked
<1>5. CASE Issued = Before(n) /\ pc \notin Asked
  BY <1>3, <1>5
<1>6. ASSUME NEW m \in Nat, Issued = Before(n) \o Commands(legs[1], m)
      PROVE  Len(Before(n)) < Len(log)
  <2>1. Len(log) = Len(Before(n)) + m + 1
    BY <1>2, <1>3, <1>6
  <2> QED
    BY <1>3, <2>1
<1> QED
  BY <1>3, <1>4, <1>5, <1>6

(* Steps of no consequence for the call: cvars and the controller stay.    *)
LEMMA QuietBus == ASSUME BusInv, UNCHANGED cvars, UNCHANGED <<tip, rxack>>,
                         \/ pc' = pc
                         \/ pc \in Begun /\ pc' \in Begun
                         \/ pc \in Asked /\ pc' \in Asked
                  PROVE  BusInv'
<1>1. call' = call /\ legs' = legs /\ i' = i /\ ret' = ret /\ log' = log /\ tip' = tip /\ rxack' = rxack
  BY DEF cvars
<1>2. /\ (pc' \in Begun) = (pc \in Begun) /\ (pc' \in Asked) = (pc \in Asked)
      /\ (pc' = "byte") = (pc = "byte") /\ (pc' = "idle") = (pc = "idle")
  BY DEF Begun, Asked
<1>3. Issued' = Issued /\ Answered' = Answered /\ LegsOf(call)' = LegsOf(call)
  BY <1>1, Zenon DEF Issued, Answered, LegsOf
<1>4. \A S : AllAcked(S)' = AllAcked(S)
  BY <1>1, Zenon DEF AllAcked
<1>5. OkMeansDone'
  BY <1>1, <1>2, <1>3, Zenon DEF BusInv, OkMeansDone, Done, AllAcked, Commands, Address
<1>6. Told'
  <2> SUFFICES ASSUME pc # "idle"
               PROVE  \E n \in Nat : Place(n)' /\ SentNow(Before(n))' /\ AckedNow(Spared(n))'
    BY <1>2, Zenon DEF Told
  <2>1. PICK n \in Nat : Place(n) /\ SentNow(Before(n)) /\ AckedNow(Spared(n))
    BY DEF BusInv, Told
  <2>2. Place(n)' /\ Before(n)' = Before(n)
    BY <1>1, <1>3, <2>1, Zenon DEF Place, Before, Commands, Address
  <2>3. SentNow(Before(n))'
    BY <1>1, <1>2, <1>3, <2>1, <2>2, Zenon DEF SentNow, Commands, Address
  <2>4. AckedNow(Spared(n))'
    BY <1>1, <1>2, <2>1, Zenon DEF AckedNow, AllAcked, Spared
  <2> QED
    BY <2>2, <2>3, <2>4
<1>7. Heard' /\ Busy'
  <2>1. log'[Len(log')] = log[Len(log)]
    BY <1>1, Zenon
  <2>2. (pc' \in Asked) <=> (pc \in Asked)
    BY <1>2, Zenon
  <2>3. Heard'
    BY <1>1, <2>1, <2>2 DEF BusInv, Heard
  <2>4. Busy'
    <3>1. tip' => tip
      BY <1>1
    <3>2. tip => log = <<>> \/ pc \in Asked \/ (pc = "idle" /\ ret = Err)
      BY Zenon DEF BusInv, Busy
    <3>3. pc = "idle" => pc' = "idle"
      BY <1>2, Zenon
    <3> QED
      BY <1>1, <2>2, <3>1, <3>2, <3>3, Zenon DEF Busy
  <2> QED
    BY <2>3, <2>4
<1> QED
  BY <1>5, <1>6, <1>7 DEF BusInv

(* A call that ends without success promises nothing.                      *)
LEMMA FailedBus == ASSUME BusInv, pc' = "idle", ret' = Err
                   PROVE  BusInv'
<1>1. Err # Ok
  BY DEF Err, Ok
<1> QED
  BY <1>1 DEF BusInv, OkMeansDone, Told, Heard, Busy, Asked

LEMMA BusInit == Init => BusInv
<1> SUFFICES ASSUME Init
             PROVE  BusInv
  OBVIOUS
<1>1. pc = "idle" /\ ret = Err /\ tip = FALSE
  BY DEF Init
<1>2. Err # Ok
  BY DEF Err, Ok
<1> QED
  BY <1>1, <1>2 DEF BusInv, OkMeansDone, Told, Heard, Busy, Asked

LEMMA CallBus == ASSUME BusInv, NEW c \in Calls, Call(c)
                 PROVE  BusInv'
<1>1. log' = <<>> /\ call' = c /\ i' = 0 /\ pc' \in {"idle", "addr"}
  BY DEF Call
<1>2. Issued' = <<>> /\ AllAcked({})'
  BY <1>1 DEF Issued, AllAcked
<1>3. OkMeansDone'
  <2> SUFFICES ASSUME pc' = "idle", ret' = Ok
               PROVE  OkMeansDone'
    BY DEF OkMeansDone
  <2>1. LegsOf(c) = <<>>
    BY DEF Call, Ok, Err
  <2>2. Len(LegsOf(call')) = 0
    BY <1>1, <2>1
  <2> QED
    BY <1>1, <2>2 DEF OkMeansDone, Done
<1>4. Told'
  <2> SUFFICES ASSUME pc' = "addr"
               PROVE  Place(0)' /\ SentNow(Before(0))' /\ AckedNow(Spared(0))'
    BY <1>1 DEF Told
  <2>1. legs' = LegsOf(c)
    BY DEF Call
  <2>2. Place(0)' /\ Before(0)' = <<>> /\ Spared(0)' = {}
    BY <1>1, <2>1 DEF Place, Before, Spared
  <2> QED
    BY <1>1, <1>2, <2>2 DEF SentNow, AckedNow, Begun, Asked
<1>5. Heard' /\ Busy'
  BY <1>1 DEF Heard, Busy, Asked
<1> QED
  BY <1>3, <1>4, <1>5 DEF BusInv

(* A command put on the bus is the next one of its leg.                    *)
LEMMA IssueBus == ASSUME TInv, BusInv, SendAddress \/ SendByte
                  PROVE  BusInv'
<1>1. pc \in {"start", "byte"} /\ pc # "idle" /\ legs \in Seq(LegType) /\ legs # <<>> /\ i \in Nat
  BY DEF SendAddress, SendByte, TInv, TypeOK
<1> DEFINE leg == legs[1]
<1>2. leg \in LegType
  BY <1>1
<1>3. PICK n \in Nat : Place(n) /\ SentNow(Before(n)) /\ AckedNow(Spared(n))
  BY <1>1 DEF BusInv, Told
<1> DEFINE before == Before(n)
           command == IF pc = "start" THEN Address(leg) ELSE ByteCmd(leg, i)
           entry == [cmd |-> command, acked |-> FALSE]
<1>4. before \in Seq(CmdType) /\ Len(before) \in Nat /\ Len(before) <= Len(log) /\ (n # 0 => n + 1 <= Len(before))
  <2>1. /\ before \in Seq(CmdType) /\ Len(before) <= Len(log)
        /\ Len(before) = IF n = 0 THEN 0 ELSE n + 1
    BY <1>1, <1>3, BeforeTyped, BeforeFirst
  <2> QED
    BY <1>3, <2>1
<1>5. Issue(command) /\ (pc = "byte" => i < leg.len)
  BY <1>1 DEF SendAddress, SendByte
<1>6. command \in CmdType
  <2>1. Address(leg) \in CmdType
    <3>1. <<Address(leg)>> \in Seq(CmdType)
      BY <1>2, CommandsTyped
    <3>2. <<Address(leg)>>[1] \in CmdType
      <4>1. Len(<<Address(leg)>>) = 1
        OBVIOUS
      <4> QED
        BY <3>1, <4>1, ElementOfSeq
    <3> QED
      BY <3>2
  <2>2. ByteCmd(leg, i) \in CmdType
    <3> DEFINE stop == leg.stop /\ i = leg.len - 1
               nack == leg.rw = "R" /\ i = leg.len - 1
    <3>1. stop \in BOOLEAN /\ nack \in BOOLEAN
      BY Zenon
    <3>2. leg.rw \in {"W", "R"}
      BY <1>2 DEF LegType
    <3>3. ByteCmd(leg, i) = [kind |-> "byte", rw |-> leg.rw, n |-> i, stop |-> stop, nack |-> nack]
      BY Zenon DEF ByteCmd
    <3> HIDE DEF stop, nack
    <3> QED
      BY <1>1, <3>1, <3>2, <3>3 DEF CmdType
  <2> QED
    BY <2>1, <2>2, Zenon
<1>7. entry \in Entry /\ entry.cmd = command
  <2> HIDE DEF command
  <2> QED
    BY <1>6 DEF Entry
<1>8. /\ pc' = "arm" /\ tip' = TRUE /\ log' = Append(log, entry)
      /\ call' = call /\ legs' = legs /\ i' = i /\ ret' = ret
  BY <1>5 DEF Issue
<1> HIDE DEF entry, command
<1>9. /\ log \in Seq(Entry) /\ Len(log) \in Nat /\ Len(log') = Len(log) + 1
      /\ log'[Len(log) + 1] = entry /\ \A k \in 1 .. Len(log) : log'[k] = log[k]
  BY <1>7, <1>8, Records, AppendProperties
<1>10. Issued' = Append(Issued, command)
  BY <1>7, <1>8, <1>9, CmdsAppend DEF Issued, CmdsOf
<1>11. Answered' = command
  BY <1>7, <1>9 DEF Answered
<1>12. Place(n)' /\ Before(n)' = before
  <2>1. n # 0 => log'[n + 1] = log[n + 1]
    BY <1>4, <1>9
  <2>2. LegsOf(call)' = LegsOf(call)
    BY <1>8, Zenon DEF LegsOf
  <2>3. Before(n)' = before
    BY <2>2, Zenon DEF Before, Commands, Address
  <2>4. Place(n)'
    <3>1. CASE n = 0
      <4>1. legs = LegsOf(call)
        BY <1>3, <3>1 DEF Place
      <4> QED
        BY <1>8, <2>2, <3>1, <4>1, Zenon DEF Place
    <3>2. CASE n # 0
      BY <1>3, <1>8, <2>1, <2>2, <3>2, Zenon DEF Place
    <3> QED
      BY <3>1, <3>2
  <2> QED
    BY <2>3, <2>4
<1>13. SentNow(Before(n))'
  <2>1. CASE pc = "start"
    <3>1. i = 0 /\ Issued = before /\ command = Address(leg) /\ command.kind = "addr"
      BY <1>3, <2>1 DEF SentNow, Begun, Asked, command, Address
    <3>2. Issued' = before \o Commands(leg, 0)
      BY <1>2, <1>4, <1>6, <1>10, <3>1, CommandsTyped, AppendIsConcat
    <3> QED
      BY <1>8, <1>11, <1>12, <3>1, <3>2 DEF SentNow, Asked
  <2>2. CASE pc = "byte"
    <3>1. ret = Ok /\ Issued = before \o Commands(leg, i) /\ command = ByteCmd(leg, i) /\ command.kind = "byte"
      BY <1>3, <2>2 DEF SentNow, Begun, Asked, command, ByteCmd
    <3>2. Commands(leg, i) \in Seq(CmdType) /\ Commands(leg, i + 1) = Append(Commands(leg, i), command)
      BY <1>1, <1>2, <3>1, CommandsTyped, CommandsNext
    <3>3. Append(before \o Commands(leg, i), command) = before \o Append(Commands(leg, i), command)
      <4> DEFINE Y == Commands(leg, i)
      <4>1. before \in Seq(CmdType) /\ Y \in Seq(CmdType) /\ command \in CmdType
        BY <1>4, <1>6, <3>2
      <4> HIDE DEF before, Y
      <4>2. <<command>> \in Seq(CmdType) /\ before \o Y \in Seq(CmdType)
        BY <4>1, ConcatProperties
      <4>3. /\ Append(before \o Y, command) = (before \o Y) \o <<command>>
            /\ Append(Y, command) = Y \o <<command>>
        BY <4>1, <4>2, AppendIsConcat
      <4>4. Append(before \o Y, command) = before \o Append(Y, command)
        BY <4>1, <4>2, <4>3, ConcatAssociative
      <4> QED
        BY <4>4 DEF Y
    <3>4. Issued' = before \o Commands(leg, i + 1)
      BY <1>10, <3>1, <3>2, <3>3, Zenon
    <3> QED
      BY <1>8, <1>11, <1>12, <3>1, <3>4 DEF SentNow, Asked
  <2> QED
    BY <1>1, <2>1, <2>2
<1>14. AckedNow(Spared(n))'
  <2>1. AllAcked(Spared(n))
    BY <1>1, <1>3 DEF AckedNow, Asked
  <2>2. DOMAIN log = 1 .. Len(log) /\ DOMAIN log' = 1 .. Len(log) + 1
    <3>1. log' \in Seq(Entry)
      BY <1>7, <1>8, <1>9, AppendProperties
    <3> QED
      BY <1>9, <3>1, LenProperties
  <2>3. AllAcked(Spared(n) \cup {Len(log)})'
    <3> SUFFICES ASSUME NEW k \in 1 .. Len(log) + 1, k # Len(log) + 1
                 PROVE  log'[k].acked \/ k \in Spared(n) \/ (log'[k].cmd.rw = "R" /\ log'[k].cmd.kind = "byte")
      BY <1>9, <2>2 DEF AllAcked, Spared
    <3>1. k \in 1 .. Len(log)
      BY <1>9
    <3> QED
      BY <1>9, <2>1, <2>2, <3>1 DEF AllAcked
  <2> QED
    BY <1>8, <2>3 DEF AckedNow, Asked
<1>15. OkMeansDone' /\ Heard' /\ Busy'
  BY <1>8 DEF OkMeansDone, Heard, Busy, Asked
<1> QED
  BY <1>12, <1>13, <1>14, <1>15 DEF BusInv, Told

(* The controller's answer changes the last entry and no other.            *)
LEMMA AckedLast == ASSUME log \in Seq(Entry), log # <<>>, NEW acked \in BOOLEAN
                   PROVE  LET new == [log EXCEPT ![Len(log)].acked = acked]
                          IN  /\ new \in Seq(Entry) /\ Len(new) = Len(log) /\ CmdsOf(new) = CmdsOf(log)
                              /\ new[Len(log)].acked = acked /\ new[Len(log)].cmd = log[Len(log)].cmd
                              /\ \A k \in 1 .. Len(log) : k # Len(log) => new[k] = log[k]
<1> DEFINE m == Len(log)
           last == [log[m] EXCEPT !.acked = acked]
           g == [log EXCEPT ![m] = last]
<1>1. m \in 1 .. Len(log) /\ log[m] \in Entry
  OBVIOUS
<1>2. last \in Entry /\ last.cmd = log[m].cmd /\ last.acked = acked
  BY <1>1 DEF Entry
<1>3. g \in Seq(Entry) /\ Len(g) = Len(log) /\ g[m] = last /\ \A k \in 1 .. Len(log) : k # m => g[k] = log[k]
  <2> HIDE DEF last
  <2> QED
    BY <1>1, <1>2, ExceptSeq
<1>4. CmdsOf(g) = CmdsOf(log)
  <2> HIDE DEF g, last, m
  <2>1. /\ CmdsOf(g) \in Seq(CmdType) /\ Len(CmdsOf(g)) = Len(log)
        /\ CmdsOf(log) \in Seq(CmdType) /\ Len(CmdsOf(log)) = Len(log)
    BY <1>3, CmdsTyped
  <2>2. \A k \in 1 .. Len(log) : CmdsOf(g)[k] = CmdsOf(log)[k]
    <3>1. /\ \A k \in 1 .. Len(log) : CmdsOf(g)[k] = g[k].cmd
          /\ \A k \in 1 .. Len(log) : CmdsOf(log)[k] = log[k].cmd
      BY <1>3, CmdsTyped
    <3>2. \A k \in 1 .. Len(log) : g[k].cmd = log[k].cmd
      BY <1>2, <1>3
    <3> QED
      BY <3>1, <3>2
  <2> QED
    BY <2>1, <2>2, SeqEqual
<1> QED
  BY <1>2, <1>3, <1>4

LEMMA CompleteBus == ASSUME TInv, BusInv, NEW nack \in BOOLEAN, Complete(nack)
                     PROVE  BusInv'
<1>1. /\ tip = TRUE /\ tip' = FALSE /\ rxack' = nack /\ pc' = pc /\ call' = call /\ legs' = legs
      /\ i' = i /\ ret' = ret
  BY DEF Complete, TInv, TypeOK
<1>2. Busy'
  BY <1>1 DEF Busy
<1>3. CASE log = <<>>
  <2>1. log' = log /\ pc \notin Asked
    BY <1>3 DEF Complete, TInv, InFlight, Asked
  <2>2. Issued' = Issued /\ LegsOf(call)' = LegsOf(call)
    BY <1>1, <2>1, Zenon DEF Issued, LegsOf
  <2>3. OkMeansDone'
    BY <1>1, <2>1, <2>2, Zenon DEF BusInv, OkMeansDone, Done, AllAcked, Commands, Address
  <2>4. Heard'
    BY <1>1, <2>1 DEF Heard
  <2>5. Told'
    <3> SUFFICES ASSUME pc # "idle"
                 PROVE  \E n \in Nat : Place(n)' /\ SentNow(Before(n))' /\ AckedNow(Spared(n))'
      BY <1>1, Zenon DEF Told
    <3>1. PICK n \in Nat : Place(n) /\ SentNow(Before(n)) /\ AckedNow(Spared(n))
      BY DEF BusInv, Told
    <3>2. Place(n)' /\ Before(n)' = Before(n)
      BY <1>1, <2>1, <2>2, <3>1, Zenon DEF Place, Before, Commands, Address
    <3>3. SentNow(Before(n))'
      <4>1. pc \in Begun \/ pc = "byte"
        BY <2>1, <3>1 DEF SentNow
      <4>2. \/ pc \in Begun /\ i = 0 /\ Issued = Before(n)
            \/ pc = "byte" /\ ret = Ok /\ Issued = Before(n) \o Commands(legs[1], i)
        BY <2>1, <3>1 DEF SentNow
      <4> QED
        BY <1>1, <2>1, <2>2, <3>2, <4>2, Zenon DEF SentNow, Commands, Address
    <3>4. AckedNow(Spared(n))'
      BY <1>1, <2>1, <3>1, Zenon DEF AckedNow, AllAcked, Spared
    <3> QED
      BY <3>2, <3>3, <3>4
  <2> QED
    BY <1>2, <2>3, <2>4, <2>5 DEF BusInv
<1>4. CASE pc = "idle" /\ ret = Err
  <2> QED
    BY <1>1, <1>4, FailedBus
<1>5. CASE log # <<>> /\ pc \in Asked
  <2>1. log \in Seq(Entry)
    BY Records
  <2>2. /\ log' \in Seq(Entry) /\ Len(log') = Len(log) /\ CmdsOf(log') = CmdsOf(log)
        /\ log'[Len(log)].acked = ~nack /\ log'[Len(log)].cmd = log[Len(log)].cmd
        /\ \A k \in 1 .. Len(log) : k # Len(log) => log'[k] = log[k]
    <3> DEFINE acked == ~nack
    <3>1. log' = [log EXCEPT ![Len(log)].acked = acked]
      BY <1>5, Zenon DEF Complete
    <3>2. acked \in BOOLEAN
      OBVIOUS
    <3> HIDE DEF acked
    <3>3. /\ log' \in Seq(Entry) /\ Len(log') = Len(log) /\ CmdsOf(log') = CmdsOf(log)
          /\ log'[Len(log)].acked = acked /\ log'[Len(log)].cmd = log[Len(log)].cmd
          /\ \A k \in 1 .. Len(log) : k # Len(log) => log'[k] = log[k]
      <4>1. log # <<>>
        BY <1>5
      <4> QED
        BY <2>1, <3>1, <3>2, <4>1, AckedLast
    <3> QED
      BY <3>3 DEF acked
  <2>3. Issued' = Issued /\ Answered' = Answered /\ LegsOf(call)' = LegsOf(call)
    <3>1. Issued' = CmdsOf(log') /\ Issued = CmdsOf(log)
      BY DEF Issued, CmdsOf
    <3>2. LegsOf(call)' = LegsOf(call)
      BY <1>1, Zenon DEF LegsOf
    <3>3. Answered' = Answered
      BY <2>2, Zenon DEF Answered
    <3> QED
      BY <2>2, <3>1, <3>2, <3>3, Zenon
  <2>4. pc # "idle"
    BY <1>5 DEF Asked
  <2>5. PICK n \in Nat : Place(n) /\ SentNow(Before(n)) /\ AckedNow(Spared(n))
    BY <2>4 DEF BusInv, Told
  <2>6. Before(n)' = Before(n)
    BY <2>3, Zenon DEF Before, Commands, Address
  <2>7. Place(n)'
    <3>1. CASE n = 0
      <4>1. legs = LegsOf(call)
        BY <2>5, <3>1 DEF Place
      <4> QED
        BY <1>1, <2>3, <3>1, <4>1, Zenon DEF Place
    <3>2. CASE n # 0
      <4>1. Len(Before(n)) = n + 1 /\ Len(Before(n)) < Len(log) /\ Len(log) \in Nat
        BY <1>5, <2>4, <2>5, <3>2, BeforeTyped, BeforeFirst, Records
      <4>2. log'[n + 1] = log[n + 1]
        BY <2>2, <4>1
      <4> QED
        BY <1>1, <2>3, <2>5, <3>2, <4>2, Zenon DEF Place
    <3> QED
      BY <3>1, <3>2
  <2>8. SentNow(Before(n))'
    BY <1>1, <2>3, <2>5, <2>6, Zenon DEF SentNow, Commands, Address
  <2>9. AckedNow(Spared(n))'
    <3>1. AllAcked(Spared(n) \cup {Len(log)})
      BY <1>5, <2>5 DEF AckedNow
    <3>2. DOMAIN log = 1 .. Len(log) /\ DOMAIN log' = 1 .. Len(log) /\ Len(log) \in Nat
      BY <2>1, <2>2, LenProperties
    <3>3. AllAcked(Spared(n) \cup {Len(log)})'
      <4> SUFFICES ASSUME NEW k \in 1 .. Len(log), k # Len(log)
                   PROVE  log'[k].acked \/ k \in Spared(n) \/ (log'[k].cmd.rw = "R" /\ log'[k].cmd.kind = "byte")
        BY <2>2, <3>2 DEF AllAcked, Spared
      <4> QED
        BY <2>2, <3>1, <3>2 DEF AllAcked
    <3> QED
      BY <1>1, <1>5, <3>3 DEF AckedNow
  <2>10. OkMeansDone'
    BY <1>1, <2>4 DEF OkMeansDone
  <2>11. Heard'
    BY <1>1, <2>2 DEF Heard
  <2> QED
    BY <1>2, <2>5, <2>7, <2>8, <2>9, <2>10, <2>11 DEF BusInv, Told
<1> QED
  BY <1>1, <1>3, <1>4, <1>5 DEF BusInv, Busy

(* The last command of the log, and its answer when the driver looks at it *)
LEMMA LookedAt == ASSUME TInv, IInv, BusInv, pc = "answer"
                  PROVE  /\ ~tip /\ Len(log) \in 1 .. Len(log) /\ DOMAIN log = 1 .. Len(log)
                         /\ log[Len(log)].acked = ~rxack /\ Len(Issued) = Len(log) /\ Len(log) \in Nat
<1>1. ~tip
  BY DEF IInv, AtRest
<1>2. log # <<>> /\ log \in Seq(Entry)
  BY Records DEF TInv, InFlight
<1> QED
  BY <1>1, <1>2, Records DEF BusInv, Heard, Asked

(* The address or a byte is acknowledged: the leg goes on.                 *)
LEMMA AckBus == ASSUME TInv, IInv, BusInv, ~Nacked, AddressDone \/ ByteDone
                PROVE  BusInv'
<1>1. /\ pc = "answer" /\ pc' = "byte" /\ call' = call /\ legs' = legs /\ log' = log /\ tip' = tip
      /\ rxack' = rxack
  BY DEF AddressDone, ByteDone, Device
<1>2. PICK n \in Nat : Place(n) /\ SentNow(Before(n)) /\ AckedNow(Spared(n))
  BY <1>1 DEF BusInv, Told
<1>3. Issued' = Issued /\ LegsOf(call)' = LegsOf(call)
  BY <1>1, Zenon DEF Issued, LegsOf
<1>4. Before(n)' = Before(n) /\ Place(n)'
  BY <1>1, <1>2, <1>3, Zenon DEF Place, Before, Commands, Address
<1>5. SentNow(Before(n))'
  <2>1. CASE AddressDone
    <3>1. i = 0 /\ Issued = Before(n) \o Commands(legs[1], 0)
      BY <1>1, <1>2, <2>1 DEF SentNow, AddressDone, Begun, Asked
    <3>2. i' = i /\ ret' = Ok
      BY <2>1 DEF AddressDone
    <3> QED
      BY <1>1, <1>3, <1>4, <3>1, <3>2, Zenon DEF SentNow, Commands, Address
  <2>2. CASE ByteDone
    <3>1. ret = Ok /\ Issued = Before(n) \o Commands(legs[1], i + 1)
      BY <1>1, <1>2, <2>2 DEF SentNow, ByteDone, Begun, Asked
    <3>2. i' = i + 1 /\ ret' = ret
      BY <2>2 DEF ByteDone
    <3> QED
      BY <1>1, <1>3, <1>4, <3>1, <3>2, Zenon DEF SentNow, Commands, Address
  <2> QED
    BY <2>1, <2>2
<1>6. AckedNow(Spared(n))'
  <2>1. AllAcked(Spared(n) \cup {Len(log)})
    BY <1>1, <1>2 DEF AckedNow, Asked
  <2>2. log[Len(log)].acked \/ (log[Len(log)].cmd.rw = "R" /\ log[Len(log)].cmd.kind = "byte")
    <3>1. log[Len(log)].acked = ~rxack
      BY <1>1, LookedAt
    <3>2. Answered = log[Len(log)].cmd /\ (rxack => Answered.kind # "addr" /\ Answered.rw # "W")
      BY DEF Nacked, Answered
    <3>3. Answered.kind \in {"addr", "byte"} /\ Answered.rw \in {"W", "R"}
      <4>1. log \in Seq(Entry) /\ Len(log) \in 1 .. Len(log)
        BY <1>1, LookedAt, Records
      <4>2. log[Len(log)] \in Entry
        BY <4>1
      <4> QED
        BY <4>2 DEF Answered, Entry, CmdType
    <3> QED
      BY <3>1, <3>2, <3>3
  <2>3. AllAcked(Spared(n))
    BY <2>1, <2>2 DEF AllAcked
  <2> QED
    BY <1>1, <2>3 DEF AckedNow, AllAcked, Asked, Spared
<1>7. OkMeansDone' /\ Heard' /\ Busy'
  <2>1. ~tip
    BY <1>1, LookedAt
  <2> QED
    BY <1>1, <2>1 DEF OkMeansDone, Heard, Busy, Asked
<1> QED
  BY <1>1, <1>4, <1>5, <1>6, <1>7 DEF BusInv, Told

LEMMA SecondOf == ASSUME NEW S, NEW all \in Seq(S), Len(all) > 1, Len(all) \in 0 .. 2
                  PROVE  Len(all) = 2 /\ Tail(all) = <<all[2]>> /\ all[1] \in S
<1> DEFINE two == <<all[2]>>
<1>1. Len(all) = 2
  OBVIOUS
<1>2. all # <<>> /\ all[1] \in S /\ all[2] \in S
  <2>1. all # <<>>
    BY <1>1, EmptySeq
  <2>2. 1 \in 1 .. Len(all) /\ 2 \in 1 .. Len(all)
    BY <1>1
  <2> QED
    BY <2>1, <2>2, ElementOfSeq
<1>3. Tail(all) \in Seq(S) /\ Len(Tail(all)) = 1
  BY <1>1, <1>2, HeadTailProperties
<1>4. Tail(all)[1] = all[2]
  BY <1>2, <1>3, HeadTailProperties
<1>5. two \in Seq(S) /\ Len(two) = 1 /\ two[1] = all[2]
  BY <1>2
<1> HIDE DEF two
<1>6. \A k \in 1 .. Len(two) : two[k] = Tail(all)[k]
  BY <1>4, <1>5
<1>7. Tail(all) = two
  BY <1>3, <1>5, <1>6, SeqEqual
<1> QED
  BY <1>1, <1>2, <1>7 DEF two

(* The first leg of two is over, n of its bytes on the bus.                *)
LEMMA SecondLegBus == ASSUME TInv, BusInv, ~tip, tip' = tip, Len(legs) > 1, NextLeg(Ok) \/ NextLeg(Err),
                             NEW n \in 1 .. legs[1].len,
                             Issued = Commands(legs[1], n), AllAcked({n + 1}),
                             n < legs[1].len => ~log[n + 1].acked
                      PROVE  legs = LegsOf(call) => BusInv'
<1> SUFFICES ASSUME legs = LegsOf(call)
             PROVE  BusInv'
  OBVIOUS
<1>1. call' = call /\ legs' = Tail(legs) /\ i' = 0 /\ log' = log /\ pc' = "addr"
  BY DEF NextLeg
<1>2. LegsOf(call) \in Seq(LegType) /\ Len(LegsOf(call)) \in 0 .. 2
  <2>1. call \in Calls
    BY DEF TInv, TypeOK
  <2> QED
    BY <2>1, LegsShape
<1>3. Len(LegsOf(call)) = 2 /\ Tail(legs) = <<LegsOf(call)[2]>> /\ legs[1] \in LegType
  BY <1>2, SecondOf
<1>4. n \in Nat /\ n # 0
  BY <1>3 DEF LegType
<1>5. LegsOf(call)' = LegsOf(call) /\ Issued' = Issued
  BY <1>1, Zenon DEF LegsOf, Issued
<1>6. Place(n)'
  BY <1>1, <1>2, <1>3, <1>5, Zenon DEF Place
<1>7. Before(n)' = Commands(legs[1], n)
  BY <1>4, <1>5, Zenon DEF Before, Commands, Address
<1>8. SentNow(Before(n))'
  BY <1>1, <1>5, <1>7 DEF SentNow, Begun
<1>9. AckedNow(Spared(n))'
  BY <1>1, <1>4 DEF AckedNow, Spared, AllAcked, Asked
<1>10. OkMeansDone' /\ Heard' /\ Busy'
  BY <1>1 DEF OkMeansDone, Heard, Busy, Asked
<1> QED
  BY <1>4, <1>6, <1>8, <1>9, <1>10 DEF BusInv, Told

(* All the bytes of a leg are sent: the next one begins, or the call is a  *)
(* success.                                                                *)
LEMMA EndBus == ASSUME TInv, IInv, BusInv, EndLeg
                PROVE  BusInv'
<1>1. pc = "byte" /\ i = legs[1].len /\ NextLeg(ret) /\ tip' = tip /\ legs # <<>> /\ legs \in Seq(LegType)
  BY DEF EndLeg, Device, TInv, TypeOK
<1>2. ~tip
  BY <1>1 DEF IInv, AtRest
<1>3. PICK n \in Nat : Place(n) /\ SentNow(Before(n)) /\ AckedNow(Spared(n))
  BY <1>1 DEF BusInv, Told
<1>4. ret = Ok /\ Issued = Before(n) \o Commands(legs[1], legs[1].len) /\ AllAcked(Spared(n))
  BY <1>1, <1>3 DEF SentNow, AckedNow, Begun, Asked
<1>5. LegsOf(call) \in Seq(LegType) /\ Len(LegsOf(call)) \in 0 .. 2
      /\ (Len(LegsOf(call)) = 2 => LegsOf(call)[1].len >= 1)
  <2>1. call \in Calls
    BY DEF TInv, TypeOK
  <2> QED
    BY <2>1, LegsShape
<1>6. CASE Len(legs) > 1
  <2>1. n = 0 /\ legs = LegsOf(call)
    <3>1. \A leg : ~(Len(<<leg>>) > 1)
      OBVIOUS
    <3> QED
      BY <1>3, <1>6, <3>1 DEF Place
  <2>2. legs[1] \in LegType /\ Len(legs) = 2
    BY <1>5, <1>6, <2>1, SecondOf
  <2>3. legs[1].len \in 1 .. legs[1].len
    <3>1. legs[1].len \in Nat /\ legs[1].len >= 1
      BY <1>5, <2>1, <2>2 DEF LegType
    <3> QED
      BY <3>1
  <2>4. Issued = Commands(legs[1], legs[1].len)
    <3>1. Commands(legs[1], legs[1].len) \in Seq(CmdType)
      BY <2>2, <2>3, CommandsTyped
    <3>2. Before(n) = <<>>
      BY <2>1 DEF Before
    <3> QED
      BY <1>4, <3>1, <3>2, ConcatEmptySeq
  <2>5. AllAcked({legs[1].len + 1})
    <3>1. Spared(n) = {}
      BY <2>1 DEF Spared
    <3> QED
      BY <1>4, <3>1 DEF AllAcked
  <2>6. ~(legs[1].len < legs[1].len)
    BY <2>3
  <2> QED
    BY <1>1, <1>2, <1>4, <1>6, <2>1, <2>3, <2>4, <2>5, <2>6, SecondLegBus
<1>7. CASE ~(Len(legs) > 1)
  <2>1. pc' = "idle" /\ ret' = Ok /\ call' = call /\ log' = log
    BY <1>1, <1>4, <1>7 DEF NextLeg, Return
  <2>2. LegsOf(call)' = LegsOf(call) /\ Issued' = Issued
    BY <2>1, Zenon DEF LegsOf, Issued
  <2>3. \A S : AllAcked(S)' = AllAcked(S)
    BY <2>1, Zenon DEF AllAcked
  <2>4. Done
    <3> DEFINE all == LegsOf(call)
    <3>1. CASE n = 0
      <4>1. legs = all /\ Before(n) = <<>> /\ Spared(n) = {}
        BY <1>3, <3>1 DEF Place, Before, Spared
      <4>2. Len(all) = 1 /\ all[1] \in LegType
        <5>1. Len(all) # 0
          BY <1>1, <4>1, EmptySeq
        <5>2. Len(all) \in 0 .. 2 /\ ~(Len(all) > 1) /\ all \in Seq(LegType)
          BY <1>5, <1>7, <4>1
        <5> HIDE DEF all
        <5>3. Len(all) = 1
          BY <5>1, <5>2
        <5> QED
          BY <5>2, <5>3, ElementOfSeq
      <4>3. Issued = Commands(all[1], all[1].len)
        <5>1. Commands(all[1], all[1].len) \in Seq(CmdType)
          BY <4>2, CommandsTyped DEF LegType
        <5> QED
          BY <1>4, <4>1, <5>1, ConcatEmptySeq
      <4>4. AllAcked({})
        BY <1>4, <4>1
      <4> QED
        BY <4>2, <4>3, <4>4 DEF Done
    <3>2. CASE n # 0
      <4>1. /\ Len(all) = 2 /\ legs = <<all[2]>> /\ n \in 1 .. all[1].len
            /\ n < all[1].len => ~log[n + 1].acked
        BY <1>3, <3>2 DEF Place
      <4>2. legs[1] = all[2] /\ Before(n) = Commands(all[1], n) /\ Spared(n) = {n + 1}
        BY <3>2, <4>1 DEF Before, Spared
      <4>3. Issued = Commands(all[1], n) \o Commands(all[2], all[2].len) /\ AllAcked({n + 1})
        BY <1>4, <4>2, Zenon
      <4> QED
        <5>1. \E m \in 1 .. all[1].len :
                /\ Issued = Commands(all[1], m) \o Commands(all[2], all[2].len)
                /\ AllAcked({m + 1})
                /\ m < all[1].len => ~log[m + 1].acked
          BY <4>1, <4>3, Zenon
        <5>2. Len(all) # 0 /\ Len(all) # 1
          BY <4>1
        <5> QED
          BY <5>1, <5>2, Zenon DEF Done
    <3> QED
      BY <3>1, <3>2
  <2>5. Done'
    BY <2>1, <2>2, <2>3, <2>4, Zenon DEF Done, Commands, Address
  <2>6. ~tip'
    BY <1>1, <1>2
  <2> QED
    BY <2>1, <2>5, <2>6 DEF BusInv, OkMeansDone, Told, Heard, Busy, Asked
<1> QED
  BY <1>6, <1>7

(* A byte is not acknowledged: the leg is over, and the call unless it     *)
(* goes on to another.                                                     *)
LEMMA NackBus == ASSUME TInv, IInv, BusInv, ByteDone, Nacked
                 PROVE  BusInv'
<1>1. pc = "answer" /\ Answered.kind = "byte" /\ NextLeg(Err) /\ tip' = tip /\ legs # <<>> /\ i \in Nat
  BY DEF ByteDone, Device, TInv, TypeOK
<1>2. /\ ~tip /\ rxack /\ log[Len(log)].acked = ~rxack /\ Len(Issued) = Len(log) /\ i < legs[1].len
      /\ Len(log) \in Nat
  BY <1>1, LookedAt DEF TInv, InFlight, Nacked
<1>3. CASE ~(Len(legs) > 1)
  <2>1. pc' = "idle" /\ ret' = Err
    BY <1>1, <1>3 DEF NextLeg, Return
  <2> QED
    BY <2>1, FailedBus
<1>4. CASE Len(legs) > 1
  <2>1. PICK n \in Nat : Place(n) /\ SentNow(Before(n)) /\ AckedNow(Spared(n))
    BY <1>1 DEF BusInv, Told
  <2>2. n = 0 /\ legs = LegsOf(call)
    <3>1. \A leg : ~(Len(<<leg>>) > 1)
      OBVIOUS
    <3> QED
      BY <1>4, <2>1, <3>1 DEF Place
  <2>3. legs \in Seq(LegType) /\ Len(legs) \in 0 .. 2
    <3>1. call \in Calls
      BY DEF TInv, TypeOK
    <3> QED
      BY <2>2, <3>1, LegsShape
  <2>4. legs[1] \in LegType
    BY <1>4, <2>3, SecondOf
  <2>5. Commands(legs[1], i + 1) \in Seq(CmdType) /\ Len(Commands(legs[1], i + 1)) = i + 2
    <3>1. i + 1 \in Nat /\ i + 1 + 1 = i + 2
      BY <1>1
    <3> QED
      BY <2>4, <3>1, CommandsTyped
  <2>6. Issued = Commands(legs[1], i + 1)
    <3>1. Before(n) = <<>>
      BY <2>2 DEF Before
    <3>2. Issued = Before(n) \o Commands(legs[1], i + 1)
      BY <1>1, <2>1 DEF SentNow, Begun, Asked
    <3> QED
      BY <2>5, <3>1, <3>2, ConcatEmptySeq
  <2>7. Len(log) = i + 2
    BY <1>2, <2>5, <2>6
  <2>8. AllAcked({i + 2}) /\ ~log[i + 2].acked
    <3>1. Spared(n) = {}
      BY <2>2 DEF Spared
    <3>2. AllAcked(Spared(n) \cup {Len(log)})
      BY <1>1, <2>1 DEF AckedNow, Asked
    <3>3. {} \cup {Len(log)} = {i + 2}
      BY <2>7
    <3> QED
      BY <1>2, <2>7, <3>1, <3>2, <3>3
  <2>9. i + 1 \in 1 .. legs[1].len /\ i + 1 + 1 = i + 2
    BY <1>1, <1>2, <2>4 DEF LegType
  <2> DEFINE n1 == i + 1
  <2>10. /\ n1 \in 1 .. legs[1].len /\ Issued = Commands(legs[1], n1) /\ AllAcked({n1 + 1})
         /\ ~log[n1 + 1].acked
    BY <2>6, <2>8, <2>9
  <2> HIDE DEF n1
  <2> QED
    BY <1>1, <1>2, <1>4, <2>2, <2>10, SecondLegBus
<1> QED
  BY <1>3, <1>4

LEMMA BusStep == ASSUME TInv, IInv, BusInv, [Next]_vars
                 PROVE  BusInv'
<1>1. CASE Work
  <2>1. CASE Begin \/ TimeoutReset("arm", "poll")
    BY <2>1, QuietBus DEF Begin, TimeoutReset, Goto, Device, Begun, Asked
  <2>2. CASE \/ Poll("free", "free?", "start") \/ NotYet("free?", "free")
             \/ Poll("poll", "poll?", "answer") \/ NotYet("poll?", "poll")
    BY <2>2, QuietBus DEF Poll, NotYet, Goto, Device, Begun, Asked
  <2>3. CASE SendAddress \/ SendByte
    BY <2>3, IssueBus
  <2>4. CASE AddressDone \/ ByteDone
    <3>1. CASE ~Nacked
      BY <2>4, <3>1, AckBus
    <3>2. CASE Nacked /\ AddressDone
      BY <3>2, FailedBus DEF AddressDone, Return
    <3>3. CASE Nacked /\ ByteDone
      BY <3>3, NackBus
    <3> QED
      BY <2>4, <3>1, <3>2, <3>3
  <2>5. CASE EndLeg
    BY <2>5, EndBus
  <2> QED
    BY <1>1, <2>1, <2>2, <2>3, <2>4, <2>5 DEF Work
<1>2. CASE \E c \in Calls : Call(c)
  BY <1>2, CallBus
<1>3. CASE \E b \in Bauds : SetBaud(b)
  BY <1>3, QuietBus DEF SetBaud
<1>4. CASE GiveUp
  BY <1>4, FailedBus DEF GiveUp, Return
<1>5. CASE \E nack \in BOOLEAN : Complete(nack)
  BY <1>5, CompleteBus
<1>6. CASE Tick
  BY <1>6, QuietBus DEF Tick
<1>7. CASE UNCHANGED vars
  BY <1>7, QuietBus DEF vars
<1> QED
  BY <1>1, <1>2, <1>3, <1>4, <1>5, <1>6, <1>7 DEF Next

(* A call that returns success has done what was asked: the address and    *)
(* the bytes of its legs are on the bus, in order, with the STOP, and      *)
(* acknowledged, whatever calls were made before it, however they ended,   *)
(* and whatever the controller did (driver.c:130-331).                     *)
THEOREM SuccessMeansDone == Spec => []OkMeansDone
<1>1. BusInv => OkMeansDone
  BY DEF BusInv
<1>2. TInv /\ IInv /\ BusInv /\ [Next]_vars => BusInv'
  BY BusStep
<1> QED
  BY <1>1, <1>2, BusInit, TInvInit, TInvStep, DriverInvariant, PTL DEF Spec
=============================================================================
