-------------------------- MODULE Clock_proofs --------------------------
(***************************************************************************)
(* Proofs about the two parts of the SDK that live on a clock that wraps.  *)
(*                                                                         *)
(* The keep-alive, for every interval, timeout, schedule and clock width:  *)
(* no false alarm, a lost connection is noticed, the broker keeps its      *)
(* patience.                                                               *)
(*                                                                         *)
(* The software timers, for every set of timers, counter width, delays and *)
(* callbacks: the list is the one asked for and in order, no timer is      *)
(* called early and the loop follows no null pointer.  The model walks the *)
(* list with a recursive function.  The proofs speak of a chain instead: a *)
(* sequence s of places, from the head to a place that holds Null, none of *)
(* them twice.  On a chain the walk is s.                                  *)
(***************************************************************************)
EXTENDS KeepAlive, MultiTimer, FiniteSetTheorems, WellFoundedInduction, TLAPS

-----------------------------------------------------------------------------
(* Arithmetic of a clock that wraps.                                       *)

\* A remainder is a reading of the clock.
LEMMA ModRange ==
  ASSUME NEW m \in Nat \ {0}, NEW x \in Int
  PROVE  x % m \in 0 .. m - 1
  OBVIOUS

\* A reading is its own remainder.
LEMMA ModSmall ==
  ASSUME NEW m \in Nat \ {0}, NEW x \in 0 .. m - 1
  PROVE  x % m = x
  OBVIOUS

\* Elapsed time across one wrap ...
LEMMA ModBelow ==
  ASSUME NEW m \in Nat \ {0}, NEW x \in (-m) .. (-1)
  PROVE  x % m = x + m
  OBVIOUS

\* ... and a clock that passes its end.
LEMMA ModAbove ==
  ASSUME NEW m \in Nat \ {0}, NEW x \in m .. 2 * m - 1
  PROVE  x % m = x - m
  OBVIOUS

\* A clock that advances by d is at most d further from any earlier reading,
\* wrapped or not.
LEMMA ElapsedGrows ==
  ASSUME NEW c \in Ticks, NEW p \in Ticks, NEW d \in Nat
  PROVE  Elapsed((c + d) % TickMod, p) <= Elapsed(c, p) + d
  BY ModSmall, ModBelow, ModAbove, ModRange, KeepAliveAssumption DEF Elapsed, Ticks

-----------------------------------------------------------------------------
(* Types.                                                                  *)

\* Every step keeps the context, the clock and the bounds in range.
THEOREM TypeCorrect == Spec => []TypeOK
<1> USE KeepAliveAssumption
<1>1. Init => TypeOK
  <2> SUFFICES ASSUME Init PROVE TypeOK
    OBVIOUS
  <2>1. waitingForPingResp \in BOOLEAN
    BY Zenon DEF Init
  <2> QED
    BY <2>1 DEF Init, TypeOK, Ticks
<1>2. TypeOK /\ [Next]_vars => TypeOK'
  <2> SUFFICES ASSUME TypeOK, [Next]_vars PROVE TypeOK'
    OBVIOUS
  <2> USE DEF vars, wire, ping, TypeOK
  <2>a. \A d \in Nat : (clock + d) % TickMod \in Ticks
    BY ModRange DEF Ticks
  <2>1. CASE Connect
    <3>1. waitingForPingResp' \in BOOLEAN
      BY <2>1, Zenon DEF Connect, ResetPing
    <3> QED
      BY <2>1, <2>a, <3>1 DEF Connect, ResetPing, Ticks
  <2>2. CASE ReceiveData
    BY <2>2, <2>a DEF ReceiveData, Elapse, Travel, LeavePing, Continue
  <2>3. CASE ReceivePingresp
    <3>1. waitingForPingResp' \in BOOLEAN
      BY <2>3, Zenon DEF ReceivePingresp
    <3> QED
      BY <2>3, <2>a, <3>1 DEF ReceivePingresp, Elapse, Continue
  <2>4. CASE Ping
    <3>1. waitingForPingResp' \in BOOLEAN
      BY <2>4, Zenon DEF Ping, SendPing
    <3> QED
      BY <2>4, <2>a, <3>1 DEF Ping, IdleRead, Elapse, SendPing, Continue
  <2>5. CASE Idle
    BY <2>5, <2>a DEF Idle, IdleRead, Elapse, Travel, Continue
  <2>6. CASE Timeout
    BY <2>6, <2>a DEF Timeout, IdleRead, Elapse
  <2>7. CASE Resume
    BY <2>7, <2>a DEF Resume, Elapse, Travel
  <2>8. CASE Vanish
    BY <2>8, <2>a DEF Vanish
  <2>9. CASE UNCHANGED vars
    BY <2>9, <2>a DEF vars
  <2> QED
    BY <2>1, <2>2, <2>3, <2>4, <2>5, <2>6, <2>7, <2>8, <2>9 DEF Next
<1> QED
  BY <1>1, <1>2, PTL DEF Spec

-----------------------------------------------------------------------------
(* No false alarm.                                                         *)

\* While the broker is there, a ping the client waits for has its answer on the
\* way or in the socket; and the clock's reading of its age, wrapped or not, is
\* at most the time the answer has travelled.
AnswerInv ==
  /\ at # "down" /\ peer = "up" /\ waitingForPingResp => answer # "none"
  /\ at # "down" /\ answer = "travelling" =>
       Elapsed(clock, pingReqSendTimeMs) <= answerAge

\* A step, of the clock, the broker or the client, keeps the age of the answer.
LEMMA AnswerStep ==
  ASSUME TypeOK, AnswerInv, [Next]_vars
  PROVE  AnswerInv'
<1> USE KeepAliveAssumption DEF vars, wire, ping, AnswerInv
<1>a. /\ clock \in Ticks /\ pingReqSendTimeMs \in Ticks
      /\ answerAge \in Nat
  BY DEF TypeOK
<1>b. \A d \in Nat : Elapsed((clock + d) % TickMod, pingReqSendTimeMs)
                       <= Elapsed(clock, pingReqSendTimeMs) + d
  BY <1>a, ElapsedGrows
<1>c. \A t \in Ticks : Elapsed(t, t) = 0
  BY ModSmall DEF Elapsed, Ticks
<1>1. CASE Connect
  <2>1. ~waitingForPingResp'
    BY <1>1, Zenon DEF Connect, ResetPing
  <2> QED
    BY <1>1, <2>1 DEF Connect
<1>2. CASE ReceiveData
  BY <1>2, <1>a, <1>b DEF ReceiveData, Elapse, Travel, LeavePing, Continue, Elapsed, Ticks
<1>3. CASE ReceivePingresp
  <2>1. ~waitingForPingResp'
    BY <1>3, Zenon DEF ReceivePingresp
  <2> QED
    BY <1>3, <2>1 DEF ReceivePingresp
<1>4. CASE Ping
  <2>1. /\ clock' \in Ticks /\ pingReqSendTimeMs' = clock' /\ answerAge' = 0
        /\ answer' = IF peer = "up" THEN "travelling" ELSE "none"
        /\ UNCHANGED peer
    BY <1>4, <1>a, ModRange DEF Ping, SendPing, IdleRead, Elapse, Ticks
  <2> QED
    BY <2>1, <1>c
<1>5. CASE Idle
  BY <1>5, <1>a, <1>b DEF Idle, IdleRead, Elapse, Travel, Continue, Elapsed, Ticks
<1>6. CASE Timeout
  <2>1. at' = "down"
    BY <1>6 DEF Timeout
  <2> QED
    BY <1>6, <2>1, <1>a, <1>b DEF Timeout, IdleRead, Elapse
<1>7. CASE Resume
  BY <1>7, <1>a, <1>b DEF Resume, Elapse, Travel, Elapsed, Ticks
<1>8. CASE Vanish
  BY <1>8 DEF Vanish
<1>9. CASE UNCHANGED vars
  BY <1>9 DEF Elapsed
<1> QED
  BY <1>1, <1>2, <1>3, <1>4, <1>5, <1>6, <1>7, <1>8, <1>9 DEF Next

\* A broker that answers within Rtt, which is at most the ping timeout, is never
\* given up for a late answer.
THEOREM AlarmIsTrue == Spec => NoFalseAlarm
<1>1. Init => AnswerInv
  BY DEF Init, AnswerInv
<1>2. TypeOK /\ AnswerInv /\ [Next]_vars => AnswerInv'
  BY AnswerStep
<1>3. TypeOK /\ AnswerInv /\ [Next]_vars => [Timeout => peer = "gone"]_vars
  <2> SUFFICES ASSUME TypeOK, AnswerInv, Timeout, peer = "up"
               PROVE  FALSE
    BY DEF TypeOK
  <2>1. PICK d \in 0 .. ReadTime : IdleRead(d) /\ PingLate /\ at = "loop"
    BY DEF Timeout, IdleRead
  <2>2. answer = "travelling"
    BY <2>1 DEF IdleRead, PingLate, AnswerInv, TypeOK
  <2>3. Elapsed(clock', pingReqSendTimeMs) <= Elapsed(clock, pingReqSendTimeMs) + d
    BY <2>1, ElapsedGrows, KeepAliveAssumption DEF IdleRead, Elapse, TypeOK
  <2>4. answerAge + d <= Rtt /\ Elapsed(clock, pingReqSendTimeMs) <= answerAge
    BY <2>1, <2>2 DEF IdleRead, AnswerInv
  <2>5. Elapsed(clock, pingReqSendTimeMs) \in Nat /\ Elapsed(clock', pingReqSendTimeMs) \in Nat
    BY <2>1, ModRange, KeepAliveAssumption DEF Elapsed, IdleRead, Elapse, TypeOK, Ticks
  <2> QED
    BY <2>1, <2>3, <2>4, <2>5, KeepAliveAssumption DEF PingLate, TypeOK
<1> QED
  BY <1>1, <1>2, <1>3, TypeCorrect, PTL DEF Spec, NoFalseAlarm

-----------------------------------------------------------------------------
(* An interval no longer than the timeout.                                 *)

\* With a keep-alive no longer than the ping timeout the timeout never fires:
\* by the time a ping is late the next one is due, and sending it restarts the
\* measurement.
THEOREM ShortKeepAliveNeverTimesOut ==
  ASSUME KeepAlive # 0, KeepAlive <= PingTimeout
  PROVE  Spec => [][~Timeout]_vars
<1> DEFINE Inv == waitingForPingResp => pingReqSendTimeMs = lastPacketTime
<1>1. Init => Inv
  BY DEF Init
<1>2. Inv /\ [Next]_vars => Inv'
  <2> SUFFICES ASSUME Inv, [Next]_vars PROVE Inv'
    OBVIOUS
  <2>1. CASE Connect
    BY <2>1, Zenon DEF Connect, ResetPing
  <2>2. CASE ReceivePingresp
    BY <2>2, Zenon DEF ReceivePingresp
  <2>3. CASE Ping
    BY <2>3 DEF Ping, SendPing
  <2> QED
    BY <2>1, <2>2, <2>3 DEF Next, ReceiveData, LeavePing, Idle, Timeout, Resume, Vanish, vars, ping
<1>3. TypeOK /\ Inv => ~Timeout
  <2> SUFFICES ASSUME TypeOK, Inv, Timeout PROVE FALSE
    OBVIOUS
  <2>1. PICK d \in 0 .. ReadTime : IdleRead(d) /\ ~PingDue /\ PingLate
    BY DEF Timeout
  <2>2. pingReqSendTimeMs = lastPacketTime
    BY <2>1 DEF PingLate
  <2>3. Elapsed(clock', lastPacketTime) \in Nat
    BY <2>1, ModRange, KeepAliveAssumption DEF Elapsed, IdleRead, Elapse, TypeOK, Ticks
  <2> QED
    BY <2>1, <2>2, <2>3, KeepAliveAssumption DEF PingDue, PingLate
<1> QED
  BY <1>1, <1>2, <1>3, TypeCorrect, PTL DEF Spec

-----------------------------------------------------------------------------
(* A peer that goes is noticed, and one that stays is spoken to.           *)

\* The order of the daemon's times: a ping timeout and the longest absence fit
\* in a keep-alive interval, so does a late look at an answer, and the clock
\* does not wrap within one.
Proportions ==
  /\ KeepAlive # 0
  /\ PingTimeout + Away <= KeepAlive
  /\ Rtt + MaxBurst * (ReadTime + PauseTime) + PauseTime <= KeepAlive
  /\ KeepAlive + Away < TickMod

\* What b reads in a row, each with a pause, may take.
Round == ReadTime + PauseTime
Spent(b) == b * Round

\* The clock's reading of the time since the last ping; the time that may have
\* passed since handleKeepAlive last looked at it; the longest burst.
Age == Elapsed(clock, lastPacketTime)
Paused == IF at = "pause" THEN PauseTime ELSE 0
Unseen == Spent(burst) + (IF at = "loop" THEN PauseTime ELSE 0)
Longest == Spent(MaxBurst) + ReadTime

\* A ping waited for is the last packet sent.
PingInv ==
  /\ waitingForPingResp => pingReqSendTimeMs = lastPacketTime
  /\ answer # "none" => waitingForPingResp
  /\ peer = "up" => gone = 0

\* An answer is no younger than the clock says, and the ping it answers was the
\* last thing sent, while the peer was there.
ReplyInv ==
  /\ answer = "travelling" => Age <= answerAge
  /\ answer = "here" => Age <= Rtt + Unseen
  /\ answer # "none" => silence <= Age /\ gone <= Age

\* Before the first look at the clock a connection is younger than a burst.
\* After it the age of the last packet is less than the interval and what has
\* passed since, and tells how long the client has been silent.
SilenceInv ==
  \/ silence + Paused <= Spent(burst)
  \/ Age <= KeepAlive + Unseen /\ silence <= Age + Longest

\* The same of a peer that is gone; once it is pinged, the answer that does not
\* come is late before the next ping is due.
GoneInv ==
  \/ gone + Paused <= Spent(burst)
  \/ Age <= KeepAlive + Unseen /\ gone <= Age + Longest
  \/ /\ peer = "gone" /\ waitingForPingResp /\ answer = "none"
     /\ Age <= PingTimeout + Unseen
     /\ gone <= Age + KeepAlive + 2 * Away

TimeInv == at # "down" => PingInv /\ ReplyInv /\ SilenceInv /\ GoneInv

\* The multiples of a round that the invariant speaks of.
LEMMA SpentFacts ==
  /\ Round \in Nat /\ Spent(0) = 0
  /\ \A b \in Nat : Spent(b) \in Nat /\ Spent(b + 1) = Spent(b) + Round
  /\ \A b \in 0 .. MaxBurst : Spent(b) <= Spent(MaxBurst)
  /\ Away = Spent(MaxBurst) + Round
  /\ Round = ReadTime + PauseTime
<1>1. \A b \in Nat : b * Round \in Nat /\ (b + 1) * Round = b * Round + Round
  BY KeepAliveAssumption DEF Round
<1>2. \A b \in 0 .. MaxBurst : b * Round <= MaxBurst * Round
  <2> SUFFICES ASSUME NEW b \in 0 .. MaxBurst PROVE b * Round <= MaxBurst * Round
    OBVIOUS
  <2>1. PICK k \in Nat : MaxBurst = b + k
    <3>1. MaxBurst - b \in Nat /\ MaxBurst = b + (MaxBurst - b)
      BY KeepAliveAssumption
    <3> QED
      BY <3>1
  <2>2. (b + k) * Round = b * Round + k * Round /\ k * Round \in Nat /\ b * Round \in Nat
    BY <2>1, KeepAliveAssumption DEF Round
  <2> QED
    BY <2>1, <2>2
<1> QED
  BY <1>1, <1>2, KeepAliveAssumption DEF Spent, Away, Round

\* What the unsigned subtraction reads, before and after a wrap.
LEMMA ElapsedIs ==
  ASSUME NEW c \in Ticks, NEW p \in Ticks
  PROVE  Elapsed(c, p) = IF c >= p THEN c - p ELSE c - p + TickMod
<1> DEFINE x == c - p
<1>1. TickMod \in Nat \ {0} /\ c \in 0 .. TickMod - 1 /\ p \in 0 .. TickMod - 1
  BY KeepAliveAssumption DEF Ticks
<1>2. CASE c >= p
  <2>1. x \in 0 .. TickMod - 1
    BY <1>1, <1>2
  <2>2. x % TickMod = x
    BY ONLY <1>1, <2>1, ModSmall
  <2> QED
    BY <1>2, <2>2 DEF Elapsed
<1>3. CASE c < p
  <2>1. x \in (-TickMod) .. (-1)
    BY <1>1, <1>3
  <2> HIDE DEF x
  <2>2. x % TickMod = x + TickMod
    BY ONLY <1>1, <2>1, ModBelow
  <2> QED
    BY <1>3, <2>2, <1>1 DEF Elapsed, x
<1> QED
  BY <1>1, <1>2, <1>3

\* While an interval does not wrap the clock, an age grows as time does.
LEMMA AgeGrows ==
  ASSUME TypeOK, NEW d \in Nat,
         clock' = (clock + d) % TickMod, lastPacketTime' = lastPacketTime
  PROVE  /\ Age \in Nat /\ Age' \in Nat /\ Age' <= Age + d
         /\ Age + d < TickMod => Age' = Age + d
<1> DEFINE y == clock + d
<1>1. clock \in Ticks /\ lastPacketTime \in Ticks /\ clock' \in Ticks
  BY ModRange, KeepAliveAssumption DEF TypeOK, Ticks
<1>2. Age \in 0 .. TickMod - 1 /\ Age' \in 0 .. TickMod - 1
  BY <1>1, ModRange, KeepAliveAssumption DEF Age, Elapsed, Ticks
<1>3. Age' <= Age + d
  BY <1>1, ElapsedGrows DEF Age
<1>4. ASSUME Age + d < TickMod PROVE Age' = Age + d
  <2>1. y \in 0 .. 2 * TickMod - 1 /\ TickMod \in Nat \ {0}
    BY <1>1, <1>2, <1>4, KeepAliveAssumption DEF Ticks
  <2>2. Age = IF clock >= lastPacketTime THEN clock - lastPacketTime
                                         ELSE clock - lastPacketTime + TickMod
    BY <1>1, ElapsedIs DEF Age
  <2>3. Age' = IF clock' >= lastPacketTime THEN clock' - lastPacketTime
                                           ELSE clock' - lastPacketTime + TickMod
    BY <1>1, ElapsedIs DEF Age
  <2>4. clock' = IF y < TickMod THEN y ELSE y - TickMod
    <3>1. CASE y < TickMod
      <4>1. y \in 0 .. TickMod - 1
        BY <2>1, <3>1
      <4> HIDE DEF y
      <4>2. y % TickMod = y
        BY ONLY <2>1, <4>1, ModSmall
      <4> QED
        BY <3>1, <4>2 DEF y
    <3>2. CASE ~(y < TickMod)
      <4>1. y \in TickMod .. 2 * TickMod - 1
        BY <2>1, <3>2
      <4> HIDE DEF y
      <4>2. y % TickMod = y - TickMod
        BY ONLY <2>1, <4>1, ModAbove
      <4> QED
        BY <3>2, <4>2 DEF y
    <3> QED
      BY <3>1, <3>2
  <2> QED
    BY <1>1, <1>4, <2>1, <2>2, <2>3, <2>4, KeepAliveAssumption DEF Ticks
<1> QED
  BY <1>2, <1>3, <1>4

\* The quantities the steps compare, and their order.
LEMMA Quantities ==
  ASSUME TypeOK, Proportions
  PROVE  /\ KeepAlive \in Nat /\ PingTimeout \in Nat /\ Rtt \in Nat
         /\ ReadTime \in Nat /\ PauseTime \in Nat
         /\ silence \in Nat /\ gone \in Nat /\ answerAge \in Nat /\ Age \in Nat
         /\ burst \in Nat /\ burst <= MaxBurst /\ MaxBurst \in Nat
         /\ Spent(0) = 0 /\ Spent(MaxBurst) \in Nat
         /\ Spent(burst) \in Nat /\ Spent(burst) <= Spent(MaxBurst)
         /\ burst < MaxBurst => /\ Spent(burst + 1) = Spent(burst) + ReadTime + PauseTime
                                /\ Spent(burst + 1) <= Spent(MaxBurst)
         /\ Away = Spent(MaxBurst) + ReadTime + PauseTime
         /\ PingTimeout + Away <= KeepAlive
         /\ Rtt + Spent(MaxBurst) + PauseTime <= KeepAlive
         /\ KeepAlive + Away < TickMod /\ TickMod \in Nat
<1>1. /\ burst \in 0 .. MaxBurst
      /\ burst < MaxBurst => burst + 1 \in 0 .. MaxBurst
  BY KeepAliveAssumption DEF TypeOK
<1>2. Age \in Nat
  BY ModRange, KeepAliveAssumption DEF TypeOK, Age, Elapsed, Ticks
<1>3. Rtt + Spent(MaxBurst) + PauseTime <= KeepAlive
  BY DEF Proportions, Spent, Round
<1> QED
  BY <1>1, <1>2, <1>3, SpentFacts, KeepAliveAssumption DEF TypeOK, Proportions

\* Every step keeps the ages in proportion.
LEMMA TimeStep ==
  ASSUME TypeOK, TimeInv, Proportions, [Next]_vars
  PROVE  TimeInv'
<1> USE DEF Paused, Unseen, Longest
<1>q. at \in {"loop", "pause", "down"} /\ peer \in {"up", "gone"}
      /\ answer \in {"none", "travelling", "here"}
  BY DEF TypeOK
<1>g. ASSUME NEW d \in Nat, clock' = (clock + d) % TickMod, lastPacketTime' = lastPacketTime
      PROVE  Age' \in Nat /\ Age' <= Age + d /\ (Age + d < TickMod => Age' = Age + d)
  BY <1>g, AgeGrows
<1>1. CASE Connect
  <2>1. /\ ~waitingForPingResp' /\ answer' = "none" /\ at' = "loop"
        /\ peer' = "up" /\ gone' = 0 /\ silence' = 0 /\ burst' = 0
    BY <1>1, Zenon DEF Connect, ResetPing
  <2> QED
    BY <2>1, Quantities DEF TimeInv, PingInv, ReplyInv, SilenceInv, GoneInv
<1>2. CASE ReceiveData
  <2>1. PICK d \in 0 .. ReadTime : /\ peer = "gone" => d = 0
                                   /\ Elapse(d) /\ silence' = silence + d /\ Travel(d)
    BY <1>2 DEF ReceiveData
  <2>2. /\ at = "loop" /\ at' \in {"loop", "pause"}
        /\ burst < MaxBurst /\ burst' = burst + 1
        /\ UNCHANGED <<lastPacketTime, pingReqSendTimeMs, waitingForPingResp, peer>>
        /\ gone' = IF peer = "gone" THEN gone + d ELSE 0
        /\ d \in Nat /\ d <= ReadTime
    BY <1>2, <2>1, KeepAliveAssumption DEF ReceiveData, LeavePing, ping, Continue, Elapse
  <2>3. Age' \in Nat /\ Age' <= Age + d /\ (Age + d < TickMod => Age' = Age + d)
    BY <1>g, <2>1, <2>2 DEF Elapse
  <2>4. PingInv /\ ReplyInv /\ SilenceInv /\ GoneInv
    BY <2>2 DEF TimeInv
  <2>5. PingInv'
    BY <2>1, <2>2, <2>4 DEF PingInv, Travel
  <2>6. ReplyInv'
    <3>1. CASE answer = "travelling"
      <4>1. answer' = "travelling" /\ answerAge' = answerAge + d /\ answerAge + d <= Rtt
        BY <2>1, <3>1 DEF Travel
      <4>2. Age <= answerAge /\ silence <= Age /\ gone <= Age
        BY <2>4, <3>1 DEF ReplyInv
      <4>3. Age' = Age + d
        BY <2>2, <2>3, <4>1, <4>2, Quantities
      <4> QED
        BY <2>1, <2>2, <4>1, <4>2, <4>3, Quantities DEF ReplyInv
    <3>2. CASE answer = "here"
      <4>1. answer' = "here"
        BY <2>1, <3>2 DEF Travel
      <4>2. Age <= Rtt + Unseen /\ silence <= Age /\ gone <= Age
        BY <2>4, <3>2 DEF ReplyInv
      <4>3. Age' = Age + d
        BY <2>2, <2>3, <4>2, Quantities
      <4> QED
        BY <2>1, <2>2, <4>1, <4>2, <4>3, Quantities DEF ReplyInv
    <3>3. CASE answer = "none"
      BY <2>1, <3>3 DEF Travel, ReplyInv
    <3> QED
      BY <1>q, <3>1, <3>2, <3>3
  <2>7. SilenceInv'
    BY <2>1, <2>2, <2>3, <2>4, Quantities DEF SilenceInv
  <2>8. GoneInv'
    BY <2>1, <2>2, <2>3, <2>4, Quantities DEF GoneInv, PingInv, Travel
  <2> QED
    BY <2>5, <2>6, <2>7, <2>8 DEF TimeInv
<1>3. CASE ReceivePingresp
  <2>1. PICK d \in 0 .. ReadTime : /\ IF answer = "here" THEN d = 0 ELSE answerAge + d <= Rtt
                                   /\ Elapse(d) /\ silence' = silence + d
    BY <1>3 DEF ReceivePingresp
  <2>2. /\ at = "loop" /\ at' \in {"loop", "pause"} /\ burst' = 0
        /\ answer \in {"travelling", "here"} /\ answer' = "none"
        /\ UNCHANGED <<lastPacketTime, pingReqSendTimeMs, peer>>
        /\ gone' = IF peer = "gone" THEN gone + d ELSE 0
        /\ d \in Nat /\ d <= ReadTime
    BY <1>3, <1>q, <2>1, KeepAliveAssumption DEF ReceivePingresp, Continue, Elapse
  <2>3. ~waitingForPingResp'
    BY <1>3, Zenon DEF ReceivePingresp
  <2>4. Age' \in Nat /\ Age' <= Age + d /\ (Age + d < TickMod => Age' = Age + d)
    BY <1>g, <2>1, <2>2 DEF Elapse
  <2>5. PingInv /\ ReplyInv
    BY <2>2 DEF TimeInv
  <2>6. /\ Age' = Age + d /\ Age' <= KeepAlive
        /\ silence' <= Age' /\ gone' <= Age'
    <3>1. CASE answer = "travelling"
      BY <2>1, <2>2, <2>4, <2>5, <3>1, Quantities DEF ReplyInv
    <3>2. CASE answer = "here"
      BY <2>1, <2>2, <2>4, <2>5, <3>2, Quantities DEF ReplyInv
    <3> QED
      BY <2>2, <3>1, <3>2
  <2>7. PingInv' /\ ReplyInv'
    BY <2>2, <2>3 DEF PingInv, ReplyInv
  <2>8. SilenceInv' /\ GoneInv'
    BY <2>1, <2>2, <2>4, <2>6, Quantities DEF SilenceInv, GoneInv
  <2> QED
    BY <2>7, <2>8 DEF TimeInv
<1>4. CASE Ping
  <2>1. PICK d \in 0 .. ReadTime : IdleRead(d) /\ PingDue
    BY <1>4 DEF Ping
  <2>2. /\ at = "loop" /\ at' \in {"loop", "pause"} /\ burst' = 0
        /\ answer' = (IF peer = "up" THEN "travelling" ELSE "none") /\ answerAge' = 0
        /\ lastPacketTime' = clock' /\ pingReqSendTimeMs' = clock'
        /\ silence' = 0 /\ UNCHANGED peer
        /\ d \in Nat /\ d <= ReadTime
        /\ clock' \in Ticks /\ Elapsed(clock', lastPacketTime) > KeepAlive
        /\ gone' = IF peer = "gone" THEN gone + d ELSE 0
    <3>1. clock' \in Ticks /\ gone' = IF peer = "gone" THEN gone + d ELSE 0
      BY <2>1, ModRange, KeepAliveAssumption DEF IdleRead, Elapse, TypeOK, Ticks
    <3> QED
      BY <1>4, <2>1, <3>1, KeepAliveAssumption DEF Ping, IdleRead, SendPing, Continue, PingDue
  <2>3. waitingForPingResp'
    BY <1>4, Zenon DEF Ping, SendPing
  <2>4. Age' = 0
    <3>1. \A t \in Ticks : Elapsed(t, t) = 0
      BY ModSmall, KeepAliveAssumption DEF Elapsed, Ticks
    <3> QED
      BY <2>2, <3>1 DEF Age
  <2>5. PingInv /\ ReplyInv /\ SilenceInv /\ GoneInv
    BY <2>2 DEF TimeInv
  <2>6. gone' <= KeepAlive + 2 * Away
    <3>1. CASE peer = "up"
      BY <2>2, <3>1, Quantities
    <3>2. CASE peer = "gone"
      <4>1. Elapsed(clock', lastPacketTime) <= Age + d
        BY <2>1, <2>2, ElapsedGrows DEF IdleRead, Elapse, Age, TypeOK
      <4>2. Age + d > KeepAlive
        <5>1. Elapsed(clock', lastPacketTime) \in Nat
          <6>1. /\ clock' \in 0 .. TickMod - 1 /\ lastPacketTime \in 0 .. TickMod - 1
                /\ clock' \in Ticks /\ lastPacketTime \in Ticks
            BY <2>2 DEF TypeOK, Ticks
          <6> QED
            BY <6>1, ElapsedIs, KeepAliveAssumption
        <5> QED
          BY <2>2, <4>1, <5>1, Quantities
      <4>3. ~(Age <= PingTimeout + Unseen)
        BY <2>2, <4>2, Quantities
      <4> QED
        BY <2>2, <2>5, <3>2, <4>3, Quantities DEF GoneInv
    <3> QED
      BY <1>q, <3>1, <3>2
  <2>7. gone' \in Nat
    BY <2>2, Quantities
  <2>8. PingInv' /\ ReplyInv'
    BY <1>q, <2>2, <2>3, <2>4 DEF PingInv, ReplyInv
  <2>9. SilenceInv'
    BY <2>2, <2>4, Quantities DEF SilenceInv
  <2>10. GoneInv'
    <3>1. CASE peer = "up"
      BY <2>2, <2>4, <3>1, Quantities DEF GoneInv
    <3>2. CASE peer = "gone"
      BY <2>2, <2>3, <2>4, <2>6, <2>7, <3>2, Quantities DEF GoneInv
    <3> QED
      BY <1>q, <3>1, <3>2
  <2> QED
    BY <2>8, <2>9, <2>10 DEF TimeInv
<1>5. CASE Idle
  <2>1. PICK d \in 0 .. ReadTime : /\ IdleRead(d) /\ ~PingDue /\ ~PingLate
                                   /\ Travel(d) /\ silence' = silence + d
    BY <1>5 DEF Idle
  <2>2. /\ at = "loop" /\ at' \in {"loop", "pause"} /\ burst' = 0
        /\ answer # "here"
        /\ UNCHANGED <<lastPacketTime, pingReqSendTimeMs, waitingForPingResp, peer>>
        /\ gone' = IF peer = "gone" THEN gone + d ELSE 0
        /\ d \in Nat /\ d <= ReadTime
    BY <1>5, <2>1, KeepAliveAssumption DEF Idle, IdleRead, Elapse, Continue, ping
  <2>3. Age' \in Nat /\ Age' <= Age + d /\ (Age + d < TickMod => Age' = Age + d)
    BY <1>g, <2>1, <2>2 DEF IdleRead, Elapse
  <2>4. PingInv /\ ReplyInv /\ SilenceInv /\ GoneInv
    BY <2>2 DEF TimeInv
  <2>5. Age' <= KeepAlive /\ (waitingForPingResp => Age' <= PingTimeout)
    <3>1. Age' = Elapsed(clock', lastPacketTime)
      BY <2>2 DEF Age
    <3>2. KeepAlive # 0
      BY DEF Proportions
    <3> QED
      BY <2>1, <2>2, <2>3, <2>4, <3>1, <3>2, Quantities DEF PingDue, PingLate, PingInv
  <2>6. PingInv'
    BY <2>1, <2>2, <2>4 DEF PingInv, Travel
  <2>7. ReplyInv'
    <3>1. CASE answer = "travelling"
      BY <2>1, <2>2, <2>3, <2>4, <3>1, Quantities DEF ReplyInv, Travel
    <3>2. CASE answer = "none"
      BY <2>1, <3>2 DEF Travel, ReplyInv
    <3> QED
      BY <1>q, <2>2, <3>1, <3>2
  <2>8. SilenceInv'
    BY <2>1, <2>2, <2>3, <2>4, <2>5, Quantities DEF SilenceInv
  <2>9. GoneInv'
    <3>1. CASE peer = "gone" /\ waitingForPingResp /\ answer = "none"
      BY <2>1, <2>2, <2>3, <2>4, <2>5, <3>1, Quantities DEF GoneInv, Travel
    <3>2. CASE ~(peer = "gone" /\ waitingForPingResp /\ answer = "none")
      BY <2>1, <2>2, <2>3, <2>4, <2>5, <3>2, Quantities DEF GoneInv
    <3> QED
      BY <3>1, <3>2
  <2> QED
    BY <2>6, <2>7, <2>8, <2>9 DEF TimeInv
<1>6. CASE Timeout
  BY <1>6 DEF Timeout, TimeInv
<1>7. CASE Resume
  <2>1. PICK d \in 0 .. PauseTime : /\ Elapse(d) /\ silence' = silence + d
                                    /\ \/ Travel(d)
                                       \/ answer = "travelling" /\ answer' = "here"
    BY <1>7 DEF Resume
  <2>2. /\ at = "pause" /\ at' = "loop"
        /\ UNCHANGED <<lastPacketTime, pingReqSendTimeMs, waitingForPingResp, peer, burst>>
        /\ gone' = IF peer = "gone" THEN gone + d ELSE 0
        /\ d \in Nat /\ d <= PauseTime
    BY <1>7, <2>1, KeepAliveAssumption DEF Resume, Elapse, ping
  <2>3. Age' \in Nat /\ Age' <= Age + d /\ (Age + d < TickMod => Age' = Age + d)
    BY <1>g, <2>1, <2>2 DEF Elapse
  <2>4. PingInv /\ ReplyInv /\ SilenceInv /\ GoneInv
    BY <2>2 DEF TimeInv
  <2>5. PingInv'
    BY <2>1, <2>2, <2>4 DEF PingInv, Travel
  <2>6. ReplyInv'
    <3>1. CASE answer = "none"
      BY <2>1, <3>1 DEF Travel, ReplyInv
    <3>2. CASE answer = "here"
      <4>1. answer' = "here"
        BY <2>1, <3>2 DEF Travel
      <4>2. Age <= Rtt + Unseen /\ silence <= Age /\ gone <= Age
        BY <2>4, <3>2 DEF ReplyInv
      <4> QED
        BY <2>1, <2>2, <2>3, <4>1, <4>2, Quantities DEF ReplyInv
    <3>3. CASE answer = "travelling"
      <4>1. \/ answer' = "here"
            \/ answer' = "travelling" /\ answerAge' = answerAge + d /\ answerAge + d <= Rtt
        BY <2>1, <3>3 DEF Travel
      <4>2. Age <= answerAge /\ answerAge <= Rtt /\ silence <= Age /\ gone <= Age
        BY <2>4, <3>3 DEF ReplyInv, TypeOK
      <4>3. Age' = Age + d
        BY <2>2, <2>3, <4>2, Quantities
      <4> QED
        BY <2>1, <2>2, <4>1, <4>2, <4>3, Quantities DEF ReplyInv
    <3> QED
      BY <1>q, <3>1, <3>2, <3>3
  <2>7. SilenceInv'
    BY <2>1, <2>2, <2>3, <2>4, Quantities DEF SilenceInv
  <2>8. GoneInv'
    BY <2>1, <2>2, <2>3, <2>4, Quantities DEF GoneInv, PingInv, Travel
  <2> QED
    BY <2>5, <2>6, <2>7, <2>8 DEF TimeInv
<1>8. CASE Vanish
  <2>1. /\ at # "down" /\ peer = "up" /\ peer' = "gone"
        /\ answer' = "none" \/ answer' = answer
        /\ answerAge' = answerAge \/ answer' = "none"
        /\ UNCHANGED <<clock, lastPacketTime, pingReqSendTimeMs, waitingForPingResp, at, burst, silence, gone>>
    BY <1>8 DEF Vanish, ping
  <2>2. PingInv /\ ReplyInv /\ SilenceInv
    BY <2>1 DEF TimeInv
  <2>3. Age' = Age
    BY <2>1 DEF Age, Elapsed
  <2>4. gone = 0
    BY <2>1, <2>2 DEF PingInv
  <2>5. PingInv' /\ ReplyInv'
    BY <2>1, <2>2, <2>3 DEF PingInv, ReplyInv
  <2>6. SilenceInv'
    BY <2>1, <2>2, <2>3 DEF SilenceInv
  <2>7. GoneInv'
    BY <2>1, <2>2, <2>3, <2>4, Quantities DEF SilenceInv, GoneInv
  <2> QED
    BY <2>5, <2>6, <2>7 DEF TimeInv
<1>9. CASE UNCHANGED vars
  BY <1>9 DEF vars, wire, ping, TimeInv, PingInv, ReplyInv, SilenceInv, GoneInv, Age, Elapsed
<1> QED
  BY <1>1, <1>2, <1>3, <1>4, <1>5, <1>6, <1>7, <1>8, <1>9 DEF Next

\* The ages stay in proportion as long as the daemon's times are.
THEOREM TimesInvariant ==
  ASSUME Proportions
  PROVE  Spec => []TimeInv
<1>1. Init => TimeInv
  BY DEF Init, TimeInv
<1>2. TypeOK /\ TimeInv /\ [Next]_vars => TimeInv'
  BY TimeStep
<1> QED
  BY <1>1, <1>2, TypeCorrect, PTL DEF Spec

\* A peer that vanishes is noticed within one keep-alive interval, one ping
\* timeout and three of the client's absences: it may go just after the last
\* answer, and the ping, its timeout and the look that finds it late may each
\* be held up by packets that had arrived and by main()'s pauses.
THEOREM LossIsDetected ==
  ASSUME Proportions
  PROVE  Spec => []LossDetected
<1>1. TypeOK /\ TimeInv => LossDetected
  <2> SUFFICES ASSUME TypeOK, TimeInv, at # "down"
               PROVE  gone <= KeepAlive + PingTimeout + 3 * Away
    BY DEF LossDetected
  <2>1. GoneInv
    BY DEF TimeInv
  <2> QED
    BY <2>1, Quantities DEF GoneInv, Paused, Unseen, Longest
<1> QED
  BY <1>1, TimesInvariant, TypeCorrect, PTL

\* Nor does a broker, by its own count, hear nothing for one and a half
\* intervals, when a burst and the pauses around it are at most a quarter of
\* one.
THEOREM BrokerIsPatient ==
  ASSUME Proportions, 2 * (2 * MaxBurst + 1) * (ReadTime + PauseTime) <= KeepAlive
  PROVE  Spec => []BrokerPatience
<1>1. TypeOK /\ TimeInv => BrokerPatience
  <2> SUFFICES ASSUME TypeOK, TimeInv, at # "down"
               PROVE  2 * silence <= 3 * KeepAlive
    BY DEF BrokerPatience
  <2>1. SilenceInv
    BY DEF TimeInv
  <2>2. 4 * Spent(MaxBurst) + 2 * ReadTime + 2 * PauseTime <= KeepAlive
    BY KeepAliveAssumption DEF Spent, Round
  <2> QED
    BY <2>1, <2>2, Quantities DEF SilenceInv, Paused, Unseen, Longest
<1> QED
  BY <1>1, TimesInvariant, TypeCorrect, PTL

-----------------------------------------------------------------------------
(* The timers: lists and their chains.                                     *)

Chain(l, s, n) ==
  /\ n \in Nat /\ s \in [0 .. n -> Places] /\ s[0] = Head
  /\ \A i \in 1 .. n : s[i] \in Timers
  /\ \A i \in 0 .. n - 1 : l[s[i]] = s[i + 1]
  /\ l[s[n]] = Null
  /\ \A i, j \in 0 .. n : s[i] = s[j] => i = j

Members(s, n) == {s[i] : i \in 1 .. n}

\* A function of the timers never falls along a chain.
Ascends(s, n, f) == \A i, j \in 1 .. n : i <= j => f[s[i]] <= f[s[j]]

Links == [Places -> Timers \cup {Null}]

Less == {p \in Nat \X Nat : p[1] < p[2]}

\* A set of numbers has a least one.
LEMMA Least ==
  ASSUME NEW T, T \subseteq Nat, T # {}
  PROVE  \E m \in T : \A k \in T : m <= k
<1>1. IsWellFoundedOn(Less, Nat)
  BY NatLessThanWellFounded, Zenon DEF Less, OpToRel
<1>2. PICK m \in T : \A k \in T : ~ (<<k, m>> \in Less)
  BY <1>1, WFMin
<1>3. \A k \in T : ~ (k < m) /\ k \in Nat /\ m \in Nat
  BY <1>2 DEF Less
<1> QED
  BY <1>3

\* The operator Min finds it.
LEMMA MinIsLeast ==
  ASSUME NEW T, T \subseteq Nat, T # {}
  PROVE  Min(T) \in T /\ \A k \in T : Min(T) <= k
<1>1. \E m \in T : \A k \in T : m <= k
  BY Least
<1> QED
  BY <1>1 DEF Min

\* A list without repetition is no longer than there are timers.
LEMMA ChainBound ==
  ASSUME NEW l, NEW s, NEW n, Chain(l, s, n)
  PROVE  n <= Cardinality(Timers) /\ Cardinality(Timers) \in Nat
<1> DEFINE f == [i \in 1 .. n |-> s[i]]
<1>1. n \in Nat /\ f \in Injection(1 .. n, Timers)
  BY DEF Chain, Injection, IsInjective
<1>2. Cardinality(1 .. n) <= Cardinality(Timers)
  BY <1>1, FS_Injection, TimerAssumption
<1>3. Cardinality(1 .. n) = n
  BY <1>1, FS_Interval
<1>4. Cardinality(Timers) \in Nat
  BY FS_CardinalityType, TimerAssumption
<1> QED
  BY <1>2, <1>3, <1>4

\* On a chain the walk is its sequence, and Null behind the end.
LEMMA WalkChain ==
  ASSUME NEW l, NEW s, NEW n, Chain(l, s, n)
  PROVE  \A i \in 0 .. Cardinality(Timers) + 1 :
           Walk(l)[i] = IF i <= n THEN s[i] ELSE Null
<1> DEFINE S == 0 .. Cardinality(Timers) + 1
           Body(f) == [i \in S |-> IF i = 0 THEN Head
                                   ELSE IF f[i - 1] = Null THEN Null ELSE l[f[i - 1]]]
           g == [i \in S |-> IF i <= n THEN s[i] ELSE Null]
           w == Walk(l)
<1>1. n \in Nat /\ Cardinality(Timers) \in Nat /\ n <= Cardinality(Timers)
  BY ChainBound DEF Chain
<1>2. g = Body(g)
  <2> SUFFICES ASSUME NEW i \in S PROVE g[i] = Body(g)[i]
    BY Zenon
  <2>1. CASE i = 0
    BY <2>1, <1>1 DEF Chain
  <2>2. CASE i \in 1 .. n
    <3>1. i - 1 \in S /\ i - 1 \in 0 .. n - 1 /\ i - 1 <= n /\ i - 1 + 1 = i
      BY <2>2, <1>1
    <3>2. g[i - 1] = s[i - 1] /\ s[i - 1] # Null /\ g[i] = s[i]
      BY <3>1, <2>2, <1>1, TimerAssumption DEF Chain, Places
    <3>3. l[s[i - 1]] = s[i]
      BY <3>1 DEF Chain
    <3> QED
      BY <3>1, <3>2, <3>3, <2>2
  <2>3. CASE i = n + 1
    <3>1. i - 1 = n /\ n \in S
      BY <2>3, <1>1
    <3>2. g[n] = s[n] /\ g[i] = Null /\ l[s[n]] = Null
      BY <3>1, <2>3, <1>1 DEF Chain
    <3> QED
      BY <3>1, <3>2, <2>3, <1>1
  <2>4. CASE i > n + 1
    <3>1. i - 1 \in S /\ ~(i - 1 <= n) /\ ~(i <= n) /\ i # 0
      BY <2>4, <1>1
    <3> QED
      BY <3>1
  <2> QED
    BY <2>1, <2>2, <2>3, <2>4, <1>1
<1>3. w = Body(w)
  <2>1. w = CHOOSE f : f = Body(f)
    BY Zenon DEF Walk
  <2>2. \E f : f = Body(f)
    BY <1>2, Zenon
  <2> HIDE DEF Body, w
  <2> QED
    BY <2>1, <2>2, Zenon
<1>4. SUFFICES ASSUME NEW k \in S, w[k] # g[k] PROVE FALSE
  BY Zenon
<1> DEFINE T == {i \in S : w[i] # g[i]}
<1>5. T \subseteq Nat /\ T # {}
  BY <1>4, <1>1
<1>6. PICK m \in T : \A i \in T : m <= i
  BY <1>5, Least, Zenon
<1> HIDE DEF w
<1>7. m \in S /\ w[m] = Body(w)[m] /\ g[m] = Body(g)[m] /\ w[m] # g[m]
  BY <1>2, <1>3, <1>6, Zenon
<1>8. m # 0
  BY <1>7
<1>9. m - 1 \in S /\ ~ (m <= m - 1)
  BY <1>7, <1>8, <1>1
<1>10. w[m - 1] = g[m - 1]
  BY <1>6, <1>9
<1> HIDE DEF g
<1> QED
  BY <1>7, <1>10

\* The timers on a list are the members of its chain.
LEMMA ListedChain ==
  ASSUME NEW l, NEW s, NEW n, Chain(l, s, n)
  PROVE  Listed(l) = Members(s, n)
<1> DEFINE C == Cardinality(Timers)
<1>1. n \in Nat /\ C \in Nat /\ n <= C
  BY ChainBound DEF Chain
<1>2. \A i \in 1 .. n : s[i] \in Timers /\ s[i] # Null
  BY TimerAssumption DEF Chain
<1>3. \A i \in 1 .. C : Walk(l)[i] = IF i <= n THEN s[i] ELSE Null
  BY <1>1, WalkChain
<1>4. Listed(l) \subseteq Members(s, n)
  <2> SUFFICES ASSUME NEW i \in 1 .. C, Walk(l)[i] # Null PROVE Walk(l)[i] \in Members(s, n)
    BY DEF Listed
  <2>1. i \in 1 .. n /\ Walk(l)[i] = s[i]
    BY <1>1, <1>3
  <2> QED
    BY <2>1 DEF Members
<1>5. Members(s, n) \subseteq Listed(l)
  <2> SUFFICES ASSUME NEW i \in 1 .. n PROVE s[i] \in Listed(l)
    BY DEF Members
  <2>1. i \in 1 .. C /\ Walk(l)[i] = s[i] /\ s[i] # Null
    BY <1>1, <1>2, <1>3
  <2> QED
    BY <2>1 DEF Listed
<1> QED
  BY <1>4, <1>5

\* Where a place points tells it from every other place on the list.
LEMMA OnePointsThere ==
  ASSUME NEW l, NEW s, NEW n, Chain(l, s, n),
         NEW i \in 0 .. n, NEW j \in 0 .. n, l[s[i]] = l[s[j]]
  PROVE  i = j
<1>1. n \in Nat
  BY DEF Chain
<1>2. \A k \in 0 .. n : k # n => k \in 0 .. n - 1 /\ k + 1 \in 0 .. n /\ k + 1 \in 1 .. n
  BY <1>1
<1>3. \A k \in 0 .. n : k # n => l[s[k]] = s[k + 1] /\ s[k + 1] # Null
  BY <1>2, TimerAssumption DEF Chain
<1>4. l[s[n]] = Null
  BY DEF Chain
<1>5. CASE i = n \/ j = n
  BY <1>3, <1>4, <1>5
<1>6. CASE i # n /\ j # n
  <2>1. s[i + 1] = s[j + 1] /\ i + 1 \in 0 .. n /\ j + 1 \in 0 .. n
    BY <1>2, <1>3, <1>6
  <2>2. i + 1 = j + 1
    BY <2>1 DEF Chain
  <2> QED
    BY <2>2, <1>1
<1> QED
  BY <1>5, <1>6

\* Timer t behind place p taken off a list, and the k-th off a chain.
Unlinked(l, p, t) == [l EXCEPT ![p] = l[t]]

Cut(s, n, k) == [i \in 0 .. n - 1 |-> IF i < k THEN s[i] ELSE s[i + 1]]

\* Removal of the k-th timer of a list: what pointed at it points behind it.
LEMMA RemovedAt ==
  ASSUME NEW l \in Links, NEW s, NEW n, Chain(l, s, n), NEW k \in 1 .. n
  PROVE  /\ Unlinked(l, s[k - 1], s[k]) \in Links
         /\ Chain(Unlinked(l, s[k - 1], s[k]), Cut(s, n, k), n - 1)
         /\ Members(Cut(s, n, k), n - 1) = Members(s, n) \ {s[k]}
         /\ \A f : Ascends(s, n, f) => Ascends(Cut(s, n, k), n - 1, f)
<1> DEFINE r == [l EXCEPT ![s[k - 1]] = l[s[k]]]
           s2 == [i \in 0 .. n - 1 |-> IF i < k THEN s[i] ELSE s[i + 1]]
<1>1. n \in Nat /\ n # 0 /\ n - 1 \in Nat /\ k \in Nat /\ k - 1 \in 0 .. n /\ k \in 0 .. n
  BY DEF Chain
<1>2. \A i \in 0 .. n : s[i] \in Places
  BY DEF Chain
<1>3. r \in Links
  BY <1>1, <1>2 DEF Links
<1>4. \A i \in 0 .. n : r[s[i]] = IF i = k - 1 THEN l[s[k]] ELSE l[s[i]]
  BY <1>1, <1>2 DEF Links, Chain
<1>5. Chain(r, s2, n - 1)
  <2>1. s2 \in [0 .. n - 1 -> Places] /\ s2[0] = Head
    BY <1>1, <1>2 DEF Chain
  <2>2. \A i \in 1 .. n - 1 : s2[i] \in Timers
    BY <1>1 DEF Chain
  <2>3. ASSUME NEW i \in 0 .. n - 1 - 1 PROVE r[s2[i]] = s2[i + 1]
    <3>1. CASE i < k - 1
      <4>1. i \in 0 .. n - 1 /\ i + 1 < k /\ i < k /\ i # k - 1 /\ i + 1 \in 0 .. n - 1 /\ i \in 0 .. n
        BY <3>1, <1>1
      <4>2. l[s[i]] = s[i + 1]
        BY <4>1 DEF Chain
      <4> QED
        BY <4>1, <4>2, <1>4
    <3>2. CASE i = k - 1
      <4>1. i \in 0 .. n - 1 /\ ~(i + 1 < k) /\ i < k /\ i + 1 \in 0 .. n - 1 /\ i \in 0 .. n
            /\ k \in 0 .. n - 1 /\ i + 1 + 1 = k + 1
        BY <3>2, <1>1
      <4>2. l[s[k]] = s[k + 1]
        BY <4>1 DEF Chain
      <4> QED
        BY <4>1, <4>2, <1>4, <3>2
    <3>3. CASE i > k - 1
      <4>1. i \in 0 .. n - 1 /\ ~(i < k) /\ ~(i + 1 < k) /\ i + 1 # k - 1 /\ i + 1 \in 0 .. n - 1
            /\ i + 1 \in 0 .. n
        BY <3>3, <1>1
      <4>2. l[s[i + 1]] = s[i + 1 + 1]
        BY <4>1 DEF Chain
      <4> QED
        BY <4>1, <4>2, <1>4
    <3> QED
      BY <3>1, <3>2, <3>3, <1>1
  <2>4. r[s2[n - 1]] = Null
    <3>1. CASE k = n
      <4>1. s2[n - 1] = s[n - 1] /\ n - 1 \in 0 .. n /\ n - 1 = k - 1
        BY <3>1, <1>1
      <4> QED
        BY <4>1, <1>4, <3>1 DEF Chain
    <3>2. CASE k # n
      <4>1. s2[n - 1] = s[n] /\ n \in 0 .. n /\ n # k - 1
        BY <3>2, <1>1
      <4> QED
        BY <4>1, <1>4 DEF Chain
    <3> QED
      BY <3>1, <3>2
  <2>5. ASSUME NEW i \in 0 .. n - 1, NEW j \in 0 .. n - 1, s2[i] = s2[j] PROVE i = j
    <3> DEFINE old(x) == IF x < k THEN x ELSE x + 1
    <3>1. old(i) \in 0 .. n /\ old(j) \in 0 .. n /\ s2[i] = s[old(i)] /\ s2[j] = s[old(j)]
      BY <1>1
    <3>2. old(i) = old(j)
      BY <3>1, <2>5 DEF Chain
    <3> QED
      BY <3>2, <1>1
  <2> HIDE DEF s2
  <2> QED
    BY <1>1, <2>1, <2>2, <2>3, <2>4, <2>5 DEF Chain
<1>6. Members(s2, n - 1) = Members(s, n) \ {s[k]}
  <2>1. ASSUME NEW i \in 1 .. n - 1 PROVE s2[i] \in Members(s, n) \ {s[k]}
    <3>1. CASE i < k
      <4>1. i \in 1 .. n /\ i # k /\ s2[i] = s[i] /\ i \in 0 .. n
        BY <3>1, <1>1
      <4> QED
        BY <4>1, <1>1 DEF Members, Chain
    <3>2. CASE ~(i < k)
      <4>1. i + 1 \in 1 .. n /\ i + 1 # k /\ s2[i] = s[i + 1] /\ i + 1 \in 0 .. n
        BY <3>2, <1>1
      <4> QED
        BY <4>1, <1>1 DEF Members, Chain
    <3> QED
      BY <3>1, <3>2
  <2>2. ASSUME NEW i \in 1 .. n, s[i] # s[k] PROVE s[i] \in Members(s2, n - 1)
    <3>1. CASE i < k
      <4>1. i \in 1 .. n - 1 /\ s2[i] = s[i]
        BY <3>1, <1>1
      <4> QED
        BY <4>1 DEF Members
    <3>2. CASE i > k
      <4>1. i - 1 \in 1 .. n - 1 /\ i - 1 \in 0 .. n - 1 /\ ~(i - 1 < k) /\ i - 1 + 1 = i
        BY <3>2, <1>1
      <4> QED
        BY <4>1 DEF Members
    <3> QED
      BY <3>1, <3>2, <2>2, <1>1
  <2> QED
    BY <2>1, <2>2 DEF Members
<1>7. ASSUME NEW f, Ascends(s, n, f) PROVE Ascends(s2, n - 1, f)
  <2> SUFFICES ASSUME NEW i \in 1 .. n - 1, NEW j \in 1 .. n - 1, i <= j
               PROVE f[s2[i]] <= f[s2[j]]
    BY DEF Ascends
  <2> DEFINE old(x) == IF x < k THEN x ELSE x + 1
  <2>1. old(i) \in 1 .. n /\ old(j) \in 1 .. n /\ s2[i] = s[old(i)] /\ s2[j] = s[old(j)]
        /\ old(i) <= old(j)
    BY <1>1
  <2> QED
    BY <2>1, <1>7 DEF Ascends
<1> QED
  BY <1>3, <1>5, <1>6, <1>7 DEF Unlinked, Cut

\* MultiTimerStop: what is left is a list of the other timers in the same order.
\* The timer taken off keeps its next field, and so does every place that did
\* not point at it.
LEMMA WithoutChain ==
  ASSUME NEW l \in Links, NEW s, NEW n, Chain(l, s, n), NEW t \in Timers
  PROVE  LET r == Without(l, t)
         IN /\ r \in Links
            /\ r[t] = l[t]
            /\ \A q \in Places : l[q] # t => r[q] = l[q]
            /\ \A q \in {Head} \cup Members(s, n) : l[q] = t => r[q] = l[t]
            /\ \E s2, m : /\ Chain(r, s2, m)
                          /\ Members(s2, m) = Members(s, n) \ {t}
                          /\ \A f : Ascends(s, n, f) => Ascends(s2, m, f)
<1> DEFINE r == Without(l, t)
<1>1. Listed(l) = Members(s, n)
  BY ListedChain
<1>2. CASE t \notin Members(s, n)
  <2>1. r = l
    BY <1>1, <1>2 DEF Without
  <2>2. \A q \in {Head} \cup Members(s, n) : l[q] # t
    <3>1. n \in Nat
      BY DEF Chain
    <3>2. \A i \in 0 .. n : l[s[i]] # t
      <4> SUFFICES ASSUME NEW i \in 0 .. n PROVE l[s[i]] # t
        OBVIOUS
      <4>1. CASE i = n
        BY <4>1, TimerAssumption DEF Chain
      <4>2. CASE i # n
        <5>1. i \in 0 .. n - 1 /\ i + 1 \in 1 .. n
          BY <4>2, <3>1
        <5>2. l[s[i]] = s[i + 1]
          BY <5>1 DEF Chain
        <5> QED
          BY <5>1, <5>2, <1>2 DEF Members
      <4> QED
        BY <4>1, <4>2
    <3>3. \A q \in {Head} \cup Members(s, n) : \E i \in 0 .. n : q = s[i]
      BY <3>1 DEF Members, Chain
    <3> QED
      BY <3>2, <3>3
  <2>3. Members(s, n) = Members(s, n) \ {t}
    BY <1>2
  <2> QED
    BY <2>1, <2>2, <2>3
<1>3. CASE t \in Members(s, n)
  <2>1. PICK k \in 1 .. n : s[k] = t
    BY <1>3 DEF Members
  <2>2. n \in Nat /\ k \in 0 .. n /\ k - 1 \in 0 .. n /\ k - 1 # k /\ k - 1 \in 0 .. n - 1 /\ k - 1 + 1 = k
    BY <2>1 DEF Chain
  <2>3. l[s[k - 1]] = t
    BY <2>1, <2>2 DEF Chain
  <2>4. \A q \in {Head} \cup Members(s, n) : \E i \in 0 .. n : q = s[i]
    BY <2>2 DEF Members, Chain
  <2>5. ASSUME NEW q \in {Head} \cup Members(s, n), l[q] = t PROVE q = s[k - 1]
    <3>1. PICK i \in 0 .. n : q = s[i]
      BY <2>4
    <3> QED
      BY <3>1, <2>5, <2>2, <2>3, OnePointsThere
  <2>6. s[k - 1] \in {Head} \cup Members(s, n)
    <3>1. k - 1 = 0 \/ k - 1 \in 1 .. n
      BY <2>2
    <3> QED
      BY <3>1 DEF Members, Chain
  <2>7. (CHOOSE p \in {Head} \cup Members(s, n) : l[p] = t) = s[k - 1]
    BY <2>3, <2>5, <2>6
  <2>8. r = Unlinked(l, s[k - 1], s[k])
    BY <1>1, <1>3, <2>1, <2>7 DEF Without, Unlinked
  <2> DEFINE s2 == Cut(s, n, k)
  <2>9. /\ r \in Links
        /\ Chain(r, s2, n - 1)
        /\ Members(s2, n - 1) = Members(s, n) \ {t}
        /\ \A f : Ascends(s, n, f) => Ascends(s2, n - 1, f)
    BY <2>8, <2>1, RemovedAt
  <2>10. s[k - 1] \in Places /\ s[k - 1] # t /\ t \in Places
    BY <2>1, <2>2 DEF Chain, Places
  <2> HIDE DEF s2
  <2>11. r[t] = l[t] /\ r[s[k - 1]] = l[t] /\ \A q \in Places : q # s[k - 1] => r[q] = l[q]
    BY <2>8, <2>10, <2>1 DEF Links, Unlinked
  <2>12. \A q \in Places : l[q] # t => r[q] = l[q]
    BY <2>11, <2>3
  <2>13. \A q \in {Head} \cup Members(s, n) : l[q] = t => r[q] = l[t]
    BY <2>11, <2>5
  <2> QED
    BY <2>9, <2>11, <2>12, <2>13
<1> QED
  BY <1>2, <1>3

\* Timer t behind place p of a list, and behind the k-th of a chain.
Linked(l, p, t) == [l EXCEPT ![p] = t, ![t] = l[p]]

Spliced(s, n, k, t) ==
  [i \in 0 .. n + 1 |-> IF i <= k THEN s[i] ELSE IF i = k + 1 THEN t ELSE s[i - 1]]

\* The place MultiTimerStart finds: all in front of it is due no later, and what
\* follows is due later.
LEMMA InsertedWhere ==
  ASSUME NEW l \in Links, NEW s, NEW n, Chain(l, s, n), NEW t, NEW d \in Nat,
         deadline \in [Timers -> Nat]
  PROVE  \E k \in 0 .. n :
           /\ Inserted(l, t, d) = Linked(l, s[k], t)
           /\ \A i \in 1 .. k : deadline[s[i]] <= d
           /\ k # n => d < deadline[s[k + 1]]
<1> DEFINE C == Cardinality(Timers)
           k == Min(Stops(l, d))
<1>1. n \in Nat /\ C \in Nat /\ n <= C
  BY ChainBound DEF Chain
<1>2. \A i \in 0 .. C : Walk(l)[i] = IF i <= n THEN s[i] ELSE Null
  BY <1>1, WalkChain
<1>3. \A i \in 0 .. n : s[i] \in Places /\ s[i] # Null
  BY TimerAssumption DEF Chain, Places
<1>4. \A i \in 0 .. C : i \in Stops(l, d) <=>
        i <= n /\ (l[s[i]] = Null \/ d < deadline[l[s[i]]])
  BY <1>1, <1>2, <1>3 DEF Stops
<1>5. Stops(l, d) \subseteq 0 .. C
  BY DEF Stops
<1>6. n \in Stops(l, d)
  BY <1>1, <1>4 DEF Chain
<1>7. k \in Stops(l, d) /\ \A i \in Stops(l, d) : k <= i
  BY <1>5, <1>6, MinIsLeast
<1>8. k \in 0 .. n
  BY <1>1, <1>4, <1>5, <1>6, <1>7
<1>9. Inserted(l, t, d) = Linked(l, s[k], t)
  <2>1. Walk(l)[k] = s[k]
    BY <1>1, <1>2, <1>8
  <2> QED
    BY <2>1 DEF Inserted, Linked
<1> HIDE DEF k
<1>10. ASSUME NEW i \in 1 .. k PROVE deadline[s[i]] <= d
  <2>1. i - 1 \in 0 .. C /\ i - 1 \in 0 .. n - 1 /\ ~(k <= i - 1) /\ i - 1 + 1 = i /\ i \in 1 .. n
    BY <1>1, <1>8
  <2>2. l[s[i - 1]] = s[i] /\ s[i] \in Timers /\ s[i] # Null
    BY <2>1, TimerAssumption DEF Chain
  <2>3. i - 1 \notin Stops(l, d)
    BY <1>7, <2>1
  <2>4. ~(d < deadline[s[i]])
    BY <1>4, <1>1, <2>1, <2>2, <2>3
  <2> QED
    BY <2>2, <2>4
<1>11. ASSUME k # n PROVE d < deadline[s[k + 1]]
  <2>1. k \in 0 .. n - 1 /\ k + 1 \in 1 .. n
    BY <1>8, <1>1, <1>11
  <2>2. l[s[k]] = s[k + 1] /\ s[k + 1] # Null
    BY <2>1, TimerAssumption DEF Chain
  <2> QED
    BY <1>4, <1>5, <1>7, <2>2
<1> QED
  BY <1>8, <1>9, <1>10, <1>11

\* Insertion of a timer behind the k-th of a list without it.
LEMMA InsertedAt ==
  ASSUME NEW l \in Links, NEW s, NEW n, Chain(l, s, n),
         NEW t \in Timers \ Members(s, n), NEW k \in 0 .. n
  PROVE  /\ Linked(l, s[k], t) \in Links
         /\ Chain(Linked(l, s[k], t), Spliced(s, n, k, t), n + 1)
         /\ Members(Spliced(s, n, k, t), n + 1) = Members(s, n) \cup {t}
<1> DEFINE r == [l EXCEPT ![s[k]] = t, ![t] = l[s[k]]]
           s2 == [i \in 0 .. n + 1 |-> IF i <= k THEN s[i]
                                       ELSE IF i = k + 1 THEN t ELSE s[i - 1]]
<1>1. n \in Nat /\ n + 1 \in Nat /\ k \in Nat
  BY DEF Chain
<1>2. \A i \in 0 .. n : s[i] \in Places /\ s[i] # t
  BY <1>1, TimerAssumption DEF Chain, Members
<1>3. t \in Places /\ l[s[k]] \in Timers \cup {Null}
  BY <1>2 DEF Places, Links
<1>4. r \in Links
  BY <1>2, <1>3 DEF Links
<1>5. r[t] = l[s[k]] /\ \A i \in 0 .. n : r[s[i]] = IF i = k THEN t ELSE l[s[i]]
  <2>1. \A i \in 0 .. n : s[i] = s[k] <=> i = k
    BY DEF Chain
  <2> QED
    BY <1>2, <1>3, <2>1 DEF Links
<1> HIDE DEF r
<1>6. Chain(r, s2, n + 1)
  <2>1. s2 \in [0 .. n + 1 -> Places] /\ s2[0] = Head
    <3>1. \A i \in 0 .. n + 1 : s2[i] \in Places
      BY <1>1, <1>2, <1>3
    <3> QED
      BY <3>1, <1>1 DEF Chain
  <2>2. \A i \in 1 .. n + 1 : s2[i] \in Timers
    BY <1>1 DEF Chain
  <2>3. ASSUME NEW i \in 0 .. n + 1 - 1 PROVE r[s2[i]] = s2[i + 1]
    <3>1. CASE i < k
      <4>1. i \in 0 .. n - 1 /\ i \in 0 .. n /\ i + 1 <= k /\ i <= k /\ i + 1 \in 0 .. n + 1 /\ i \in 0 .. n + 1 /\ i # k
        BY <3>1, <1>1
      <4>2. l[s[i]] = s[i + 1]
        BY <4>1 DEF Chain
      <4> QED
        BY <4>1, <4>2, <1>5
    <3>2. CASE i = k
      <4>1. i \in 0 .. n + 1 /\ i + 1 \in 0 .. n + 1 /\ i <= k /\ ~(i + 1 <= k)
        BY <3>2, <1>1
      <4> QED
        BY <4>1, <3>2, <1>5
    <3>3. CASE i = k + 1
      <4>1. i \in 0 .. n + 1 /\ i + 1 \in 0 .. n + 1 /\ ~(i <= k) /\ ~(i + 1 <= k) /\ i + 1 # k + 1
            /\ i + 1 - 1 = k + 1 /\ k \in 0 .. n - 1
        BY <3>3, <1>1
      <4>2. l[s[k]] = s[k + 1]
        BY <4>1 DEF Chain
      <4> QED
        BY <4>1, <4>2, <3>3, <1>5
    <3>4. CASE i > k + 1
      <4>1. i \in 0 .. n + 1 /\ i + 1 \in 0 .. n + 1 /\ ~(i <= k) /\ ~(i + 1 <= k) /\ i + 1 # k + 1 /\ i # k + 1
            /\ i + 1 - 1 = i /\ i - 1 \in 0 .. n - 1 /\ i - 1 + 1 = i /\ i - 1 \in 0 .. n /\ i - 1 # k
        BY <3>4, <1>1
      <4>2. l[s[i - 1]] = s[i]
        BY <4>1 DEF Chain
      <4> QED
        BY <4>1, <4>2, <1>5
    <3> QED
      BY <3>1, <3>2, <3>3, <3>4, <1>1
  <2>4. r[s2[n + 1]] = Null
    <3>1. l[s[n]] = Null /\ n \in 0 .. n
      BY <1>1 DEF Chain
    <3>2. CASE k = n
      <4>1. s2[n + 1] = t
        BY <3>2, <1>1
      <4> QED
        BY <4>1, <1>5, <3>1, <3>2
    <3>3. CASE k # n
      <4>1. s2[n + 1] = s[n]
        BY <3>3, <1>1
      <4> QED
        BY <4>1, <1>5, <3>1, <3>3
    <3> QED
      BY <3>2, <3>3
  <2>5. ASSUME NEW i \in 0 .. n + 1, NEW j \in 0 .. n + 1, s2[i] = s2[j] PROVE i = j
    <3> DEFINE old(x) == IF x <= k THEN x ELSE x - 1
    <3>1. CASE i = k + 1 \/ j = k + 1
      <4>1. \A x \in 0 .. n + 1 : x # k + 1 => s2[x] # t
        BY <1>1, <1>2
      <4>2. s2[k + 1] = t
        BY <1>1
      <4> QED
        BY <3>1, <4>1, <4>2, <2>5
    <3>2. CASE i # k + 1 /\ j # k + 1
      <4>1. old(i) \in 0 .. n /\ old(j) \in 0 .. n /\ s2[i] = s[old(i)] /\ s2[j] = s[old(j)]
        BY <1>1, <3>2
      <4>2. old(i) = old(j)
        BY <4>1, <2>5 DEF Chain
      <4> QED
        BY <4>2, <1>1, <3>2
    <3> QED
      BY <3>1, <3>2
  <2> HIDE DEF s2
  <2> QED
    BY <1>1, <2>1, <2>2, <2>3, <2>4, <2>5 DEF Chain
<1>7. Members(s2, n + 1) = Members(s, n) \cup {t}
  <2>1. ASSUME NEW i \in 1 .. n + 1 PROVE s2[i] \in Members(s, n) \cup {t}
    BY <1>1 DEF Members
  <2>2. ASSUME NEW i \in 1 .. n PROVE s[i] \in Members(s2, n + 1)
    <3>1. CASE i <= k
      <4>1. i \in 1 .. n + 1 /\ s2[i] = s[i]
        BY <3>1, <1>1
      <4> QED
        BY <4>1 DEF Members
    <3>2. CASE i > k
      <4>1. i + 1 \in 1 .. n + 1 /\ s2[i + 1] = s[i]
        BY <3>2, <1>1
      <4> QED
        BY <4>1 DEF Members
    <3> QED
      BY <3>1, <3>2, <1>1
  <2>3. t \in Members(s2, n + 1)
    <3>1. k + 1 \in 1 .. n + 1 /\ s2[k + 1] = t
      BY <1>1
    <3> QED
      BY <3>1 DEF Members
  <2> QED
    BY <2>1, <2>2, <2>3 DEF Members
<1> QED
  BY <1>4, <1>6, <1>7 DEF r, Linked, Spliced

-----------------------------------------------------------------------------
(* A start of a timer, and the clock.                                      *)




\* The deadline stays the same distance ahead as the clock advances.
LEMMA OneCloser ==
  ASSUME NEW m \in Nat \ {0}, NEW x \in 0 .. m - 1, NEW e \in 1 .. m
  PROVE  (((x + 1) % m) + (e - 1)) % m = (x + e) % m
<1>1. CASE x + 1 < m
  <2>1. (x + 1) % m = x + 1
    BY <1>1, ModSmall
  <2> QED
    BY <2>1
<1>2. CASE x + 1 = m
  <2>1. (x + 1) % m = 0
    BY <1>2, ModAbove
  <2>2. (e - 1) % m = e - 1
    BY ModSmall
  <2>3. (x + e) % m = x + e - m
    BY <1>2, ModAbove
  <2> QED
    BY <2>1, <2>2, <2>3, <1>2
<1> QED
  BY <1>1, <1>2

\* A deadline at most half the range ahead is seen to be ahead.
LEMMA AheadIsNotYet ==
  ASSUME NEW m \in Nat \ {0}, NEW x \in 0 .. m - 1, NEW e \in 1 .. (m \div 2)
  PROVE  (x + m - ((x + e) % m)) % m > m \div 2 - 1
<1>0. m \div 2 \in Nat /\ 2 * (m \div 2) <= m
  OBVIOUS
<1>1. CASE x + e < m
  <2>1. (x + e) % m = x + e
    BY <1>0, <1>1, ModSmall
  <2>2. (m - e) % m = m - e
    BY <1>0, ModSmall
  <2>3. x + m - (x + e) = m - e
    BY <1>0
  <2> QED
    BY <1>0, <2>1, <2>2, <2>3
<1>2. CASE x + e >= m
  <2>0. x + e \in m .. 2 * m - 1
    BY <1>0, <1>2
  <2> DEFINE y == x + e
  <2>4. y \in m .. 2 * m - 1
    BY <2>0
  <2> HIDE DEF y
  <2>5. y % m = y - m
    BY <2>4, ModAbove
  <2>1. (x + e) % m = x + e - m
    BY <2>5 DEF y
  <2>2. x + m - (x + e - m) = 2 * m - e
    BY <1>0
  <2>3. (2 * m - e) % m = m - e
    BY <1>0, ModAbove
  <2> QED
    BY <1>0, <2>1, <2>2, <2>3
<1> QED
  BY <1>0, <1>1, <1>2

\* MultiTimerStart: the list has the timer as well, wherever it was before; a
\* list in order stays in order; and a place on it that is due no later than
\* the timer points at some timer then.
LEMMA StartedChain ==
  ASSUME NEW l \in Links, NEW s, NEW n, Chain(l, s, n), NEW t \in Timers,
         NEW delay \in Nat, ticks \in TickValues, deadline \in [Timers -> TickValues],
         Started(l, t, delay)
  PROVE  /\ link' \in Links
         /\ deadline' \in [Timers -> TickValues]
         /\ \E s2, m : /\ Chain(link', s2, m)
                       /\ Members(s2, m) = Members(s, n) \cup {t}
                       /\ Ascends(s, n, deadline) => Ascends(s2, m, deadline')
         /\ Ascends(s, n, deadline) =>
              \A q \in {Head} \cup Members(s, n) :
                q # t /\ (q = Head \/ deadline[q] <= deadline'[t]) => link'[q] # Null
<1> DEFINE d == (ticks + delay) % Modulus
           w == Without(l, t)
<1>1. d \in TickValues /\ TickValues \subseteq Nat
  BY ModRange, TimerAssumption DEF TickValues
<1>2. deadline' = [deadline EXCEPT ![t] = d] /\ link' = Inserted(w, t, d)
  BY DEF Started
<1> HIDE DEF d
<1>3. deadline' \in [Timers -> TickValues] /\ deadline'[t] = d
      /\ \A u \in Timers : u # t => deadline'[u] = deadline[u]
  BY <1>1, <1>2
<1>4. w \in Links
  BY WithoutChain
<1>5. PICK s1, n1 : /\ Chain(w, s1, n1)
                    /\ Members(s1, n1) = Members(s, n) \ {t}
                    /\ \A f : Ascends(s, n, f) => Ascends(s1, n1, f)
  BY WithoutChain
<1> HIDE DEF w
<1>6. n1 \in Nat /\ \A i \in 1 .. n1 : s1[i] \in Timers /\ s1[i] # t /\ s1[i] \in Members(s1, n1)
  BY <1>5 DEF Members, Chain
<1>7. PICK k \in 0 .. n1 : /\ Inserted(w, t, d) = Linked(w, s1[k], t)
                           /\ \A i \in 1 .. k : deadline[s1[i]] <= d
                           /\ k # n1 => d < deadline[s1[k + 1]]
  <2>1. deadline \in [Timers -> Nat] /\ d \in Nat
    BY <1>1
  <2> QED
    BY <1>4, <1>5, <2>1, InsertedWhere
<1> DEFINE s2 == Spliced(s1, n1, k, t)
<1>8. /\ link' \in Links
      /\ Chain(link', s2, n1 + 1)
      /\ Members(s2, n1 + 1) = Members(s1, n1) \cup {t}
  <2>1. t \in Timers \ Members(s1, n1) /\ Chain(w, s1, n1)
    BY <1>5
  <2>2. link' = Linked(w, s1[k], t)
    BY <1>2, <1>7
  <2> QED
    BY <1>4, <2>1, <2>2, InsertedAt
<1>9. Members(s2, n1 + 1) = Members(s, n) \cup {t}
  BY <1>5, <1>8
<1>10. ASSUME Ascends(s, n, deadline) PROVE Ascends(s2, n1 + 1, deadline')
  <2>0. Ascends(s1, n1, deadline)
    BY <1>5, <1>10
  <2> DEFINE v(i) == IF i = k + 1 THEN d ELSE IF i <= k THEN deadline[s1[i]] ELSE deadline[s1[i - 1]]
  <2>1. \A i \in 1 .. n1 + 1 : deadline'[s2[i]] = v(i)
    BY <1>3, <1>6 DEF Spliced
  <2>2. \A i \in 1 .. n1 : deadline[s1[i]] \in Nat
    BY <1>1, <1>6
  <2>3. \A i \in k + 1 .. n1 : d <= deadline[s1[i]]
    <3> SUFFICES ASSUME NEW i \in k + 1 .. n1 PROVE d <= deadline[s1[i]]
      OBVIOUS
    <3>1. k # n1 /\ k + 1 \in 1 .. n1 /\ i \in 1 .. n1
      BY <1>6
    <3>2. deadline[s1[k + 1]] <= deadline[s1[i]]
      BY <2>0, <3>1 DEF Ascends
    <3> QED
      BY <1>1, <1>7, <2>2, <3>1, <3>2
  <2>4. ASSUME NEW i \in 1 .. n1 + 1, NEW j \in 1 .. n1 + 1, i <= j PROVE v(i) <= v(j)
    <3>1. CASE i = k + 1
      <4>1. CASE j = k + 1
        BY <3>1, <4>1, <1>1
      <4>2. CASE j # k + 1
        <5>1. j - 1 \in k + 1 .. n1 /\ ~(j <= k)
          BY <3>1, <4>2, <2>4, <1>6
        <5> QED
          BY <5>1, <3>1, <4>2, <2>3
      <4> QED
        BY <4>1, <4>2
    <3>2. CASE i <= k
      <4>1. i \in 1 .. k /\ i \in 1 .. n1 /\ i # k + 1
        BY <3>2, <1>6
      <4>2. deadline[s1[i]] <= d
        BY <4>1, <1>7
      <4>3. CASE j = k + 1
        BY <4>1, <4>2, <4>3, <3>2
      <4>4. CASE j <= k
        <5>1. j \in 1 .. n1 /\ j # k + 1
          BY <4>4, <1>6
        <5> QED
          BY <5>1, <4>1, <4>4, <3>2, <2>0, <2>4 DEF Ascends
      <4>5. CASE j > k + 1
        <5>1. j - 1 \in k + 1 .. n1 /\ ~(j <= k) /\ j # k + 1 /\ j - 1 \in 1 .. n1
          BY <4>5, <1>6
        <5>2. d <= deadline[s1[j - 1]]
          BY <5>1, <2>3
        <5> QED
          BY <5>1, <5>2, <4>1, <4>2, <3>2, <2>2, <1>1
      <4> QED
        BY <4>3, <4>4, <4>5, <1>6
    <3>3. CASE i > k + 1
      <4>1. i - 1 \in 1 .. n1 /\ j - 1 \in 1 .. n1 /\ i - 1 <= j - 1
            /\ ~(i <= k) /\ i # k + 1 /\ ~(j <= k) /\ j # k + 1
        BY <3>3, <2>4, <1>6
      <4> QED
        BY <4>1, <2>0 DEF Ascends
    <3> QED
      BY <3>1, <3>2, <3>3, <1>6
  <2> HIDE DEF v, s2
  <2> QED
    BY <2>1, <2>4 DEF Ascends
<1>11. ASSUME Ascends(s, n, deadline), NEW q \in {Head} \cup Members(s, n), q # t,
              q = Head \/ deadline[q] <= d
       PROVE  link'[q] # Null
  <2>0. Ascends(s1, n1, deadline)
    BY <1>5, <1>11
  <2>1. PICK i \in 0 .. n1 : q = s1[i]
    <3>1. q = Head \/ q \in Members(s1, n1)
      BY <1>5, <1>11
    <3>2. s1[0] = Head
      BY <1>5 DEF Chain
    <3> QED
      BY <3>1, <3>2, <1>6 DEF Members
  <2>2. s1[k] \in Places /\ q \in Places /\ t \in Places /\ t # Null
    BY <1>5, <2>1, TimerAssumption DEF Chain, Places
  <2>3. link'[q] = IF q = s1[k] THEN t ELSE w[q]
    BY <1>2, <1>4, <1>7, <1>11, <2>2 DEF Links, Linked
  <2>4. CASE i = n1 /\ k # n1
    <3>1. k + 1 \in 1 .. n1 /\ n1 \in 1 .. n1 /\ n1 # 0
      BY <2>4, <1>6
    <3>2. deadline[s1[k + 1]] <= deadline[s1[n1]]
      BY <3>1, <2>0, <1>6 DEF Ascends
    <3>3. q # Head
      BY <2>1, <2>4, <3>1, <1>6, TimerAssumption
    <3>4. deadline[s1[n1]] <= d
      BY <1>11, <2>1, <2>4, <3>3
    <3>5. d < deadline[s1[k + 1]]
      BY <1>7, <2>4
    <3>6. deadline[s1[k + 1]] \in Nat /\ deadline[s1[n1]] \in Nat
      BY <3>1, <1>1, <1>6
    <3> QED
      BY <3>2, <3>4, <3>5, <3>6, <1>1
  <2>5. CASE i = n1 /\ k = n1
    BY <2>1, <2>2, <2>3, <2>5
  <2>6. CASE i # n1
    <3>1. i \in 0 .. n1 - 1 /\ i + 1 \in 1 .. n1
      BY <2>6, <1>6
    <3>2. w[q] = s1[i + 1] /\ s1[i + 1] # Null
      BY <3>1, <2>1, <1>5, TimerAssumption DEF Chain
    <3> QED
      BY <2>2, <2>3, <3>2
  <2> QED
    BY <2>4, <2>5, <2>6
<1> HIDE DEF s2
<1> QED
  BY <1>3, <1>8, <1>9, <1>10, <1>11

-----------------------------------------------------------------------------
(* The inductive invariant.                                                *)

On == {t \in Timers : due[t] # Off}

\* The deadline of a timer is as far ahead as the user's time has still to run.
Times ==
  \A t \in On :
    due[t] <= Modulus \div 2 /\ (due[t] # 0 => deadline[t] = (ticks + due[t]) % Modulus)

\* Until the counter wraps, deadlines are plain numbers.
PlainTimes ==
  /\ setting.first <= ticks /\ ticks <= setting.last
  /\ \A t \in On : IF due[t] = 0 THEN deadline[t] <= ticks ELSE deadline[t] = ticks + due[t]

\* The list is a chain, in order of deadlines, whatever the callbacks do; and
\* of the timers that are on, if none of them stops the loop's place.
ListInv ==
  \E s, n : /\ Chain(link, s, n)
            /\ PlaceKept => Members(s, n) = On
            /\ ~Wraps => Ascends(s, n, deadline)

\* The loop's place is on the list, and is not the timer that runs.
PlaceInv ==
  /\ nextTimer \in {Head} \cup On
  /\ pc = "app" => nextTimer = Head
  /\ pc = "callback" => running \in Timers /\ running # nextTimer

\* While a callback runs, the place is one that was due, and when it is the last
\* of the list the loop will see that the timer it called points nowhere.
LoopInv ==
  /\ pc # "undefined"
  /\ pc = "callback" =>
       /\ nextTimer = Head \/ deadline[nextTimer] <= ticks
       /\ link[nextTimer] = Null => link[running] = Null

TimerInv ==
  /\ TimerTypeOK
  /\ Times
  /\ ~Wraps => PlainTimes
  /\ ListInv
  /\ PlaceKept => PlaceInv
  /\ ~Wraps /\ OwnOnly => LoopInv

\* Ranges, and what the kinds of behaviour imply.
LEMMA Ranges ==
  /\ Modulus \in Nat \ {0} /\ Modulus \div 2 \in Nat /\ Modulus \div 2 < Modulus
  /\ TickValues \subseteq Nat /\ Places = {Head} \cup Timers
  /\ Delays \subseteq 0 .. Modulus \div 2 /\ Periods \subseteq 0 .. Modulus \div 2
  /\ OwnOnly => PlaceKept
<1>1. Modulus \div 2 \in Nat /\ Modulus \div 2 < Modulus
  BY TimerAssumption
<1>2. OwnOnly => PlaceKept
  BY DEF OwnOnly, PlaceKept
<1> QED
  BY <1>1, <1>2, TimerAssumption DEF TickValues, Places

\* The kind of behaviour does not change.
LEMMA SameKind ==
  ASSUME setting' = setting
  PROVE  Wraps' = Wraps /\ PlaceKept' = PlaceKept /\ OwnOnly' = OwnOnly
  BY DEF Wraps, PlaceKept, OwnOnly

\* A place on a chain is one of its indices.
LEMMA OnChain ==
  ASSUME NEW l, NEW s, NEW n, Chain(l, s, n), NEW q \in {Head} \cup Members(s, n)
  PROVE  \E i \in 0 .. n : q = s[i]
  BY DEF Chain, Members

\* What a place of a chain points at follows it.
LEMMA NextOnChain ==
  ASSUME NEW l, NEW s, NEW n, Chain(l, s, n), NEW i \in 0 .. n, l[s[i]] # Null
  PROVE  i + 1 \in 1 .. n /\ l[s[i]] = s[i + 1] /\ s[i + 1] \in Members(s, n)
         /\ s[i + 1] \in Timers /\ s[i + 1] # s[i]
<1>1. n \in Nat /\ i # n
  BY DEF Chain
<1>2. i \in 0 .. n - 1 /\ i + 1 \in 1 .. n /\ i + 1 \in 0 .. n /\ i + 1 # i
  BY <1>1
<1> QED
  BY <1>2 DEF Chain, Members

\* MultiTimerStart, called with a time, on any list: the deadline is that far ahead.
LEMMA StartedTimes ==
  ASSUME TimerInv, NEW l, NEW t \in Timers, NEW delay \in Delays \cup Periods,
         Started(l, t, delay), UNCHANGED <<ticks, setting>>
  PROVE  /\ deadline' \in [Timers -> TickValues] /\ due' \in [Timers -> 0 .. Modulus]
         /\ deadline'[t] = (ticks + delay) % Modulus
         /\ On' = On \cup {t}
         /\ Times'
         /\ ~Wraps => PlainTimes' /\ deadline'[t] = ticks + delay
<1> DEFINE d == (ticks + delay) % Modulus
<1>1. delay \in 0 .. Modulus \div 2 /\ ticks \in TickValues /\ ticks \in Nat
  BY Ranges DEF TimerInv, TimerTypeOK
<1>2. d \in TickValues
  BY <1>1, Ranges, ModRange DEF TickValues
<1>3. deadline \in [Timers -> TickValues] /\ due \in [Timers -> 0 .. Modulus]
  BY DEF TimerInv, TimerTypeOK
<1>4. deadline' = [deadline EXCEPT ![t] = d] /\ due' = [due EXCEPT ![t] = delay]
  BY DEF Started
<1> HIDE DEF d
<1>5. /\ deadline' \in [Timers -> TickValues] /\ due' \in [Timers -> 0 .. Modulus]
      /\ deadline'[t] = d /\ due'[t] = delay
      /\ \A u \in Timers : u # t => deadline'[u] = deadline[u] /\ due'[u] = due[u]
  BY <1>1, <1>2, <1>3, <1>4, Ranges
<1>6. On' = On \cup {t}
  BY <1>1, <1>5, Ranges DEF On, Off
<1>7. Times'
  <2> SUFFICES ASSUME NEW u \in On'
               PROVE due'[u] <= Modulus \div 2
                     /\ (due'[u] # 0 => deadline'[u] = (ticks + due'[u]) % Modulus)
    BY DEF Times
  <2>1. CASE u = t
    BY <2>1, <1>1, <1>5 DEF d
  <2>2. CASE u # t
    <3>1. u \in On /\ u \in Timers
      BY <2>2, <1>6 DEF On
    <3> QED
      BY <2>2, <3>1, <1>5 DEF TimerInv, Times
  <2> QED
    BY <2>1, <2>2
<1>8. ASSUME ~Wraps PROVE PlainTimes' /\ d = ticks + delay
  <2>1. PlainTimes
    BY <1>8 DEF TimerInv
  <2>2. setting.last \in Nat /\ setting.first \in Nat
    BY TimerAssumption DEF TimerInv, TimerTypeOK
  <2>3. ticks + delay < Modulus
    BY <1>1, <1>8, <2>1, <2>2, Ranges DEF Wraps, PlainTimes
  <2>4. d = ticks + delay
    BY <1>1, <2>3, Ranges, ModSmall DEF d
  <2>5. ASSUME NEW u \in On'
        PROVE IF due'[u] = 0 THEN deadline'[u] <= ticks ELSE deadline'[u] = ticks + due'[u]
    <3>1. CASE u = t
      BY <3>1, <1>1, <1>5, <2>4
    <3>2. CASE u # t
      <4>1. u \in On /\ u \in Timers
        BY <3>2, <1>6 DEF On
      <4> QED
        BY <3>2, <4>1, <1>5, <2>1 DEF PlainTimes
    <3> QED
      BY <3>1, <3>2
  <2> QED
    BY <2>1, <2>4, <2>5 DEF PlainTimes
<1> QED
  BY <1>5, <1>6, <1>7, <1>8 DEF d

\* Start keeps the invariant.
LEMMA StartInv ==
  ASSUME TimerInv, NEW t \in Timers, NEW delay \in Delays, Start(t, delay)
  PROVE  TimerInv'
<1>1. /\ Started(link, t, delay)
      /\ UNCHANGED <<ticks, period, pc, nextTimer, running, setting>>
      /\ MayCall("start", t)
  BY DEF Start
<1>2. TimerTypeOK /\ delay \in Nat /\ link \in Links /\ ticks \in TickValues /\ ticks \in Nat
      /\ deadline \in [Timers -> TickValues]
  BY Ranges DEF TimerInv, TimerTypeOK, Links
<1>3. /\ deadline' \in [Timers -> TickValues] /\ due' \in [Timers -> 0 .. Modulus]
      /\ On' = On \cup {t} /\ Times'
      /\ ~Wraps => PlainTimes' /\ deadline'[t] = ticks + delay
  BY <1>1, StartedTimes
<1>4. PICK s, n : /\ Chain(link, s, n)
                  /\ PlaceKept => Members(s, n) = On
                  /\ ~Wraps => Ascends(s, n, deadline)
  BY DEF TimerInv, ListInv
<1>5. /\ link' \in Links
      /\ \E s2, m : /\ Chain(link', s2, m)
                    /\ Members(s2, m) = Members(s, n) \cup {t}
                    /\ Ascends(s, n, deadline) => Ascends(s2, m, deadline')
      /\ Ascends(s, n, deadline) =>
           \A q \in {Head} \cup Members(s, n) :
             q # t /\ (q = Head \/ deadline[q] <= deadline'[t]) => link'[q] # Null
  BY <1>1, <1>2, <1>4, StartedChain
<1>6. Wraps' = Wraps /\ PlaceKept' = PlaceKept /\ OwnOnly' = OwnOnly
  BY <1>1, SameKind
<1>7. TimerTypeOK'
  BY <1>1, <1>2, <1>3, <1>5 DEF TimerTypeOK, Links
<1>8. ListInv'
  BY <1>3, <1>4, <1>5, <1>6 DEF ListInv
<1>9. PlaceKept => PlaceInv'
  BY <1>1, <1>3 DEF TimerInv, PlaceInv
<1>10. ASSUME ~Wraps, OwnOnly PROVE LoopInv'
  <2>1. LoopInv /\ PlaceInv /\ Members(s, n) = On /\ Ascends(s, n, deadline)
    BY <1>10, <1>4, Ranges DEF TimerInv
  <2>2. ASSUME pc = "callback"
        PROVE  (nextTimer = Head \/ deadline'[nextTimer] <= ticks) /\ link'[nextTimer] # Null
    <3>1. t = running
      BY <1>1, <1>10, <2>2 DEF MayCall, Relation, OwnOnly
    <3>2. nextTimer # t /\ nextTimer \in {Head} \cup On
      BY <2>1, <2>2, <3>1 DEF PlaceInv
    <3>3. nextTimer # Head => nextTimer \in Timers /\ deadline'[nextTimer] = deadline[nextTimer]
      BY <1>1, <1>2, <3>2 DEF Started, On
    <3>4. nextTimer = Head \/ deadline[nextTimer] <= deadline'[t]
      <4>1. nextTimer = Head \/ (deadline[nextTimer] <= ticks /\ deadline[nextTimer] \in Nat)
        BY <1>2, <2>1, <2>2, <3>3, Ranges DEF LoopInv
      <4>2. deadline'[t] = ticks + delay
        BY <1>3, <1>10
      <4> QED
        BY <4>1, <4>2, <1>2
    <3> QED
      BY <1>5, <2>1, <2>2, <3>2, <3>3, <3>4 DEF LoopInv
  <2> QED
    BY <1>1, <2>1, <2>2 DEF LoopInv
<1> QED
  BY <1>3, <1>6, <1>7, <1>8, <1>9, <1>10 DEF TimerInv

\* Stop keeps the invariant.
LEMMA StopInv ==
  ASSUME TimerInv, NEW t \in Timers, Stop(t)
  PROVE  TimerInv'
<1>1. /\ link' = Without(link, t) /\ due' = [due EXCEPT ![t] = Off]
      /\ UNCHANGED <<ticks, deadline, period, pc, nextTimer, running, setting>>
      /\ MayCall("stop", t)
  BY DEF Stop
<1>2. TimerTypeOK /\ link \in Links /\ due \in [Timers -> 0 .. Modulus]
  BY DEF TimerInv, TimerTypeOK, Links
<1>3. /\ due' \in [Timers -> 0 .. Modulus] /\ due'[t] = Off
      /\ \A u \in Timers : u # t => due'[u] = due[u]
  BY <1>1, <1>2, Ranges DEF Off
<1>4. On' = On \ {t}
  BY <1>3 DEF On, Off
<1>5. PICK s, n : /\ Chain(link, s, n)
                  /\ PlaceKept => Members(s, n) = On
                  /\ ~Wraps => Ascends(s, n, deadline)
  BY DEF TimerInv, ListInv
<1>6. /\ link' \in Links
      /\ link'[t] = link[t]
      /\ \A q \in Places : link[q] # t => link'[q] = link[q]
      /\ \A q \in {Head} \cup Members(s, n) : link[q] = t => link'[q] = link[t]
      /\ \E s2, m : /\ Chain(link', s2, m)
                    /\ Members(s2, m) = Members(s, n) \ {t}
                    /\ \A f : Ascends(s, n, f) => Ascends(s2, m, f)
  BY <1>1, <1>2, <1>5, WithoutChain
<1>7. Wraps' = Wraps /\ PlaceKept' = PlaceKept /\ OwnOnly' = OwnOnly
  BY <1>1, SameKind
<1>8. TimerTypeOK'
  BY <1>1, <1>2, <1>3, <1>6 DEF TimerTypeOK, Links
<1>9. ListInv'
  BY <1>1, <1>4, <1>5, <1>6, <1>7 DEF ListInv
<1>10. Times' /\ (~Wraps => PlainTimes')
  <2>1. Times /\ (~Wraps => PlainTimes)
    BY DEF TimerInv
  <2>2. \A u \in On' : u \in On /\ u \in Timers /\ due'[u] = due[u]
    BY <1>3, <1>4 DEF On
  <2> QED
    BY <1>1, <2>1, <2>2 DEF Times, PlainTimes
<1>11. ASSUME PlaceKept PROVE PlaceInv'
  <2>1. PlaceInv
    BY <1>11 DEF TimerInv
  <2>2. nextTimer = Head \/ nextTimer # t
    <3>1. CASE pc = "app"
      BY <3>1, <2>1 DEF PlaceInv
    <3>2. CASE pc = "callback" /\ <<"stop", Relation(t)>> \in setting.callbacks
      <4>1. Relation(t) # "place"
        BY <3>2, <1>11 DEF PlaceKept
      <4> QED
        BY <3>2, <4>1, <2>1 DEF Relation, PlaceInv
    <3> QED
      BY <1>1, <3>1, <3>2 DEF MayCall
  <2> QED
    BY <1>1, <1>4, <2>1, <2>2 DEF PlaceInv
<1>12. ASSUME ~Wraps, OwnOnly PROVE LoopInv'
  <2>1. LoopInv /\ PlaceInv /\ Members(s, n) = On
    BY <1>12, <1>5, Ranges DEF TimerInv
  <2>2. ASSUME pc = "callback", link'[nextTimer] = Null PROVE link'[running] = Null
    <3>1. t = running
      BY <1>1, <1>12, <2>2 DEF MayCall, Relation, OwnOnly
    <3>2. nextTimer \in {Head} \cup Members(s, n) /\ nextTimer \in Places
      BY <2>1, <1>2 DEF PlaceInv, TimerTypeOK
    <3>3. CASE link[nextTimer] = t
      BY <3>1, <3>2, <3>3, <1>6, <2>2
    <3>4. CASE link[nextTimer] # t
      BY <3>1, <3>2, <3>4, <1>6, <2>1, <2>2 DEF LoopInv
    <3> QED
      BY <3>3, <3>4
  <2> QED
    BY <1>1, <2>1, <2>2 DEF LoopInv
<1> QED
  BY <1>7, <1>8, <1>9, <1>10, <1>11, <1>12 DEF TimerInv

\* The timer the loop calls is on the list behind the loop's place, is not the
\* timer whose next field that is, and its time has come.
LEMMA ExpiredIsDue ==
  ASSUME TimerInv, PlaceKept, pc = "yield", link[nextTimer] # Null, ~NotYet(link[nextTimer])
  PROVE  /\ link[nextTimer] \in On /\ link[nextTimer] # nextTimer /\ nextTimer \in {Head} \cup On
         /\ due[link[nextTimer]] = 0
<1> DEFINE t == link[nextTimer]
<1>1. PICK s, n : Chain(link, s, n) /\ Members(s, n) = On
  BY DEF TimerInv, ListInv
<1>2. nextTimer \in {Head} \cup Members(s, n)
  BY <1>1 DEF TimerInv, PlaceInv
<1>3. PICK i \in 0 .. n : nextTimer = s[i]
  BY <1>1, <1>2, OnChain
<1>4. t \in On /\ t # nextTimer
  BY <1>1, <1>3, NextOnChain
<1>5. ticks \in 0 .. Modulus - 1 /\ due[t] \in 0 .. Modulus /\ due[t] <= Modulus \div 2
  BY <1>4 DEF TimerInv, TimerTypeOK, TickValues, Times, On
<1>6. ASSUME due[t] # 0 PROVE FALSE
  <2>1. due[t] \in 1 .. (Modulus \div 2) /\ deadline[t] = (ticks + due[t]) % Modulus
    BY <1>4, <1>5, <1>6, Ranges DEF TimerInv, Times
  <2>2. (ticks + Modulus - ((ticks + due[t]) % Modulus)) % Modulus > Modulus \div 2 - 1
    BY <1>5, <2>1, Ranges, AheadIsNotYet
  <2>3. NotYet(t)
    BY <2>1, <2>2, Zenon DEF NotYet
  <2> QED
    BY <2>3
<1> QED
  BY <1>1, <1>2, <1>4, <1>6

\* The loop takes the timer behind its place off the list: what is left is a
\* list in the same order, whether the place was on it or not.
LEMMA TakenOff ==
  ASSUME link \in Links, nextTimer \in Places, link[nextTimer] \in Timers,
         NEW s, NEW n, Chain(link, s, n)
  PROVE  LET l == [link EXCEPT ![nextTimer] = link[link[nextTimer]]]
         IN /\ l \in Links
            /\ \E s1, m : /\ Chain(l, s1, m)
                          /\ nextTimer \in {Head} \cup Members(s, n) =>
                               Members(s1, m) = Members(s, n) \ {link[nextTimer]}
                          /\ \A f : Ascends(s, n, f) => Ascends(s1, m, f)
<1> DEFINE l == [link EXCEPT ![nextTimer] = link[link[nextTimer]]]
<1>1. link[link[nextTimer]] \in Timers \cup {Null}
  BY DEF Links, Places
<1>2. l \in Links /\ l[nextTimer] = link[link[nextTimer]] /\ \A q \in Places : q # nextTimer => l[q] = link[q]
  BY <1>1 DEF Links
<1>3. CASE nextTimer \in {Head} \cup Members(s, n)
  <2>1. PICK i \in 0 .. n : nextTimer = s[i]
    BY <1>3, OnChain
  <2>2. i + 1 \in 1 .. n /\ link[nextTimer] = s[i + 1] /\ i + 1 - 1 = i
    <3>1. link[s[i]] # Null
      BY <2>1, TimerAssumption
    <3>2. n \in Nat
      BY DEF Chain
    <3> QED
      BY <2>1, <3>1, <3>2, NextOnChain
  <2> DEFINE k == i + 1
             s2 == Cut(s, n, k)
  <2>3. k \in 1 .. n /\ s[k] = link[nextTimer] /\ s[k - 1] = nextTimer
    BY <2>1, <2>2
  <2> HIDE DEF k
  <2>4. l = Unlinked(link, s[k - 1], s[k])
    BY <2>3 DEF Unlinked
  <2> HIDE DEF l
  <2>6. /\ Chain(l, s2, n - 1)
        /\ Members(s2, n - 1) = Members(s, n) \ {link[nextTimer]}
        /\ \A f : Ascends(s, n, f) => Ascends(s2, n - 1, f)
    BY <2>3, <2>4, RemovedAt
  <2>7. \E s1, m : /\ Chain(l, s1, m)
                   /\ nextTimer \in {Head} \cup Members(s, n) =>
                        Members(s1, m) = Members(s, n) \ {link[nextTimer]}
                   /\ \A f : Ascends(s, n, f) => Ascends(s1, m, f)
    BY <2>6, Zenon
  <2> QED
    BY <1>2, <2>7 DEF l
<1>4. CASE nextTimer \notin {Head} \cup Members(s, n)
  <2>1. \A i \in 0 .. n : s[i] \in Places /\ s[i] # nextTimer
    <3>1. n \in Nat /\ s[0] = Head
      BY DEF Chain
    <3>2. \A i \in 0 .. n : i = 0 \/ i \in 1 .. n
      BY <3>1
    <3> QED
      BY <1>4, <3>1, <3>2 DEF Chain, Members
  <2>2. \A i \in 0 .. n : l[s[i]] = link[s[i]]
    BY <1>2, <2>1
  <2>3. Chain(l, s, n)
    <3>1. n \in Nat /\ n \in 0 .. n /\ 0 .. n - 1 \subseteq 0 .. n
      BY DEF Chain
    <3> HIDE DEF l
    <3> QED
      BY <2>2, <3>1 DEF Chain
  <2> QED
    BY <1>2, <1>4, <2>3
<1> QED
  BY <1>3, <1>4

\* The loop calls a timer and keeps the invariant.
LEMMA ExpireInv ==
  ASSUME TimerInv, Expire
  PROVE  TimerInv'
<1> DEFINE t == link[nextTimer]
           l == [link EXCEPT ![nextTimer] = link[t]]
<1>1. /\ pc = "yield" /\ t # Null /\ ~NotYet(t)
      /\ pc' = "callback" /\ running' = t
      /\ \/ period[t] # 0 /\ Started(l, t, period[t])
         \/ /\ period[t] = 0
            /\ link' = l /\ due' = [due EXCEPT ![t] = Off] /\ deadline' = deadline
      /\ UNCHANGED <<ticks, period, nextTimer, setting>>
  BY DEF Expire
<1>2. TimerTypeOK /\ link \in Links /\ ticks \in TickValues /\ ticks \in Nat /\ nextTimer \in Places
      /\ deadline \in [Timers -> TickValues] /\ due \in [Timers -> 0 .. Modulus]
  BY Ranges DEF TimerInv, TimerTypeOK, Links
<1>3. t \in Timers /\ t \in Places /\ period[t] \in Periods /\ period[t] \in Nat
  <2>1. t \in Timers
    BY <1>1, <1>2 DEF Links
  <2>2. period[t] \in Periods
    BY <2>1, <1>2 DEF TimerTypeOK
  <2>3. period[t] \in Nat
    <3>1. period[t] \in 0 .. Modulus \div 2
      BY <2>2, Ranges, Zenon
    <3> QED
      BY <3>1, Ranges
  <2>4. t \in Places
    BY <2>1 DEF Places
  <2> QED
    BY <2>1, <2>2, <2>3, <2>4
<1>4. PICK s, n : /\ Chain(link, s, n)
                  /\ PlaceKept => Members(s, n) = On
                  /\ ~Wraps => Ascends(s, n, deadline)
  BY DEF TimerInv, ListInv
<1>5. l \in Links /\ l[nextTimer] = link[t] /\ \A q \in Places : q # nextTimer => l[q] = link[q]
  BY <1>2, <1>3 DEF Links
<1>6. PICK s1, m : /\ Chain(l, s1, m)
                   /\ nextTimer \in {Head} \cup Members(s, n) => Members(s1, m) = Members(s, n) \ {t}
                   /\ \A f : Ascends(s, n, f) => Ascends(s1, m, f)
  BY <1>2, <1>3, <1>4, TakenOff
<1> HIDE DEF l
<1>7. PlaceKept => /\ t \in On /\ t # nextTimer /\ nextTimer \in {Head} \cup On
                   /\ due[t] = 0
                   /\ Members(s1, m) = On \ {t}
  BY <1>1, <1>4, <1>6, ExpiredIsDue
<1>8. Wraps' = Wraps /\ PlaceKept' = PlaceKept /\ OwnOnly' = OwnOnly
  BY <1>1, SameKind
<1>9. ASSUME ~Wraps, OwnOnly
      PROVE  /\ LoopInv /\ PlaceKept /\ Ascends(s1, m, deadline)
             /\ nextTimer = Head \/ (nextTimer \in Timers /\ deadline[nextTimer] <= ticks /\ deadline[nextTimer] \in Nat)
  <2>1. LoopInv /\ PlaceKept /\ PlaceInv /\ PlainTimes /\ Ascends(s, n, deadline) /\ Members(s, n) = On
    BY <1>9, <1>4, Ranges DEF TimerInv
  <2>2. deadline[t] <= ticks
    BY <1>7, <2>1 DEF PlainTimes
  <2>3. ASSUME nextTimer # Head PROVE nextTimer \in Timers /\ deadline[nextTimer] <= ticks /\ deadline[nextTimer] \in Nat
    <3>1. PICK i \in 0 .. n : nextTimer = s[i]
      BY <1>4, <1>7, <2>1, OnChain
    <3>2. i + 1 \in 1 .. n /\ t = s[i + 1] /\ n \in Nat /\ s[0] = Head
      BY <1>1, <1>4, <3>1, NextOnChain DEF Chain
    <3>3. i \in 1 .. n /\ i <= i + 1
      BY <2>3, <3>1, <3>2
    <3>4. deadline[nextTimer] <= deadline[t] /\ nextTimer \in Timers
      BY <2>1, <3>1, <3>2, <3>3, <1>4 DEF Ascends, Chain
    <3>5. deadline[nextTimer] \in Nat /\ deadline[t] \in Nat
      BY <1>2, <1>3, <3>4, Ranges
    <3> QED
      BY <2>2, <3>4, <3>5, <1>2
  <2> QED
    BY <1>6, <2>1, <2>3
<1>10. CASE period[t] # 0 /\ Started(l, t, period[t])
  <2>1. /\ deadline' \in [Timers -> TickValues] /\ due' \in [Timers -> 0 .. Modulus]
        /\ On' = On \cup {t} /\ Times'
        /\ ~Wraps => PlainTimes' /\ deadline'[t] = ticks + period[t]
    <3>1. period[t] \in Delays \cup Periods /\ UNCHANGED <<ticks, setting>>
      BY <1>1, <1>3
    <3> QED
      BY <1>3, <1>10, <3>1, StartedTimes
  <2>2. /\ link' \in Links
        /\ \E s2, m2 : /\ Chain(link', s2, m2)
                       /\ Members(s2, m2) = Members(s1, m) \cup {t}
                       /\ Ascends(s1, m, deadline) => Ascends(s2, m2, deadline')
        /\ Ascends(s1, m, deadline) =>
             \A q \in {Head} \cup Members(s1, m) :
               q # t /\ (q = Head \/ deadline[q] <= deadline'[t]) => link'[q] # Null
    BY <1>2, <1>3, <1>5, <1>6, <1>10, StartedChain
  <2>3. TimerTypeOK'
    BY <1>1, <1>2, <1>3, <2>1, <2>2 DEF TimerTypeOK, Links
  <2>4. ListInv'
    <3>1. PICK s2, m2 : /\ Chain(link', s2, m2)
                        /\ Members(s2, m2) = Members(s1, m) \cup {t}
                        /\ Ascends(s1, m, deadline) => Ascends(s2, m2, deadline')
      BY <2>2
    <3>2. PlaceKept => Members(s2, m2) = On'
      BY <1>7, <2>1, <3>1
    <3>3. ~Wraps => Ascends(s2, m2, deadline')
      BY <1>4, <1>6, <3>1
    <3> QED
      BY <3>1, <3>2, <3>3, <1>8 DEF ListInv
  <2>5. PlaceKept => PlaceInv'
    BY <1>1, <1>3, <1>7, <2>1 DEF PlaceInv
  <2>6. ASSUME ~Wraps, OwnOnly PROVE LoopInv'
    <3>1. /\ LoopInv /\ PlaceKept /\ Ascends(s1, m, deadline)
          /\ nextTimer = Head \/ (nextTimer \in Timers /\ deadline[nextTimer] <= ticks /\ deadline[nextTimer] \in Nat)
      BY <1>9, <2>6
    <3>2. nextTimer \in {Head} \cup Members(s1, m) /\ nextTimer # t
      BY <1>7, <3>1
    <3>3. deadline'[t] = ticks + period[t]
      BY <2>1, <2>6
    <3>4. nextTimer = Head \/ deadline[nextTimer] <= deadline'[t]
      BY <3>1, <3>3, <1>2, <1>3
    <3>5. link'[nextTimer] # Null
      BY <2>2, <3>1, <3>2, <3>4
    <3>6. nextTimer = Head \/ deadline'[nextTimer] <= ticks
      BY <1>2, <1>10, <3>1, <3>2 DEF Started
    <3> QED
      BY <1>1, <3>5, <3>6 DEF LoopInv
  <2> QED
    BY <2>1, <2>3, <2>4, <2>5, <2>6, <1>8 DEF TimerInv
<1>11. CASE period[t] = 0 /\ link' = l /\ due' = [due EXCEPT ![t] = Off] /\ deadline' = deadline
  <2>1. /\ due' \in [Timers -> 0 .. Modulus] /\ due'[t] = Off
        /\ \A u \in Timers : u # t => due'[u] = due[u]
    BY <1>2, <1>3, <1>11, Ranges DEF Off
  <2>2. On' = On \ {t}
    BY <2>1 DEF On, Off
  <2>3. TimerTypeOK'
    BY <1>1, <1>2, <1>3, <1>5, <1>11, <2>1 DEF TimerTypeOK, Links
  <2>4. Times' /\ (~Wraps => PlainTimes')
    <3>1. Times /\ (~Wraps => PlainTimes)
      BY DEF TimerInv
    <3>2. \A u \in On' : u \in On /\ u \in Timers /\ due'[u] = due[u]
      BY <2>1, <2>2 DEF On
    <3> QED
      BY <1>1, <1>11, <3>1, <3>2 DEF Times, PlainTimes
  <2>5. ListInv'
    <3>1. PlaceKept => Members(s1, m) = On'
      BY <1>7, <2>2
    <3>2. ~Wraps => Ascends(s1, m, deadline')
      BY <1>4, <1>6, <1>11
    <3> QED
      BY <3>1, <3>2, <1>6, <1>8, <1>11 DEF ListInv
  <2>6. PlaceKept => PlaceInv'
    BY <1>1, <1>3, <1>7, <2>2 DEF PlaceInv
  <2>7. ASSUME ~Wraps, OwnOnly PROVE LoopInv'
    <3>1. PlaceKept /\ (nextTimer = Head \/ deadline[nextTimer] <= ticks)
      BY <1>9, <2>7
    <3>2. link'[nextTimer] = link[t] /\ link'[t] = link[t]
      BY <1>3, <1>5, <1>7, <1>11, <3>1
    <3> QED
      BY <1>1, <1>11, <3>1, <3>2 DEF LoopInv
  <2> QED
    BY <2>3, <2>4, <2>5, <2>6, <2>7, <1>8 DEF TimerInv
<1> QED
  BY <1>1, <1>10, <1>11

\* The clock advances and keeps the invariant.
LEMMA TickInv ==
  ASSUME TimerInv, Tick
  PROVE  TimerInv'
<1>1. /\ pc # "undefined" /\ ticks # setting.last
      /\ ticks' = (ticks + 1) % Modulus
      /\ due' = [t \in Timers |-> IF due[t] \in {0, Off} THEN due[t] ELSE due[t] - 1]
      /\ UNCHANGED <<link, deadline, period, pc, nextTimer, running, setting>>
  BY DEF Tick
<1>2. /\ TimerTypeOK /\ ticks \in 0 .. Modulus - 1 /\ ticks \in Nat
      /\ due \in [Timers -> 0 .. Modulus] /\ deadline \in [Timers -> TickValues]
  BY Ranges DEF TimerInv, TimerTypeOK, TickValues
<1>3. ticks' \in TickValues
  BY <1>1, <1>2, ModRange, Ranges DEF TickValues
<1>4. \A t \in Timers : due'[t] = IF due[t] \in {0, Off} THEN due[t] ELSE due[t] - 1
  BY <1>1
<1>5. due' \in [Timers -> 0 .. Modulus]
  BY <1>1, <1>2, Ranges DEF Off
<1>6. On' = On
  BY <1>2, <1>4, Ranges DEF On, Off
<1>7. \A t \in On : t \in Timers /\ due[t] \in 0 .. Modulus - 1
                    /\ due'[t] = IF due[t] = 0 THEN 0 ELSE due[t] - 1
  BY <1>2, <1>4, Ranges DEF On, Off
<1>8. TimerTypeOK'
  BY <1>1, <1>2, <1>3, <1>5 DEF TimerTypeOK
<1>9. Times'
  <2> SUFFICES ASSUME NEW t \in On
               PROVE /\ due'[t] <= Modulus \div 2
                     /\ due'[t] # 0 => deadline[t] = (ticks' + due'[t]) % Modulus
    BY <1>1, <1>6 DEF Times
  <2>1. due[t] <= Modulus \div 2 /\ (due[t] # 0 => deadline[t] = (ticks + due[t]) % Modulus)
    BY DEF TimerInv, Times
  <2>2. due'[t] <= Modulus \div 2
    BY <2>1, <1>7, Ranges
  <2>3. ASSUME due'[t] # 0 PROVE deadline[t] = (ticks' + due'[t]) % Modulus
    <3>1. due[t] \in 1 .. Modulus /\ due'[t] = due[t] - 1
      BY <1>7, <2>3, Ranges
    <3>2. (((ticks + 1) % Modulus) + (due[t] - 1)) % Modulus = (ticks + due[t]) % Modulus
      BY <1>2, <3>1, OneCloser, Ranges
    <3>3. deadline[t] = (ticks + due[t]) % Modulus
      BY <2>1, <3>1
    <3> QED
      BY <1>1, <3>1, <3>2, <3>3
  <2> QED
    BY <2>2, <2>3
<1>10. Wraps' = Wraps /\ PlaceKept' = PlaceKept /\ OwnOnly' = OwnOnly
  BY <1>1, SameKind
<1>11. ASSUME ~Wraps PROVE PlainTimes' /\ ticks' = ticks + 1
  <2>1. PlainTimes
    BY <1>11 DEF TimerInv
  <2>2. setting.last \in 0 .. Modulus - 1 /\ setting.first \in Nat
    BY <1>2, TimerAssumption DEF TimerTypeOK
  <2>3. ticks + 1 <= setting.last /\ setting.first <= ticks + 1 /\ ticks + 1 \in 0 .. Modulus - 1
    BY <1>1, <1>2, <2>1, <2>2, Ranges DEF PlainTimes
  <2>4. ticks' = ticks + 1
    BY <1>1, <2>3, Ranges, ModSmall
  <2>5. ASSUME NEW t \in On
        PROVE IF due'[t] = 0 THEN deadline[t] <= ticks' ELSE deadline[t] = ticks' + due'[t]
    <3>1. IF due[t] = 0 THEN deadline[t] <= ticks ELSE deadline[t] = ticks + due[t]
      BY <2>1 DEF PlainTimes
    <3>2. deadline[t] \in Nat
      BY <1>2, <1>7, Ranges
    <3> QED
      BY <1>2, <1>7, <2>4, <3>1, <3>2
  <2> QED
    BY <1>1, <1>6, <2>3, <2>4, <2>5 DEF PlainTimes
<1>12. ListInv' /\ (PlaceKept => PlaceInv')
  BY <1>1, <1>6, <1>10 DEF TimerInv, ListInv, PlaceInv
<1>13. ASSUME ~Wraps, OwnOnly PROVE LoopInv'
  <2>1. LoopInv /\ PlaceInv /\ ticks' = ticks + 1
    BY <1>11, <1>13, Ranges DEF TimerInv
  <2>2. ASSUME pc = "callback", nextTimer # Head PROVE deadline[nextTimer] <= ticks'
    <3>1. deadline[nextTimer] <= ticks /\ nextTimer \in Timers
      BY <2>1, <2>2 DEF LoopInv, PlaceInv, On
    <3>2. deadline[nextTimer] \in Nat
      BY <3>1, <1>2, Ranges
    <3> QED
      BY <2>1, <3>1, <3>2, <1>2
  <2> QED
    BY <1>1, <2>1, <2>2 DEF LoopInv
<1> QED
  BY <1>8, <1>9, <1>10, <1>11, <1>12, <1>13 DEF TimerInv

\* The loop begins, goes on and ends, and keeps the invariant.
LEMMA LoopStepInv ==
  ASSUME TimerInv, Yield \/ YieldReturns \/ Return \/ UNCHANGED tvars
  PROVE  TimerInv'
<1>1. UNCHANGED <<ticks, link, deadline, period, due, setting>>
  BY DEF Yield, YieldReturns, Return, tvars
<1>2. Wraps' = Wraps /\ PlaceKept' = PlaceKept /\ OwnOnly' = OwnOnly /\ On' = On
  BY <1>1, SameKind DEF On
<1>3. Times' /\ (~Wraps => PlainTimes') /\ ListInv'
  BY <1>1, <1>2 DEF TimerInv, Times, PlainTimes, ListInv
<1>4. TimerTypeOK'
  BY Ranges DEF TimerInv, TimerTypeOK, Yield, YieldReturns, Return, tvars
<1>5. ASSUME PlaceKept PROVE PlaceInv'
  <2>1. PlaceInv
    BY <1>5 DEF TimerInv
  <2>2. CASE Return
    <3>1. ASSUME link[nextTimer] # Null PROVE link[nextTimer] \in On
      <4>1. PICK s, n : Chain(link, s, n) /\ Members(s, n) = On
        BY <1>5 DEF TimerInv, ListInv
      <4>2. PICK i \in 0 .. n : nextTimer = s[i]
        BY <4>1, <2>1, OnChain DEF PlaceInv
      <4> QED
        BY <3>1, <4>1, <4>2, NextOnChain
    <3> QED
      BY <1>2, <2>2, <3>1 DEF Return, PlaceInv
  <2> QED
    BY <1>2, <2>1, <2>2 DEF Yield, YieldReturns, tvars, PlaceInv
<1>6. ASSUME ~Wraps, OwnOnly PROVE LoopInv'
  <2>1. LoopInv
    BY <1>6 DEF TimerInv
  <2> QED
    BY <1>1, <2>1 DEF Yield, YieldReturns, Return, tvars, LoopInv
<1> QED
  BY <1>2, <1>3, <1>4, <1>5, <1>6 DEF TimerInv

\* The program starts with an empty list.
LEMMA EmptyListInv == TimerInit => TimerInv
<1> SUFFICES ASSUME TimerInit PROVE TimerInv
  OBVIOUS
<1>1. 0 \in TickValues /\ 0 # Off /\ Off \in 0 .. Modulus
  BY Ranges DEF TickValues, Off
<1>2. setting \in Settings /\ setting.first \in TickValues
  BY TimerAssumption DEF TimerInit, TickValues
<1>3. On = {}
  BY DEF TimerInit, On
<1>4. TimerTypeOK
  BY <1>1, <1>2 DEF TimerInit, TimerTypeOK, Places
<1>5. Times
  BY <1>3 DEF Times
<1>6. ~Wraps => PlainTimes
  <2>1. setting.first \in Nat /\ setting.last \in Nat
    BY <1>2, TimerAssumption
  <2> QED
    BY <1>3, <2>1 DEF TimerInit, PlainTimes, Wraps
<1>7. ListInv
  <2> DEFINE s == [i \in 0 .. 0 |-> Head]
  <2>1. Chain(link, s, 0)
    BY DEF TimerInit, Chain, Places
  <2>2. Members(s, 0) = {} /\ Ascends(s, 0, deadline)
    BY DEF Members, Ascends
  <2> HIDE DEF s
  <2> QED
    BY <1>3, <2>1, <2>2 DEF ListInv
<1>8. PlaceInv /\ LoopInv
  BY DEF TimerInit, PlaceInv, LoopInv
<1> QED
  BY <1>4, <1>5, <1>6, <1>7, <1>8 DEF TimerInv

\* Every step keeps the invariant.
LEMMA TimerStep == TimerInv /\ [TimerNext]_tvars => TimerInv'
<1> SUFFICES ASSUME TimerInv, [TimerNext]_tvars PROVE TimerInv'
  OBVIOUS
<1>1. CASE \E t \in Timers : Stop(t)
  BY <1>1, StopInv
<1>2. CASE \E t \in Timers : \E delay \in Delays : Start(t, delay)
  BY <1>2, StartInv
<1>3. CASE Expire
  BY <1>3, ExpireInv
<1>4. CASE Tick
  BY <1>4, TickInv
<1>5. CASE Yield \/ YieldReturns \/ Return \/ UNCHANGED tvars
  BY <1>5, LoopStepInv
<1>6. CASE Undefined
  BY <1>6, LoopStepInv DEF Undefined
<1> QED
  BY <1>1, <1>2, <1>3, <1>4, <1>5, <1>6 DEF TimerNext

\* The list, its order, the deadlines and the loop's place, in every reachable
\* state.
THEOREM TimersInvariant == TimerSpec => []TimerInv
  BY EmptyListInv, TimerStep, PTL DEF TimerSpec

-----------------------------------------------------------------------------
(* What follows from it.                                                   *)

\* The list ends whatever the callbacks do; it is the one asked for, and in
\* order until the counter wraps, unless one stops the timer at the loop's place.
THEOREM ListIsSound == TimerSpec => []ListSound
<1>1. TimerInv => ListSound
  <2> SUFFICES ASSUME TimerInv PROVE ListSound
    OBVIOUS
  <2>1. PICK s, n : /\ Chain(link, s, n)
                    /\ PlaceKept => Members(s, n) = On
                    /\ ~Wraps => Ascends(s, n, deadline)
    BY DEF TimerInv, ListInv
  <2>2. n \in Nat /\ n <= Cardinality(Timers) /\ Cardinality(Timers) \in Nat
    BY <2>1, ChainBound DEF Chain
  <2>3. ListEnds
    <3>1. Walk(link)[n] = s[n]
      BY <2>1, <2>2, WalkChain
    <3>2. s[n] # Null /\ link[s[n]] = Null
      BY <2>1, <2>2, TimerAssumption DEF Chain, Places
    <3> QED
      BY <2>2, <3>1, <3>2 DEF ListEnds
  <2>4. Listed(link) = Members(s, n)
    BY <2>1, ListedChain
  <2>5. ListIsWanted
    BY <2>1, <2>4 DEF ListIsWanted, On
  <2>6. Sorted
    <3> SUFFICES ASSUME PlaceKept, ~Wraps, NEW p \in Listed(link), link[p] # Null
                 PROVE  due[p] <= due[link[p]]
      BY DEF Sorted
    <3>1. PICK i \in 1 .. n : p = s[i]
      BY <2>4 DEF Members
    <3>2. i \in 0 .. n
      BY <3>1
    <3>3. i + 1 \in 1 .. n /\ link[p] = s[i + 1] /\ link[p] \in Members(s, n)
      BY <2>1, <3>1, <3>2, NextOnChain
    <3>4. deadline[p] <= deadline[link[p]]
      BY <2>1, <2>2, <3>1, <3>3 DEF Ascends
    <3>5. p \in On /\ link[p] \in On
      BY <2>1, <2>4, <3>3
    <3>6. PlainTimes
      BY DEF TimerInv
    <3>7. /\ due[p] \in Nat /\ due[link[p]] \in Nat /\ ticks \in Nat
          /\ deadline[p] \in Nat /\ deadline[link[p]] \in Nat
      <4>1. p \in Timers /\ link[p] \in Timers
        BY <3>5 DEF On
      <4>2. /\ due \in [Timers -> 0 .. Modulus] /\ deadline \in [Timers -> TickValues]
            /\ ticks \in TickValues
        BY DEF TimerInv, TimerTypeOK
      <4>3. ticks \in Nat /\ deadline[p] \in Nat /\ deadline[link[p]] \in Nat
        BY <4>1, <4>2, Ranges
      <4>4. due[p] \in 0 .. Modulus /\ due[link[p]] \in 0 .. Modulus
        BY <4>1, <4>2
      <4> QED
        BY <4>3, <4>4
    <3> QED
      BY <3>4, <3>5, <3>6, <3>7 DEF PlainTimes
  <2> QED
    BY <2>3, <2>5, <2>6 DEF ListSound
<1> QED
  BY <1>1, TimersInvariant, PTL

\* Until the counter wraps, and while callbacks touch their own timer alone, the
\* loop follows no null pointer.
THEOREM WalkIsDefined == TimerSpec => []WalkDefined
<1>1. TimerInv => WalkDefined
  BY DEF TimerInv, LoopInv, WalkDefined
<1> QED
  BY <1>1, TimersInvariant, PTL

\* No timer is called before its time, nor one that was stopped, also across
\* the wrap of the counter.
THEOREM NoneEarly == TimerSpec => NeverEarly
<1>1. TimerInv /\ [TimerNext]_tvars => [Expire /\ PlaceKept => due[link[nextTimer]] = 0]_tvars
  BY ExpiredIsDue DEF Expire
<1> QED
  BY <1>1, TimersInvariant, PTL DEF TimerSpec, NeverEarly
=============================================================================
