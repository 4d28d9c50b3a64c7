------------------------------ MODULE KeepAlive ------------------------------
(***************************************************************************)
(* coreMQTT's keep-alive under the daemon's schedule: MQTT_ProcessLoop     *)
(* runs for a while, main() reports and sleeps, and handleKeepAlive looks  *)
(* at the clock only when a read finds nothing.  Time is in whole units;   *)
(* the clock is the wrapping millisecond counter of system_ticks.          *)
(*                                                                         *)
(* TuyaLink lets a ping and its timeout happen at any idle iteration; this *)
(* module shows when they do.                                              *)
(***************************************************************************)
EXTENDS Integers

CONSTANTS
  KeepAlive,     \* keepAliveIntervalSec; 0 disables it
  PingTimeout,   \* MQTT_PINGRESP_TIMEOUT_MS
  LoopTime,      \* the time MQTT_ProcessLoop runs at least
  ReadTime,      \* the longest a read waits
  PauseTime,     \* the longest main() stays out of the loop
  Rtt,           \* the longest the broker takes to answer a ping
  MaxBurst,      \* reads in a row that find something else than an answer
  TickMod        \* 2^32: the clock wraps here

ASSUME KeepAliveAssumption ==
  /\ KeepAlive \in Nat /\ PingTimeout \in Nat /\ LoopTime \in Nat
  /\ ReadTime \in Nat /\ PauseTime \in Nat /\ MaxBurst \in Nat
  /\ Rtt \in Nat /\ Rtt <= KeepAlive /\ Rtt <= PingTimeout
  /\ TickMod \in Nat \ {0}

VARIABLES
  clock,
  lastPacketTime, pingReqSendTimeMs, waitingForPingResp,  \* MQTTContext_t
  at,        \* "loop": before a read; "pause": in main(); "down": no connection
  entry,     \* entryTimeMs of MQTT_ProcessLoop
  peer,      \* "up", or "gone" without a word
  answer, answerAge,   \* the PINGRESP: "none", "travelling" (how long) or "here"
  burst,     \* reads in a row that found something else
  silence,   \* time since the client sent its last CONNECT or PINGREQ
  gone       \* time since the peer went

wire  == <<peer, answer, answerAge>>
ping  == <<lastPacketTime, pingReqSendTimeMs, waitingForPingResp>>
vars  == <<clock, ping, at, entry, wire, burst, silence, gone>>

Ticks == 0 .. TickMod - 1

Init ==
  /\ clock \in Ticks
  /\ lastPacketTime = 0 /\ pingReqSendTimeMs = 0 /\ waitingForPingResp = FALSE
  /\ at = "down" /\ entry = 0
  /\ peer = "up" /\ answer = "none" /\ answerAge = 0
  /\ burst = 0 /\ silence = 0 /\ gone = 0

\* calculateElapsedTime: unsigned subtraction.
Elapsed(later, start) == (later - start) % TickMod

-----------------------------------------------------------------------------

Elapse(d) ==
  /\ clock' = (clock + d) % TickMod
  /\ gone' = IF peer = "gone" THEN gone + d ELSE 0

\* Another iteration, or back to main() when the time is over.
Continue == at' = IF Elapsed(clock', entry) >= LoopTime THEN "pause" ELSE "loop"

\* An answer on its way arrives within Rtt.
Travel(d) ==
  IF answer = "travelling"
    THEN /\ answerAge + d <= Rtt /\ answerAge' = answerAge + d
         /\ UNCHANGED answer
    ELSE UNCHANGED <<answer, answerAge>>

ConnectKeepsWaiting ==   \* variant: a connection inherits the last one's ping
  pingReqSendTimeMs' = 0 /\ UNCHANGED waitingForPingResp
ResetPing == pingReqSendTimeMs' = 0 /\ waitingForPingResp' = FALSE

\* MQTT_Connect, any time after the last connection was given up.
Connect ==
  /\ at = "down" /\ at' = "loop"
  /\ clock' \in Ticks /\ entry' = clock'
  /\ ResetPing /\ UNCHANGED lastPacketTime
  /\ peer' = "up" /\ answer' = "none" /\ answerAge' = 0
  /\ burst' = 0 /\ silence' = 0 /\ gone' = 0

\* Variant: what is received counts as activity.
NotePacket == lastPacketTime' = clock' /\ UNCHANGED <<pingReqSendTimeMs, waitingForPingResp>>
LeavePing == UNCHANGED ping

\* A read finds a packet that is not a PINGRESP; handleKeepAlive is not called.
\* From a peer that is gone, only what had arrived.
ReceiveData ==
  /\ at = "loop" /\ burst < MaxBurst
  /\ \E d \in 0 .. ReadTime :
       /\ peer = "gone" => d = 0
       /\ Elapse(d) /\ silence' = silence + d /\ Travel(d)
  /\ burst' = burst + 1
  /\ LeavePing
  /\ Continue
  /\ UNCHANGED <<entry, peer>>

ReceivePingresp ==
  /\ at = "loop" /\ answer # "none"
  /\ \E d \in 0 .. ReadTime :
       /\ IF answer = "here" THEN d = 0 ELSE answerAge + d <= Rtt
       /\ Elapse(d) /\ silence' = silence + d
  /\ waitingForPingResp' = FALSE
  /\ answer' = "none" /\ answerAge' = 0
  /\ burst' = 0
  /\ Continue
  /\ UNCHANGED <<lastPacketTime, pingReqSendTimeMs, entry, peer>>

\* handleKeepAlive, after a read that found nothing.
PingDue == KeepAlive # 0 /\ Elapsed(clock', lastPacketTime) > KeepAlive
PingLate == waitingForPingResp /\ Elapsed(clock', pingReqSendTimeMs) > PingTimeout

IdleRead(d) ==
  /\ at = "loop" /\ answer # "here"
  /\ Elapse(d)
  /\ answer = "travelling" => answerAge + d <= Rtt
  /\ burst' = 0
  /\ UNCHANGED <<entry, peer>>

SendPingForgets ==       \* variant: does not wait for the answer
  /\ lastPacketTime' = clock' /\ pingReqSendTimeMs' = clock'
  /\ UNCHANGED waitingForPingResp
SendPing ==
  /\ lastPacketTime' = clock' /\ pingReqSendTimeMs' = clock'
  /\ waitingForPingResp' = TRUE

\* MQTT_Ping resets the time its own timeout is measured from.
Ping ==
  \E d \in 0 .. ReadTime :
    /\ IdleRead(d)
    /\ PingDue
    /\ SendPing
    /\ silence' = 0
    /\ answer' = (IF peer = "up" THEN "travelling" ELSE "none") /\ answerAge' = 0
    /\ Continue

Idle ==
  \E d \in 0 .. ReadTime :
    /\ IdleRead(d)
    /\ ~PingDue /\ ~PingLate
    /\ Travel(d) /\ silence' = silence + d
    /\ Continue
    /\ UNCHANGED ping

\* MQTTKeepAliveTimeout: the connection is given up.
Timeout ==
  \E d \in 0 .. ReadTime :
    /\ IdleRead(d)
    /\ ~PingDue /\ PingLate
    /\ at' = "down"
    /\ silence' = silence + d
    /\ UNCHANGED <<ping, answer, answerAge>>

\* main() has reported and slept, and calls the loop again.  Meanwhile an
\* answer may arrive.
Resume ==
  /\ at = "pause" /\ at' = "loop"
  /\ \E d \in 0 .. PauseTime :
       /\ Elapse(d) /\ silence' = silence + d
       /\ \/ Travel(d)
          \/ answer = "travelling" /\ answer' = "here" /\ answerAge' = 0
  /\ entry' = clock'
  /\ UNCHANGED <<ping, peer, burst>>

\* The peer goes; an answer on its way may be lost with it.
Vanish ==
  /\ at # "down" /\ peer = "up" /\ peer' = "gone"
  /\ \/ UNCHANGED <<answer, answerAge>>
     \/ answer = "travelling" /\ answer' = "none" /\ answerAge' = 0
  /\ UNCHANGED <<clock, ping, at, entry, burst, silence, gone>>

Next == \/ Connect \/ ReceiveData \/ ReceivePingresp \/ Ping \/ Idle \/ Timeout
        \/ Resume \/ Vanish

Spec == Init /\ [][Next]_vars

-----------------------------------------------------------------------------

TypeOK ==
  /\ clock \in Ticks /\ entry \in Ticks
  /\ lastPacketTime \in Ticks /\ pingReqSendTimeMs \in Ticks
  /\ waitingForPingResp \in BOOLEAN
  /\ at \in {"loop", "pause", "down"}
  /\ peer \in {"up", "gone"}
  /\ answer \in {"none", "travelling", "here"} /\ answerAge \in 0 .. Rtt
  /\ burst \in 0 .. MaxBurst
  /\ silence \in Nat /\ gone \in Nat

\* The longest the client goes between two looks at the clock: a burst of
\* packets and the read after it, each with a pause of main() before it.
Away == (MaxBurst + 1) * (ReadTime + PauseTime)

\* A peer that vanishes is noticed in bounded time: the connection is given up
\* at the latest one keep-alive interval, one ping timeout and the client's own
\* delays after it went.
LossDetected ==
  at # "down" => gone <= KeepAlive + PingTimeout + 3 * Away

\* A broker that answers pings within Rtt is never given up: not when main()
\* sleeps over the answer, not when the clock wraps, not by a ping of the
\* connection before.
NoFalseAlarm == [][Timeout => peer = "gone"]_vars

\* A broker may close a connection on which it hears nothing for one and a half
\* keep-alive intervals: counting pings alone, it never has to.
BrokerPatience ==
  at # "down" => 2 * silence <= 3 * KeepAlive
=============================================================================
