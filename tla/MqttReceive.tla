----------------------------- MODULE MqttReceive -----------------------------
(***************************************************************************)
(* How coreMQTT cuts the byte stream of a connection into packets:         *)
(* MQTT_GetIncomingPacketTypeAndLength (core_mqtt_serializer.c), recvExact,*)
(* discardPacket, receivePacket, receiveConnack and the part of            *)
(* receiveSingleIteration that calls them (core_mqtt.c), down to           *)
(* network_tls_read.                                                       *)
(*                                                                         *)
(* A byte is a number: Base is 128 in the code, and a byte of at least     *)
(* Base has its continuation bit set.  Every read of the transport is a    *)
(* step: it takes its time and brings some of the bytes asked for, or none *)
(* (a timeout, or the end of the stream), or an error.  What is done with  *)
(* a packet is TuyaLink's, KeepAlive's and PublishExchange's subject.      *)
(***************************************************************************)
EXTENDS Naturals, Sequences

CONSTANTS
  Base,          \* 128: the values of one digit of a remaining length
  MaxDigits,     \* 4: the digits a remaining length may have
  BufferSize,    \* CORE_MQTT_RX_BUFFER_SIZE
  ValidTypes,    \* first bytes incomingPacketValid accepts
  CONNACK,       \* one of them
  Packets,       \* what the broker may send: [type, body]
  MaxPackets,    \* bound: packets on one connection
  ReadTime,      \* read timeout of the TLS connection
  BodyTime,      \* the 2 s receiveSingleIteration gives a packet
  ConnectTime,   \* timeoutMs of receiveConnack
  TickMod        \* system_ticks wraps here: 2^32 in the code

Bytes == 0 .. 2 * Base - 1

\* 128, 16384, 2097152, ...: the lengths that k digits can write.
Lengths[k \in Nat] == IF k = 0 THEN 1 ELSE Base * Lengths[k - 1]

ASSUME ReceiveAssumption ==
  /\ Base \in Nat \ {0, 1} /\ MaxDigits \in Nat \ {0}
  /\ BufferSize \in Nat \ {0} /\ BufferSize < Lengths[MaxDigits]
  /\ ValidTypes \subseteq Bytes /\ CONNACK \in ValidTypes
  /\ Packets \subseteq [type : Bytes, body : Seq(Bytes)]
  /\ MaxPackets \in Nat
  /\ ReadTime \in Nat \ {0} /\ BodyTime \in Nat \ {0} /\ ConnectTime \in Nat \ {0}
  /\ TickMod \in Nat
  /\ TickMod > ConnectTime + BodyTime + (MaxDigits + 1) * ReadTime

VARIABLES
  \* the broker's end of this connection: packets written, bytes not read, FIN
  sent, stream, open,
  \* the reader: its step, the call it is in, the tick counter
  pc, caller, clock,
  \* MQTTPacketInfo_t of the incoming packet and the network buffer
  packet, buffer,
  \* locals: of receiveConnack, of recvExact, of discardPacket
  connEntry, exact, dump,
  \* packets given to the handlers
  handled,
  \* history: time spent on the packet's rest, and whether a read came back
  \* empty or failed since the packet began
  spent, stalled

wire   == <<sent, stream, open>>
locals == <<connEntry, exact, dump>>
vars   == <<wire, pc, caller, clock, packet, buffer, locals, handled, spent, stalled>>

\* What a broker writes: type, remaining length in digits, the rest.
EncodedLength[n \in Nat] ==
  IF n < Base THEN <<n>> ELSE <<Base + (n % Base)>> \o EncodedLength[n \div Base]
Encoded(p) == <<p.type>> \o EncodedLength[Len(p.body)] \o p.body
EncodedAll[s \in Seq(Packets)] ==
  IF s = <<>> THEN <<>> ELSE Encoded(Head(s)) \o EncodedAll[Tail(s)]

NoPacket == [type |-> 0, length |-> 0, multiplier |-> 1, digits |-> 0]
NoExact  == [want |-> 0, entry |-> 0, patience |-> 0]
NoDump   == [total |-> 0, entry |-> 0, budget |-> 0]

Init ==
  /\ sent = <<>> /\ stream = <<>> /\ open = TRUE
  /\ pc = "type" /\ caller = "connect" /\ clock \in 0 .. TickMod - 1
  /\ packet = NoPacket /\ buffer = <<>>
  /\ connEntry = clock /\ exact = NoExact /\ dump = NoDump
  /\ handled = <<>> /\ spent = 0 /\ stalled = FALSE

TypeOK ==
  /\ sent \in Seq(Packets) /\ stream \in Seq(Bytes) /\ open \in BOOLEAN
  /\ pc \in {"type", "length", "packet", "body", "dump", "failed"}
  /\ caller \in {"connect", "loop"} /\ clock \in 0 .. TickMod - 1
  /\ packet \in [type : Bytes, length : Nat, multiplier : Nat, digits : 0 .. MaxDigits]
  /\ buffer \in Seq(Bytes) /\ Len(buffer) <= BufferSize
  /\ connEntry \in 0 .. TickMod - 1
  /\ exact \in [want : 0 .. BufferSize, entry : 0 .. TickMod - 1, patience : Nat]
  /\ dump \in [total : Nat, entry : 0 .. TickMod - 1, budget : Nat]
  /\ handled \in Seq([type : Bytes, body : Seq(Bytes)])
  /\ spent \in Nat /\ stalled \in BOOLEAN

-----------------------------------------------------------------------------
(* One call of the transport's recv.                                       *)

Elapse(d) == clock' = (clock + d) % TickMod
Elapsed(later, start) == (later + TickMod - start) % TickMod

\* recv(len) returns k > 0 bytes after d.
Take(k, d) ==
  /\ k <= Len(stream)
  /\ stream' = SubSeq(stream, k + 1, Len(stream))
  /\ Elapse(d)
  /\ UNCHANGED <<sent, open>>

\* recv returns 0: the read timeout, or at once behind the peer's FIN.
Nothing(d) ==
  /\ d = ReadTime \/ (~open /\ stream = <<>>)
  /\ Elapse(d)
  /\ UNCHANGED wire

\* The call ends with a status that makes the wrapper close the connection.
Fail ==
  /\ pc' = "failed"
  /\ UNCHANGED <<caller, packet, buffer, locals, handled>>

\* recv returns an error, in any step that reads.
RecvError ==
  /\ pc \in {"type", "length", "body", "dump"}
  /\ pc \in {"body", "dump"} => Len(buffer) < exact.want
  /\ stalled' = TRUE
  /\ Fail /\ UNCHANGED <<wire, clock, spent>>

-----------------------------------------------------------------------------
(* MQTT_GetIncomingPacketTypeAndLength.                                    *)

ReadType(d) ==
  /\ pc = "type"
  /\ Take(1, d)
  /\ IF Head(stream) \in ValidTypes
       THEN /\ packet' = [NoPacket EXCEPT !.type = Head(stream)]
            /\ pc' = "length"
            /\ UNCHANGED <<caller, buffer, locals, handled>>
       ELSE Fail
  /\ UNCHANGED <<spent, stalled>>

\* No packet: the process loop goes on, or returns and is called again;
\* receiveConnack tries until its time is over.
ReadNoType(d) ==
  /\ pc = "type"
  /\ Nothing(d)
  /\ IF caller = "connect" /\ Elapsed(clock', connEntry) >= ConnectTime
       THEN Fail /\ stalled' = TRUE
       ELSE UNCHANGED <<pc, caller, packet, buffer, locals, handled, stalled>>
  /\ UNCHANGED spent

TooManyDigits == packet.multiplier > Lengths[MaxDigits - 1]
EncodedSize(n) == CHOOSE k \in 1 .. MaxDigits :
                    /\ n < Lengths[k] \/ k = MaxDigits
                    /\ \A j \in 1 .. k - 1 : n >= Lengths[j]

\* getRemainingLength, digit by digit; each is read with the full read timeout.
ReadDigit(d) ==
  /\ pc = "length" /\ ~TooManyDigits
  /\ Take(1, d)
  /\ LET b == Head(stream)
         new == [packet EXCEPT !.length = @ + (b % Base) * packet.multiplier,
                               !.multiplier = @ * Base, !.digits = @ + 1]
     IN /\ packet' = new
        /\ pc' = IF b >= Base THEN "length"
                 ELSE IF new.digits = EncodedSize(new.length) THEN "packet" ELSE "failed"
  /\ UNCHANGED <<caller, buffer, locals, handled, spent, stalled>>

\* Variant: a length that does not come in time is no packet, as a type is.
ReadNoDigitNoPacket(d) ==
  /\ pc = "length" /\ ~TooManyDigits
  /\ Nothing(d)
  /\ pc' = "type"
  /\ UNCHANGED <<caller, packet, buffer, locals, handled, spent, stalled>>

ReadNoDigit(d) ==
  /\ pc = "length" /\ ~TooManyDigits
  /\ Nothing(d)
  /\ stalled' = TRUE
  /\ Fail /\ UNCHANGED spent

RefuseLength ==
  /\ pc = "length" /\ TooManyDigits
  /\ Fail /\ UNCHANGED <<wire, clock, spent, stalled>>

-----------------------------------------------------------------------------
(* receivePacket, and the time its two callers give it.                    *)

Budget ==
  LET taken == Elapsed(clock, connEntry)
  IN IF caller = "loop" THEN BodyTime
     ELSE IF taken < ConnectTime THEN ConnectTime - taken ELSE 0

Fits(length) == length <= BufferSize

\* receiveConnack gives a packet of another type up unread.
WrongType ==
  /\ pc = "packet" /\ caller = "connect" /\ packet.type # CONNACK
  /\ Fail /\ UNCHANGED <<wire, clock, spent, stalled>>

ReceivePacket ==
  /\ pc = "packet" /\ (caller = "connect" => packet.type = CONNACK)
  /\ pc' = IF Fits(packet.length) THEN "body" ELSE "dump"
  /\ exact' = [want |-> IF Fits(packet.length) THEN packet.length ELSE BufferSize,
               entry |-> clock, patience |-> Budget]
  /\ dump' = [total |-> 0, entry |-> clock, budget |-> Budget]
  /\ buffer' = <<>>
  /\ UNCHANGED <<wire, caller, clock, packet, connEntry, handled, spent, stalled>>

\* recvExact: another read, unless it is late; what is there by then counts.
RecvSome(k, d) ==
  /\ pc \in {"body", "dump"} /\ Len(buffer) < exact.want
  /\ k <= exact.want - Len(buffer)
  /\ Take(k, d)
  /\ buffer' = buffer \o SubSeq(stream, 1, k)
  /\ pc' = IF Len(buffer') < exact.want /\ Elapsed(clock', exact.entry) >= exact.patience
             THEN "failed" ELSE pc
  /\ spent' = spent + d
  /\ UNCHANGED <<caller, packet, locals, handled, stalled>>

RecvNothing(d) ==
  /\ pc \in {"body", "dump"} /\ Len(buffer) < exact.want
  /\ Nothing(d)
  /\ pc' = IF Elapsed(clock', exact.entry) >= exact.patience THEN "failed" ELSE pc
  /\ spent' = spent + d /\ stalled' = TRUE
  /\ UNCHANGED <<caller, packet, buffer, locals, handled>>

\* Ready for the next packet of this connection.
NextPacket ==
  /\ pc' = "type" /\ caller' = "loop"
  /\ packet' = NoPacket /\ buffer' = <<>>
  /\ connEntry' = 0 /\ exact' = NoExact /\ dump' = NoDump
  /\ spent' = 0 /\ stalled' = FALSE
  /\ UNCHANGED <<wire, clock>>

Handle ==
  /\ pc = "body" /\ Len(buffer) = exact.want
  /\ handled' = Append(handled, [type |-> packet.type, body |-> buffer])
  /\ NextPacket

-----------------------------------------------------------------------------
(* discardPacket: a packet longer than the buffer, buffer by buffer.       *)

Dumped == dump.total + exact.want

Part == IF packet.length - Dumped < BufferSize THEN packet.length - Dumped ELSE BufferSize

\* Variant: every part has the whole time.
PatienceWhole == dump.budget
Patience == dump.budget - Elapsed(clock, dump.entry)

DumpPart ==
  /\ pc = "dump" /\ Len(buffer) = exact.want /\ Dumped < packet.length
  /\ IF Elapsed(clock, dump.entry) < dump.budget
       THEN /\ exact' = [want |-> Part, entry |-> clock, patience |-> Patience]
            /\ dump' = [dump EXCEPT !.total = Dumped]
            /\ buffer' = <<>>
            /\ UNCHANGED <<pc, caller, packet, connEntry, handled>>
       ELSE Fail
  /\ UNCHANGED <<wire, clock, spent, stalled>>

\* MQTTNoDataAvailable: for the process loop no error, for MQTT_Connect one.
DumpDone ==
  /\ pc = "dump" /\ Len(buffer) = exact.want /\ Dumped >= packet.length
  /\ IF caller = "loop" /\ Dumped = packet.length
       THEN NextPacket /\ UNCHANGED handled
       ELSE Fail /\ UNCHANGED <<wire, clock, spent, stalled>>

-----------------------------------------------------------------------------
(* The connection: mqtt_client_connect and mqtt_client_yield close it when *)
(* a read failed, and its user or a ping timeout may.                      *)

Reconnect ==
  /\ pc = "failed" \/ (pc = "type" /\ caller = "loop")
  /\ sent' = <<>> /\ stream' = <<>> /\ open' = TRUE
  /\ pc' = "type" /\ caller' = "connect" /\ connEntry' = clock
  /\ packet' = NoPacket /\ buffer' = <<>> /\ exact' = NoExact /\ dump' = NoDump
  /\ handled' = <<>> /\ spent' = 0 /\ stalled' = FALSE
  /\ UNCHANGED clock

\* One CONNACK per connection; whether it comes first is up to the peer.
BrokerSend ==
  /\ open /\ Len(sent) < MaxPackets
  /\ \E p \in Packets :
       /\ p.type = CONNACK => sent = <<>>
       /\ sent' = Append(sent, p)
       /\ stream' = stream \o Encoded(p)
  /\ UNCHANGED <<open, pc, caller, clock, packet, buffer, locals, handled, spent, stalled>>

BrokerClose ==
  /\ open /\ open' = FALSE
  /\ UNCHANGED <<sent, stream, pc, caller, clock, packet, buffer, locals, handled,
                 spent, stalled>>

Next ==
  \/ \E d \in 0 .. ReadTime :
       \/ ReadType(d) \/ ReadNoType(d)
       \/ ReadDigit(d) \/ ReadNoDigit(d)
       \/ \E k \in 1 .. BufferSize : RecvSome(k, d)
       \/ RecvNothing(d)
  \/ RecvError \/ RefuseLength \/ WrongType
  \/ ReceivePacket \/ Handle \/ DumpPart \/ DumpDone
  \/ Reconnect \/ BrokerSend \/ BrokerClose

Spec == Init /\ [][Next]_vars

-----------------------------------------------------------------------------
(* Safety.                                                                 *)

\* The packets of s that fit the buffer, in order.
Fitting[s \in Seq(Packets)] ==
  IF s = <<>> THEN <<>>
  ELSE LET last   == s[Len(s)]
           before == Fitting[SubSeq(s, 1, Len(s) - 1)]
       IN IF Fits(Len(last.body)) THEN Append(before, last) ELSE before

\* The handlers get the packets the broker sent that fit the buffer, whole
\* and in order, and between two packets the reader stands where one ends:
\* over reads that bring a byte at a time, packets dumped in parts, and calls
\* that time out (recvExact, discardPacket, core_mqtt.c:685-820).
FramesKept ==
  \E n \in 0 .. Len(sent) :
    /\ handled = Fitting[SubSeq(sent, 1, n)]
    /\ pc = "type" => stream = EncodedAll[SubSeq(sent, n + 1, Len(sent))]

\* The rest of a packet is read or given up before its time plus one read is
\* over, however many parts it is dumped in and wherever the clock wraps.
GivenUpInTime ==
  spent <= ReadTime + (IF dump.budget = 0 THEN 0 ELSE dump.budget - 1)

\* What MQTT allows: a CONNACK, which fits the buffer, then other packets, with
\* lengths of at most MaxDigits digits.
Proper(s) ==
  \A i \in DOMAIN s :
    /\ s[i].type \in ValidTypes /\ (s[i].type = CONNACK <=> i = 1)
    /\ Len(s[i].body) < (IF i = 1 THEN BufferSize + 1 ELSE Lengths[MaxDigits])

\* A connection to a broker that keeps to the protocol is given up only for a
\* read that brought nothing, or for a packet that took longer than it may.
GivenUpOnlyLate ==
  pc = "failed" /\ Proper(sent) => stalled \/ (spent >= dump.budget /\ exact # NoExact)

\* The time a packet has is neither overrun nor cut short.
TimeKept == GivenUpInTime /\ GivenUpOnlyLate
=============================================================================
