--------------------------- MODULE PublishExchange ---------------------------
(***************************************************************************)
(* QoS 1 and QoS 2 publishes between the device (core_mqtt.c over the      *)
(* records of PublishRecords) and a broker that follows MQTT 3.1.1, over   *)
(* connections that break.  The wrapper asks for a clean session on each   *)
(* connection (mqtt_client_wrapper.c:199); with load.keep the library is   *)
(* used for resumed sessions, as core_mqtt_state.h:200-255 describes it.   *)
(***************************************************************************)
EXTENDS PublishRecords, Sequences

CONSTANTS
  MaxId,          \* no packet identifier is above this
  Loads           \* the kinds of behaviour considered

\* keep: the session outlives the connection.  ids: the last packet identifier.
\* window: publishes the broker has unfinished at a time.  Bounds: publishes
\* the device gets accepted, publishes of the broker, connections that break.
ASSUME ExchangeAssumption ==
  /\ MaxId \in Nat \ {0}
  /\ Loads \subseteq [keep : BOOLEAN, ids : 1 .. MaxId, window : Nat,
                      accepted : Nat, pushed : Nat, breaks : Nat]

VARIABLES
  records,               \* the two arrays of MQTTContext_t
  nextId,                \* nextPacketId
  store,                 \* the user's copy of what it may have to resend
  pc, cursor, status,    \* the device's next step and its last result
  link, toBroker, toDevice,
  brokerOut, brokerIn,   \* the broker's half of the session
  accepted, pushed, breaks,
  delivered, handed,     \* what broker and device passed on, in order
  load                   \* the kind of this behaviour

deviceVars == <<records, nextId, store, pc, cursor, status, handed, accepted>>
wireVars   == <<link, toBroker, toDevice, breaks>>
brokerVars == <<brokerOut, brokerIn, pushed, delivered, load>>
vars       == <<deviceVars, wireVars, brokerVars>>

Ids == 1 .. MaxId
NoMessage == [n |-> 0, qos |-> 0]
Messages == [n : Nat, qos : QoSLevels \cup {0}]
Steps == {"down", "resume", "resend", "ready", "failed"}
Statuses == {"Success", "StateCollision", "NoMemory", "BadParameter",
             "IllegalState", "BadResponse", "SendFailed"}
Acks == {"PUBACK", "PUBREC", "PUBREL", "PUBCOMP"}
Packets == [type : Acks \cup {"PUBLISH"}, id : Ids, msg : Messages]

Publish(id, msg) == [type |-> "PUBLISH", id |-> id, msg |-> msg]
Ack(type, id) == [type |-> type, id |-> id, msg |-> NoMessage]

Init ==
  /\ records = NoRecords /\ nextId = 1 /\ store = [id \in Ids |-> NoMessage]
  /\ pc = "down" /\ cursor = 0 /\ status = "Success"
  /\ link = "closed" /\ toBroker = <<>> /\ toDevice = <<>>
  /\ brokerOut = <<>> /\ brokerIn = {}
  /\ accepted = 0 /\ pushed = 0 /\ breaks = 0
  /\ delivered = <<>> /\ handed = <<>>
  /\ load \in Loads

-----------------------------------------------------------------------------
(* The device's side of the wire.                                          *)

\* A write on a connection whose peer is gone may still be accepted.
SendOk(p) ==
  /\ link # "closed"
  /\ toBroker' = IF link = "up" THEN Append(toBroker, p) ELSE toBroker

SendFails == link = "lost" /\ UNCHANGED toBroker

\* A call of the library ends: its failure makes the user hang up.
Finish(result) ==
  /\ status' = result
  /\ pc' = IF result = "Success" THEN pc ELSE "failed"

\* getAckTypeToSend
AckTypeToSend(state) ==
  CASE state = "PubAckSend" -> "PUBACK"
    [] state = "PubRecSend" -> "PUBREC"
    [] state = "PubRelSend" -> "PUBREL"
    [] state = "PubCompSend" -> "PUBCOMP"
    [] OTHER -> "none"

\* sendPublishAcks: the acknowledgement a state asks for; the record follows
\* only when it was sent.
SendPublishAck(recs, id, state) ==
  LET type == AckTypeToSend(state)
      done == UpdateStateAck(recs, id, type, "send")
  IN \/ /\ type = "none"
        /\ records' = recs /\ UNCHANGED toBroker /\ Finish("Success")
     \/ /\ type # "none" /\ SendOk(Ack(type, id))
        /\ records' = done.records /\ Finish(done.status)
     \/ /\ type # "none" /\ SendFails
        /\ records' = recs /\ Finish("SendFailed")

-----------------------------------------------------------------------------
(* Connecting.                                                             *)

\* What the broker repeats when it resumes a session, in order.
Repeats(out) == [k \in 1 .. Len(out) |->
                   IF out[k].released THEN Ack("PUBREL", out[k].id)
                                      ELSE Publish(out[k].id, out[k].msg)]

\* Variant: old records outlive the session they belong to.
ConnectKeepsRecords ==
  /\ pc = "down"
  /\ link' = "up"
  /\ toDevice' = <<>> /\ brokerOut' = <<>> /\ brokerIn' = {}
  /\ pc' = "ready" /\ status' = "Success"
  /\ UNCHANGED <<records, nextId, store, cursor, handed, accepted, toBroker, breaks,
                 pushed, delivered, load>>

\* CONNECT is accepted.  A session resumed goes through handleSessionResumption;
\* without one the records are cleared, and the user drops its copies.
Connect ==
  /\ pc = "down"
  /\ link' = "up"
  /\ IF load.keep
       THEN /\ toDevice' = Repeats(brokerOut)
            /\ pc' = "resume" /\ cursor' = 0
            /\ UNCHANGED <<records, store, brokerOut, brokerIn>>
       ELSE /\ records' = NoRecords /\ store' = [id \in Ids |-> NoMessage]
            /\ brokerOut' = <<>> /\ brokerIn' = {}
            /\ pc' = "ready"
            /\ UNCHANGED <<cursor, toDevice>>
  /\ status' = "Success"
  /\ UNCHANGED <<nextId, handed, accepted, toBroker, breaks, pushed, delivered, load>>

\* handleSessionResumption, one PUBREL a step.
ResumePubrel ==
  /\ pc = "resume"
  /\ LET next == PubrelToResend(records, cursor) IN
     \/ /\ next.id # 0
        /\ SendPublishAck(records, next.id, "PubRelSend")
        /\ cursor' = next.cursor
     \/ /\ next.id = 0
        /\ pc' = "resend" /\ cursor' = 0 /\ status' = "Success"
        /\ UNCHANGED <<records, toBroker>>
  /\ UNCHANGED <<nextId, store, handed, accepted, link, toDevice, breaks,
                 brokerVars>>

\* The user's loop over MQTT_PublishToResend: MQTT_Publish with the DUP flag,
\* for which a record that exists already is no error.
Resend ==
  /\ pc = "resend"
  /\ LET next == PublishToResend(records, cursor)
         msg == store[next.id]
         sent == SentPublish(records, next.id, msg.qos)
     IN \/ /\ next.id # 0
           /\ cursor' = next.cursor
           /\ \/ /\ SendOk(Publish(next.id, msg))
                 /\ records' = sent.records /\ Finish(sent.status)
              \/ SendFails /\ UNCHANGED records /\ Finish("SendFailed")
        \/ /\ next.id = 0
           /\ pc' = "ready" /\ cursor' = 0 /\ status' = "Success"
           /\ UNCHANGED <<records, toBroker>>
  /\ UNCHANGED <<nextId, store, handed, accepted, link, toDevice, breaks,
                 brokerVars>>

-----------------------------------------------------------------------------
(* The device on a connection.                                             *)

NextId == IF nextId = load.ids THEN 1 ELSE nextId + 1   \* MQTT_GetPacketId

\* mqtt_client_publish and MQTT_Publish: a record is reserved, the packet
\* sent, the record moved on.  A publish whose send failed keeps its record;
\* one without a record is refused.
SendNew(qos) ==
  /\ pc = "ready" /\ accepted < load.accepted
  /\ nextId' = NextId
  /\ LET msg == [n |-> accepted + 1, qos |-> qos]
         reserved == AddRecord(records.outgoing, nextId, qos, "PublishSend")
         recs == [records EXCEPT !.outgoing = reserved.array]
         sent == SentPublish(recs, nextId, qos)
     IN \/ /\ reserved.status # "Success"
           /\ records' = recs /\ status' = reserved.status
           /\ UNCHANGED <<store, accepted, toBroker>>
        \/ /\ reserved.status = "Success"
           /\ store' = [store EXCEPT ![nextId] = msg] /\ accepted' = msg.n
           /\ \/ /\ SendOk(Publish(nextId, msg))
                 /\ records' = sent.records /\ status' = sent.status
              \/ /\ SendFails
                 /\ records' = recs /\ status' = "SendFailed"
  /\ UNCHANGED <<pc, cursor, handed, link, toDevice, breaks, brokerVars>>

IsNew(added) == added = "Success"

\* handleIncomingPublish: a new message goes to the user; one whose record
\* exists already is only acknowledged again; without room the loop fails.
ReceivePublish ==
  /\ pc = "ready" /\ toDevice # <<>> /\ Head(toDevice).type = "PUBLISH"
  /\ toDevice' = Tail(toDevice)
  /\ LET p == Head(toDevice)
     IN \E new \in {ReceivedPublish(records, p.id, p.msg.qos)} :
        \/ /\ new.status \in {"Success", "StateCollision"}
           /\ handed' = IF IsNew(new.status) THEN Append(handed, p.msg) ELSE handed
           /\ SendPublishAck(new.records, p.id,
                             CalculateStatePublish("receive", p.msg.qos))
        \/ /\ new.status = "NoMemory"
           /\ records' = new.records /\ Finish(new.status)
           /\ UNCHANGED <<handed, toBroker>>
  /\ UNCHANGED <<nextId, store, cursor, accepted, link, breaks, brokerVars>>

\* handlePublishAcks: the record moves on, the user hears of it and drops its
\* copy of a publish that is done, and the next acknowledgement goes out.
ReceiveAck ==
  /\ pc = "ready" /\ toDevice # <<>> /\ Head(toDevice).type \in Acks
  /\ toDevice' = Tail(toDevice)
  /\ LET p == Head(toDevice)
     IN \E new \in {UpdateStateAck(records, p.id, p.type, "receive")} :
        \/ /\ new.status = "Success"
           /\ store' = IF p.type \in {"PUBACK", "PUBCOMP"}
                         THEN [store EXCEPT ![p.id] = NoMessage] ELSE store
           /\ SendPublishAck(new.records, p.id, new.state)
        \/ /\ new.status # "Success"
           /\ records' = new.records /\ Finish(new.status)
           /\ UNCHANGED <<store, toBroker>>
  /\ UNCHANGED <<nextId, cursor, handed, accepted, link, breaks, brokerVars>>

\* A read finds the connection broken, or the keep-alive times out.
NoticeLoss ==
  /\ pc = "ready" /\ link = "lost"
  /\ pc' = "failed" /\ status' = "Success"
  /\ UNCHANGED <<records, nextId, store, cursor, handed, accepted, wireVars,
                 brokerVars>>

\* The user disconnects after a failure.
HangUp ==
  /\ pc = "failed"
  /\ pc' = "down" /\ status' = "Success"
  /\ link' = "closed" /\ toBroker' = <<>> /\ toDevice' = <<>>
  /\ UNCHANGED <<records, nextId, store, cursor, handed, accepted, breaks,
                 brokerVars>>

-----------------------------------------------------------------------------
(* The broker, as MQTT 3.1.1 (4.3) has it, and the network.                *)

\* The broker's unfinished publishes, of which an identifier has one at most.
Without(out, id) ==
  LET at == CHOOSE k \in DOMAIN out : out[k].id = id
  IN IF \A k \in DOMAIN out : out[k].id # id
       THEN out
       ELSE [k \in 1 .. Len(out) - 1 |-> out[IF k < at THEN k ELSE k + 1]]

BrokerReceive ==
  /\ link = "up" /\ toBroker # <<>>
  /\ toBroker' = Tail(toBroker)
  /\ LET p == Head(toBroker)
         answer(type) == toDevice' = Append(toDevice, Ack(type, p.id))
     IN \/ /\ p.type = "PUBLISH" /\ p.msg.qos = 1
           /\ delivered' = Append(delivered, p.msg) /\ answer("PUBACK")
           /\ UNCHANGED <<brokerOut, brokerIn>>
        \/ /\ p.type = "PUBLISH" /\ p.msg.qos = 2
           /\ delivered' = IF p.id \in brokerIn THEN delivered
                                                ELSE Append(delivered, p.msg)
           /\ brokerIn' = brokerIn \cup {p.id} /\ answer("PUBREC")
           /\ UNCHANGED brokerOut
        \/ /\ p.type = "PUBREL"
           /\ brokerIn' = brokerIn \ {p.id} /\ answer("PUBCOMP")
           /\ UNCHANGED <<brokerOut, delivered>>
        \/ /\ p.type = "PUBREC"
           /\ brokerOut' = [k \in DOMAIN brokerOut |->
                              IF brokerOut[k].id = p.id
                                THEN [brokerOut[k] EXCEPT !.released = TRUE]
                                ELSE brokerOut[k]]
           /\ answer("PUBREL")
           /\ UNCHANGED <<brokerIn, delivered>>
        \/ /\ p.type \in {"PUBACK", "PUBCOMP"}
           /\ brokerOut' = Without(brokerOut, p.id)
           /\ UNCHANGED <<brokerIn, delivered, toDevice>>
  /\ UNCHANGED <<deviceVars, link, breaks, pushed, load>>

BrokerPublish ==
  /\ link = "up" /\ pushed < load.pushed /\ Len(brokerOut) < load.window
  /\ pushed' = pushed + 1
  /\ \E qos \in QoSLevels, id \in 1 .. load.ids :
       /\ \A k \in DOMAIN brokerOut : brokerOut[k].id # id
       /\ \A free \in 1 .. id - 1 : \E k \in DOMAIN brokerOut : brokerOut[k].id = free
       /\ LET msg == [n |-> pushed + 1, qos |-> qos] IN
          /\ brokerOut' = Append(brokerOut, [id |-> id, msg |-> msg, released |-> FALSE])
          /\ toDevice' = Append(toDevice, Publish(id, msg))
  /\ UNCHANGED <<deviceVars, link, toBroker, breaks, brokerIn, delivered, load>>

\* What is on its way to the broker is lost; of what is on its way to the
\* device, the device may read as much as it does before it notices.
Break ==
  /\ link = "up" /\ breaks < load.breaks
  /\ link' = "lost" /\ breaks' = breaks + 1 /\ toBroker' = <<>>
  /\ UNCHANGED <<deviceVars, toDevice, brokerVars>>

Device ==
  \/ Connect \/ ResumePubrel \/ Resend \/ ReceivePublish \/ ReceiveAck
  \/ NoticeLoss \/ HangUp

Next ==
  \/ Device
  \/ \E qos \in QoSLevels : SendNew(qos)
  \/ BrokerReceive \/ BrokerPublish \/ Break

\* The user keeps calling the library and reconnects; the broker answers.
Fairness == WF_vars(Device) /\ WF_vars(BrokerReceive)

Spec == Init /\ [][Next]_vars /\ Fairness

-----------------------------------------------------------------------------
(* Properties.                                                             *)

Records == [packetId : Ids \cup {0}, qos : {0, 1, 2}, publishState : PublishStates]

\* Types, and the ranges of identifiers and cursor.
TypeOK ==
  /\ records \in [outgoing : [Slots -> Records], incoming : [Slots -> Records]]
  /\ nextId \in 1 .. load.ids /\ store \in [Ids -> Messages]
  /\ pc \in Steps /\ cursor \in 0 .. Count /\ status \in Statuses
  /\ link \in {"closed", "up", "lost"}
  /\ toBroker \in Seq(Packets) /\ toDevice \in Seq(Packets)
  /\ brokerOut \in Seq([id : Ids, msg : Messages, released : BOOLEAN])
  /\ brokerIn \subseteq Ids
  /\ {accepted, pushed, breaks} \subseteq Nat
  /\ delivered \in Seq(Messages) /\ handed \in Seq(Messages)
  /\ load \in Loads

Twice(seq) == {seq[k] : k \in {j \in DOMAIN seq : \E i \in 1 .. j - 1 : seq[i] = seq[j]}}
Numbers(seq) == {seq[k].n : k \in DOMAIN seq}

\* The broker passes a QoS 2 publish of the device on at most once, whatever
\* MQTT_PublishToResend and handleSessionResumption have sent again.
ExactlyOnceOut == \A m \in Twice(delivered) : m.qos = 1

\* handleIncomingPublish hands a QoS 2 message to the user at most once,
\* whatever the broker repeats after however many broken connections.
ExactlyOnceIn  == \A m \in Twice(handed) : m.qos = 1

\* QoS 2 is exactly once in both directions.
ExactlyOnce == ExactlyOnceOut /\ ExactlyOnceIn

\* In a session that is kept, a publish the device accepted has reached the
\* broker, or has a record from which it is going to be sent again.
NothingForgottenOut ==
  load.keep => \A n \in 1 .. accepted :
    \/ n \in Numbers(delivered)
    \/ \E i \in Slots :
         LET r == records.outgoing[i]
         IN r.packetId # 0 /\ r.publishState \in UnackedPublish /\ store[r.packetId].n = n

\* The broker is told of a message as received only after the user got it.
NothingForgottenIn ==
  load.keep => \A n \in 1 .. pushed :
    \/ n \in Numbers(handed)
    \/ \E k \in DOMAIN brokerOut : brokerOut[k].msg.n = n /\ ~brokerOut[k].released

\* Neither direction of a kept session loses a message.
NothingForgotten == NothingForgottenOut /\ NothingForgottenIn

\* Publishes not yet acknowledged stand in the array in the order in which
\* they were accepted, which is the order in which they are sent again: over
\* removals, reuse of slots and compaction.
RecordsInOrder ==
  LET r == records.outgoing
      waiting == {i \in Slots : ~Free(r, i) /\ r[i].publishState \in UnackedPublish}
  IN \A i, j \in waiting :
       i < j => store[r[i].packetId].n < store[r[j].packetId].n

\* MQTTNoMemory means that every record of the direction is in use.
RefusedOnlyWhenFull ==
  status = "NoMemory" =>
    \A i \in Slots : ~Free(records[IF pc = "failed" THEN "incoming" ELSE "outgoing"], i)

\* The record arrays keep their order and their room.
RecordsSound == RecordsInOrder /\ RefusedOnlyWhenFull

\* On the clean sessions of this program, what a correct broker sends is
\* never taken for an invalid packet.
ValidPacketsAccepted ==
  ~load.keep => status \notin {"BadResponse", "IllegalState", "BadParameter"}

\* What the search of a resumption leaves out of records in one of the states:
\* those behind a freed record that was in such a state, where it stops.
Missed(states) ==
  LET r == records.outgoing
  IN {i \in cursor + 1 .. Count :
        /\ r[i].packetId # 0 /\ r[i].publishState \in states
        /\ \A j \in cursor + 1 .. i - 1 :
             r[j].packetId = 0 => r[j].publishState \notin states}

\* Up to such a record, handleSessionResumption has repeated every PUBREL that
\* is due when it ends, and so has the loop over MQTT_PublishToResend.
AllResent ==
  /\ pc = "resume" /\ PubrelToResend(records, cursor).id = 0 => Missed(UnackedPubrel) = {}
  /\ pc = "resend" /\ PublishToResend(records, cursor).id = 0 => Missed(UnackedPublish) = {}

\* Once connections stop breaking and nothing new is published, every record
\* of either direction is freed: no slot is lost for good.
RecordsDrain ==
  ~load.keep => <>[](\A d \in Directions, i \in Slots : Free(records[d], i))
=============================================================================
