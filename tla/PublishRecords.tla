--------------------------- MODULE PublishRecords ---------------------------
(***************************************************************************)
(* The state engine of coreMQTT (core_mqtt_state.c): two arrays of records *)
(* follow the QoS 1 and QoS 2 publishes of either direction until their    *)
(* last acknowledgement.  A record whose packetId is 0 is free; the rest   *)
(* of a freed record keeps its old value, as in the code.                  *)
(*                                                                         *)
(* Operators only.  Those that change the records return the status and    *)
(* the records after the call: status "Success" is MQTTSuccess, and so on. *)
(***************************************************************************)
EXTENDS Naturals, FiniteSets

CONSTANT Count    \* MQTT_STATE_ARRAY_MAX_COUNT

ASSUME CountAssumption == Count \in Nat \ {0}

Slots == 1 .. Count
Directions == {"outgoing", "incoming"}
QoSLevels == {1, 2}

PublishStates == {"Null", "PublishSend", "PubAckSend", "PubRecSend", "PubRelSend",
                  "PubCompSend", "PubAckPending", "PubRecPending",
                  "PubRelPending", "PubCompPending", "PublishDone"}

\* MQTT_Init and handleSessionResumption zero the arrays.
EmptyArray == [i \in Slots |-> [packetId |-> 0, qos |-> 0, publishState |-> "Null"]]
NoRecords == [outgoing |-> EmptyArray, incoming |-> EmptyArray]

Free(r, i) == r[i].packetId = 0
UsedUpTo(r, i) == {j \in 1 .. i : ~Free(r, j)}

\* findInRecord: the first record of a packet identifier.
Has(r, id) == \E i \in Slots : r[i].packetId = id
Find(r, id) == CHOOSE i \in Slots : /\ r[i].packetId = id
                                    /\ \A j \in 1 .. i - 1 : r[j].packetId # id

-----------------------------------------------------------------------------
(* addRecord                                                               *)

\* compactRecords: the i-th record in use moves to slot i; a slot it leaves
\* is freed, the rest of its value stays.
Compact(r) ==
  [i \in Slots |->
     IF i <= Cardinality(UsedUpTo(r, Count))
       THEN r[CHOOSE j \in Slots : ~Free(r, j) /\ Cardinality(UsedUpTo(r, j)) = i]
       ELSE [r[i] EXCEPT !.packetId = 0]]

\* updateRecord: one record is replaced.
Put(r, at, record) == [i \in Slots |-> IF i = at THEN record ELSE r[i]]

\* The arrays are compacted only once the last slot is taken.
CompactIfFull(r) == IF Free(r, Count) THEN r ELSE Compact(r)

\* Free slots behind the last record in use: a new one goes to the first of
\* them, so that the array keeps the order of the records.
FreeAnywhere(r) == {i \in Slots : Free(r, i)}   \* variant: any hole will do
FreeOrLast(r) ==   \* variant: off by one, the last record is overwritten
  {i \in Slots : \A j \in i + 1 .. Count : Free(r, j)}
FreeAtEnd(r) == {i \in Slots : \A j \in i .. Count : Free(r, j)}

AddRecord(r, id, qos, state) ==
  LET c == CompactIfFull(r)
      free == FreeAtEnd(c)
  IN IF Has(c, id) THEN [status |-> "StateCollision", array |-> c]
     ELSE IF free = {} THEN [status |-> "NoMemory", array |-> c]
     ELSE LET at == CHOOSE i \in free : \A j \in free : i <= j
          IN [status |-> "Success",
              array |-> Put(c, at, [packetId |-> id, qos |-> qos, publishState |-> state])]

-----------------------------------------------------------------------------
(* The transitions of a record.                                            *)

\* validateTransitionPublish: a publish is sent from these, a resend included.
PublishTransitions(qos) ==
  {<<"PubAckPending", "PubAckPending">>, <<"PubRecPending", "PubRecPending">>}
  \cup IF qos = 1 THEN {<<"PublishSend", "PubAckPending">>}
                  ELSE {<<"PublishSend", "PubRecPending">>}

\* validateTransitionAck
AckTransitions ==
  {<<"PubAckSend", "PublishDone">>,
   <<"PubAckPending", "PublishDone">>,
   <<"PubRecSend", "PubRelPending">>,
   <<"PubRelPending", "PubCompSend">>, <<"PubRelPending", "PubRelPending">>,
   <<"PubCompSend", "PublishDone">>, <<"PubCompSend", "PubCompSend">>,
   <<"PubRecPending", "PubRelSend">>,
   <<"PubRelSend", "PubCompPending">>,
   <<"PubCompPending", "PublishDone">>, <<"PubCompPending", "PubCompPending">>}

\* MQTT_CalculateStatePublish
CalculateStatePublish(op, qos) ==
  IF op = "send" THEN (IF qos = 1 THEN "PubAckPending" ELSE "PubRecPending")
                 ELSE (IF qos = 1 THEN "PubAckSend" ELSE "PubRecSend")

\* MQTT_CalculateStateAck: an acknowledgement of the other QoS leads nowhere.
CalculateStateAck(ack, op, qos) ==
  IF (ack = "PUBACK") # (qos = 1) THEN "Null"
  ELSE CASE ack \in {"PUBACK", "PUBCOMP"} -> "PublishDone"
         [] ack = "PUBREC" -> IF op = "send" THEN "PubRelPending" ELSE "PubRelSend"
         [] ack = "PUBREL" -> IF op = "send" THEN "PubCompPending" ELSE "PubCompSend"

\* isPublishOutgoing: whose publish an acknowledgement speaks of.
DirectionOf(ack, op) ==
  IF (ack = "PUBREL") = (op = "send") THEN "outgoing" ELSE "incoming"

\* MQTT_UpdateStatePublish after a PUBLISH was sent, or when one is received.
SentPublish(recs, id, qos) ==
  LET r == recs.outgoing
      i == Find(r, id)
      new == CalculateStatePublish("send", qos)
  IN IF ~Has(r, id) \/ r[i].qos # qos
       THEN [status |-> "BadParameter", records |-> recs]
     ELSE IF <<r[i].publishState, new>> \notin PublishTransitions(qos)
       THEN [status |-> "IllegalState", records |-> recs]
     ELSE [status |-> "Success",
           records |-> [recs EXCEPT !.outgoing = Put(r, i, [r[i] EXCEPT !.publishState = new])]]

ReceivedPublish(recs, id, qos) ==
  LET a == AddRecord(recs.incoming, id, qos, CalculateStatePublish("receive", qos))
  IN [status |-> a.status, records |-> [recs EXCEPT !.incoming = a.array]]

\* Variant: a moved record is not added again.
MoveRecordDrops(r, i, new) ==
  [status |-> "Success",
   array |-> IF new \in {"PublishDone", "PubRelSend"}
               THEN Put(r, i, [r[i] EXCEPT !.packetId = 0])
               ELSE Put(r, i, [r[i] EXCEPT !.publishState = new])]

\* updateStateAck: a finished record is freed; the record of a received PUBREC
\* moves to the end, which keeps the order in which PUBRELs must go out.
MoveRecord(r, i, new) ==
  LET freed == Put(r, i, [r[i] EXCEPT !.packetId = 0])
  IN CASE new = "PublishDone" -> [status |-> "Success", array |-> freed]
       [] new = "PubRelSend" -> AddRecord(freed, r[i].packetId, 2, "PubRelSend")
       [] OTHER -> [status |-> "Success",
                    array |-> Put(r, i, [r[i] EXCEPT !.publishState = new])]

\* MQTT_UpdateStateAck
UpdateStateAck(recs, id, ack, op) ==
  LET d == DirectionOf(ack, op)
      r == recs[d]
      i == Find(r, id)
      new == CalculateStateAck(ack, op, r[i].qos)
      moved == MoveRecord(r, i, new)
  IN IF ~Has(r, id)
       THEN [status |-> "BadResponse", records |-> recs, state |-> "Null"]
     ELSE IF <<r[i].publishState, new>> \notin AckTransitions
       THEN [status |-> "IllegalState", records |-> recs, state |-> "Null"]
     ELSE [status |-> moved.status, records |-> [recs EXCEPT ![d] = moved.array],
           state |-> IF moved.status = "Success" THEN new ELSE "Null"]

-----------------------------------------------------------------------------
(* What must be sent again when a session is resumed.                      *)

UnackedOrReleased ==   \* variant: publishes the broker has already received
  {"PublishSend", "PubAckPending", "PubRecPending", "PubCompPending"}
UnackedPublish == {"PublishSend", "PubAckPending", "PubRecPending"}
UnackedPubrel == {"PubCompPending", "PubRelSend"}

SelectFromNext(r, states, cursor) ==   \* variant: the cursor moves twice
  LET found == {i \in Slots : i > cursor + 1 /\ r[i].publishState \in states}
      at == CHOOSE i \in found : \A j \in found : i <= j
  IN IF found = {} THEN [id |-> 0, cursor |-> Count]
                   ELSE [id |-> r[at].packetId, cursor |-> at]

\* stateSelect: the identifier of the next record in one of the states, from
\* the cursor on, and the cursor behind it.  A freed record is not skipped.
Select(r, states, cursor) ==
  LET found == {i \in Slots : i > cursor /\ r[i].publishState \in states}
      at == CHOOSE i \in found : \A j \in found : i <= j
  IN IF found = {} THEN [id |-> 0, cursor |-> Count]
                   ELSE [id |-> r[at].packetId, cursor |-> at]

PubrelToResend(recs, cursor) == Select(recs.outgoing, UnackedPubrel, cursor)
PublishToResend(recs, cursor) == Select(recs.outgoing, UnackedPublish, cursor)
=============================================================================
