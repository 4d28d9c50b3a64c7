------------------------ MODULE PublishExchange_proofs ------------------------
(***************************************************************************)
(* Proofs about QoS 1 and QoS 2 publishes, for arrays of every length,     *)
(* every range of identifiers and every load: what the state engine does   *)
(* to its records, then how the records, the packets in flight and the     *)
(* broker's half of the session agree.                                     *)
(***************************************************************************)
EXTENDS PublishExchange, FiniteSetTheorems, WellFoundedInduction, TLAPS

-----------------------------------------------------------------------------
(* Slots: the first of a set, and the rank of a slot among those in use.   *)

Less == {ss \in Nat \X Nat : ss[1] < ss[2]}

\* A set of naturals has a least member.
LEMMA Least ==
  ASSUME NEW T, T \subseteq Nat, T # {}
  PROVE  \E m \in T : \A k \in T : m <= k
<1>1. IsWellFoundedOn(Less, Nat)
  BY NatLessThanWellFounded, Zenon DEF Less, OpToRel
<1>2. PICK m \in T : \A k \in T : ~ (<<k, m>> \in Less)
  BY <1>1, WFMin
<1>3. \A k \in T : ~ (k < m) /\ k \in Nat /\ m \in Nat
  BY <1>2 DEF Less
<1> QED
  BY <1>3

\* The slot a search for the first one of a set returns.
LEMMA FirstSlot ==
  ASSUME NEW S, S \subseteq Slots, S # {}
  PROVE  LET at == CHOOSE i \in S : \A j \in S : i <= j
         IN at \in S /\ at \in Slots /\ \A j \in S : at <= j
<1>1. S \subseteq Nat
  BY DEF Slots
<1>2. \E i \in S : \A j \in S : i <= j
  BY <1>1, Least
<1> QED
  BY <1>2

\* The slots in use up to one are that one, if it is in use, and those before.
LEMMA UsedNext ==
  ASSUME NEW r, NEW i \in Nat \ {0}
  PROVE  UsedUpTo(r, i) = IF Free(r, i) THEN UsedUpTo(r, i - 1)
                                        ELSE UsedUpTo(r, i - 1) \cup {i}
  BY DEF UsedUpTo

\* There are finitely many, none before the first slot.
LEMMA UsedFinite ==
  ASSUME NEW r, NEW i \in Nat
  PROVE  /\ IsFiniteSet(UsedUpTo(r, i)) /\ Cardinality(UsedUpTo(r, i)) \in Nat
         /\ Cardinality(UsedUpTo(r, 0)) = 0
         /\ Cardinality(UsedUpTo(r, i)) <= i
<1>1. /\ IsFiniteSet(1 .. i) /\ Cardinality(1 .. i) = i
      /\ UsedUpTo(r, i) \subseteq 1 .. i
  BY FS_Interval DEF UsedUpTo
<1>2. UsedUpTo(r, 0) = {}
  BY DEF UsedUpTo
<1> QED
  BY <1>1, <1>2, FS_Subset, FS_EmptySet, FS_CardinalityType

\* A slot in use has a greater rank than every slot before it.
LEMMA RankGrows ==
  ASSUME NEW r, NEW i \in Nat, NEW j \in Nat, i < j, ~Free(r, j)
  PROVE  Cardinality(UsedUpTo(r, i)) < Cardinality(UsedUpTo(r, j))
<1>1. UsedUpTo(r, i) \subseteq UsedUpTo(r, j) /\ j \in UsedUpTo(r, j) /\ j \notin UsedUpTo(r, i)
  BY DEF UsedUpTo
<1>2. /\ IsFiniteSet(UsedUpTo(r, i)) /\ IsFiniteSet(UsedUpTo(r, j))
      /\ Cardinality(UsedUpTo(r, i)) \in Nat /\ Cardinality(UsedUpTo(r, j)) \in Nat
  BY UsedFinite
<1>3. /\ Cardinality(UsedUpTo(r, i)) <= Cardinality(UsedUpTo(r, j))
      /\ Cardinality(UsedUpTo(r, i)) = Cardinality(UsedUpTo(r, j))
            => UsedUpTo(r, i) = UsedUpTo(r, j)
  BY <1>1, <1>2, FS_Subset
<1> QED
  BY <1>1, <1>2, <1>3

\* Every rank up to the number of slots in use is that of one of them.
LEMMA RankTaken ==
  ASSUME NEW r, NEW i \in 1 .. Cardinality(UsedUpTo(r, Count))
  PROVE  \E j \in Slots : ~Free(r, j) /\ Cardinality(UsedUpTo(r, j)) = i
<1> DEFINE T == {j \in 0 .. Count : Cardinality(UsedUpTo(r, j)) >= i}
<1>1. Count \in Nat /\ i \in Nat /\ i >= 1
  BY UsedFinite, CountAssumption
<1>2. PICK j \in T : \A k \in T : j <= k
  <2>1. Count \in T
    BY <1>1, UsedFinite
  <2>2. T \subseteq Nat
    BY <1>1
  <2> HIDE DEF T
  <2> QED
    BY <2>1, <2>2, Least
<1>3. j \in 0 .. Count /\ j # 0
  BY <1>1, UsedFinite
<1>4. j - 1 \in 0 .. Count /\ j - 1 \notin T /\ j \in Nat \ {0}
  BY <1>1, <1>2, <1>3
<1>5. /\ Cardinality(UsedUpTo(r, j - 1)) < i
      /\ Cardinality(UsedUpTo(r, j)) >= i
      /\ Cardinality(UsedUpTo(r, j - 1)) \in Nat
  BY <1>1, <1>2, <1>4, UsedFinite
<1>6. ~Free(r, j)
  BY <1>1, <1>4, <1>5, UsedNext
<1>7. Cardinality(UsedUpTo(r, j)) = Cardinality(UsedUpTo(r, j - 1)) + 1
  <2>1. IsFiniteSet(UsedUpTo(r, j - 1)) /\ j \notin UsedUpTo(r, j - 1)
    BY <1>4, UsedFinite DEF UsedUpTo
  <2> QED
    BY <1>4, <1>6, <2>1, UsedNext, FS_AddElement
<1> QED
  BY <1>1, <1>3, <1>5, <1>6, <1>7 DEF Slots

-----------------------------------------------------------------------------
(* The operations on an array of records.                                  *)

Array == [Slots -> Records]

\* The records in use of the one array are those of the other, in order.
Shifted(new, old) ==
  \E from \in [Slots -> Slots] :
    /\ \A i \in Slots : ~Free(new, i) => new[i] = old[from[i]]
    /\ \A i, j \in Slots : i < j /\ ~Free(new, i) /\ ~Free(new, j) => from[i] < from[j]
    /\ \A j \in Slots : ~Free(old, j) => \E i \in Slots : ~Free(new, i) /\ from[i] = j

\* compactRecords keeps the records and their order, and leaves no hole.
LEMMA CompactShifts ==
  ASSUME NEW r \in Array
  PROVE  /\ Compact(r) \in Array
         /\ Shifted(Compact(r), r)
         /\ \A i \in Slots : Free(Compact(r), i) <=> i > Cardinality(UsedUpTo(r, Count))
<1> DEFINE N == Cardinality(UsedUpTo(r, Count))
           at(i) == CHOOSE j \in Slots : ~Free(r, j) /\ Cardinality(UsedUpTo(r, j)) = i
           c == Compact(r)
           from == [i \in Slots |-> IF i <= N THEN at(i) ELSE i]
<1>1. N \in Nat /\ N <= Count /\ Count \in Nat
  BY UsedFinite, CountAssumption
<1>2. \A i \in Slots : i <= N =>
        at(i) \in Slots /\ ~Free(r, at(i)) /\ Cardinality(UsedUpTo(r, at(i))) = i
  BY <1>1, RankTaken DEF Slots
<1>3. c = [i \in Slots |-> IF i <= N THEN r[at(i)] ELSE [r[i] EXCEPT !.packetId = 0]]
  BY DEF Compact
<1>4. from \in [Slots -> Slots]
  BY <1>2
<1> HIDE DEF at, c
<1>5. \A i \in Slots : c[i] \in Records
  BY <1>2, <1>3 DEF Array, Records
<1>6. \A i \in Slots : Free(c, i) <=> i > N
  BY <1>1, <1>2, <1>3 DEF Free, Array, Records, Slots
<1>7. \A i \in Slots : ~Free(c, i) => c[i] = r[from[i]]
  BY <1>1, <1>3, <1>6 DEF Slots
<1>8. \A i, j \in Slots : i < j /\ ~Free(c, i) /\ ~Free(c, j) => from[i] < from[j]
  <2> SUFFICES ASSUME NEW i \in Slots, NEW j \in Slots, i < j, ~Free(c, i), ~Free(c, j),
                      ~(from[i] < from[j])
               PROVE  FALSE
    OBVIOUS
  <2>1. i <= N /\ j <= N
    BY <1>1, <1>6 DEF Slots
  <2>2. from[i] = at(i) /\ from[j] = at(j)
    BY <2>1
  <2>3. at(j) < at(i) \/ at(j) = at(i)
    BY <1>2, <2>1, <2>2 DEF Slots
  <2>4. at(j) < at(i) => Cardinality(UsedUpTo(r, at(j))) < Cardinality(UsedUpTo(r, at(i)))
    BY <1>2, <2>1, RankGrows DEF Slots
  <2> QED
    BY <1>2, <2>1, <2>3, <2>4 DEF Slots
<1>9. \A j \in Slots : ~Free(r, j) => \E i \in Slots : ~Free(c, i) /\ from[i] = j
  <2> SUFFICES ASSUME NEW j \in Slots, ~Free(r, j)
               PROVE  \E i \in Slots : ~Free(c, i) /\ from[i] = j
    OBVIOUS
  <2> DEFINE i == Cardinality(UsedUpTo(r, j))
  <2>1. i \in Nat /\ i >= 1
    <3>1. Cardinality(UsedUpTo(r, 0)) = 0 /\ 0 < j /\ 0 \in Nat /\ j \in Nat
      BY UsedFinite DEF Slots
    <3> QED
      BY <3>1, RankGrows, UsedFinite
  <2>2. i <= N
    <3>1. UsedUpTo(r, j) \subseteq UsedUpTo(r, Count)
      BY <1>1 DEF UsedUpTo, Slots
    <3> QED
      BY <1>1, <3>1, UsedFinite, FS_Subset
  <2>3. i \in Slots
    BY <1>1, <2>1, <2>2 DEF Slots
  <2>4. at(i) = j
    <3>1. at(i) \in Slots /\ ~Free(r, at(i)) /\ Cardinality(UsedUpTo(r, at(i))) = i
      BY <1>2, <2>2, <2>3
    <3>2. at(i) < j => Cardinality(UsedUpTo(r, at(i))) < i
      BY <3>1, RankGrows DEF Slots
    <3>3. j < at(i) => i < Cardinality(UsedUpTo(r, at(i)))
      BY <3>1, RankGrows DEF Slots
    <3> HIDE DEF i
    <3> QED
      BY <2>1, <3>1, <3>2, <3>3 DEF Slots
  <2>5. ~Free(c, i)
    BY <1>1, <1>6, <2>1, <2>2, <2>3
  <2> QED
    BY <2>2, <2>3, <2>4, <2>5
<1>10. c \in Array
  BY <1>3, <1>5 DEF Array
<1> QED
  BY <1>4, <1>6, <1>7, <1>8, <1>9, <1>10 DEF Shifted, c

\* So does addRecord's compaction, done or not; the last slot is in use after
\* it only when every slot was.
LEMMA CompactIfFullShifts ==
  ASSUME NEW r \in Array
  PROVE  /\ CompactIfFull(r) \in Array
         /\ Shifted(CompactIfFull(r), r)
         /\ ~Free(CompactIfFull(r), Count) =>
              \A i \in Slots : ~Free(r, i) /\ ~Free(CompactIfFull(r), i)
<1>0. Count \in Slots /\ Count \in Nat
  BY CountAssumption DEF Slots
<1>1. CASE Free(r, Count)
  <2>1. Shifted(r, r)
    <3> DEFINE same == [i \in Slots |-> i]
    <3>1. same \in [Slots -> Slots]
      OBVIOUS
    <3>2. /\ \A i \in Slots : ~Free(r, i) => r[i] = r[same[i]]
          /\ \A i, j \in Slots : i < j /\ ~Free(r, i) /\ ~Free(r, j) => same[i] < same[j]
          /\ \A j \in Slots : ~Free(r, j) => \E i \in Slots : ~Free(r, i) /\ same[i] = j
      OBVIOUS
    <3> QED
      BY <3>1, <3>2 DEF Shifted
  <2> QED
    BY <1>1, <2>1 DEF CompactIfFull
<1>2. CASE ~Free(r, Count)
  <2>1. CompactIfFull(r) = Compact(r)
    BY <1>2 DEF CompactIfFull
  <2>2. ASSUME ~Free(Compact(r), Count)
        PROVE  \A i \in Slots : ~Free(r, i) /\ ~Free(Compact(r), i)
    <3>1. /\ ~(Count > Cardinality(UsedUpTo(r, Count)))
          /\ Cardinality(UsedUpTo(r, Count)) \in Nat
      BY <1>0, <2>2, CompactShifts, UsedFinite
    <3>2. /\ IsFiniteSet(1 .. Count) /\ Cardinality(1 .. Count) = Count
          /\ UsedUpTo(r, Count) \subseteq 1 .. Count
      BY <1>0, FS_Interval DEF UsedUpTo
    <3>3. UsedUpTo(r, Count) = 1 .. Count
      BY <1>0, <3>1, <3>2, FS_Subset, UsedFinite
    <3>4. \A i \in Slots : ~(i > Cardinality(UsedUpTo(r, Count)))
      BY <1>0, <3>1 DEF Slots
    <3> QED
      BY <3>3, <3>4, CompactShifts DEF UsedUpTo, Slots
  <2> QED
    BY <2>1, <2>2, CompactShifts
<1> QED
  BY <1>1, <1>2

\* A record is found after a compaction exactly when it was there before.
LEMMA ShiftedHas ==
  ASSUME NEW new \in Array, NEW old \in Array, Shifted(new, old), NEW id \in Ids
  PROVE  Has(new, id) <=> Has(old, id)
<1>1. PICK from \in [Slots -> Slots] :
        /\ \A i \in Slots : ~Free(new, i) => new[i] = old[from[i]]
        /\ \A j \in Slots : ~Free(old, j) => \E i \in Slots : ~Free(new, i) /\ from[i] = j
  BY DEF Shifted
<1>2. id # 0
  BY DEF Ids
<1>3. ASSUME NEW i \in Slots, new[i].packetId = id PROVE Has(old, id)
  BY <1>1, <1>2, <1>3 DEF Has, Free
<1>4. ASSUME NEW j \in Slots, old[j].packetId = id PROVE Has(new, id)
  <2>1. PICK i \in Slots : ~Free(new, i) /\ from[i] = j
    BY <1>1, <1>2, <1>4 DEF Free
  <2> QED
    BY <1>1, <1>4, <2>1 DEF Has
<1> QED
  BY <1>3, <1>4 DEF Has

\* A new record stands behind the records in use.
Added(new, old, record) ==
  \E c \in Array, at \in Slots :
    /\ Shifted(c, old)
    /\ \A j \in Slots : j >= at => Free(c, j)
    /\ new = Put(c, at, record)

\* addRecord adds the record, or finds its identifier taken, or no slot free in
\* an array that is full to the last.
LEMMA AddRecordWorks ==
  ASSUME NEW r \in Array, NEW id \in Ids, NEW qos \in 0 .. 2, NEW state \in PublishStates
  PROVE  LET a == AddRecord(r, id, qos, state)
             record == [packetId |-> id, qos |-> qos, publishState |-> state]
         IN \/ a.status = "Success" /\ a.array \in Array /\ ~Has(r, id) /\ Added(a.array, r, record)
            \/ a.status = "StateCollision" /\ a.array \in Array /\ Has(r, id) /\ Shifted(a.array, r)
            \/ /\ a.status = "NoMemory" /\ a.array \in Array /\ Shifted(a.array, r)
               /\ \A i \in Slots : ~Free(r, i) /\ ~Free(a.array, i)
<1> DEFINE c == CompactIfFull(r)
           free == FreeAtEnd(c)
           record == [packetId |-> id, qos |-> qos, publishState |-> state]
           at == CHOOSE i \in free : \A j \in free : i <= j
           a == AddRecord(r, id, qos, state)
<1>0. Count \in Slots /\ Count \in Nat
  BY CountAssumption DEF Slots
<1>1. /\ c \in Array /\ Shifted(c, r)
      /\ ~Free(c, Count) => \A i \in Slots : ~Free(r, i) /\ ~Free(c, i)
  BY CompactIfFullShifts
<1>2. a = IF Has(c, id) THEN [status |-> "StateCollision", array |-> c]
          ELSE IF free = {} THEN [status |-> "NoMemory", array |-> c]
          ELSE [status |-> "Success", array |-> Put(c, at, record)]
  BY DEF AddRecord
<1>3. Has(c, id) <=> Has(r, id)
  BY <1>1, ShiftedHas
<1>4. free = {} => ~Free(c, Count)
  <2>1. Free(c, Count) => Count \in free
    BY <1>0 DEF FreeAtEnd
  <2> QED
    BY <2>1
<1>5. free # {} => /\ at \in Slots
                   /\ \A j \in Slots : j >= at => Free(c, j)
  <2>1. free \subseteq Slots
    BY DEF FreeAtEnd
  <2>2. free # {} => at \in free /\ at \in Slots
    BY <2>1, FirstSlot
  <2>3. \A i \in free : \A j \in Slots : j >= i => Free(c, j)
    BY <1>0 DEF FreeAtEnd, Slots
  <2> QED
    BY <2>2, <2>3
<1>6. record \in Records
  BY DEF Records
<1>7. free # {} => Put(c, at, record) \in Array
  BY <1>1, <1>5, <1>6 DEF Put, Array
<1> HIDE DEF c, free, at, a, record
<1>8. CASE Has(c, id)
  BY <1>1, <1>2, <1>3, <1>8 DEF a, record
<1>9. CASE ~Has(c, id) /\ free = {}
  BY <1>1, <1>2, <1>3, <1>4, <1>9 DEF a, record
<1>10. CASE ~Has(c, id) /\ free # {}
  <2>1. Added(Put(c, at, record), r, record)
    BY <1>1, <1>5, <1>10 DEF Added
  <2> QED
    BY <1>2, <1>3, <1>7, <1>10, <2>1 DEF a, record
<1> QED
  BY <1>8, <1>9, <1>10

\* findInRecord returns a slot that holds the identifier.
LEMMA FindWorks ==
  ASSUME NEW r, NEW id, Has(r, id)
  PROVE  Find(r, id) \in Slots /\ r[Find(r, id)].packetId = id
<1> DEFINE S == {i \in Slots : r[i].packetId = id}
<1>1. PICK i \in S : \A j \in S : i <= j
  <2>1. S # {} /\ S \subseteq Nat
    BY DEF Has, Slots
  <2> HIDE DEF S
  <2> QED
    BY <2>1, Least
<1>2. \A j \in 1 .. i - 1 : r[j].packetId # id
  BY <1>1, CountAssumption DEF Slots
<1> QED
  BY <1>1, <1>2 DEF Find

\* A record freed, and one moved on where it stands.
Freed(r, i) == Put(r, i, [r[i] EXCEPT !.packetId = 0])
Moved(r, i, state) == Put(r, i, [r[i] EXCEPT !.publishState = state])

\* Both leave the other slots as they are.
LEMMA PutType ==
  ASSUME NEW r \in Array, NEW i \in Slots, NEW state \in PublishStates
  PROVE  /\ Freed(r, i) \in Array /\ Moved(r, i, state) \in Array
         /\ \A j \in Slots : /\ Freed(r, i)[j].packetId = IF j = i THEN 0 ELSE r[j].packetId
                             /\ Freed(r, i)[j].publishState = r[j].publishState
                             /\ Moved(r, i, state)[j].packetId = r[j].packetId
                             /\ Moved(r, i, state)[j].publishState
                                  = IF j = i THEN state ELSE r[j].publishState
<1>1. r[i] \in Records
  BY DEF Array
<1>2. [r[i] EXCEPT !.packetId = 0] \in Records /\ [r[i] EXCEPT !.publishState = state] \in Records
  BY <1>1 DEF Records
<1>3. \A j \in Slots : r[j] \in Records
  BY DEF Array
<1> QED
  BY <1>1, <1>2, <1>3 DEF Freed, Moved, Put, Array, Records

\* No identifier has two records.
Unique(r) == \A i, j \in Slots : ~Free(r, i) /\ r[i].packetId = r[j].packetId => i = j

\* What an acknowledgement does to the array of its direction: the record is
\* freed, moves to the end, or moves on.
Acknowledged(new, old, id, state) ==
  \E i \in Slots :
    /\ old[i].packetId = id
    /\ <<old[i].publishState, state>> \in AckTransitions
    /\ \/ state = "PublishDone" /\ new = Freed(old, i)
       \/ /\ state = "PubRelSend"
          /\ Added(new, Freed(old, i), [packetId |-> id, qos |-> 2, publishState |-> "PubRelSend"])
       \/ state \notin {"PublishDone", "PubRelSend"} /\ new = Moved(old, i, state)

RecordsType == [outgoing : Array, incoming : Array]

\* MQTT_UpdateStateAck fails and changes nothing, or changes the record of its
\* identifier alone: the record it moves to the end always finds room there.
LEMMA UpdateStateAckWorks ==
  ASSUME NEW recs \in RecordsType, Unique(recs.outgoing),
         NEW id \in Ids, NEW ack \in Acks, NEW op \in {"send", "receive"}
  PROVE  LET u == UpdateStateAck(recs, id, ack, op)
             d == DirectionOf(ack, op)
         IN \/ u.status \in {"BadResponse", "IllegalState"} /\ u.records = recs
            \/ /\ u.status = "Success"
               /\ \E a \in Array : /\ Acknowledged(a, recs[d], id, u.state)
                                  /\ u.records = [recs EXCEPT ![d] = a]
               /\ u.state = "PubRelSend" => ack = "PUBREC" /\ op = "receive"
               /\ ack \in {"PUBACK", "PUBCOMP"} => u.state = "PublishDone"
<1> DEFINE u == UpdateStateAck(recs, id, ack, op)
           d == DirectionOf(ack, op)
           r == recs[d]
           i == Find(r, id)
           new == CalculateStateAck(ack, op, r[i].qos)
           moved == MoveRecord(r, i, new)
<1> SUFFICES \/ u.status \in {"BadResponse", "IllegalState"} /\ u.records = recs
             \/ /\ u.status = "Success"
                /\ \E a \in Array : /\ Acknowledged(a, r, id, u.state)
                                   /\ u.records = [recs EXCEPT ![d] = a]
                /\ u.state = "PubRelSend" => ack = "PUBREC" /\ op = "receive"
                /\ ack \in {"PUBACK", "PUBCOMP"} => u.state = "PublishDone"
  OBVIOUS
<1>1. d \in Directions /\ r \in Array
  BY DEF DirectionOf, Directions, RecordsType
<1>2. CASE ~Has(r, id)
  BY <1>2 DEF UpdateStateAck
<1>3. CASE Has(r, id) /\ <<r[i].publishState, new>> \notin AckTransitions
  BY <1>3 DEF UpdateStateAck
<1>4. CASE Has(r, id) /\ <<r[i].publishState, new>> \in AckTransitions
  <2>1. i \in Slots /\ r[i].packetId = id /\ id # 0
    BY <1>4, FindWorks DEF Ids
  <2>2. u = [status |-> moved.status, records |-> [recs EXCEPT ![d] = moved.array],
             state |-> IF moved.status = "Success" THEN new ELSE "Null"]
    BY <1>4 DEF UpdateStateAck
  <2>3. new \in PublishStates /\ new # "Null"
    BY <1>4 DEF AckTransitions, PublishStates
  <2>4. /\ new = "PubRelSend" => ack = "PUBREC" /\ op = "receive"
        /\ ack \in {"PUBACK", "PUBCOMP"} => new = "PublishDone"
    BY <2>3 DEF CalculateStateAck, Acks
  <2>5. new = "PubRelSend" => r = recs.outgoing
    BY <2>4 DEF DirectionOf
  <2>6. ASSUME NEW a \in Array, moved.status = "Success", moved.array = a, Acknowledged(a, r, id, new)
        PROVE  /\ u.status = "Success" /\ u.state = new
               /\ Acknowledged(a, r, id, u.state) /\ u.records = [recs EXCEPT ![d] = a]
    BY <2>2, <2>6
  <2> HIDE DEF u, new, moved, i, r, d
  <2>7. Freed(r, i) \in Array /\ Moved(r, i, new) \in Array
    BY <1>1, <2>1, <2>3, PutType
  <2>8. CASE new = "PublishDone"
    <3>1. moved.status = "Success" /\ moved.array = Freed(r, i)
      BY <2>8 DEF moved, MoveRecord, Freed
    <3>2. Acknowledged(Freed(r, i), r, id, new)
      BY <1>4, <2>1, <2>8 DEF Acknowledged
    <3> QED
      BY <2>4, <2>6, <2>7, <3>1, <3>2
  <2>9. CASE new = "PubRelSend"
    <3> DEFINE a == AddRecord(Freed(r, i), id, 2, "PubRelSend")
               record == [packetId |-> id, qos |-> 2, publishState |-> "PubRelSend"]
    <3>1. moved = a
      BY <2>1, <2>9 DEF moved, MoveRecord, Freed
    <3>2. \A j \in Slots : Freed(r, i)[j].packetId = IF j = i THEN 0 ELSE r[j].packetId
      BY <1>1, <2>1, <2>3, PutType
    <3>3. ~Has(Freed(r, i), id) /\ Free(Freed(r, i), i)
      BY <2>1, <2>5, <2>9, <3>2 DEF Has, Unique, Free
    <3>4. a.status = "Success" /\ a.array \in Array /\ Added(a.array, Freed(r, i), record)
      <4>1. "PubRelSend" \in PublishStates /\ 2 \in 0 .. 2
        BY DEF PublishStates
      <4>2. \/ a.status = "Success" /\ a.array \in Array /\ Added(a.array, Freed(r, i), record)
            \/ Has(Freed(r, i), id)
            \/ \A j \in Slots : ~Free(Freed(r, i), j)
        BY ONLY <2>7, <4>1, AddRecordWorks, id \in Ids
      <4> QED
        BY <2>1, <3>3, <4>2
    <3>5. Acknowledged(a.array, r, id, new)
      BY <1>4, <2>1, <2>9, <3>4 DEF Acknowledged
    <3> HIDE DEF a
    <3> QED
      BY <2>4, <2>6, <2>9, <3>1, <3>4, <3>5
  <2>10. CASE new \notin {"PublishDone", "PubRelSend"}
    <3>1. moved.status = "Success" /\ moved.array = Moved(r, i, new)
      BY <2>10 DEF moved, MoveRecord, Moved
    <3>2. Acknowledged(Moved(r, i, new), r, id, new)
      BY <1>4, <2>1, <2>10 DEF Acknowledged
    <3> QED
      BY <2>4, <2>6, <2>7, <2>10, <3>1, <3>2
  <2> QED
    BY <2>8, <2>9, <2>10
<1> QED
  BY <1>2, <1>3, <1>4

\* MQTT_UpdateStatePublish after a send fails and changes nothing, or moves the
\* record of a publish that waits on to another state in which it waits.
LEMMA SentPublishWorks ==
  ASSUME NEW recs \in RecordsType, NEW id, NEW qos
  PROVE  LET s == SentPublish(recs, id, qos)
             new == CalculateStatePublish("send", qos)
         IN \/ s.status \in {"BadParameter", "IllegalState"} /\ s.records = recs
            \/ /\ s.status = "Success"
               /\ \E i \in Slots :
                    /\ recs.outgoing[i].packetId = id
                    /\ recs.outgoing[i].publishState \in UnackedPublish
                    /\ s.records = [recs EXCEPT !.outgoing = Moved(recs.outgoing, i, new)]
               /\ new \in UnackedPublish
<1> DEFINE r == recs.outgoing
           i == Find(r, id)
           new == CalculateStatePublish("send", qos)
           s == SentPublish(recs, id, qos)
<1>1. new \in UnackedPublish
  BY DEF CalculateStatePublish, UnackedPublish
<1>2. CASE ~Has(r, id) \/ r[i].qos # qos \/ <<r[i].publishState, new>> \notin PublishTransitions(qos)
  BY <1>2 DEF SentPublish
<1>3. CASE Has(r, id) /\ r[i].qos = qos /\ <<r[i].publishState, new>> \in PublishTransitions(qos)
  <2>1. i \in Slots /\ r[i].packetId = id
    BY <1>3, FindWorks
  <2>2. r[i].publishState \in UnackedPublish
    BY <1>3 DEF PublishTransitions, UnackedPublish
  <2>3. s = [status |-> "Success", records |-> [recs EXCEPT !.outgoing = Moved(r, i, new)]]
    BY <1>3 DEF SentPublish, Moved
  <2> HIDE DEF i, new, s
  <2> QED
    BY <1>1, <2>1, <2>2, <2>3 DEF s, new
<1> QED
  BY <1>2, <1>3

-----------------------------------------------------------------------------
(* The order of the records.                                               *)

Waiting(r, i) == ~Free(r, i) /\ r[i].publishState \in UnackedPublish

\* No identifier has two records, the publishes that wait stand in the order
\* of their numbers, and none has a number that was not given yet.
InOrder(r, copies, last) ==
  /\ Unique(r)
  /\ \A i, j \in Slots : Waiting(r, i) /\ Waiting(r, j) /\ i < j =>
       copies[r[i].packetId].n < copies[r[j].packetId].n
  /\ \A i \in Slots : Waiting(r, i) => copies[r[i].packetId].n <= last

\* An array whose records in use are some of another's, in order, and wait only
\* if they did there.
Thinned(new, old) ==
  \E from \in [Slots -> Slots] :
    /\ \A i \in Slots : ~Free(new, i) =>
         /\ new[i].packetId = old[from[i]].packetId
         /\ Waiting(new, i) => Waiting(old, from[i])
    /\ \A i, j \in Slots : i < j /\ ~Free(new, i) /\ ~Free(new, j) => from[i] < from[j]

\* Such an array has no identifier twice either.
LEMMA ThinnedUnique ==
  ASSUME NEW new, NEW old, Thinned(new, old), Unique(old)
  PROVE  Unique(new)
<1>1. PICK from \in [Slots -> Slots] :
        /\ \A i \in Slots : ~Free(new, i) => new[i].packetId = old[from[i]].packetId
        /\ \A i, j \in Slots : i < j /\ ~Free(new, i) /\ ~Free(new, j) => from[i] < from[j]
  BY DEF Thinned
<1> SUFFICES ASSUME NEW i \in Slots, NEW j \in Slots, ~Free(new, i),
                    new[i].packetId = new[j].packetId, i # j
             PROVE  FALSE
  BY DEF Unique
<1>2. ~Free(new, j)
  BY DEF Free
<1>3. /\ old[from[i]].packetId = old[from[j]].packetId
      /\ ~Free(old, from[i]) /\ from[i] \in Slots /\ from[j] \in Slots
  BY <1>1, <1>2 DEF Free
<1>4. from[i] = from[j]
  BY <1>3 DEF Unique
<1>5. i < j \/ j < i
  BY DEF Slots
<1> QED
  BY <1>1, <1>2, <1>4, <1>5 DEF Slots

\* And it keeps the order.
LEMMA ThinnedInOrder ==
  ASSUME NEW new, NEW old, NEW copies, NEW last,
         Thinned(new, old), InOrder(old, copies, last)
  PROVE  InOrder(new, copies, last)
<1>1. PICK from \in [Slots -> Slots] :
        /\ \A i \in Slots : ~Free(new, i) =>
             /\ new[i].packetId = old[from[i]].packetId
             /\ Waiting(new, i) => Waiting(old, from[i])
        /\ \A i, j \in Slots : i < j /\ ~Free(new, i) /\ ~Free(new, j) => from[i] < from[j]
  BY DEF Thinned
<1>2. Unique(new)
  BY ThinnedUnique DEF InOrder
<1>3. \A i \in Slots : Waiting(new, i) =>
        /\ ~Free(new, i) /\ from[i] \in Slots /\ Waiting(old, from[i])
        /\ new[i].packetId = old[from[i]].packetId
  BY <1>1 DEF Waiting
<1>4. ASSUME NEW i \in Slots, NEW j \in Slots, Waiting(new, i), Waiting(new, j), i < j
      PROVE  copies[new[i].packetId].n < copies[new[j].packetId].n
  <2>1. from[i] < from[j]
    BY <1>1, <1>3, <1>4
  <2> QED
    BY <1>3, <1>4, <2>1 DEF InOrder
<1>5. \A i \in Slots : Waiting(new, i) => copies[new[i].packetId].n <= last
  BY <1>3 DEF InOrder
<1> QED
  BY <1>2, <1>4, <1>5 DEF InOrder

\* Compaction thins an array, and so does freeing or moving on a record.
LEMMA Thinning ==
  ASSUME NEW old \in Array
  PROVE  /\ Thinned(old, old)
         /\ \A new \in Array : Shifted(new, old) => Thinned(new, old)
         /\ \A i \in Slots : Thinned(Freed(old, i), old)
         /\ \A i \in Slots, state \in PublishStates :
              state \notin UnackedPublish \/ old[i].publishState \in UnackedPublish
                => Thinned(Moved(old, i, state), old)
<1> DEFINE same == [i \in Slots |-> i]
<1>1. same \in [Slots -> Slots] /\ \A i \in Slots : same[i] = i
  OBVIOUS
<1> HIDE DEF same
<1>2. Thinned(old, old)
  BY <1>1 DEF Thinned
<1>3. ASSUME NEW new \in Array, Shifted(new, old) PROVE Thinned(new, old)
  <2>1. PICK from \in [Slots -> Slots] :
          /\ \A i \in Slots : ~Free(new, i) => new[i] = old[from[i]]
          /\ \A i, j \in Slots : i < j /\ ~Free(new, i) /\ ~Free(new, j) => from[i] < from[j]
    BY <1>3 DEF Shifted
  <2>2. \A i \in Slots : ~Free(new, i) =>
          /\ new[i].packetId = old[from[i]].packetId
          /\ Waiting(new, i) => Waiting(old, from[i])
    BY <2>1 DEF Waiting, Free
  <2> QED
    BY <2>1, <2>2 DEF Thinned
<1>4. ASSUME NEW i \in Slots PROVE Thinned(Freed(old, i), old)
  <2>1. \A j \in Slots : /\ Freed(old, i)[j].packetId = IF j = i THEN 0 ELSE old[j].packetId
                        /\ Freed(old, i)[j].publishState = old[j].publishState
    BY PutType DEF PublishStates
  <2>2. \A j \in Slots : ~Free(Freed(old, i), j) =>
          /\ Freed(old, i)[j].packetId = old[same[j]].packetId
          /\ Waiting(Freed(old, i), j) => Waiting(old, same[j])
    BY <1>1, <2>1 DEF Waiting, Free
  <2> QED
    BY <1>1, <2>2 DEF Thinned
<1>5. ASSUME NEW i \in Slots, NEW state \in PublishStates,
             state \notin UnackedPublish \/ old[i].publishState \in UnackedPublish
      PROVE  Thinned(Moved(old, i, state), old)
  <2>1. \A j \in Slots : /\ Moved(old, i, state)[j].packetId = old[j].packetId
                        /\ Moved(old, i, state)[j].publishState
                              = IF j = i THEN state ELSE old[j].publishState
    BY PutType
  <2>2. \A j \in Slots : ~Free(Moved(old, i, state), j) =>
          /\ Moved(old, i, state)[j].packetId = old[same[j]].packetId
          /\ Waiting(Moved(old, i, state), j) => Waiting(old, same[j])
    BY <1>1, <1>5, <2>1 DEF Waiting, Free
  <2> QED
    BY <1>1, <2>2 DEF Thinned
<1> QED
  BY <1>2, <1>3, <1>4, <1>5

\* A record added keeps the order when it does not wait, or has the highest
\* number.
LEMMA AddedInOrder ==
  ASSUME NEW old \in Array, NEW new, NEW record \in Records, NEW copies, NEW last \in Nat,
         Added(new, old, record), record.packetId \in Ids, ~Has(old, record.packetId),
         InOrder(old, copies, last),
         record.publishState \in UnackedPublish =>
           /\ copies[record.packetId].n <= last
           /\ \A i \in Slots : Waiting(old, i) =>
                copies[old[i].packetId].n < copies[record.packetId].n
  PROVE  InOrder(new, copies, last)
<1>1. PICK c \in Array, at \in Slots :
        /\ Shifted(c, old)
        /\ \A j \in Slots : j >= at => Free(c, j)
        /\ new = Put(c, at, record)
  BY DEF Added
<1>2. InOrder(c, copies, last)
  BY <1>1, Thinning, ThinnedInOrder
<1>3. ~Has(c, record.packetId)
  BY <1>1, ShiftedHas
<1>4. \A i \in Slots : i # at => new[i] = c[i]
  BY <1>1 DEF Put
<1>5. new[at] = record
  BY <1>1 DEF Put
<1>6. \A i \in Slots : i # at =>
        /\ Waiting(new, i) => Waiting(c, i)
        /\ new[i].packetId = c[i].packetId
  BY <1>4 DEF Free, Waiting
<1>7. \A i \in Slots : Waiting(c, i) /\ record.publishState \in UnackedPublish =>
          copies[c[i].packetId].n < copies[record.packetId].n
  <2>1. PICK from \in [Slots -> Slots] : \A i \in Slots : ~Free(c, i) => c[i] = old[from[i]]
    BY <1>1 DEF Shifted
  <2>2. \A i \in Slots : Waiting(c, i) =>
          /\ from[i] \in Slots /\ Waiting(old, from[i]) /\ c[i].packetId = old[from[i]].packetId
    BY <2>1 DEF Waiting, Free
  <2> QED
    BY <2>2
<1>8. /\ Waiting(new, at) => record.publishState \in UnackedPublish
      /\ new[at].packetId = record.packetId
  BY <1>5 DEF Waiting
<1>9. \A j \in Slots : j > at => ~Waiting(new, j)
  <2>1. \A j \in Slots : j > at => j # at /\ j >= at
    BY DEF Slots
  <2> QED
    BY <1>1, <1>6, <2>1 DEF Waiting
<1>10. Unique(new)
  BY <1>2, <1>3, <1>4, <1>5 DEF Unique, InOrder, Has, Free
<1>11. ASSUME NEW i \in Slots, NEW j \in Slots, Waiting(new, i), Waiting(new, j), i < j
       PROVE  copies[new[i].packetId].n < copies[new[j].packetId].n
  <2>1. i # at
    BY <1>9, <1>11 DEF Slots
  <2>2. Waiting(c, i) /\ new[i].packetId = c[i].packetId
    BY <1>6, <1>11, <2>1
  <2>3. CASE j = at
    BY <1>7, <1>8, <1>11, <2>2, <2>3
  <2>4. CASE j # at
    <3>1. Waiting(c, j) /\ new[j].packetId = c[j].packetId
      BY <1>6, <1>11, <2>4
    <3> QED
      BY <1>2, <1>11, <2>2, <3>1 DEF InOrder
  <2> QED
    BY <2>3, <2>4
<1>12. ASSUME NEW i \in Slots, Waiting(new, i)
       PROVE  copies[new[i].packetId].n <= last
  <2>1. CASE i = at
    BY <1>8, <1>12, <2>1
  <2>2. CASE i # at
    <3>1. Waiting(c, i) /\ new[i].packetId = c[i].packetId
      BY <1>6, <1>12, <2>2
    <3> QED
      BY <1>2, <3>1 DEF InOrder
  <2> QED
    BY <2>1, <2>2
<1> QED
  BY <1>10, <1>11, <1>12 DEF InOrder

\* The order depends on the copies of the publishes that wait alone.
LEMMA CopiesInOrder ==
  ASSUME NEW r, NEW copies, NEW last \in Nat, NEW others, NEW later \in Nat,
         InOrder(r, copies, last), last <= later,
         \A i \in Slots : Waiting(r, i) => /\ others[r[i].packetId] = copies[r[i].packetId]
                                          /\ copies[r[i].packetId].n \in Nat
  PROVE  InOrder(r, others, later)
  BY DEF InOrder

\* What an acknowledgement does keeps the order.
LEMMA AcknowledgedInOrder ==
  ASSUME NEW old \in Array, NEW new \in Array, NEW id \in Ids, NEW state, NEW copies, NEW last \in Nat,
         Acknowledged(new, old, id, state), InOrder(old, copies, last)
  PROVE  /\ InOrder(new, copies, last)
         /\ state = "PublishDone" => ~Has(new, id)
<1>1. PICK i \in Slots :
        /\ old[i].packetId = id
        /\ <<old[i].publishState, state>> \in AckTransitions
        /\ \/ state = "PublishDone" /\ new = Freed(old, i)
           \/ /\ state = "PubRelSend"
              /\ Added(new, Freed(old, i), [packetId |-> id, qos |-> 2, publishState |-> "PubRelSend"])
           \/ state \notin {"PublishDone", "PubRelSend"} /\ new = Moved(old, i, state)
  BY DEF Acknowledged
<1>2. state \in PublishStates /\ state \notin UnackedPublish
  BY <1>1 DEF AckTransitions, PublishStates, UnackedPublish
<1>3. /\ Freed(old, i) \in Array
      /\ \A j \in Slots : Freed(old, i)[j].packetId = IF j = i THEN 0 ELSE old[j].packetId
  BY <1>2, PutType
<1>4. ~Has(Freed(old, i), id)
  BY <1>1, <1>3 DEF Has, Ids, InOrder, Unique, Free
<1>5. InOrder(Freed(old, i), copies, last)
  BY Thinning, ThinnedInOrder
<1>6. CASE state = "PublishDone"
  BY <1>1, <1>4, <1>5, <1>6
<1>7. CASE state = "PubRelSend"
  <2> DEFINE record == [packetId |-> id, qos |-> 2, publishState |-> "PubRelSend"]
  <2>1. /\ record \in Records /\ record.packetId = id
        /\ record.publishState \notin UnackedPublish
    BY DEF Records, PublishStates, UnackedPublish
  <2>2. Added(new, Freed(old, i), record)
    BY <1>1, <1>7
  <2> HIDE DEF record
  <2>3. InOrder(new, copies, last)
    BY <1>3, <1>4, <1>5, <2>1, <2>2, AddedInOrder
  <2> QED
    BY <1>7, <2>3
<1>8. CASE state \notin {"PublishDone", "PubRelSend"}
  <2>1. new = Moved(old, i, state)
    BY <1>1, <1>8
  <2>2. Thinned(Moved(old, i, state), old)
    <3>1. \A k \in Slots, to \in PublishStates :
            to \notin UnackedPublish \/ old[k].publishState \in UnackedPublish
              => Thinned(Moved(old, k, to), old)
      BY Thinning
    <3> QED
      BY <1>2, <3>1
  <2>3. InOrder(new, copies, last)
    BY <2>1, <2>2, ThinnedInOrder
  <2> QED
    BY <1>8, <2>3
<1> QED
  BY <1>6, <1>7, <1>8

-----------------------------------------------------------------------------
(* The calls that change the records.                                      *)

\* MQTT_UpdateStateAck keeps the order of the outgoing records, and leaves
\* none of an identifier whose publish is done.
LEMMA AckKeepsOrder ==
  ASSUME NEW recs \in RecordsType, NEW id \in Ids, NEW ack \in Acks,
         NEW op \in {"send", "receive"}, NEW copies, NEW last \in Nat,
         InOrder(recs.outgoing, copies, last)
  PROVE  LET u == UpdateStateAck(recs, id, ack, op)
         IN /\ u.status \in {"Success", "BadResponse", "IllegalState"}
            /\ u.records \in RecordsType
            /\ InOrder(u.records.outgoing, copies, last)
            /\ u.status = "Success" /\ op = "receive" /\ ack \in {"PUBACK", "PUBCOMP"}
                 => ~Has(u.records.outgoing, id)
<1> DEFINE u == UpdateStateAck(recs, id, ack, op)
           d == DirectionOf(ack, op)
<1> SUFFICES /\ u.status \in {"Success", "BadResponse", "IllegalState"}
             /\ u.records \in RecordsType
             /\ InOrder(u.records.outgoing, copies, last)
             /\ u.status = "Success" /\ op = "receive" /\ ack \in {"PUBACK", "PUBCOMP"}
                  => ~Has(u.records.outgoing, id)
  OBVIOUS
<1>1. Unique(recs.outgoing)
  BY DEF InOrder
<1>2. \/ u.status \in {"BadResponse", "IllegalState"} /\ u.records = recs
      \/ /\ u.status = "Success"
         /\ \E a \in Array : /\ Acknowledged(a, recs[d], id, u.state)
                            /\ u.records = [recs EXCEPT ![d] = a]
         /\ ack \in {"PUBACK", "PUBCOMP"} => u.state = "PublishDone"
  BY <1>1, UpdateStateAckWorks
<1>3. /\ d \in {"outgoing", "incoming"}
      /\ op = "receive" /\ ack \in {"PUBACK", "PUBCOMP"} => d = "outgoing"
  BY DEF DirectionOf
<1> HIDE DEF u, d
<1>4. CASE u.status \in {"BadResponse", "IllegalState"} /\ u.records = recs
  BY <1>4
<1>5. ASSUME u.status = "Success",
             NEW a \in Array, Acknowledged(a, recs[d], id, u.state),
             u.records = [recs EXCEPT ![d] = a],
             ack \in {"PUBACK", "PUBCOMP"} => u.state = "PublishDone"
      PROVE  /\ u.records \in RecordsType
             /\ InOrder(u.records.outgoing, copies, last)
             /\ op = "receive" /\ ack \in {"PUBACK", "PUBCOMP"}
                  => ~Has(u.records.outgoing, id)
  <2>1. u.records \in RecordsType
    BY <1>3, <1>5 DEF RecordsType
  <2>2. CASE d = "incoming"
    <3>1. u.records.outgoing = recs.outgoing
      BY <1>5, <2>2 DEF RecordsType
    <3> QED
      BY <1>3, <2>1, <2>2, <3>1
  <2>3. CASE d = "outgoing"
    <3>1. u.records.outgoing = a /\ recs[d] = recs.outgoing /\ recs.outgoing \in Array
      BY <1>5, <2>3 DEF RecordsType
    <3>2. /\ InOrder(a, copies, last)
          /\ u.state = "PublishDone" => ~Has(a, id)
      BY <1>5, <3>1, AcknowledgedInOrder
    <3> QED
      BY <1>5, <2>1, <3>1, <3>2
  <2> QED
    BY <1>3, <2>2, <2>3
<1> QED
  BY <1>2, <1>4, <1>5

\* So does MQTT_UpdateStatePublish after a PUBLISH was sent.
LEMMA SentKeepsOrder ==
  ASSUME NEW recs \in RecordsType, NEW id, NEW qos, NEW copies, NEW last \in Nat,
         InOrder(recs.outgoing, copies, last)
  PROVE  LET s == SentPublish(recs, id, qos)
         IN /\ s.status \in {"Success", "BadParameter", "IllegalState"}
            /\ s.records \in RecordsType
            /\ InOrder(s.records.outgoing, copies, last)
<1> DEFINE s == SentPublish(recs, id, qos)
           new == CalculateStatePublish("send", qos)
           r == recs.outgoing
<1>1. r \in Array
  BY DEF RecordsType
<1>2. \/ s.status \in {"BadParameter", "IllegalState"} /\ s.records = recs
      \/ /\ s.status = "Success"
         /\ \E i \in Slots :
              /\ r[i].publishState \in UnackedPublish
              /\ s.records = [recs EXCEPT !.outgoing = Moved(r, i, new)]
         /\ new \in UnackedPublish
  BY SentPublishWorks
<1> SUFFICES /\ s.status \in {"Success", "BadParameter", "IllegalState"}
             /\ s.records \in RecordsType
             /\ InOrder(s.records.outgoing, copies, last)
  OBVIOUS
<1> HIDE DEF s, new
<1>3. ASSUME NEW i \in Slots, r[i].publishState \in UnackedPublish, new \in UnackedPublish,
             s.records = [recs EXCEPT !.outgoing = Moved(r, i, new)]
      PROVE  s.records \in RecordsType /\ InOrder(s.records.outgoing, copies, last)
  <2>1. new \in PublishStates
    BY <1>3 DEF UnackedPublish, PublishStates
  <2>2. Moved(r, i, new) \in Array
    BY <1>1, <2>1, PutType
  <2>3. Thinned(Moved(r, i, new), r)
    BY <1>1, <1>3, <2>1, Thinning
  <2>4. InOrder(Moved(r, i, new), copies, last)
    BY <2>3, ThinnedInOrder
  <2> QED
    BY <1>3, <2>2, <2>4 DEF RecordsType
<1> QED
  BY <1>2, <1>3

\* A packet sent or read leaves a sequence of packets.
LEMMA PacketsType ==
  ASSUME NEW S, NEW seq \in Seq(S)
  PROVE  /\ \A e \in S : Append(seq, e) \in Seq(S)
         /\ seq # <<>> => Head(seq) \in S /\ Tail(seq) \in Seq(S)
         /\ <<>> \in Seq(S)
  OBVIOUS

\* What a write puts on the wire are packets.
LEMMA SentType ==
  ASSUME toBroker \in Seq(Packets)
  PROVE  /\ \A p \in Packets : SendOk(p) => toBroker' \in Seq(Packets)
         /\ SendFails => toBroker' \in Seq(Packets)
  BY PacketsType DEF SendOk, SendFails

\* sendPublishAcks keeps the order of the outgoing records, whatever it sends;
\* it never lacks room for a record.
LEMMA AckSent ==
  ASSUME NEW recs \in RecordsType, NEW id \in Ids, NEW state, NEW copies, NEW last \in Nat,
         InOrder(recs.outgoing, copies, last),
         toBroker \in Seq(Packets), pc \in Steps,
         SendPublishAck(recs, id, state)
  PROVE  /\ records' \in RecordsType
         /\ InOrder(records'.outgoing, copies, last)
         /\ status' \in Statuses \ {"NoMemory"}
         /\ pc' \in {pc, "failed"}
         /\ toBroker' \in Seq(Packets)
<1> DEFINE type == AckTypeToSend(state)
           u == UpdateStateAck(recs, id, type, "send")
<1>1. type \in Acks \cup {"none"}
  BY DEF AckTypeToSend, Acks
<1>2. \/ type = "none" /\ records' = recs /\ UNCHANGED toBroker /\ Finish("Success")
      \/ /\ type # "none" /\ SendOk(Ack(type, id))
         /\ records' = u.records /\ Finish(u.status)
      \/ type # "none" /\ SendFails /\ records' = recs /\ Finish("SendFailed")
  BY DEF SendPublishAck
<1>3. type # "none" => /\ u.status \in {"Success", "BadResponse", "IllegalState"}
                       /\ u.records \in RecordsType
                       /\ InOrder(u.records.outgoing, copies, last)
  <2>1. type # "none" => type \in Acks
    BY <1>1
  <2> HIDE DEF type
  <2> QED
    BY <2>1, AckKeepsOrder
<1>4. type # "none" => Ack(type, id) \in Packets
  BY <1>1 DEF Ack, Packets, NoMessage, Messages, Acks
<1> HIDE DEF type, u
<1>5. \A result \in {"Success", "BadResponse", "IllegalState", "SendFailed"} :
        Finish(result) => status' \in Statuses \ {"NoMemory"} /\ pc' \in {pc, "failed"}
  BY DEF Finish, Statuses
<1>6. CASE type = "none"
  BY <1>2, <1>5, <1>6
<1>7. CASE type # "none" /\ SendOk(Ack(type, id)) /\ records' = u.records /\ Finish(u.status)
  BY <1>3, <1>4, <1>5, <1>7, SentType
<1>8. CASE type # "none" /\ SendFails /\ records' = recs /\ Finish("SendFailed")
  BY <1>5, <1>8, SentType
<1> QED
  BY <1>2, <1>6, <1>7, <1>8

\* The next record to send again, and the cursor behind it.
LEMMA SelectType ==
  ASSUME NEW r \in Array, NEW states, NEW from \in 0 .. Count
  PROVE  LET next == Select(r, states, from)
         IN next.id \in Ids \cup {0} /\ next.cursor \in 0 .. Count
<1> DEFINE found == {i \in Slots : i > from /\ r[i].publishState \in states}
           at == CHOOSE i \in found : \A j \in found : i <= j
<1>1. found # {} => at \in Slots
  <2>1. found \subseteq Slots
    OBVIOUS
  <2> HIDE DEF found
  <2> QED
    BY <2>1, FirstSlot
<1>2. \A i \in Slots : r[i].packetId \in Ids \cup {0} /\ i \in 0 .. Count
  BY DEF Array, Records, Slots
<1>3. Count \in 0 .. Count
  BY CountAssumption
<1>4. Select(r, states, from) = IF found = {} THEN [id |-> 0, cursor |-> Count]
                                             ELSE [id |-> r[at].packetId, cursor |-> at]
  BY DEF Select
<1> HIDE DEF found, at
<1> QED
  BY <1>1, <1>2, <1>3, <1>4

-----------------------------------------------------------------------------
(* The invariant.                                                          *)

Unfinished == [id : Ids, msg : Messages, released : BOOLEAN]

DeviceType ==
  /\ records \in RecordsType
  /\ nextId \in 1 .. load.ids /\ store \in [Ids -> Messages]
  /\ pc \in Steps /\ cursor \in 0 .. Count /\ status \in Statuses
  /\ accepted \in Nat /\ handed \in Seq(Messages)

WireType ==
  /\ link \in {"closed", "up", "lost"} /\ breaks \in Nat
  /\ toBroker \in Seq(Packets) /\ toDevice \in Seq(Packets)

BrokerType ==
  /\ brokerOut \in Seq(Unfinished) /\ brokerIn \subseteq Ids
  /\ pushed \in Nat /\ delivered \in Seq(Messages) /\ load \in Loads

\* Beside the types: the publishes that wait are ordered by the numbers of
\* their copies, none of which is above the last number given, and no
\* identifier has two records.  The last is why a record moved to the end
\* always finds room there.
RecordsInv ==
  /\ DeviceType /\ WireType /\ BrokerType
  /\ InOrder(records.outgoing, store, accepted)
  /\ RefusedOnlyWhenFull

\* The type invariant, in its parts.
LEMMA TypeParts == TypeOK <=> DeviceType /\ WireType /\ BrokerType
  BY DEF TypeOK, DeviceType, WireType, BrokerType, RecordsType, Array, Unfinished

\* A load has an identifier at least, and none above the last.
LEMMA LoadIds ==
  ASSUME load \in Loads
  PROVE  load.ids \in Nat /\ 1 <= load.ids /\ 1 .. load.ids \subseteq Ids
  BY ExchangeAssumption DEF Ids

\* No record is in use when a session begins.
LEMMA NoneInOrder ==
  ASSUME NEW copies, NEW last
  PROVE  NoRecords \in RecordsType /\ InOrder(NoRecords.outgoing, copies, last)
<1>1. EmptyArray \in Array /\ \A i \in Slots : Free(EmptyArray, i)
  BY DEF EmptyArray, Array, Records, PublishStates, Free
<1>2. InOrder(EmptyArray, copies, last)
  BY <1>1 DEF InOrder, Unique, Waiting
<1> QED
  BY <1>1, <1>2 DEF NoRecords, RecordsType

\* The broker's publishes, one of them removed.
LEMMA WithoutType ==
  ASSUME NEW S, NEW out \in Seq(S), NEW id
  PROVE  Without(out, id) \in Seq(S)
<1> DEFINE at == CHOOSE k \in DOMAIN out : out[k].id = id
<1>1. CASE \A k \in DOMAIN out : out[k].id # id
  BY <1>1 DEF Without
<1>2. CASE \E k \in DOMAIN out : out[k].id = id
  <2>1. at \in DOMAIN out
    BY <1>2
  <2>2. at \in 1 .. Len(out) /\ Len(out) \in Nat /\ \A k \in 1 .. Len(out) : out[k] \in S
    BY <2>1
  <2>3. Without(out, id) = [k \in 1 .. Len(out) - 1 |-> out[IF k < at THEN k ELSE k + 1]]
    BY <1>2 DEF Without
  <2> HIDE DEF at
  <2>4. \A k \in 1 .. Len(out) - 1 : (IF k < at THEN k ELSE k + 1) \in 1 .. Len(out)
    BY <2>2
  <2>5. Len(out) - 1 \in Nat
    BY <2>2
  <2>6. \A k \in 1 .. Len(out) - 1 : out[IF k < at THEN k ELSE k + 1] \in S
    BY <2>2, <2>4
  <2> QED
    BY <2>3, <2>5, <2>6
<1> QED
  BY <1>1, <1>2

\* What the broker repeats are packets.
LEMMA RepeatsType ==
  ASSUME NEW out \in Seq(Unfinished)
  PROVE  Repeats(out) \in Seq(Packets)
<1>1. Len(out) \in Nat /\ \A k \in 1 .. Len(out) : out[k] \in Unfinished
  OBVIOUS
<1>2. \A k \in 1 .. Len(out) : Ack("PUBREL", out[k].id) \in Packets
                             /\ Publish(out[k].id, out[k].msg) \in Packets
  BY <1>1 DEF Ack, Publish, Packets, Unfinished, Acks, NoMessage, Messages
<1> QED
  BY <1>1, <1>2 DEF Repeats

-----------------------------------------------------------------------------
(* The device's steps keep it.                                             *)

\* Connecting: the records of a session that is kept stay, others are cleared.
LEMMA ConnectKeeps ==
  ASSUME RecordsInv, Connect
  PROVE  RecordsInv'
<1>1. /\ pc' \in Steps /\ cursor' \in 0 .. Count /\ status' = "Success"
      /\ UNCHANGED <<nextId, handed, accepted, toBroker, breaks, pushed, delivered, load>>
      /\ link' = "up" /\ toDevice' \in Seq(Packets)
      /\ brokerOut' \in Seq(Unfinished) /\ brokerIn' \subseteq Ids
  <2>1. /\ Repeats(brokerOut) \in Seq(Packets) /\ <<>> \in Seq(Unfinished)
        /\ 0 \in 0 .. Count
    BY RepeatsType, CountAssumption DEF RecordsInv, BrokerType
  <2>2. /\ status' = "Success" /\ link' = "up"
        /\ UNCHANGED <<nextId, handed, accepted, toBroker, breaks, pushed, delivered, load>>
    BY DEF Connect
  <2>3. /\ pc' \in Steps /\ cursor' \in 0 .. Count
        /\ toDevice' \in Seq(Packets)
    BY <2>1 DEF Connect, RecordsInv, DeviceType, WireType, Steps
  <2>4. brokerOut' \in Seq(Unfinished) /\ brokerIn' \subseteq Ids
    <3>1. CASE load.keep
      BY <3>1 DEF Connect, RecordsInv, BrokerType
    <3>2. CASE ~load.keep
      BY <2>1, <3>2 DEF Connect
    <3> QED
      BY <3>1, <3>2
  <2> QED
    BY <2>2, <2>3, <2>4
<1>2. /\ records' \in RecordsType /\ store' \in [Ids -> Messages]
      /\ InOrder(records'.outgoing, store', accepted)
  <2>1. CASE load.keep
    BY <2>1 DEF Connect, RecordsInv, DeviceType
  <2>2. CASE ~load.keep
    <3>1. records' = NoRecords /\ store' = [id \in Ids |-> NoMessage]
      BY <2>2 DEF Connect
    <3> QED
      BY <3>1, NoneInOrder DEF NoMessage, Messages
  <2> QED
    BY <2>1, <2>2
<1> QED
  BY <1>1, <1>2 DEF RecordsInv, DeviceType, WireType, BrokerType, RefusedOnlyWhenFull, Statuses

\* Repeating a PUBREL: the records it is read from are those of the resumption.
LEMMA ResumePubrelKeeps ==
  ASSUME RecordsInv, ResumePubrel
  PROVE  RecordsInv'
<1> DEFINE next == PubrelToResend(records, cursor)
<1>1. next.id \in Ids \cup {0} /\ next.cursor \in 0 .. Count
  BY SelectType DEF PubrelToResend, RecordsInv, DeviceType, RecordsType
<1>2. /\ pc = "resume" /\ UNCHANGED <<nextId, store, handed, accepted, link, toDevice, breaks, brokerVars>>
      /\ \/ /\ next.id # 0 /\ cursor' = next.cursor
            /\ SendPublishAck(records, next.id, "PubRelSend")
         \/ /\ pc' = "resend" /\ cursor' = 0 /\ status' = "Success"
            /\ UNCHANGED <<records, toBroker>>
  BY DEF ResumePubrel
<1> HIDE DEF next
<1>3. /\ records' \in RecordsType /\ InOrder(records'.outgoing, store, accepted)
      /\ status' \in Statuses \ {"NoMemory"} /\ pc' \in Steps /\ cursor' \in 0 .. Count
      /\ toBroker' \in Seq(Packets)
  <2>1. CASE next.id # 0 /\ cursor' = next.cursor /\ SendPublishAck(records, next.id, "PubRelSend")
    <3>1. /\ records \in RecordsType /\ next.id \in Ids /\ accepted \in Nat
          /\ InOrder(records.outgoing, store, accepted)
          /\ toBroker \in Seq(Packets) /\ pc \in Steps
      BY <1>1, <2>1 DEF RecordsInv, DeviceType, WireType
    <3>2. /\ records' \in RecordsType /\ InOrder(records'.outgoing, store, accepted)
          /\ status' \in Statuses \ {"NoMemory"} /\ pc' \in {pc, "failed"}
          /\ toBroker' \in Seq(Packets)
      BY <2>1, <3>1, AckSent
    <3> QED
      BY <1>1, <2>1, <3>1, <3>2 DEF Steps
  <2>2. CASE /\ pc' = "resend" /\ cursor' = 0 /\ status' = "Success"
             /\ UNCHANGED <<records, toBroker>>
    BY <2>2, CountAssumption DEF RecordsInv, DeviceType, WireType, Steps, Statuses
  <2> QED
    BY <1>2, <2>1, <2>2
<1> QED
  BY <1>2, <1>3 DEF RecordsInv, DeviceType, WireType, BrokerType, RefusedOnlyWhenFull, brokerVars

\* Sending a publish again: the copy is that of the record.
LEMMA ResendKeeps ==
  ASSUME RecordsInv, Resend
  PROVE  RecordsInv'
<1> DEFINE next == PublishToResend(records, cursor)
           msg == store[next.id]
           sent == SentPublish(records, next.id, msg.qos)
<1>1. next.id \in Ids \cup {0} /\ next.cursor \in 0 .. Count
  BY SelectType DEF PublishToResend, RecordsInv, DeviceType, RecordsType
<1>2. /\ pc = "resend" /\ UNCHANGED <<nextId, store, handed, accepted, link, toDevice, breaks, brokerVars>>
      /\ \/ /\ next.id # 0 /\ cursor' = next.cursor
            /\ \/ /\ SendOk(Publish(next.id, msg))
                  /\ records' = sent.records /\ Finish(sent.status)
               \/ SendFails /\ UNCHANGED records /\ Finish("SendFailed")
         \/ /\ pc' = "ready" /\ cursor' = 0 /\ status' = "Success"
            /\ UNCHANGED <<records, toBroker>>
  BY DEF Resend
<1>3. /\ sent.status \in {"Success", "BadParameter", "IllegalState"}
      /\ sent.records \in RecordsType
      /\ InOrder(sent.records.outgoing, store, accepted)
  BY SentKeepsOrder DEF RecordsInv, DeviceType
<1>4. next.id # 0 => Publish(next.id, msg) \in Packets
  BY <1>1 DEF Publish, Packets, RecordsInv, DeviceType
<1> HIDE DEF next, msg, sent
<1>5. \A result \in {"Success", "BadParameter", "IllegalState", "SendFailed"} :
        Finish(result) => status' \in Statuses \ {"NoMemory"} /\ pc' \in {pc, "failed"}
  BY DEF Finish, Statuses
<1>6. /\ records' \in RecordsType /\ InOrder(records'.outgoing, store, accepted)
      /\ status' \in Statuses \ {"NoMemory"} /\ pc' \in Steps /\ cursor' \in 0 .. Count
      /\ toBroker' \in Seq(Packets)
  <2>0. /\ records \in RecordsType /\ InOrder(records.outgoing, store, accepted)
        /\ toBroker \in Seq(Packets)
    BY DEF RecordsInv, DeviceType, WireType
  <2>1. CASE /\ next.id # 0 /\ cursor' = next.cursor /\ SendOk(Publish(next.id, msg))
             /\ records' = sent.records /\ Finish(sent.status)
    BY <1>1, <1>2, <1>3, <1>4, <1>5, <2>0, <2>1, SentType DEF Steps
  <2>2. CASE /\ next.id # 0 /\ cursor' = next.cursor
             /\ SendFails /\ UNCHANGED records /\ Finish("SendFailed")
    BY <1>1, <1>2, <1>5, <2>0, <2>2, SentType DEF Steps
  <2>3. CASE /\ pc' = "ready" /\ cursor' = 0 /\ status' = "Success"
             /\ UNCHANGED <<records, toBroker>>
    BY <2>0, <2>3, CountAssumption DEF Steps, Statuses
  <2> QED
    BY <1>2, <2>1, <2>2, <2>3
<1> QED
  BY <1>2, <1>6 DEF RecordsInv, DeviceType, WireType, BrokerType, RefusedOnlyWhenFull, brokerVars

\* A new publish: its copy is made only when its record was, and its number is
\* above those of all that wait.  It is refused for lack of room only by an
\* array that is full.
LEMMA SendNewKeeps ==
  ASSUME RecordsInv, NEW qos \in QoSLevels, SendNew(qos)
  PROVE  RecordsInv'
<1> DEFINE msg == [n |-> accepted + 1, qos |-> qos]
           r == records.outgoing
           record == [packetId |-> nextId, qos |-> qos, publishState |-> "PublishSend"]
           reserved == AddRecord(r, nextId, qos, "PublishSend")
           recs == [records EXCEPT !.outgoing = reserved.array]
           sent == SentPublish(recs, nextId, qos)
           copies == [store EXCEPT ![nextId] = msg]
<1>1. /\ records \in RecordsType /\ r \in Array /\ nextId \in Ids /\ accepted \in Nat
      /\ store \in [Ids -> Messages] /\ InOrder(r, store, accepted)
      /\ toBroker \in Seq(Packets) /\ pc \in Steps /\ handed \in Seq(Messages)
      /\ load \in Loads /\ qos \in 0 .. 2
  <2>1. nextId \in 1 .. load.ids /\ load \in Loads
    BY DEF RecordsInv, DeviceType, BrokerType
  <2>2. nextId \in Ids
    BY <2>1, LoadIds
  <2> QED
    BY <2>1, <2>2 DEF RecordsInv, DeviceType, WireType, RecordsType, QoSLevels
<1>2. /\ pc = "ready" /\ nextId' = NextId
      /\ UNCHANGED <<pc, cursor, handed, link, toDevice, breaks, brokerVars>>
      /\ \/ /\ reserved.status # "Success"
            /\ records' = recs /\ status' = reserved.status
            /\ UNCHANGED <<store, accepted, toBroker>>
         \/ /\ reserved.status = "Success"
            /\ store' = copies /\ accepted' = accepted + 1
            /\ \/ /\ SendOk(Publish(nextId, msg))
                  /\ records' = sent.records /\ status' = sent.status
               \/ SendFails /\ records' = recs /\ status' = "SendFailed"
  BY DEF SendNew
<1>3. nextId' \in 1 .. load.ids
  BY <1>1, <1>2, LoadIds DEF NextId, RecordsInv, DeviceType
<1>4. /\ msg \in Messages /\ copies \in [Ids -> Messages]
      /\ Publish(nextId, msg) \in Packets
      /\ copies[nextId].n = accepted + 1
      /\ \A id \in Ids : id # nextId => copies[id] = store[id]
      /\ \A id \in Ids : store[id].n \in Nat
  BY <1>1 DEF Messages, QoSLevels, Publish, Packets
<1>5. \/ /\ reserved.status = "Success" /\ reserved.array \in Array
         /\ ~Has(r, nextId) /\ Added(reserved.array, r, record)
      \/ /\ reserved.status \in {"StateCollision", "NoMemory"} /\ reserved.array \in Array
         /\ Shifted(reserved.array, r)
         /\ reserved.status = "NoMemory" => \A i \in Slots : ~Free(reserved.array, i)
  BY <1>1, AddRecordWorks DEF PublishStates
<1>6. recs \in RecordsType /\ recs.outgoing = reserved.array
  BY <1>1, <1>5 DEF RecordsType
<1>7. record \in Records /\ record.packetId = nextId
  BY <1>1 DEF Records, PublishStates
<1>8. \A i \in Slots : r[i].packetId \in Ids \cup {0}
  BY <1>1 DEF Array, Records
<1>9. /\ recs.outgoing = reserved.array
      /\ \A i \in Slots : Waiting(r, i) => r[i].packetId \in Ids
  BY <1>6, <1>8 DEF Waiting, Free
<1> HIDE DEF msg, reserved, recs, copies, record
<1>10. CASE /\ reserved.status # "Success"
            /\ records' = recs /\ status' = reserved.status
            /\ UNCHANGED <<store, accepted, toBroker>>
  <2>1. InOrder(reserved.array, store, accepted)
    BY <1>1, <1>5, <1>10, Thinning, ThinnedInOrder
  <2>2. RefusedOnlyWhenFull'
    BY <1>2, <1>5, <1>6, <1>10 DEF RefusedOnlyWhenFull
  <2> QED
    BY <1>1, <1>2, <1>3, <1>5, <1>6, <1>10, <2>1, <2>2
       DEF RecordsInv, DeviceType, WireType, BrokerType, Statuses, brokerVars
<1>11. CASE /\ reserved.status = "Success"
            /\ store' = copies /\ accepted' = accepted + 1
            /\ \/ /\ SendOk(Publish(nextId, msg))
                  /\ records' = sent.records /\ status' = sent.status
               \/ SendFails /\ records' = recs /\ status' = "SendFailed"
  <2>1. ~Has(r, nextId) /\ Added(reserved.array, r, record)
    BY <1>5, <1>11
  <2>2. \A i \in Slots : Waiting(r, i) => /\ copies[r[i].packetId] = store[r[i].packetId]
                                         /\ store[r[i].packetId].n \in Nat
    BY <1>4, <1>9, <2>1 DEF Has
  <2>3. InOrder(r, copies, accepted + 1)
    BY <1>1, <2>2, CopiesInOrder
  <2>4. \A i \in Slots : Waiting(r, i) => copies[r[i].packetId].n < copies[nextId].n
    BY <1>1, <1>4, <2>2 DEF InOrder
  <2>5. InOrder(reserved.array, copies, accepted + 1)
    <3>1. /\ record.packetId \in Ids /\ ~Has(r, record.packetId)
          /\ copies[record.packetId].n <= accepted + 1 /\ accepted + 1 \in Nat
          /\ \A i \in Slots : Waiting(r, i) =>
               copies[r[i].packetId].n < copies[record.packetId].n
      BY <1>1, <1>4, <1>7, <2>1, <2>4
    <3> QED
      BY <1>1, <1>7, <2>1, <2>3, <3>1, AddedInOrder
  <2>6. /\ sent.status \in {"Success", "BadParameter", "IllegalState"}
        /\ sent.records \in RecordsType
        /\ InOrder(sent.records.outgoing, copies, accepted + 1)
    <3>1. InOrder(recs.outgoing, copies, accepted + 1) /\ accepted + 1 \in Nat
      BY <1>1, <1>6, <2>5
    <3> QED
      BY <1>6, <3>1, SentKeepsOrder
  <2> HIDE DEF sent
  <2>7. /\ records' \in RecordsType /\ InOrder(records'.outgoing, copies, accepted + 1)
        /\ status' \in Statuses \ {"NoMemory"} /\ toBroker' \in Seq(Packets)
    BY <1>1, <1>4, <1>6, <1>11, <2>5, <2>6, SentType DEF Statuses
  <2>8. RefusedOnlyWhenFull'
    BY <2>7 DEF RefusedOnlyWhenFull
  <2> QED
    BY <1>1, <1>2, <1>3, <1>4, <1>11, <2>7, <2>8
       DEF RecordsInv, DeviceType, WireType, BrokerType, brokerVars
<1> QED
  BY <1>2, <1>10, <1>11

\* A publish received changes incoming records; the acknowledgement of QoS 1
\* and of QoS 2 speaks of those too.  It is refused only by a full array.
LEMMA ReceivePublishKeeps ==
  ASSUME RecordsInv, ReceivePublish
  PROVE  RecordsInv'
<1> DEFINE p == Head(toDevice)
           state == CalculateStatePublish("receive", p.msg.qos)
           added == AddRecord(records.incoming, p.id, p.msg.qos, state)
           recs == [records EXCEPT !.incoming = added.array]
<1>1. /\ records \in RecordsType /\ records.incoming \in Array /\ accepted \in Nat
      /\ InOrder(records.outgoing, store, accepted)
      /\ toBroker \in Seq(Packets) /\ pc \in Steps /\ handed \in Seq(Messages)
  BY DEF RecordsInv, DeviceType, WireType, RecordsType
<1>2. /\ UNCHANGED <<nextId, store, cursor, accepted, link, breaks, brokerVars>>
      /\ toDevice' = Tail(toDevice) /\ toDevice # <<>> /\ pc = "ready"
      /\ \/ /\ handed' = IF IsNew(added.status) THEN Append(handed, p.msg) ELSE handed
            /\ SendPublishAck(recs, p.id, state)
         \/ /\ added.status = "NoMemory"
            /\ records' = recs /\ Finish("NoMemory")
            /\ UNCHANGED <<handed, toBroker>>
  BY DEF ReceivePublish, ReceivedPublish
<1>3. p \in Packets /\ toDevice' \in Seq(Packets)
  BY <1>2, PacketsType DEF RecordsInv, WireType
<1>4. /\ p.id \in Ids /\ p.msg \in Messages /\ p.msg.qos \in 0 .. 2
      /\ state \in PublishStates
  BY <1>3 DEF Packets, Messages, QoSLevels, CalculateStatePublish, PublishStates
<1>5. /\ added.array \in Array
      /\ added.status = "NoMemory" => \A i \in Slots : ~Free(added.array, i)
  BY <1>1, <1>4, AddRecordWorks
<1>6. /\ recs \in RecordsType /\ recs.outgoing = records.outgoing
      /\ recs.incoming = added.array
  BY <1>1, <1>5 DEF RecordsType
<1> HIDE DEF p, state, added, recs
<1>7. CASE /\ handed' = IF IsNew(added.status) THEN Append(handed, p.msg) ELSE handed
           /\ SendPublishAck(recs, p.id, state)
  <2>1. /\ records' \in RecordsType /\ InOrder(records'.outgoing, store, accepted)
        /\ status' \in Statuses \ {"NoMemory"} /\ pc' \in {pc, "failed"}
        /\ toBroker' \in Seq(Packets)
    BY <1>1, <1>4, <1>6, <1>7, AckSent
  <2>2. handed' \in Seq(Messages) /\ pc' \in Steps
    BY <1>1, <1>4, <1>7, <2>1, PacketsType DEF Steps
  <2> QED
    BY <1>2, <1>3, <2>1, <2>2
       DEF RecordsInv, DeviceType, WireType, BrokerType, RefusedOnlyWhenFull, brokerVars
<1>8. CASE /\ added.status = "NoMemory"
           /\ records' = recs /\ Finish("NoMemory")
           /\ UNCHANGED <<handed, toBroker>>
  <2>1. pc' = "failed" /\ pc' \in Steps /\ status' = "NoMemory" /\ status' \in Statuses
    BY <1>8 DEF Finish, Steps, Statuses
  <2>2. RefusedOnlyWhenFull'
    BY <1>5, <1>6, <1>8, <2>1 DEF RefusedOnlyWhenFull
  <2> QED
    BY <1>1, <1>2, <1>3, <1>6, <1>8, <2>1, <2>2
       DEF RecordsInv, DeviceType, WireType, BrokerType, brokerVars
<1> QED
  BY <1>2, <1>7, <1>8

\* An acknowledgement received: the copy is dropped only when no record is
\* left to send it again from.
LEMMA ReceiveAckKeeps ==
  ASSUME RecordsInv, ReceiveAck
  PROVE  RecordsInv'
<1> DEFINE p == Head(toDevice)
           u == UpdateStateAck(records, p.id, p.type, "receive")
           copies == IF p.type \in {"PUBACK", "PUBCOMP"}
                       THEN [store EXCEPT ![p.id] = NoMessage] ELSE store
<1>1. /\ records \in RecordsType /\ accepted \in Nat /\ store \in [Ids -> Messages]
      /\ InOrder(records.outgoing, store, accepted)
      /\ toBroker \in Seq(Packets) /\ pc \in Steps /\ handed \in Seq(Messages)
  BY DEF RecordsInv, DeviceType, WireType, RecordsType
<1>2. /\ UNCHANGED <<nextId, cursor, handed, accepted, link, breaks, brokerVars>>
      /\ toDevice' = Tail(toDevice) /\ toDevice # <<>> /\ pc = "ready"
      /\ p.type \in Acks
      /\ \/ /\ u.status = "Success" /\ store' = copies
            /\ SendPublishAck(u.records, p.id, u.state)
         \/ /\ u.status # "Success"
            /\ records' = u.records /\ Finish(u.status)
            /\ UNCHANGED <<store, toBroker>>
  BY DEF ReceiveAck
<1>3. p \in Packets /\ toDevice' \in Seq(Packets)
  BY <1>2, PacketsType DEF RecordsInv, WireType
<1>4. p.id \in Ids
  BY <1>3 DEF Packets
<1>5. /\ u.status \in {"Success", "BadResponse", "IllegalState"}
      /\ u.records \in RecordsType
      /\ InOrder(u.records.outgoing, store, accepted)
      /\ u.status = "Success" /\ p.type \in {"PUBACK", "PUBCOMP"}
           => ~Has(u.records.outgoing, p.id)
  <2> HIDE DEF p
  <2> QED
    BY <1>1, <1>2, <1>4, AckKeepsOrder
<1>6. /\ copies \in [Ids -> Messages]
      /\ \A id \in Ids : id # p.id \/ p.type \notin {"PUBACK", "PUBCOMP"} => copies[id] = store[id]
      /\ \A id \in Ids : store[id].n \in Nat
  BY <1>1, <1>4 DEF Messages, NoMessage
<1> HIDE DEF p, u, copies
<1>7. CASE /\ u.status = "Success" /\ store' = copies
           /\ SendPublishAck(u.records, p.id, u.state)
  <2> DEFINE r == u.records.outgoing
  <2>1. \A i \in Slots : r[i].packetId \in Ids \cup {0}
    BY <1>5 DEF RecordsType, Array, Records
  <2>2. \A i \in Slots : Waiting(r, i) => /\ copies[r[i].packetId] = store[r[i].packetId]
                                         /\ store[r[i].packetId].n \in Nat
    BY <1>5, <1>6, <1>7, <2>1 DEF Has, Waiting, Free
  <2>3. InOrder(r, copies, accepted)
    <3> HIDE DEF r
    <3>1. InOrder(r, store, accepted)
      BY <1>5 DEF r
    <3> QED
      BY <1>1, <2>2, <3>1, CopiesInOrder
  <2>4. /\ records' \in RecordsType /\ InOrder(records'.outgoing, copies, accepted)
        /\ status' \in Statuses \ {"NoMemory"} /\ pc' \in {pc, "failed"}
        /\ toBroker' \in Seq(Packets)
    BY <1>1, <1>4, <1>5, <1>7, <2>3, AckSent
  <2>5. pc' \in Steps
    BY <1>1, <2>4 DEF Steps
  <2> QED
    BY <1>2, <1>3, <1>6, <1>7, <2>4, <2>5
       DEF RecordsInv, DeviceType, WireType, BrokerType, RefusedOnlyWhenFull, brokerVars
<1>8. CASE /\ u.status # "Success"
           /\ records' = u.records /\ Finish(u.status)
           /\ UNCHANGED <<store, toBroker>>
  <2>1. pc' = "failed" /\ pc' \in Steps /\ status' \in Statuses \ {"NoMemory"}
    BY <1>5, <1>8 DEF Finish, Steps, Statuses
  <2> QED
    BY <1>1, <1>2, <1>3, <1>5, <1>8, <2>1
       DEF RecordsInv, DeviceType, WireType, BrokerType, RefusedOnlyWhenFull, brokerVars
<1> QED
  BY <1>2, <1>7, <1>8

\* The user hangs up, having noticed that the connection is lost or that a
\* call failed: the records stay.
LEMMA EndOfConnectionKeeps ==
  ASSUME RecordsInv, NoticeLoss \/ HangUp
  PROVE  RecordsInv'
<1>1. /\ UNCHANGED <<records, nextId, store, cursor, handed, accepted, breaks, brokerVars>>
      /\ pc' \in Steps /\ status' = "Success" /\ link' \in {"closed", "lost"}
      /\ toBroker' \in {<<>>, toBroker} /\ toDevice' \in {<<>>, toDevice}
  BY DEF NoticeLoss, HangUp, Steps, wireVars
<1>2. <<>> \in Seq(Packets)
  OBVIOUS
<1> QED
  BY <1>1, <1>2
     DEF RecordsInv, DeviceType, WireType, BrokerType, RefusedOnlyWhenFull, Statuses, brokerVars

\* Broker and network leave the device's half of the session alone.
LEMMA EnvironmentKeeps ==
  ASSUME RecordsInv, BrokerReceive \/ BrokerPublish \/ Break
  PROVE  RecordsInv'
<1>1. /\ UNCHANGED <<deviceVars, load>>
      /\ toBroker \in Seq(Packets) /\ toDevice \in Seq(Packets)
      /\ brokerOut \in Seq(Unfinished) /\ brokerIn \subseteq Ids
      /\ pushed \in Nat /\ delivered \in Seq(Messages) /\ load \in Loads
      /\ link \in {"closed", "up", "lost"} /\ breaks \in Nat
  BY DEF BrokerReceive, BrokerPublish, Break, RecordsInv, WireType, BrokerType, brokerVars
<1>2. link' \in {"closed", "up", "lost"} /\ breaks' \in Nat
  BY <1>1 DEF BrokerReceive, BrokerPublish, Break
<1>3. CASE BrokerReceive
  <2> DEFINE p == Head(toBroker)
             released == [k \in DOMAIN brokerOut |->
                            IF brokerOut[k].id = p.id
                              THEN [brokerOut[k] EXCEPT !.released = TRUE]
                              ELSE brokerOut[k]]
  <2>1. p \in Packets /\ toBroker' \in Seq(Packets) /\ UNCHANGED <<link, breaks, pushed, load>>
    BY <1>1, <1>3, PacketsType DEF BrokerReceive
  <2>2. p.id \in Ids /\ p.msg \in Messages /\ \A type \in Acks : Ack(type, p.id) \in Packets
    BY <2>1 DEF Packets, Ack, NoMessage, Messages
  <2>3. Without(brokerOut, p.id) \in Seq(Unfinished)
    BY <1>1, WithoutType
  <2>4. released \in Seq(Unfinished)
    <3>1. \A k \in DOMAIN brokerOut : brokerOut[k] \in Unfinished
      BY <1>1
    <3>2. \A k \in DOMAIN brokerOut : [brokerOut[k] EXCEPT !.released = TRUE] \in Unfinished
      BY <3>1 DEF Unfinished
    <3>3. DOMAIN brokerOut = 1 .. Len(brokerOut) /\ Len(brokerOut) \in Nat
      BY <1>1
    <3> HIDE DEF p
    <3> QED
      BY <3>1, <3>2, <3>3
  <2>5. /\ \A type \in Acks : Append(toDevice, Ack(type, p.id)) \in Seq(Packets)
        /\ Append(delivered, p.msg) \in Seq(Messages)
        /\ brokerIn \cup {p.id} \subseteq Ids /\ brokerIn \ {p.id} \subseteq Ids
    <3> HIDE DEF p
    <3> QED
      BY <1>1, <2>2, PacketsType
  <2>6. /\ \/ UNCHANGED toDevice
           \/ \E type \in Acks : toDevice' = Append(toDevice, Ack(type, p.id))
        /\ delivered' \in {delivered, Append(delivered, p.msg)}
        /\ brokerIn' \in {brokerIn, brokerIn \cup {p.id}, brokerIn \ {p.id}}
        /\ brokerOut' \in {brokerOut, released, Without(brokerOut, p.id)}
    BY <1>3 DEF BrokerReceive, Acks
  <2> HIDE DEF p, released
  <2> QED
    BY <1>1, <1>2, <2>1, <2>3, <2>4, <2>5, <2>6
       DEF RecordsInv, DeviceType, WireType, BrokerType, RefusedOnlyWhenFull, deviceVars
<1>4. CASE BrokerPublish
  <2>1. PICK qos \in QoSLevels, id \in 1 .. load.ids :
          LET msg == [n |-> pushed + 1, qos |-> qos] IN
          /\ brokerOut' = Append(brokerOut, [id |-> id, msg |-> msg, released |-> FALSE])
          /\ toDevice' = Append(toDevice, Publish(id, msg))
    BY <1>4 DEF BrokerPublish
  <2> DEFINE msg == [n |-> pushed + 1, qos |-> qos]
             entry == [id |-> id, msg |-> msg, released |-> FALSE]
  <2>2. id \in Ids
    BY <1>1, LoadIds
  <2>3. msg \in Messages
    BY <1>1 DEF Messages
  <2>4. entry \in Unfinished /\ Publish(id, msg) \in Packets
    BY <2>2, <2>3 DEF Unfinished, Publish, Packets
  <2>5. brokerOut' = Append(brokerOut, entry) /\ toDevice' = Append(toDevice, Publish(id, msg))
    BY <2>1
  <2> HIDE DEF msg, entry
  <2>6. brokerOut' \in Seq(Unfinished) /\ toDevice' \in Seq(Packets)
    BY <1>1, <2>4, <2>5, PacketsType
  <2>7. /\ UNCHANGED <<link, toBroker, breaks, brokerIn, delivered>>
        /\ pushed' = pushed + 1
    BY <1>4 DEF BrokerPublish
  <2> QED
    BY <1>1, <2>6, <2>7
       DEF RecordsInv, DeviceType, WireType, BrokerType, RefusedOnlyWhenFull, deviceVars
<1>5. CASE Break
  <2>1. toBroker' = <<>> /\ UNCHANGED <<toDevice, brokerVars>> /\ <<>> \in Seq(Packets)
    BY <1>5 DEF Break
  <2> QED
    BY <1>1, <1>2, <2>1
       DEF RecordsInv, DeviceType, WireType, BrokerType, RefusedOnlyWhenFull, deviceVars, brokerVars
<1> QED
  BY <1>3, <1>4, <1>5

\* A step that changes nothing.
LEMMA StutterKeeps ==
  ASSUME RecordsInv, UNCHANGED vars
  PROVE  RecordsInv'
  BY DEF RecordsInv, DeviceType, WireType, BrokerType, RefusedOnlyWhenFull,
         vars, deviceVars, wireVars, brokerVars

\* The arrays of records are sound: beside their types, the publishes that wait
\* stand in the order in which they were accepted, no identifier has two
\* outgoing records, and only a full array refuses a record.
THEOREM RecordsInvariant == Spec => []RecordsInv
<1>1. Init => RecordsInv
  <2> SUFFICES ASSUME Init PROVE RecordsInv
    OBVIOUS
  <2>1. NoRecords \in RecordsType /\ InOrder(NoRecords.outgoing, store, accepted)
    BY NoneInOrder
  <2>2. 1 \in 1 .. load.ids /\ load \in Loads
    BY LoadIds DEF Init
  <2>3. [id \in Ids |-> NoMessage] \in [Ids -> Messages] /\ 0 \in 0 .. Count
    BY CountAssumption DEF NoMessage, Messages
  <2>4. DeviceType
    BY <2>1, <2>2, <2>3 DEF Init, DeviceType, Steps, Statuses
  <2>5. WireType
    BY DEF Init, WireType
  <2>6. BrokerType
    BY <2>2 DEF Init, BrokerType
  <2> QED
    BY <2>1, <2>4, <2>5, <2>6 DEF Init, RecordsInv, RefusedOnlyWhenFull
<1>2. RecordsInv /\ [Next]_vars => RecordsInv'
  BY ConnectKeeps, ResumePubrelKeeps, ResendKeeps, SendNewKeeps, ReceivePublishKeeps,
     ReceiveAckKeeps, EndOfConnectionKeeps, EnvironmentKeeps, StutterKeeps
     DEF Next, Device
<1> QED
  BY <1>1, <1>2, PTL DEF Spec

\* Every variable keeps its type.
THEOREM TypesKept == Spec => []TypeOK
<1>1. RecordsInv => TypeOK
  BY TypeParts DEF RecordsInv
<1> QED
  BY <1>1, RecordsInvariant, PTL

\* Publishes not yet acknowledged stand in the order in which they were
\* accepted, whatever is freed, compacted and added, so that a resumption sends
\* them again in that order; and MQTTNoMemory means that the array is full.
THEOREM RecordsAreSound == Spec => []RecordsSound
<1>1. RecordsInv => RecordsSound
  BY DEF RecordsInv, InOrder, Waiting, RecordsSound, RecordsInOrder
<1> QED
  BY <1>1, RecordsInvariant, PTL

-----------------------------------------------------------------------------
(* What a resumption sends again.                                          *)

\* A search that finds nothing has left out no record but those behind a freed
\* one that was in the states it looks for.
LEMMA NothingMissed ==
  ASSUME records.outgoing \in Array, cursor \in 0 .. Count, NEW states,
         Select(records.outgoing, states, cursor).id = 0
  PROVE  Missed(states) = {}
<1> DEFINE r == records.outgoing
           found == {i \in Slots : i > cursor /\ r[i].publishState \in states}
           at == CHOOSE i \in found : \A j \in found : i <= j
<1> SUFFICES ASSUME NEW i \in Missed(states) PROVE FALSE
  OBVIOUS
<1>1. /\ i \in cursor + 1 .. Count /\ r[i].packetId # 0 /\ r[i].publishState \in states
      /\ \A j \in cursor + 1 .. i - 1 : r[j].packetId = 0 => r[j].publishState \notin states
  BY DEF Missed
<1>2. i \in Slots /\ i > cursor /\ i \in found /\ Count \in Nat
  BY <1>1, CountAssumption DEF Slots
<1>3. Select(r, states, cursor) = [id |-> r[at].packetId, cursor |-> at]
  BY <1>2 DEF Select
<1>4. at \in found /\ at <= i
  <2>1. found \subseteq Slots
    OBVIOUS
  <2> HIDE DEF found
  <2> QED
    BY <1>2, <2>1, FirstSlot
<1>5. r[at].packetId = 0 /\ at \in Slots /\ at > cursor /\ r[at].publishState \in states
  BY <1>3, <1>4
<1> HIDE DEF at, found
<1>6. at \in cursor + 1 .. i - 1
  BY <1>1, <1>2, <1>4, <1>5 DEF Slots
<1> QED
  BY <1>1, <1>5, <1>6

\* When handleSessionResumption and the loop over MQTT_PublishToResend end, no
\* record they should have sent is left, up to a freed one at which they stop.
THEOREM ResumptionComplete == Spec => []AllResent
<1>1. RecordsInv => AllResent
  <2> SUFFICES ASSUME RecordsInv PROVE AllResent
    OBVIOUS
  <2>1. records.outgoing \in Array /\ cursor \in 0 .. Count
    BY DEF RecordsInv, DeviceType, RecordsType
  <2> QED
    BY <2>1, NothingMissed DEF AllResent, PubrelToResend, PublishToResend
<1> QED
  BY <1>1, RecordsInvariant, PTL

-----------------------------------------------------------------------------
(* The records in use, as a set.                                           *)

InUse(r) == {r[i] : i \in {k \in Slots : ~Free(r, k)}}

Record(id, qos, state) == [packetId |-> id, qos |-> qos, publishState |-> state]

\* What becomes of a record that moves to a state.
After(x, state) == IF state = "PublishDone" THEN {} ELSE {Record(x.packetId, x.qos, state)}

\* The members of the set, by identifier.
LEMMA InUseFacts ==
  ASSUME NEW r \in Array
  PROVE  /\ \A x \in InUse(r) : x \in Records /\ x.packetId \in Ids
         /\ \A x \in InUse(r) : \E i \in Slots : ~Free(r, i) /\ r[i] = x
         /\ \A i \in Slots : ~Free(r, i) => r[i] \in InUse(r)
         /\ \A id \in Ids : Has(r, id) <=> \E x \in InUse(r) : x.packetId = id
         /\ Unique(r) => \A x, y \in InUse(r) : x.packetId = y.packetId => x = y
<1>1. \A i \in Slots : r[i] \in Records /\ (~Free(r, i) => r[i].packetId \in Ids)
  BY DEF Array, Records, Free
<1>2. \A id \in Ids : id # 0
  BY DEF Ids
<1>3. \A x \in InUse(r) : \E i \in Slots : ~Free(r, i) /\ r[i] = x
  BY DEF InUse
<1>4. \A i \in Slots : ~Free(r, i) => r[i] \in InUse(r)
  BY DEF InUse
<1>5. \A id \in Ids : Has(r, id) <=> \E x \in InUse(r) : x.packetId = id
  <2> SUFFICES ASSUME NEW id \in Ids PROVE Has(r, id) <=> \E x \in InUse(r) : x.packetId = id
    OBVIOUS
  <2>1. ASSUME NEW i \in Slots, r[i].packetId = id PROVE \E x \in InUse(r) : x.packetId = id
    BY <1>2, <1>4, <2>1 DEF Free
  <2>2. ASSUME NEW x \in InUse(r), x.packetId = id PROVE Has(r, id)
    BY <1>3, <2>2 DEF Has
  <2> QED
    BY <2>1, <2>2 DEF Has
<1>6. ASSUME Unique(r), NEW x \in InUse(r), NEW y \in InUse(r), x.packetId = y.packetId
      PROVE  x = y
  <2>1. PICK i \in Slots : ~Free(r, i) /\ r[i] = x
    BY <1>3
  <2>2. PICK j \in Slots : ~Free(r, j) /\ r[j] = y
    BY <1>3
  <2> QED
    BY <1>6, <2>1, <2>2 DEF Unique
<1> QED
  BY <1>1, <1>3, <1>4, <1>5, <1>6

\* A compaction keeps the set.
LEMMA ShiftedInUse ==
  ASSUME NEW new \in Array, NEW old \in Array, Shifted(new, old)
  PROVE  InUse(new) = InUse(old)
<1>1. PICK from \in [Slots -> Slots] :
        /\ \A i \in Slots : ~Free(new, i) => new[i] = old[from[i]]
        /\ \A j \in Slots : ~Free(old, j) => \E i \in Slots : ~Free(new, i) /\ from[i] = j
  BY DEF Shifted
<1>2. ASSUME NEW x \in InUse(new) PROVE x \in InUse(old)
  <2>1. PICK i \in Slots : ~Free(new, i) /\ new[i] = x
    BY InUseFacts
  <2>2. old[from[i]] = x /\ from[i] \in Slots /\ ~Free(old, from[i])
    BY <1>1, <2>1 DEF Free
  <2> QED
    BY <2>2, InUseFacts
<1>3. ASSUME NEW x \in InUse(old) PROVE x \in InUse(new)
  <2>1. PICK j \in Slots : ~Free(old, j) /\ old[j] = x
    BY InUseFacts
  <2>2. PICK i \in Slots : ~Free(new, i) /\ from[i] = j
    BY <1>1, <2>1
  <2> QED
    BY <1>1, <2>1, <2>2, InUseFacts
<1> QED
  BY <1>2, <1>3

\* A record added is one more.
LEMMA AddedInUse ==
  ASSUME NEW new \in Array, NEW old \in Array, NEW record \in Records, Added(new, old, record),
         record.packetId \in Ids, ~Has(old, record.packetId), Unique(old)
  PROVE  InUse(new) = InUse(old) \cup {record} /\ Unique(new)
<1>1. PICK c \in Array, at \in Slots :
        /\ Shifted(c, old)
        /\ \A j \in Slots : j >= at => Free(c, j)
        /\ new = Put(c, at, record)
  BY DEF Added
<1>2. InUse(c) = InUse(old) /\ Unique(c) /\ ~Has(c, record.packetId)
  BY <1>1, ShiftedInUse, ShiftedHas, Thinning, ThinnedUnique
<1>3. \A i \in Slots : i # at => new[i] = c[i]
  BY <1>1 DEF Put
<1>4. new[at] = record /\ Free(c, at) /\ ~Free(new, at)
  <2>1. new[at] = record
    BY <1>1 DEF Put
  <2>2. at >= at
    BY DEF Slots
  <2> QED
    BY <1>1, <2>1, <2>2 DEF Free, Ids
<1>5. Unique(new)
  BY <1>2, <1>3, <1>4 DEF Unique, Has, Free
<1>6. ASSUME NEW x \in InUse(new) PROVE x \in InUse(c) \cup {record}
  <2>1. PICK i \in Slots : ~Free(new, i) /\ new[i] = x
    BY InUseFacts
  <2>2. i = at \/ (~Free(c, i) /\ c[i] = x)
    BY <1>3, <2>1 DEF Free
  <2> QED
    BY <1>4, <2>1, <2>2, InUseFacts
<1>7. record \in InUse(new)
  BY <1>4, InUseFacts
<1>8. ASSUME NEW x \in InUse(c) PROVE x \in InUse(new)
  <2>1. PICK i \in Slots : ~Free(c, i) /\ c[i] = x
    BY InUseFacts
  <2>2. ~Free(new, i) /\ new[i] = x
    BY <1>3, <1>4, <2>1 DEF Free
  <2> QED
    BY <2>2, InUseFacts
<1> QED
  BY <1>2, <1>5, <1>6, <1>7, <1>8

\* A record freed is one less, and one moved on is replaced.
LEMMA PutInUse ==
  ASSUME NEW r \in Array, Unique(r), NEW i \in Slots, ~Free(r, i), NEW state \in PublishStates
  PROVE  /\ InUse(Freed(r, i)) = InUse(r) \ {r[i]}
         /\ Unique(Freed(r, i)) /\ ~Has(Freed(r, i), r[i].packetId)
         /\ InUse(Moved(r, i, state))
              = (InUse(r) \ {r[i]}) \cup {Record(r[i].packetId, r[i].qos, state)}
         /\ Unique(Moved(r, i, state))
<1>1. Freed(r, i) \in Array /\ Moved(r, i, state) \in Array
  BY PutType
<1>2. \A j \in Slots : j # i => Freed(r, i)[j] = r[j] /\ Moved(r, i, state)[j] = r[j]
  BY DEF Freed, Moved, Put
<1>3. Moved(r, i, state)[i] = Record(r[i].packetId, r[i].qos, state)
  <2>1. r[i] \in Records
    BY DEF Array
  <2> QED
    BY <2>1 DEF Moved, Put, Record, Records
<1>4. Free(Freed(r, i), i) /\ ~Free(Moved(r, i, state), i)
  BY PutType DEF Free
<1>5. \A j \in Slots : ~Free(r, j) /\ j # i => r[j] # r[i]
  BY DEF Unique, Free
<1>6. Unique(Freed(r, i)) /\ Unique(Moved(r, i, state)) /\ ~Has(Freed(r, i), r[i].packetId)
  <2>1. \A j \in Slots : /\ Freed(r, i)[j].packetId = IF j = i THEN 0 ELSE r[j].packetId
                        /\ Moved(r, i, state)[j].packetId = r[j].packetId
    BY PutType
  <2> QED
    BY <2>1 DEF Unique, Has, Free
<1> DEFINE f == Freed(r, i)
           m == Moved(r, i, state)
<1> HIDE DEF f, m
<1>7. InUse(f) = InUse(r) \ {r[i]}
  <2>1. f \in Array /\ Free(f, i) /\ \A j \in Slots : j # i => f[j] = r[j]
    BY <1>1, <1>2, <1>4 DEF f
  <2>2. ASSUME NEW x \in InUse(f) PROVE x \in InUse(r) \ {r[i]}
    <3>1. PICK j \in Slots : ~Free(f, j) /\ f[j] = x
      BY <2>1, InUseFacts
    <3>2. j # i /\ r[j] = x /\ ~Free(r, j)
      BY <2>1, <3>1 DEF Free
    <3> QED
      BY <1>5, <3>2, InUseFacts
  <2>3. ASSUME NEW x \in InUse(r) \ {r[i]} PROVE x \in InUse(f)
    <3>1. PICK j \in Slots : ~Free(r, j) /\ r[j] = x
      BY <2>3, InUseFacts
    <3>2. j # i /\ f[j] = x /\ ~Free(f, j)
      BY <2>1, <2>3, <3>1 DEF Free
    <3> QED
      BY <2>1, <3>2, InUseFacts
  <2> QED
    BY <2>2, <2>3
<1>8. InUse(m) = (InUse(r) \ {r[i]}) \cup {m[i]}
  <2>1. m \in Array /\ ~Free(m, i) /\ \A j \in Slots : j # i => m[j] = r[j]
    BY <1>1, <1>2, <1>4 DEF m
  <2>2. ASSUME NEW x \in InUse(m) PROVE x \in (InUse(r) \ {r[i]}) \cup {m[i]}
    <3>1. PICK j \in Slots : ~Free(m, j) /\ m[j] = x
      BY <2>1, InUseFacts
    <3>2. j = i \/ (r[j] = x /\ ~Free(r, j) /\ r[j] # r[i])
      BY <1>5, <2>1, <3>1 DEF Free
    <3> QED
      BY <3>1, <3>2, InUseFacts
  <2>3. ASSUME NEW x \in InUse(r) \ {r[i]} PROVE x \in InUse(m)
    <3>1. PICK j \in Slots : ~Free(r, j) /\ r[j] = x
      BY <2>3, InUseFacts
    <3>2. j # i /\ m[j] = x /\ ~Free(m, j)
      BY <2>1, <2>3, <3>1 DEF Free
    <3> QED
      BY <2>1, <3>2, InUseFacts
  <2>4. m[i] \in InUse(m)
    BY <2>1, InUseFacts
  <2> QED
    BY <2>2, <2>3, <2>4
<1> QED
  BY <1>3, <1>6, <1>7, <1>8 DEF f, m

\* addRecord adds one record to the set, or changes nothing of it.
LEMMA AddInUse ==
  ASSUME NEW r \in Array, Unique(r),
         NEW id \in Ids, NEW qos \in 0 .. 2, NEW state \in PublishStates
  PROVE  LET a == AddRecord(r, id, qos, state)
         IN /\ a.array \in Array /\ Unique(a.array)
            /\ \/ /\ a.status = "Success" /\ ~Has(r, id)
                  /\ InUse(a.array) = InUse(r) \cup {Record(id, qos, state)}
               \/ /\ a.status = "StateCollision" /\ Has(r, id)
                  /\ InUse(a.array) = InUse(r)
               \/ a.status = "NoMemory" /\ InUse(a.array) = InUse(r)
<1> DEFINE a == AddRecord(r, id, qos, state)
           record == [packetId |-> id, qos |-> qos, publishState |-> state]
<1>1. \/ a.status = "Success" /\ a.array \in Array /\ ~Has(r, id) /\ Added(a.array, r, record)
      \/ a.status = "StateCollision" /\ a.array \in Array /\ Has(r, id) /\ Shifted(a.array, r)
      \/ a.status = "NoMemory" /\ a.array \in Array /\ Shifted(a.array, r)
  BY AddRecordWorks
<1>2. record \in Records /\ record.packetId = id /\ record = Record(id, qos, state)
  BY DEF Records, Record
<1> HIDE DEF a, record
<1>3. CASE a.status = "Success" /\ a.array \in Array /\ ~Has(r, id) /\ Added(a.array, r, record)
  <2>1. InUse(a.array) = InUse(r) \cup {record} /\ Unique(a.array)
    BY <1>2, <1>3, AddedInUse
  <2> QED
    BY <1>2, <1>3, <2>1 DEF a
<1>4. CASE a.array \in Array /\ Shifted(a.array, r)
  <2>1. InUse(a.array) = InUse(r) /\ Unique(a.array)
    BY <1>4, ShiftedInUse, Thinning, ThinnedUnique
  <2>2. CASE a.status = "StateCollision" /\ Has(r, id)
    BY <1>4, <2>1, <2>2 DEF a
  <2>3. CASE a.status = "NoMemory"
    BY <1>4, <2>1, <2>3 DEF a
  <2>4. CASE a.status = "Success" /\ ~Has(r, id) /\ Added(a.array, r, record)
    BY <1>3, <1>4, <2>4
  <2> QED
    BY <1>1, <2>2, <2>3, <2>4
<1> QED
  BY <1>1, <1>3, <1>4

\* findInRecord finds the record in use that has the identifier.
LEMMA FindInUse ==
  ASSUME NEW r \in Array, Unique(r), NEW x \in InUse(r)
  PROVE  /\ Has(r, x.packetId) /\ Find(r, x.packetId) \in Slots
         /\ r[Find(r, x.packetId)] = x /\ ~Free(r, Find(r, x.packetId))
         /\ \A i \in Slots : r[i].packetId = x.packetId => i = Find(r, x.packetId)
<1>1. x.packetId \in Ids /\ Has(r, x.packetId)
  BY InUseFacts
<1>2. Find(r, x.packetId) \in Slots /\ r[Find(r, x.packetId)].packetId = x.packetId
  BY <1>1, FindWorks
<1>3. ~Free(r, Find(r, x.packetId))
  BY <1>1, <1>2 DEF Free, Ids
<1>4. r[Find(r, x.packetId)] = x
  BY <1>2, <1>3, InUseFacts
<1>5. \A i \in Slots : r[i].packetId = x.packetId => i = Find(r, x.packetId)
  BY <1>2, <1>3 DEF Unique
<1> QED
  BY <1>1, <1>2, <1>3, <1>4, <1>5

\* The result of an acknowledgement that moves a record of a direction on.
MovesOn(u, recs, d, x, new) ==
  /\ u.status = "Success" /\ u.state = new
  /\ \E a \in Array :
       /\ u.records = [recs EXCEPT ![d] = a] /\ Unique(a)
       /\ InUse(a) = (InUse(recs[d]) \ {x}) \cup After(x, new)
       /\ new \notin {"PublishDone", "PubRelSend"} =>
            \E i \in Slots : recs[d][i] = x /\ a = Moved(recs[d], i, new)

\* An acknowledgement that the state of its record allows succeeds, and moves
\* that record on.
LEMMA AckInUse ==
  ASSUME NEW recs \in RecordsType, Unique(recs.outgoing),
         NEW ack \in Acks, NEW op \in {"send", "receive"}, NEW d, d = DirectionOf(ack, op),
         Unique(recs[d]), NEW x \in InUse(recs[d]), x.qos \in {1, 2},
         NEW new, new = CalculateStateAck(ack, op, x.qos),
         <<x.publishState, new>> \in AckTransitions
  PROVE  MovesOn(UpdateStateAck(recs, x.packetId, ack, op), recs, d, x, new)
<1> DEFINE id == x.packetId
           u == UpdateStateAck(recs, id, ack, op)
           r == recs[d]
           i == Find(r, id)
           moved == MoveRecord(r, i, new)
<1>1. d \in Directions /\ r \in Array
  BY DEF DirectionOf, Directions, RecordsType
<1>2. /\ id \in Ids /\ x.packetId = id /\ Has(r, id) /\ i \in Slots /\ r[i] = x /\ ~Free(r, i)
      /\ \A j \in Slots : r[j].packetId = id => j = i
  BY <1>1, FindInUse, InUseFacts
<1>3. u = [status |-> moved.status, records |-> [recs EXCEPT ![d] = moved.array],
           state |-> IF moved.status = "Success" THEN new ELSE "Null"]
  BY <1>2 DEF UpdateStateAck
<1>4. /\ new \in PublishStates \ {"Null"}
      /\ new = "PubRelSend" => x.qos = 2
  <2>1. <<x.publishState, new>> \in AckTransitions
    OBVIOUS
  <2>2. x.qos = 1 => new \in {"PublishDone", "Null"}
    BY DEF CalculateStateAck, Acks
  <2>3. new \in PublishStates \ {"Null"}
    BY <2>1 DEF AckTransitions, PublishStates
  <2> QED
    BY <2>2, <2>3
<1>5. \/ u.status \in {"BadResponse", "IllegalState"}
      \/ /\ u.status = "Success"
         /\ \E a \in Array : /\ Acknowledged(a, recs[d], id, u.state)
                            /\ u.records = [recs EXCEPT ![d] = a]
  BY <1>2, UpdateStateAckWorks
<1>6. Freed(r, i) \in Array /\ x.packetId = id
  BY <1>1, <1>2, <1>4, PutType
<1> HIDE DEF u, i, r, id
<1>7. moved.status \in {"Success", "StateCollision", "NoMemory"}
  <2>1. CASE new = "PubRelSend"
    <3>1. moved = AddRecord(Freed(r, i), id, 2, "PubRelSend")
      BY <1>2, <2>1 DEF MoveRecord, Freed
    <3>2. 2 \in 0 .. 2 /\ "PubRelSend" \in PublishStates
      BY DEF PublishStates
    <3>3. AddRecord(Freed(r, i), id, 2, "PubRelSend").status
            \in {"Success", "StateCollision", "NoMemory"}
      BY ONLY <1>2, <1>6, <3>2, AddRecordWorks
    <3> QED
      BY <3>1, <3>3
  <2>2. CASE new # "PubRelSend"
    BY <2>2 DEF MoveRecord
  <2> QED
    BY <2>1, <2>2
<1> HIDE DEF moved
<1>8. u.status = "Success" /\ u.state = new
  BY <1>3, <1>5, <1>7
<1>9. PICK a \in Array : Acknowledged(a, r, id, new) /\ u.records = [recs EXCEPT ![d] = a]
  BY <1>5, <1>8 DEF r
<1>10. /\ <<r[i].publishState, new>> \in AckTransitions
       /\ \/ new = "PublishDone" /\ a = Freed(r, i)
          \/ /\ new = "PubRelSend"
             /\ Added(a, Freed(r, i), [packetId |-> id, qos |-> 2, publishState |-> "PubRelSend"])
          \/ new \notin {"PublishDone", "PubRelSend"} /\ a = Moved(r, i, new)
  BY <1>2, <1>9 DEF Acknowledged
<1>11. /\ InUse(Freed(r, i)) = InUse(r) \ {x}
       /\ Unique(Freed(r, i)) /\ ~Has(Freed(r, i), id)
       /\ InUse(Moved(r, i, new)) = (InUse(r) \ {x}) \cup {Record(id, x.qos, new)}
       /\ Unique(Moved(r, i, new))
  <2>1. Unique(r)
    BY DEF r
  <2> QED
    BY <1>1, <1>2, <1>4, <1>6, <2>1, PutInUse
<1>12. Unique(a) /\ InUse(a) = (InUse(r) \ {x}) \cup After(x, new)
  <2>1. CASE new = "PublishDone" /\ a = Freed(r, i)
    BY <1>11, <2>1 DEF After
  <2>2. CASE /\ new = "PubRelSend"
             /\ Added(a, Freed(r, i), [packetId |-> id, qos |-> 2, publishState |-> "PubRelSend"])
    <3> DEFINE record == [packetId |-> id, qos |-> 2, publishState |-> "PubRelSend"]
    <3>1. record \in Records /\ record.packetId = id /\ After(x, new) = {record}
      BY <1>2, <1>4, <2>2 DEF Records, PublishStates, After, Record
    <3> HIDE DEF record
    <3>2. InUse(a) = InUse(Freed(r, i)) \cup {record} /\ Unique(a)
      BY <1>2, <1>6, <1>11, <2>2, <3>1, AddedInUse DEF record
    <3> QED
      BY <1>11, <3>1, <3>2
  <2>3. CASE new \notin {"PublishDone", "PubRelSend"} /\ a = Moved(r, i, new)
    BY <1>6, <1>11, <2>3 DEF After
  <2> QED
    BY <1>10, <2>1, <2>2, <2>3
<1>13. new \notin {"PublishDone", "PubRelSend"} =>
         \E j \in Slots : r[j] = x /\ a = Moved(r, j, new)
  BY <1>2, <1>10
<1> QED
  BY <1>8, <1>9, <1>12, <1>13 DEF MovesOn, u, r, id

\* A publish that is sent, or sent again, moves its record on.
LEMMA SentInUse ==
  ASSUME NEW recs \in RecordsType, Unique(recs.outgoing), NEW x \in InUse(recs.outgoing),
         <<x.publishState, CalculateStatePublish("send", x.qos)>> \in PublishTransitions(x.qos)
  PROVE  LET s == SentPublish(recs, x.packetId, x.qos)
             new == CalculateStatePublish("send", x.qos)
         IN /\ s.status = "Success"
            /\ \E i \in Slots :
                 /\ recs.outgoing[i] = x
                 /\ s.records = [recs EXCEPT !.outgoing = Moved(recs.outgoing, i, new)]
            /\ Unique(s.records.outgoing)
            /\ InUse(s.records.outgoing)
                 = (InUse(recs.outgoing) \ {x}) \cup {Record(x.packetId, x.qos, new)}
<1> DEFINE r == recs.outgoing
           i == Find(r, x.packetId)
           new == CalculateStatePublish("send", x.qos)
           s == SentPublish(recs, x.packetId, x.qos)
<1>1. r \in Array
  BY DEF RecordsType
<1>2. Has(r, x.packetId) /\ i \in Slots /\ r[i] = x /\ ~Free(r, i)
  BY <1>1, FindInUse
<1>3. s = [status |-> "Success", records |-> [recs EXCEPT !.outgoing = Moved(r, i, new)]]
  BY <1>2 DEF SentPublish, Moved
<1>4. new \in PublishStates
  BY DEF CalculateStatePublish, PublishStates
<1> HIDE DEF i, new, s
<1>5. /\ InUse(Moved(r, i, new)) = (InUse(r) \ {x}) \cup {Record(x.packetId, x.qos, new)}
      /\ Unique(Moved(r, i, new))
  BY <1>1, <1>2, <1>4, PutInUse
<1>6. s.status = "Success" /\ s.records.outgoing = Moved(r, i, new)
  BY <1>3 DEF RecordsType
<1> QED
  BY <1>2, <1>3, <1>5, <1>6 DEF s, new

-----------------------------------------------------------------------------
(* Conversations.  The sender of a publish speaks in PUBLISH and PUBREL,   *)
(* its receiver in PUBACK, PUBREC and PUBCOMP.  Of one direction and one   *)
(* identifier there is never more than one packet in flight.               *)

Senders   == {"PUBLISH", "PUBREL"}
Receivers == {"PUBACK", "PUBREC", "PUBCOMP"}

\* The packets of a queue that belong to a direction, and whom they speak of.
In(q) == {q[k] : k \in DOMAIN q}
Of(q, types) == {p \in In(q) : p.type \in types}
Speaking(q, types) == {p.id : p \in Of(q, types)}

\* The packets of a queue are packets.
LEMMA InType ==
  ASSUME NEW S, NEW q \in Seq(S)
  PROVE  In(q) \subseteq S
  BY DEF In

\* What an element appended adds to them;
LEMMA AppendedIn ==
  ASSUME NEW S, NEW q \in Seq(S), NEW m \in S
  PROVE  In(Append(q, m)) = In(q) \cup {m}
<1> DEFINE new == Append(q, m)
<1>1. /\ DOMAIN new = 1 .. Len(q) + 1 /\ DOMAIN q = 1 .. Len(q) /\ Len(q) \in Nat
      /\ new[Len(q) + 1] = m
      /\ \A k \in 1 .. Len(q) : new[k] = q[k]
  OBVIOUS
<1> HIDE DEF new
<1>2. \A k \in DOMAIN new : new[k] = m \/ (k \in DOMAIN q /\ new[k] = q[k])
  BY <1>1
<1>3. /\ \A k \in DOMAIN q : k \in DOMAIN new /\ new[k] = q[k]
      /\ \E k \in DOMAIN new : new[k] = m
  BY <1>1
<1>4. In(new) \subseteq In(q) \cup {m}
  BY <1>2 DEF In
<1>5. In(q) \subseteq In(new) /\ m \in In(new)
  BY <1>3 DEF In
<1> QED
  BY <1>4, <1>5 DEF new

\* a message appended that is of QoS 1, or new, repeats none of QoS 2.
LEMMA AppendedTwice ==
  ASSUME NEW S, NEW q \in Seq(S), NEW m \in S, \A k \in Twice(q) : k.qos = 1,
         m.qos = 1 \/ m \notin In(q)
  PROVE  \A k \in Twice(Append(q, m)) : k.qos = 1
<1> DEFINE new == Append(q, m)
<1>1. /\ DOMAIN new = 1 .. Len(q) + 1 /\ DOMAIN q = 1 .. Len(q) /\ Len(q) \in Nat
      /\ new[Len(q) + 1] = m
      /\ \A k \in 1 .. Len(q) : new[k] = q[k]
  OBVIOUS
<1> HIDE DEF new
<1> SUFFICES ASSUME NEW k \in DOMAIN new, NEW j \in 1 .. k - 1, new[j] = new[k]
             PROVE  new[k].qos = 1
  BY DEF Twice, new
<1>2. CASE k = Len(q) + 1
  <2>1. j \in DOMAIN q /\ new[k] = m /\ q[j] = m
    BY <1>1, <1>2
  <2>2. m \in In(q)
    BY <2>1 DEF In
  <2> QED
    BY <2>1, <2>2
<1>3. CASE k # Len(q) + 1
  <2>1. k \in DOMAIN q /\ j \in DOMAIN q /\ new[k] = q[k] /\ q[j] = q[k]
    BY <1>1, <1>3
  <2>2. q[k] \in Twice(q)
    BY <2>1 DEF Twice
  <2> QED
    BY <2>1, <2>2
<1> QED
  BY <1>2, <1>3

\* None of them speaks of the identifier of another.
Sole(q, types) ==
  \A i, j \in DOMAIN q :
    q[i].type \in types /\ q[j].type \in types /\ q[i].id = q[j].id => i = j

\* Nothing was added that belongs to the direction.
Fewer(new, old, types) ==
  /\ Of(new, types) \subseteq Of(old, types)
  /\ Sole(old, types) => Sole(new, types)

\* A queue left as it is, emptied, or extended by a packet of the other
\* direction.
LEMMA FewerIn ==
  ASSUME NEW S, NEW q \in Seq(S), NEW types
  PROVE  /\ Fewer(q, q, types)
         /\ Fewer(<<>>, q, types)
         /\ \A p \in S : p.type \notin types => Fewer(Append(q, p), q, types)
<1>1. Fewer(q, q, types)
  BY DEF Fewer
<1>2. Fewer(<<>>, q, types)
  BY DEF Fewer, Of, In, Sole
<1>3. ASSUME NEW p \in S, p.type \notin types
      PROVE  Fewer(Append(q, p), q, types)
  <2> DEFINE new == Append(q, p)
  <2>1. /\ DOMAIN new = 1 .. Len(q) + 1 /\ DOMAIN q = 1 .. Len(q) /\ Len(q) \in Nat
        /\ new[Len(q) + 1] = p
        /\ \A k \in 1 .. Len(q) : new[k] = q[k]
    OBVIOUS
  <2> HIDE DEF new
  <2>2. \A k \in DOMAIN new : new[k].type \in types => k \in DOMAIN q /\ new[k] = q[k]
    <3> SUFFICES ASSUME NEW k \in DOMAIN new, new[k].type \in types
                 PROVE  k \in DOMAIN q /\ new[k] = q[k]
      OBVIOUS
    <3>1. k # Len(q) + 1
      BY <1>3, <2>1
    <3> QED
      BY <2>1, <3>1
  <2>3. Of(new, types) \subseteq Of(q, types)
    BY <2>2 DEF Of, In
  <2>4. Sole(q, types) => Sole(new, types)
    BY <2>2 DEF Sole
  <2> QED
    BY <2>3, <2>4 DEF Fewer, new
<1> QED
  BY <1>1, <1>2, <1>3

\* A packet read leaves the queue, and none behind it speaks of its identifier
\* in its direction.
LEMMA Read ==
  ASSUME NEW S, NEW q \in Seq(S), q # <<>>, NEW types
  PROVE  /\ Head(q) \in In(q) /\ Head(q) \in S
         /\ Head(q).type \in types => Head(q) \in Of(q, types) /\ Head(q).id \in Speaking(q, types)
         /\ Fewer(Tail(q), q, types)
         /\ Sole(q, types) /\ Head(q).type \in types => Head(q).id \notin Speaking(Tail(q), types)
<1> DEFINE t == Tail(q)
           h == Head(q)
<1>1. /\ Len(q) \in Nat \ {0} /\ DOMAIN q = 1 .. Len(q) /\ DOMAIN t = 1 .. Len(q) - 1
      /\ h = q[1] /\ \A k \in 1 .. Len(q) - 1 : t[k] = q[k + 1]
      /\ h \in S
  OBVIOUS
<1> HIDE DEF t, h
<1>2. /\ 1 \in DOMAIN q
      /\ \A k \in DOMAIN t : k \in Nat /\ k + 1 \in DOMAIN q /\ t[k] = q[k + 1] /\ k + 1 # 1
  BY <1>1
<1>3. h \in In(q)
  BY <1>1, <1>2 DEF In
<1>4. Of(t, types) \subseteq Of(q, types)
  BY <1>2 DEF Of, In
<1>5. ASSUME Sole(q, types) PROVE Sole(t, types)
  <2> SUFFICES ASSUME NEW j \in DOMAIN t, NEW k \in DOMAIN t,
                      t[j].type \in types, t[k].type \in types, t[j].id = t[k].id
               PROVE  j = k
    BY DEF Sole
  <2>1. j + 1 = k + 1
    BY <1>2, <1>5 DEF Sole
  <2> QED
    BY <1>2, <2>1
<1>6. ASSUME Sole(q, types), h.type \in types PROVE h.id \notin Speaking(t, types)
  <2> SUFFICES ASSUME NEW k \in DOMAIN t, t[k].type \in types, t[k].id = h.id PROVE FALSE
    BY DEF Speaking, Of, In
  <2>1. k + 1 = 1
    BY <1>1, <1>2, <1>6 DEF Sole
  <2> QED
    BY <1>2, <2>1
<1>7. h.type \in types => h \in Of(q, types) /\ h.id \in Speaking(q, types)
  BY <1>3 DEF Of, Speaking
<1> QED
  BY <1>1, <1>3, <1>4, <1>5, <1>6, <1>7 DEF Fewer, h, t

\* A packet sent is the only one of its identifier if none was before it.
LEMMA Written ==
  ASSUME NEW S, NEW q \in Seq(S), NEW p \in S, NEW types
  PROVE  /\ Of(Append(q, p), types) \subseteq Of(q, types) \cup {p}
         /\ Sole(q, types) /\ p.id \notin Speaking(q, types) => Sole(Append(q, p), types)
<1> DEFINE new == Append(q, p)
<1>1. /\ DOMAIN new = 1 .. Len(q) + 1 /\ DOMAIN q = 1 .. Len(q) /\ Len(q) \in Nat
      /\ new[Len(q) + 1] = p
      /\ \A k \in 1 .. Len(q) : new[k] = q[k]
  OBVIOUS
<1> HIDE DEF new
<1>2. \A k \in DOMAIN new : (k = Len(q) + 1 /\ new[k] = p) \/ (k \in DOMAIN q /\ new[k] = q[k])
  BY <1>1
<1>3. Of(new, types) \subseteq Of(q, types) \cup {p}
  BY <1>2 DEF Of, In
<1>4. ASSUME Sole(q, types), p.id \notin Speaking(q, types) PROVE Sole(new, types)
  <2>1. \A k \in DOMAIN q : q[k].type \in types => q[k].id # p.id
    BY <1>4 DEF Speaking, Of, In
  <2> SUFFICES ASSUME NEW j \in DOMAIN new, NEW k \in DOMAIN new,
                      new[j].type \in types, new[k].type \in types, new[j].id = new[k].id
               PROVE  j = k
    BY DEF Sole
  <2> QED
    BY <1>2, <1>4, <2>1 DEF Sole
<1> QED
  BY <1>3, <1>4 DEF new

\* Of one direction, at most one packet of an identifier is on its way, up or
\* down.
Single(up, down, ups, downs) ==
  /\ Sole(up, ups) /\ Sole(down, downs)
  /\ Speaking(up, ups) \cap Speaking(down, downs) = {}

\* It stays so when nothing is added;
LEMMA SingleFewer ==
  ASSUME NEW up, NEW down, NEW ups, NEW downs, Single(up, down, ups, downs),
         NEW newUp, NEW newDown, Fewer(newUp, up, ups), Fewer(newDown, down, downs)
  PROVE  Single(newUp, newDown, ups, downs)
  BY DEF Single, Fewer, Speaking

\* when a packet is sent of an identifier that none speaks of;
LEMMA SingleWritten ==
  ASSUME NEW S, NEW up \in Seq(S), NEW down, NEW ups, NEW downs, Single(up, down, ups, downs),
         NEW p \in S, p.id \notin Speaking(up, ups), p.id \notin Speaking(down, downs)
  PROVE  Single(Append(up, p), down, ups, downs)
<1>1. Sole(Append(up, p), ups) /\ Of(Append(up, p), ups) \subseteq Of(up, ups) \cup {p}
  BY Written DEF Single
<1>2. Speaking(Append(up, p), ups) \subseteq Speaking(up, ups) \cup {p.id}
  BY <1>1 DEF Speaking
<1> QED
  BY <1>1, <1>2 DEF Single

\* when the same happens at the other end;
LEMMA SingleTurned ==
  ASSUME NEW up, NEW down, NEW ups, NEW downs
  PROVE  Single(up, down, ups, downs) <=> Single(down, up, downs, ups)
  BY DEF Single

\* and when a packet is answered.
LEMMA SingleAnswered ==
  ASSUME NEW S, NEW up \in Seq(S), NEW down \in Seq(S), NEW ups, NEW downs,
         Single(up, down, ups, downs), down # <<>>, Head(down).type \in downs,
         NEW p \in S, p.id = Head(down).id
  PROVE  Single(Append(up, p), Tail(down), ups, downs)
<1>1. /\ Head(down).id \in Speaking(down, downs)
      /\ Fewer(Tail(down), down, downs)
      /\ Head(down).id \notin Speaking(Tail(down), downs)
  BY Read DEF Single
<1>2. Single(up, Tail(down), ups, downs)
  <2>1. Fewer(up, up, ups)
    BY FewerIn
  <2> QED
    BY <1>1, <2>1, SingleFewer
<1>3. p.id \notin Speaking(up, ups) /\ p.id \notin Speaking(Tail(down), downs)
  BY <1>1 DEF Single
<1> QED
  BY <1>2, <1>3, SingleWritten

-----------------------------------------------------------------------------
(* The conversations about the device's publishes.                         *)

Outgoing == InUse(records.outgoing)
Unacked(x) == x.publishState \in UnackedPublish
Pending(qos) == IF qos = 1 THEN "PubAckPending" ELSE "PubRecPending"

\* Without a connection nothing is on its way.
Silent == pc = "down" => link = "closed" /\ toBroker = <<>> /\ toDevice = <<>>

\* The state of a record in use, and the copy of one that waits.
StateFits(x) ==
  /\ \/ x.publishState = "PublishSend" /\ x.qos \in {1, 2}
     \/ x.publishState = "PubAckPending" /\ x.qos = 1
     \/ x.publishState \in {"PubRecPending", "PubRelSend", "PubCompPending"} /\ x.qos = 2
  /\ Unacked(x) => store[x.packetId].qos = x.qos

OutStates == \A x \in Outgoing : StateFits(x)

\* What is on its way to the broker is what the record of its identifier says.
SentFits(p) ==
  /\ p.type = "PUBLISH" =>
       /\ p.msg.qos \in {1, 2} /\ p.msg = store[p.id]
       /\ Record(p.id, p.msg.qos, Pending(p.msg.qos)) \in Outgoing
  /\ p.type = "PUBREL" => Record(p.id, 2, "PubCompPending") \in Outgoing

OutSent == \A p \in Of(toBroker, Senders) : SentFits(p)

\* What the broker answers, it has done, and the record waits for.
AnswerFits(p) ==
  /\ p.type = "PUBACK" => /\ Record(p.id, 1, "PubAckPending") \in Outgoing
                          /\ store[p.id] \in In(delivered)
  /\ p.type = "PUBREC" => /\ Record(p.id, 2, "PubRecPending") \in Outgoing
                          /\ p.id \in brokerIn
  /\ p.type = "PUBCOMP" => /\ Record(p.id, 2, "PubCompPending") \in Outgoing
                           /\ p.id \notin brokerIn

OutAnswered == \A p \in Of(toDevice, Receivers) : AnswerFits(p)

\* The broker remembers an identifier from the PUBLISH it passed on to the
\* PUBREL, and so long the record stays.
ReceivedFits(x) ==
  x.qos = 2 /\ Unacked(x) => (x.packetId \in brokerIn <=> store[x.packetId] \in In(delivered))

OutReceived ==
  /\ \A x \in Outgoing : ReceivedFits(x)
  /\ \A id \in brokerIn : \E x \in Outgoing : x.packetId = id /\ x.qos = 2
  /\ \A m \in In(delivered) : m.n <= accepted

\* A resumption has not yet sent anything of the records behind its cursor.
OutCursor ==
  \A i \in Slots :
    LET r == records.outgoing
    IN ~Free(r, i) /\ r[i].packetId \in Speaking(toBroker, Senders) \cup Speaking(toDevice, Receivers)
         => /\ pc = "resume" => ~Waiting(r, i) /\ i <= cursor
            /\ pc = "resend" /\ Waiting(r, i) => i <= cursor

\* What a kept session has accepted was passed on or has a record that waits.
OutKept ==
  load.keep => \A n \in 1 .. accepted :
    \/ \E m \in In(delivered) : m.n = n
    \/ \E x \in Outgoing : Unacked(x) /\ store[x.packetId].n = n

OutInv ==
  /\ Single(toBroker, toDevice, Senders, Receivers)
  /\ OutStates /\ OutSent /\ OutAnswered /\ OutReceived /\ OutCursor /\ OutKept
  /\ ExactlyOnceOut

\* What the invariant of the records says of their set: no two publishes that
\* wait have the same copy.
LEMMA OutFacts ==
  ASSUME RecordsInv
  PROVE  /\ records.outgoing \in Array /\ Unique(records.outgoing)
         /\ \A x \in Outgoing : x \in Records /\ x.packetId \in Ids
         /\ \A x, y \in Outgoing : x.packetId = y.packetId => x = y
         /\ \A x, y \in Outgoing : Unacked(x) /\ Unacked(y) /\ x # y =>
              store[x.packetId] # store[y.packetId]
         /\ \A x \in Outgoing : Unacked(x) => store[x.packetId].n <= accepted
<1> DEFINE r == records.outgoing
<1>1. r \in Array /\ Unique(r) /\ InOrder(r, store, accepted) /\ store \in [Ids -> Messages]
  BY DEF RecordsInv, DeviceType, RecordsType, InOrder
<1> HIDE DEF r
<1>2. Outgoing = InUse(r)
  BY DEF Outgoing, r
<1>3. /\ \A x \in InUse(r) : x \in Records /\ x.packetId \in Ids
      /\ \A x, y \in InUse(r) : x.packetId = y.packetId => x = y
      /\ \A x \in InUse(r) : \E i \in Slots : ~Free(r, i) /\ r[i] = x
  BY <1>1, InUseFacts
<1>4. ASSUME NEW x \in InUse(r), NEW y \in InUse(r), Unacked(x), Unacked(y), x # y
      PROVE  store[x.packetId] # store[y.packetId]
  <2>1. PICK i \in Slots : ~Free(r, i) /\ r[i] = x
    BY <1>3
  <2>2. PICK j \in Slots : ~Free(r, j) /\ r[j] = y
    BY <1>3
  <2>3. Waiting(r, i) /\ Waiting(r, j) /\ (i < j \/ j < i)
    BY <1>4, <2>1, <2>2 DEF Waiting, Unacked, Slots
  <2>4. store[x.packetId].n \in Nat /\ store[y.packetId].n \in Nat
    BY <1>1, <1>3 DEF Messages
  <2> QED
    BY <1>1, <2>1, <2>2, <2>3, <2>4 DEF InOrder
<1>5. ASSUME NEW x \in InUse(r), Unacked(x)
      PROVE  store[x.packetId].n <= accepted
  <2>1. PICK i \in Slots : ~Free(r, i) /\ r[i] = x
    BY <1>3
  <2> QED
    BY <1>1, <1>5, <2>1 DEF InOrder, Waiting, Unacked
<1> QED
  BY <1>1, <1>2, <1>3, <1>4, <1>5 DEF r

\* A packet in flight has a record.
LEMMA OutRecords ==
  ASSUME OutSent, OutAnswered,
         NEW id \in Speaking(toBroker, Senders) \cup Speaking(toDevice, Receivers)
  PROVE  \E x \in Outgoing : x.packetId = id
<1>1. CASE id \in Speaking(toBroker, Senders)
  <2>1. PICK p \in Of(toBroker, Senders) : p.id = id
    BY <1>1 DEF Speaking
  <2>2. p.type = "PUBLISH" \/ p.type = "PUBREL"
    BY DEF Of, Senders
  <2> QED
    BY <2>1, <2>2 DEF OutSent, SentFits, Record
<1>2. CASE id \in Speaking(toDevice, Receivers)
  <2>1. PICK p \in Of(toDevice, Receivers) : p.id = id
    BY <1>2 DEF Speaking
  <2>2. p.type \in {"PUBACK", "PUBREC", "PUBCOMP"}
    BY DEF Of, Receivers
  <2> QED
    BY <2>1, <2>2 DEF OutAnswered, AnswerFits, Record
<1> QED
  BY <1>1, <1>2

\* A step that sends nothing new of this direction, and leaves records, copies
\* and broker alone.
LEMMA OutQuiet ==
  ASSUME OutInv, Outgoing' = Outgoing, OutCursor',
         UNCHANGED <<store, accepted, delivered, brokerIn, load>>,
         Fewer(toBroker', toBroker, Senders), Fewer(toDevice', toDevice, Receivers)
  PROVE  OutInv'
<1>1. Single(toBroker', toDevice', Senders, Receivers)
  BY SingleFewer DEF OutInv
<1>2. OutStates' /\ OutReceived' /\ OutKept'
  BY DEF OutInv, OutStates, StateFits, OutReceived, ReceivedFits, OutKept
<1>3. OutSent' /\ OutAnswered'
  BY DEF OutInv, OutSent, SentFits, OutAnswered, AnswerFits, Fewer
<1>4. ExactlyOnceOut'
  BY DEF OutInv, ExactlyOnceOut
<1> QED
  BY <1>1, <1>2, <1>3, <1>4 DEF OutInv

\* The cursor, when there is none, and when nothing is added.
LEMMA CursorQuiet ==
  ASSUME OutInv,
         \/ pc' \in {"ready", "failed", "down"}
         \/ /\ UNCHANGED <<records, pc, cursor>>
            /\ Fewer(toBroker', toBroker, Senders) /\ Fewer(toDevice', toDevice, Receivers)
         \/ Of(toBroker', Senders) = {} /\ Of(toDevice', Receivers) = {}
  PROVE  OutCursor'
<1>1. CASE pc' \in {"ready", "failed", "down"}
  BY <1>1 DEF OutCursor
<1>2. CASE /\ UNCHANGED <<records, pc, cursor>>
           /\ Fewer(toBroker', toBroker, Senders) /\ Fewer(toDevice', toDevice, Receivers)
  BY <1>2 DEF OutInv, OutCursor, Fewer, Speaking
<1>3. CASE Of(toBroker', Senders) = {} /\ Of(toDevice', Receivers) = {}
  BY <1>3 DEF OutCursor, Speaking
<1> QED
  BY <1>1, <1>2, <1>3

\* An acknowledgement changes the records of its direction alone.
LEMMA OtherDirection ==
  ASSUME NEW recs \in RecordsType, NEW id, NEW ack, NEW op
  PROVE  LET new == UpdateStateAck(recs, id, ack, op).records
         IN /\ DirectionOf(ack, op) = "incoming" => new.outgoing = recs.outgoing
            /\ DirectionOf(ack, op) = "outgoing" => new.incoming = recs.incoming
  BY DEF UpdateStateAck, RecordsType

\* sendPublishAcks for a publish of the broker leaves the device's alone.
LEMMA AckSentIncoming ==
  ASSUME NEW recs \in RecordsType, NEW id \in Ids, NEW state, state # "PubRelSend",
         toBroker \in Seq(Packets), SendPublishAck(recs, id, state)
  PROVE  /\ records'.outgoing = recs.outgoing
         /\ Fewer(toBroker', toBroker, Senders)
         /\ pc' \in {pc, "failed"}
<1> DEFINE type == AckTypeToSend(state)
           u == UpdateStateAck(recs, id, type, "send")
<1>1. type \in Receivers \cup {"none"}
  BY DEF AckTypeToSend, Receivers
<1>2. \/ type = "none" /\ records' = recs /\ UNCHANGED toBroker /\ Finish("Success")
      \/ /\ type # "none" /\ SendOk(Ack(type, id))
         /\ records' = u.records /\ Finish(u.status)
      \/ type # "none" /\ SendFails /\ records' = recs /\ Finish("SendFailed")
  BY DEF SendPublishAck
<1>3. u.records.outgoing = recs.outgoing
  <2>1. DirectionOf(type, "send") = "incoming"
    BY <1>1 DEF DirectionOf, Receivers
  <2> HIDE DEF type
  <2> QED
    BY <2>1, OtherDirection
<1>4. type # "none" => Ack(type, id) \in Packets /\ Ack(type, id).type \notin Senders
  BY <1>1 DEF Receivers, Senders, Ack, Packets, Acks, NoMessage, Messages
<1> HIDE DEF type, u
<1>5. toBroker' = toBroker \/ (type # "none" /\ toBroker' = Append(toBroker, Ack(type, id)))
  BY <1>2 DEF SendOk, SendFails
<1>6. Fewer(toBroker', toBroker, Senders)
  BY <1>4, <1>5, FewerIn
<1>7. pc' \in {pc, "failed"}
  BY <1>2 DEF Finish
<1> QED
  BY <1>2, <1>3, <1>6, <1>7

\* Only the device's own steps see the cursor, and between two connections
\* there is nothing in flight.
LEMMA SilentKept ==
  ASSUME RecordsInv, Silent, [Next]_vars
  PROVE  Silent'
<1>1. CASE Connect
  BY <1>1 DEF Connect, Silent
<1>2. CASE ResumePubrel
  BY <1>2 DEF ResumePubrel, SendPublishAck, Finish, Silent
<1>3. CASE Resend
  BY <1>3 DEF Resend, Finish, Silent
<1>4. CASE \E qos \in QoSLevels : SendNew(qos)
  BY <1>4 DEF SendNew, Silent
<1>5. CASE ReceivePublish
  BY <1>5 DEF ReceivePublish, SendPublishAck, Finish, Silent
<1>6. CASE ReceiveAck
  BY <1>6 DEF ReceiveAck, SendPublishAck, Finish, Silent
<1>7. CASE NoticeLoss \/ HangUp
  BY <1>7 DEF NoticeLoss, HangUp, Silent
<1>8. CASE BrokerReceive \/ BrokerPublish \/ Break
  BY <1>8 DEF BrokerReceive, BrokerPublish, Break, Silent, deviceVars
<1>9. CASE UNCHANGED vars
  BY <1>9 DEF vars, deviceVars, wireVars, Silent
<1> QED
  BY <1>1, <1>2, <1>3, <1>4, <1>5, <1>6, <1>7, <1>8, <1>9 DEF Next, Device

\* The end of a connection, and what it leaves of this direction: nothing in
\* flight.
LEMMA OutEnd ==
  ASSUME RecordsInv, OutInv, NoticeLoss \/ HangUp
  PROVE  OutInv'
<1>1. /\ UNCHANGED <<records, store, accepted, delivered, brokerIn, load>>
      /\ pc' \in {"failed", "down"}
      /\ toBroker' \in {<<>>, toBroker} /\ toDevice' \in {<<>>, toDevice}
  BY DEF NoticeLoss, HangUp, wireVars, brokerVars
<1>2. toBroker \in Seq(Packets) /\ toDevice \in Seq(Packets)
  BY DEF RecordsInv, WireType
<1>3. Fewer(toBroker', toBroker, Senders) /\ Fewer(toDevice', toDevice, Receivers)
  BY <1>1, <1>2, FewerIn
<1> QED
  BY <1>1, <1>3, OutQuiet, CursorQuiet DEF Outgoing

\* A publish of the broker, and its release, leave this direction alone.
LEMMA OutReceives ==
  ASSUME RecordsInv, OutInv,
         ReceivePublish \/ (ReceiveAck /\ Head(toDevice).type = "PUBREL")
  PROVE  OutInv'
<1> DEFINE p == Head(toDevice)
<1>0. records \in RecordsType /\ toBroker \in Seq(Packets) /\ toDevice \in Seq(Packets)
  BY DEF RecordsInv, DeviceType, WireType
<1>1. /\ toDevice' = Tail(toDevice) /\ toDevice # <<>> /\ pc = "ready"
      /\ UNCHANGED <<accepted, delivered, brokerIn, load>>
  BY DEF ReceivePublish, ReceiveAck, brokerVars
<1>2. p \in Packets /\ p.id \in Ids /\ p.msg.qos \in 0 .. 2
  <2>1. p \in Packets
    BY <1>0, <1>1, PacketsType
  <2> QED
    BY <2>1 DEF Packets, Messages, QoSLevels
<1>3. Fewer(toDevice', toDevice, Receivers)
  BY <1>0, <1>1, Read
<1>4. CASE ReceivePublish
  <2> DEFINE state == CalculateStatePublish("receive", p.msg.qos)
             recs == ReceivedPublish(records, p.id, p.msg.qos).records
  <2>1. recs \in RecordsType /\ recs.outgoing = records.outgoing
    <3>1. state \in PublishStates
      BY DEF CalculateStatePublish, PublishStates
    <3>2. AddRecord(records.incoming, p.id, p.msg.qos, state).array \in Array
      BY <1>0, <1>2, <3>1, AddRecordWorks DEF RecordsType
    <3> QED
      BY <1>0, <3>2 DEF ReceivedPublish, RecordsType
  <2>2. state # "PubRelSend"
    BY DEF CalculateStatePublish
  <2>3. /\ UNCHANGED store
        /\ \/ SendPublishAck(recs, p.id, state)
           \/ records' = recs /\ pc' = "failed" /\ UNCHANGED toBroker
    BY <1>4 DEF ReceivePublish, Finish
  <2> HIDE DEF p, state, recs
  <2>4. /\ records'.outgoing = records.outgoing /\ pc' \in {pc, "failed"}
        /\ Fewer(toBroker', toBroker, Senders)
    BY <1>0, <1>2, <2>1, <2>2, <2>3, AckSentIncoming, FewerIn
  <2> QED
    BY <1>1, <1>3, <2>3, <2>4, OutQuiet, CursorQuiet DEF Outgoing
<1>5. CASE ReceiveAck /\ p.type = "PUBREL"
  <2> DEFINE u == UpdateStateAck(records, p.id, p.type, "receive")
  <2>1. /\ UNCHANGED store
        /\ \/ u.status = "Success" /\ SendPublishAck(u.records, p.id, u.state)
           \/ records' = u.records /\ pc' = "failed" /\ UNCHANGED toBroker
    BY <1>5 DEF ReceiveAck, Finish
  <2>2. u.records.outgoing = records.outgoing
    <3>1. DirectionOf(p.type, "receive") = "incoming"
      BY <1>5 DEF DirectionOf
    <3> HIDE DEF p
    <3> QED
      BY <1>0, <3>1, OtherDirection
  <2>3. u.records \in RecordsType /\ (u.status = "Success" => u.state # "PubRelSend")
    <3>1. p.type \in Acks /\ Unique(records.outgoing)
      BY <1>5 DEF Acks, RecordsInv, InOrder
    <3>2. /\ u.records \in RecordsType
          /\ InOrder(u.records.outgoing, store, accepted)
      <4> HIDE DEF p
      <4> QED
        BY <1>0, <1>2, <3>1, AckKeepsOrder DEF RecordsInv, DeviceType
    <3>3. \/ u.status \in {"BadResponse", "IllegalState"}
          \/ (u.state = "PubRelSend" => p.type = "PUBREC")
      <4> HIDE DEF p
      <4> QED
        BY <1>0, <1>2, <3>1, UpdateStateAckWorks
    <3> QED
      BY <1>5, <3>2, <3>3
  <2> HIDE DEF p, u
  <2>4. /\ records'.outgoing = records.outgoing /\ pc' \in {pc, "failed"}
        /\ Fewer(toBroker', toBroker, Senders)
    BY <1>0, <1>2, <2>1, <2>2, <2>3, AckSentIncoming, FewerIn
  <2> QED
    BY <1>1, <1>3, <2>1, <2>4, OutQuiet, CursorQuiet DEF Outgoing
<1> QED
  BY <1>4, <1>5

\* So does a publish of the broker that leaves it, what the device answers, and
\* the loss of what was on its way.
LEMMA OutElsewhere ==
  ASSUME RecordsInv, OutInv,
         \/ BrokerPublish \/ Break
         \/ BrokerReceive /\ Head(toBroker).type \in Receivers
  PROVE  OutInv'
<1>0. toBroker \in Seq(Packets) /\ toDevice \in Seq(Packets) /\ load \in Loads /\ pushed \in Nat
  BY DEF RecordsInv, WireType, BrokerType
<1>1. UNCHANGED <<records, store, accepted, pc, cursor, delivered, brokerIn, load>>
  BY DEF BrokerPublish, Break, BrokerReceive, Receivers, deviceVars, brokerVars
<1>2. Fewer(toBroker', toBroker, Senders) /\ Fewer(toDevice', toDevice, Receivers)
  <2>1. CASE BrokerPublish
    <3>1. PICK qos \in QoSLevels, id \in 1 .. load.ids :
            toDevice' = Append(toDevice, Publish(id, [n |-> pushed + 1, qos |-> qos]))
      BY <2>1 DEF BrokerPublish
    <3>2. id \in Ids
      BY <1>0, LoadIds
    <3>3. /\ Publish(id, [n |-> pushed + 1, qos |-> qos]) \in Packets
          /\ Publish(id, [n |-> pushed + 1, qos |-> qos]).type \notin Receivers
      BY <1>0, <3>2 DEF Publish, Packets, Messages, Receivers
    <3>4. UNCHANGED toBroker
      BY <2>1 DEF BrokerPublish
    <3> QED
      BY <1>0, <3>1, <3>3, <3>4, FewerIn
  <2>2. CASE Break
    <3>1. toBroker' = <<>> /\ UNCHANGED toDevice
      BY <2>2 DEF Break
    <3> QED
      BY <1>0, <3>1, FewerIn
  <2>3. CASE BrokerReceive /\ Head(toBroker).type \in Receivers
    <3> DEFINE p == Head(toBroker)
    <3>1. /\ toBroker # <<>> /\ toBroker' = Tail(toBroker)
          /\ toDevice' = toDevice \/ toDevice' = Append(toDevice, Ack("PUBREL", p.id))
      BY <2>3 DEF BrokerReceive, Receivers
    <3>2. p \in Packets
      BY <1>0, <3>1, PacketsType
    <3>3. Ack("PUBREL", p.id) \in Packets /\ Ack("PUBREL", p.id).type \notin Receivers
      BY <3>2 DEF Ack, Packets, Receivers, Acks, NoMessage, Messages
    <3>4. Fewer(toBroker', toBroker, Senders)
      BY <1>0, <3>1, Read
    <3> HIDE DEF p
    <3>5. Fewer(toDevice', toDevice, Receivers)
      BY <1>0, <3>1, <3>3, FewerIn
    <3> QED
      BY <3>4, <3>5
  <2> QED
    BY <2>1, <2>2, <2>3
<1> QED
  BY <1>1, <1>2, OutQuiet, CursorQuiet DEF Outgoing

\* A new connection: a kept session goes on with its records, another begins
\* without.
LEMMA OutConnects ==
  ASSUME RecordsInv, Silent, OutInv, Connect
  PROVE  OutInv'
<1>1. /\ toBroker = <<>> /\ toDevice = <<>> /\ UNCHANGED <<toBroker, accepted, delivered, load>>
      /\ brokerOut \in Seq(Unfinished)
  BY DEF Connect, Silent, RecordsInv, BrokerType
<1>2. Of(toBroker', Senders) = {}
  BY <1>1 DEF Of, In
<1>3. CASE load.keep
  <2>1. toDevice' = Repeats(brokerOut) /\ UNCHANGED <<records, store, brokerIn>>
    BY <1>3 DEF Connect
  <2>2. \A p \in In(Repeats(brokerOut)) : p.type \notin Receivers
    BY <1>1 DEF Repeats, In, Ack, Publish, Receivers
  <2>3. Of(toDevice', Receivers) = {}
    BY <2>1, <2>2 DEF Of
  <2>4. Fewer(toBroker', toBroker, Senders)
    BY <1>1 DEF Fewer
  <2>5. Fewer(toDevice', toDevice, Receivers)
    BY <2>1, <2>2, <2>3 DEF Fewer, Sole, In
  <2> QED
    BY <1>1, <1>2, <2>1, <2>3, <2>4, <2>5, OutQuiet, CursorQuiet DEF Outgoing
<1>4. CASE ~load.keep
  <2>1. /\ records' = NoRecords /\ toDevice' = <<>> /\ brokerIn' = {} /\ pc' = "ready"
    BY <1>1, <1>4 DEF Connect
  <2>2. Outgoing' = {}
    BY <2>1 DEF Outgoing, InUse, NoRecords, EmptyArray, Free
  <2>3. Of(toDevice', Receivers) = {}
    BY <2>1 DEF Of, In
  <2>4. Single(toBroker', toDevice', Senders, Receivers)
    BY <1>1, <2>1 DEF Single, Sole, Speaking, Of, In
  <2>5. OutCursor'
    BY <2>1 DEF OutCursor
  <2>6. OutStates' /\ OutSent' /\ OutAnswered' /\ OutKept'
    BY <1>1, <1>2, <1>4, <2>2, <2>3 DEF OutStates, OutSent, OutAnswered, OutKept
  <2>7. OutReceived' /\ ExactlyOnceOut'
    BY <1>1, <2>1, <2>2 DEF OutInv, OutReceived, ExactlyOnceOut
  <2> QED
    BY <2>4, <2>5, <2>6, <2>7 DEF OutInv
<1> QED
  BY <1>3, <1>4

\* A step about one identifier: its record is replaced, its packets in flight
\* are at most those that the step sends, and all else is left alone.
OutStep(id, next, up, down) ==
  /\ Outgoing' = {x \in Outgoing : x.packetId # id} \cup next
  /\ \A y \in next : y.packetId = id /\ StateFits(y)' /\ ReceivedFits(y)'
  /\ \A p \in Of(toBroker', Senders) :
       p \in up \/ (p \in Of(toBroker, Senders) /\ p.id # id)
  /\ \A p \in up : SentFits(p)'
  /\ \A p \in Of(toDevice', Receivers) :
       p \in down \/ (p \in Of(toDevice, Receivers) /\ p.id # id)
  /\ \A p \in down : AnswerFits(p)'
  /\ \A other \in Ids \ {id} : /\ store'[other] = store[other]
                               /\ other \in brokerIn' <=> other \in brokerIn
  /\ brokerIn' \subseteq Ids
  /\ id \in brokerIn' => \E y \in next : y.qos = 2
  /\ \/ In(delivered') = In(delivered)
     \/ /\ In(delivered') = In(delivered) \cup {store[id]}
        /\ \E x \in Outgoing : x.packetId = id /\ Unacked(x)
  /\ \A x \in Outgoing : x.packetId = id /\ Unacked(x) =>
       store[id] \in In(delivered') \/ (store'[id] = store[id] /\ \E y \in next : Unacked(y))
  /\ \/ accepted' = accepted
     \/ /\ accepted' = accepted + 1 /\ store'[id].n = accepted'
        /\ \E y \in next : Unacked(y)
  /\ UNCHANGED load

\* Such a step keeps what relates records, packets and the broker.
LEMMA OutTurn ==
  ASSUME RecordsInv, OutInv, NEW id \in Ids, NEW next, NEW up, NEW down,
         OutStep(id, next, up, down)
  PROVE  OutStates' /\ OutSent' /\ OutAnswered' /\ OutReceived' /\ OutKept'
<1>1. /\ \A x \in Outgoing : x \in Records /\ x.packetId \in Ids
      /\ \A x, y \in Outgoing : Unacked(x) /\ Unacked(y) /\ x # y =>
           store[x.packetId] # store[y.packetId]
      /\ \A x \in Outgoing : Unacked(x) => store[x.packetId].n <= accepted
  BY OutFacts
<1>2. /\ accepted \in Nat /\ accepted' \in Nat /\ accepted <= accepted'
      /\ toBroker \in Seq(Packets) /\ toDevice \in Seq(Packets) /\ brokerIn \subseteq Ids
  BY DEF RecordsInv, WireType, BrokerType, DeviceType, OutStep
<1>3. \A x \in Outgoing : x.packetId # id =>
        /\ x \in Outgoing' /\ store'[x.packetId] = store[x.packetId]
        /\ x.packetId \in brokerIn' <=> x.packetId \in brokerIn
  BY <1>1 DEF OutStep
<1>4. \A x \in Outgoing' : x \in next \/ (x \in Outgoing /\ x.packetId # id)
  BY DEF OutStep
<1>5. ASSUME NEW x \in Outgoing, x.packetId # id, Unacked(x)
      PROVE  store[x.packetId] \in In(delivered') <=> store[x.packetId] \in In(delivered)
  BY <1>1, <1>5 DEF OutStep
<1>6. OutStates'
  BY <1>3, <1>4 DEF OutInv, OutStates, StateFits, OutStep
<1>7. \A p \in Of(toBroker, Senders) \cup Of(toDevice, Receivers) : p.id \in Ids
  <2>1. In(toBroker) \subseteq Packets /\ In(toDevice) \subseteq Packets
    BY <1>2, InType
  <2> QED
    BY <2>1 DEF Of, Packets
<1>8. \A recId \in Ids : \A qos, state : recId # id /\ Record(recId, qos, state) \in Outgoing =>
        Record(recId, qos, state) \in Outgoing'
  BY DEF Record, OutStep
<1>9. OutSent'
  BY <1>7, <1>8 DEF OutInv, OutSent, SentFits, OutStep
<1>10. OutAnswered'
  BY <1>7, <1>8 DEF OutInv, OutAnswered, AnswerFits, OutStep
<1>11. \A x \in Outgoing' : ReceivedFits(x)'
  BY <1>3, <1>4, <1>5 DEF OutInv, OutReceived, ReceivedFits, OutStep
<1>12. \A other \in brokerIn' : \E x \in Outgoing' : x.packetId = other /\ x.qos = 2
  <2> SUFFICES ASSUME NEW other \in brokerIn'
               PROVE  \E x \in Outgoing' : x.packetId = other /\ x.qos = 2
    OBVIOUS
  <2>1. CASE other = id
    BY <2>1 DEF OutStep
  <2>2. CASE other # id
    BY <1>3, <2>2 DEF OutInv, OutReceived, OutStep
  <2> QED
    BY <2>1, <2>2
<1>13. \A m \in In(delivered') : m.n <= accepted'
  <2> SUFFICES ASSUME NEW m \in In(delivered') PROVE m.n <= accepted'
    OBVIOUS
  <2>1. delivered \in Seq(Messages) /\ store \in [Ids -> Messages]
    BY DEF RecordsInv, BrokerType, DeviceType
  <2>2. m.n <= accepted /\ m.n \in Nat
    <3>1. CASE m \in In(delivered)
      <4>1. In(delivered) \subseteq Messages
        BY <2>1, InType
      <4> QED
        BY <3>1, <4>1 DEF OutInv, OutReceived, Messages
    <3>2. CASE m = store[id] /\ \E x \in Outgoing : x.packetId = id /\ Unacked(x)
      BY <1>1, <2>1, <3>2 DEF Messages
    <3> QED
      BY <3>1, <3>2 DEF OutStep
  <2> QED
    BY <1>2, <2>2
<1>14. OutReceived'
  BY <1>11, <1>12, <1>13 DEF OutReceived
<1>15. OutKept'
  <2> SUFFICES ASSUME load.keep, NEW n \in 1 .. accepted'
               PROVE  \/ \E m \in In(delivered') : m.n = n
                      \/ \E x \in Outgoing' : Unacked(x) /\ store'[x.packetId].n = n
    BY DEF OutKept, Unacked, OutStep
  <2>1. CASE n \in 1 .. accepted
    <3>1. CASE \E m \in In(delivered) : m.n = n
      BY <3>1 DEF OutStep
    <3>2. CASE \E x \in Outgoing : Unacked(x) /\ store[x.packetId].n = n
      <4>1. PICK x \in Outgoing : Unacked(x) /\ store[x.packetId].n = n
        BY <3>2
      <4>2. CASE x.packetId = id
        BY <4>1, <4>2 DEF OutStep
      <4>3. CASE x.packetId # id
        BY <1>3, <4>1, <4>3
      <4> QED
        BY <4>2, <4>3
    <3> QED
      BY <2>1, <3>1, <3>2 DEF OutInv, OutKept, OutStep
  <2>2. CASE n = accepted + 1 /\ accepted' = accepted + 1
    BY <1>2, <2>2 DEF OutStep
  <2> QED
    BY <1>2, <2>1, <2>2 DEF OutStep
<1> QED
  BY <1>6, <1>9, <1>10, <1>14, <1>15

\* The records of the other identifiers.
LEMMA OutOthers ==
  ASSUME RecordsInv, NEW x \in Outgoing
  PROVE  Outgoing \ {x} = {y \in Outgoing : y.packetId # x.packetId}
<1>1. \A y \in Outgoing : y.packetId = x.packetId => y = x
  BY OutFacts
<1> QED
  BY <1>1

\* What the library says of a packet that should not have come.
Invalid == {"BadResponse", "IllegalState", "BadParameter"}

\* A PUBREL that is sent moves its record on; one that is not leaves it.
LEMMA PubrelSent ==
  ASSUME NEW recs \in RecordsType, Unique(recs.outgoing), NEW x \in InUse(recs.outgoing),
         x.qos = 2, x.publishState \in UnackedPubrel,
         SendPublishAck(recs, x.packetId, "PubRelSend")
  PROVE  \/ /\ SendOk(Ack("PUBREL", x.packetId)) /\ pc' = pc /\ status' \notin Invalid
            /\ \E i \in Slots :
                 /\ recs.outgoing[i] = x
                 /\ records'.outgoing = Moved(recs.outgoing, i, "PubCompPending")
            /\ InUse(records'.outgoing)
                 = (InUse(recs.outgoing) \ {x}) \cup {Record(x.packetId, 2, "PubCompPending")}
         \/ SendFails /\ records' = recs /\ pc' = "failed" /\ status' \notin Invalid
<1> DEFINE u == UpdateStateAck(recs, x.packetId, "PUBREL", "send")
<1>1. \/ SendOk(Ack("PUBREL", x.packetId)) /\ records' = u.records /\ Finish(u.status)
      \/ SendFails /\ records' = recs /\ Finish("SendFailed")
  BY DEF SendPublishAck, AckTypeToSend
<1>2. CalculateStateAck("PUBREL", "send", x.qos) = "PubCompPending"
  BY DEF CalculateStateAck
<1>3. <<x.publishState, "PubCompPending">> \in AckTransitions
  BY DEF AckTransitions, UnackedPubrel
<1>4. DirectionOf("PUBREL", "send") = "outgoing"
  BY DEF DirectionOf
<1>5. x.packetId \in Ids /\ "PUBREL" \in Acks /\ x.qos \in {1, 2}
  BY InUseFacts DEF RecordsType, Acks
<1>6. /\ u.status = "Success"
      /\ \E a \in Array :
           /\ u.records = [recs EXCEPT !.outgoing = a]
           /\ InUse(a) = (InUse(recs.outgoing) \ {x}) \cup After(x, "PubCompPending")
           /\ \E i \in Slots : /\ recs.outgoing[i] = x
                              /\ a = Moved(recs.outgoing, i, "PubCompPending")
  <2>1. /\ recs.outgoing = recs["outgoing"] /\ Unique(recs["outgoing"])
        /\ x \in InUse(recs["outgoing"]) /\ "send" \in {"send", "receive"}
    OBVIOUS
  <2>2. /\ u.status = "Success"
        /\ \E a \in Array :
             /\ u.records = [recs EXCEPT !["outgoing"] = a] /\ Unique(a)
             /\ InUse(a) = (InUse(recs["outgoing"]) \ {x}) \cup After(x, "PubCompPending")
             /\ "PubCompPending" \notin {"PublishDone", "PubRelSend"} =>
                  \E i \in Slots : /\ recs["outgoing"][i] = x
                                  /\ a = Moved(recs["outgoing"], i, "PubCompPending")
    BY <1>2, <1>3, <1>4, <1>5, <2>1, AckInUse DEF MovesOn
  <2> QED
    BY <2>2
<1>7. After(x, "PubCompPending") = {Record(x.packetId, 2, "PubCompPending")}
  BY DEF After
<1> HIDE DEF u
<1>8. /\ InUse(u.records.outgoing)
           = (InUse(recs.outgoing) \ {x}) \cup {Record(x.packetId, 2, "PubCompPending")}
      /\ \E i \in Slots : /\ recs.outgoing[i] = x
                         /\ u.records.outgoing = Moved(recs.outgoing, i, "PubCompPending")
  BY <1>6, <1>7 DEF RecordsType
<1> QED
  BY <1>1, <1>6, <1>8 DEF Finish, Invalid

\* What a write to the broker adds to this direction.
LEMMA OutWritten ==
  ASSUME NEW packet \in Packets, toBroker \in Seq(Packets), toDevice \in Seq(Packets),
         OutInv, UNCHANGED toDevice,
         packet.id \notin Speaking(toBroker, Senders), packet.id \notin Speaking(toDevice, Receivers),
         SendOk(packet) \/ SendFails
  PROVE  /\ Single(toBroker', toDevice', Senders, Receivers)
         /\ \A p \in Of(toBroker', Senders) :
              (p = packet /\ SendOk(packet)) \/ (p \in Of(toBroker, Senders) /\ p.id # packet.id)
         /\ \A p \in Of(toDevice', Receivers) : p \in Of(toDevice, Receivers) /\ p.id # packet.id
<1>1. \/ toBroker' = toBroker
      \/ toBroker' = Append(toBroker, packet) /\ SendOk(packet)
  BY DEF SendOk, SendFails
<1>2. /\ \A p \in Of(toBroker, Senders) : p.id # packet.id
      /\ \A p \in Of(toDevice, Receivers) : p.id # packet.id
  BY DEF Speaking
<1>3. CASE toBroker' = toBroker
  BY <1>2, <1>3 DEF OutInv
<1>4. CASE toBroker' = Append(toBroker, packet) /\ SendOk(packet)
  <2>1. Of(toBroker', Senders) \subseteq Of(toBroker, Senders) \cup {packet}
    BY <1>4, Written
  <2>2. Single(toBroker', toDevice, Senders, Receivers)
    BY <1>4, SingleWritten DEF OutInv
  <2> QED
    BY <1>2, <1>4, <2>1, <2>2
<1> QED
  BY <1>1, <1>3, <1>4

\* The identifiers a resumption selects have nothing in flight.
LEMMA OutSelected ==
  ASSUME RecordsInv, OutInv, NEW states, NEW found,
         found = Select(records.outgoing, states, cursor), found.id # 0,
         \/ pc = "resume"
         \/ pc = "resend" /\ states = UnackedPublish
  PROVE  \E at \in Slots :
           /\ at > cursor /\ found.cursor = at /\ found.id = records.outgoing[at].packetId
           /\ ~Free(records.outgoing, at) /\ records.outgoing[at].publishState \in states
           /\ records.outgoing[at] \in Outgoing
           /\ found.id \notin Speaking(toBroker, Senders)
           /\ found.id \notin Speaking(toDevice, Receivers)
<1> DEFINE r == records.outgoing
           set == {i \in Slots : i > cursor /\ r[i].publishState \in states}
           at == CHOOSE i \in set : \A j \in set : i <= j
<1>1. set # {} /\ found = [id |-> r[at].packetId, cursor |-> at]
  BY DEF Select
<1>2. at \in set
  BY <1>1, FirstSlot
<1>3. at \in Slots /\ at > cursor /\ r[at].publishState \in states /\ ~Free(r, at)
  BY <1>1, <1>2 DEF Free
<1>4. r \in Array /\ cursor \in 0 .. Count
  BY DEF RecordsInv, DeviceType, RecordsType
<1> HIDE DEF at, set
<1>5. r[at] \in Outgoing
  BY <1>3, <1>4, InUseFacts DEF Outgoing
<1>6. found.id = r[at].packetId /\ found.cursor = at
  BY <1>1
<1>7. ~(at <= cursor)
  BY <1>3, <1>4 DEF Slots
<1>8. found.id \notin Speaking(toBroker, Senders) \cup Speaking(toDevice, Receivers)
  BY <1>3, <1>6, <1>7 DEF OutInv, OutCursor, Waiting
<1> QED
  BY <1>3, <1>5, <1>6, <1>8

\* Nothing the broker was not told of before is passed on, so nothing twice.
LEMMA OutNoneTwice ==
  ASSUME OutInv, UNCHANGED delivered
  PROVE  ExactlyOnceOut'
  BY DEF OutInv, ExactlyOnceOut

\* handleSessionResumption: what it sends, no packet in flight speaks of.
LEMMA OutResumes ==
  ASSUME RecordsInv, OutInv, ResumePubrel
  PROVE  OutInv'
<1> DEFINE r == records.outgoing
           found == PubrelToResend(records, cursor)
<1>0. /\ records \in RecordsType /\ toBroker \in Seq(Packets) /\ toDevice \in Seq(Packets)
      /\ cursor \in 0 .. Count /\ r \in Array /\ Unique(r) /\ brokerIn \subseteq Ids
  BY OutFacts DEF RecordsInv, DeviceType, WireType, BrokerType
<1>1. /\ UNCHANGED <<store, accepted, toDevice, delivered, brokerIn, load>> /\ pc = "resume"
      /\ \/ /\ found.id # 0 /\ SendPublishAck(records, found.id, "PubRelSend")
            /\ cursor' = found.cursor
         \/ pc' = "resend" /\ UNCHANGED <<records, toBroker>>
  BY DEF ResumePubrel, brokerVars
<1>2. found = Select(r, UnackedPubrel, cursor)
  BY DEF PubrelToResend
<1> HIDE DEF found
<1>3. CASE pc' = "resend" /\ UNCHANGED <<records, toBroker>>
  <2>1. Fewer(toBroker', toBroker, Senders) /\ Fewer(toDevice', toDevice, Receivers)
    BY <1>0, <1>1, <1>3, FewerIn
  <2>2. OutCursor'
    BY <1>1, <1>3 DEF OutInv, OutCursor
  <2> QED
    BY <1>1, <1>3, <2>1, <2>2, OutQuiet DEF Outgoing
<1>4. CASE /\ found.id # 0 /\ SendPublishAck(records, found.id, "PubRelSend")
           /\ cursor' = found.cursor
  <2>1. PICK at \in Slots :
          /\ at > cursor /\ found.cursor = at /\ found.id = r[at].packetId
          /\ ~Free(r, at) /\ r[at].publishState \in UnackedPubrel
          /\ r[at] \in Outgoing
          /\ found.id \notin Speaking(toBroker, Senders)
          /\ found.id \notin Speaking(toDevice, Receivers)
    BY <1>1, <1>2, <1>4, OutSelected
  <2>2. PICK x \in Outgoing : x = r[at]
    BY <2>1
  <2> DEFINE id == x.packetId
             y == Record(id, 2, "PubCompPending")
             packet == Ack("PUBREL", id)
  <2>3. /\ x \in Outgoing /\ x \in InUse(records.outgoing) /\ found.id = id /\ id \in Ids
        /\ x.publishState \in UnackedPubrel /\ x.qos = 2
        /\ Outgoing \ {x} = {z \in Outgoing : z.packetId # id}
    <3>1. x \in Outgoing /\ found.id = id /\ x.publishState \in UnackedPubrel
      BY <2>1, <2>2
    <3>2. id \in Ids /\ Outgoing \ {x} = {z \in Outgoing : z.packetId # id}
      BY <3>1, OutFacts, OutOthers
    <3>3. x.qos = 2
      BY <3>1 DEF OutInv, OutStates, StateFits, UnackedPubrel
    <3> QED
      BY <3>1, <3>2, <3>3 DEF Outgoing
  <2>4. packet \in Packets /\ packet.id = id /\ packet.type = "PUBREL"
    BY <2>3 DEF Ack, Packets, Acks, NoMessage, Messages
  <2>5. y.packetId = id /\ y.qos = 2 /\ ~Unacked(y) /\ ~Unacked(x)
    BY <2>3 DEF Record, Unacked, UnackedPublish, UnackedPubrel
  <2>6. \/ /\ SendOk(packet) /\ pc' = pc
           /\ \E i \in Slots : r[i] = x /\ records'.outgoing = Moved(r, i, "PubCompPending")
           /\ Outgoing' = (Outgoing \ {x}) \cup {y}
        \/ SendFails /\ records' = records /\ pc' = "failed"
    BY <1>0, <1>4, <2>3, PubrelSent DEF Outgoing
  <2> HIDE DEF y, packet, id
  <2>7. /\ Single(toBroker', toDevice', Senders, Receivers)
        /\ \A p \in Of(toBroker', Senders) :
             (p = packet /\ SendOk(packet)) \/ (p \in Of(toBroker, Senders) /\ p.id # id)
        /\ \A p \in Of(toDevice', Receivers) : p \in Of(toDevice, Receivers) /\ p.id # id
    <3>1. SendOk(packet) \/ SendFails
      BY <2>6
    <3>2. packet.id \notin Speaking(toBroker, Senders) /\ packet.id \notin Speaking(toDevice, Receivers)
      BY <2>1, <2>3, <2>4
    <3> QED
      BY <1>0, <1>1, <2>4, <3>1, <3>2, OutWritten
  <2>8. CASE SendFails /\ records' = records /\ pc' = "failed"
    <3>1. Fewer(toBroker', toBroker, Senders) /\ Fewer(toDevice', toDevice, Receivers)
      BY <1>0, <1>1, <2>8, FewerIn DEF SendFails
    <3> QED
      BY <1>1, <2>8, <3>1, OutQuiet, CursorQuiet DEF Outgoing
  <2>9. CASE /\ SendOk(packet) /\ pc' = pc
             /\ \E i \in Slots : r[i] = x /\ records'.outgoing = Moved(r, i, "PubCompPending")
             /\ Outgoing' = (Outgoing \ {x}) \cup {y}
    <3>1. Outgoing' = {z \in Outgoing : z.packetId # id} \cup {y}
      BY <2>3, <2>9
    <3>2. StateFits(y)' /\ ReceivedFits(y)'
      BY <2>5 DEF StateFits, ReceivedFits, Unacked, y, Record
    <3>3. SentFits(packet)'
      BY <2>4, <3>1 DEF SentFits, y
    <3>4. \A z \in Outgoing : z.packetId = id => z = x
      BY <2>3
    <3>5. id \in brokerIn' => y.qos = 2
      BY <2>5
    <3>6. OutStates' /\ OutSent' /\ OutAnswered' /\ OutReceived' /\ OutKept'
      <4>1. OutStep(id, {y}, {packet}, {})
        BY <1>0, <1>1, <2>3, <2>5, <2>7, <3>1, <3>2, <3>3, <3>4, <3>5 DEF OutStep
      <4> QED
        BY <2>3, <4>1, OutTurn
    <3>7. OutCursor'
      <4>1. PICK i \in Slots : r[i] = x /\ records'.outgoing = Moved(r, i, "PubCompPending")
        BY <2>9
      <4>2. i = at
        BY <1>0, <2>1, <2>2, <4>1 DEF Unique, Free
      <4> SUFFICES ASSUME NEW j \in Slots, ~Free(records'.outgoing, j),
                          records'.outgoing[j].packetId
                            \in Speaking(toBroker', Senders) \cup Speaking(toDevice', Receivers)
                   PROVE  ~Waiting(records'.outgoing, j) /\ j <= cursor'
        BY <1>1, <2>9 DEF OutCursor
      <4>3. cursor' = at
        BY <1>4, <2>1
      <4>4. CASE j = at
        <5>1. records'.outgoing[j].publishState = "PubCompPending"
          BY <1>0, <4>1, <4>2, <4>4, PutType DEF Moved, Put, Array, Records
        <5> QED
          BY <4>3, <4>4, <5>1 DEF Waiting, UnackedPublish, Slots
      <4>5. CASE j # at
        <5>1. records'.outgoing[j] = r[j]
          BY <4>1, <4>2, <4>5 DEF Moved, Put
        <5>2. r[j].packetId \in Speaking(toBroker, Senders) \cup Speaking(toDevice, Receivers)
          <6>1. ~Free(r, j) /\ r[j].packetId # id
            BY <1>0, <2>1, <2>2, <4>5, <5>1 DEF Unique, Free, id
          <6> QED
            BY <2>4, <2>7, <5>1, <6>1 DEF Speaking
        <5>3. ~Waiting(r, j) /\ j <= cursor
          BY <1>1, <5>1, <5>2 DEF OutInv, OutCursor, Free
        <5> QED
          BY <1>0, <2>1, <4>3, <5>1, <5>3 DEF Waiting, Free, Slots
      <4> QED
        BY <4>4, <4>5
    <3> QED
      BY <1>1, <2>7, <3>6, <3>7, OutNoneTwice DEF OutInv
  <2> QED
    BY <2>6, <2>8, <2>9
<1> QED
  BY <1>1, <1>3, <1>4

\* The loop over MQTT_PublishToResend: neither does what it sends.
LEMMA OutResends ==
  ASSUME RecordsInv, OutInv, Resend
  PROVE  OutInv'
<1> DEFINE r == records.outgoing
           found == PublishToResend(records, cursor)
           sent == SentPublish(records, found.id, store[found.id].qos)
<1>0. /\ records \in RecordsType /\ toBroker \in Seq(Packets) /\ toDevice \in Seq(Packets)
      /\ cursor \in 0 .. Count /\ r \in Array /\ Unique(r) /\ brokerIn \subseteq Ids
      /\ store \in [Ids -> Messages]
  BY OutFacts DEF RecordsInv, DeviceType, WireType, BrokerType
<1>1. /\ UNCHANGED <<store, accepted, toDevice, delivered, brokerIn, load>> /\ pc = "resend"
      /\ \/ /\ found.id # 0 /\ cursor' = found.cursor
            /\ \/ /\ SendOk(Publish(found.id, store[found.id]))
                  /\ records' = sent.records /\ Finish(sent.status)
               \/ SendFails /\ UNCHANGED records /\ Finish("SendFailed")
         \/ pc' = "ready" /\ UNCHANGED <<records, toBroker>>
  BY DEF Resend, brokerVars
<1>2. found = Select(r, UnackedPublish, cursor)
  BY DEF PublishToResend
<1> HIDE DEF found, sent
<1>3. CASE pc' = "ready" /\ UNCHANGED <<records, toBroker>>
  <2>1. Fewer(toBroker', toBroker, Senders) /\ Fewer(toDevice', toDevice, Receivers)
    BY <1>0, <1>1, <1>3, FewerIn
  <2> QED
    BY <1>1, <1>3, <2>1, OutQuiet, CursorQuiet DEF Outgoing
<1>4. CASE SendFails /\ UNCHANGED records /\ Finish("SendFailed")
  <2>1. Fewer(toBroker', toBroker, Senders) /\ Fewer(toDevice', toDevice, Receivers)
    BY <1>0, <1>1, <1>4, FewerIn DEF SendFails
  <2> QED
    BY <1>1, <1>4, <2>1, OutQuiet, CursorQuiet DEF Outgoing, Finish
<1>5. CASE /\ found.id # 0 /\ cursor' = found.cursor
           /\ SendOk(Publish(found.id, store[found.id]))
           /\ records' = sent.records /\ Finish(sent.status)
  <2>1. PICK at \in Slots :
          /\ at > cursor /\ found.cursor = at /\ found.id = r[at].packetId
          /\ ~Free(r, at) /\ r[at].publishState \in UnackedPublish
          /\ r[at] \in Outgoing
          /\ found.id \notin Speaking(toBroker, Senders)
          /\ found.id \notin Speaking(toDevice, Receivers)
    BY <1>1, <1>2, <1>5, OutSelected
  <2>2. PICK x \in Outgoing : x = r[at]
    BY <2>1
  <2>3. PICK msg \in Messages : msg = store[x.packetId]
    BY <1>0, OutFacts
  <2> DEFINE id == x.packetId
             y == Record(id, x.qos, Pending(x.qos))
             packet == Publish(id, msg)
  <2>4. /\ x \in Outgoing /\ x \in InUse(records.outgoing) /\ found.id = id /\ id \in Ids
        /\ Unacked(x) /\ x.qos \in {1, 2} /\ msg.qos = x.qos
        /\ <<x.publishState, Pending(x.qos)>> \in PublishTransitions(x.qos)
        /\ Outgoing \ {x} = {z \in Outgoing : z.packetId # id}
    <3>1. x \in Outgoing /\ found.id = id /\ Unacked(x)
      BY <2>1, <2>2 DEF Unacked
    <3>2. id \in Ids /\ Outgoing \ {x} = {z \in Outgoing : z.packetId # id}
      BY <3>1, OutFacts, OutOthers
    <3>3. StateFits(x)
      BY <3>1 DEF OutInv, OutStates
    <3>4. /\ x.qos \in {1, 2}
          /\ <<x.publishState, Pending(x.qos)>> \in PublishTransitions(x.qos)
      BY <3>1, <3>3 DEF StateFits, Unacked, UnackedPublish, Pending, PublishTransitions
    <3> QED
      BY <2>3, <3>1, <3>2, <3>3, <3>4 DEF Outgoing, StateFits
  <2>5. packet \in Packets /\ packet.id = id /\ packet.type = "PUBLISH" /\ packet.msg = msg
    BY <2>4 DEF Publish, Packets
  <2>6. y.packetId = id /\ y.qos = x.qos /\ Unacked(y) /\ y.publishState = Pending(x.qos)
    BY <2>4 DEF Record, Unacked, UnackedPublish, Pending
  <2>7. /\ sent.status = "Success"
        /\ \E i \in Slots : r[i] = x /\ records'.outgoing = Moved(r, i, Pending(x.qos))
        /\ Outgoing' = (Outgoing \ {x}) \cup {y}
    <3>1. sent = SentPublish(records, x.packetId, x.qos)
      BY <2>3, <2>4 DEF sent
    <3>2. CalculateStatePublish("send", x.qos) = Pending(x.qos)
      BY DEF CalculateStatePublish, Pending
    <3>3. /\ sent.status = "Success"
          /\ \E i \in Slots :
               /\ records.outgoing[i] = x
               /\ sent.records = [records EXCEPT !.outgoing = Moved(records.outgoing, i, Pending(x.qos))]
          /\ InUse(sent.records.outgoing)
               = (InUse(records.outgoing) \ {x}) \cup {Record(x.packetId, x.qos, Pending(x.qos))}
      <4>1. <<x.publishState, CalculateStatePublish("send", x.qos)>> \in PublishTransitions(x.qos)
        BY <2>4, <3>2
      <4>2. x \in InUse(records.outgoing) /\ records \in RecordsType /\ Unique(records.outgoing)
        BY <1>0, <2>4
      <4> QED
        BY ONLY <3>1, <3>2, <4>1, <4>2, SentInUse
    <3> QED
      BY <1>0, <1>5, <3>3 DEF Outgoing, RecordsType
  <2> HIDE DEF y, packet, id
  <2>8. /\ Single(toBroker', toDevice', Senders, Receivers)
        /\ \A p \in Of(toBroker', Senders) :
             (p = packet /\ SendOk(packet)) \/ (p \in Of(toBroker, Senders) /\ p.id # id)
        /\ \A p \in Of(toDevice', Receivers) : p \in Of(toDevice, Receivers) /\ p.id # id
    <3>1. SendOk(packet)
      BY <1>5, <2>3, <2>4 DEF packet, id
    <3>2. packet.id \notin Speaking(toBroker, Senders) /\ packet.id \notin Speaking(toDevice, Receivers)
      BY <2>1, <2>4, <2>5
    <3> QED
      BY <1>0, <1>1, <2>5, <3>1, <3>2, OutWritten
  <2>9. OutStates' /\ OutSent' /\ OutAnswered' /\ OutReceived' /\ OutKept'
    <3>1. Outgoing' = {z \in Outgoing : z.packetId # id} \cup {y}
      BY <2>4, <2>7
    <3>2. StateFits(y)'
      BY <1>1, <2>3, <2>4, <2>6 DEF StateFits, Pending, Unacked, id
    <3>3. ReceivedFits(y)'
      BY <1>1, <2>4, <2>6 DEF OutInv, OutReceived, ReceivedFits, Unacked, id
    <3>4. SentFits(packet)'
      BY <1>1, <2>3, <2>4, <2>5, <3>1 DEF SentFits, y, id
    <3>5. \A z \in Outgoing : z.packetId = id => z = x
      BY <2>4
    <3>6. id \in brokerIn' => y.qos = 2
      BY <1>1, <2>6, <3>5 DEF OutInv, OutReceived
    <3>7. OutStep(id, {y}, {packet}, {})
      BY <1>0, <1>1, <2>4, <2>6, <2>8, <3>1, <3>2, <3>3, <3>4, <3>5, <3>6 DEF OutStep
    <3> QED
      BY <2>4, <3>7, OutTurn
  <2>10. OutCursor'
    <3>1. PICK i \in Slots : r[i] = x /\ records'.outgoing = Moved(r, i, Pending(x.qos))
      BY <2>7
    <3>2. i = at
      BY <1>0, <2>1, <2>2, <3>1 DEF Unique, Free
    <3>3. pc' = pc /\ cursor' = at
      BY <1>5, <2>1, <2>7 DEF Finish
    <3> SUFFICES ASSUME NEW j \in Slots, ~Free(records'.outgoing, j),
                        records'.outgoing[j].packetId
                          \in Speaking(toBroker', Senders) \cup Speaking(toDevice', Receivers),
                        Waiting(records'.outgoing, j)
                 PROVE  j <= cursor'
      BY <1>1, <3>3 DEF OutCursor
    <3>4. CASE j = at
      BY <3>3, <3>4 DEF Slots
    <3>5. CASE j # at
      <4>1. records'.outgoing[j] = r[j]
        BY <3>1, <3>2, <3>5 DEF Moved, Put
      <4>2. ~Free(r, j) /\ r[j].packetId # id
        BY <1>0, <2>1, <2>2, <3>5, <4>1 DEF Unique, Free, id
      <4>3. r[j].packetId \in Speaking(toBroker, Senders) \cup Speaking(toDevice, Receivers)
        BY <2>5, <2>8, <4>1, <4>2 DEF Speaking
      <4>4. j <= cursor
        BY <1>1, <4>1, <4>2, <4>3 DEF OutInv, OutCursor, Waiting, Free
      <4> QED
        BY <1>0, <2>1, <3>3, <4>4 DEF Slots
    <3> QED
      BY <3>4, <3>5
  <2> QED
    BY <1>1, <2>8, <2>9, <2>10, OutNoneTwice DEF OutInv
<1> QED
  BY <1>1, <1>3, <1>4, <1>5

\* MQTT_Publish: a new publish takes an identifier that no record has, and so
\* no packet in flight and nothing the broker remembers.
LEMMA OutSends ==
  ASSUME RecordsInv, OutInv, NEW qos \in QoSLevels, SendNew(qos)
  PROVE  OutInv' /\ status' \notin Invalid
<1> DEFINE r == records.outgoing
           reserved == AddRecord(r, nextId, qos, "PublishSend")
           recs == [records EXCEPT !.outgoing = reserved.array]
           sent == SentPublish(recs, nextId, qos)
<1>0. /\ records \in RecordsType /\ toBroker \in Seq(Packets) /\ toDevice \in Seq(Packets)
      /\ r \in Array /\ Unique(r) /\ brokerIn \subseteq Ids /\ accepted \in Nat
      /\ store \in [Ids -> Messages]
  BY OutFacts DEF RecordsInv, DeviceType, WireType, BrokerType
<1>1. PICK id \in Ids : id = nextId
  BY LoadIds DEF RecordsInv, DeviceType, BrokerType
<1>2. PICK msg \in Messages : msg = [n |-> accepted + 1, qos |-> qos]
  <2>1. [n |-> accepted + 1, qos |-> qos] \in Messages
    BY <1>0 DEF Messages
  <2> QED
    BY <2>1
<1>3. /\ UNCHANGED <<toDevice, delivered, brokerIn, load>> /\ pc' = "ready"
      /\ \/ /\ reserved.status # "Success" /\ records' = recs
            /\ status' = reserved.status /\ UNCHANGED <<store, accepted, toBroker>>
         \/ /\ reserved.status = "Success"
            /\ store' = [store EXCEPT ![id] = msg] /\ accepted' = accepted + 1
            /\ \/ SendOk(Publish(id, msg)) /\ records' = sent.records /\ status' = sent.status
               \/ SendFails /\ records' = recs /\ status' = "SendFailed"
  BY <1>1, <1>2 DEF SendNew, brokerVars
<1>4. qos \in {1, 2} /\ qos \in 0 .. 2 /\ "PublishSend" \in PublishStates
  BY DEF QoSLevels, PublishStates
<1>5. /\ reserved.array \in Array /\ Unique(reserved.array)
      /\ \/ /\ reserved.status = "Success" /\ ~Has(r, id)
            /\ InUse(reserved.array) = InUse(r) \cup {Record(id, qos, "PublishSend")}
         \/ reserved.status \in {"StateCollision", "NoMemory"} /\ InUse(reserved.array) = InUse(r)
  <2> HIDE DEF r
  <2>1. reserved = AddRecord(r, id, qos, "PublishSend")
    BY <1>1
  <2> HIDE DEF reserved
  <2>2. /\ reserved.array \in Array /\ Unique(reserved.array)
        /\ \/ /\ reserved.status = "Success" /\ ~Has(r, id)
              /\ InUse(reserved.array) = InUse(r) \cup {Record(id, qos, "PublishSend")}
           \/ /\ reserved.status = "StateCollision" /\ Has(r, id)
              /\ InUse(reserved.array) = InUse(r)
           \/ reserved.status = "NoMemory" /\ InUse(reserved.array) = InUse(r)
    <3>1. LET a == AddRecord(r, id, qos, "PublishSend")
          IN /\ a.array \in Array /\ Unique(a.array)
             /\ \/ /\ a.status = "Success" /\ ~Has(r, id)
                   /\ InUse(a.array) = InUse(r) \cup {Record(id, qos, "PublishSend")}
                \/ /\ a.status = "StateCollision" /\ Has(r, id)
                   /\ InUse(a.array) = InUse(r)
                \/ a.status = "NoMemory" /\ InUse(a.array) = InUse(r)
      BY ONLY <1>0, <1>4, AddInUse, id \in Ids
    <3> QED
      BY ONLY <2>1, <3>1
  <2> QED
    BY <2>2
<1> HIDE DEF reserved
<1>6. /\ recs \in RecordsType /\ recs.outgoing = reserved.array
  BY <1>0, <1>5 DEF RecordsType
<1> HIDE DEF recs
<1>7. OutCursor'
  BY <1>3, CursorQuiet
<1>8. CASE reserved.status # "Success"
  <2>1. Fewer(toBroker', toBroker, Senders) /\ Fewer(toDevice', toDevice, Receivers)
    BY <1>0, <1>3, <1>8, FewerIn
  <2>2. Outgoing' = Outgoing
    BY <1>3, <1>5, <1>6, <1>8 DEF Outgoing
  <2> QED
    BY <1>3, <1>5, <1>7, <1>8, <2>1, <2>2, OutQuiet DEF Invalid
<1>9. CASE reserved.status = "Success"
  <2> DEFINE x == Record(id, qos, "PublishSend")
             y == Record(id, qos, Pending(qos))
             packet == Publish(id, msg)
  <2>1. packet \in Packets /\ packet.id = id /\ packet.type = "PUBLISH" /\ packet.msg = msg
    BY DEF Publish, Packets
  <2>2. /\ \A z \in Outgoing : z.packetId # id
        /\ InUse(recs.outgoing) = Outgoing \cup {x}
    BY <1>0, <1>5, <1>6, <1>9, InUseFacts DEF Outgoing
  <2>3. /\ id \notin Speaking(toBroker, Senders) /\ id \notin Speaking(toDevice, Receivers)
        /\ id \notin brokerIn
    BY <2>2, OutRecords DEF OutInv, OutReceived
  <2>4. /\ x.packetId = id /\ x.qos = qos /\ x.publishState = "PublishSend" /\ Unacked(x)
        /\ y.packetId = id /\ y.qos = qos /\ y.publishState = Pending(qos) /\ Unacked(y)
    BY <1>4 DEF Record, Unacked, UnackedPublish, Pending
  <2>5. InUse(sent.records.outgoing) = Outgoing \cup {y} /\ sent.status = "Success"
    <3>1. CalculateStatePublish("send", x.qos) = Pending(qos)
      BY <2>4 DEF CalculateStatePublish, Pending
    <3>2. <<x.publishState, CalculateStatePublish("send", x.qos)>> \in PublishTransitions(x.qos)
      BY <1>4, <2>4, <3>1 DEF PublishTransitions, Pending
    <3>3. x \in InUse(recs.outgoing) /\ Unique(recs.outgoing)
      BY <1>5, <1>6, <2>2
    <3>4. sent = SentPublish(recs, x.packetId, x.qos)
      BY <1>1, <2>4
    <3> HIDE DEF x, sent
    <3>5. /\ InUse(sent.records.outgoing)
               = (InUse(recs.outgoing) \ {x}) \cup {Record(x.packetId, x.qos, Pending(qos))}
          /\ sent.status = "Success"
      BY ONLY <1>6, <3>1, <3>2, <3>3, <3>4, SentInUse
    <3>6. x \notin Outgoing
      BY <2>2, <2>4
    <3> QED
      BY <2>2, <2>4, <3>5, <3>6
  <2> HIDE DEF x, y, packet, sent
  <2>6. /\ Single(toBroker', toDevice', Senders, Receivers)
        /\ \A p \in Of(toBroker', Senders) :
             (p = packet /\ SendOk(packet)) \/ (p \in Of(toBroker, Senders) /\ p.id # id)
        /\ \A p \in Of(toDevice', Receivers) : p \in Of(toDevice, Receivers) /\ p.id # id
    <3>1. SendOk(packet) \/ SendFails
      BY <1>3, <1>9 DEF packet
    <3> QED
      BY <1>0, <1>3, <2>1, <2>3, <3>1, OutWritten
  <2>7. msg \notin In(delivered) /\ msg.n = accepted + 1 /\ msg.qos = qos
    <3>1. \A m \in In(delivered) : m.n <= accepted
      BY DEF OutInv, OutReceived
    <3> QED
      BY <1>0, <1>2, <3>1
  <2>8. store'[id] = msg /\ \A other \in Ids \ {id} : store'[other] = store[other]
    BY <1>0, <1>3, <1>9
  <2>9. \A z \in {x, y} : z.packetId = id /\ Unacked(z) /\ StateFits(z)' /\ ReceivedFits(z)'
    <3>1. StateFits(x)' /\ ReceivedFits(x)'
      BY <1>3, <1>4, <2>3, <2>4, <2>7, <2>8 DEF StateFits, ReceivedFits, Unacked, x
    <3>2. StateFits(y)' /\ ReceivedFits(y)'
      BY <1>3, <1>4, <2>3, <2>4, <2>7, <2>8 DEF StateFits, ReceivedFits, Unacked, Pending, y
    <3> QED
      BY <2>4, <3>1, <3>2
  <2>10. \E z \in {x, y}, up \in {{}, {packet}} : OutStep(id, {z}, up, {})
    <3>1. CASE SendOk(packet) /\ records' = sent.records
      <4>1. Outgoing' = {z \in Outgoing : z.packetId # id} \cup {y}
        BY <2>2, <2>5, <3>1 DEF Outgoing
      <4>2. SentFits(packet)'
        BY <1>4, <2>1, <2>7, <2>8, <4>1 DEF SentFits, y
      <4>3. OutStep(id, {y}, {packet}, {})
        BY <1>0, <1>3, <1>9, <2>2, <2>3, <2>6, <2>7, <2>8, <2>9, <4>1, <4>2 DEF OutStep
      <4> QED
        BY <4>3
    <3>2. CASE SendFails /\ records' = recs
      <4>1. Outgoing' = {z \in Outgoing : z.packetId # id} \cup {x}
        BY <2>2, <3>2 DEF Outgoing
      <4>2. \A p \in Of(toBroker', Senders) : p \in Of(toBroker, Senders) /\ p.id # id
        BY <2>3, <3>2 DEF SendFails, Speaking
      <4>3. OutStep(id, {x}, {}, {})
        BY <1>0, <1>3, <1>9, <2>2, <2>3, <2>6, <2>7, <2>8, <2>9, <4>1, <4>2 DEF OutStep
      <4> QED
        BY <4>3
    <3> QED
      BY <1>3, <1>9, <3>1, <3>2 DEF packet
  <2>11. OutStates' /\ OutSent' /\ OutAnswered' /\ OutReceived' /\ OutKept'
    BY <2>10, OutTurn
  <2>12. status' \notin Invalid
    BY <1>3, <1>9, <2>5 DEF Invalid
  <2> QED
    BY <1>3, <1>7, <2>6, <2>11, <2>12, OutNoneTwice DEF OutInv
<1> QED
  BY <1>8, <1>9

\* handlePublishAcks for the device's own publishes: the record waits for just
\* this acknowledgement, and a PUBREC is answered by the PUBREL.
LEMMA OutAcked ==
  ASSUME RecordsInv, OutInv, ReceiveAck, Head(toDevice).type \in Receivers
  PROVE  OutInv' /\ status' \notin Invalid
<1>0. /\ records \in RecordsType /\ toBroker \in Seq(Packets) /\ toDevice \in Seq(Packets)
      /\ Unique(records.outgoing) /\ brokerIn \subseteq Ids /\ store \in [Ids -> Messages]
      /\ toDevice # <<>> /\ toDevice' = Tail(toDevice) /\ pc = "ready"
      /\ UNCHANGED <<accepted, delivered, brokerIn, load>>
  BY OutFacts DEF RecordsInv, DeviceType, WireType, BrokerType, ReceiveAck, brokerVars
<1>1. PICK p \in Packets : p = Head(toDevice)
  BY <1>0, PacketsType
<1> DEFINE id == p.id
           done == p.type \in {"PUBACK", "PUBCOMP"}
           x == Record(id, IF p.type = "PUBACK" THEN 1 ELSE 2,
                       CASE p.type = "PUBACK" -> "PubAckPending"
                         [] p.type = "PUBREC" -> "PubRecPending"
                         [] p.type = "PUBCOMP" -> "PubCompPending")
           new == IF done THEN "PublishDone" ELSE "PubRelSend"
           u == UpdateStateAck(records, id, p.type, "receive")
<1>2. id \in Ids /\ p.type \in Receivers /\ p.type \in Acks
  BY <1>1 DEF Packets, Receivers, Acks
<1>3. /\ p \in Of(toDevice, Receivers) /\ AnswerFits(p)
      /\ Single(toBroker, Tail(toDevice), Senders, Receivers)
      /\ id \notin Speaking(toBroker, Senders) /\ id \notin Speaking(Tail(toDevice), Receivers)
      /\ Of(Tail(toDevice), Receivers) \subseteq Of(toDevice, Receivers)
  <2>1. /\ p \in Of(toDevice, Receivers) /\ id \in Speaking(toDevice, Receivers)
        /\ Fewer(Tail(toDevice), toDevice, Receivers)
        /\ id \notin Speaking(Tail(toDevice), Receivers)
    BY <1>0, <1>1, <1>2, Read DEF OutInv, Single
  <2>2. Fewer(toBroker, toBroker, Senders)
    BY <1>0, FewerIn
  <2>3. Single(toBroker, Tail(toDevice), Senders, Receivers)
    BY <2>1, <2>2, SingleFewer DEF OutInv
  <2> QED
    BY <2>1, <2>3 DEF OutInv, OutAnswered, Single, Fewer
<1>4. /\ x \in Outgoing /\ x.packetId = id /\ x.qos = (IF p.type = "PUBACK" THEN 1 ELSE 2)
      /\ p.type = "PUBACK" => x.publishState = "PubAckPending"
      /\ p.type = "PUBREC" => x.publishState = "PubRecPending"
      /\ p.type = "PUBCOMP" => x.publishState = "PubCompPending"
  BY <1>2, <1>3 DEF AnswerFits, Receivers, Record
<1> HIDE DEF x
<1>5. /\ new = CalculateStateAck(p.type, "receive", x.qos) /\ x.qos \in {1, 2}
      /\ <<x.publishState, new>> \in AckTransitions
      /\ DirectionOf(p.type, "receive") = "outgoing"
  BY <1>2, <1>4 DEF CalculateStateAck, AckTransitions, DirectionOf, Receivers
<1> HIDE DEF new
<1>6. /\ u.status = "Success" /\ u.state = new /\ u.records \in RecordsType
      /\ Unique(u.records.outgoing)
      /\ InUse(u.records.outgoing) = (Outgoing \ {x}) \cup After(x, new)
  <2>1. /\ "outgoing" = DirectionOf(p.type, "receive") /\ Unique(records["outgoing"])
        /\ x \in InUse(records["outgoing"]) /\ "receive" \in {"send", "receive"}
        /\ u = UpdateStateAck(records, x.packetId, p.type, "receive")
    BY <1>0, <1>4, <1>5 DEF Outgoing
  <2> HIDE DEF u
  <2>2. /\ u.status = "Success" /\ u.state = new
        /\ \E a \in Array :
             /\ u.records = [records EXCEPT !["outgoing"] = a] /\ Unique(a)
             /\ InUse(a) = (InUse(records["outgoing"]) \ {x}) \cup After(x, new)
    <3>1. Unique(records.outgoing) /\ records \in RecordsType
      BY <1>0
    <3> QED
      BY ONLY <1>2, <1>5, <2>1, <3>1, AckInUse DEF MovesOn
  <2> QED
    BY <1>0, <2>2 DEF RecordsType, Outgoing
<1>7. /\ store' = (IF done THEN [store EXCEPT ![id] = NoMessage] ELSE store)
      /\ SendPublishAck(u.records, id, new)
  BY <1>1, <1>6 DEF ReceiveAck
<1>8. Outgoing \ {x} = {y \in Outgoing : y.packetId # id} /\ \A y \in Outgoing : y.packetId = id => y = x
  BY <1>4, OutFacts, OutOthers
<1>9. \A other \in Ids \ {id} : store'[other] = store[other]
  BY <1>0, <1>7
<1>10. id \in brokerIn => x.qos = 2
  BY <1>8 DEF OutInv, OutReceived
<1> HIDE DEF u
<1>11. CASE done
  <2>1. /\ records' = u.records /\ UNCHANGED toBroker /\ pc' = pc /\ new = "PublishDone"
        /\ status' \notin Invalid
    BY <1>7, <1>11 DEF SendPublishAck, AckTypeToSend, Finish, new, Invalid
  <2>2. Outgoing' = {y \in Outgoing : y.packetId # id} \cup {}
    BY <1>6, <1>8, <2>1 DEF Outgoing, After
  <2>3. /\ \A q \in Of(toBroker', Senders) : q \in Of(toBroker, Senders) /\ q.id # id
        /\ \A q \in Of(toDevice', Receivers) : q \in Of(toDevice, Receivers) /\ q.id # id
    BY <1>0, <1>3, <2>1 DEF Speaking
  <2>4. id \notin brokerIn
    BY <1>3, <1>4, <1>10, <1>11 DEF AnswerFits
  <2>5. \A y \in Outgoing : y.packetId = id /\ Unacked(y) => store[id] \in In(delivered)
    <3>1. p.type = "PUBACK" => store[id] \in In(delivered)
      BY <1>3 DEF AnswerFits
    <3>2. p.type = "PUBCOMP" => ~Unacked(x)
      BY <1>4 DEF Unacked, UnackedPublish
    <3> QED
      BY <1>8, <1>11, <3>1, <3>2
  <2>6. OutStep(id, {}, {}, {})
    BY <1>0, <1>9, <2>2, <2>3, <2>4, <2>5 DEF OutStep
  <2>7. OutStates' /\ OutSent' /\ OutAnswered' /\ OutReceived' /\ OutKept'
    BY <1>2, <2>6, OutTurn
  <2> QED
    BY <1>0, <1>3, <2>1, <2>7, OutNoneTwice, CursorQuiet DEF OutInv
<1>12. CASE ~done
  <2>1. p.type = "PUBREC" /\ new = "PubRelSend" /\ UNCHANGED store
    BY <1>2, <1>7, <1>12 DEF Receivers, new
  <2>2. x.qos = 2 /\ id \in brokerIn /\ store[id] \in In(delivered)
    <3>1. x.qos = 2 /\ id \in brokerIn
      BY <1>3, <1>4, <2>1 DEF AnswerFits
    <3>2. Unacked(x) /\ ReceivedFits(x)
      BY <1>4, <2>1 DEF Unacked, UnackedPublish, OutInv, OutReceived
    <3> QED
      BY <1>4, <3>1, <3>2 DEF ReceivedFits
  <2> DEFINE y == Record(id, 2, "PubRelSend")
             z == Record(id, 2, "PubCompPending")
             packet == Ack("PUBREL", id)
  <2>3. packet \in Packets /\ packet.id = id /\ packet.type = "PUBREL"
    BY <1>2 DEF Ack, Packets, Acks, NoMessage, Messages
  <2>4. /\ y.packetId = id /\ y.qos = 2 /\ y.publishState = "PubRelSend" /\ ~Unacked(y)
        /\ z.packetId = id /\ z.qos = 2 /\ z.publishState = "PubCompPending" /\ ~Unacked(z)
    BY DEF Record, Unacked, UnackedPublish
  <2>5. InUse(u.records.outgoing) = (Outgoing \ {x}) \cup {y}
    BY <1>4, <1>6, <2>1, <2>2 DEF After
  <2>6. /\ y \in InUse(u.records.outgoing) /\ y.publishState \in UnackedPubrel
        /\ SendPublishAck(u.records, y.packetId, "PubRelSend")
    BY <1>7, <2>1, <2>4, <2>5 DEF UnackedPubrel
  <2> HIDE DEF y, z
  <2>7. \/ /\ SendOk(Ack("PUBREL", y.packetId)) /\ pc' = pc /\ status' \notin Invalid
           /\ InUse(records'.outgoing)
                = (InUse(u.records.outgoing) \ {y}) \cup {Record(y.packetId, 2, "PubCompPending")}
        \/ SendFails /\ records' = u.records /\ pc' = "failed" /\ status' \notin Invalid
    BY <1>6, <2>4, <2>6, PubrelSent
  <2>8. y \notin Outgoing
    BY <1>4, <1>8, <2>1, <2>4
  <2>9. /\ pc' \in {"ready", "failed"} /\ status' \notin Invalid
        /\ \/ /\ SendOk(packet) /\ Outgoing' = {k \in Outgoing : k.packetId # id} \cup {z}
           \/ /\ UNCHANGED toBroker /\ Outgoing' = {k \in Outgoing : k.packetId # id} \cup {y}
    BY <1>0, <1>8, <2>4, <2>5, <2>7, <2>8 DEF Outgoing, SendFails, z
  <2> HIDE DEF packet
  <2>10. \A k \in {y, z} : k.packetId = id /\ k.qos = 2 /\ StateFits(k)' /\ ReceivedFits(k)'
    BY <2>4 DEF StateFits, ReceivedFits, Unacked
  <2>11. \A q \in Of(toDevice', Receivers) : q \in Of(toDevice, Receivers) /\ q.id # id
    BY <1>0, <1>3 DEF Speaking
  <2>12. CASE /\ UNCHANGED toBroker /\ Outgoing' = {k \in Outgoing : k.packetId # id} \cup {y}
    <3>1. \A q \in Of(toBroker', Senders) : q \in Of(toBroker, Senders) /\ q.id # id
      BY <1>3, <2>12 DEF Speaking
    <3>2. OutStep(id, {y}, {}, {})
      BY <1>0, <2>1, <2>2, <2>10, <2>11, <2>12, <3>1 DEF OutStep
    <3>3. OutStates' /\ OutSent' /\ OutAnswered' /\ OutReceived' /\ OutKept'
      BY <1>2, <3>2, OutTurn
    <3> QED
      BY <1>0, <1>3, <2>9, <2>12, <3>3, OutNoneTwice, CursorQuiet DEF OutInv
  <2>13. CASE /\ SendOk(packet) /\ Outgoing' = {k \in Outgoing : k.packetId # id} \cup {z}
    <3>1. /\ Single(toBroker', toDevice', Senders, Receivers)
          /\ \A q \in Of(toBroker', Senders) :
               q = packet \/ (q \in Of(toBroker, Senders) /\ q.id # id)
      <4>1. toBroker' = toBroker \/ toBroker' = Append(toBroker, packet)
        BY <2>13 DEF SendOk
      <4>2. CASE toBroker' = toBroker
        BY <1>0, <1>3, <4>2 DEF Speaking
      <4>3. CASE toBroker' = Append(toBroker, packet)
        <5>1. Of(toBroker', Senders) \subseteq Of(toBroker, Senders) \cup {packet}
          BY <1>0, <2>3, <4>3, Written
        <5>2. Single(toBroker', Tail(toDevice), Senders, Receivers)
          BY <1>0, <1>3, <2>3, <4>3, SingleWritten
        <5> QED
          BY <1>0, <1>3, <5>1, <5>2 DEF Speaking
      <4> QED
        BY <4>1, <4>2, <4>3
    <3>2. SentFits(packet)'
      BY <2>3, <2>13 DEF SentFits, z
    <3>3. OutStep(id, {z}, {packet}, {})
      BY <1>0, <2>1, <2>2, <2>10, <2>11, <2>13, <3>1, <3>2 DEF OutStep
    <3>4. OutStates' /\ OutSent' /\ OutAnswered' /\ OutReceived' /\ OutKept'
      BY <1>2, <3>3, OutTurn
    <3> QED
      <4>1. OutCursor' /\ ExactlyOnceOut'
        BY <1>0, <2>9, OutNoneTwice, CursorQuiet
      <4> QED
        BY <2>9, <3>1, <3>4, <4>1 DEF OutInv
  <2> QED
    BY <2>9, <2>12, <2>13
<1> QED
  BY <1>11, <1>12

\* The broker's answers: it passes a QoS 2 publish on when it does not remember
\* its identifier, and that is when it has not passed it on before.
LEMMA OutArrives ==
  ASSUME RecordsInv, OutInv, BrokerReceive, Head(toBroker).type \in Senders
  PROVE  OutInv'
<1>0. /\ toBroker \in Seq(Packets) /\ toDevice \in Seq(Packets) /\ toBroker # <<>>
      /\ brokerIn \subseteq Ids /\ delivered \in Seq(Messages) /\ toBroker' = Tail(toBroker)
      /\ UNCHANGED <<records, store, pc, cursor, accepted, load>>
  BY DEF RecordsInv, WireType, BrokerType, BrokerReceive, deviceVars
<1>1. PICK p \in Packets : p = Head(toBroker)
  BY <1>0, PacketsType
<1> DEFINE id == p.id
           msg == p.msg
           answer(type) == Ack(type, id)
<1>2. /\ id \in Ids /\ msg \in Messages /\ p.type \in Senders
      /\ \/ /\ p.type = "PUBLISH" /\ msg.qos = 1
            /\ delivered' = Append(delivered, msg) /\ brokerIn' = brokerIn
            /\ toDevice' = Append(toDevice, answer("PUBACK"))
         \/ /\ p.type = "PUBLISH" /\ msg.qos = 2
            /\ delivered' = (IF id \in brokerIn THEN delivered ELSE Append(delivered, msg))
            /\ brokerIn' = brokerIn \cup {id}
            /\ toDevice' = Append(toDevice, answer("PUBREC"))
         \/ /\ p.type = "PUBREL" /\ delivered' = delivered /\ brokerIn' = brokerIn \ {id}
            /\ toDevice' = Append(toDevice, answer("PUBCOMP"))
  BY <1>1 DEF BrokerReceive, Packets, Senders
<1>3. /\ p \in Of(toBroker, Senders) /\ SentFits(p)
      /\ id \notin Speaking(toDevice, Receivers) /\ id \notin Speaking(Tail(toBroker), Senders)
      /\ Of(Tail(toBroker), Senders) \subseteq Of(toBroker, Senders)
  <2>1. /\ p \in Of(toBroker, Senders) /\ id \in Speaking(toBroker, Senders)
        /\ Fewer(Tail(toBroker), toBroker, Senders)
        /\ id \notin Speaking(Tail(toBroker), Senders)
    BY <1>0, <1>1, <1>2, Read DEF OutInv, Single
  <2> QED
    BY <2>1 DEF OutInv, OutSent, Single, Fewer
<1>4. PICK x \in Outgoing :
        /\ x.packetId = id
        /\ p.type = "PUBLISH" => /\ x = Record(id, msg.qos, Pending(msg.qos)) /\ Unacked(x)
                                /\ x.qos = msg.qos /\ store[id] = msg
        /\ p.type = "PUBREL" => x = Record(id, 2, "PubCompPending") /\ ~Unacked(x) /\ x.qos = 2
  <2>1. CASE p.type = "PUBLISH"
    BY <1>3, <2>1 DEF SentFits, Record, Unacked, UnackedPublish, Pending
  <2>2. CASE p.type = "PUBREL"
    BY <1>3, <2>2 DEF SentFits, Record, Unacked, UnackedPublish
  <2> QED
    BY <1>2, <2>1, <2>2 DEF Senders
<1>5. Outgoing' = {y \in Outgoing : y.packetId # id} \cup {x}
  BY <1>0, <1>4, OutOthers DEF Outgoing
<1>6. \A y \in Outgoing : y.packetId = id => y = x
  BY <1>4, OutFacts
<1>7. StateFits(x) /\ ReceivedFits(x) /\ (id \in brokerIn => x.qos = 2)
  BY <1>6 DEF OutInv, OutStates, OutReceived
<1>8. PICK packet \in Packets :
        /\ packet.id = id /\ packet.type \in Receivers
        /\ packet.type = (IF p.type = "PUBREL" THEN "PUBCOMP"
                          ELSE IF msg.qos = 1 THEN "PUBACK" ELSE "PUBREC")
        /\ toDevice' = Append(toDevice, packet)
  <2>1. \A type \in Receivers : /\ answer(type) \in Packets /\ answer(type).id = id
                               /\ answer(type).type = type
    BY <1>2 DEF Ack, Packets, Receivers, Acks, NoMessage, Messages
  <2> HIDE DEF answer
  <2> QED
    BY <1>2, <2>1 DEF Receivers
<1> HIDE DEF id, msg
<1>9. In(Append(delivered, msg)) = In(delivered) \cup {msg}
  BY <1>0, <1>2, AppendedIn
<1>10. In(delivered') = In(delivered) \cup (IF p.type = "PUBLISH" THEN {msg} ELSE {})
  <2>1. CASE p.type = "PUBLISH" /\ msg.qos = 2 /\ id \in brokerIn
    <3>1. msg \in In(delivered)
      BY <1>4, <1>7, <2>1 DEF ReceivedFits
    <3> QED
      BY <1>2, <2>1, <3>1
  <2>2. CASE ~(p.type = "PUBLISH" /\ msg.qos = 2 /\ id \in brokerIn)
    BY <1>2, <1>9, <2>2
  <2> QED
    BY <2>1, <2>2
<1>11. brokerIn' = (IF p.type = "PUBREL" THEN brokerIn \ {id}
                    ELSE IF msg.qos = 2 THEN brokerIn \cup {id} ELSE brokerIn)
  BY <1>2
<1>12. StateFits(x)' /\ ReceivedFits(x)'
  <2>1. StateFits(x)'
    BY <1>0, <1>7 DEF StateFits
  <2>2. ReceivedFits(x)'
    BY <1>0, <1>2, <1>4, <1>10, <1>11 DEF ReceivedFits, Senders
  <2> QED
    BY <2>1, <2>2
<1>13. AnswerFits(packet)'
  <2>1. CASE p.type = "PUBLISH"
    BY <1>0, <1>2, <1>4, <1>5, <1>8, <1>10, <1>11, <2>1 DEF AnswerFits, Pending
  <2>2. CASE p.type = "PUBREL"
    BY <1>0, <1>2, <1>4, <1>5, <1>8, <1>10, <1>11, <2>2 DEF AnswerFits
  <2> QED
    BY <1>2, <2>1, <2>2 DEF Senders
<1>14. /\ Single(toBroker', toDevice', Senders, Receivers)
       /\ \A q \in Of(toBroker', Senders) : q \in Of(toBroker, Senders) /\ q.id # id
       /\ \A q \in Of(toDevice', Receivers) :
            q = packet \/ (q \in Of(toDevice, Receivers) /\ q.id # id)
  <2>1. Single(toDevice, toBroker, Receivers, Senders)
    BY SingleTurned DEF OutInv
  <2>2. Single(toDevice', toBroker', Receivers, Senders)
    <3>1. packet.id = Head(toBroker).id /\ Head(toBroker).type \in Senders
      BY <1>1, <1>8 DEF id
    <3>2. Single(Append(toDevice, packet), Tail(toBroker), Receivers, Senders)
      BY ONLY <1>0, <2>1, <3>1, SingleAnswered, packet \in Packets
    <3> QED
      BY <1>0, <1>8, <3>2
  <2>3. Of(toDevice', Receivers) \subseteq Of(toDevice, Receivers) \cup {packet}
    BY <1>0, <1>8, Written
  <2>4. /\ \A q \in Of(toBroker', Senders) : q \in Of(toBroker, Senders) /\ q.id # id
        /\ \A q \in Of(toDevice, Receivers) : q.id # id
    BY <1>0, <1>3 DEF Speaking
  <2>5. Single(toBroker', toDevice', Senders, Receivers)
    BY <2>2, SingleTurned
  <2> QED
    BY <2>3, <2>4, <2>5
<1>15. OutStates' /\ OutSent' /\ OutAnswered' /\ OutReceived' /\ OutKept'
  <2>1. /\ brokerIn' \subseteq Ids
        /\ \A other \in Ids \ {id} : /\ store'[other] = store[other]
                                    /\ other \in brokerIn' <=> other \in brokerIn
        /\ id \in brokerIn' => x.qos = 2
    BY <1>0, <1>2, <1>4, <1>7, <1>11
  <2>2. \/ In(delivered') = In(delivered)
        \/ In(delivered') = In(delivered) \cup {store[id]} /\ Unacked(x)
    BY <1>4, <1>10
  <2>3. OutStep(id, {x}, {}, {packet})
    BY <1>0, <1>4, <1>5, <1>6, <1>12, <1>13, <1>14, <2>1, <2>2 DEF OutStep
  <2> QED
    BY <1>2, <2>3, OutTurn
<1>16. OutCursor'
  <2> SUFFICES ASSUME NEW i \in Slots, ~Free(records.outgoing, i),
                      records.outgoing[i].packetId
                        \in Speaking(toBroker', Senders) \cup Speaking(toDevice', Receivers)
               PROVE  /\ pc = "resume" => ~Waiting(records.outgoing, i) /\ i <= cursor
                      /\ pc = "resend" /\ Waiting(records.outgoing, i) => i <= cursor
    BY <1>0 DEF OutCursor
  <2>1. Speaking(toBroker', Senders) \cup Speaking(toDevice', Receivers)
          \subseteq Speaking(toBroker, Senders) \cup Speaking(toDevice, Receivers)
    <3>1. packet.id \in Speaking(toBroker, Senders)
      BY <1>3, <1>8 DEF Speaking, id
    <3> QED
      BY <1>14, <3>1 DEF Speaking
  <2> QED
    BY <2>1 DEF OutInv, OutCursor
<1>17. ExactlyOnceOut'
  <2>1. CASE delivered' = delivered
    BY <2>1, OutNoneTwice
  <2>2. CASE delivered' = Append(delivered, msg) /\ (msg.qos = 1 \/ msg \notin In(delivered))
    <3>1. \A m \in Twice(Append(delivered, msg)) : m.qos = 1
      BY <1>0, <1>2, <2>2, AppendedTwice DEF OutInv, ExactlyOnceOut
    <3> QED
      BY <2>2, <3>1 DEF ExactlyOnceOut
  <2>3. p.type = "PUBLISH" /\ msg.qos = 2 /\ id \notin brokerIn => msg \notin In(delivered)
    BY <1>4, <1>7 DEF ReceivedFits
  <2> QED
    BY <1>2, <2>1, <2>2, <2>3
<1> QED
  BY <1>14, <1>15, <1>16, <1>17 DEF OutInv

\* Nothing is in flight, recorded or passed on at first.
LEMMA OutInit ==
  ASSUME Init
  PROVE  Silent /\ OutInv
<1>1. /\ toBroker = <<>> /\ toDevice = <<>> /\ brokerIn = {} /\ accepted = 0 /\ delivered = <<>>
      /\ link = "closed" /\ records = NoRecords
  BY DEF Init
<1>2. Outgoing = {}
  BY <1>1 DEF Outgoing, InUse, NoRecords, EmptyArray, Free
<1>3. In(toBroker) = {} /\ In(toDevice) = {} /\ In(delivered) = {}
  BY <1>1 DEF In
<1>4. Single(toBroker, toDevice, Senders, Receivers)
  BY <1>1, <1>3 DEF Single, Sole, Speaking, Of
<1>5. OutStates /\ OutSent /\ OutAnswered /\ OutReceived /\ OutKept
  BY <1>1, <1>2, <1>3 DEF OutStates, OutSent, OutAnswered, OutReceived, OutKept, Of
<1>6. OutCursor /\ ExactlyOnceOut
  BY <1>1, <1>3 DEF OutCursor, Speaking, Of, ExactlyOnceOut, Twice
<1> QED
  BY <1>1, <1>4, <1>5, <1>6 DEF Silent, OutInv

\* Every step keeps what holds of the device's publishes.
LEMMA OutNext ==
  ASSUME RecordsInv, Silent, OutInv, [Next]_vars
  PROVE  OutInv'
<1>1. CASE Connect
  BY <1>1, OutConnects
<1>2. CASE ResumePubrel
  BY <1>2, OutResumes
<1>3. CASE Resend
  BY <1>3, OutResends
<1>4. CASE \E qos \in QoSLevels : SendNew(qos)
  BY <1>4, OutSends
<1>5. CASE ReceivePublish
  BY <1>5, OutReceives
<1>6. CASE ReceiveAck
  <2>1. Head(toDevice).type \in Receivers \cup {"PUBREL"}
    BY <1>6 DEF ReceiveAck, Acks, Receivers
  <2> QED
    BY <1>6, <2>1, OutAcked, OutReceives
<1>7. CASE NoticeLoss \/ HangUp
  BY <1>7, OutEnd
<1>8. CASE BrokerReceive
  <2>1. Head(toBroker).type \in Senders \cup Receivers
    BY <1>8 DEF BrokerReceive, Senders, Receivers
  <2> QED
    BY <1>8, <2>1, OutArrives, OutElsewhere
<1>9. CASE BrokerPublish \/ Break
  BY <1>9, OutElsewhere
<1>10. CASE UNCHANGED vars
  <2>1. toBroker \in Seq(Packets) /\ toDevice \in Seq(Packets)
    BY DEF RecordsInv, WireType
  <2>2. Fewer(toBroker', toBroker, Senders) /\ Fewer(toDevice', toDevice, Receivers)
    BY <1>10, <2>1, FewerIn DEF vars, wireVars
  <2> QED
    BY <1>10, <2>2, OutQuiet, CursorQuiet DEF vars, deviceVars, wireVars, brokerVars, Outgoing
<1> QED
  BY <1>1, <1>2, <1>3, <1>4, <1>5, <1>6, <1>7, <1>8, <1>9, <1>10 DEF Next, Device

\* The conversations about the device's publishes are in order at any time.
THEOREM OutgoingInvariant == Spec => [](RecordsInv /\ Silent /\ OutInv)
<1>1. Init => Silent /\ OutInv
  BY OutInit
<1>2. RecordsInv /\ RecordsInv' /\ Silent /\ OutInv /\ [Next]_vars => Silent' /\ OutInv'
  BY SilentKept, OutNext
<1> QED
  BY <1>1, <1>2, RecordsInvariant, PTL DEF Spec

-----------------------------------------------------------------------------
(* The broker's unfinished publishes, as a set.                            *)

\* An identifier has one at most.
Distinct(out) == \A k, l \in DOMAIN out : out[k].id = out[l].id => k = l

Released(e) == [e EXCEPT !.released = TRUE]
Others(set, id) == {e \in set : e.id # id}

\* The members of the set, by identifier.
LEMMA DistinctIn ==
  ASSUME NEW out \in Seq(Unfinished), Distinct(out)
  PROVE  /\ In(out) \subseteq Unfinished
         /\ \A e, f \in In(out) : e.id = f.id => e = f
  BY InType DEF Distinct, In

\* A publish that is done is taken out;
LEMMA WithoutIn ==
  ASSUME NEW out \in Seq(Unfinished), Distinct(out), NEW id
  PROVE  In(Without(out, id)) = Others(In(out), id) /\ Distinct(Without(out, id))
<1>1. CASE \A k \in DOMAIN out : out[k].id # id
  BY <1>1 DEF Without, Others, In
<1>2. CASE \E k \in DOMAIN out : out[k].id = id
  <2> DEFINE at == CHOOSE k \in DOMAIN out : out[k].id = id
             new == Without(out, id)
  <2>1. /\ at \in DOMAIN out /\ out[at].id = id /\ Len(out) \in Nat /\ DOMAIN out = 1 .. Len(out)
        /\ new = [k \in 1 .. Len(out) - 1 |-> out[IF k < at THEN k ELSE k + 1]]
    BY <1>2 DEF Without
  <2> HIDE DEF at, new
  <2>2. \A k \in DOMAIN out : k # at => out[k].id # id
    BY <2>1 DEF Distinct
  <2>3. \A k \in DOMAIN new : \E j \in DOMAIN out : j # at /\ new[k] = out[j]
    <3> SUFFICES ASSUME NEW k \in DOMAIN new PROVE \E j \in DOMAIN out : j # at /\ new[k] = out[j]
      OBVIOUS
    <3>1. k \in 1 .. Len(out) - 1
      BY <2>1
    <3>2. CASE k < at
      BY <2>1, <3>1, <3>2
    <3>3. CASE ~(k < at)
      <4>1. k + 1 \in DOMAIN out /\ k + 1 # at /\ new[k] = out[k + 1]
        BY <2>1, <3>1, <3>3
      <4> QED
        BY <4>1
    <3> QED
      BY <3>2, <3>3
  <2>4. \A j \in DOMAIN out : j # at => \E k \in DOMAIN new : new[k] = out[j]
    <3> SUFFICES ASSUME NEW j \in DOMAIN out, j # at PROVE \E k \in DOMAIN new : new[k] = out[j]
      OBVIOUS
    <3>1. CASE j < at
      <4>1. j \in DOMAIN new /\ new[j] = out[j]
        BY <2>1, <3>1
      <4> QED
        BY <4>1
    <3>2. CASE ~(j < at)
      <4>1. /\ j - 1 \in 1 .. Len(out) - 1 /\ ~(j - 1 < at) /\ j - 1 + 1 = j
        BY <2>1, <3>2
      <4>2. j - 1 \in DOMAIN new /\ new[j - 1] = out[j]
        BY <2>1, <4>1
      <4> QED
        BY <4>2
    <3> QED
      BY <3>1, <3>2
  <2>5. In(new) = Others(In(out), id)
    <3>1. In(new) \subseteq Others(In(out), id)
      BY <2>2, <2>3 DEF In, Others
    <3>2. ASSUME NEW j \in DOMAIN out, out[j].id # id PROVE out[j] \in In(new)
      BY <2>1, <2>4, <3>2 DEF In
    <3>3. Others(In(out), id) \subseteq In(new)
      BY <3>2 DEF In, Others
    <3> QED
      BY <3>1, <3>3
  <2>6. Distinct(new)
    <3> SUFFICES ASSUME NEW k \in DOMAIN new, NEW l \in DOMAIN new, new[k].id = new[l].id
                 PROVE  k = l
      BY DEF Distinct
    <3>1. k \in 1 .. Len(out) - 1 /\ l \in 1 .. Len(out) - 1
      BY <2>1
    <3>2. (IF k < at THEN k ELSE k + 1) = (IF l < at THEN l ELSE l + 1)
      BY <2>1, <3>1 DEF Distinct
    <3> QED
      BY <2>1, <3>1, <3>2
  <2> QED
    BY <2>5, <2>6 DEF new
<1> QED
  BY <1>1, <1>2

\* one whose PUBREC came is released;
LEMMA ReleasedIn ==
  ASSUME NEW out \in Seq(Unfinished), Distinct(out), NEW e \in In(out)
  PROVE  LET new == [k \in DOMAIN out |-> IF out[k].id = e.id
                                            THEN [out[k] EXCEPT !.released = TRUE] ELSE out[k]]
         IN /\ In(new) = Others(In(out), e.id) \cup {Released(e)} /\ Distinct(new)
            /\ Released(e).id = e.id /\ Released(e).msg = e.msg /\ Released(e).released
<1> DEFINE new == [k \in DOMAIN out |-> IF out[k].id = e.id
                                          THEN [out[k] EXCEPT !.released = TRUE] ELSE out[k]]
<1>1. \A k \in DOMAIN out : out[k] \in Unfinished
  OBVIOUS
<1>2. PICK at \in DOMAIN out : out[at] = e
  BY DEF In
<1>3. \A k \in DOMAIN out : out[k].id = e.id => k = at
  BY <1>2 DEF Distinct
<1>4. /\ DOMAIN new = DOMAIN out /\ new[at] = Released(e)
      /\ \A k \in DOMAIN out : k # at => new[k] = out[k]
  BY <1>2, <1>3 DEF Released
<1> HIDE DEF new
<1>5. Released(e).id = e.id /\ Released(e).msg = e.msg /\ Released(e).released
  BY <1>1, <1>2 DEF Released, Unfinished
<1>6. Distinct(new)
  BY <1>2, <1>4, <1>5 DEF Distinct
<1>7. In(new) \subseteq Others(In(out), e.id) \cup {Released(e)}
  BY <1>3, <1>4 DEF In, Others
<1>8. Others(In(out), e.id) \subseteq In(new)
  BY <1>2, <1>4 DEF In, Others
<1>9. Released(e) \in In(new)
  BY <1>2, <1>4 DEF In
<1> QED
  BY <1>5, <1>6, <1>7, <1>8, <1>9 DEF new

\* a new one has an identifier of its own;
LEMMA PushedIn ==
  ASSUME NEW out \in Seq(Unfinished), Distinct(out), NEW e \in Unfinished,
         \A k \in DOMAIN out : out[k].id # e.id
  PROVE  In(Append(out, e)) = Others(In(out), e.id) \cup {e} /\ Distinct(Append(out, e))
<1> DEFINE new == Append(out, e)
<1>1. /\ DOMAIN new = 1 .. Len(out) + 1 /\ DOMAIN out = 1 .. Len(out) /\ Len(out) \in Nat
      /\ new[Len(out) + 1] = e
      /\ \A k \in 1 .. Len(out) : new[k] = out[k]
  OBVIOUS
<1> HIDE DEF new
<1>2. \A k \in DOMAIN new : (k = Len(out) + 1 /\ new[k] = e) \/ (k \in DOMAIN out /\ new[k] = out[k])
  BY <1>1
<1>3. Distinct(new)
  BY <1>2 DEF Distinct
<1>4. Others(In(out), e.id) = In(out)
  BY DEF Others, In
<1> QED
  BY <1>3, <1>4, AppendedIn DEF new

\* and the broker repeats each of them once.
LEMMA RepeatsIn ==
  ASSUME NEW out \in Seq(Unfinished), Distinct(out)
  PROVE  /\ Sole(Repeats(out), Senders)
         /\ \A p \in In(Repeats(out)) : \E e \in In(out) :
              /\ p.id = e.id
              /\ \/ e.released /\ p.type = "PUBREL"
                 \/ ~e.released /\ p.type = "PUBLISH" /\ p.msg = e.msg
<1>1. /\ DOMAIN out = 1 .. Len(out) /\ DOMAIN Repeats(out) = DOMAIN out
      /\ \A k \in DOMAIN out : out[k] \in Unfinished
  BY DEF Repeats
<1>2. \A k \in DOMAIN out :
        /\ Repeats(out)[k].id = out[k].id
        /\ \/ out[k].released /\ Repeats(out)[k].type = "PUBREL"
           \/ /\ ~out[k].released /\ Repeats(out)[k].type = "PUBLISH"
              /\ Repeats(out)[k].msg = out[k].msg
  BY <1>1 DEF Repeats, Ack, Publish
<1>3. Sole(Repeats(out), Senders)
  BY <1>1, <1>2 DEF Sole, Distinct
<1> QED
  BY <1>1, <1>2, <1>3 DEF In

-----------------------------------------------------------------------------
(* The conversations about the broker's publishes.                         *)

Incoming == InUse(records.incoming)
Open == In(brokerOut)

\* What the broker has unfinished; a QoS 2 message the user got has a record
\* until the broker knows.
EntryFits(e) ==
  /\ e.msg.n <= pushed /\ e.msg.qos \in {1, 2}
  /\ e.released => e.msg.qos = 2 /\ e.msg \in In(handed)
  /\ e.msg.qos = 2 /\ ~e.released /\ e.msg \in In(handed) =>
       \E x \in Incoming : x.packetId = e.id

InOpen ==
  /\ Distinct(brokerOut)
  /\ \A e, f \in Open : e.msg.n = f.msg.n => e = f
  /\ \A e \in Open : EntryFits(e)

\* A record is one of a publish the broker has unfinished and the user got.
RecordFits(x) ==
  \E e \in Open :
    /\ e.id = x.packetId /\ e.msg.qos = x.qos /\ e.msg \in In(handed)
    /\ \/ x.publishState = "PubAckSend" /\ x.qos = 1
       \/ x.publishState \in {"PubRecSend", "PubRelPending"} /\ x.qos = 2
       \/ x.publishState = "PubCompSend" /\ x.qos = 2 /\ e.released

InStates == Unique(records.incoming) /\ \A x \in Incoming : RecordFits(x)

\* What is on its way to the device is what the broker has unfinished; only in
\* a session that is kept may the record of a release be gone.
PushFits(p) ==
  /\ p.type = "PUBLISH" =>
       \E e \in Open : e.id = p.id /\ e.msg = p.msg /\ ~e.released
  /\ p.type = "PUBREL" =>
       /\ \E e \in Open : e.id = p.id /\ e.released
       /\ ~load.keep => Record(p.id, 2, "PubRelPending") \in Incoming

InSent == \A p \in Of(toDevice, Senders) : PushFits(p)

\* What the device answers, the user got.
ReplyFits(p) ==
  /\ p.type = "PUBREC" => Record(p.id, 2, "PubRelPending") \in Incoming
  /\ p.type = "PUBACK" =>
       \E e \in Open : e.id = p.id /\ e.msg.qos = 1 /\ e.msg \in In(handed)
  /\ p.type = "PUBCOMP" => \E e \in Open : e.id = p.id /\ e.released
  /\ p.type # "PUBREC" => \A x \in Incoming : x.packetId # p.id

InAnswered == \A p \in Of(toBroker, Receivers) : ReplyFits(p)

InHanded == \A m \in In(handed) : m.n <= pushed

\* What a kept session has pushed was handed over or is still unfinished.
InKept ==
  load.keep => \A n \in 1 .. pushed :
    \/ \E m \in In(handed) : m.n = n
    \/ \E e \in Open : ~e.released /\ e.msg.n = n

InInv ==
  /\ Single(toDevice, toBroker, Senders, Receivers)
  /\ InOpen /\ InStates /\ InSent /\ InAnswered /\ InHanded /\ InKept
  /\ ExactlyOnceIn

\* What the types say of these sets.
LEMMA InFacts ==
  ASSUME RecordsInv, InInv
  PROVE  /\ records.incoming \in Array /\ Unique(records.incoming)
         /\ \A x \in Incoming : x \in Records /\ x.packetId \in Ids
         /\ \A x, y \in Incoming : x.packetId = y.packetId => x = y
         /\ brokerOut \in Seq(Unfinished) /\ Distinct(brokerOut)
         /\ Open \subseteq Unfinished /\ \A e, f \in Open : e.id = f.id => e = f
<1>1. records.incoming \in Array /\ Unique(records.incoming)
  BY DEF RecordsInv, DeviceType, RecordsType, InInv, InStates
<1>2. brokerOut \in Seq(Unfinished) /\ Distinct(brokerOut)
  BY DEF RecordsInv, BrokerType, InInv, InOpen
<1> QED
  BY <1>1, <1>2, InUseFacts, DistinctIn DEF Incoming, Open

\* A packet in flight is about a publish that is unfinished.
LEMMA InRecords ==
  ASSUME RecordsInv, InInv, NEW id \in Speaking(toDevice, Senders) \cup Speaking(toBroker, Receivers)
  PROVE  \E e \in Open : e.id = id
<1>1. CASE id \in Speaking(toDevice, Senders)
  <2>1. PICK p \in Of(toDevice, Senders) : p.id = id
    BY <1>1 DEF Speaking
  <2>2. p.type = "PUBLISH" \/ p.type = "PUBREL"
    BY DEF Of, Senders
  <2> QED
    BY <2>1, <2>2 DEF InInv, InSent, PushFits
<1>2. CASE id \in Speaking(toBroker, Receivers)
  <2>1. PICK p \in Of(toBroker, Receivers) : p.id = id
    BY <1>2 DEF Speaking
  <2>2. p.type \in {"PUBACK", "PUBREC", "PUBCOMP"} /\ ReplyFits(p)
    BY DEF Of, Receivers, InInv, InAnswered
  <2>3. p.type = "PUBREC" => \E x \in Incoming : x.packetId = id
    BY <2>1, <2>2 DEF ReplyFits, Record
  <2> QED
    BY <2>1, <2>2, <2>3 DEF ReplyFits, InInv, InStates, RecordFits
<1> QED
  BY <1>1, <1>2

\* A step that sends nothing new of this direction, and leaves records and
\* broker alone.
LEMMA InQuiet ==
  ASSUME InInv, Incoming' = Incoming, Unique(records.incoming)',
         UNCHANGED <<handed, brokerOut, pushed, load>>,
         Fewer(toBroker', toBroker, Receivers), Fewer(toDevice', toDevice, Senders)
  PROVE  InInv'
<1>1. Single(toDevice', toBroker', Senders, Receivers)
  BY SingleFewer DEF InInv
<1>2. InOpen' /\ InStates' /\ InHanded' /\ InKept'
  BY DEF InInv, InOpen, EntryFits, InStates, RecordFits, InHanded, InKept, Open
<1>3. InSent' /\ InAnswered'
  BY DEF InInv, InSent, PushFits, InAnswered, ReplyFits, Fewer, Open
<1>4. ExactlyOnceIn'
  BY DEF InInv, ExactlyOnceIn
<1> QED
  BY <1>1, <1>2, <1>3, <1>4 DEF InInv

\* A step about one identifier: its record and its unfinished publish are
\* replaced, its packets in flight are at most those that the step sends, and
\* all else is left alone.
InStep(id, next, entries, up, down) ==
  /\ Incoming' = {x \in Incoming : x.packetId # id} \cup next
  /\ \A y \in next : y.packetId = id /\ RecordFits(y)'
  /\ Open' = Others(Open, id) \cup entries
  /\ \A f \in entries : f.id = id /\ EntryFits(f)'
  /\ \A p \in Of(toBroker', Receivers) :
       p \in up \/ (p \in Of(toBroker, Receivers) /\ p.id # id)
  /\ \A p \in up : ReplyFits(p)'
  /\ \A p \in Of(toDevice', Senders) :
       p \in down \/ (p \in Of(toDevice, Senders) /\ p.id # id)
  /\ \A p \in down : PushFits(p)'
  /\ \/ In(handed') = In(handed)
     \/ \E e \in Open : e.id = id /\ In(handed') = In(handed) \cup {e.msg}
  /\ \A e \in Open : e.id = id /\ ~e.released =>
       \/ e.msg \in In(handed')
       \/ \E f \in entries : f.msg = e.msg /\ ~f.released
  /\ \/ pushed' = pushed
     \/ pushed' = pushed + 1 /\ \E f \in entries : ~f.released /\ f.msg.n = pushed'
  /\ UNCHANGED load

\* Such a step keeps what relates records, packets and the broker.
LEMMA InTurn ==
  ASSUME RecordsInv, InInv, NEW id \in Ids, NEW next, NEW entries, NEW up, NEW down,
         InStep(id, next, entries, up, down)
  PROVE  /\ \A e \in Open' : EntryFits(e)'
         /\ \A x \in Incoming' : RecordFits(x)'
         /\ InSent' /\ InAnswered' /\ InHanded' /\ InKept'
<1>1. /\ Open \subseteq Unfinished /\ \A e, f \in Open : e.id = f.id => e = f
      /\ \A e, f \in Open : e.msg.n = f.msg.n => e = f
      /\ \A e \in Open : EntryFits(e)
  BY InFacts DEF InInv, InOpen
<1>2. /\ pushed \in Nat /\ pushed' \in Nat /\ pushed <= pushed'
      /\ handed \in Seq(Messages) /\ In(handed) \subseteq Messages
      /\ In(handed) \subseteq In(handed')
  BY InType DEF RecordsInv, DeviceType, BrokerType, InStep
<1>3. \A x \in Incoming : x.packetId # id => x \in Incoming'
  BY DEF InStep
<1>4. \A x \in Incoming' : x \in next \/ (x \in Incoming /\ x.packetId # id)
  BY DEF InStep
<1>5. \A e \in Open : e.id # id => e \in Open'
  BY DEF InStep, Others
<1>6. \A e \in Open' : e \in entries \/ (e \in Open /\ e.id # id)
  BY DEF InStep, Others
<1>7. \A e \in Open : e.id # id => (e.msg \in In(handed') => e.msg \in In(handed))
  BY <1>1 DEF InStep
<1>8. \A e \in Open : e.msg.n \in Nat
  BY <1>1 DEF Unfinished, Messages
<1>9. \A e \in Open' : EntryFits(e)'
  <2> SUFFICES ASSUME NEW e \in Open, e.id # id PROVE EntryFits(e)'
    BY <1>6 DEF InStep
  <2>1. EntryFits(e)
    BY <1>1
  <2>2. e.msg.n <= pushed'
    BY <1>2, <1>8, <2>1 DEF EntryFits
  <2> QED
    BY <1>2, <1>3, <1>7, <2>1, <2>2 DEF EntryFits
<1>10. \A x \in Incoming' : RecordFits(x)'
  <2> SUFFICES ASSUME NEW x \in Incoming, x.packetId # id PROVE RecordFits(x)'
    BY <1>4 DEF InStep
  <2>1. RecordFits(x)
    BY DEF InInv, InStates
  <2> QED
    BY <1>2, <1>5, <2>1 DEF RecordFits
<1>11. InSent'
  <2> SUFFICES ASSUME NEW p \in Of(toDevice, Senders), p.id # id PROVE PushFits(p)'
    BY DEF InStep, InSent
  <2>1. PushFits(p)
    BY DEF InInv, InSent
  <2>2. load' = load /\ Record(p.id, 2, "PubRelPending").packetId = p.id
    BY DEF InStep, Record
  <2> QED
    BY <1>3, <1>5, <2>1, <2>2 DEF PushFits
<1>12. InAnswered'
  <2> SUFFICES ASSUME NEW p \in Of(toBroker, Receivers), p.id # id PROVE ReplyFits(p)'
    BY DEF InStep, InAnswered
  <2>1. ReplyFits(p)
    BY DEF InInv, InAnswered
  <2>2. Record(p.id, 2, "PubRelPending").packetId = p.id
    BY DEF Record
  <2>3. \A x \in Incoming' : x.packetId = p.id => x \in Incoming
    BY <1>4 DEF InStep
  <2> QED
    BY <1>2, <1>3, <1>5, <2>1, <2>2, <2>3 DEF ReplyFits
<1>13. InHanded'
  <2> SUFFICES ASSUME NEW m \in In(handed') PROVE m.n <= pushed'
    BY DEF InHanded
  <2>1. CASE m \in In(handed)
    BY <1>2, <2>1 DEF InInv, InHanded, Messages
  <2>2. CASE \E e \in Open : m = e.msg
    BY <1>1, <1>2, <1>8, <2>2 DEF EntryFits
  <2> QED
    BY <2>1, <2>2 DEF InStep
<1>14. InKept'
  <2> SUFFICES ASSUME load.keep, NEW n \in 1 .. pushed'
               PROVE  \/ \E m \in In(handed') : m.n = n
                      \/ \E e \in Open' : ~e.released /\ e.msg.n = n
    BY DEF InKept, InStep
  <2>1. CASE n \in 1 .. pushed
    <3>1. CASE \E m \in In(handed) : m.n = n
      BY <1>2, <3>1
    <3>2. CASE \E e \in Open : ~e.released /\ e.msg.n = n
      <4>1. PICK e \in Open : ~e.released /\ e.msg.n = n
        BY <3>2
      <4>2. CASE e.id = id
        <5>1. \/ e.msg \in In(handed')
              \/ \E f \in entries : f.msg = e.msg /\ ~f.released
          BY <4>1, <4>2 DEF InStep
        <5>2. entries \subseteq Open'
          BY DEF InStep
        <5> QED
          BY <4>1, <5>1, <5>2
      <4>3. CASE e.id # id
        BY <1>5, <4>1, <4>3
      <4> QED
        BY <4>2, <4>3
    <3> QED
      BY <2>1, <3>1, <3>2 DEF InInv, InKept
  <2>2. CASE n = pushed + 1 /\ pushed' = pushed + 1
    <3>1. \E f \in entries : ~f.released /\ f.msg.n = pushed'
      BY <1>2, <2>2 DEF InStep
    <3>2. entries \subseteq Open'
      BY DEF InStep
    <3> QED
      BY <2>2, <3>1, <3>2
  <2> QED
    BY <1>2, <2>1, <2>2 DEF InStep
<1> QED
  BY <1>9, <1>10, <1>11, <1>12, <1>13, <1>14

\* sendPublishAcks for the device's own publish leaves the broker's alone.
LEMMA AckSentOutgoing ==
  ASSUME NEW recs \in RecordsType, NEW id \in Ids, NEW state, state \in {"PubRelSend", "PublishDone"},
         toBroker \in Seq(Packets), SendPublishAck(recs, id, state)
  PROVE  records'.incoming = recs.incoming /\ Fewer(toBroker', toBroker, Receivers)
<1> DEFINE type == AckTypeToSend(state)
           u == UpdateStateAck(recs, id, type, "send")
<1>1. type \in {"PUBREL", "none"}
  BY DEF AckTypeToSend
<1>2. \/ type = "none" /\ records' = recs /\ UNCHANGED toBroker
      \/ type = "PUBREL" /\ SendOk(Ack(type, id)) /\ records' = u.records
      \/ type = "PUBREL" /\ SendFails /\ records' = recs
  BY <1>1 DEF SendPublishAck
<1>3. type = "PUBREL" => u.records.incoming = recs.incoming
  <2>1. type = "PUBREL" => DirectionOf(type, "send") = "outgoing"
    BY DEF DirectionOf
  <2> HIDE DEF type
  <2> QED
    BY <2>1, OtherDirection
<1>4. Ack("PUBREL", id) \in Packets /\ Ack("PUBREL", id).type \notin Receivers
  BY DEF Receivers, Ack, Packets, Acks, NoMessage, Messages
<1> HIDE DEF type, u
<1>5. toBroker' = toBroker \/ toBroker' = Append(toBroker, Ack("PUBREL", id))
  BY <1>2 DEF SendOk, SendFails
<1>6. Fewer(toBroker', toBroker, Receivers)
  BY <1>4, <1>5, FewerIn
<1> QED
  BY <1>2, <1>3, <1>6

\* The end of a connection leaves nothing in flight.
LEMMA InEnd ==
  ASSUME RecordsInv, InInv, NoticeLoss \/ HangUp \/ Break
  PROVE  InInv'
<1>1. /\ UNCHANGED <<records, handed, brokerOut, pushed, load>>
      /\ toBroker' \in {<<>>, toBroker} /\ toDevice' \in {<<>>, toDevice}
  BY DEF NoticeLoss, HangUp, Break, wireVars, brokerVars, deviceVars
<1>2. toBroker \in Seq(Packets) /\ toDevice \in Seq(Packets)
  BY DEF RecordsInv, WireType
<1>3. Fewer(toBroker', toBroker, Receivers) /\ Fewer(toDevice', toDevice, Senders)
  BY <1>1, <1>2, FewerIn
<1>4. Unique(records.incoming)'
  BY <1>1, InFacts
<1> QED
  BY <1>1, <1>3, <1>4, InQuiet DEF Incoming

\* What the device does about its own publishes changes nothing here.
LEMMA InSends ==
  ASSUME RecordsInv, InInv,
         \/ ResumePubrel \/ Resend \/ \E qos \in QoSLevels : SendNew(qos)
         \/ ReceiveAck /\ Head(toDevice).type \in Receivers
  PROVE  InInv'
<1>0. /\ records \in RecordsType /\ toBroker \in Seq(Packets) /\ toDevice \in Seq(Packets)
      /\ store \in [Ids -> Messages] /\ Unique(records.outgoing) /\ load \in Loads
      /\ nextId \in Ids /\ accepted \in Nat
  BY OutFacts, LoadIds DEF RecordsInv, DeviceType, WireType, BrokerType
<1>1. UNCHANGED <<handed, brokerOut, pushed, load>>
  BY DEF ResumePubrel, Resend, SendNew, ReceiveAck, brokerVars
<1>2. /\ records'.incoming = records.incoming
      /\ Fewer(toBroker', toBroker, Receivers) /\ Fewer(toDevice', toDevice, Senders)
  <2>1. CASE ResumePubrel
    <3> DEFINE found == PubrelToResend(records, cursor)
    <3>1. /\ UNCHANGED toDevice
          /\ \/ found.id # 0 /\ SendPublishAck(records, found.id, "PubRelSend")
             \/ UNCHANGED <<records, toBroker>>
      BY <2>1 DEF ResumePubrel
    <3>2. found.id \in Ids \cup {0}
      BY <1>0, SelectType DEF PubrelToResend, RecordsType, RecordsInv, DeviceType
    <3> HIDE DEF found
    <3>3. CASE found.id # 0 /\ SendPublishAck(records, found.id, "PubRelSend")
      BY <1>0, <3>1, <3>2, <3>3, AckSentOutgoing, FewerIn
    <3>4. CASE UNCHANGED <<records, toBroker>>
      BY <1>0, <3>1, <3>4, FewerIn
    <3> QED
      BY <3>1, <3>3, <3>4
  <2>2. CASE Resend
    <3> DEFINE found == PublishToResend(records, cursor)
               packet == Publish(found.id, store[found.id])
               sent == SentPublish(records, found.id, store[found.id].qos)
    <3>1. /\ UNCHANGED toDevice
          /\ \/ found.id # 0 /\ SendOk(packet) /\ records' = sent.records
             \/ UNCHANGED <<records, toBroker>>
      BY <2>2 DEF Resend, SendFails
    <3>2. found.id \in Ids \cup {0}
      BY <1>0, SelectType DEF PublishToResend, RecordsType, RecordsInv, DeviceType
    <3>3. found.id # 0 => packet \in Packets /\ packet.type \notin Receivers
      BY <1>0, <3>2 DEF Publish, Packets, Receivers
    <3>4. sent.records.incoming = records.incoming
      BY <1>0 DEF SentPublish, RecordsType
    <3> HIDE DEF found, packet, sent
    <3>5. /\ records'.incoming = records.incoming
          /\ toBroker' = toBroker \/ (toBroker' = Append(toBroker, packet) /\ found.id # 0)
      BY <3>1, <3>4 DEF SendOk
    <3> QED
      BY <1>0, <3>1, <3>3, <3>5, FewerIn
  <2>3. CASE \E qos \in QoSLevels : SendNew(qos)
    <3>1. PICK qos \in QoSLevels : SendNew(qos)
      BY <2>3
    <3> DEFINE packet == Publish(nextId, [n |-> accepted + 1, qos |-> qos])
               recs == [records EXCEPT !.outgoing =
                          AddRecord(records.outgoing, nextId, qos, "PublishSend").array]
               sent == SentPublish(recs, nextId, qos)
    <3>2. /\ UNCHANGED toDevice
          /\ \/ SendOk(packet) /\ records' = sent.records
             \/ UNCHANGED toBroker /\ records' = recs
      BY <3>1 DEF SendNew, SendFails
    <3>3. packet \in Packets /\ packet.type \notin Receivers
      BY <1>0 DEF Publish, Packets, Receivers, Messages
    <3>4. recs.incoming = records.incoming /\ sent.records.incoming = recs.incoming
      BY <1>0 DEF SentPublish, RecordsType
    <3> HIDE DEF packet, sent, recs
    <3>5. /\ records'.incoming = records.incoming
          /\ toBroker' = toBroker \/ toBroker' = Append(toBroker, packet)
      BY <3>2, <3>4 DEF SendOk
    <3> QED
      BY <1>0, <3>2, <3>3, <3>5, FewerIn
  <2>4. CASE ReceiveAck /\ Head(toDevice).type \in Receivers
    <3>1. toDevice # <<>> /\ toDevice' = Tail(toDevice)
      BY <2>4 DEF ReceiveAck
    <3>2. PICK p \in Packets : p = Head(toDevice)
      BY <1>0, <3>1, PacketsType
    <3> DEFINE u == UpdateStateAck(records, p.id, p.type, "receive")
    <3>3. p.type \in Receivers /\ p.type \in Acks /\ p.id \in Ids
      BY <2>4, <3>2 DEF Receivers, Acks, Packets
    <3>4. /\ u.records \in RecordsType /\ u.records.incoming = records.incoming
          /\ u.status = "Success" => u.state \in {"PubRelSend", "PublishDone"}
      <4>1. DirectionOf(p.type, "receive") = "outgoing"
        BY <3>3 DEF DirectionOf, Receivers
      <4>2. \/ u.status \in {"BadResponse", "IllegalState"} /\ u.records = records
            \/ /\ u.status = "Success"
               /\ \E a \in Array : u.records = [records EXCEPT ![DirectionOf(p.type, "receive")] = a]
               /\ p.type \in {"PUBACK", "PUBCOMP"} => u.state = "PublishDone"
        BY <1>0, <3>3, UpdateStateAckWorks
      <4>3. u.status = "Success" /\ p.type = "PUBREC" => u.state = "PubRelSend"
        <5>1. ~("PUBREC" = "PUBACK") /\ "PUBREC" \notin {"PUBACK", "PUBCOMP"} /\ "receive" # "send"
          OBVIOUS
        <5>2. \A qos : CalculateStateAck("PUBREC", "receive", qos) \in {"Null", "PubRelSend"}
          BY DEF CalculateStateAck
        <5>3. \A state : <<state, "Null">> \notin AckTransitions
          BY DEF AckTransitions
        <5> QED
          BY <5>2, <5>3 DEF UpdateStateAck
      <4> QED
        BY <1>0, <3>3, <4>1, <4>2, <4>3 DEF RecordsType, Receivers
    <3>5. \/ u.status = "Success" /\ SendPublishAck(u.records, p.id, u.state)
          \/ records' = u.records /\ UNCHANGED toBroker
      BY <2>4, <3>2 DEF ReceiveAck
    <3> HIDE DEF u
    <3>6. Fewer(toDevice', toDevice, Senders)
      BY <1>0, <3>1, Read
    <3>7. CASE u.status = "Success" /\ SendPublishAck(u.records, p.id, u.state)
      BY <1>0, <3>3, <3>4, <3>6, <3>7, AckSentOutgoing
    <3>8. CASE records' = u.records /\ UNCHANGED toBroker
      BY <1>0, <3>4, <3>6, <3>8, FewerIn
    <3> QED
      BY <3>5, <3>7, <3>8
  <2> QED
    BY <2>1, <2>2, <2>3, <2>4
<1>3. Unique(records.incoming)'
  BY <1>2, InFacts
<1> QED
  BY <1>1, <1>2, <1>3, InQuiet DEF Incoming

\* Nor does what the broker makes of it.
LEMMA InArrives ==
  ASSUME RecordsInv, InInv, BrokerReceive, Head(toBroker).type \in Senders
  PROVE  InInv'
<1>0. /\ toBroker \in Seq(Packets) /\ toDevice \in Seq(Packets) /\ toBroker # <<>>
      /\ toBroker' = Tail(toBroker) /\ UNCHANGED <<records, handed, brokerOut, pushed, load>>
  BY DEF RecordsInv, WireType, BrokerReceive, deviceVars, Senders
<1>1. PICK p \in Packets : p = Head(toBroker)
  BY <1>0, PacketsType
<1>2. \E type \in Receivers : toDevice' = Append(toDevice, Ack(type, p.id))
  BY <1>1 DEF BrokerReceive, Senders, Receivers
<1>3. \A type \in Receivers : Ack(type, p.id) \in Packets /\ Ack(type, p.id).type \notin Senders
  BY DEF Ack, Packets, Receivers, Senders, Acks, NoMessage, Messages
<1>4. Fewer(toBroker', toBroker, Receivers) /\ Fewer(toDevice', toDevice, Senders)
  <2>1. Fewer(toBroker', toBroker, Receivers)
    BY <1>0, Read
  <2>2. Fewer(toDevice', toDevice, Senders)
    BY <1>0, <1>2, <1>3, FewerIn
  <2> QED
    BY <2>1, <2>2
<1>5. Unique(records.incoming)'
  BY <1>0, InFacts
<1> QED
  BY <1>0, <1>4, <1>5, InQuiet DEF Incoming

\* A new connection: the broker repeats what a kept session has unfinished.
LEMMA InConnects ==
  ASSUME RecordsInv, Silent, InInv, Connect
  PROVE  InInv'
<1>1. /\ toBroker = <<>> /\ UNCHANGED <<toBroker, handed, pushed, load>>
      /\ brokerOut \in Seq(Unfinished) /\ Distinct(brokerOut)
  BY InFacts DEF Connect, Silent
<1>2. In(toBroker') = {} /\ Of(toBroker', Receivers) = {}
  BY <1>1 DEF Of, In
<1>3. CASE load.keep
  <2>1. toDevice' = Repeats(brokerOut) /\ UNCHANGED <<records, brokerOut>>
    BY <1>3 DEF Connect
  <2>2. Single(toDevice', toBroker', Senders, Receivers)
    BY <1>1, <1>2, <2>1, RepeatsIn DEF Single, Sole, Speaking
  <2>3. InSent' /\ InAnswered'
    <3>1. \A p \in In(toDevice') : \E e \in Open' :
            /\ p.id = e.id
            /\ \/ e.released /\ p.type = "PUBREL"
               \/ ~e.released /\ p.type = "PUBLISH" /\ p.msg = e.msg
      BY <1>1, <2>1, RepeatsIn DEF Open
    <3>2. load'.keep
      BY <1>1, <1>3
    <3> QED
      BY <1>2, <3>1, <3>2 DEF InSent, PushFits, InAnswered, Of
  <2>4. InOpen' /\ InStates' /\ InHanded' /\ InKept' /\ ExactlyOnceIn'
    BY <1>1, <2>1
       DEF InInv, InOpen, EntryFits, InStates, RecordFits, InHanded, InKept, ExactlyOnceIn,
           Open, Incoming
  <2> QED
    BY <2>2, <2>3, <2>4 DEF InInv
<1>4. CASE ~load.keep
  <2>1. records' = NoRecords /\ toDevice' = toDevice /\ toDevice = <<>> /\ brokerOut' = <<>>
    BY <1>4 DEF Connect, Silent
  <2>2. Incoming' = {} /\ Unique(records'.incoming)
    BY <2>1 DEF Incoming, InUse, Unique, NoRecords, EmptyArray, Free
  <2>3. Open' = {} /\ Distinct(brokerOut')
    BY <2>1 DEF Open, In, Distinct
  <2>4. Of(toDevice', Senders) = {}
    BY <2>1 DEF Of, In
  <2>5. Single(toDevice', toBroker', Senders, Receivers)
    BY <1>1, <2>1 DEF Single, Sole, Speaking, Of, In
  <2>6. InOpen' /\ InStates' /\ InSent' /\ InAnswered' /\ InKept'
    BY <1>1, <1>2, <1>4, <2>2, <2>3, <2>4 DEF InOpen, InStates, InSent, InAnswered, InKept
  <2>7. InHanded' /\ ExactlyOnceIn'
    BY <1>1 DEF InInv, InHanded, ExactlyOnceIn
  <2> QED
    BY <2>5, <2>6, <2>7 DEF InInv
<1> QED
  BY <1>3, <1>4

\* Nothing is handed over twice by a step that hands nothing over.
LEMMA InNoneTwice ==
  ASSUME InInv, UNCHANGED handed
  PROVE  ExactlyOnceIn'
  BY DEF InInv, ExactlyOnceIn

\* A new publish of the broker takes an identifier that none of its unfinished
\* ones has, and so no packet in flight, and a number above all others.
LEMMA InPushes ==
  ASSUME RecordsInv, InInv, BrokerPublish
  PROVE  InInv'
<1>0. /\ toBroker \in Seq(Packets) /\ toDevice \in Seq(Packets) /\ pushed \in Nat /\ load \in Loads
      /\ brokerOut \in Seq(Unfinished) /\ Distinct(brokerOut) /\ Open \subseteq Unfinished
      /\ UNCHANGED <<records, handed, toBroker, load>> /\ pushed' = pushed + 1
  BY InFacts DEF RecordsInv, WireType, BrokerType, BrokerPublish, deviceVars
<1>1. PICK qos \in QoSLevels, id \in 1 .. load.ids :
        /\ \A k \in DOMAIN brokerOut : brokerOut[k].id # id
        /\ LET msg == [n |-> pushed + 1, qos |-> qos]
           IN /\ brokerOut' = Append(brokerOut, [id |-> id, msg |-> msg, released |-> FALSE])
              /\ toDevice' = Append(toDevice, Publish(id, msg))
  BY DEF BrokerPublish
<1>2. PICK msg \in Messages : msg = [n |-> pushed + 1, qos |-> qos]
  <2>1. [n |-> pushed + 1, qos |-> qos] \in Messages
    BY <1>0 DEF Messages
  <2> QED
    BY <2>1
<1>3. id \in Ids
  BY <1>0, LoadIds
<1>4. PICK e \in Unfinished : /\ e = [id |-> id, msg |-> msg, released |-> FALSE]
                             /\ e.id = id /\ e.msg = msg /\ ~e.released
  <2>1. [id |-> id, msg |-> msg, released |-> FALSE] \in Unfinished
    BY <1>3 DEF Unfinished
  <2> QED
    BY <2>1
<1>5. PICK packet \in Packets : /\ packet = Publish(id, msg)
                               /\ packet.id = id /\ packet.type = "PUBLISH" /\ packet.msg = msg
  <2>1. Publish(id, msg) \in Packets
    BY <1>3 DEF Publish, Packets
  <2> QED
    BY <2>1 DEF Publish
<1>6. brokerOut' = Append(brokerOut, e) /\ toDevice' = Append(toDevice, packet)
  BY <1>1, <1>2, <1>4, <1>5
<1>7. Open' = Others(Open, id) \cup {e} /\ Distinct(brokerOut')
  BY <1>0, <1>1, <1>4, <1>6, PushedIn DEF Open
<1>8. \A f \in Open : f.id # id
  BY <1>1 DEF Open, In
<1>9. id \notin Speaking(toDevice, Senders) /\ id \notin Speaking(toBroker, Receivers)
  BY <1>8, InRecords
<1>10. \A x \in Incoming : x.packetId # id
  BY <1>8 DEF InInv, InStates, RecordFits
<1>11. msg \notin In(handed) /\ msg.n = pushed' /\ msg.qos \in {1, 2}
       /\ \A f \in Open : f.msg.n # msg.n
  <2>1. \A m \in In(handed) : m.n <= pushed
    BY DEF InInv, InHanded
  <2>2. \A f \in Open : f.msg.n <= pushed
    BY DEF InInv, InOpen, EntryFits
  <2> QED
    BY <1>0, <1>2, <2>1, <2>2 DEF QoSLevels
<1>12. Single(toDevice', toBroker', Senders, Receivers)
  <2>1. Single(Append(toDevice, packet), toBroker, Senders, Receivers)
    BY <1>0, <1>5, <1>9, SingleWritten DEF InInv
  <2> QED
    BY <1>0, <1>6, <2>1
<1>13. InStep(id, {}, {e}, {}, {packet})
  <2>1. Incoming' = {x \in Incoming : x.packetId # id} \cup {}
    BY <1>0, <1>10 DEF Incoming
  <2>2. EntryFits(e)'
    BY <1>0, <1>4, <1>11 DEF EntryFits
  <2>3. \A p \in Of(toBroker', Receivers) : p \in Of(toBroker, Receivers) /\ p.id # id
    BY <1>0, <1>9 DEF Speaking
  <2>4. \A p \in Of(toDevice', Senders) : p = packet \/ (p \in Of(toDevice, Senders) /\ p.id # id)
    <3>1. Of(toDevice', Senders) \subseteq Of(toDevice, Senders) \cup {packet}
      BY <1>0, <1>6, Written
    <3> QED
      BY <1>9, <3>1 DEF Speaking
  <2>5. PushFits(packet)'
    BY <1>4, <1>5, <1>7 DEF PushFits
  <2> QED
    BY <1>0, <1>4, <1>7, <1>8, <1>11, <2>1, <2>2, <2>3, <2>4, <2>5 DEF InStep
<1>14. /\ \A f \in Open' : EntryFits(f)'
       /\ \A x \in Incoming' : RecordFits(x)'
       /\ InSent' /\ InAnswered' /\ InHanded' /\ InKept'
  BY <1>3, <1>13, InTurn
<1>15. \A f, g \in Open' : f.msg.n = g.msg.n => f = g
  <2>1. \A f \in Open' : f = e \/ f \in Open
    BY <1>7 DEF Others
  <2>2. \A f \in Open : f.msg.n # e.msg.n
    BY <1>4, <1>11
  <2>3. \A f, g \in Open : f.msg.n = g.msg.n => f = g
    BY DEF InInv, InOpen
  <2> QED
    BY <2>1, <2>2, <2>3
<1>16. Unique(records.incoming)'
  BY <1>0, InFacts
<1> QED
  BY <1>0, <1>7, <1>12, <1>14, <1>15, <1>16, InNoneTwice DEF InInv, InOpen, InStates

\* A PUBREC: the publish is released, and the PUBREL finds the record waiting.
LEMMA InReleased ==
  ASSUME RecordsInv, InInv, BrokerReceive, Head(toBroker).type = "PUBREC"
  PROVE  InInv'
<1>0. /\ toBroker \in Seq(Packets) /\ toDevice \in Seq(Packets) /\ toBroker # <<>>
      /\ brokerOut \in Seq(Unfinished) /\ Distinct(brokerOut) /\ Open \subseteq Unfinished
      /\ toBroker' = Tail(toBroker) /\ UNCHANGED <<records, handed, pushed, load>>
  BY InFacts DEF RecordsInv, WireType, BrokerReceive, deviceVars
<1>1. PICK p \in Packets : p = Head(toBroker)
  BY <1>0, PacketsType
<1> DEFINE id == p.id
<1>2. /\ id \in Ids /\ p.type = "PUBREC" /\ p.type \in Receivers
      /\ toDevice' = Append(toDevice, Ack("PUBREL", id))
      /\ brokerOut' = [k \in DOMAIN brokerOut |->
                         IF brokerOut[k].id = id
                           THEN [brokerOut[k] EXCEPT !.released = TRUE] ELSE brokerOut[k]]
  BY <1>1 DEF BrokerReceive, Packets, Receivers
<1>3. /\ p \in Of(toBroker, Receivers) /\ ReplyFits(p)
      /\ id \notin Speaking(Tail(toBroker), Receivers) /\ id \notin Speaking(toDevice, Senders)
      /\ Of(Tail(toBroker), Receivers) \subseteq Of(toBroker, Receivers)
  <2>1. /\ p \in Of(toBroker, Receivers) /\ id \in Speaking(toBroker, Receivers)
        /\ Fewer(Tail(toBroker), toBroker, Receivers)
        /\ id \notin Speaking(Tail(toBroker), Receivers)
    BY <1>0, <1>1, <1>2, Read DEF InInv, Single
  <2> QED
    BY <2>1 DEF InInv, InAnswered, Single, Fewer
<1>4. PICK packet \in Packets : /\ packet = Ack("PUBREL", id)
                               /\ packet.id = id /\ packet.type = "PUBREL"
  <2>1. Ack("PUBREL", id) \in Packets
    BY <1>2 DEF Ack, Packets, Acks, NoMessage, Messages
  <2> QED
    BY <2>1 DEF Ack
<1>5. PICK x \in Incoming : /\ x = Record(id, 2, "PubRelPending") /\ x.packetId = id /\ x.qos = 2
                           /\ x.publishState = "PubRelPending"
  BY <1>2, <1>3 DEF ReplyFits, Record
<1>6. PICK e \in Open : e.id = id /\ e.msg.qos = 2 /\ e.msg \in In(handed)
  BY <1>5 DEF InInv, InStates, RecordFits
<1>7. PICK f : f = Released(e)
  OBVIOUS
<1>8. /\ Open' = Others(Open, id) \cup {f} /\ Distinct(brokerOut')
      /\ f.id = id /\ f.msg = e.msg /\ f.released
  <2>1. e \in In(brokerOut)
    BY DEF Open
  <2>2. LET new == [k \in DOMAIN brokerOut |->
                      IF brokerOut[k].id = e.id
                        THEN [brokerOut[k] EXCEPT !.released = TRUE] ELSE brokerOut[k]]
        IN /\ In(new) = Others(In(brokerOut), e.id) \cup {Released(e)} /\ Distinct(new)
           /\ Released(e).id = e.id /\ Released(e).msg = e.msg /\ Released(e).released
    BY ONLY <1>0, <2>1, ReleasedIn
  <2> QED
    BY <1>2, <1>6, <1>7, <2>2 DEF Open
<1>9. \A g \in Open : g.id = id => g = e
  BY <1>6, InFacts
<1> HIDE DEF id
<1>10. Single(toDevice', toBroker', Senders, Receivers)
  <2>1. packet.id = Head(toBroker).id /\ Head(toBroker).type \in Receivers
    BY <1>1, <1>2, <1>4 DEF id
  <2>2. Single(toDevice, toBroker, Senders, Receivers)
    BY DEF InInv
  <2>3. Single(Append(toDevice, packet), Tail(toBroker), Senders, Receivers)
    BY ONLY <1>0, <2>1, <2>2, SingleAnswered, packet \in Packets
  <2> QED
    BY <1>0, <1>2, <1>4, <2>3
<1>11. InStep(id, {x}, {f}, {}, {packet})
  <2>1. Incoming' = {y \in Incoming : y.packetId # id} \cup {x}
    <3>1. \A y \in Incoming : y.packetId = id => y = x
      BY <1>5, InFacts
    <3> QED
      BY <1>0, <1>5, <3>1 DEF Incoming
  <2>2. EntryFits(f)'
    <3>1. EntryFits(e)
      BY DEF InInv, InOpen
    <3> QED
      BY <1>0, <1>6, <1>8, <3>1 DEF EntryFits
  <2>3. \A q \in Of(toBroker', Receivers) : q \in Of(toBroker, Receivers) /\ q.id # id
    BY <1>0, <1>3 DEF Speaking
  <2>4. \A q \in Of(toDevice', Senders) : q = packet \/ (q \in Of(toDevice, Senders) /\ q.id # id)
    <3>1. Of(toDevice', Senders) \subseteq Of(toDevice, Senders) \cup {packet}
      BY <1>0, <1>2, <1>4, Written
    <3> QED
      BY <1>3, <3>1 DEF Speaking
  <2>5. PushFits(packet)'
    <3>1. Record(packet.id, 2, "PubRelPending") \in Incoming'
      BY <1>4, <1>5, <2>1
    <3>2. f \in Open'
      BY <1>8
    <3> QED
      BY <1>4, <1>8, <3>1, <3>2 DEF PushFits
  <2>6. RecordFits(x)'
    <3>1. f \in Open'
      BY <1>8
    <3> QED
      BY <1>0, <1>5, <1>6, <1>8, <3>1 DEF RecordFits
  <2> QED
    BY <1>0, <1>5, <1>6, <1>8, <1>9, <2>1, <2>2, <2>3, <2>4, <2>5, <2>6 DEF InStep
<1>12. /\ \A g \in Open' : EntryFits(g)'
       /\ \A y \in Incoming' : RecordFits(y)'
       /\ InSent' /\ InAnswered' /\ InHanded' /\ InKept'
  BY <1>2, <1>11, InTurn
<1>13. \A g, h \in Open' : g.msg.n = h.msg.n => g = h
  <2>1. \A g \in Open' : g = f \/ (g \in Open /\ g # e)
    BY <1>6, <1>8 DEF Others
  <2>2. \A g, h \in Open : g.msg.n = h.msg.n => g = h
    BY DEF InInv, InOpen
  <2> QED
    BY <1>8, <2>1, <2>2
<1>14. Unique(records.incoming)'
  BY <1>0, InFacts
<1> QED
  BY <1>0, <1>8, <1>10, <1>12, <1>13, <1>14, InNoneTwice DEF InInv, InOpen, InStates

\* A PUBACK or PUBCOMP: the publish is done, and nothing is left of it.
LEMMA InDone ==
  ASSUME RecordsInv, InInv, BrokerReceive, Head(toBroker).type \in {"PUBACK", "PUBCOMP"}
  PROVE  InInv'
<1>0. /\ toBroker \in Seq(Packets) /\ toDevice \in Seq(Packets) /\ toBroker # <<>>
      /\ brokerOut \in Seq(Unfinished) /\ Distinct(brokerOut)
      /\ toBroker' = Tail(toBroker) /\ UNCHANGED <<records, handed, pushed, load, toDevice>>
  BY InFacts DEF RecordsInv, WireType, BrokerReceive, deviceVars
<1>1. PICK p \in Packets : p = Head(toBroker)
  BY <1>0, PacketsType
<1> DEFINE id == p.id
<1>2. /\ id \in Ids /\ p.type \in {"PUBACK", "PUBCOMP"} /\ p.type \in Receivers
      /\ brokerOut' = Without(brokerOut, id)
  BY <1>1 DEF BrokerReceive, Packets, Receivers
<1>3. /\ p \in Of(toBroker, Receivers) /\ ReplyFits(p)
      /\ id \notin Speaking(Tail(toBroker), Receivers) /\ id \notin Speaking(toDevice, Senders)
      /\ Fewer(Tail(toBroker), toBroker, Receivers)
  <2>1. /\ p \in Of(toBroker, Receivers) /\ id \in Speaking(toBroker, Receivers)
        /\ Fewer(Tail(toBroker), toBroker, Receivers)
        /\ id \notin Speaking(Tail(toBroker), Receivers)
    BY <1>0, <1>1, <1>2, Read DEF InInv, Single
  <2> QED
    BY <2>1 DEF InInv, InAnswered, Single
<1>4. Open' = Others(Open, id) \cup {} /\ Distinct(brokerOut')
  BY <1>0, <1>2, WithoutIn DEF Open
<1>5. /\ \A x \in Incoming : x.packetId # id
      /\ \E e \in Open : e.id = id /\ e.msg \in In(handed)
  <2>1. \A e \in Open : EntryFits(e)
    BY DEF InInv, InOpen
  <2> QED
    BY <1>2, <1>3, <2>1 DEF ReplyFits, EntryFits
<1>6. \A e \in Open : e.id = id => e.msg \in In(handed)
  BY <1>5, InFacts
<1>7. Single(toDevice', toBroker', Senders, Receivers)
  <2>1. Fewer(toDevice, toDevice, Senders)
    BY <1>0, FewerIn
  <2> QED
    BY <1>0, <1>3, <2>1, SingleFewer DEF InInv
<1> HIDE DEF id
<1>8. InStep(id, {}, {}, {}, {})
  <2>1. Incoming' = {x \in Incoming : x.packetId # id} \cup {}
    BY <1>0, <1>5 DEF Incoming
  <2>2. /\ \A q \in Of(toBroker', Receivers) : q \in Of(toBroker, Receivers) /\ q.id # id
        /\ \A q \in Of(toDevice', Senders) : q \in Of(toDevice, Senders) /\ q.id # id
    BY <1>0, <1>3 DEF Speaking, Fewer
  <2> QED
    BY <1>0, <1>4, <1>6, <2>1, <2>2 DEF InStep
<1>9. /\ \A e \in Open' : EntryFits(e)'
      /\ \A x \in Incoming' : RecordFits(x)'
      /\ InSent' /\ InAnswered' /\ InHanded' /\ InKept'
  BY <1>2, <1>8, InTurn
<1>10. \A e, f \in Open' : e.msg.n = f.msg.n => e = f
  BY <1>4 DEF Others, InInv, InOpen
<1>11. Unique(records.incoming)'
  BY <1>0, InFacts
<1> QED
  BY <1>0, <1>4, <1>7, <1>9, <1>10, <1>11, InNoneTwice DEF InInv, InOpen, InStates

\* The acknowledgement of a publish of the broker, when its record asks for it:
\* sent, the record moves on or is done; not sent, it stays.
LEMMA AckOfRecord ==
  ASSUME NEW recs \in RecordsType, Unique(recs.outgoing), Unique(recs.incoming),
         NEW x \in InUse(recs.incoming), NEW state, NEW new,
         \/ /\ state = "PubAckSend" /\ new = "PublishDone"
            /\ x.qos = 1 /\ x.publishState = "PubAckSend"
         \/ /\ state = "PubRecSend" /\ new = "PubRelPending"
            /\ x.qos = 2 /\ x.publishState \in {"PubRecSend", "PubRelPending"}
         \/ /\ state = "PubCompSend" /\ new = "PublishDone"
            /\ x.qos = 2 /\ x.publishState = "PubCompSend",
         SendPublishAck(recs, x.packetId, state)
  PROVE  /\ status' \notin Invalid
         /\ \/ /\ SendOk(Ack(AckTypeToSend(state), x.packetId))
               /\ Unique(records'.incoming)
               /\ InUse(records'.incoming) = (InUse(recs.incoming) \ {x}) \cup After(x, new)
            \/ SendFails /\ records' = recs
<1> DEFINE type == AckTypeToSend(state)
           u == UpdateStateAck(recs, x.packetId, type, "send")
<1>1. /\ type \in {"PUBACK", "PUBREC", "PUBCOMP"} /\ type # "none" /\ type \in Acks
      /\ new = CalculateStateAck(type, "send", x.qos) /\ x.qos \in {1, 2}
      /\ <<x.publishState, new>> \in AckTransitions
      /\ "incoming" = DirectionOf(type, "send") /\ "send" \in {"send", "receive"}
  BY DEF AckTypeToSend, Acks, CalculateStateAck, AckTransitions, DirectionOf
<1>2. \/ SendOk(Ack(type, x.packetId)) /\ records' = u.records /\ Finish(u.status)
      \/ SendFails /\ records' = recs /\ Finish("SendFailed")
  BY <1>1 DEF SendPublishAck
<1> HIDE DEF type
<1>3. /\ u.status = "Success"
      /\ \E a \in Array :
           /\ u.records = [recs EXCEPT !["incoming"] = a] /\ Unique(a)
           /\ InUse(a) = (InUse(recs["incoming"]) \ {x}) \cup After(x, new)
  <2>1. Unique(recs["incoming"]) /\ x \in InUse(recs["incoming"])
    OBVIOUS
  <2>2. MovesOn(u, recs, "incoming", x, new)
    BY <1>1, <2>1, AckInUse
  <2> QED
    BY <2>2 DEF MovesOn
<1>4. /\ Unique(u.records.incoming)
      /\ InUse(u.records.incoming) = (InUse(recs.incoming) \ {x}) \cup After(x, new)
  <2> HIDE DEF u
  <2> QED
    BY <1>3 DEF RecordsType
<1> HIDE DEF u
<1> QED
  BY <1>2, <1>3, <1>4 DEF Finish, Invalid, type

\* What remains of a packet read and one answered, by identifier.
LEMMA InAnswer ==
  ASSUME RecordsInv, InInv, toDevice # <<>>, toDevice' = Tail(toDevice),
         Head(toDevice).type \in Senders, NEW packet \in Packets, packet.id = Head(toDevice).id,
         SendOk(packet) \/ UNCHANGED toBroker
  PROVE  /\ Single(toDevice', toBroker', Senders, Receivers)
         /\ PushFits(Head(toDevice))
         /\ \A q \in Of(toDevice', Senders) : q \in Of(toDevice, Senders) /\ q.id # packet.id
         /\ \A q \in Of(toBroker', Receivers) :
              \/ q = packet /\ SendOk(packet)
              \/ q \in Of(toBroker, Receivers) /\ q.id # packet.id
<1>0. toBroker \in Seq(Packets) /\ toDevice \in Seq(Packets)
  BY DEF RecordsInv, WireType
<1>1. /\ Head(toDevice) \in Of(toDevice, Senders) /\ packet.id \in Speaking(toDevice, Senders)
      /\ Fewer(Tail(toDevice), toDevice, Senders)
      /\ packet.id \notin Speaking(Tail(toDevice), Senders)
  BY <1>0, Read DEF InInv, Single
<1>2. packet.id \notin Speaking(toBroker, Receivers)
  BY <1>1 DEF InInv, Single
<1>3. PushFits(Head(toDevice))
  BY <1>1 DEF InInv, InSent
<1>4. \A q \in Of(toDevice', Senders) : q \in Of(toDevice, Senders) /\ q.id # packet.id
  BY <1>1 DEF Fewer, Speaking
<1>5. \A q \in Of(toBroker, Receivers) : q.id # packet.id
  BY <1>2 DEF Speaking
<1>6. Single(toBroker, toDevice, Receivers, Senders)
  BY SingleTurned DEF InInv
<1>7. CASE toBroker' = toBroker
  <2>1. Fewer(toBroker, toBroker, Receivers)
    BY <1>0, FewerIn
  <2>2. Single(toDevice', toBroker', Senders, Receivers)
    BY <1>1, <1>7, <2>1, SingleFewer DEF InInv
  <2> QED
    BY <1>3, <1>4, <1>5, <1>7, <2>2
<1>8. CASE toBroker' = Append(toBroker, packet) /\ SendOk(packet)
  <2>1. Of(toBroker', Receivers) \subseteq Of(toBroker, Receivers) \cup {packet}
    BY <1>0, <1>8, Written
  <2>2. Single(Append(toBroker, packet), Tail(toDevice), Receivers, Senders)
    BY <1>0, <1>6, SingleAnswered
  <2>3. Single(toDevice', toBroker', Senders, Receivers)
    BY <1>8, <2>2, SingleTurned
  <2> QED
    BY <1>3, <1>4, <1>5, <1>8, <2>1, <2>3
<1> QED
  BY <1>7, <1>8 DEF SendOk

\* A PUBLISH: a new message is handed over and gets a record; of one whose
\* record is there, the record says how far it has come.
LEMMA InReceives ==
  ASSUME RecordsInv, InInv, ReceivePublish
  PROVE  InInv' /\ status' \notin Invalid
<1>0. /\ records \in RecordsType /\ Unique(records.outgoing)
      /\ records.incoming \in Array /\ Unique(records.incoming)
      /\ toBroker \in Seq(Packets) /\ toDevice \in Seq(Packets) /\ toDevice # <<>>
      /\ toDevice' = Tail(toDevice) /\ UNCHANGED <<brokerOut, pushed, load>>
      /\ handed \in Seq(Messages) /\ \A f, g \in Open : f.id = g.id => f = g
  BY OutFacts, InFacts DEF RecordsInv, DeviceType, WireType, ReceivePublish, brokerVars
<1>1. PICK p \in Packets : p = Head(toDevice)
  BY <1>0, PacketsType
<1>2. PICK id \in Ids, msg \in Messages, qos \in {0, 1, 2}, state \in PublishStates :
        /\ id = p.id /\ msg = p.msg /\ qos = msg.qos
        /\ state = CalculateStatePublish("receive", qos)
  <2>1. p.id \in Ids /\ p.msg \in Messages /\ p.msg.qos \in {0, 1, 2}
    BY DEF Packets, Messages, QoSLevels
  <2>2. CalculateStatePublish("receive", p.msg.qos) \in PublishStates
    BY DEF CalculateStatePublish, PublishStates
  <2> QED
    BY <2>1, <2>2
<1>3. /\ p.type = "PUBLISH" /\ p.type \in Senders /\ PushFits(p)
  <2>1. p.type = "PUBLISH"
    BY <1>1 DEF ReceivePublish
  <2>2. p \in Of(toDevice, Senders)
    BY <1>0, <1>1, <2>1, Read DEF Senders
  <2> QED
    BY <2>1, <2>2 DEF InInv, InSent, Senders
<1>4. PICK e \in Open : e.id = id /\ e.msg = msg /\ ~e.released
  BY <1>2, <1>3 DEF PushFits
<1>5. EntryFits(e) /\ qos \in {1, 2}
  BY <1>2, <1>4 DEF InInv, InOpen, EntryFits
<1>6. PICK a : a = AddRecord(records.incoming, id, qos, state)
  OBVIOUS
<1>7. /\ a.array \in Array /\ Unique(a.array)
      /\ \/ /\ a.status = "Success" /\ ~Has(records.incoming, id)
            /\ InUse(a.array) = Incoming \cup {Record(id, qos, state)}
         \/ /\ a.status = "StateCollision" /\ Has(records.incoming, id)
            /\ InUse(a.array) = Incoming
         \/ a.status = "NoMemory" /\ InUse(a.array) = Incoming
  <2>1. state \in PublishStates /\ qos \in 0 .. 2
    BY <1>2, <1>5 DEF CalculateStatePublish, PublishStates
  <2>2. LET b == AddRecord(records.incoming, id, qos, state)
        IN /\ b.array \in Array /\ Unique(b.array)
           /\ \/ /\ b.status = "Success" /\ ~Has(records.incoming, id)
                 /\ InUse(b.array) = InUse(records.incoming) \cup {Record(id, qos, state)}
              \/ /\ b.status = "StateCollision" /\ Has(records.incoming, id)
                 /\ InUse(b.array) = InUse(records.incoming)
              \/ b.status = "NoMemory" /\ InUse(b.array) = InUse(records.incoming)
    BY ONLY <1>0, <2>1, id \in Ids, AddInUse
  <2> QED
    BY ONLY <1>6, <2>2 DEF Incoming
<1>8. PICK recs \in RecordsType : /\ recs = [records EXCEPT !.incoming = a.array]
                                 /\ recs.incoming = a.array /\ recs.outgoing = records.outgoing
  <2>1. [records EXCEPT !.incoming = a.array] \in RecordsType
    BY <1>0, <1>7 DEF RecordsType
  <2> QED
    BY <1>0, <2>1 DEF RecordsType
<1>9. \/ /\ a.status \in {"Success", "StateCollision"}
         /\ handed' = IF a.status = "Success" THEN Append(handed, msg) ELSE handed
         /\ SendPublishAck(recs, id, state)
      \/ /\ a.status = "NoMemory"
         /\ records' = recs /\ Finish(a.status) /\ UNCHANGED <<handed, toBroker>>
  <2>1. ReceivedPublish(records, p.id, p.msg.qos) = [status |-> a.status, records |-> recs]
    BY <1>2, <1>6, <1>8 DEF ReceivedPublish
  <2> QED
    BY <1>1, <1>2, <2>1 DEF ReceivePublish, IsNew
<1>10. CASE a.status = "NoMemory"
  <2>1. records' = recs /\ status' = "NoMemory" /\ UNCHANGED <<handed, toBroker>>
    BY <1>9, <1>10 DEF Finish
  <2>2. Incoming' = Incoming /\ Unique(records.incoming)'
    BY <1>7, <1>8, <1>10, <2>1 DEF Incoming
  <2>3. Fewer(toBroker', toBroker, Receivers) /\ Fewer(toDevice', toDevice, Senders)
    <3>1. Fewer(toBroker, toBroker, Receivers) /\ Fewer(Tail(toDevice), toDevice, Senders)
      BY <1>0, FewerIn, Read
    <3> QED
      BY <1>0, <2>1, <3>1
  <2>4. InInv'
    BY <1>0, <2>1, <2>2, <2>3, InQuiet
  <2> QED
    BY <2>1, <2>4 DEF Invalid
<1>11. CASE a.status \in {"Success", "StateCollision"}
  <2>1. /\ handed' = IF a.status = "Success" THEN Append(handed, msg) ELSE handed
        /\ SendPublishAck(recs, id, state)
    BY <1>9, <1>11
  <2>2. PICK x \in InUse(recs.incoming) :
          /\ x.packetId = id /\ x.qos = qos
          /\ x.publishState \in IF qos = 1 THEN {"PubAckSend"} ELSE {"PubRecSend", "PubRelPending"}
          /\ InUse(recs.incoming) \ {x} = {y \in Incoming : y.packetId # id}
          /\ a.status = "StateCollision" => x \in Incoming /\ msg \in In(handed)
    <3>1. CASE a.status = "Success"
      <4>1. /\ Record(id, qos, state).packetId = id /\ Record(id, qos, state).qos = qos
            /\ Record(id, qos, state).publishState = state
            /\ state = IF qos = 1 THEN "PubAckSend" ELSE "PubRecSend"
        BY <1>2 DEF Record, CalculateStatePublish
      <4>2. \A y \in Incoming : y.packetId # id
        BY <1>0, <1>7, <3>1, InUseFacts DEF Incoming
      <4>3. InUse(recs.incoming) = Incoming \cup {Record(id, qos, state)}
        BY <1>7, <1>8, <3>1
      <4>4. InUse(recs.incoming) \ {Record(id, qos, state)} = {y \in Incoming : y.packetId # id}
        BY <4>1, <4>2, <4>3
      <4> QED
        BY <1>5, <3>1, <4>1, <4>3, <4>4
    <3>2. CASE a.status = "StateCollision"
      <4>1. PICK x \in Incoming : x.packetId = id
        BY <1>0, <1>7, <3>2, InUseFacts DEF Incoming
      <4>2. PICK f \in Open :
              /\ f.id = x.packetId /\ f.msg.qos = x.qos /\ f.msg \in In(handed)
              /\ \/ x.publishState = "PubAckSend" /\ x.qos = 1
                 \/ x.publishState \in {"PubRecSend", "PubRelPending"} /\ x.qos = 2
                 \/ x.publishState = "PubCompSend" /\ x.qos = 2 /\ f.released
        BY DEF InInv, InStates, RecordFits
      <4>3. f = e
        BY <1>0, <1>4, <4>1, <4>2
      <4>4. \A y \in Incoming : y.packetId = id => y = x
        BY <4>1, InFacts
      <4>5. InUse(recs.incoming) = Incoming
        BY <1>7, <1>8, <3>2
      <4> QED
        BY <1>2, <1>4, <4>1, <4>2, <4>3, <4>4, <4>5
    <3> QED
      BY <1>11, <3>1, <3>2
  <2>3. PICK new : new = IF qos = 1 THEN "PublishDone" ELSE "PubRelPending"
    OBVIOUS
  <2>4. PICK packet \in Packets : /\ packet = Ack(AckTypeToSend(state), id) /\ packet.id = id
                                 /\ packet.type = IF qos = 1 THEN "PUBACK" ELSE "PUBREC"
    <3>1. AckTypeToSend(state) = IF qos = 1 THEN "PUBACK" ELSE "PUBREC"
      BY <1>2 DEF AckTypeToSend, CalculateStatePublish
    <3>2. Ack(AckTypeToSend(state), id) \in Packets
      BY <3>1 DEF Ack, Packets, Acks, NoMessage, Messages
    <3> QED
      BY <3>1, <3>2 DEF Ack
  <2>5. /\ status' \notin Invalid
        /\ \/ /\ SendOk(packet) /\ Unique(records'.incoming)
              /\ InUse(records'.incoming) = (InUse(recs.incoming) \ {x}) \cup After(x, new)
           \/ SendFails /\ records' = recs
    <3>1. \/ /\ state = "PubAckSend" /\ new = "PublishDone"
             /\ x.qos = 1 /\ x.publishState = "PubAckSend"
          \/ /\ state = "PubRecSend" /\ new = "PubRelPending"
             /\ x.qos = 2 /\ x.publishState \in {"PubRecSend", "PubRelPending"}
      BY <1>2, <1>5, <2>2, <2>3 DEF CalculateStatePublish
    <3>2. Unique(recs.outgoing) /\ Unique(recs.incoming) /\ SendPublishAck(recs, x.packetId, state)
      BY <1>0, <1>7, <1>8, <2>1, <2>2
    <3>3. /\ status' \notin Invalid
          /\ \/ /\ SendOk(Ack(AckTypeToSend(state), x.packetId)) /\ Unique(records'.incoming)
                /\ InUse(records'.incoming) = (InUse(recs.incoming) \ {x}) \cup After(x, new)
             \/ SendFails /\ records' = recs
      BY ONLY <3>1, <3>2, recs \in RecordsType, x \in InUse(recs.incoming), AckOfRecord
    <3> QED
      BY <2>2, <2>4, <3>3
  <2>6. In(handed') = In(handed) \cup {msg} /\ ExactlyOnceIn'
    <3>1. CASE a.status = "Success"
      <4>1. handed' = Append(handed, msg)
        BY <2>1, <3>1
      <4>2. qos = 1 \/ msg \notin In(handed)
        <5>1. \A y \in Incoming : y.packetId # id
          BY <1>0, <1>7, <3>1, InUseFacts DEF Incoming
        <5> QED
          BY <1>2, <1>4, <1>5, <5>1 DEF EntryFits
      <4>3. In(Append(handed, msg)) = In(handed) \cup {msg}
        BY <1>0, AppendedIn
      <4>4. \A m \in Twice(Append(handed, msg)) : m.qos = 1
        BY <1>0, <1>2, <4>2, AppendedTwice DEF InInv, ExactlyOnceIn
      <4> QED
        BY <4>1, <4>3, <4>4 DEF ExactlyOnceIn
    <3>2. CASE a.status = "StateCollision"
      <4>1. handed' = handed /\ msg \in In(handed)
        BY <2>1, <2>2, <3>2
      <4> QED
        BY <4>1, InNoneTwice
    <3> QED
      BY <1>11, <3>1, <3>2
  <2>7. Open' = Open /\ Open' = Others(Open, id) \cup {e}
    <3>1. Open' = Open
      BY <1>0 DEF Open
    <3> QED
      BY <1>0, <1>4, <3>1 DEF Others
  <2>8. /\ Single(toDevice', toBroker', Senders, Receivers)
        /\ \A q \in Of(toDevice', Senders) : q \in Of(toDevice, Senders) /\ q.id # id
        /\ \A q \in Of(toBroker', Receivers) :
             \/ q = packet /\ SendOk(packet)
             \/ q \in Of(toBroker, Receivers) /\ q.id # id
    <3>1. SendOk(packet) \/ UNCHANGED toBroker
      BY <2>5 DEF SendFails
    <3>2. Head(toDevice).type \in Senders /\ packet.id = Head(toDevice).id
      BY <1>1, <1>2, <1>3, <2>4
    <3> QED
      BY <1>0, <2>4, <3>1, <3>2, InAnswer
  <2>9. PICK next, up :
          /\ Incoming' = {y \in Incoming : y.packetId # id} \cup next
          /\ Unique(records.incoming)'
          /\ \A q \in Of(toBroker', Receivers) :
               q \in up \/ (q \in Of(toBroker, Receivers) /\ q.id # id)
          /\ \A y \in next : /\ y.packetId = id /\ y.qos = qos
                            /\ y.publishState \in IF qos = 1 THEN {"PubAckSend"}
                                                             ELSE {"PubRecSend", "PubRelPending"}
          /\ qos = 2 => next # {}
          /\ up \subseteq {packet}
          /\ up # {} => next = IF qos = 1 THEN {} ELSE {Record(id, 2, "PubRelPending")}
    <3>1. CASE SendFails /\ records' = recs
      <4>1. Incoming' = {y \in Incoming : y.packetId # id} \cup {x} /\ Unique(records.incoming)'
        BY <1>7, <1>8, <2>2, <3>1 DEF Incoming
      <4>2. \A q \in Of(toBroker', Receivers) : q \in Of(toBroker, Receivers) /\ q.id # id
        <5>1. toBroker' = toBroker
          BY <3>1 DEF SendFails
        <5>2. id \in Speaking(toDevice, Senders)
          BY <1>0, <1>1, <1>2, <1>3, Read
        <5> QED
          BY <5>1, <5>2 DEF InInv, Single, Speaking
      <4> WITNESS {x}, {}
      <4> QED
        BY <2>2, <4>1, <4>2
    <3>2. CASE /\ SendOk(packet) /\ Unique(records'.incoming)
               /\ InUse(records'.incoming) = (InUse(recs.incoming) \ {x}) \cup After(x, new)
      <4>1. After(x, new) = IF qos = 1 THEN {} ELSE {Record(id, 2, "PubRelPending")}
        BY <1>5, <2>2, <2>3 DEF After
      <4>2. Incoming' = {y \in Incoming : y.packetId # id} \cup After(x, new)
        BY <2>2, <3>2 DEF Incoming
      <4>3. \A y \in After(x, new) : y.packetId = id /\ y.qos = qos /\ y.publishState = "PubRelPending" /\ qos = 2
        BY <1>5, <4>1 DEF Record
      <4>4. qos = 2 => After(x, new) # {}
        BY <4>1
      <4> WITNESS After(x, new), {packet}
      <4> QED
        BY <2>8, <3>2, <4>1, <4>2, <4>3, <4>4
    <3> QED
      BY <2>5, <3>1, <3>2
  <2>10. InStep(id, next, {e}, up, {})
    <3>1. e \in Open' /\ e.msg \in In(handed') /\ msg = e.msg
      BY <1>4, <2>6, <2>7
    <3>2. EntryFits(e)'
      <4>1. qos = 2 => \E y \in Incoming' : y.packetId = id
        BY <2>9
      <4> QED
        BY <1>0, <1>2, <1>4, <1>5, <4>1 DEF EntryFits
    <3>3. \A y \in next : RecordFits(y)'
      BY <1>2, <1>4, <1>5, <2>9, <3>1 DEF RecordFits
    <3>4. \A q \in up : ReplyFits(q)'
      <4> SUFFICES ASSUME packet \in up PROVE ReplyFits(packet)'
        BY <2>9
      <4>1. CASE qos = 1
        <5>1. packet.type = "PUBACK" /\ packet.id = id /\ \A y \in Incoming' : y.packetId # id
          BY <2>4, <2>9, <4>1
        <5> QED
          BY <1>2, <1>4, <3>1, <4>1, <5>1 DEF ReplyFits
      <4>2. CASE qos = 2
        <5>1. packet.type = "PUBREC" /\ packet.id = id /\ Record(id, 2, "PubRelPending") \in Incoming'
          BY <2>4, <2>9, <4>2
        <5> QED
          BY <5>1 DEF ReplyFits
      <4> QED
        BY <1>5, <4>1, <4>2
    <3> QED
      BY <1>0, <1>4, <2>6, <2>7, <2>8, <2>9, <3>1, <3>2, <3>3, <3>4 DEF InStep
  <2>11. /\ \A f \in Open' : EntryFits(f)'
         /\ \A y \in Incoming' : RecordFits(y)'
         /\ InSent' /\ InAnswered' /\ InHanded' /\ InKept'
    BY <2>10, InTurn
  <2>12. InOpen'
    <3>1. Distinct(brokerOut') /\ \A f, g \in Open' : f.msg.n = g.msg.n => f = g
      BY <1>0, <2>7 DEF InInv, InOpen
    <3> QED
      BY <2>11, <3>1 DEF InOpen
  <2> QED
    BY <2>5, <2>6, <2>8, <2>9, <2>11, <2>12 DEF InInv, InStates
<1> QED
  BY <1>9, <1>10, <1>11

\* A PUBREL: its record moves on and is done once the PUBCOMP is sent.  Only in
\* a session that is kept may it be refused: a PUBREL repeated finds no record.
LEMMA InReleases ==
  ASSUME RecordsInv, InInv, ReceiveAck, Head(toDevice).type \in Senders
  PROVE  InInv' /\ (~load.keep => status' \notin Invalid)
<1>0. /\ records \in RecordsType /\ Unique(records.outgoing)
      /\ records.incoming \in Array /\ Unique(records.incoming)
      /\ toBroker \in Seq(Packets) /\ toDevice \in Seq(Packets) /\ toDevice # <<>>
      /\ toDevice' = Tail(toDevice) /\ UNCHANGED <<brokerOut, pushed, load, handed>>
      /\ \A f, g \in Open : f.id = g.id => f = g
  BY OutFacts, InFacts DEF RecordsInv, DeviceType, WireType, ReceiveAck, brokerVars
<1>1. PICK p \in Packets : p = Head(toDevice)
  BY <1>0, PacketsType
<1>2. PICK id \in Ids : id = p.id
  BY DEF Packets
<1>3. p.type = "PUBREL" /\ p.type \in Senders /\ PushFits(p)
  <2>1. p.type = "PUBREL"
    BY <1>1 DEF ReceiveAck, Senders, Acks
  <2>2. p \in Of(toDevice, Senders)
    BY <1>0, <1>1, <2>1, Read DEF Senders
  <2> QED
    BY <2>1, <2>2 DEF InInv, InSent, Senders
<1>4. PICK e \in Open : e.id = id /\ e.released
  BY <1>2, <1>3 DEF PushFits
<1>5. e.msg.qos = 2 /\ e.msg \in In(handed) /\ EntryFits(e)
  BY <1>4 DEF InInv, InOpen, EntryFits
<1>6. PICK u : u = UpdateStateAck(records, id, "PUBREL", "receive")
  OBVIOUS
<1>7. \/ u.status = "Success" /\ SendPublishAck(u.records, id, u.state)
      \/ u.status # "Success" /\ records' = u.records /\ Finish(u.status) /\ UNCHANGED toBroker
  BY <1>1, <1>2, <1>3, <1>6 DEF ReceiveAck
<1>8. \A x \in Incoming : x.packetId = id =>
        x.qos = 2 /\ x.publishState \in {"PubRecSend", "PubRelPending", "PubCompSend"}
  <2> SUFFICES ASSUME NEW x \in Incoming, x.packetId = id
               PROVE  /\ x.qos = 2
                      /\ x.publishState \in {"PubRecSend", "PubRelPending", "PubCompSend"}
    OBVIOUS
  <2>1. PICK f \in Open :
          /\ f.id = x.packetId /\ f.msg.qos = x.qos
          /\ \/ x.publishState = "PubAckSend" /\ x.qos = 1
             \/ x.publishState \in {"PubRecSend", "PubRelPending"} /\ x.qos = 2
             \/ x.publishState = "PubCompSend" /\ x.qos = 2 /\ f.released
    BY DEF InInv, InStates, RecordFits
  <2>2. f = e
    BY <1>0, <1>4, <2>1
  <2> QED
    BY <1>5, <2>1, <2>2
<1>9. "incoming" = DirectionOf("PUBREL", "receive") /\ "PUBREL" \in Acks
      /\ CalculateStateAck("PUBREL", "receive", 2) = "PubCompSend"
  BY DEF DirectionOf, Acks, CalculateStateAck
<1>10. CASE \A x \in Incoming : x.packetId = id => x.publishState = "PubRecSend"
  <2>1. u.status \in {"BadResponse", "IllegalState"} /\ u.records = records
    <3>1. CASE ~Has(records["incoming"], id)
      BY <1>6, <1>9, <3>1 DEF UpdateStateAck
    <3>2. CASE Has(records.incoming, id)
      <4>1. PICK x \in Incoming : x.packetId = id
        BY <1>0, <3>2, InUseFacts DEF Incoming
      <4>2. x.publishState = "PubRecSend" /\ x.qos = 2
        BY <1>8, <1>10, <4>1
      <4>3. records["incoming"][Find(records["incoming"], id)] = x
        BY <1>0, <4>1, FindInUse DEF Incoming
      <4>4. <<"PubRecSend", "PubCompSend">> \notin AckTransitions
        BY DEF AckTransitions
      <4> QED
        BY <1>6, <1>9, <3>2, <4>2, <4>3, <4>4 DEF UpdateStateAck
    <3> QED
      BY <3>1, <3>2
  <2>2. load.keep
    <3>1. Record(p.id, 2, "PubRelPending").packetId = id
          /\ Record(p.id, 2, "PubRelPending").publishState = "PubRelPending"
      BY <1>2 DEF Record
    <3> QED
      BY <1>3, <1>10, <3>1 DEF PushFits
  <2>3. records' = records /\ toBroker' = toBroker
    BY <1>7, <2>1
  <2>4. Incoming' = Incoming /\ Unique(records.incoming)'
    BY <1>0, <2>3 DEF Incoming
  <2>5. Fewer(toBroker', toBroker, Receivers) /\ Fewer(toDevice', toDevice, Senders)
    <3>1. Fewer(toBroker, toBroker, Receivers) /\ Fewer(Tail(toDevice), toDevice, Senders)
      BY <1>0, FewerIn, Read
    <3> QED
      BY <1>0, <2>3, <3>1
  <2> QED
    BY <1>0, <2>2, <2>4, <2>5, InQuiet
<1>11. CASE \E x \in Incoming : x.packetId = id /\ x.publishState # "PubRecSend"
  <2>1. PICK x \in Incoming : x.packetId = id /\ x.publishState \in {"PubRelPending", "PubCompSend"}
    BY <1>8, <1>11
  <2>2. MovesOn(u, records, "incoming", x, "PubCompSend")
    <3>1. x \in InUse(records["incoming"]) /\ Unique(records["incoming"]) /\ x.qos = 2
      BY <1>0, <1>8, <2>1 DEF Incoming
    <3>2. <<x.publishState, "PubCompSend">> \in AckTransitions /\ x.qos \in {1, 2}
          /\ "PubCompSend" = CalculateStateAck("PUBREL", "receive", x.qos)
          /\ "receive" \in {"send", "receive"}
      BY <1>9, <2>1, <3>1 DEF AckTransitions
    <3>3. MovesOn(UpdateStateAck(records, x.packetId, "PUBREL", "receive"),
                  records, "incoming", x, "PubCompSend")
      BY ONLY <1>0, <1>9, <3>1, <3>2, AckInUse
    <3> QED
      BY <1>6, <2>1, <3>3
  <2>3. PICK z : z = Record(id, 2, "PubCompSend")
    OBVIOUS
  <2>4. z.packetId = id /\ z.qos = 2 /\ z.publishState = "PubCompSend"
    BY <2>3 DEF Record
  <2>5. PICK recs \in RecordsType :
          /\ recs = u.records /\ Unique(recs.outgoing) /\ Unique(recs.incoming)
          /\ InUse(recs.incoming) = (Incoming \ {x}) \cup {z}
    <3>1. After(x, "PubCompSend") = {z}
      BY <1>8, <2>1, <2>3 DEF After
    <3>2. PICK a \in Array :
            /\ u.records = [records EXCEPT !["incoming"] = a] /\ Unique(a)
            /\ InUse(a) = (InUse(records["incoming"]) \ {x}) \cup After(x, "PubCompSend")
      BY <2>2 DEF MovesOn
    <3>3. /\ u.records \in RecordsType /\ u.records.incoming = a
          /\ u.records.outgoing = records.outgoing
      BY <1>0, <3>2 DEF RecordsType
    <3> QED
      BY <1>0, <3>1, <3>2, <3>3 DEF Incoming
  <2>6. SendPublishAck(recs, id, "PubCompSend")
    <3>1. u.status = "Success" /\ u.state = "PubCompSend"
      BY <2>2 DEF MovesOn
    <3> QED
      BY <1>7, <2>5, <3>1
  <2>7. PICK packet \in Packets : /\ packet = Ack(AckTypeToSend("PubCompSend"), id)
                                 /\ packet.id = id /\ packet.type = "PUBCOMP"
    <3>1. AckTypeToSend("PubCompSend") = "PUBCOMP"
      BY DEF AckTypeToSend
    <3>2. Ack("PUBCOMP", id) \in Packets
      BY DEF Ack, Packets, Acks, NoMessage, Messages
    <3> QED
      BY <3>1, <3>2 DEF Ack
  <2>8. Incoming \ {x} = {y \in Incoming : y.packetId # id}
    <3>1. \A y \in Incoming : y.packetId = id => y = x
      BY <2>1, InFacts
    <3> QED
      BY <2>1, <3>1
  <2>9. /\ status' \notin Invalid
        /\ \/ /\ SendOk(packet) /\ Unique(records'.incoming)
              /\ Incoming' = {y \in Incoming : y.packetId # id}
           \/ /\ SendFails /\ Unique(records'.incoming)
              /\ Incoming' = {y \in Incoming : y.packetId # id} \cup {z}
    <3>1. /\ z \in InUse(recs.incoming) /\ z.qos = 2 /\ z.publishState = "PubCompSend"
          /\ SendPublishAck(recs, z.packetId, "PubCompSend")
          /\ Unique(recs.outgoing) /\ Unique(recs.incoming)
      BY <2>4, <2>5, <2>6
    <3>2. /\ status' \notin Invalid
          /\ \/ /\ SendOk(Ack(AckTypeToSend("PubCompSend"), z.packetId))
                /\ Unique(records'.incoming)
                /\ InUse(records'.incoming)
                     = (InUse(recs.incoming) \ {z}) \cup After(z, "PublishDone")
             \/ SendFails /\ records' = recs
      BY ONLY <3>1, recs \in RecordsType, AckOfRecord
    <3>3. (InUse(recs.incoming) \ {z}) \cup After(z, "PublishDone")
            = {y \in Incoming : y.packetId # id}
      BY <2>4, <2>5, <2>8 DEF After
    <3> QED
      BY <2>4, <2>5, <2>7, <2>8, <3>2, <3>3 DEF Incoming
  <2>10. Open' = Open /\ Open' = Others(Open, id) \cup {e}
    <3>1. Open' = Open
      BY <1>0 DEF Open
    <3> QED
      BY <1>0, <1>4, <3>1 DEF Others
  <2>11. /\ Single(toDevice', toBroker', Senders, Receivers)
         /\ \A q \in Of(toDevice', Senders) : q \in Of(toDevice, Senders) /\ q.id # id
         /\ \A q \in Of(toBroker', Receivers) :
              \/ q = packet /\ SendOk(packet)
              \/ q \in Of(toBroker, Receivers) /\ q.id # id
    <3>1. SendOk(packet) \/ UNCHANGED toBroker
      BY <2>9 DEF SendFails
    <3>2. Head(toDevice).type \in Senders /\ packet.id = Head(toDevice).id
      BY <1>1, <1>2, <1>3, <2>7
    <3> QED
      BY <1>0, <2>7, <3>1, <3>2, InAnswer
  <2>12. PICK next, up :
          /\ Incoming' = {y \in Incoming : y.packetId # id} \cup next
          /\ \A q \in Of(toBroker', Receivers) :
               q \in up \/ (q \in Of(toBroker, Receivers) /\ q.id # id)
          /\ next \subseteq {z} /\ up \subseteq {packet} /\ (up # {} => next = {})
    <3>1. CASE SendFails /\ Incoming' = {y \in Incoming : y.packetId # id} \cup {z}
      <4>1. \A q \in Of(toBroker', Receivers) : q \in Of(toBroker, Receivers) /\ q.id # id
        <5>1. toBroker' = toBroker
          BY <3>1 DEF SendFails
        <5>2. id \in Speaking(toDevice, Senders)
          BY <1>0, <1>1, <1>2, <1>3, Read
        <5> QED
          BY <5>1, <5>2 DEF InInv, Single, Speaking
      <4> WITNESS {z}, {}
      <4> QED
        BY <3>1, <4>1
    <3>2. CASE Incoming' = {y \in Incoming : y.packetId # id}
      <4> WITNESS {}, {packet}
      <4> QED
        BY <2>11, <3>2
    <3> QED
      BY <2>9, <3>1, <3>2
  <2>13. InStep(id, next, {e}, up, {})
    <3>1. e \in Open' /\ e.msg \in In(handed')
      BY <1>0, <1>5, <2>10
    <3>2. EntryFits(e)'
      BY <1>0, <1>4, <1>5 DEF EntryFits
    <3>3. \A y \in next : y.packetId = id /\ RecordFits(y)'
      BY <1>4, <1>5, <2>4, <2>12, <3>1 DEF RecordFits
    <3>4. \A q \in up : ReplyFits(q)'
      <4> SUFFICES ASSUME packet \in up PROVE ReplyFits(packet)'
        BY <2>12
      <4>1. \A y \in Incoming' : y.packetId # packet.id
        BY <2>7, <2>12
      <4> QED
        BY <1>4, <2>7, <3>1, <4>1 DEF ReplyFits
    <3> QED
      BY <1>0, <1>4, <2>10, <2>11, <2>12, <3>1, <3>2, <3>3, <3>4 DEF InStep
  <2>14. /\ \A f \in Open' : EntryFits(f)'
         /\ \A y \in Incoming' : RecordFits(y)'
         /\ InSent' /\ InAnswered' /\ InHanded' /\ InKept'
    BY <2>13, InTurn
  <2>15. InOpen'
    <3>1. Distinct(brokerOut') /\ \A f, g \in Open' : f.msg.n = g.msg.n => f = g
      BY <1>0, <2>10 DEF InInv, InOpen
    <3> QED
      BY <2>14, <3>1 DEF InOpen
  <2>16. Unique(records.incoming)' /\ ExactlyOnceIn'
    BY <1>0, <2>9, InNoneTwice
  <2> QED
    BY <2>9, <2>11, <2>14, <2>15, <2>16 DEF InInv, InStates
<1> QED
  BY <1>10, <1>11

\* It holds before the first connection.
LEMMA InInit ==
  ASSUME Init
  PROVE  InInv
<1>1. /\ toBroker = <<>> /\ toDevice = <<>> /\ brokerOut = <<>> /\ pushed = 0 /\ handed = <<>>
      /\ records = NoRecords
  BY DEF Init
<1>2. Incoming = {} /\ Unique(records.incoming)
  BY <1>1 DEF Incoming, InUse, NoRecords, EmptyArray, Free, Unique
<1>3. In(toBroker) = {} /\ In(toDevice) = {} /\ In(handed) = {} /\ Open = {}
  BY <1>1 DEF In, Open
<1>4. Single(toDevice, toBroker, Senders, Receivers)
  BY <1>1, <1>3 DEF Single, Sole, Speaking, Of
<1>5. InOpen /\ InStates /\ InSent /\ InAnswered /\ InHanded /\ InKept
  BY <1>1, <1>2, <1>3 DEF InOpen, Distinct, InStates, InSent, InAnswered, InHanded, InKept, Of
<1>6. ExactlyOnceIn
  BY <1>1 DEF ExactlyOnceIn, Twice
<1> QED
  BY <1>4, <1>5, <1>6 DEF InInv

\* Every step keeps what holds of the broker's publishes.
LEMMA InNext ==
  ASSUME RecordsInv, Silent, InInv, [Next]_vars
  PROVE  InInv'
<1>1. CASE Connect
  BY <1>1, InConnects
<1>2. CASE ResumePubrel \/ Resend \/ \E qos \in QoSLevels : SendNew(qos)
  BY <1>2, InSends
<1>3. CASE ReceivePublish
  BY <1>3, InReceives
<1>4. CASE ReceiveAck
  <2>1. Head(toDevice).type \in Receivers \cup Senders
    BY <1>4 DEF ReceiveAck, Acks, Receivers, Senders
  <2> QED
    BY <1>4, <2>1, InSends, InReleases
<1>5. CASE NoticeLoss \/ HangUp \/ Break
  BY <1>5, InEnd
<1>6. CASE BrokerReceive
  <2>1. Head(toBroker).type \in Senders \cup {"PUBREC"} \cup {"PUBACK", "PUBCOMP"}
    BY <1>6 DEF BrokerReceive, Senders
  <2> QED
    BY <1>6, <2>1, InArrives, InReleased, InDone
<1>7. CASE BrokerPublish
  BY <1>7, InPushes
<1>8. CASE UNCHANGED vars
  <2>1. toBroker \in Seq(Packets) /\ toDevice \in Seq(Packets)
    BY DEF RecordsInv, WireType
  <2>2. Fewer(toBroker', toBroker, Receivers) /\ Fewer(toDevice', toDevice, Senders)
    BY <1>8, <2>1, FewerIn DEF vars, wireVars
  <2>3. UNCHANGED <<records, handed, brokerOut, pushed, load>>
    BY <1>8 DEF vars, deviceVars, brokerVars
  <2>4. Incoming' = Incoming /\ Unique(records.incoming)'
    BY <2>3, InFacts DEF Incoming
  <2> QED
    BY <2>2, <2>3, <2>4, InQuiet
<1> QED
  BY <1>1, <1>2, <1>3, <1>4, <1>5, <1>6, <1>7, <1>8 DEF Next, Device

\* The conversations about the broker's publishes are in order at any time.
THEOREM IncomingInvariant == Spec => [](RecordsInv /\ Silent /\ InInv)
<1>1. Init => Silent /\ InInv
  BY OutInit, InInit
<1>2. RecordsInv /\ RecordsInv' /\ Silent /\ InInv /\ [Next]_vars => Silent' /\ InInv'
  BY SilentKept, InNext
<1> QED
  BY <1>1, <1>2, RecordsInvariant, PTL DEF Spec

-----------------------------------------------------------------------------
(* What the two promise.                                                   *)

\* A QoS 2 publish is passed on once, whichever way it goes and however often
\* the connection breaks: of every load, every number of records and every
\* range of identifiers.
THEOREM PublishedExactlyOnce == Spec => []ExactlyOnce
<1>1. OutInv /\ InInv => ExactlyOnce
  BY DEF OutInv, InInv, ExactlyOnce
<1> QED
  BY <1>1, OutgoingInvariant, IncomingInvariant, PTL

\* The numbers of the messages of a sequence.
LEMMA NumbersIn ==
  ASSUME NEW seq, NEW m \in In(seq)
  PROVE  m.n \in Numbers(seq)
  BY DEF In, Numbers

\* What was accepted is on the other side, or still in a record or with the
\* broker, from where it is sent again.
LEMMA NothingLost ==
  ASSUME RecordsInv, OutInv, InInv
  PROVE  NothingForgotten
<1>1. NothingForgottenOut
  <2> SUFFICES ASSUME load.keep, NEW n \in 1 .. accepted
               PROVE  \/ n \in Numbers(delivered)
                      \/ \E i \in Slots :
                           LET r == records.outgoing[i]
                           IN /\ r.packetId # 0 /\ r.publishState \in UnackedPublish
                              /\ store[r.packetId].n = n
    BY DEF NothingForgottenOut
  <2>1. CASE \E m \in In(delivered) : m.n = n
    BY <2>1, NumbersIn
  <2>2. CASE \E x \in Outgoing : Unacked(x) /\ store[x.packetId].n = n
    <3>1. PICK x \in Outgoing : Unacked(x) /\ store[x.packetId].n = n
      BY <2>2
    <3>2. PICK i \in Slots : ~Free(records.outgoing, i) /\ records.outgoing[i] = x
      BY <3>1, InUseFacts DEF Outgoing, RecordsInv, DeviceType, RecordsType
    <3> QED
      BY <3>1, <3>2 DEF Free, Unacked
  <2> QED
    BY <2>1, <2>2 DEF OutInv, OutKept
<1>2. NothingForgottenIn
  <2> SUFFICES ASSUME load.keep, NEW n \in 1 .. pushed
               PROVE  \/ n \in Numbers(handed)
                      \/ \E k \in DOMAIN brokerOut :
                           brokerOut[k].msg.n = n /\ ~brokerOut[k].released
    BY DEF NothingForgottenIn
  <2>1. CASE \E m \in In(handed) : m.n = n
    BY <2>1, NumbersIn
  <2>2. CASE \E e \in Open : ~e.released /\ e.msg.n = n
    BY <2>2 DEF Open, In
  <2> QED
    BY <2>1, <2>2 DEF InInv, InKept
<1> QED
  BY <1>1, <1>2 DEF NothingForgotten

\* No message of a session that is kept is lost, whatever connections break.
THEOREM NothingIsForgotten == Spec => []NothingForgotten
  BY NothingLost, OutgoingInvariant, IncomingInvariant, PTL

\* Only a session that is kept is resumed; and no valid packet was refused.
Accepting == (pc \in {"resume", "resend"} => load.keep) /\ ValidPacketsAccepted

\* Every step keeps it: what the device reads of a clean session fits its
\* records.
LEMMA AcceptingNext ==
  ASSUME RecordsInv, OutInv, InInv, Accepting, [Next]_vars
  PROVE  Accepting'
<1>1. CASE Connect
  BY <1>1 DEF Connect, Accepting, ValidPacketsAccepted
<1>2. CASE ResumePubrel \/ Resend
  BY <1>2 DEF ResumePubrel, Resend, Accepting, ValidPacketsAccepted, brokerVars
<1>3. CASE \E qos \in QoSLevels : SendNew(qos)
  <2>1. status' \notin Invalid
    BY <1>3, OutSends
  <2>2. UNCHANGED <<pc, load>>
    BY <1>3 DEF SendNew, brokerVars
  <2> QED
    BY <2>1, <2>2 DEF Accepting, ValidPacketsAccepted, Invalid
<1>4. CASE ReceivePublish \/ ReceiveAck
  <2>1. ~load.keep => status' \notin Invalid
    <3>1. CASE ReceivePublish
      BY <3>1, InReceives
    <3>2. CASE ReceiveAck
      <4>1. Head(toDevice).type \in Receivers \cup Senders
        BY <3>2 DEF ReceiveAck, Acks, Receivers, Senders
      <4> QED
        BY <3>2, <4>1, OutAcked, InReleases
    <3> QED
      BY <1>4, <3>1, <3>2
  <2>2. pc' \in {"ready", "failed"} /\ load' = load
    BY <1>4 DEF ReceivePublish, ReceiveAck, SendPublishAck, Finish, brokerVars
  <2> QED
    BY <2>1, <2>2 DEF Accepting, ValidPacketsAccepted, Invalid
<1>5. CASE NoticeLoss \/ HangUp
  BY <1>5 DEF NoticeLoss, HangUp, Accepting, ValidPacketsAccepted, brokerVars
<1>6. CASE BrokerReceive \/ BrokerPublish \/ Break \/ UNCHANGED vars
  BY <1>6 DEF BrokerReceive, BrokerPublish, Break, Accepting, ValidPacketsAccepted,
     vars, deviceVars, brokerVars
<1> QED
  BY <1>1, <1>2, <1>3, <1>4, <1>5, <1>6 DEF Next, Device

\* On clean sessions the device takes every packet of a correct broker as
\* valid.
THEOREM ValidPacketsAreAccepted == Spec => []ValidPacketsAccepted
<1>1. Init => Accepting
  BY DEF Init, Accepting, ValidPacketsAccepted
<1>2. RecordsInv /\ OutInv /\ InInv /\ Accepting /\ [Next]_vars => Accepting'
  BY AcceptingNext
<1>3. Accepting => ValidPacketsAccepted
  BY DEF Accepting
<1> QED
  BY <1>1, <1>2, <1>3, OutgoingInvariant, IncomingInvariant, PTL DEF Spec
=============================================================================
