---------------------------- MODULE SdkCore_proofs ----------------------------
(***************************************************************************)
(* What tuyalink_core.c does with a message: the list of subscribers it is *)
(* given to, for every set of topics and callbacks, every policy of the    *)
(* callbacks and any number of registrations (no duplicates, and the list  *)
(* implements SubscribeContract); and its memory, for any heap and any     *)
(* amount of it that the user holds.                                       *)
(***************************************************************************)
EXTENDS SubscribeList, MessageParse, SequenceTheorems, WellFoundedInduction, TLAPS

-----------------------------------------------------------------------------
\* The bound on registrations is a number.
LEMMA Bounded == MaxRegistrations \in Nat
BY SubscribeAssumption, Zenon

Less == {ss \in Nat \X Nat : ss[1] < ss[2]}

\* A set of naturals has a least member.
LEMMA Least ==
  ASSUME NEW T, T \subseteq Nat, T # {}
  PROVE  \E m \in T : \A k \in T : m <= k
<1>1. IsWellFoundedOn(Less, Nat)
  BY NatLessThanWellFounded, Zenon DEF Less, OpToRel
<1>2. PICK m \in T : \A k \in T : ~ (<<k, m>> \in Less)
  BY <1>1, WFMin
<1>3. \A k \in T : ~ (k < m) /\ k \in Nat /\ m \in Nat
  BY <1>2 DEF Less
<1> QED
  BY <1>3

\* A bounded set of naturals has a greatest member.
LEMMA Greatest ==
  ASSUME NEW N \in Nat, NEW T, T \subseteq 0 .. N, T # {}
  PROVE  \E m \in T : \A k \in T : k <= m
<1> DEFINE U == {N - i : i \in T}
<1>1. U \subseteq Nat
  <2>1. \A i \in T : N - i \in Nat OBVIOUS
  <2> QED BY <2>1
<1>2. U # {}
  <2>1. PICK i \in T : TRUE OBVIOUS
  <2>2. N - i \in U BY <2>1
  <2> QED BY <2>2
<1>3. PICK u \in U : \A k \in U : u <= k
  <2> HIDE DEF U
  <2> QED BY <1>1, <1>2, Least
<1>4. PICK i \in T : u = N - i
  BY <1>3
<1>5. \A k \in T : k <= i
  <2>1. TAKE k \in T
  <2>2. u <= N - k BY <1>3
  <2> QED BY <2>2, <1>4
<1> QED BY <1>5

-----------------------------------------------------------------------------
(* The inductive invariant.                                                *)

\* An entry carries the number of its registration, and no other has it; the
\* walk is at an entry that was registered.
Numbered ==
  /\ \A e \in list : e.at <= count
  /\ \A e, f \in list : e.at = f.at => e = f
  /\ target <= count

ListInv == TypeOK /\ Numbered /\ NoDuplicates

\* NextBelow(n) is the largest number of the list below n, or 0.
LEMMA NextBelowMax ==
  ASSUME TypeOK, NEW n \in Nat
  PROVE  /\ Below(n) = {} => NextBelow(n) = 0
         /\ Below(n) # {} => NextBelow(n) \in Below(n) /\ \A j \in Below(n) : j <= NextBelow(n)
<1>1. Below(n) = {} => NextBelow(n) = 0
  BY DEF NextBelow
<1>2. ASSUME Below(n) # {}
      PROVE  NextBelow(n) \in Below(n) /\ \A j \in Below(n) : j <= NextBelow(n)
  <2>1. Below(n) \subseteq 0 .. MaxRegistrations
    BY Bounded DEF Below, TypeOK, Entries, Numbers
  <2>2. \E i \in Below(n) : \A j \in Below(n) : j <= i
    <3> HIDE DEF Below
    <3> QED BY <2>1, <1>2, Greatest, Bounded
  <2> QED BY <2>2, <1>2, Zenon DEF NextBelow
<1> QED BY <1>1, <1>2

\* What lies below n lies at or below NextBelow(n), which is below n.
LEMMA NextBelowBounds ==
  ASSUME TypeOK, NEW n \in Nat
  PROVE  /\ NextBelow(n) \in 0 .. MaxRegistrations
         /\ \A e \in list : e.at < n <=> e.at <= NextBelow(n)
         /\ n > 0 => NextBelow(n) < n
<1>1. \A e \in list : e.at \in Nat \ {0} /\ e.at <= MaxRegistrations
  BY Bounded DEF TypeOK, Entries, Numbers
<1>2. \A e \in list : e.at < n <=> e.at \in Below(n)
  <2>1. TAKE e \in list
  <2>2. e.at < n => e.at \in Below(n)
    BY DEF Below
  <2>3. e.at \in Below(n) => e.at < n
    BY DEF Below
  <2> QED BY <2>2, <2>3
<1>3. \A j \in Below(n) : j \in Nat \ {0} /\ j < n /\ j <= MaxRegistrations
  BY <1>1 DEF Below
<1>4. CASE Below(n) = {}
  <2>1. NextBelow(n) = 0 BY <1>4, NextBelowMax
  <2> QED BY <2>1, <1>1, <1>2, <1>4, Bounded
<1>5. CASE Below(n) # {}
  <2>1. NextBelow(n) \in Below(n) /\ \A j \in Below(n) : j <= NextBelow(n)
    BY <1>5, NextBelowMax
  <2>2. NextBelow(n) \in Nat /\ NextBelow(n) < n /\ NextBelow(n) <= MaxRegistrations
    BY <2>1, <1>3
  <2>3. \A e \in list : e.at < n <=> e.at <= NextBelow(n)
    BY <1>1, <1>2, <2>1, <2>2
  <2> QED BY <2>2, <2>3, Bounded
<1> QED BY <1>4, <1>5

\* A topic covers itself.
LEMMA CoversItself == \A t \in Topics : Covers(t, t)
<1>1. TAKE t \in Topics
<1>2. t \in Seq({t[i] : i \in DOMAIN t})
  BY SubscribeAssumption
<1>3. SubSeq(t, 1, Len(t)) = t
  BY <1>2, SubSeqFull
<1>4. Len(t) <= Len(t)
  BY <1>2, LenProperties
<1> QED BY <1>3, <1>4 DEF Covers

-----------------------------------------------------------------------------

\* An empty list satisfies the invariant.
LEMMA ListInvInit == Init => ListInv
<1> SUFFICES ASSUME Init PROVE ListInv
  OBVIOUS
<1>1. autoSub \in BOOLEAN
  BY Zenon DEF Init
<1>2. TypeOK
  BY <1>1, Bounded DEF Init, TypeOK, Results
<1> QED BY <1>2 DEF Init, ListInv, Numbered, NoDuplicates

\* Every step of the API and of the walk keeps it.
LEMMA ListInvStep == ListInv /\ [Next]_svars => ListInv'
<1> SUFFICES ASSUME ListInv, [Next]_svars PROVE ListInv'
  OBVIOUS
<1> USE DEF ListInv
<1>0. autoSub' \in BOOLEAN
  <2>1. autoSub \in BOOLEAN
    BY DEF TypeOK
  <2>2. autoSub' = autoSub \/ autoSub' = TRUE \/ autoSub' = FALSE
    BY Zenon DEF Next, Register, Unregister, Receive, Call, Skip, Return, Finish,
       AutoSubscribed, Disconnected, Undefined, svars
  <2> QED BY <2>1, <2>2, Zenon
<1>1. ASSUME NEW t \in Topics, NEW cb \in Callbacks, Register(t, cb) PROVE ListInv'
  <2>1. CASE UNCHANGED <<list, count>>
    <3>1. rc' \in Results
      BY <1>1 DEF Register, Results
    <3> QED BY <1>0, <1>1, <2>1, <3>1 DEF Register, TypeOK, Numbered, NoDuplicates
  <2>2. CASE /\ ~Repetition(t, cb) /\ count < MaxRegistrations /\ count' = count + 1
             /\ list' = list \cup {NewEntry(t, cb)} /\ rc' = "ok"
    <3>1. NewEntry(t, cb) \in Entries
      BY <2>2, Bounded DEF NewEntry, Entries, TypeOK, Numbers
    <3>2. TypeOK'
      BY <1>0, <1>1, <2>2, <3>1, Bounded DEF Register, TypeOK, Results
    <3>3. Numbered'
      <4>1. \A e \in list : e.at \in Nat /\ e.at < count + 1
        BY Bounded DEF TypeOK, Numbered, Entries, Numbers
      <4>2. NewEntry(t, cb).at = count + 1
        BY DEF NewEntry
      <4> QED BY <1>1, <2>2, <4>1, <4>2, Bounded DEF Register, Numbered, TypeOK
    <3>4. NoDuplicates'
      <4>1. \A e \in list : ~(e.topic = t /\ e.cb = cb)
        BY <2>2, CoversItself DEF Repetition
      <4>2. NewEntry(t, cb).topic = t /\ NewEntry(t, cb).cb = cb
        BY DEF NewEntry
      <4> QED BY <2>2, <4>1, <4>2 DEF NoDuplicates
    <3> QED BY <3>2, <3>3, <3>4
  <2> QED BY <1>1, <2>1, <2>2 DEF Register
<1>2. ASSUME NEW t \in Topics, Unregister(t) PROVE ListInv'
  BY <1>0, <1>2 DEF Unregister, Remaining, TypeOK, Numbered, NoDuplicates, Results
<1>3. ASSUME NEW t \in Topics, Receive(t) PROVE ListInv'
  <2>1. count + 1 \in Nat /\ count + 1 > 0 /\ count \in Nat
    BY Bounded DEF TypeOK
  <2>2. NextBelow(count + 1) \in 0 .. MaxRegistrations /\ NextBelow(count + 1) <= count
    <3>1. NextBelow(count + 1) \in 0 .. MaxRegistrations /\ NextBelow(count + 1) < count + 1
      BY <2>1, NextBelowBounds
    <3> QED BY <3>1, <2>1
  <2> QED BY <1>0, <1>3, <2>2 DEF Receive, TypeOK, Numbered, NoDuplicates
<1>4. ASSUME Call PROVE ListInv'
  BY <1>0, <1>4 DEF Call, TypeOK, Numbered, NoDuplicates
<1>5. ASSUME target # 0
      PROVE  NextBelow(target) \in 0 .. MaxRegistrations /\ NextBelow(target) <= count
  <2>1. target \in Nat /\ target > 0 /\ target <= count /\ count \in Nat
    BY <1>5, Bounded DEF TypeOK, Numbered
  <2>2. NextBelow(target) \in 0 .. MaxRegistrations /\ NextBelow(target) < target
    BY <2>1, NextBelowBounds
  <2> QED BY <2>1, <2>2
<1>6. ASSUME Skip PROVE ListInv'
  BY <1>0, <1>5, <1>6 DEF Skip, TypeOK, Numbered, NoDuplicates
<1>7. ASSUME Return PROVE ListInv'
  <2>1. CASE Allocated(target) /\ pc' = "walk" /\ target' = NextBelow(target)
    <3>1. target # 0
      BY <2>1 DEF Allocated, TypeOK, Entries, Numbers
    <3> QED BY <1>0, <1>5, <1>7, <2>1, <3>1 DEF Return, TypeOK, Numbered, NoDuplicates
  <2>2. CASE pc' = "undefined" /\ UNCHANGED target
    BY <1>0, <1>7, <2>2 DEF Return, TypeOK, Numbered, NoDuplicates
  <2> QED BY <1>7, <2>1, <2>2 DEF Return
<1>8. ASSUME Finish \/ AutoSubscribed \/ Disconnected PROVE ListInv'
  BY <1>0, <1>8 DEF Finish, AutoSubscribed, Disconnected, TypeOK, Numbered, NoDuplicates
<1>9. ASSUME Undefined \/ UNCHANGED svars PROVE ListInv'
  BY <1>0, <1>9 DEF Undefined, svars, TypeOK, Numbered, NoDuplicates
<1> QED BY <1>1, <1>2, <1>3, <1>4, <1>6, <1>7, <1>8, <1>9 DEF Next

\* Types, numbering and the absence of duplicates, in every behaviour.
THEOREM ListInvariance == Spec => []ListInv
<1>1. Init => ListInv BY ListInvInit
<1>2. ListInv /\ [Next]_svars => ListInv' BY ListInvStep
<1> QED BY <1>1, <1>2, PTL DEF Spec

\* A function is never registered twice for one topic: the filter of
\* tuya_mqtt_subscribe_message_callback_register compares prefixes, which
\* finds every repetition among others.
THEOREM NoDuplicatesHolds == Spec => []NoDuplicates
BY ListInvariance, PTL DEF ListInv

-----------------------------------------------------------------------------
(* The list implements SubscribeContract.                                  *)

\* The list starts as the contract does.
LEMMA ContractInit == Init => Contract!SInit
BY DEF Init, Contract!SInit, Owed

\* Each step is the contract's, or changes nothing of what it sees.
LEMMA ContractStep == ListInv /\ [Next]_svars => [Contract!SNext]_(Contract!scvars)
<1> SUFFICES ASSUME ListInv, [Next]_svars PROVE [Contract!SNext]_(Contract!scvars)
  OBVIOUS
<1> USE DEF ListInv
<1>0. /\ \A e \in list : e.at \in Nat \ {0}
      /\ count \in Nat /\ target \in Nat
  BY Bounded DEF TypeOK, Entries, Numbers
<1>1. ASSUME NEW t \in Topics, NEW cb \in Callbacks, Register(t, cb)
      PROVE  Contract!Add \/ UNCHANGED Contract!scvars
  <2>1. CASE UNCHANGED <<list, count>>
    BY <1>1, <2>1 DEF Register, Contract!scvars, Owed
  <2>2. CASE /\ count' = count + 1 /\ list' = list \cup {NewEntry(t, cb)}
    <3>1. NewEntry(t, cb).at = count + 1
      BY DEF NewEntry
    <3>2. NewEntry(t, cb) \notin list
      BY <1>0, <3>1 DEF Numbered
    <3>3. ~(NewEntry(t, cb).at <= target)
      BY <1>0, <3>1 DEF Numbered
    <3>4. Owed' = Owed
      <4>1. pc' = pc /\ message' = message /\ target' = target
        BY <1>1 DEF Register
      <4>2. \A e \in list' : e.at <= target => e \in list
        BY <2>2, <3>3
      <4>3. \A e \in list' : e.at < target => e \in list
        BY <1>0, <2>2, <3>1 DEF Numbered
      <4>4. list \subseteq list'
        BY <2>2
      <4> QED BY <4>1, <4>2, <4>3, <4>4 DEF Owed
    <3>5. (pc # "app")' = (pc # "app")
      BY <1>1 DEF Register
    <3> QED BY <2>2, <3>2, <3>4, <3>5 DEF Contract!Add
  <2> QED BY <1>1, <2>1, <2>2 DEF Register
<1>2. ASSUME NEW t \in Topics, Unregister(t) PROVE Contract!Withdraw
  <2>1. list' = list \ {e \in list : e.topic = t}
    BY <1>2 DEF Unregister, Remaining
  <2>2. Owed' = Owed \ {e \in list : e.topic = t}
    BY <1>2, <2>1 DEF Unregister, Owed
  <2>3. (pc # "app")' = (pc # "app")
    BY <1>2 DEF Unregister
  <2> QED BY <2>1, <2>2, <2>3 DEF Contract!Withdraw
<1>3. ASSUME NEW t \in Topics, Receive(t) PROVE Contract!Arrive
  <2>1. \A e \in list : e.at <= NextBelow(count + 1)
    <3>1. count + 1 \in Nat BY <1>0
    <3>2. \A e \in list : e.at < count + 1
      BY <1>0 DEF Numbered
    <3> QED BY <3>1, <3>2, NextBelowBounds
  <2>2. Owed' = {e \in list : e.topic = t}
    BY <1>3, <2>1 DEF Receive, Owed
  <2> QED BY <1>3, <2>2 DEF Receive, Contract!Arrive
<1>4. ASSUME Call PROVE Contract!Give
  <2>1. PICK e \in list : e.at = target /\ e.topic = message
    BY <1>4 DEF Call
  <2>2. e \in Owed
    BY <1>0, <1>4, <2>1 DEF Call, Owed
  <2>3. Owed' = Owed \ {e}
    <3>1. \A f \in list : f.at < target <=> f.at <= target /\ f # e
      BY <1>0, <2>1 DEF Numbered
    <3> QED BY <1>4, <3>1 DEF Call, Owed
  <2> QED BY <1>4, <2>2, <2>3 DEF Call, Contract!Give
<1>5. ASSUME target # 0
      PROVE  \A e \in list : e.at < target <=> e.at <= NextBelow(target)
  BY <1>0, <1>5, NextBelowBounds
<1>6. ASSUME Skip PROVE UNCHANGED Contract!scvars
  <2>1. PICK e \in list : e.at = target /\ e.topic # message
    BY <1>6 DEF Skip
  <2>2. \A f \in list : f.topic = message => (f.at <= target <=> f.at < target)
    BY <1>0, <2>1 DEF Numbered
  <2>3. Owed' = Owed
    BY <1>5, <1>6, <2>2 DEF Skip, Owed
  <2> QED BY <1>6, <2>3 DEF Skip, Contract!scvars
<1>7. ASSUME Return PROVE UNCHANGED Contract!scvars
  <2>1. CASE Allocated(target) /\ pc' = "walk" /\ target' = NextBelow(target)
    <3>1. target # 0
      BY <1>0, <2>1 DEF Allocated
    <3>2. Owed' = Owed
      BY <1>5, <1>7, <2>1, <3>1 DEF Return, Owed
    <3> QED BY <1>7, <2>1, <3>2 DEF Return, Contract!scvars
  <2>2. CASE pc' = "undefined" /\ UNCHANGED target
    BY <1>7, <2>2 DEF Return, Owed, Contract!scvars
  <2> QED BY <1>7, <2>1, <2>2 DEF Return
<1>8. ASSUME Finish PROVE Contract!Delivered
  <2>1. Owed = {} /\ Owed' = {}
    BY <1>0, <1>8 DEF Finish, Owed
  <2> QED BY <1>8, <2>1 DEF Finish, Contract!Delivered
<1>9. ASSUME AutoSubscribed \/ Disconnected \/ Undefined \/ UNCHANGED svars
      PROVE  UNCHANGED Contract!scvars
  BY <1>9 DEF AutoSubscribed, Disconnected, Undefined, svars, Owed, Contract!scvars
<1> QED BY <1>1, <1>2, <1>3, <1>4, <1>6, <1>7, <1>8, <1>9 DEF Next, Contract!SNext

\* Whatever the callbacks register and withdraw, every subscription present
\* when a message came and not withdrawn since gets it once, and no other
\* does (mqtt_subscribe_message_distribute, tuyalink_core.c:261-275).
THEOREM Refinement == Spec => KeepsContract
<1>1. Init => Contract!SInit BY ContractInit
<1>2. ListInv /\ [Next]_svars => [Contract!SNext]_(Contract!scvars) BY ContractStep
<1> QED BY <1>1, <1>2, ListInvariance, PTL DEF Spec, KeepsContract, Contract!SSpec

-----------------------------------------------------------------------------
(* The walk reads allocated entries.                                       *)

\* The walk looks at an entry of the list or is at its end.  A callback runs
\* for an entry of the message's topic, which is still on the list unless
\* callbacks may withdraw the topic they are called for; only then is the
\* next pointer of a freed entry ever read.
FreedEntryNotRead ==
  /\ pc = "walk" => target = 0 \/ Allocated(target)
  /\ pc = "callback" /\ "unregister own" \notin ops =>
       \E e \in list : e.at = target /\ e.topic = message
  /\ pc = "undefined" => "unregister own" \in ops

\* Where the walk goes next is an entry of the list, or its end.
LEMMA NextIsAllocated ==
  ASSUME TypeOK, NEW n \in Nat
  PROVE  NextBelow(n) = 0 \/ Allocated(NextBelow(n))
<1>1. CASE Below(n) = {} BY <1>1, NextBelowMax
<1>2. CASE Below(n) # {}
  <2>1. NextBelow(n) \in Below(n) BY <1>2, NextBelowMax
  <2> QED BY <2>1 DEF Below, Allocated
<1> QED BY <1>1, <1>2

\* Every step of the API and of the walk keeps it: registration adds to the
\* list, a withdrawal by a callback without the policy is of another topic.
LEMMA WalkStep == ListInv /\ FreedEntryNotRead /\ [Next]_svars => FreedEntryNotRead'
<1> SUFFICES ASSUME ListInv, FreedEntryNotRead, [Next]_svars PROVE FreedEntryNotRead'
  OBVIOUS
<1>0. TypeOK /\ count + 1 \in Nat /\ target \in Nat
  BY Bounded DEF ListInv, TypeOK
<1> USE DEF FreedEntryNotRead
<1>1. ASSUME NEW t \in Topics, NEW cb \in Callbacks, Register(t, cb)
      PROVE  FreedEntryNotRead'
  <2>1. list \subseteq list' /\ UNCHANGED <<pc, message, target, ops>>
    BY <1>1 DEF Register
  <2> QED BY <2>1 DEF Allocated
<1>2. ASSUME NEW t \in Topics, Unregister(t) PROVE FreedEntryNotRead'
  <2>1. list' = Remaining(t) /\ UNCHANGED <<pc, message, target, ops>>
    BY <1>2 DEF Unregister
  <2>2. pc \in {"app", "callback"}
    BY <1>2 DEF Unregister, MayCall
  <2>3. ASSUME pc = "callback", "unregister own" \notin ops
        PROVE  \E e \in list' : e.at = target /\ e.topic = message
    <3>1. t # message
      BY <1>2, <2>3 DEF Unregister, MayCall, Own
    <3>2. PICK e \in list : e.at = target /\ e.topic = message
      BY <2>3
    <3> QED BY <2>1, <3>1, <3>2 DEF Remaining
  <2> QED BY <2>1, <2>2, <2>3
<1>3. ASSUME NEW t \in Topics, Receive(t) PROVE FreedEntryNotRead'
  <2>1. NextBelow(count + 1) = 0 \/ Allocated(NextBelow(count + 1))
    BY <1>0, NextIsAllocated
  <2> QED BY <1>3, <2>1 DEF Receive, Allocated
<1>4. ASSUME Call PROVE FreedEntryNotRead'
  BY <1>4 DEF Call
<1>5. NextBelow(target) = 0 \/ Allocated(NextBelow(target))
  BY <1>0, NextIsAllocated
<1>6. ASSUME Skip PROVE FreedEntryNotRead'
  BY <1>5, <1>6 DEF Skip, Allocated
<1>7. ASSUME Return PROVE FreedEntryNotRead'
  <2>1. CASE Allocated(target) /\ pc' = "walk" /\ target' = NextBelow(target)
    BY <1>5, <1>7, <2>1 DEF Return, Allocated
  <2>2. CASE ~Allocated(target) /\ pc' = "undefined"
    BY <1>7, <2>2 DEF Return, Allocated
  <2> QED BY <1>7, <2>1, <2>2 DEF Return
<1>8. ASSUME Finish \/ AutoSubscribed \/ Disconnected PROVE FreedEntryNotRead'
  BY <1>8 DEF Finish, AutoSubscribed, Disconnected
<1>9. ASSUME Undefined \/ UNCHANGED svars PROVE FreedEntryNotRead'
  BY <1>9 DEF Undefined, svars, Allocated
<1> QED BY <1>1, <1>2, <1>3, <1>4, <1>6, <1>7, <1>8, <1>9 DEF Next

\* mqtt_subscribe_message_distribute reads target->next after the callback
\* (tuyalink_core.c:261-275): of a freed entry only when a callback withdraws
\* the topic it was called for.
THEOREM WalkReadsNoFreedEntry == Spec => []FreedEntryNotRead
<1>1. Init => FreedEntryNotRead BY DEF Init, FreedEntryNotRead
<1>2. ListInv /\ FreedEntryNotRead /\ [Next]_svars => FreedEntryNotRead' BY WalkStep
<1> QED BY <1>1, <1>2, ListInvariance, PTL DEF Spec

-----------------------------------------------------------------------------
(* The memory of a message (MessageParse).                                 *)

\* The SDK has still to free this field.
Pending(f) ==
  /\ step \notin {"idle", "undefined"}
  /\ f = "device" => step \notin {"free msgid", "free data"}
  /\ f = "msgid" => step # "free data"

\* The parser writes a pointer once, over NULL.
Unwritten ==
  /\ step = "device" => out["device"] = Null
  /\ step \in {"device", "validate", "msgid"} => out["msgid"] = Null
  /\ step \in {"device", "validate", "msgid", "data"} => out["data"] = Null

\* The SDK's blocks are those it will find and free.
Found ==
  step # "undefined" =>
    \A b \in Blocks : owner[b] = "message" => \E f \in Fields : Pending(f) /\ out[f] = b

\* Without a failure after the first allocation each pointer has a block of
\* its own that is still the message's.
Owned ==
  Clean =>
    /\ step # "undefined"
    /\ \A f \in Fields : Pending(f) /\ out[f] # Null => owner[out[f]] = "message"
    /\ \A f, g \in Fields :
         Pending(f) /\ Pending(g) /\ out[f] = out[g] /\ out[f] # Null => f = g

ParseInv == ParseTypeOK /\ Unwritten /\ Found /\ Owned

\* An empty heap satisfies the invariant.
LEMMA ParseInvInit == ParseInit => ParseInv
BY ParseAssumption
   DEF ParseInit, ParseInv, ParseTypeOK, Found, Owned, Pending, Unwritten, Cleared, Steps, Fields

\* What system_malloc for a field changes.
LEMMA AllocatedBlock ==
  ASSUME ParseTypeOK, NEW f \in Fields, Alloc(f)
  PROVE  /\ owner' \in [Blocks -> {"free", "message", "user"}]
         /\ out' \in [Fields -> Blocks \cup {Null}]
         /\ \E b \in Blocks :
              /\ owner[b] = "free"
              /\ \A a \in Blocks : owner'[a] = IF a = b THEN "message" ELSE owner[a]
              /\ \A g \in Fields : out'[g] = IF g = f THEN b ELSE out[g]
BY DEF ParseTypeOK, Alloc

\* What the parser's giving up changes.
LEMMA GivenUp ==
  ASSUME ParseTypeOK, NEW freed, GiveUp(freed)
  PROVE  /\ owner' \in [Blocks -> {"free", "message", "user"}]
         /\ out' = out
         /\ \A a \in Blocks : owner'[a] \in {owner[a], "free"}
BY DEF ParseTypeOK, GiveUp

\* What system_free of a field changes.
LEMMA Freed ==
  ASSUME ParseTypeOK, NEW f \in Fields, NEW next, Free(f, next)
  PROVE  /\ owner' \in [Blocks -> {"free", "message", "user"}]
         /\ out' = out /\ given' = given
         /\ \/ /\ step' = next
               /\ \A a \in Blocks : owner'[a] = IF a = out[f] THEN "free" ELSE owner[a]
            \/ /\ step' = "undefined" /\ out[f] # Null
               /\ owner[out[f]] = "free" /\ owner' = owner
BY ParseAssumption DEF ParseTypeOK, Free

\* A step of tuya_link_thing_message_parse keeps the invariant.
LEMMA ParserStep ==
  ASSUME ParseInv, Message \/ CopyDevice \/ Validate \/ CopyMsgid \/ CopyData
  PROVE  ParseInv'
<1>0. ParseTypeOK /\ Unwritten /\ Found /\ Owned
  BY DEF ParseInv
<1>1. ASSUME Message PROVE ParseInv'
  <2>t. ParseTypeOK'
    BY <1>0, <1>1, ParseAssumption DEF Message, Cleared, Clean, Fields, ParseTypeOK, Steps
  <2>u. Unwritten'
    BY <1>0, <1>1, ParseAssumption DEF Message, Cleared, Clean, Fields, Unwritten
  <2>f. Found'
    BY <1>0, <1>1, ParseAssumption DEF Message, Cleared, Clean, Fields, Found, Pending, Fields, Unwritten
  <2>o. Owned'
    BY <1>0, <1>1, ParseAssumption DEF Message, Cleared, Clean, Fields, Owned, Pending, Fields, Unwritten
  <2> QED BY <2>t, <2>u, <2>f, <2>o DEF ParseInv
<1>2. ASSUME CopyDevice PROVE ParseInv'
  <2>g. given' = given /\ (Clean' <=> Clean)
    BY <1>2 DEF CopyDevice, given, Clean
  <2>1. CASE Alloc("device") /\ step' = "validate" /\ step = "device"
    <3>a. /\ owner' \in [Blocks -> {"free", "message", "user"}]
          /\ out' \in [Fields -> Blocks \cup {Null}]
          /\ \E b \in Blocks :
               /\ owner[b] = "free"
               /\ \A a \in Blocks : owner'[a] = IF a = b THEN "message" ELSE owner[a]
               /\ \A g \in Fields : out'[g] = IF g = "device" THEN b ELSE out[g]
      BY <1>0, <2>1, AllocatedBlock DEF Fields
    <3>t. ParseTypeOK'
      BY <1>0, <1>2, <2>g, <2>1, <3>a, ParseAssumption DEF ParseTypeOK, Steps, given
    <3>u. Unwritten'
      BY <1>0, <1>2, <2>g, <2>1, <3>a, ParseAssumption DEF Unwritten, Fields
    <3>f. Found'
      BY <1>0, <1>2, <2>g, <2>1, <3>a, ParseAssumption DEF Found, Pending, Fields, Unwritten
    <3>o. Owned'
      BY <1>0, <1>2, <2>g, <2>1, <3>a, ParseAssumption DEF Owned, Pending, Fields, Unwritten
    <3> QED BY <3>t, <3>u, <3>f, <3>o DEF ParseInv
  <2>2. CASE step = "device" /\ step' = "callback" /\ UNCHANGED <<owner, out>>
    <3>t. ParseTypeOK'
      BY <1>0, <1>2, <2>g, <2>2, ParseAssumption DEF ParseTypeOK, Steps, given
    <3>u. Unwritten'
      BY <1>0, <1>2, <2>g, <2>2, ParseAssumption DEF Unwritten
    <3>f. Found'
      BY <1>0, <1>2, <2>g, <2>2, ParseAssumption DEF Found, Pending, Fields, Unwritten
    <3>o. Owned'
      BY <1>0, <1>2, <2>g, <2>2, ParseAssumption DEF Owned, Pending, Fields, Unwritten
    <3> QED BY <3>t, <3>u, <3>f, <3>o DEF ParseInv
  <2> QED BY <1>2, <2>1, <2>2 DEF CopyDevice
<1>3. ASSUME Validate PROVE ParseInv'
  <2>g. given' = given /\ (Clean' <=> Clean)
    BY <1>3 DEF Validate, given, Clean
  <2>1. CASE step = "validate" /\ step' = "msgid" /\ UNCHANGED <<owner, out>>
    <3>t. ParseTypeOK'
      BY <1>0, <1>3, <2>g, <2>1, ParseAssumption DEF ParseTypeOK, Steps, given
    <3>u. Unwritten'
      BY <1>0, <1>3, <2>g, <2>1, ParseAssumption DEF Unwritten
    <3>f. Found'
      BY <1>0, <1>3, <2>g, <2>1, ParseAssumption DEF Found, Pending, Fields, Unwritten
    <3>o. Owned'
      BY <1>0, <1>3, <2>g, <2>1, ParseAssumption DEF Owned, Pending, Fields, Unwritten
    <3> QED BY <3>t, <3>u, <3>f, <3>o DEF ParseInv
  <2>2. CASE step = "validate" /\ "json" \in failures /\ GiveUp({"device"}) /\ step' = "callback"
    <3>a. /\ owner' \in [Blocks -> {"free", "message", "user"}]
          /\ out' = out
          /\ \A a \in Blocks : owner'[a] \in {owner[a], "free"}
      BY <1>0, <2>2, GivenUp
    <3>t. ParseTypeOK'
      BY <1>0, <1>3, <2>g, <2>2, <3>a, ParseAssumption DEF ParseTypeOK, Steps, given
    <3>u. Unwritten'
      BY <1>0, <1>3, <2>g, <2>2, <3>a, ParseAssumption DEF Unwritten
    <3>f. Found'
      BY <1>0, <1>3, <2>g, <2>2, <3>a, ParseAssumption DEF Found, Pending, Fields, Unwritten
    <3>o. Owned'
      BY <1>0, <1>3, <2>g, <2>2, <3>a, ParseAssumption DEF Owned, Clean, Pending, Fields, Unwritten
    <3> QED BY <3>t, <3>u, <3>f, <3>o DEF ParseInv
  <2> QED BY <1>3, <2>1, <2>2 DEF Validate
<1>4. ASSUME CopyMsgid PROVE ParseInv'
  <2>g. given' = given /\ (Clean' <=> Clean)
    BY <1>4 DEF CopyMsgid, given, Clean
  <2>1. CASE step = "msgid" /\ step' = "data" /\ UNCHANGED <<owner, out>>
    <3>t. ParseTypeOK'
      BY <1>0, <1>4, <2>g, <2>1, ParseAssumption DEF ParseTypeOK, Steps, given
    <3>u. Unwritten'
      BY <1>0, <1>4, <2>g, <2>1, ParseAssumption DEF Unwritten
    <3>f. Found'
      BY <1>0, <1>4, <2>g, <2>1, ParseAssumption DEF Found, Pending, Fields, Unwritten
    <3>o. Owned'
      BY <1>0, <1>4, <2>g, <2>1, ParseAssumption DEF Owned, Pending, Fields, Unwritten
    <3> QED BY <3>t, <3>u, <3>f, <3>o DEF ParseInv
  <2>2. CASE step = "msgid" /\ Alloc("msgid") /\ step' = "data"
    <3>a. /\ owner' \in [Blocks -> {"free", "message", "user"}]
          /\ out' \in [Fields -> Blocks \cup {Null}]
          /\ \E b \in Blocks :
               /\ owner[b] = "free"
               /\ \A a \in Blocks : owner'[a] = IF a = b THEN "message" ELSE owner[a]
               /\ \A g \in Fields : out'[g] = IF g = "msgid" THEN b ELSE out[g]
      BY <1>0, <2>2, AllocatedBlock DEF Fields
    <3>t. ParseTypeOK'
      BY <1>0, <1>4, <2>g, <2>2, <3>a, ParseAssumption DEF ParseTypeOK, Steps, given
    <3>u. Unwritten'
      BY <1>0, <1>4, <2>g, <2>2, <3>a, ParseAssumption DEF Unwritten, Fields
    <3>f. Found'
      BY <1>0, <1>4, <2>g, <2>2, <3>a, ParseAssumption DEF Found, Pending, Fields, Unwritten
    <3>o. Owned'
      BY <1>0, <1>4, <2>g, <2>2, <3>a, ParseAssumption DEF Owned, Pending, Fields, Unwritten
    <3> QED BY <3>t, <3>u, <3>f, <3>o DEF ParseInv
  <2>3. CASE step = "msgid" /\ "msgid" \in failures /\ GiveUp({"device"}) /\ step' = "callback"
    <3>a. /\ owner' \in [Blocks -> {"free", "message", "user"}]
          /\ out' = out
          /\ \A a \in Blocks : owner'[a] \in {owner[a], "free"}
      BY <1>0, <2>3, GivenUp
    <3>t. ParseTypeOK'
      BY <1>0, <1>4, <2>g, <2>3, <3>a, ParseAssumption DEF ParseTypeOK, Steps, given
    <3>u. Unwritten'
      BY <1>0, <1>4, <2>g, <2>3, <3>a, ParseAssumption DEF Unwritten
    <3>f. Found'
      BY <1>0, <1>4, <2>g, <2>3, <3>a, ParseAssumption DEF Found, Pending, Fields, Unwritten
    <3>o. Owned'
      BY <1>0, <1>4, <2>g, <2>3, <3>a, ParseAssumption DEF Owned, Clean, Pending, Fields, Unwritten
    <3> QED BY <3>t, <3>u, <3>f, <3>o DEF ParseInv
  <2> QED BY <1>4, <2>1, <2>2, <2>3 DEF CopyMsgid
<1>5. ASSUME CopyData PROVE ParseInv'
  <2>g. given' = given /\ (Clean' <=> Clean)
    BY <1>5 DEF CopyData, given, Clean
  <2>1. CASE step = "data" /\ step' = "callback" /\ UNCHANGED <<owner, out>>
    <3>t. ParseTypeOK'
      BY <1>0, <1>5, <2>g, <2>1, ParseAssumption DEF ParseTypeOK, Steps, given
    <3>u. Unwritten'
      BY <1>0, <1>5, <2>g, <2>1, ParseAssumption DEF Unwritten
    <3>f. Found'
      BY <1>0, <1>5, <2>g, <2>1, ParseAssumption DEF Found, Pending, Fields, Unwritten
    <3>o. Owned'
      BY <1>0, <1>5, <2>g, <2>1, ParseAssumption DEF Owned, Pending, Fields, Unwritten
    <3> QED BY <3>t, <3>u, <3>f, <3>o DEF ParseInv
  <2>2. CASE step = "data" /\ Alloc("data") /\ step' = "callback"
    <3>a. /\ owner' \in [Blocks -> {"free", "message", "user"}]
          /\ out' \in [Fields -> Blocks \cup {Null}]
          /\ \E b \in Blocks :
               /\ owner[b] = "free"
               /\ \A a \in Blocks : owner'[a] = IF a = b THEN "message" ELSE owner[a]
               /\ \A g \in Fields : out'[g] = IF g = "data" THEN b ELSE out[g]
      BY <1>0, <2>2, AllocatedBlock DEF Fields
    <3>t. ParseTypeOK'
      BY <1>0, <1>5, <2>g, <2>2, <3>a, ParseAssumption DEF ParseTypeOK, Steps, given
    <3>u. Unwritten'
      BY <1>0, <1>5, <2>g, <2>2, <3>a, ParseAssumption DEF Unwritten
    <3>f. Found'
      BY <1>0, <1>5, <2>g, <2>2, <3>a, ParseAssumption DEF Found, Pending, Fields, Unwritten
    <3>o. Owned'
      BY <1>0, <1>5, <2>g, <2>2, <3>a, ParseAssumption DEF Owned, Pending, Fields, Unwritten
    <3> QED BY <3>t, <3>u, <3>f, <3>o DEF ParseInv
  <2>3. CASE step = "data" /\ "data" \in failures /\ GiveUp({"device", "msgid"}) /\ step' = "callback"
    <3>a. /\ owner' \in [Blocks -> {"free", "message", "user"}]
          /\ out' = out
          /\ \A a \in Blocks : owner'[a] \in {owner[a], "free"}
      BY <1>0, <2>3, GivenUp
    <3>t. ParseTypeOK'
      BY <1>0, <1>5, <2>g, <2>3, <3>a, ParseAssumption DEF ParseTypeOK, Steps, given
    <3>u. Unwritten'
      BY <1>0, <1>5, <2>g, <2>3, <3>a, ParseAssumption DEF Unwritten
    <3>f. Found'
      BY <1>0, <1>5, <2>g, <2>3, <3>a, ParseAssumption DEF Found, Pending, Fields, Unwritten
    <3>o. Owned'
      BY <1>0, <1>5, <2>g, <2>3, <3>a, ParseAssumption DEF Owned, Clean, Pending, Fields, Unwritten
    <3> QED BY <3>t, <3>u, <3>f, <3>o DEF ParseInv
  <2> QED BY <1>5, <2>1, <2>2, <2>3 DEF CopyData
<1> QED BY <1>1, <1>2, <1>3, <1>4, <1>5

\* So does what the user does in on_messages.
LEMMA UserStep ==
  ASSUME ParseInv, UserAllocates \/ UserFrees \/ CallbackReturns
  PROVE  ParseInv'
<1>0. ParseTypeOK /\ Unwritten /\ Found /\ Owned
  BY DEF ParseInv
<1>1. ASSUME UserAllocates PROVE ParseInv'
  <2>t. ParseTypeOK'
    BY <1>0, <1>1, ParseAssumption DEF UserAllocates, given, Clean, ParseTypeOK, Steps
  <2>u. Unwritten'
    BY <1>0, <1>1, ParseAssumption DEF UserAllocates, given, Clean, Unwritten
  <2>f. Found'
    BY <1>0, <1>1, ParseAssumption DEF UserAllocates, given, Clean, Found, Pending, Fields, Unwritten
  <2>o. Owned'
    BY <1>0, <1>1, ParseAssumption DEF UserAllocates, given, Clean, Owned, Pending, Fields, Unwritten
  <2> QED BY <2>t, <2>u, <2>f, <2>o DEF ParseInv
<1>2. ASSUME UserFrees PROVE ParseInv'
  <2>t. ParseTypeOK'
    BY <1>0, <1>2, ParseAssumption DEF UserFrees, given, Clean, ParseTypeOK, Steps
  <2>u. Unwritten'
    BY <1>0, <1>2, ParseAssumption DEF UserFrees, given, Clean, Unwritten
  <2>f. Found'
    BY <1>0, <1>2, ParseAssumption DEF UserFrees, given, Clean, Found, Pending, Fields, Unwritten
  <2>o. Owned'
    BY <1>0, <1>2, ParseAssumption DEF UserFrees, given, Clean, Owned, Pending, Fields, Unwritten
  <2> QED BY <2>t, <2>u, <2>f, <2>o DEF ParseInv
<1>3. ASSUME CallbackReturns PROVE ParseInv'
  <2>t. ParseTypeOK'
    BY <1>0, <1>3, ParseAssumption DEF CallbackReturns, given, Clean, ParseTypeOK, Steps
  <2>u. Unwritten'
    BY <1>0, <1>3, ParseAssumption DEF CallbackReturns, given, Clean, Unwritten
  <2>f. Found'
    BY <1>0, <1>3, ParseAssumption DEF CallbackReturns, given, Clean, Found, Pending, Fields, Unwritten
  <2>o. Owned'
    BY <1>0, <1>3, ParseAssumption DEF CallbackReturns, given, Clean, Owned, Pending, Fields, Unwritten
  <2> QED BY <2>t, <2>u, <2>f, <2>o DEF ParseInv
<1> QED BY <1>1, <1>2, <1>3

\* So does the release of each string.
LEMMA ReleaseStep ==
  ASSUME ParseInv, FreeDevice \/ FreeMsgid \/ FreeData \/ ParseUndefined
  PROVE  ParseInv'
<1>0. ParseTypeOK /\ Unwritten /\ Found /\ Owned
  BY DEF ParseInv
<1>1. ASSUME FreeDevice PROVE ParseInv'
  <2>a. /\ owner' \in [Blocks -> {"free", "message", "user"}]
        /\ out' = out /\ given' = given
        /\ \/ /\ step' = "free msgid"
              /\ \A a \in Blocks : owner'[a] = IF a = out["device"] THEN "free" ELSE owner[a]
           \/ /\ step' = "undefined" /\ out["device"] # Null
              /\ owner[out["device"]] = "free" /\ owner' = owner
    BY <1>0, <1>1, Freed DEF FreeDevice, Fields
  <2>b. Clean' <=> Clean
    BY <2>a DEF given, Clean
  <2>c. step = "free device"
    BY <1>1 DEF FreeDevice
  <2>t. ParseTypeOK'
    BY <1>0, <2>a, <2>b, <2>c, ParseAssumption DEF given, ParseTypeOK, Steps
  <2>u. Unwritten'
    BY <1>0, <2>a, <2>b, <2>c, ParseAssumption DEF Unwritten
  <2>f. Found'
    BY <1>0, <2>a, <2>b, <2>c, ParseAssumption DEF Found, Pending, Fields, Unwritten
  <2>o. Owned'
    <3>1. CASE ~Clean
      BY <2>b, <3>1 DEF Owned
    <3>2. CASE Clean
      <4>1. owner[out["device"]] = "message" \/ out["device"] = Null
        BY <1>0, <2>c, <3>2 DEF Owned, Pending, Fields
      <4> QED BY <1>0, <2>a, <2>c, <3>2, <4>1, ParseAssumption
           DEF Owned, Pending, Fields, ParseTypeOK
    <3> QED BY <3>1, <3>2
  <2> QED BY <2>t, <2>u, <2>f, <2>o DEF ParseInv
<1>2. ASSUME FreeMsgid PROVE ParseInv'
  <2>a. /\ owner' \in [Blocks -> {"free", "message", "user"}]
        /\ out' = out /\ given' = given
        /\ \/ /\ step' = "free data"
              /\ \A a \in Blocks : owner'[a] = IF a = out["msgid"] THEN "free" ELSE owner[a]
           \/ /\ step' = "undefined" /\ out["msgid"] # Null
              /\ owner[out["msgid"]] = "free" /\ owner' = owner
    BY <1>0, <1>2, Freed DEF FreeMsgid, Fields
  <2>b. Clean' <=> Clean
    BY <2>a DEF given, Clean
  <2>c. step = "free msgid"
    BY <1>2 DEF FreeMsgid
  <2>t. ParseTypeOK'
    BY <1>0, <2>a, <2>b, <2>c, ParseAssumption DEF given, ParseTypeOK, Steps
  <2>u. Unwritten'
    BY <1>0, <2>a, <2>b, <2>c, ParseAssumption DEF Unwritten
  <2>f. Found'
    BY <1>0, <2>a, <2>b, <2>c, ParseAssumption DEF Found, Pending, Fields, Unwritten
  <2>o. Owned'
    <3>1. CASE ~Clean
      BY <2>b, <3>1 DEF Owned
    <3>2. CASE Clean
      <4>1. owner[out["msgid"]] = "message" \/ out["msgid"] = Null
        BY <1>0, <2>c, <3>2 DEF Owned, Pending, Fields
      <4> QED BY <1>0, <2>a, <2>c, <3>2, <4>1, ParseAssumption
           DEF Owned, Pending, Fields, ParseTypeOK
    <3> QED BY <3>1, <3>2
  <2> QED BY <2>t, <2>u, <2>f, <2>o DEF ParseInv
<1>3. ASSUME FreeData PROVE ParseInv'
  <2>a. /\ owner' \in [Blocks -> {"free", "message", "user"}]
        /\ out' = out /\ given' = given
        /\ \/ /\ step' = "idle"
              /\ \A a \in Blocks : owner'[a] = IF a = out["data"] THEN "free" ELSE owner[a]
           \/ /\ step' = "undefined" /\ out["data"] # Null
              /\ owner[out["data"]] = "free" /\ owner' = owner
    BY <1>0, <1>3, Freed DEF FreeData, Fields
  <2>b. Clean' <=> Clean
    BY <2>a DEF given, Clean
  <2>c. step = "free data"
    BY <1>3 DEF FreeData
  <2>t. ParseTypeOK'
    BY <1>0, <2>a, <2>b, <2>c, ParseAssumption DEF given, ParseTypeOK, Steps
  <2>u. Unwritten'
    BY <1>0, <2>a, <2>b, <2>c, ParseAssumption DEF Unwritten
  <2>f. Found'
    BY <1>0, <2>a, <2>b, <2>c, ParseAssumption DEF Found, Pending, Fields, Unwritten
  <2>o. Owned'
    BY <1>0, <2>a, <2>b, <2>c, ParseAssumption DEF Owned, Pending, Fields, Unwritten
  <2> QED BY <2>t, <2>u, <2>f, <2>o DEF ParseInv
<1>4. ASSUME ParseUndefined PROVE ParseInv'
  <2>t. ParseTypeOK'
    BY <1>0, <1>4 DEF ParseUndefined, pvars, given, Clean, ParseTypeOK, Steps
  <2>u. Unwritten'
    BY <1>0, <1>4 DEF ParseUndefined, pvars, given, Clean, Unwritten
  <2>f. Found'
    BY <1>0, <1>4 DEF ParseUndefined, pvars, given, Clean, Found, Pending, Fields, Unwritten
  <2>o. Owned'
    BY <1>0, <1>4 DEF ParseUndefined, pvars, given, Clean, Owned, Pending, Fields, Unwritten
  <2> QED BY <2>t, <2>u, <2>f, <2>o DEF ParseInv
<1> QED BY <1>1, <1>2, <1>3, <1>4

\* Every step keeps the invariant.
LEMMA ParseInvStep == ParseInv /\ [ParseNext]_pvars => ParseInv'
<1>1. ParseInv /\ UNCHANGED pvars => ParseInv'
  BY DEF ParseInv, ParseTypeOK, Found, Owned, Pending, Unwritten, given, pvars, Clean
<1> QED BY <1>1, ParserStep, UserStep, ReleaseStep DEF ParseNext

\* Types, who owns each block, and which pointers lead to it, in every
\* behaviour.
THEOREM ParseInvariance == ParseSpec => []ParseInv
BY ParseInvInit, ParseInvStep, PTL DEF ParseSpec

\* Unless tuya_link_thing_message_parse fails after its first allocation,
\* on_messages sees the message's memory and each string is freed once.
THEOREM StringsOwned == ParseSpec => []MessageOwned
<1>1. ParseInv => MessageOwned
  BY DEF ParseInv, Owned, MessageOwned, FreedOnce, CallbackSeesMessage, Pending
<1> QED BY <1>1, ParseInvariance, PTL

\* mqtt_client_message_cb leaves nothing allocated, wherever parsing stopped.
THEOREM StringsFreed == ParseSpec => []NothingLeaked
<1>1. ParseInv => NothingLeaked
  BY DEF ParseInv, Found, NothingLeaked, Pending
<1> QED BY <1>1, ParseInvariance, PTL

\* Nor does it free a block that the user has got in the meantime.
THEOREM UserBlocksKept == ParseSpec => UserKeepsItsBlocks
<1>1. ParseInv /\ [ParseNext]_pvars =>
        [Clean => \A b \in Blocks :
           owner[b] = "user" /\ owner'[b] # "user" => step = "callback"]_pvars
  <2> SUFFICES ASSUME ParseInv, ParseNext, Clean, NEW b \in Blocks,
                      owner[b] = "user", owner'[b] # "user", step # "callback"
               PROVE  FALSE
    OBVIOUS
  <2>1. CASE Message \/ ParseUndefined \/ UserAllocates \/ UserFrees \/ CallbackReturns
    BY <2>1 DEF Message, ParseUndefined, pvars, UserAllocates, UserFrees, CallbackReturns
  <2>2. CASE CopyDevice \/ Validate \/ CopyMsgid \/ CopyData
    BY <2>2 DEF CopyDevice, Validate, CopyMsgid, CopyData, Alloc, GiveUp, Clean,
                ParseInv, ParseTypeOK
  <2>3. CASE FreeDevice \/ FreeMsgid \/ FreeData
    BY <2>3 DEF FreeDevice, FreeMsgid, FreeData, Free, ParseInv, ParseTypeOK, Owned, Pending,
                Fields
  <2> QED BY <2>1, <2>2, <2>3 DEF ParseNext
<1> QED BY <1>1, ParseInvariance, PTL DEF ParseSpec, UserKeepsItsBlocks
=============================================================================
