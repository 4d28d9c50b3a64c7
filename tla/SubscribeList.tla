---------------------------- MODULE SubscribeList ----------------------------
(***************************************************************************)
(* The subscribers of an SDK context (tuyalink_core.c): the linked list    *)
(* mqtt_subscribe_handle_t, its registration and withdrawal, and the walk  *)
(* that gives a message to the callbacks.  A callback may call the API     *)
(* again, so the list changes while it is walked.                          *)
(*                                                                         *)
(* New entries go to the head, so the order of the list is the order of    *)
(* registration reversed: an entry carries the number of its registration, *)
(* and the entry after it is the one with the next smaller number.         *)
(***************************************************************************)
EXTENDS Naturals, Sequences

CONSTANTS
  Topics,            \* topics, as sequences of characters
  Callbacks,         \* functions of the user
  Policies,          \* what callbacks may do, one set per behaviour: see MayCall
  MaxRegistrations   \* bound: entries allocated in a behaviour

ASSUME SubscribeAssumption ==
  /\ \A t \in Topics : t \in Seq({t[i] : i \in DOMAIN t})
  /\ MaxRegistrations \in Nat
  /\ Policies \subseteq SUBSET {"register", "unregister", "unregister own"}

VARIABLES
  list,         \* the entries reachable from subscribe_list
  count,        \* registrations so far: the number of the newest entry
  autoSub,      \* auto_subscribe_enabled
  pc,           \* "app", "walk", "callback", "undefined"
  message,      \* the topic of the message being distributed
  target,       \* number of the entry the walk is at, 0 for NULL
  rc,           \* result of the last API call
  ops           \* what the callbacks of this behaviour do

svars == <<list, count, autoSub, pc, message, target, rc, ops>>

Numbers == 1 .. MaxRegistrations
Entries == [topic : Topics, cb : Callbacks, at : Numbers]
Results == {"ok", "com_error", "malloc_failed"}

TypeOK ==
  /\ list \subseteq Entries
  /\ count \in 0 .. MaxRegistrations
  /\ autoSub \in BOOLEAN
  /\ pc \in {"app", "walk", "callback", "undefined"}
  /\ message \in Topics
  /\ target \in 0 .. MaxRegistrations
  /\ rc \in Results /\ ops \in Policies

Init ==
  /\ list = {} /\ count = 0 /\ autoSub = FALSE
  /\ pc = "app" /\ message \in Topics /\ target = 0 /\ rc = "ok"
  /\ ops \in Policies

\* The entry that follows position n in the list: the newest one older than n.
Below(n) == {e.at : e \in {f \in list : f.at < n}}
NextBelow(n) ==
  IF Below(n) = {} THEN 0
  ELSE CHOOSE i \in Below(n) : \A j \in Below(n) : j <= i

Allocated(n) == \E e \in list : e.at = n

-----------------------------------------------------------------------------
(* The API.                                                                *)

\* Who may call: the user between two messages, or the callback that runs.
MayCall(operation) ==
  \/ pc = "app"
  \/ pc = "callback" /\ operation \in ops

\* memcmp over the length of the registered topic.
Covers(s, t) == Len(s) <= Len(t) /\ SubSeq(t, 1, Len(s)) = s

\* Variant: the filter looks at the head of the list alone.
RepetitionOfHead(t, cb) ==
  \E e \in list : e.at = count /\ Covers(e.topic, t) /\ e.cb = cb
Repetition(t, cb) == \E e \in list : Covers(e.topic, t) /\ e.cb = cb

NewEntry(t, cb) == [topic |-> t, cb |-> cb, at |-> count + 1]

\* tuya_mqtt_subscribe_message_callback_register.  Before the device's
\* auto-subscribe is acknowledged it subscribes at the broker, and gives up
\* when that cannot be sent.
Register(t, cb) ==
  /\ MayCall("register")
  /\ \/ /\ ~autoSub
        /\ rc' = "com_error" /\ UNCHANGED <<list, count>>
     \/ /\ Repetition(t, cb)
        /\ rc' = "ok" /\ UNCHANGED <<list, count>>
     \/ /\ ~Repetition(t, cb)
        /\ rc' = "malloc_failed" /\ UNCHANGED <<list, count>>
     \/ /\ ~Repetition(t, cb)
        /\ count < MaxRegistrations
        /\ count' = count + 1
        /\ list' = list \cup {NewEntry(t, cb)}
        /\ rc' = "ok"
  /\ UNCHANGED <<autoSub, pc, message, target, ops>>

Own(t) == pc = "callback" /\ t = message

\* Variant: topics are compared as the repetition filter compares them.
RemainNotCovered(t) == {e \in list : ~Covers(t, e.topic)}
Remaining(t) == {e \in list : e.topic # t}

\* tuya_mqtt_subscribe_message_callback_unregister removes every entry of the
\* topic, then unsubscribes, which fails when it cannot be sent.
Unregister(t) ==
  /\ MayCall(IF Own(t) THEN "unregister own" ELSE "unregister")
  /\ list' = Remaining(t)
  /\ rc' \in {"ok", "com_error"}
  /\ UNCHANGED <<count, autoSub, pc, message, target, ops>>

-----------------------------------------------------------------------------
(* mqtt_subscribe_message_distribute.                                      *)

\* Variant: the walk starts after the head of the list.
ReceiveAtSecond(t) ==
  /\ pc = "app" /\ pc' = "walk"
  /\ message' = t
  /\ target' = NextBelow(NextBelow(count + 1))
  /\ UNCHANGED <<list, count, autoSub, rc, ops>>
Receive(t) ==
  /\ pc = "app" /\ pc' = "walk"
  /\ message' = t
  /\ target' = NextBelow(count + 1)
  /\ UNCHANGED <<list, count, autoSub, rc, ops>>

\* The target is looked at: its callback is called, or the walk goes on.
Call ==
  /\ pc = "walk" /\ target # 0
  /\ \E e \in list : e.at = target /\ e.topic = message
  /\ pc' = "callback"
  /\ UNCHANGED <<list, count, autoSub, message, target, rc, ops>>

Skip ==
  /\ pc = "walk" /\ target # 0
  /\ \E e \in list : e.at = target /\ e.topic # message
  /\ target' = NextBelow(target)
  /\ UNCHANGED <<list, count, autoSub, pc, message, rc, ops>>

\* The callback returns and the walk reads target->next: of an entry that was
\* freed meanwhile, that is undefined.
Return ==
  /\ pc = "callback"
  /\ \/ Allocated(target) /\ pc' = "walk" /\ target' = NextBelow(target)
     \/ ~Allocated(target) /\ pc' = "undefined" /\ UNCHANGED target
  /\ UNCHANGED <<list, count, autoSub, message, rc, ops>>

Finish ==
  /\ pc = "walk" /\ target = 0
  /\ pc' = "app"
  /\ UNCHANGED <<list, count, autoSub, message, target, rc, ops>>

\* The SUBACK of the auto-subscribe arrives; the connection goes.
AutoSubscribed ==
  /\ pc = "app" /\ autoSub' = TRUE
  /\ UNCHANGED <<list, count, pc, message, target, rc, ops>>
Disconnected ==
  /\ pc = "app" /\ autoSub' = FALSE
  /\ UNCHANGED <<list, count, pc, message, target, rc, ops>>

\* After undefined behaviour nothing more is said.
Undefined == pc = "undefined" /\ UNCHANGED svars

Next ==
  \/ \E t \in Topics : \E cb \in Callbacks : Register(t, cb)
  \/ \E t \in Topics : Unregister(t) \/ Receive(t)
  \/ Call \/ Skip \/ Return \/ Finish
  \/ AutoSubscribed \/ Disconnected \/ Undefined

\* The walk is a loop that runs; a callback returns.
Fairness == WF_svars(Call) /\ WF_svars(Skip) /\ WF_svars(Return) /\ WF_svars(Finish)

Spec == Init /\ [][Next]_svars /\ Fairness

-----------------------------------------------------------------------------
(* Properties.                                                             *)

\* The purpose of the repetition filter: one function is never twice on the
\* list for the same topic, so no message reaches it twice.
NoDuplicates ==
  \A e, f \in list : e.topic = f.topic /\ e.cb = f.cb => e = f

\* Every walk comes to its end, whatever the callbacks register and withdraw
\* meanwhile: it reads no entry that was freed under it, unless a callback may
\* withdraw the topic it is called for.
WalkEnds ==
  pc = "walk" ~> pc = "app" \/ (pc = "undefined" /\ "unregister own" \in ops)

\* What the message is still owed to: the entries of its topic from the
\* target on, without the one being called.
Owed ==
  IF pc = "walk"
    THEN {e \in list : e.topic = message /\ e.at <= target}
  ELSE IF pc \in {"callback", "undefined"}
    THEN {e \in list : e.topic = message /\ e.at < target}
  ELSE {}

Contract == INSTANCE SubscribeContract WITH
  subs <- list, pending <- Owed, busy <- pc # "app"

\* The list keeps the promise of the API: each subscription present when the
\* message came and not withdrawn since gets it once, and nobody else does.
KeepsContract == Contract!SSpec
=============================================================================
