---------------------------- MODULE MessageParse ----------------------------
(***************************************************************************)
(* A message from the broker (mqtt_client_message_cb and                   *)
(* tuya_link_thing_message_parse in tuyalink_core.c): three strings are    *)
(* copied to the heap, given to the user's on_messages, and freed.  The    *)
(* parser may stop on the way, and its result is not looked at.            *)
(*                                                                         *)
(* The heap is a few blocks.  The user holds blocks too, which it gets and *)
(* gives back in its callback, so a block the SDK freed may be the user's  *)
(* by the time a stale pointer to it is used.                              *)
(***************************************************************************)
EXTENDS Naturals, FiniteSets

CONSTANTS
  Blocks,     \* blocks of the heap
  Null,       \* the null pointer
  FailureSets,   \* what may go wrong in a behaviour: "json", or the
                 \* allocation for a field
  MaxUser     \* bound: blocks the user holds, so that three are left

Fields == {"device", "msgid", "data"}

ASSUME ParseAssumption ==
  /\ Null \notin Blocks
  /\ FailureSets \subseteq SUBSET (Fields \cup {"json"})
  /\ MaxUser \in Nat

VARIABLES
  owner,    \* of each block: "free", "message" or "user"
  out,      \* out_message: the pointers device_id, msgid and data_string
  present,  \* the fields the payload holds
  failures, \* what may go wrong
  step      \* the step that comes next

given == <<present, failures>>
pvars == <<owner, out, given, step>>

Steps == {"idle", "device", "validate", "msgid", "data", "callback",
          "free device", "free msgid", "free data", "undefined"}

ParseTypeOK ==
  /\ owner \in [Blocks -> {"free", "message", "user"}]
  /\ out \in [Fields -> Blocks \cup {Null}]
  /\ present \subseteq {"msgid", "data"}
  /\ failures \in FailureSets /\ step \in Steps

Cleared == [f \in Fields |-> Null]

ParseInit ==
  /\ owner = [b \in Blocks |-> "free"]
  /\ out = Cleared /\ present = {} /\ step = "idle" /\ failures \in FailureSets

-----------------------------------------------------------------------------
(* tuya_link_thing_message_parse                                           *)

\* out_message is cleared.  A topic with another prefix is refused before
\* anything is allocated, and delivered empty.  (A message for the raw channel
\* is not parsed and changes nothing here.)
\* Variant: the pointers of the last message are still there.
MessageNotCleared ==
  /\ step = "idle"
  /\ present' \in SUBSET {"msgid", "data"}
  /\ step' \in {"device", "callback"}
  /\ UNCHANGED <<owner, out, failures>>
Message ==
  /\ step = "idle"
  /\ out' = Cleared
  /\ present' \in SUBSET {"msgid", "data"}
  /\ step' \in {"device", "callback"}
  /\ UNCHANGED <<owner, failures>>

\* system_malloc for a field.
Alloc(f) ==
  \E b \in Blocks :
    /\ owner[b] = "free"
    /\ owner' = [owner EXCEPT ![b] = "message"]
    /\ out' = [out EXCEPT ![f] = b]

\* The parser gives up and frees what it has; the pointers stay.
GiveUp(freed) ==
  /\ owner' = [b \in Blocks |-> IF \E f \in freed : out[f] = b THEN "free" ELSE owner[b]]
  /\ UNCHANGED out

CopyDevice ==
  /\ step = "device"
  /\ \/ Alloc("device") /\ step' = "validate"
     \/ "device" \in failures /\ step' = "callback" /\ UNCHANGED <<owner, out>>
  /\ UNCHANGED given

Validate ==
  /\ step = "validate"
  /\ \/ step' = "msgid" /\ UNCHANGED <<owner, out>>
     \/ "json" \in failures /\ GiveUp({"device"}) /\ step' = "callback"
  /\ UNCHANGED given

CopyMsgid ==
  /\ step = "msgid"
  /\ \/ "msgid" \notin present /\ step' = "data" /\ UNCHANGED <<owner, out>>
     \/ "msgid" \in present /\ Alloc("msgid") /\ step' = "data"
     \/ /\ "msgid" \in present \cap failures
        /\ GiveUp({"device"}) /\ step' = "callback"
  /\ UNCHANGED given

CopyData ==
  /\ step = "data"
  /\ \/ "data" \notin present /\ UNCHANGED <<owner, out>>
     \/ "data" \in present /\ Alloc("data")
     \/ "data" \in present \cap failures /\ GiveUp({"device", "msgid"})
  /\ step' = "callback"
  /\ UNCHANGED given

-----------------------------------------------------------------------------
(* mqtt_client_message_cb: on_messages, whatever the parser returned, then *)
(* each pointer that is not NULL is freed.                                 *)

UserAllocates ==
  /\ step = "callback"
  /\ Cardinality({b \in Blocks : owner[b] = "user"}) < MaxUser
  /\ \E b \in Blocks : owner[b] = "free" /\ owner' = [owner EXCEPT ![b] = "user"]
  /\ UNCHANGED <<out, given, step>>

UserFrees ==
  /\ step = "callback"
  /\ \E b \in Blocks : owner[b] = "user" /\ owner' = [owner EXCEPT ![b] = "free"]
  /\ UNCHANGED <<out, given, step>>

CallbackReturns ==
  /\ step = "callback" /\ step' = "free device"
  /\ UNCHANGED <<owner, out, given>>

\* system_free of a field, and the step after it.  A block that is free
\* already makes the behaviour undefined.
Free(f, next) ==
  /\ \/ out[f] = Null /\ UNCHANGED owner /\ step' = next
     \/ /\ out[f] # Null
        /\ IF owner[out[f]] = "free"
             THEN UNCHANGED owner /\ step' = "undefined"
             ELSE owner' = [owner EXCEPT ![out[f]] = "free"] /\ step' = next
  /\ UNCHANGED <<out, given>>

FreeDevice == step = "free device" /\ Free("device", "free msgid")
\* Variant: the message id is forgotten.
FreeMsgidSkipped ==
  step = "free msgid" /\ step' = "free data" /\ UNCHANGED <<owner, out, given>>
FreeMsgid == step = "free msgid" /\ Free("msgid", "free data")
FreeData == step = "free data" /\ Free("data", "idle")

ParseUndefined == step = "undefined" /\ UNCHANGED pvars

ParseNext ==
  \/ Message
  \/ CopyDevice \/ Validate \/ CopyMsgid \/ CopyData
  \/ UserAllocates \/ UserFrees \/ CallbackReturns
  \/ FreeDevice \/ FreeMsgid \/ FreeData \/ ParseUndefined

ParseSpec == ParseInit /\ [][ParseNext]_pvars

-----------------------------------------------------------------------------
(* Properties.                                                             *)

\* The parser leaves no pointer to memory it has given back.
Clean == failures \subseteq {"device"}

\* Unless the parser fails after its first allocation, mqtt_client_message_cb
\* frees each string once, whoever got and freed memory in between.
FreedOnce == Clean => step # "undefined"

\* What on_messages is given is either absent or the message's own memory.
CallbackSeesMessage ==
  Clean /\ step = "callback" =>
    \A f \in Fields : out[f] # Null => owner[out[f]] = "message"

\* The message's memory is its own from the copy to the release.
MessageOwned == FreedOnce /\ CallbackSeesMessage

\* The SDK never takes a block that the user got in the meantime.
UserKeepsItsBlocks ==
  [][Clean => \A b \in Blocks :
       owner[b] = "user" /\ owner'[b] # "user" => step = "callback"]_pvars

\* Between two messages nothing of the last one is left allocated, wherever
\* its parsing stopped.
NothingLeaked == step = "idle" => \A b \in Blocks : owner[b] # "message"
=============================================================================
