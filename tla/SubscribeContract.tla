-------------------------- MODULE SubscribeContract --------------------------
(***************************************************************************)
(* What the subscription API of tuyalink_core.c promises: a message is     *)
(* given once to every subscription of its topic that was there when it    *)
(* came and has not been withdrawn since, and to nothing else.             *)
(***************************************************************************)
CONSTANT Topics

VARIABLES
  subs,      \* the subscriptions, records with a field topic
  pending,   \* those the message being delivered is still owed to
  busy       \* a message is being delivered

scvars == <<subs, pending, busy>>

SInit == subs = {} /\ pending = {} /\ busy = FALSE

\* A subscription made during a delivery does not take part in it.
Add ==
  /\ \E e \in subs' \ subs : subs' = subs \cup {e}
  /\ UNCHANGED <<pending, busy>>

\* Withdrawing a topic withdraws what it is still owed.
Withdraw ==
  /\ \E t \in Topics :
       LET gone == {e \in subs : e.topic = t}
       IN subs' = subs \ gone /\ pending' = pending \ gone
  /\ UNCHANGED busy

Arrive ==
  /\ ~busy /\ busy' = TRUE
  /\ \E t \in Topics : pending' = {e \in subs : e.topic = t}
  /\ UNCHANGED subs

Give ==
  /\ \E e \in pending : pending' = pending \ {e}
  /\ UNCHANGED <<subs, busy>>

Delivered ==
  /\ busy /\ pending = {}
  /\ busy' = FALSE
  /\ UNCHANGED <<subs, pending>>

SNext == Add \/ Withdraw \/ Arrive \/ Give \/ Delivered

SSpec == SInit /\ [][SNext]_scvars
=============================================================================
