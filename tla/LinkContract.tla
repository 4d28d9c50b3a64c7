---------------------------- MODULE LinkContract ----------------------------
(***************************************************************************)
(* What tuyalink_core.c promises the program that uses it, with nothing of *)
(* how: a connection is opened, the broker answers its auto-subscribe, the *)
(* program is then told that it is connected, and it is told of the loss   *)
(* no later than the connection is given up.                               *)
(***************************************************************************)
VARIABLES
  conn,    \* "none", "open", or "acked": the broker answered the subscribe
  told,    \* what tuya_mqtt_connected answers
  over     \* the process has ended

cvars == <<conn, told, over>>

CInit == conn = "none" /\ told = FALSE /\ over = FALSE

Open ==
  /\ ~over /\ conn = "none"
  /\ conn' = "open" /\ UNCHANGED <<told, over>>

Ack ==
  /\ ~over /\ conn = "open" /\ ~told
  /\ conn' = "acked" /\ UNCHANGED <<told, over>>

Announce ==
  /\ ~over /\ conn = "acked" /\ ~told
  /\ told' = TRUE /\ UNCHANGED <<conn, over>>

\* The connection is given up and the program told so in one step.
GiveUp ==
  /\ ~over /\ conn # "none"
  /\ conn' = "none" /\ told' = FALSE /\ UNCHANGED over

\* The process ends with no connection open, or is killed with one.
End ==
  /\ ~over /\ over' = TRUE
  /\ UNCHANGED <<conn, told>>

CNext == Open \/ Ack \/ Announce \/ GiveUp \/ End

CSpec == CInit /\ [][CNext]_cvars
=============================================================================
