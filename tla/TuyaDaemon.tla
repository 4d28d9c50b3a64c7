----------------------------- MODULE TuyaDaemon -----------------------------
(***************************************************************************)
(* The daemon (main.c, tuya_client.c, telemetry.c) as the user of the      *)
(* link: initialise, connect once, then loop and report until a signal     *)
(* clears running, and deinitialise.                                       *)
(***************************************************************************)
EXTENDS TuyaLink

VARIABLES
  main,     \* where main() is, or was when it entered the SDK
  running   \* cleared by the signal handler at any instant

vars == <<linkVars, main, running>>

MainSteps == {"init", "connect", "connecting", "while", "report", "pause",
              "deinit", "bail", "stopping", "bailing", "stopped", "failed"}

Exited == main \in {"stopped", "failed"}
Killed == pc = "killed"

Init ==
  /\ LinkInit
  /\ main = "init"
  /\ running = TRUE

TypeOK ==
  /\ LinkTypeOK
  /\ main \in MainSteps
  /\ running \in BOOLEAN

-----------------------------------------------------------------------------
(* main().  A step that calls the SDK moves main to where it resumes when  *)
(* pc is "app" again.                                                      *)

\* A failing tuya_client_init exits at once, without deinit.
MainInit ==
  /\ main = "init"
  /\ \/ ApiInit /\ main' = "connect"
     \/ ApiInitFails /\ main' = "failed"
  /\ UNCHANGED running

MainConnect ==
  /\ main = "connect"
  /\ ApiConnect
  /\ main' = "connecting"
  /\ UNCHANGED running

\* The result of tuya_client_connect: the loop, or deinit and exit.
MainConnected ==
  /\ main = "connecting" /\ pc = "app"
  /\ main' = IF rc = "ok" THEN "while" ELSE "bail"
  /\ UNCHANGED <<linkVars, running>>

\* Variant: the loop does not read running.
MainLoopUnchecked ==
  /\ main = "while" /\ ApiLoop
  /\ main' = "report"
  /\ UNCHANGED running

\* while (running) tuya_client_loop(): running is read here and not again
\* before the report.
MainLoop ==
  /\ main = "while" /\ running
  /\ ApiLoop
  /\ main' = "report"
  /\ UNCHANGED running

MainLoopEnds ==
  /\ main = "while" /\ pc = "app" /\ ~running
  /\ main' = "deinit"
  /\ UNCHANGED <<linkVars, running>>

\* telemetry_report: skipped when a collector fails or the client is not
\* connected.
MainReport ==
  /\ main = "report"
  /\ isConnected
  /\ ApiReport
  /\ main' = "pause"
  /\ UNCHANGED running

MainSkipReport ==
  /\ main = "report" /\ pc = "app"
  /\ main' = "pause"
  /\ UNCHANGED <<linkVars, running>>

\* if (running) sleep(10): ends by itself or by a signal.
MainPause ==
  /\ main = "pause" /\ pc = "app"
  /\ main' = "while"
  /\ UNCHANGED <<linkVars, running>>

MainDeinit ==
  /\ \/ main = "deinit" /\ main' = "stopping"
     \/ main = "bail" /\ main' = "bailing"
  /\ ApiDeinit
  /\ UNCHANGED running

MainExit ==
  /\ pc = "app"
  /\ \/ main = "stopping" /\ main' = "stopped"
     \/ main = "bailing" /\ main' = "failed"
  /\ UNCHANGED <<linkVars, running>>

Main == \/ MainInit \/ MainConnect \/ MainConnected \/ MainLoop \/ MainLoopEnds
        \/ MainReport \/ MainSkipReport \/ MainPause \/ MainDeinit \/ MainExit

\* handle_signal runs between any two instructions.
Signal ==
  /\ running /\ ~Exited /\ ~Killed
  /\ running' = FALSE
  /\ UNCHANGED <<linkVars, main>>

\* The handler is installed without SA_RESTART: a signal during connect(2)
\* makes it fail with EINTR.
SignalInterruptsDial ==
  /\ running /\ pc = "dial"
  /\ running' = FALSE
  /\ Goto("hangup")
  /\ UNCHANGED <<ctxVars, mqttVars, client, wireVars, brokerVars, main>>

\* The process has ended.
Ended == (Exited \/ Killed) /\ UNCHANGED vars

SdkStep == LinkStep /\ UNCHANGED <<main, running>>
EnvStep == ~Exited /\ ~Killed /\ Environment /\ UNCHANGED <<main, running>>

Next == Main \/ SdkStep \/ EnvStep \/ Signal \/ SignalInterruptsDial \/ Ended

Spec == Init /\ [][Next]_vars

(***************************************************************************)
(* Fairness.  The thread keeps running.  ProcessLoop returns when its      *)
(* deadline passes.  The loop runs again and again while the clock         *)
(* advances, so a keep-alive that stays due is sent, and a ping that stays *)
(* unanswered by a peer that is gone times out (KeepAlive.tla shows when). *)
(* A broker that is up reads what it is sent.  No fairness is asked of the *)
(* network, of signals, of deliveries or of faults.                        *)
(***************************************************************************)
Fairness ==
  /\ WF_vars(Main)
  /\ WF_vars(SdkStep)
  /\ WF_vars(EnvStep /\ BrokerRead)
  /\ SF_vars(SdkStep /\ TimeUp)
  /\ SF_vars(SdkStep /\ Ping)
  /\ SF_vars(SdkStep /\ tcp # "up" /\ PingTimeout)

FairSpec == Spec /\ Fairness

-----------------------------------------------------------------------------
(* Safety.                                                                 *)

\* tuya_mqtt_connected answers true only while a socket is open whose broker
\* has answered the auto-subscribe sent on that same connection: the flag
\* never outlives its connection, across any number of reconnects.  Only
\* tuya_mqtt_deinit leaves the flag as it is, with the client released.
ConnectedMeansAnswered ==
  isConnected /\ client = "live" => tcp # "closed" /\ subscription # "none"

\* What the source's comment says the flag stands for: the auto-subscribe
\* succeeded.
ConnectedMeansSubscribed ==
  isConnected => subscription # "refused"

\* Whenever the main loop is between two SDK calls, the state machine's state
\* tells whether a socket is open.  A state that says "linked" without a
\* socket yields on a dead context for ever; the converse leaks a socket at
\* the next connect.
StateMatchesSocket ==
  pc = "app" /\ main \in {"while", "report", "pause", "deinit"} =>
    (tcp # "closed" <=> state \in {"SUBSCRIBING", "SUBSCRIBE_COMPLETE", "YIELD"})

\* A socket is opened only when none is open, and the process returns from
\* main with the socket closed and the client object released.
NoSocketLeak ==
  /\ pc = "dial" => tcp = "closed"
  /\ Exited => tcp = "closed" /\ client # "live"

\* No lost wake-up: while the state machine waits in SUBSCRIBING on a healthy
\* connection, the answer it waits for is on its way: either the SUBSCRIBE
\* whose identifier it kept is still travelling, or the SUBACK is.
SubackIsComing ==
  state = "SUBSCRIBING" /\ tcp = "up" =>
    \/ Up("SUBSCRIBE", autoSubId) \in {outbox[i] : i \in DOMAIN outbox}
    \/ \E i \in DOMAIN inbox : inbox[i].type = "SUBACK" /\ inbox[i].id = autoSubId

\* MQTT's order as the broker sees it: CONNECT comes first and once on a
\* connection, nothing else before it is accepted, and no report before the
\* auto-subscribe is answered.
ProtocolOrder ==
  \A i \in DOMAIN outbox :
    /\ outbox[i].type = "CONNECT" => i = 1 /\ ~session
    /\ outbox[i].type # "CONNECT" => session
    /\ outbox[i].type = "PUBLISH" => subscription # "none"

\* A connection that breaks makes the transport's send return an error; it
\* does not end the process.
NeverKilled == ~Killed

-----------------------------------------------------------------------------
(* The contract, and liveness.                                             *)

\* The daemon's link implements LinkContract.
Contract == INSTANCE LinkContract WITH
  conn <- IF tcp = "closed" THEN "none"
          ELSE IF subscription = "none" THEN "open" ELSE "acked",
  told <- isConnected /\ client = "live",
  over <- Exited \/ Killed

ImplementsContract == Contract!CSpec

\* Once the faults stop, the daemon gets connected again and again, or has
\* ended: no interleaving of breaks, late answers and retries leaves it
\* waiting.
Recovers == []<>(isConnected \/ Exited \/ Killed)

\* A connection the program believes in and that is gone is noticed.
LossNoticed == isConnected /\ tcp # "up" ~> ~isConnected \/ Exited \/ Killed

\* A signal ends the process, wherever it arrives.
Shutdown == ~running ~> Exited \/ Killed
=============================================================================
