------------------------------ MODULE TlsSocket ------------------------------
(***************************************************************************)
(* The descriptor of a TLS connection (network_wrapper.c over              *)
(* mbedtls_sockets_wrapper.c), for the MQTT client, whose context lives as *)
(* long as the client, and the HTTP client (http_client_wrapper.c), which  *)
(* makes a context for each request.  The contexts share one process, so   *)
(* they share the kernel's table: socket() gives the lowest free number,   *)
(* and close() of a number closes whatever it stands for now.              *)
(***************************************************************************)
EXTENDS Integers, FiniteSets

CONSTANTS
  Contexts,    \* the network contexts: "mqtt", "http"
  UserSets,    \* which of them the programs considered use
  MaxFd,       \* the last descriptor of the process
  StdFds,      \* open when the program starts: standard input and so on
  MaxAddrs,    \* bound: addresses a name resolves to
  MaxFiles     \* bound: descriptors the rest of the program holds

ASSUME TlsAssumption ==
  /\ Contexts \subseteq {"mqtt", "http"} /\ UserSets \subseteq SUBSET Contexts
  /\ MaxFd \in Nat /\ MaxAddrs \in Nat /\ MaxFiles \in Nat
  /\ StdFds \subseteq 0 .. MaxFd

VARIABLES
  table,    \* who holds each descriptor: a context, "std", "file" or "none"
  fd,       \* server_fd.fd of each context
  life,     \* of each context: "none", "idle", "linked" or "over"
  pc,       \* the step that comes next
  who,      \* the context the running call is about
  addrs,    \* addresses left to try
  users     \* the contexts this program uses

tvars == <<table, fd, life, pc, who, addrs, users>>

Fds == 0 .. MaxFd
Steps == {"app", "resolve", "socket", "connect", "handshake", "request", "hangup"}

TypeOK ==
  /\ table \in [Fds -> Contexts \cup {"std", "file", "none"}]
  /\ fd \in [Contexts -> -1 .. MaxFd]
  /\ life \in [Contexts -> {"none", "idle", "linked", "over"}]
  /\ pc \in Steps /\ who \in Contexts /\ addrs \in 0 .. MaxAddrs
  /\ users \in UserSets

Init ==
  /\ table = [n \in Fds |-> IF n \in StdFds THEN "std" ELSE "none"]
  /\ fd = [c \in Contexts |-> -1]
  /\ life = [c \in Contexts |-> "none"]
  /\ pc = "app" /\ who \in Contexts /\ addrs = 0
  /\ users \in UserSets

-----------------------------------------------------------------------------
(* The kernel.                                                             *)

FreeFds == {n \in Fds : table[n] = "none"}
Lowest(N) == CHOOSE n \in N : \A k \in N : n <= k

\* close(n): of a number that is not open, an error nobody looks at.
Closed(n) == IF n \in Fds THEN [table EXCEPT ![n] = "none"] ELSE table

\* The rest of the program opens and closes files, between two calls.
OpenFile ==
  /\ pc = "app" /\ FreeFds # {}
  /\ Cardinality({n \in Fds : table[n] = "file"}) < MaxFiles
  /\ table' = [table EXCEPT ![Lowest(FreeFds)] = "file"]
  /\ UNCHANGED <<fd, life, pc, who, addrs, users>>

CloseFile ==
  /\ pc = "app"
  /\ \E n \in Fds : table[n] = "file" /\ table' = Closed(n)
  /\ UNCHANGED <<fd, life, pc, who, addrs, users>>

-----------------------------------------------------------------------------
(* network_tls_init and network_tls_connect.                               *)

\* A context is cleared memory, so its descriptor is 0: mbedtls_net_init,
\* which would make it -1, is not called.  The MQTT client then waits to be
\* connected; the HTTP client connects at once.
Create(c) ==
  /\ pc = "app" /\ c \in users /\ life[c] = "none"
  /\ life' = [life EXCEPT ![c] = "idle"]
  /\ fd' = [fd EXCEPT ![c] = 0]
  /\ who' = c
  /\ pc' = IF c = "http" THEN "resolve" ELSE "app"
  /\ UNCHANGED <<table, addrs, users>>

StartConnect ==
  /\ pc = "app" /\ "mqtt" \in users /\ life["mqtt"] = "idle"
  /\ who' = "mqtt" /\ pc' = "resolve"
  /\ UNCHANGED <<table, fd, life, addrs, users>>

\* A certificate that does not parse, or a name that does not resolve, leaves
\* the descriptor as it was.
Resolve ==
  /\ pc = "resolve"
  /\ \/ pc' = "hangup" /\ UNCHANGED addrs
     \/ pc' = "socket" /\ addrs' \in 1 .. MaxAddrs
  /\ UNCHANGED <<table, fd, life, who, users>>

\* Variant: at the end of the addresses the connection is taken for made.
SocketExhaustedIsOk ==
  /\ pc = "socket"
  /\ IF addrs = 0 \/ FreeFds = {}
       THEN pc' = "handshake" /\ UNCHANGED <<table, fd, addrs>>
     ELSE /\ table' = [table EXCEPT ![Lowest(FreeFds)] = who]
          /\ fd' = [fd EXCEPT ![who] = Lowest(FreeFds)]
          /\ pc' = "connect" /\ UNCHANGED addrs
  /\ UNCHANGED <<life, who, users>>
\* One round of the loop over the addresses: socket() ...
Socket ==
  /\ pc = "socket"
  /\ IF addrs = 0
       THEN pc' = "hangup" /\ UNCHANGED <<table, fd, addrs>>
     ELSE IF FreeFds = {}
       THEN /\ fd' = [fd EXCEPT ![who] = -1]
            /\ addrs' = addrs - 1
            /\ UNCHANGED <<table, pc>>
     ELSE /\ table' = [table EXCEPT ![Lowest(FreeFds)] = who]
          /\ fd' = [fd EXCEPT ![who] = Lowest(FreeFds)]
          /\ pc' = "connect" /\ UNCHANGED addrs
  /\ UNCHANGED <<life, who, users>>

\* Variant: a connect that fails does not close its socket.
ConnectKeepsSocket ==
  /\ pc = "connect"
  /\ \/ pc' = "handshake" /\ UNCHANGED <<table, addrs>>
     \/ pc' = "socket" /\ addrs' = addrs - 1 /\ UNCHANGED table
  /\ UNCHANGED <<fd, life, who, users>>
\* ... and connect(); one that fails closes the descriptor and keeps its
\* number.
Connect ==
  /\ pc = "connect"
  /\ \/ pc' = "handshake" /\ UNCHANGED <<table, addrs>>
     \/ /\ table' = Closed(fd[who])
        /\ pc' = "socket" /\ addrs' = addrs - 1
  /\ UNCHANGED <<fd, life, who, users>>

\* The TLS handshake; the HTTP client goes on to its request.
Handshake ==
  /\ pc = "handshake"
  /\ \/ pc' = "hangup" /\ UNCHANGED life
     \/ /\ life' = [life EXCEPT ![who] = "linked"]
        /\ pc' = IF who = "http" THEN "request" ELSE "app"
  /\ UNCHANGED <<table, fd, who, addrs, users>>

\* HTTPClient_Send, which returns whatever happens.
Request ==
  /\ pc = "request" /\ pc' = "hangup"
  /\ UNCHANGED <<table, fd, life, who, addrs, users>>

-----------------------------------------------------------------------------
(* network_tls_disconnect and network_tls_destroy.                         *)

\* The MQTT client gives its connection up, or is deinitialised.
StartHangup ==
  /\ pc = "app" /\ "mqtt" \in users /\ life["mqtt"] \in {"idle", "linked"}
  /\ who' = "mqtt" /\ pc' = "hangup"
  /\ UNCHANGED <<table, fd, life, addrs, users>>

\* Variant: the descriptor keeps its number.
HangupKeepsNumber ==
  /\ pc = "hangup" /\ pc' = "app"
  /\ table' = Closed(fd[who])
  /\ life' = [life EXCEPT ![who] = IF who = "http" THEN "none" ELSE "idle"]
  /\ UNCHANGED <<fd, who, addrs, users>>
\* mbedtls_net_free closes the number in the context, unless it is -1.  The
\* HTTP client then drops the context.
Hangup ==
  /\ pc = "hangup" /\ pc' = "app"
  /\ table' = Closed(fd[who])
  /\ fd' = [fd EXCEPT ![who] = -1]
  /\ life' = [life EXCEPT ![who] = IF who = "http" THEN "none" ELSE "idle"]
  /\ UNCHANGED <<who, addrs, users>>

Destroy ==
  /\ pc = "app" /\ "mqtt" \in users /\ life["mqtt"] = "idle" /\ fd["mqtt"] = -1
  /\ life' = [life EXCEPT !["mqtt"] = "over"]
  /\ UNCHANGED <<table, fd, pc, who, addrs, users>>

Next ==
  \/ OpenFile \/ CloseFile
  \/ \E c \in Contexts : Create(c)
  \/ StartConnect \/ Resolve \/ Socket \/ Connect \/ Handshake \/ Request
  \/ StartHangup \/ Hangup \/ Destroy

Spec == Init /\ [][Next]_tvars

-----------------------------------------------------------------------------
(* Properties.                                                             *)

\* A program with one context for all its life, as the daemon, whatever of
\* connecting failed: the number of a linked context stands for the socket it
\* opened, which no earlier attempt closed or gave away.
LinkedOwnsSocket ==
  users = {"mqtt"} =>
    \A c \in users : life[c] = "linked" /\ pc # "hangup" => table[fd[c]] = c

\* Whatever failed on the way, no socket is left open without its context:
\* between two calls each socket is that of a linked context.
NoSocketLeak ==
  pc = "app" => \A n \in Fds : table[n] \in Contexts =>
                   life[table[n]] = "linked" /\ fd[table[n]] = n

\* Nor does the SDK close a file of such a program.
FilesKept ==
  [][users = {"mqtt"} /\ pc # "app" =>
       \A n \in Fds : table[n] = "file" => table'[n] = "file"]_tvars
=============================================================================
