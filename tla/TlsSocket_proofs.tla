--------------------------- MODULE TlsSocket_proofs ---------------------------
(***************************************************************************)
(* The descriptors of the TLS contexts, for any table of descriptors, any  *)
(* number of addresses and of files of the rest of the program.            *)
(***************************************************************************)
EXTENDS TlsSocket, WellFoundedInduction, TLAPS

Less == {ss \in Nat \X Nat : ss[1] < ss[2]}

\* A set of naturals has a least member.
LEMMA Least ==
  ASSUME NEW T, T \subseteq Nat, T # {}
  PROVE  \E m \in T : \A k \in T : m <= k
<1>1. IsWellFoundedOn(Less, Nat)
  BY NatLessThanWellFounded, Zenon DEF Less, OpToRel
<1>2. PICK m \in T : \A k \in T : ~ (<<k, m>> \in Less)
  BY <1>1, WFMin
<1>3. \A k \in T : ~ (k < m) /\ k \in Nat /\ m \in Nat
  BY <1>2 DEF Less
<1> QED
  BY <1>3

\* A socket's number is the one in its context, and only a linked context has
\* one between two calls.  While a context is connected anew it has none from
\* before.
Sockets ==
  /\ \A n \in Fds : table[n] \in Contexts =>
       /\ fd[table[n]] = n
       /\ \/ life[table[n]] = "linked"
          \/ table[n] = who /\ pc \in {"connect", "handshake", "hangup"}
  /\ pc \in {"resolve", "socket", "connect", "handshake"} => life[who] # "linked"
  /\ pc = "connect" => addrs # 0

IInv == TypeOK /\ Sockets

\* What the proofs use of the assumption on the constants.
LEMMA Fixed ==
  /\ MaxFd \in Nat /\ MaxAddrs \in Nat
  /\ \A c \in Contexts : c \notin {"std", "file", "none"}
  /\ \A c \in Contexts : c \in {"mqtt", "http"}
  /\ UserSets \subseteq SUBSET Contexts
BY TlsAssumption

\* socket() gives a free number as long as there is one.
LEMMA LowestIsFree ==
  ASSUME FreeFds # {}
  PROVE  Lowest(FreeFds) \in FreeFds
<1>1. FreeFds \subseteq Nat
  BY Fixed DEF FreeFds, Fds
<1>2. \E n \in FreeFds : \A k \in FreeFds : n <= k
  <2> HIDE DEF FreeFds
  <2> QED BY <1>1, Least
<1> QED BY <1>2, Zenon DEF Lowest

\* A free number stands for nothing.
LEMMA FreeIsFree == \A n \in FreeFds : n \in Fds /\ table[n] = "none"
BY DEF FreeFds

\* A program that starts has no context and no socket.
LEMMA InvInit == Init => IInv
<1> SUFFICES ASSUME Init PROVE IInv
  OBVIOUS
<1>1. TypeOK
  BY Fixed DEF Init, TypeOK, Fds, Steps
<1>2. \A n \in Fds : table[n] \notin Contexts
  BY Fixed DEF Init
<1> QED BY <1>1, <1>2 DEF Init, IInv, Sockets

\* What close() does to the table.
LEMMA ClosedTable ==
  ASSUME TypeOK, NEW n \in -1 .. MaxFd
  PROVE  /\ Closed(n) \in [Fds -> Contexts \cup {"std", "file", "none"}]
         /\ \A k \in Fds : Closed(n)[k] = IF k = n THEN "none" ELSE table[k]
BY Fixed DEF Closed, TypeOK, Fds

\* Every step keeps each socket with its context.
LEMMA InvStep == IInv /\ [Next]_tvars => IInv'
<1> SUFFICES ASSUME IInv, [Next]_tvars PROVE IInv'
  OBVIOUS
<1>0. /\ who \in Contexts /\ fd[who] \in -1 .. MaxFd
      /\ \A c \in Contexts : c \notin {"std", "file", "none"}
      /\ table \in [Fds -> Contexts \cup {"std", "file", "none"}]
  BY Fixed DEF IInv, TypeOK
<1> USE DEF IInv
<1>1. ASSUME OpenFile PROVE IInv'
  <2>1. Lowest(FreeFds) \in Fds
    BY <1>1, LowestIsFree, FreeIsFree DEF OpenFile
  <2> QED BY <1>0, <1>1, <2>1 DEF OpenFile, TypeOK, Sockets
<1>2. ASSUME CloseFile PROVE IInv'
  <2>1. PICK n \in Fds : table' = Closed(n)
    BY <1>2 DEF CloseFile
  <2>2. n \in -1 .. MaxFd
    BY Fixed DEF Fds
  <2> QED BY <1>0, <1>2, <2>1, <2>2, ClosedTable DEF CloseFile, TypeOK, Sockets
<1>3. ASSUME NEW c \in Contexts, Create(c) PROVE IInv'
  <2>1. \A n \in Fds : table[n] # c
    BY <1>3 DEF Create, Sockets
  <2>2. 0 \in -1 .. MaxFd
    BY Fixed
  <2>3. TypeOK'
    BY <1>3, <2>2 DEF Create, TypeOK, Steps
  <2>4. Sockets'
    BY <1>0, <1>3, <2>1 DEF Create, TypeOK, Sockets
  <2> QED BY <2>3, <2>4
<1>4. ASSUME StartConnect \/ StartHangup PROVE IInv'
  <2>1. "mqtt" \in Contexts
    BY <1>4, Fixed DEF StartConnect, StartHangup, TypeOK
  <2> QED BY <1>4, <2>1 DEF StartConnect, StartHangup, TypeOK, Sockets, Steps
<1>5. ASSUME Resolve PROVE IInv'
  BY <1>5, Fixed DEF Resolve, TypeOK, Sockets, Steps
<1>6. ASSUME Socket PROVE IInv'
  <2>1. \A n \in Fds : table[n] # who
    BY <1>0, <1>6 DEF Socket, Sockets
  <2>2. CASE addrs = 0
    BY <1>6, <2>2 DEF Socket, TypeOK, Sockets, Steps
  <2>3. CASE addrs # 0 /\ FreeFds = {}
    <3>1. addrs - 1 \in 0 .. MaxAddrs
      BY <2>3, Fixed DEF TypeOK
    <3>2. TypeOK'
      BY <1>0, <1>6, <2>3, <3>1, Fixed DEF Socket, TypeOK
    <3> QED BY <1>0, <1>6, <2>1, <2>3, <3>2 DEF Socket, TypeOK, Sockets
  <2>4. CASE addrs # 0 /\ FreeFds # {}
    <3>1. Lowest(FreeFds) \in Fds
      BY <2>4, LowestIsFree, FreeIsFree
    <3>2. Lowest(FreeFds) \in -1 .. MaxFd
      BY <3>1, Fixed DEF Fds
    <3>3. TypeOK'
      BY <1>0, <1>6, <2>4, <3>1, <3>2 DEF Socket, TypeOK, Steps
    <3> QED BY <1>0, <1>6, <2>1, <2>4, <3>1, <3>3 DEF Socket, TypeOK, Sockets
  <2> QED BY <2>2, <2>3, <2>4
<1>7. ASSUME Connect PROVE IInv'
  <2>1. CASE pc' = "handshake" /\ UNCHANGED <<table, addrs>>
    BY <1>7, <2>1 DEF Connect, TypeOK, Sockets, Steps
  <2>2. CASE table' = Closed(fd[who]) /\ pc' = "socket" /\ addrs' = addrs - 1
    <3>0. addrs - 1 \in 0 .. MaxAddrs
      BY <1>7, Fixed DEF Connect, TypeOK, Sockets
    <3>1. TypeOK'
      BY <1>0, <1>7, <2>2, <3>0, ClosedTable DEF Connect, TypeOK, Steps
    <3>2. \A k \in Fds : table'[k] = IF k = fd[who] THEN "none" ELSE table[k]
      BY <1>0, <2>2, ClosedTable
    <3> QED BY <1>0, <1>7, <2>2, <3>1, <3>2 DEF Connect, Sockets
  <2> QED BY <1>7, <2>1, <2>2 DEF Connect
<1>8. ASSUME Handshake \/ Request PROVE IInv'
  BY <1>0, <1>8 DEF Handshake, Request, TypeOK, Sockets, Steps
<1>9. ASSUME Hangup PROVE IInv'
  <2>1. \A k \in Fds : table'[k] = IF k = fd[who] THEN "none" ELSE table[k]
    BY <1>0, <1>9, ClosedTable DEF Hangup
  <2>2. TypeOK'
    BY <1>0, <1>9, ClosedTable, Fixed DEF Hangup, TypeOK, Steps
  <2> QED BY <1>0, <1>9, <2>1, <2>2 DEF Hangup, TypeOK, Sockets
<1>10. ASSUME Destroy \/ UNCHANGED tvars PROVE IInv'
  <2>1. CASE Destroy
    <3>1. "mqtt" \in Contexts
      BY <2>1, Fixed DEF Destroy, TypeOK
    <3> QED BY <2>1, <3>1 DEF Destroy, TypeOK, Sockets
  <2>2. CASE UNCHANGED tvars
    BY <2>2 DEF tvars, TypeOK, Sockets
  <2> QED BY <1>10, <2>1, <2>2
<1> QED
  BY <1>1, <1>2, <1>3, <1>4, <1>5, <1>6, <1>7, <1>8, <1>9, <1>10 DEF Next

\* Types, and whose each socket is, in every behaviour.
THEOREM Invariance == Spec => []IInv
BY InvInit, InvStep, PTL DEF Spec

\* Every path through network_tls_connect that fails, and every disconnect,
\* leaves no socket behind.
THEOREM SocketNotLeaked == Spec => []NoSocketLeak
<1>1. IInv => NoSocketLeak
  BY DEF IInv, Sockets, NoSocketLeak
<1> QED BY <1>1, Invariance, PTL

-----------------------------------------------------------------------------
(* A program with one context, as the daemon.  A descriptor outlives its   *)
(* number only inside a call, where the rest of the program opens nothing; *)
(* between calls the number in the context, if it is not -1, stands for    *)
(* the context's socket or for standard input.                             *)

Alone ==
  users = {"mqtt"} =>
    LET f == fd["mqtt"] IN
    /\ pc # "app" => who = "mqtt"
    /\ pc # "request"
    /\ life["mqtt"] = "none" => pc = "app" /\ table[0] = "std"
    /\ pc \in {"app", "resolve"} /\ life["mqtt"] # "none" =>
         f = -1 \/ table[f] \in {"mqtt", "std"}
    /\ pc \in {"socket", "hangup"} => f = -1 \/ table[f] # "file"
    /\ pc \in {"connect", "handshake"} => f \in Fds /\ table[f] = "mqtt"
    /\ life["mqtt"] = "linked" => pc \in {"app", "hangup"}
    /\ life["mqtt"] = "linked" /\ pc = "app" => f \in Fds /\ table[f] = "mqtt"

\* So it starts, if standard input is open.
LEMMA AloneInit ==
  ASSUME 0 \in StdFds
  PROVE  Init => Alone
BY Fixed, TlsAssumption DEF Init, Alone, Fds

\* Every step of such a program keeps its number off the files of others.
LEMMA AloneStep == IInv /\ Alone /\ [Next]_tvars => Alone'
<1> SUFFICES ASSUME IInv, Alone, [Next]_tvars, users' = {"mqtt"} PROVE Alone'
  BY DEF Alone
<1>a. TypeOK
  BY DEF IInv
<1>b. users' = users
  BY DEF Next, tvars, OpenFile, CloseFile, Create, StartConnect, Resolve, Socket,
    Connect, Handshake, Request, StartHangup, Hangup, Destroy
<1>c. "mqtt" \in Contexts /\ users = {"mqtt"}
  BY <1>a, <1>b, Fixed DEF TypeOK
<1>0. /\ fd["mqtt"] \in -1 .. MaxFd /\ 0 \in Fds /\ MaxFd \in Nat
      /\ "mqtt" \in Contexts /\ users = {"mqtt"}
      /\ table \in [Fds -> Contexts \cup {"std", "file", "none"}]
      /\ fd \in [Contexts -> -1 .. MaxFd]
      /\ \A n \in -1 .. MaxFd : n = -1 \/ n \in Fds
  BY <1>a, <1>c, Fixed DEF TypeOK, Fds
<1>1. CASE OpenFile
  <2>1. Lowest(FreeFds) \in Fds /\ table[Lowest(FreeFds)] = "none"
    BY <1>1, LowestIsFree, FreeIsFree DEF OpenFile
  <2> QED BY <1>0, <1>1, <2>1 DEF OpenFile, Alone
<1>2. CASE CloseFile
  <2>1. PICK n \in Fds : table[n] = "file" /\ table' = Closed(n)
    BY <1>2 DEF CloseFile
  <2>2. n \in -1 .. MaxFd
    BY Fixed DEF Fds
  <2>3. \A k \in Fds : table'[k] = IF k = n THEN "none" ELSE table[k]
    BY <1>a, <2>1, <2>2, ClosedTable
  <2> QED BY <1>0, <1>2, <2>1, <2>3 DEF CloseFile, Alone
<1>3. ASSUME NEW c \in Contexts, Create(c) PROVE Alone'
  <2>1. c = "mqtt"
    BY <1>0, <1>3 DEF Create
  <2>2. 0 \in -1 .. MaxFd
    BY Fixed
  <2> QED BY <1>a, <1>0, <1>3, <2>1, <2>2 DEF Create, Alone, TypeOK
<1>4. CASE StartConnect \/ StartHangup
  BY <1>0, <1>4 DEF StartConnect, StartHangup, Alone
<1>5. CASE Resolve
  BY <1>0, <1>5 DEF Resolve, Alone
<1>6. CASE Socket
  <2>0. who = "mqtt"
    BY <1>0, <1>6 DEF Socket, Alone
  <2>1. CASE addrs = 0
    BY <1>0, <1>6, <2>0, <2>1 DEF Socket, Alone
  <2>2. CASE addrs # 0 /\ FreeFds = {}
    BY <1>0, <1>6, <2>0, <2>2 DEF Socket, Alone
  <2>3. CASE addrs # 0 /\ FreeFds # {}
    <3>1. Lowest(FreeFds) \in Fds
      BY <2>3, LowestIsFree, FreeIsFree
    <3> QED BY <1>0, <1>6, <2>0, <2>3, <3>1 DEF Socket, Alone
  <2> QED BY <2>1, <2>2, <2>3
<1>7. CASE Connect
  <2>0. who = "mqtt"
    BY <1>0, <1>7 DEF Connect, Alone
  <2>1. \A k \in Fds : Closed(fd["mqtt"])[k] = IF k = fd["mqtt"] THEN "none" ELSE table[k]
    BY <1>a, <1>0, ClosedTable
  <2> QED BY <1>0, <1>7, <2>0, <2>1 DEF Connect, Alone
<1>8. CASE Handshake \/ Request
  BY <1>a, <1>0, <1>8 DEF Handshake, Request, Alone, TypeOK
<1>9. CASE Hangup
  <2>0. who = "mqtt"
    BY <1>0, <1>9 DEF Hangup, Alone
  <2>1. life'["mqtt"] = "idle" /\ fd'["mqtt"] = -1 /\ pc' = "app"
    BY <1>a, <1>0, <1>9, <2>0 DEF Hangup, TypeOK
  <2> QED BY <2>1 DEF Alone
<1>10. CASE Destroy \/ UNCHANGED tvars
  <2>1. CASE Destroy
    BY <1>a, <1>0, <2>1 DEF Destroy, Alone, TypeOK
  <2>2. CASE UNCHANGED tvars
    BY <1>0, <2>2 DEF tvars, Alone
  <2> QED BY <1>10, <2>1, <2>2
<1> QED
  BY <1>1, <1>2, <1>3, <1>4, <1>5, <1>6, <1>7, <1>8, <1>9, <1>10 DEF Next

\* In a program with one context that starts with descriptor 0 open, whatever
\* fails in network_tls_connect, the number of a linked context stands for the
\* socket the context opened.
THEOREM OwnSocket ==
  ASSUME 0 \in StdFds
  PROVE  Spec => []LinkedOwnsSocket
<1>1. Init => Alone
  BY AloneInit
<1>2. Alone => LinkedOwnsSocket
  <2> SUFFICES ASSUME Alone, users = {"mqtt"}, life["mqtt"] = "linked", pc # "hangup"
               PROVE  table[fd["mqtt"]] = "mqtt"
    BY DEF LinkedOwnsSocket
  <2> QED BY DEF Alone
<1> QED BY <1>1, <1>2, AloneStep, Invariance, PTL DEF Spec

\* Nor does mbedtls_net_free, which closes the number it finds in such a
\* program's context, close a file of the rest of the program.
THEOREM OtherFilesKept ==
  ASSUME 0 \in StdFds
  PROVE  Spec => FilesKept
<1>1. Init => Alone
  BY AloneInit
<1>2. IInv /\ Alone /\ [Next]_tvars =>
        [users = {"mqtt"} /\ pc # "app" =>
           \A n \in Fds : table[n] = "file" => table'[n] = "file"]_tvars
  <2> SUFFICES ASSUME IInv, Alone, Next, users = {"mqtt"}, pc # "app",
                      NEW n \in Fds, table[n] = "file"
               PROVE  table'[n] = "file"
    OBVIOUS
  <2>1. /\ who = "mqtt" /\ "mqtt" \in Contexts
        /\ fd["mqtt"] \in -1 .. MaxFd
        /\ table \in [Fds -> Contexts \cup {"std", "file", "none"}]
    BY Fixed DEF IInv, TypeOK, Alone
  <2>2. \A k \in Fds : Closed(fd["mqtt"])[k] = IF k = fd["mqtt"] THEN "none" ELSE table[k]
    BY <2>1, ClosedTable DEF IInv
  <2>3. FreeFds # {} => Lowest(FreeFds) \in Fds /\ table[Lowest(FreeFds)] = "none"
    BY LowestIsFree, FreeIsFree
  <2>4. CASE Socket
    BY <2>1, <2>3, <2>4 DEF Socket
  <2>5. CASE Connect \/ Hangup
    <3>1. n # fd["mqtt"]
      BY <2>1, <2>5, Fixed DEF Connect, Hangup, Alone, Fds
    <3>2. table' = Closed(fd["mqtt"]) \/ table' = table
      BY <2>1, <2>5 DEF Connect, Hangup
    <3> QED BY <2>2, <3>1, <3>2
  <2>6. CASE Resolve \/ Handshake \/ Request
    BY <2>6 DEF Resolve, Handshake, Request
  <2> QED BY <2>4, <2>5, <2>6 DEF Next, OpenFile, CloseFile, Create, StartConnect,
        StartHangup, Destroy
<1> QED BY <1>1, <1>2, AloneStep, Invariance, PTL DEF Spec, FilesKept
=============================================================================
