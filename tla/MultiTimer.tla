------------------------------ MODULE MultiTimer ------------------------------
(***************************************************************************)
(* The software timers of the SDK (utils/MultiTimer.c): a linked list of   *)
(* timers in the order of their deadlines, and the loop that removes the   *)
(* expired ones from its front and calls their callbacks, which may start  *)
(* and stop timers themselves.                                             *)
(*                                                                         *)
(* The list is modelled with its pointers: link[p] is what the pointer at  *)
(* place p holds, where a place is the head of the list or the next field  *)
(* of a timer.  A timer taken off the list keeps its next field.           *)
(***************************************************************************)
EXTENDS Naturals, FiniteSets, FiniteSetsExt

CONSTANTS
  Timers,
  Head,            \* the place timerList
  Null,
  Modulus,         \* of the tick counter: 2^32 in the code
  Delays,          \* times a timer is started with
  Periods,         \* repeat intervals, 0 for one shot
  Settings         \* the kinds of behaviour considered

\* What a callback may do, and to which timer: its own, the one whose next
\* field the loop holds as its place, or another.
Operations == {"start", "stop"}
Whose == {"own", "place", "other"}

\* The clock runs from first to last, across the wrap when last is the smaller.
\* callbacks: what the callbacks do, and to which timers.
ASSUME TimerAssumption ==
  /\ Head \notin Timers /\ Null \notin Timers /\ Head # Null
  /\ Modulus \in Nat \ {0}
  /\ IsFiniteSet(Timers)
  /\ Delays \subseteq 0 .. Modulus \div 2
  /\ Periods \subseteq 0 .. Modulus \div 2
  /\ Settings \subseteq [first : 0 .. Modulus - 1, last : 0 .. Modulus - 1,
                         callbacks : SUBSET (Operations \X Whose)]

VARIABLES
  ticks,        \* platformTicksFunction()
  link,         \* the pointers
  deadline, period,
  due,          \* what the user asked for: ticks left, or Off
  pc,           \* "app", "yield", "callback", "undefined"
  nextTimer,    \* of MultiTimerYield: the place the loop is at
  running,      \* its entry: the timer whose callback runs
  setting       \* the kind of this behaviour

tvars == <<ticks, link, deadline, period, due, pc, nextTimer, running, setting>>

Off == Modulus
TickValues == 0 .. Modulus - 1
Places == {Head} \cup Timers

TimerTypeOK ==
  /\ ticks \in TickValues
  /\ link \in [Places -> Timers \cup {Null}]
  /\ deadline \in [Timers -> TickValues]
  /\ period \in [Timers -> Periods]
  /\ due \in [Timers -> 0 .. Modulus]
  /\ pc \in {"app", "yield", "callback", "undefined"}
  /\ nextTimer \in Places
  /\ running \in Timers \cup {Null} /\ setting \in Settings

\* Timers set up with MultiTimerInit, none started.
TimerInit ==
  /\ link = [p \in Places |-> Null]
  /\ deadline = [t \in Timers |-> 0]
  /\ period \in [Timers -> Periods]
  /\ due = [t \in Timers |-> Off]
  /\ pc = "app" /\ nextTimer = Head /\ running = Null
  /\ setting \in Settings /\ ticks = setting.first

-----------------------------------------------------------------------------
(* The list.                                                               *)

\* The places along list l, Null once it has ended.
Walk(l) ==
  LET place[n \in 0 .. Cardinality(Timers) + 1] ==
        IF n = 0 THEN Head
        ELSE IF place[n - 1] = Null THEN Null ELSE l[place[n - 1]]
  IN place

Listed(l) == {Walk(l)[n] : n \in 1 .. Cardinality(Timers)} \ {Null}

Without(l, t) ==
  IF t \in Listed(l)
    THEN [l EXCEPT ![CHOOSE p \in {Head} \cup Listed(l) : l[p] = t] = l[t]]
    ELSE l

\* The places of list l before which a timer of deadline d may go.
Stops(l, d) ==
  {n \in 0 .. Cardinality(Timers) :
     LET p == Walk(l)[n]
     IN p # Null /\ (l[p] = Null \/ d < deadline[l[p]])}

\* Variant: the comparison is the wrong way round.
InsertedReversed(l, t, d) ==
  LET p == Walk(l)[Min({n \in 0 .. Cardinality(Timers) :
             LET q == Walk(l)[n]
             IN q # Null /\ (l[q] = Null \/ d > deadline[l[q]])})]
  IN [l EXCEPT ![p] = t, ![t] = l[p]]
Inserted(l, t, d) ==
  LET p == Walk(l)[Min(Stops(l, d))]
  IN [l EXCEPT ![p] = t, ![t] = l[p]]

\* What MultiTimerStart(t, delay) does, to a list l.
Started(l, t, delay) ==
  /\ deadline' = [deadline EXCEPT ![t] = (ticks + delay) % Modulus]
  /\ link' = Inserted(Without(l, t), t, (ticks + delay) % Modulus)
  /\ due' = [due EXCEPT ![t] = delay]

\* Variant: two absolute values are compared.
NotYetAbsolute(t) == ticks < deadline[t]
\* CHECK_TIME_LESS_THAN: the unsigned difference is above half the range.
NotYet(t) ==
  (ticks + Modulus - deadline[t]) % Modulus > Modulus \div 2 - 1

-----------------------------------------------------------------------------
(* The API.                                                                *)

\* What timer t is to the callback that runs.
Relation(t) == IF t = running THEN "own" ELSE IF t = nextTimer THEN "place" ELSE "other"

MayCall(operation, t) ==
  \/ pc = "app"
  \/ pc = "callback" /\ <<operation, Relation(t)>> \in setting.callbacks

Start(t, delay) ==
  /\ MayCall("start", t)
  /\ Started(link, t, delay)
  /\ UNCHANGED <<ticks, period, pc, nextTimer, running, setting>>

Stop(t) ==
  /\ MayCall("stop", t)
  /\ link' = Without(link, t)
  /\ due' = [due EXCEPT ![t] = Off]
  /\ UNCHANGED <<ticks, deadline, period, pc, nextTimer, running, setting>>

-----------------------------------------------------------------------------
(* MultiTimerYield, from one timer to the next.                            *)

\* Variant: the loop begins behind the front.
YieldBehindFront ==
  /\ pc = "app"
  /\ pc' = "yield" /\ nextTimer' = IF link[Head] = Null THEN Head ELSE link[Head]
  /\ UNCHANGED <<ticks, link, deadline, period, due, running, setting>>
Yield ==
  /\ pc = "app"
  /\ pc' = "yield" /\ nextTimer' = Head
  /\ UNCHANGED <<ticks, link, deadline, period, due, running, setting>>

\* Nothing further on the list, or its front has not expired.
YieldReturns ==
  /\ pc = "yield"
  /\ link[nextTimer] # Null => NotYet(link[nextTimer])
  /\ pc' = "app" /\ nextTimer' = Head
  /\ UNCHANGED <<ticks, link, deadline, period, due, running, setting>>

\* The timer leaves the list, a periodic one is started again, and its
\* callback begins.
Expire ==
  /\ pc = "yield"
  /\ link[nextTimer] # Null /\ ~NotYet(link[nextTimer])
  /\ pc' = "callback" /\ running' = link[nextTimer]
  /\ LET t == link[nextTimer]
         l == [link EXCEPT ![nextTimer] = link[t]]
     IN \/ period[t] # 0 /\ Started(l, t, period[t])
        \/ /\ period[t] = 0
           /\ link' = l
           /\ due' = [due EXCEPT ![t] = Off]
           /\ UNCHANGED deadline
  /\ UNCHANGED <<ticks, period, nextTimer, setting>>

\* Variant: the loop asks whether the list has ended, not the timer's own
\* next field.
ReturnTestsAnother ==
  /\ pc = "callback" /\ running' = Null
  /\ \/ link[Head] = Null /\ pc' = "app" /\ nextTimer' = Head
     \/ /\ link[Head] # Null /\ link[nextTimer] # Null
        /\ pc' = "yield" /\ nextTimer' = link[nextTimer]
     \/ /\ link[Head] # Null /\ link[nextTimer] = Null
        /\ pc' = "undefined" /\ nextTimer' = Head
  /\ UNCHANGED <<ticks, link, deadline, period, due, setting>>

\* The callback returns.  The loop goes on at the next field of whatever its
\* place points to now: of a null pointer, that is undefined.
Return ==
  /\ pc = "callback" /\ running' = Null
  /\ \/ link[running] = Null /\ pc' = "app" /\ nextTimer' = Head
     \/ /\ link[running] # Null /\ link[nextTimer] # Null
        /\ pc' = "yield" /\ nextTimer' = link[nextTimer]
     \/ /\ link[running] # Null /\ link[nextTimer] = Null
        /\ pc' = "undefined" /\ nextTimer' = Head
  /\ UNCHANGED <<ticks, link, deadline, period, due, setting>>

Tick ==
  /\ pc # "undefined" /\ ticks # setting.last
  /\ ticks' = (ticks + 1) % Modulus
  /\ due' = [t \in Timers |-> IF due[t] \in {0, Off} THEN due[t] ELSE due[t] - 1]
  /\ UNCHANGED <<link, deadline, period, pc, nextTimer, running, setting>>

\* After undefined behaviour nothing more is said.
Undefined == pc = "undefined" /\ UNCHANGED tvars

TimerNext ==
  \/ \E t \in Timers : Stop(t)
  \/ \E t \in Timers : \E delay \in Delays : Start(t, delay)
  \/ Yield \/ YieldReturns \/ Expire \/ Return \/ Tick \/ Undefined

\* The application yields again and again, the loop runs, callbacks return.
Fairness == WF_tvars(Yield) /\ WF_tvars(YieldReturns) /\ WF_tvars(Expire) /\ WF_tvars(Return)

TimerSpec == TimerInit /\ [][TimerNext]_tvars /\ Fairness

-----------------------------------------------------------------------------
(* Properties.                                                             *)

\* Some deadline may lie behind the wrap of the counter.
Wraps ==
  \/ setting.last < setting.first
  \/ \E d \in Delays \cup Periods : setting.last + d >= Modulus

\* Callbacks touch their own timer alone.
OwnOnly == setting.callbacks \subseteq Operations \X {"own"}

\* No callback stops the timer whose next field the loop holds.
PlaceKept == <<"stop", "place">> \notin setting.callbacks

\* Until the counter wraps, and while callbacks start and stop their own timer
\* alone, the walk follows no null pointer.
WalkDefined == ~Wraps /\ OwnOnly => pc # "undefined"

\* The list ends, and so holds no timer twice, whatever the callbacks do.
ListEnds ==
  \E n \in 0 .. Cardinality(Timers) :
    Walk(link)[n] # Null /\ link[Walk(link)[n]] = Null

\* It holds exactly the timers that were started and have neither been stopped
\* nor, one shot, expired.
ListIsWanted ==
  PlaceKept => Listed(link) = {t \in Timers : due[t] # Off}

\* "Sorted list, just process with the front part": until the counter wraps, a
\* timer is behind no timer that has longer to go.
Sorted ==
  PlaceKept /\ ~Wraps =>
    \A p \in Listed(link) : link[p] # Null => due[p] <= due[link[p]]

\* The list is one, and the one asked for, in the order the loop relies on,
\* unless a callback stops the timer at the loop's place.
ListSound == ListEnds /\ ListIsWanted /\ Sorted

\* On the same condition no timer is called before its time, also across the
\* wrap, nor one that was stopped.
NeverEarly == [][Expire /\ PlaceKept => due[link[nextTimer]] = 0]_tvars

\* Until the counter wraps, and while callbacks touch their own timer alone, a
\* timer whose time has come is called, or else stopped or started anew,
\* although the loop passes over timers behind those it calls.
Served ==
  \A t \in Timers :
    ~Wraps /\ OwnOnly /\ due[t] = 0 ~> due[t] # 0 \/ running = t
=============================================================================
