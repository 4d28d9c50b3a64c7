---------------------------- MODULE MCMultiTimer ----------------------------
(* A clock that stops before a deadline wraps, with callbacks that start    *)
(* and stop their own timer; a clock that wraps, with callbacks that do     *)
(* not; callbacks that touch any timer, but do not stop the one at the      *)
(* loop's place; and callbacks that stop every other timer.                 *)
EXTENDS MultiTimer
MCSettings ==
  {[first |-> 0, last |-> 2, callbacks |-> Operations \X {"own"}],
   [first |-> 6, last |-> 0, callbacks |-> {}],
   [first |-> 0, last |-> 1, callbacks |-> Operations \X {"own", "other"} \cup {<<"start", "place">>}],
   [first |-> 0, last |-> 1, callbacks |-> {"stop"} \X {"place", "other"}]}
=============================================================================
