---------------------------- MODULE MCTimerQueue ----------------------------
(* Instances of the timer queue for model checking. *)
EXTENDS TimerQueue

CONSTANTS t1, t2, t3

SomeRepeat == [t \in Timers |-> CASE t = t1 -> 2 [] t = t2 -> 3 [] OTHER -> 0]
NoneRepeats == [t \in Timers |-> 0]
=============================================================================
