------------------------------ MODULE TimerSet -------------------------------
(***************************************************************************)
(* What the timer list promises (and module EDFSched uses): each timer     *)
(* counts down on its own, and all timers that come to 0 in a tick fire    *)
(* before anything else happens.                                           *)
(***************************************************************************)
EXTENDS Integers

CONSTANTS Timer,  \* timers: the timer_t objects
          Times   \* values of timer->expires when a timer is added

VARIABLE left     \* left[t]: ticks until t fires; -1 when t is not pending

Pending == {t \in Timer : left[t] >= 0}
Due     == {t \in Timer : left[t] = 0}

Init == left = [t \in Timer |-> -1]

Add(t, time) == /\ Due = {}
                /\ t \notin Pending
                /\ left' = [left EXCEPT ![t] = time]

Delete(t) == /\ Due = {}
             /\ left' = [left EXCEPT ![t] = -1]

Tick == /\ Due = {}
        /\ left' = [t \in Timer |-> IF t \in Pending THEN left[t] - 1 ELSE -1]

Fire(t) == /\ t \in Due
           /\ left' = [left EXCEPT ![t] = -1]

Next == \/ \E t \in Timer, time \in Times : Add(t, time)
        \/ \E t \in Timer : Delete(t) \/ Fire(t)
        \/ Tick

Spec == Init /\ [][Next]_left
=============================================================================
