------------------------------ MODULE TimerList ------------------------------
(***************************************************************************)
(* kern/schedule/sched.c: the list of timers, ordered by expiry, in which  *)
(* timer->expires is the distance to the timer before it.  The loops of    *)
(* add_timer and run_timer_list take one step per iteration; interrupts    *)
(* are off, so that no other operation comes in between.                   *)
(***************************************************************************)
EXTENDS Integers, Sequences, SequencesExt

CONSTANTS Timer,  \* timers: the timer_t objects on the stacks of do_sleep
          Times   \* arguments of do_sleep

ASSUME TimesAssumption == Times \subseteq Nat \ {0}

VARIABLES list,     \* timer_list, the timers in order
          expires,  \* timer->expires
          op,       \* "idle", in the loop of "add" or of "run", or "assert": failed
          adding,   \* the timer add_timer inserts
          le        \* the position in the list the loop of add_timer is at

timerVars == <<list, expires, op, adding, le>>

Pos == 1 .. Len(list)

OnList(t) == \E i \in Pos : list[i] = t

TimerInit ==
  /\ list = <<>>
  /\ expires = [t \in Timer |-> 0]
  /\ op = "idle"
  /\ \E t \in Timer : adding = t
  /\ le = 1

\* add_timer up to its loop, from do_sleep: the timer is new, so that the asserts
\* on timer->expires and timer->timer_link hold.
AddTimer(t, time) ==
  /\ op = "idle"
  /\ ~OnList(t)
  /\ expires' = [expires EXCEPT ![t] = time]
  /\ op' = "add"
  /\ adding' = t
  /\ le' = 1
  /\ UNCHANGED list

\* An iteration of the loop of add_timer, or its end and list_add_before.
AddLoop ==
  /\ op = "add"
  /\ IF le \in Pos /\ expires[adding] >= expires[list[le]]
       THEN /\ expires' = [expires EXCEPT ![adding] = @ - expires[list[le]]]
            /\ le' = le + 1
            /\ UNCHANGED <<list, op>>
       ELSE /\ expires' = IF le \in Pos
                            THEN [expires EXCEPT ![list[le]] = @ - expires[adding]]
                            ELSE expires
            /\ list' = InsertAt(list, le, adding)
            /\ op' = "idle"
            /\ UNCHANGED le
  /\ UNCHANGED adding

\* Mutant: the timer that follows does not take over the distance.
RemovedShort(i) ==
  /\ list' = RemoveAt(list, i)
  /\ UNCHANGED expires

\* The body of del_timer for the timer at position i.
Removed(i) ==
  /\ expires' = IF i + 1 \in Pos
                  THEN [expires EXCEPT ![list[i + 1]] = @ + expires[list[i]]]
                  ELSE expires
  /\ list' = RemoveAt(list, i)

\* del_timer: when do_sleep goes on, its timer may have fired before.
DelTimer(t) ==
  /\ op = "idle"
  /\ IF OnList(t) THEN \E i \in Pos : list[i] = t /\ Removed(i)
                  ELSE UNCHANGED <<list, expires>>
  /\ UNCHANGED <<op, adding, le>>

\* run_timer_list up to its loop.
RunTimerList ==
  /\ op = "idle"
  /\ list # <<>>
  /\ IF expires[Head(list)] = 0
       THEN op' = "assert" /\ UNCHANGED expires
       ELSE op' = "run" /\ expires' = [expires EXCEPT ![Head(list)] = @ - 1]
  /\ UNCHANGED <<list, adding, le>>

\* Mutant: "if" in place of "while".
RunLoopOnce ==
  /\ op = "run"
  /\ IF list # <<>> /\ expires[Head(list)] = 0
       THEN Removed(1)
       ELSE UNCHANGED <<list, expires>>
  /\ op' = "idle"
  /\ UNCHANGED <<adding, le>>

\* Mutant: no del_timer.
RunLoopNoDelete ==
  /\ op = "run"
  /\ op' = IF list # <<>> /\ expires[Head(list)] = 0 THEN "run" ELSE "idle"
  /\ UNCHANGED <<list, expires, adding, le>>

\* An iteration of the loop of run_timer_list: wakeup_proc and del_timer, or its end.
RunLoop ==
  /\ op = "run"
  /\ IF list # <<>> /\ expires[Head(list)] = 0
       THEN Removed(1) /\ UNCHANGED op
       ELSE op' = "idle" /\ UNCHANGED <<list, expires>>
  /\ UNCHANGED <<adding, le>>

TimerNext ==
  \/ \E t \in Timer, time \in Times : AddTimer(t, time)
  \/ \E t \in Timer : DelTimer(t)
  \/ AddLoop
  \/ RunTimerList
  \/ RunLoop

TimerSpec == TimerInit /\ [][TimerNext]_timerVars

\* A loop that has started goes on, and the interrupt controller keeps a timer
\* interrupt until interrupts are enabled again.
TimerFairSpec ==
  TimerSpec /\ WF_timerVars(AddLoop) /\ WF_timerVars(RunLoop) /\ SF_timerVars(RunTimerList)
-----------------------------------------------------------------------------
\* The list has no timer twice, distances are not negative, le is in the list
\* or just behind it, and the timer being added is not on the list yet.
TimerTypeOK ==
  /\ list \in Seq(Timer)
  /\ IsInjective(list)
  /\ expires \in [Timer -> Nat]
  /\ op \in {"idle", "add", "run", "assert"}
  /\ adding \in Timer
  /\ le \in 1 .. Len(list) + 1 \/ op # "add"
  /\ op = "add" => ~OnList(adding)

\* A timer fires, unless it is deleted, whatever is added and deleted in front
\* of it: its process is not left asleep.  run_timer_list never stops at its
\* assert(timer->expires != 0): between two ticks no timer at the head is due.
EveryTimerEnds == \A t \in Timer : OnList(t) ~> ~OnList(t)

\* The ticks until the timer at position n fires: the distances up to its place.
Distance(l, x, n) ==
  LET sum[k \in 0 .. n] == IF k = 0 THEN 0 ELSE sum[k - 1] + x[l[k]]
  IN  sum[n]

\* The ticks that are left for a timer, also while add_timer is still looking for
\* its place.
Left(t) ==
  IF op = "add" /\ t = adding THEN Distance(list, expires, le - 1) + expires[t]
  ELSE IF OnList(t) THEN Distance(list, expires, CHOOSE i \in Pos : list[i] = t)
  ELSE -1

\* The countdowns that the list stands for.
left == [t \in Timer |-> Left(t)]

Countdowns == INSTANCE TimerSet

\* The list of distances implements independent countdowns: adding or deleting a
\* timer does not move the expiry of any other, and a tick fires exactly the
\* timers that are due.
ImplementsCountdowns == Countdowns!Spec
=============================================================================
