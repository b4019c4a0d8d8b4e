----------------------------- MODULE SchedProofs -----------------------------
(***************************************************************************)
(* TLAPS proofs about kern/schedule/: the scheduler of module EDFSched and *)
(* the timer list of module TimerList.                                     *)
(*                                                                         *)
(* EDFSched, for any set of processes, any deadlines and any bound: the    *)
(* run queue and the timers stay consistent with the states of the         *)
(* processes, and schedule() dispatches the earliest deadline.             *)
(***************************************************************************)
EXTENDS EDFSched, TimerList, InductionLemmas, SequenceTheorems

LEMMA InitSched == Init => SchedInv
<1> SUFFICES ASSUME Init PROVE SchedInv
  OBVIOUS
<1> USE SchedAssumption DEF Init
<1>1. TypeOK
  BY DEF TypeOK, State, WaitState, At, Halt
<1>2. QueueExact /\ QueueMirrorsDeadline /\ TimerOwned
  BY DEF QueueExact, QueueMirrorsDeadline, TimerOwned
<1>3. DeadlineAhead /\ StateConsistent
  BY DEF DeadlineAhead, StateConsistent
<1> QED
  BY <1>1, <1>2, <1>3 DEF SchedInv

\* A kernel that stops leaves everything as it is.
LEMMA StopKeeps ==
  ASSUME SchedInv, NEW why \in Halt, Stop(why)
  PROVE  SchedInv'
BY DEF SchedInv, Stop, schedVars, rtVars, TypeOK, QueueExact, QueueMirrorsDeadline,
       TimerOwned, DeadlineAhead, StateConsistent

\* schedule(): the current process is queued when it is RUNNABLE, the chosen one
\* leaves the queue, and no other entry changes.
LEMMA ScheduleKeeps ==
  ASSUME SchedInv, NEW resume \in {"run", "kern", "slept", "exit"}, Schedule(resume),
         resume = "exit" <=> state[current] = "ZOMBIE",
         timer[current] > 0 => resume = "slept",
         current = Idle => resume = "run"
  PROVE  /\ SchedInv'
         /\ current' # current =>
              /\ state[current'] = "RUNNABLE"
              /\ \A p \in Proc : inq'[p] > 0 => pt[current'] <= pt[p]
<1> DEFINE S == IF state[current] = "RUNNABLE" THEN {current} ELSE {}
           q == Enqueue(inq, S)
           qx == EnqueueX(S)
<1>1. CASE Stop("full") \/ Stop("pickEmpty")
  BY <1>1, StopKeeps DEF Stop, schedVars, Halt
<1>2. ASSUME NEW next \in Tops(q, qx),
             current' = next, inq' = [q EXCEPT ![next] = @ - 1], x' = [qx EXCEPT ![next] = 0],
             needResched' = [needResched EXCEPT ![current] = FALSE],
             at' = [at EXCEPT ![current] = resume],
             UNCHANGED <<rtVars, state, waitState, timer, kthread, halt>>
      PROVE  /\ SchedInv'
             /\ current' # current =>
                  /\ state[current'] = "RUNNABLE"
                  /\ \A p \in Proc : inq'[p] > 0 => pt[current'] <= pt[p]
  <2> USE DEF SchedInv
  <2>1. \A p \in Proc : /\ q[p] = IF state[p] = "RUNNABLE" /\ p # Idle THEN 1 ELSE 0
                        /\ q[p] > 0 => qx[p] = pt[p]
                        /\ qx[p] \in Int
    BY DEF TypeOK, QueueExact, QueueMirrorsDeadline, Enqueue, EnqueueX
  <2>2. /\ next \in Proc /\ q[next] > 0
        /\ \A p \in Proc : q[p] > 0 => qx[next] <= qx[p]
        /\ q = [p \in Proc |-> q[p]] /\ qx = [p \in Proc |-> qx[p]]
    BY DEF Tops, Enqueue, EnqueueX
  <2> HIDE DEF q, qx
  <2>3. next # Idle /\ state[next] = "RUNNABLE" /\ q[next] = 1
    BY <2>1, <2>2
  <2>4. TypeOK'
    BY <1>2, <2>1, <2>2, <2>3 DEF TypeOK, At, rtVars
  <2>5. \A p \in Proc : inq'[p] = (IF p = next THEN 0 ELSE q[p])
    BY <1>2, <2>1, <2>2, <2>3 DEF q, Enqueue
  <2>6. QueueExact'
    BY <1>2, <2>1, <2>3, <2>5 DEF QueueExact
  <2>7. QueueMirrorsDeadline'
    BY <1>2, <2>1, <2>2, <2>5 DEF QueueMirrorsDeadline, rtVars
  <2>8. TimerOwned' /\ DeadlineAhead'
    BY <1>2 DEF TimerOwned, DeadlineAhead, TypeOK, rtVars
  <2>9. StateConsistent'
    BY <1>2, <2>2, <2>3 DEF StateConsistent, TypeOK, rtVars, At
  <2>10. \A p \in Proc : inq'[p] > 0 => pt[next] <= pt[p]
    BY <2>1, <2>2, <2>3, <2>5
  <2> QED
    BY <1>2, <2>3, <2>4, <2>6, <2>7, <2>8, <2>9, <2>10
<1> QED
  BY <1>1, <1>2 DEF Schedule, OrHang

\* wakeup_proc of a set of sleeping or new processes: each one that was not
\* RUNNABLE gets exactly one entry, unless it is the current process.
LEMMA WakeFacts ==
  ASSUME SchedInv, NEW S \in SUBSET Proc, ~WakeAssert(S)
  PROVE  /\ WakeState(S) \in [Proc -> State]
         /\ WakeWait(S) \in [Proc -> WaitState]
         /\ WakeInq(S) \in [Proc -> Nat]
         /\ WakeX(S) \in [Proc -> Int]
         /\ \A p \in Proc :
              /\ WakeState(S)[p] = IF p \in S THEN "RUNNABLE" ELSE state[p]
              /\ WakeWait(S)[p] = IF p \in S THEN "none" ELSE waitState[p]
              /\ WakeInq(S)[p] = IF WakeState(S)[p] = "RUNNABLE" /\ p # current /\ p # Idle
                                   THEN 1 ELSE 0
              /\ WakeInq(S)[p] > 0 => WakeX(S)[p] = pt[p]
<1> USE DEF SchedInv, WakeState, WakeWait, WakeInq, WakeX, Woken, Enqueue, EnqueueX
<1>1. /\ WakeState(S) \in [Proc -> State]
      /\ WakeWait(S) \in [Proc -> WaitState]
  BY DEF TypeOK, State, WaitState
<1>2. /\ WakeInq(S) \in [Proc -> Nat]
      /\ WakeX(S) \in [Proc -> Int]
  BY DEF TypeOK
<1>3. ASSUME NEW p \in Proc
      PROVE  /\ WakeState(S)[p] = IF p \in S THEN "RUNNABLE" ELSE state[p]
             /\ WakeWait(S)[p] = IF p \in S THEN "none" ELSE waitState[p]
  BY DEF StateConsistent
<1>4. ASSUME NEW p \in Proc
      PROVE  /\ WakeInq(S)[p] = IF WakeState(S)[p] = "RUNNABLE" /\ p # current /\ p # Idle
                                  THEN 1 ELSE 0
             /\ WakeInq(S)[p] > 0 => WakeX(S)[p] = pt[p]
  BY DEF TypeOK, QueueExact, QueueMirrorsDeadline
<1> QED
  BY <1>1, <1>2, <1>3, <1>4

\* The timer interrupt.
LEMMA TickKeeps ==
  ASSUME SchedInv, Tick
  PROVE  SchedInv' /\ current' = current
<1>1. CASE TickStops
  <2>1. \E why \in Halt : Stop(why)
    BY <1>1 DEF TickStops, Halt
  <2> QED
    BY <2>1, StopKeeps DEF Stop, schedVars
<1>2. CASE TickRuns
  <2> USE SchedAssumption DEF SchedInv
  <2> DEFINE q == WakeInq(Expired)
             qx == WakeX(Expired)
             queued(p) == current # Idle /\ q[p] > 0
  <2>1. /\ ~WakeAssert(Expired)
        /\ state' = WakeState(Expired) /\ waitState' = WakeWait(Expired)
        /\ timer' = [p \in Proc |-> IF timer[p] > 0 THEN timer[p] - 1 ELSE 0]
        /\ inq' = q
        /\ x' = [p \in Proc |-> IF queued(p) THEN qx[p] - 1 ELSE qx[p]]
        /\ pt' = [p \in Proc |-> IF p = current /\ p # Idle THEN NewPt
                                 ELSE IF queued(p) THEN pt[p] - 1 ELSE pt[p]]
        /\ ct' = IF current = Idle THEN ct ELSE [ct EXCEPT ![current] = NewCt]
        /\ at' = IF at[current] = "run" /\ current \notin kthread
                   THEN [at EXCEPT ![current] = "ret"] ELSE at
        /\ UNCHANGED <<current, isRT, computeTime, periodTime, kthread, halt>>
    BY <1>2 DEF TickRuns
  <2>2. /\ current # Idle => ~CurrentMisses
        /\ \A p \in Proc : queued(p) => ~QueuedMisses(p)
    BY <1>2 DEF TickRuns
  <2>3. Expired \in SUBSET Proc
    BY DEF Expired
  <2>4. /\ q \in [Proc -> Nat] /\ qx \in [Proc -> Int]
        /\ state' \in [Proc -> State] /\ waitState' \in [Proc -> WaitState]
        /\ \A p \in Proc :
             /\ state'[p] = IF p \in Expired THEN "RUNNABLE" ELSE state[p]
             /\ waitState'[p] = IF p \in Expired THEN "none" ELSE waitState[p]
             /\ q[p] = IF state'[p] = "RUNNABLE" /\ p # current /\ p # Idle THEN 1 ELSE 0
             /\ q[p] > 0 => qx[p] = pt[p]
    BY <2>1, <2>3, WakeFacts
  <2> HIDE DEF q, qx
  <2>5. \A p \in Proc :
          /\ pt[p] - 1 \in Int
          /\ queued(p) /\ isRT[p] /\ computeTime[p] > 0 /\ periodTime[p] > 0 => pt[p] - 1 > 0
    BY <2>2 DEF QueuedMisses, TypeOK, DeadlineAhead
  <2>6. ASSUME current # Idle
        PROVE  /\ NewPt \in Int /\ NewCt \in Nat
               /\ isRT[current] /\ computeTime[current] > 0 /\ periodTime[current] > 0
                    => NewPt > 0 /\ NewCt < computeTime[current]
    <3>1. /\ pt[current] \in Int /\ ct[current] \in Nat /\ computeTime[current] \in Int
          /\ periodTime[current] \in Int
      BY DEF TypeOK
    <3>2. NewPt \in Int /\ NewCt \in Nat
      BY <3>1 DEF NewPt, NewCt, PeriodDone, TickPt, TickCt, Computes
    <3>3. ASSUME isRT[current], computeTime[current] > 0, periodTime[current] > 0
          PROVE  NewPt > 0 /\ NewCt < computeTime[current]
      <4>1. ct[current] < computeTime[current] /\ pt[current] > 0 /\ Computes
        BY <3>1, <3>3 DEF DeadlineAhead, TypeOK, Computes
      <4>2. TickCt = ct[current] + 1 /\ TickPt = pt[current] - 1
        BY <4>1 DEF TickCt, TickPt
      <4> QED
        BY <2>2, <2>6, <3>1, <3>3, <4>1, <4>2 DEF NewPt, NewCt, PeriodDone, CurrentMisses
    <3> QED
      BY <3>2, <3>3
  <2>7. needResched' \in [Proc -> BOOLEAN]
    BY <1>2 DEF TickRuns, TypeOK
  <2>8. at' \in [Proc -> At]
    BY <2>1 DEF TypeOK, At
  <2>9. pt' \in [Proc -> Int] /\ x' \in [Proc -> Int]
    BY <2>1, <2>4, <2>5, <2>6 DEF TypeOK
  <2>10. ct' \in [Proc -> Nat] /\ timer' \in [Proc -> Nat]
    BY <2>1, <2>6 DEF TypeOK
  <2>11. TypeOK'
    BY <2>1, <2>4, <2>7, <2>8, <2>9, <2>10 DEF TypeOK
  <2>12. QueueExact'
    BY <2>1, <2>4 DEF QueueExact
  <2>13. QueueMirrorsDeadline'
    BY <2>1, <2>4 DEF QueueMirrorsDeadline
  <2>14. TimerOwned'
    <3> SUFFICES ASSUME NEW p \in Proc
                 PROVE  /\ timer'[p] > 0 => /\ at'[p] \in {"sleep", "slept"}
                                            /\ state'[p] \in {"SLEEPING", "RUNNABLE"}
                                            /\ waitState'[p] \in {"timer", "none"}
                        /\ waitState'[p] = "timer" => timer'[p] > 0
      BY DEF TimerOwned
    <3>1. timer'[p] > 0 => timer[p] > 0 /\ p \notin Expired
      BY <2>1 DEF Expired, TypeOK
    <3>2. timer[p] > 0 => at'[p] = at[p]
      BY <2>1 DEF TimerOwned, TypeOK
    <3>3. timer[p] > 0 /\ p \notin Expired => timer'[p] > 0
      BY <2>1 DEF Expired, TypeOK
    <3> QED
      BY <2>4, <3>1, <3>2, <3>3 DEF TimerOwned
  <2>15. DeadlineAhead'
    <3> SUFFICES ASSUME NEW p \in Proc, isRT[p], computeTime[p] > 0, periodTime[p] > 0
                 PROVE  ct'[p] < computeTime[p] /\ pt'[p] > 0
      BY <2>1 DEF DeadlineAhead
    <3>1. CASE p = current /\ p # Idle
      BY <2>1, <2>6, <3>1 DEF DeadlineAhead, TypeOK
    <3>2. CASE ~(p = current /\ p # Idle)
      BY <2>1, <2>5, <3>2 DEF DeadlineAhead, TypeOK
    <3> QED
      BY <3>1, <3>2
  <2>16. StateConsistent'
    <3>1. \A p \in Expired : at[p] \in {"sleep", "slept"} /\ p # Idle
      BY DEF Expired, TimerOwned, StateConsistent, TypeOK
    <3>2. \A p \in Proc : at'[p] = at[p] \/ (p = current /\ at[p] = "run" /\ at'[p] = "ret" /\ p # Idle)
      BY <2>1 DEF TypeOK, StateConsistent
    <3>3. state'[Idle] = "RUNNABLE" /\ Idle \in kthread' /\ timer'[Idle] = 0 /\ at'[Idle] = "run"
      BY <2>1, <2>4, <3>1, <3>2 DEF StateConsistent
    <3>4. \A p \in Proc : state'[p] = "SLEEPING" <=> waitState'[p] # "none"
      BY <2>4 DEF StateConsistent
    <3>5. \A p \in Proc : /\ state'[p] = "ZOMBIE" => at'[p] = "exit"
                          /\ at'[p] = "exit" => state'[p] = "ZOMBIE"
                          /\ p # current' => at'[p] \notin {"sleep", "block"}
      BY <2>1, <2>4, <3>1, <3>2 DEF StateConsistent
    <3>6. /\ at'[current'] \notin {"sleep", "block", "exit"} => state'[current'] = "RUNNABLE"
          /\ at'[current'] = "block" => state'[current'] = "SLEEPING"
      BY <2>1, <2>4, <3>1, <3>2 DEF StateConsistent, TypeOK
    <3> QED
      BY <3>3, <3>4, <3>5, <3>6 DEF StateConsistent
  <2> QED
    BY <2>1, <2>11, <2>12, <2>13, <2>14, <2>15, <2>16
<1> QED
  BY <1>1, <1>2 DEF Tick

\* The steps that end in schedule().
LEMMA DispatchKeeps ==
  ASSUME SchedInv,
         \/ IdleLoop \/ TrapReturn \/ KernelYield
         \/ SleepSchedule \/ BlockSchedule \/ ExitSchedule
  PROVE  /\ SchedInv'
         /\ current' # current =>
              /\ state[current'] = "RUNNABLE"
              /\ \A p \in Proc : inq'[p] > 0 => pt[current'] <= pt[p]
<1>1. CASE TrapReturn /\ ~needResched[current]
  <2>1. /\ at[current] = "ret" /\ at' = [at EXCEPT ![current] = "run"] /\ current # Idle
        /\ UNCHANGED <<current, inq, x, needResched, isRT, computeTime, periodTime, ct, pt,
                       state, waitState, timer, kthread, halt>>
    BY <1>1 DEF TrapReturn, Executes, schedVars, rtVars
  <2>2. TypeOK' /\ QueueExact' /\ QueueMirrorsDeadline' /\ DeadlineAhead'
    BY <2>1 DEF SchedInv, TypeOK, At, QueueExact, QueueMirrorsDeadline, DeadlineAhead
  <2>3. TimerOwned' /\ StateConsistent'
    BY <2>1 DEF SchedInv, TypeOK, TimerOwned, StateConsistent
  <2> QED
    BY <2>1, <2>2, <2>3 DEF SchedInv
<1>2. ASSUME \/ IdleLoop \/ (TrapReturn /\ needResched[current]) \/ KernelYield
             \/ SleepSchedule \/ BlockSchedule \/ ExitSchedule
      PROVE  \E resume \in {"run", "kern", "slept", "exit"} :
               /\ Schedule(resume)
               /\ resume = "exit" <=> state[current] = "ZOMBIE"
               /\ timer[current] > 0 => resume = "slept"
               /\ current = Idle => resume = "run"
  <2> USE DEF SchedInv, TypeOK, TimerOwned, StateConsistent
  <2>1. CASE IdleLoop
    BY <2>1 DEF IdleLoop
  <2>2. CASE TrapReturn /\ needResched[current]
    BY <2>2 DEF TrapReturn, Executes
  <2>3. CASE KernelYield
    BY <2>3 DEF KernelYield, Executes
  <2>4. CASE SleepSchedule
    BY <2>4 DEF SleepSchedule, Executes
  <2>5. CASE BlockSchedule
    BY <2>5 DEF BlockSchedule, Executes
  <2>6. CASE ExitSchedule
    BY <2>6 DEF ExitSchedule, Executes
  <2> QED
    BY <1>2, <2>1, <2>2, <2>3, <2>4, <2>5, <2>6
<1> QED
  BY <1>1, <1>2, ScheduleKeeps

\* The steps of the current process that touch neither the run queue nor the
\* state of another process.
LEMMA LocalKeeps ==
  ASSUME SchedInv,
         \/ Yield \/ SleepReturn \/ BlockReturn \/ Exec
         \/ \E time \in SleepTimes : Sleep(time)
         \/ Wait
  PROVE  SchedInv' /\ current' = current
<1> USE SchedAssumption DEF SchedInv, Executes, schedVars, rtVars
<1>1. CASE Yield
  BY <1>1 DEF Yield, TypeOK, At, QueueExact, QueueMirrorsDeadline, TimerOwned, DeadlineAhead,
              StateConsistent
<1>2. CASE SleepReturn
  BY <1>2 DEF SleepReturn, AfterSyscall, TypeOK, At, QueueExact, QueueMirrorsDeadline,
              TimerOwned, DeadlineAhead, StateConsistent
<1>3. CASE BlockReturn
  BY <1>3 DEF BlockReturn, TypeOK, At, QueueExact, QueueMirrorsDeadline, TimerOwned,
              DeadlineAhead, StateConsistent
<1>4. CASE Exec
  <2>1. ExecParams[1] \in Nat \ {0} /\ ExecParams[2] \in Nat \ {0}
    OBVIOUS
  <2>2. TypeOK' /\ DeadlineAhead'
    BY <1>4, <2>1 DEF Exec, TypeOK, At, DeadlineAhead
  <2>3. QueueExact' /\ QueueMirrorsDeadline'
    BY <1>4 DEF Exec, TypeOK, QueueExact, QueueMirrorsDeadline
  <2>4. TimerOwned' /\ StateConsistent'
    BY <1>4 DEF Exec, TypeOK, TimerOwned, StateConsistent
  <2> QED
    BY <1>4, <2>2, <2>3, <2>4 DEF Exec
<1>5. ASSUME NEW time \in SleepTimes, Sleep(time)
      PROVE  SchedInv' /\ current' = current
  <2>1. TypeOK' /\ DeadlineAhead' /\ QueueExact' /\ QueueMirrorsDeadline'
    BY <1>5 DEF Sleep, TypeOK, At, State, WaitState, DeadlineAhead, QueueExact,
                QueueMirrorsDeadline
  <2>2. TimerOwned' /\ StateConsistent'
    BY <1>5 DEF Sleep, TypeOK, TimerOwned, StateConsistent
  <2> QED
    BY <1>5, <2>1, <2>2 DEF Sleep
<1>6. CASE Wait
  <2>1. TypeOK' /\ DeadlineAhead' /\ QueueExact' /\ QueueMirrorsDeadline'
    BY <1>6 DEF Wait, TypeOK, At, State, WaitState, DeadlineAhead, QueueExact,
                QueueMirrorsDeadline
  <2>2. TimerOwned' /\ StateConsistent'
    BY <1>6 DEF Wait, TypeOK, TimerOwned, StateConsistent
  <2> QED
    BY <1>6, <2>1, <2>2 DEF Wait
<1> QED
  BY <1>1, <1>2, <1>3, <1>4, <1>5, <1>6

\* do_fork and do_forkRT: the new process is RUNNABLE and queued once.
LEMMA StartChildKeeps ==
  ASSUME SchedInv, NEW p \in Proc, Free(p), Executes({"run"}),
         NEW rt \in BOOLEAN, NEW c \in Int, NEW t \in Int, NEW d \in Int,
         rt => d = t,
         StartChild(p, rt, c, t, d)
  PROVE  SchedInv' /\ current' = current
<1>1. CASE Stop("full")
  BY <1>1, StopKeeps DEF Stop, schedVars, Halt
<1>2. CASE ~Stop("full")
  <2> USE DEF SchedInv
  <2>1. /\ isRT' = [isRT EXCEPT ![p] = rt] /\ computeTime' = [computeTime EXCEPT ![p] = c]
        /\ periodTime' = [periodTime EXCEPT ![p] = t] /\ ct' = [ct EXCEPT ![p] = 0]
        /\ pt' = [pt EXCEPT ![p] = d] /\ state' = [state EXCEPT ![p] = "RUNNABLE"]
        /\ waitState' = [waitState EXCEPT ![p] = "none"]
        /\ needResched' = [needResched EXCEPT ![p] = FALSE]
        /\ inq' = Enqueue(inq, {p}) /\ x' = [x EXCEPT ![p] = d]
        /\ at' = [at EXCEPT ![current] = AfterSyscall, ![p] = "run"]
        /\ kthread' = IF current \in kthread THEN kthread \cup {p} ELSE kthread \ {p}
        /\ UNCHANGED <<current, timer, halt>>
    BY <1>2 DEF StartChild, OrHang
  <2>2. /\ p # Idle /\ state[p] = "UNINIT" /\ p # current /\ at[current] = "run"
        /\ inq[p] = 0 /\ timer[p] = 0 /\ current # Idle
    BY DEF Free, Executes, StateConsistent, TimerOwned, QueueExact, TypeOK
  <2>3. /\ inq' \in [Proc -> Nat]
        /\ \A o \in Proc : inq'[o] = IF o = p THEN 1 ELSE inq[o]
    BY <2>1, <2>2 DEF Enqueue, TypeOK
  <2>4. AfterSyscall \in {"run", "ret"}
    BY DEF AfterSyscall
  <2>5. TypeOK'
    <3>1. state' \in [Proc -> State] /\ waitState' \in [Proc -> WaitState]
      BY <2>1 DEF TypeOK, State, WaitState
    <3>2. needResched' \in [Proc -> BOOLEAN] /\ isRT' \in [Proc -> BOOLEAN]
      BY <2>1 DEF TypeOK
    <3>3. at' \in [Proc -> At]
      BY <2>1, <2>4 DEF TypeOK, At
    <3>4. kthread' \in SUBSET Proc
      BY <2>1 DEF TypeOK
    <3>5. /\ computeTime' \in [Proc -> Int] /\ periodTime' \in [Proc -> Int]
          /\ ct' \in [Proc -> Nat] /\ pt' \in [Proc -> Int] /\ x' \in [Proc -> Int]
      BY <2>1 DEF TypeOK
    <3> QED
      BY <2>1, <2>3, <3>1, <3>2, <3>3, <3>4, <3>5 DEF TypeOK
  <2>6. QueueExact' /\ QueueMirrorsDeadline' /\ DeadlineAhead'
    BY <2>1, <2>2, <2>3 DEF TypeOK, QueueExact, QueueMirrorsDeadline, DeadlineAhead
  <2>7. TimerOwned' /\ StateConsistent'
    BY SchedAssumption, <2>1, <2>2, <2>4 DEF TypeOK, TimerOwned, StateConsistent
  <2> QED
    BY <2>1, <2>5, <2>6, <2>7
<1> QED
  BY <1>1, <1>2

\* wakeup_proc of a sleeping process, and the wakeups of __do_exit.
LEMMA WakeKeeps ==
  ASSUME SchedInv,
         \/ \E p \in Proc : Wake(p)
         \/ \E W \in SUBSET Proc : WaitKswapd(W) \/ Exit(W)
  PROVE  SchedInv' /\ current' = current
<1> USE DEF SchedInv
<1>1. CASE Stop("full")
  BY <1>1, StopKeeps DEF Stop, schedVars, Halt
<1>2. ASSUME NEW p \in Proc, Wake(p), ~Stop("full")
      PROVE  SchedInv' /\ current' = current
  <2>1. /\ p # current /\ state[p] = "SLEEPING"
        /\ state' = WakeState({p}) /\ waitState' = WakeWait({p})
        /\ inq' = WakeInq({p}) /\ x' = WakeX({p})
        /\ UNCHANGED <<current, needResched, rtVars, timer, kthread, at, halt>>
    BY <1>2 DEF Wake, OrHang
  <2>2. ~WakeAssert({p}) /\ {p} \in SUBSET Proc
    BY <2>1 DEF WakeAssert
  <2>3. PICK S \in SUBSET Proc : S = {p}
    BY <2>2
  <2>4. ~WakeAssert(S) /\ state' = WakeState(S) /\ waitState' = WakeWait(S)
        /\ inq' = WakeInq(S) /\ x' = WakeX(S)
    BY <2>1, <2>2, <2>3
  <2>5. /\ state' \in [Proc -> State] /\ waitState' \in [Proc -> WaitState]
        /\ inq' \in [Proc -> Nat] /\ x' \in [Proc -> Int]
        /\ \A o \in Proc :
             /\ state'[o] = IF o \in S THEN "RUNNABLE" ELSE state[o]
             /\ waitState'[o] = IF o \in S THEN "none" ELSE waitState[o]
             /\ inq'[o] = IF state'[o] = "RUNNABLE" /\ o # current /\ o # Idle THEN 1 ELSE 0
             /\ inq'[o] > 0 => x'[o] = pt[o]
    BY <2>4, WakeFacts
  <2>6. \A o \in Proc : /\ state'[o] = IF o = p THEN "RUNNABLE" ELSE state[o]
                        /\ waitState'[o] = IF o = p THEN "none" ELSE waitState[o]
    BY <2>3, <2>5
  <2>7. TypeOK' /\ QueueExact' /\ QueueMirrorsDeadline' /\ DeadlineAhead'
    BY <2>1, <2>5 DEF TypeOK, rtVars, QueueExact, QueueMirrorsDeadline, DeadlineAhead
  <2>8. TimerOwned'
    BY <2>1, <2>6 DEF TimerOwned
  <2>9. /\ at[p] # "exit" /\ p # Idle /\ p # current /\ Idle \in Proc /\ current \in Proc
        /\ current' = current /\ timer' = timer /\ kthread' = kthread /\ at' = at
    BY SchedAssumption, <2>1 DEF StateConsistent, TypeOK
  <2>10. StateConsistent'
    BY <2>6, <2>9 DEF StateConsistent
  <2> QED
    BY <2>1, <2>7, <2>8, <2>10
<1>3. ASSUME NEW W \in SUBSET Proc, Exit(W), ~Stop("full")
      PROVE  SchedInv' /\ current' = current
  <2>1. /\ \A p \in W : waitState[p] = "child"
        /\ current # Idle /\ at[current] \in {"run", "kern", "ret"}
        /\ state' = [WakeState(W) EXCEPT ![current] = "ZOMBIE"]
        /\ waitState' = WakeWait(W) /\ inq' = WakeInq(W) /\ x' = WakeX(W)
        /\ at' = [at EXCEPT ![current] = "exit"]
        /\ UNCHANGED <<current, needResched, rtVars, timer, kthread, halt>>
    BY <1>3 DEF Exit, OrHang, Executes
  <2>2. /\ \A p \in W : state[p] = "SLEEPING"
        /\ ~WakeAssert(W) /\ current \notin W /\ state[current] = "RUNNABLE"
        /\ timer[current] = 0
    BY <2>1 DEF WakeAssert, StateConsistent, TimerOwned, TypeOK
  <2>3. \A o \in Proc : /\ state'[o] = IF o = current THEN "ZOMBIE"
                                       ELSE IF o \in W THEN "RUNNABLE" ELSE state[o]
                        /\ waitState'[o] = IF o \in W THEN "none" ELSE waitState[o]
    BY <2>1, <2>2, WakeFacts DEF TypeOK
  <2>4. TypeOK'
    BY <2>1, <2>2, WakeFacts DEF TypeOK, rtVars, State, At
  <2>5. QueueExact' /\ QueueMirrorsDeadline' /\ DeadlineAhead'
    <3>1. \A o \in Proc :
            /\ inq'[o] = IF WakeState(W)[o] = "RUNNABLE" /\ o # current /\ o # Idle THEN 1 ELSE 0
            /\ inq'[o] > 0 => x'[o] = pt[o]
            /\ o # current => state'[o] = WakeState(W)[o]
      BY <2>1, <2>2, WakeFacts DEF TypeOK
    <3> QED
      BY <2>1, <3>1 DEF TypeOK, rtVars, QueueExact, QueueMirrorsDeadline, DeadlineAhead
  <2>6. TimerOwned' /\ StateConsistent'
    BY SchedAssumption, <2>1, <2>2, <2>3 DEF TypeOK, rtVars, TimerOwned, StateConsistent
  <2> QED
    BY <2>1, <2>4, <2>5, <2>6
<1>4. ASSUME NEW W \in SUBSET Proc, WaitKswapd(W), ~Stop("full")
      PROVE  SchedInv' /\ current' = current
  <2>1. /\ \A p \in W : waitState[p] = "timer"
        /\ current # Idle /\ at[current] \in {"run", "kern"}
        /\ state' = [WakeState(W) EXCEPT ![current] = "SLEEPING"]
        /\ waitState' = [WakeWait(W) EXCEPT ![current] = "kswapd"]
        /\ inq' = WakeInq(W) /\ x' = WakeX(W)
        /\ at' = [at EXCEPT ![current] = "block"]
        /\ UNCHANGED <<current, needResched, rtVars, timer, kthread, halt>>
    BY <1>4 DEF WaitKswapd, OrHang, Executes
  <2>2. /\ \A p \in W : state[p] = "SLEEPING"
        /\ ~WakeAssert(W) /\ current \notin W /\ state[current] = "RUNNABLE"
        /\ timer[current] = 0 /\ \A p \in W : p # Idle
    BY <2>1 DEF WakeAssert, StateConsistent, TimerOwned, TypeOK
  <2>3. \A o \in Proc : /\ state'[o] = IF o = current THEN "SLEEPING"
                                       ELSE IF o \in W THEN "RUNNABLE" ELSE state[o]
                        /\ waitState'[o] = IF o = current THEN "kswapd"
                                           ELSE IF o \in W THEN "none" ELSE waitState[o]
                        /\ at'[o] = IF o = current THEN "block" ELSE at[o]
    BY <2>1, <2>2, WakeFacts DEF TypeOK
  <2>4. TypeOK'
    BY <2>1, <2>2, WakeFacts DEF TypeOK, rtVars, State, WaitState, At
  <2>5. QueueExact' /\ QueueMirrorsDeadline' /\ DeadlineAhead'
    <3>1. \A o \in Proc :
            /\ inq'[o] = IF WakeState(W)[o] = "RUNNABLE" /\ o # current /\ o # Idle THEN 1 ELSE 0
            /\ inq'[o] > 0 => x'[o] = pt[o]
            /\ o # current => state'[o] = WakeState(W)[o]
      BY <2>1, <2>2, WakeFacts DEF TypeOK
    <3> QED
      BY <2>1, <2>3, <3>1 DEF TypeOK, rtVars, QueueExact, QueueMirrorsDeadline, DeadlineAhead
  <2>6. /\ current \in Proc /\ Idle \in Proc /\ current' = current
        /\ timer' = timer /\ kthread' = kthread
    BY SchedAssumption, <2>1 DEF TypeOK
  <2>7. TimerOwned'
    BY <2>1, <2>2, <2>3, <2>6 DEF TimerOwned
  <2>8. StateConsistent'
    BY <2>1, <2>2, <2>3, <2>6 DEF StateConsistent
  <2> QED
    BY <2>1, <2>4, <2>5, <2>7, <2>8
<1> QED
  BY <1>1, <1>2, <1>3, <1>4

\* do_wait frees a zombie.
LEMMA ReapKeeps ==
  ASSUME SchedInv, NEW p \in Proc, Reap(p)
  PROVE  SchedInv' /\ current' = current
<1> USE SchedAssumption DEF SchedInv, Reap, Executes
<1>1. p # current /\ p # Idle /\ timer[p] = 0 /\ inq[p] = 0
  BY DEF StateConsistent, TimerOwned, QueueExact, TypeOK
<1>2. TypeOK' /\ QueueExact' /\ QueueMirrorsDeadline' /\ DeadlineAhead'
  BY <1>1 DEF TypeOK, At, State, QueueExact, QueueMirrorsDeadline, DeadlineAhead
<1>3. TimerOwned' /\ StateConsistent'
  BY <1>1 DEF TypeOK, TimerOwned, StateConsistent
<1> QED
  BY <1>2, <1>3

\* One step keeps the invariant, and only schedule() changes the current process.
LEMMA StepKeeps ==
  ASSUME SchedInv, [Next]_vars
  PROVE  /\ SchedInv'
         /\ current' # current =>
              /\ state[current'] = "RUNNABLE"
              /\ \A p \in Proc : inq'[p] > 0 => pt[current'] <= pt[p]
<1>1. CASE UNCHANGED vars
  BY <1>1 DEF vars, schedVars, rtVars, SchedInv, TypeOK, QueueExact, QueueMirrorsDeadline,
              TimerOwned, DeadlineAhead, StateConsistent
<1>2. ASSUME NEW p \in Proc, Fork(p)
      PROVE  SchedInv' /\ current' = current
  <2>1. PICK garbage \in {0, 1} : StartChild(p, FALSE, garbage, 0, ProcMaxDeadline)
    BY <1>2 DEF Fork
  <2>2. garbage \in Int /\ 0 \in Int /\ ProcMaxDeadline \in Int /\ FALSE \in BOOLEAN
    BY SchedAssumption
  <2>3. Free(p) /\ Executes({"run"})
    BY <1>2 DEF Fork
  <2> QED
    BY <2>1, <2>2, <2>3, StartChildKeeps
<1>3. ASSUME NEW p \in Proc, NEW r \in RTParams, ForkRT(p, r[1], r[2])
      PROVE  SchedInv' /\ current' = current
  <2>1. r[1] \in Int /\ r[2] \in Int
    BY SchedAssumption
  <2> QED
    BY <1>3, <2>1, StartChildKeeps DEF ForkRT
<1>4. CASE Halted
  BY <1>1, <1>4 DEF Halted
<1> QED
  BY <1>1, <1>2, <1>3, <1>4, TickKeeps, DispatchKeeps, LocalKeeps, WakeKeeps, ReapKeeps DEF Next

\* The scheduler's bookkeeping is right in every state: run queue, deadlines,
\* timers and process states agree, whatever the order of ticks, wakeups,
\* sleeps, forks and exits.
THEOREM SchedulerConsistent == Spec => []SchedInv
BY InitSched, StepKeeps, PTL DEF Spec

\* No RUNNABLE process is lost from the run queue and none is in it twice.
THEOREM RunnableQueuedOnce == Spec => []QueueExact
BY SchedulerConsistent, PTL DEF SchedInv

\* No timer outlives the stack frame of do_sleep, and no sleeper loses its timer.
THEOREM TimersOwned == Spec => []TimerOwned
BY SchedulerConsistent, PTL DEF SchedInv

\* A missed deadline never goes unnoticed: a real-time process with positive
\* parameters has its deadline ahead, whatever integers others passed to forkRT.
THEOREM DeadlinesAhead == Spec => []DeadlineAhead
BY SchedulerConsistent, PTL DEF SchedInv

\* schedule() is earliest deadline first, on the deadlines of the processes and
\* not only on the copies in the heap.
THEOREM EarliestDeadlineFirst == Spec => DispatchEarliest
<1>1. SchedInv /\ [Next]_vars
        => [current' # current =>
              /\ state[current'] = "RUNNABLE"
              /\ \A p \in Proc : inq'[p] > 0 => pt[current'] <= pt[p]]_vars
  BY StepKeeps
<1> QED
  BY SchedulerConsistent, <1>1, PTL DEF Spec, DispatchEarliest

\* No assert of wakeup_proc or run_timer_list can fail.
THEOREM AssertsHold == Spec => []NoFailedAssert
<1>1. Init => NoFailedAssert
  BY DEF Init, NoFailedAssert
<1>2. SchedInv /\ NoFailedAssert /\ [Next]_vars => NoFailedAssert'
  <2> SUFFICES ASSUME SchedInv, halt # "assert", [Next]_vars
               PROVE  halt' # "assert"
    BY DEF NoFailedAssert
  <2>1. /\ ~WakeAssert(Expired)
        /\ \A p \in Expired : waitState[p] \in Interrupted \cup {"none"}
    BY DEF SchedInv, WakeAssert, Expired, TimerOwned, TypeOK, Interrupted
  <2>2. CASE TickStops
    BY <2>1, <2>2 DEF TickStops, Stop
  <2>3. CASE TickRuns
    BY <2>3 DEF TickRuns
  <2>4. ASSUME NEW p \in Proc, Fork(p) PROVE halt' # "assert"
    BY <2>4 DEF Fork, StartChild, OrHang, Stop
  <2>5. ASSUME NEW p \in Proc, NEW r \in RTParams, ForkRT(p, r[1], r[2]) PROVE halt' # "assert"
    BY <2>5 DEF ForkRT, StartChild, OrHang, Stop
  <2>6. ASSUME NEW resume, Schedule(resume) PROVE halt' # "assert"
    BY <2>6 DEF Schedule, OrHang, Stop
  <2>7. CASE \/ IdleLoop \/ TrapReturn \/ KernelYield
             \/ SleepSchedule \/ BlockSchedule \/ ExitSchedule
    BY <2>6, <2>7 DEF IdleLoop, TrapReturn, KernelYield, SleepSchedule, BlockSchedule, ExitSchedule
  <2>8. ASSUME NEW p \in Proc, Wake(p) \/ Reap(p) PROVE halt' # "assert"
    BY <2>8 DEF Wake, Reap, OrHang, Stop
  <2>9. ASSUME NEW W \in SUBSET Proc, WaitKswapd(W) \/ Exit(W) PROVE halt' # "assert"
    BY <2>9 DEF WaitKswapd, Exit, OrHang, Stop
  <2>10. CASE \/ Yield \/ SleepReturn \/ BlockReturn \/ Exec
              \/ \E time \in SleepTimes : Sleep(time)
              \/ Wait
    BY <2>10 DEF Yield, SleepReturn, BlockReturn, Exec, Sleep, Wait
  <2>11. CASE Halted \/ UNCHANGED vars
    BY <2>11 DEF Halted, vars
  <2> QED
    BY <2>2, <2>3, <2>4, <2>5, <2>7, <2>8, <2>9, <2>10, <2>11 DEF Next, Tick
<1> QED
  BY SchedulerConsistent, <1>1, <1>2, PTL DEF Spec

-----------------------------------------------------------------------------
(* The timer list, for any timers and any times: the list of distances     *)
(* implements the independent countdowns of TimerSet, which is what        *)
(* EDFSched takes the timers to be.                                        *)
(*                                                                         *)
(* TInv is the inductive invariant: between two ticks the first distance   *)
(* is positive, so that the assert of run_timer_list holds, and a timer    *)
(* that add_timer puts first has a positive distance.  The steps are       *)
(* compared by sums of distances: two lists whose distances agree from     *)
(* some place on have sums that stay as far apart as they were there       *)
(* (SameStretch).                                                          *)

\* Distance is the sum its recursive definition describes.
LEMMA DistanceSums ==
  ASSUME NEW l, NEW gap, NEW m \in Nat, \A k \in 1 .. m : gap[l[k]] \in Nat
  PROVE  /\ Distance(l, gap, 0) = 0
         /\ \A k \in 0 .. m : Distance(l, gap, k) \in Nat
         /\ \A k \in 1 .. m :
               Distance(l, gap, k) = Distance(l, gap, k - 1) + gap[l[k]]
<1> DEFINE F == [k \in 1 .. m |-> [y \in Nat |-> y + gap[l[k]]]]
           E(h, n) == h = [k \in 0 .. n |-> IF k = 0 THEN 0 ELSE h[k - 1] + gap[l[k]]]
<1>1. F \in [1 .. m -> [Nat -> Nat]]
  OBVIOUS
<1>2. PICK g : LoopsBy(g, m, Nat, 0, F)
  <2> HIDE DEF F
  <2> QED
    BY <1>1, LoopFunctionExists
<1>3. g \in [0 .. m -> Nat] /\ g[0] = 0 /\ \A k \in 1 .. m : g[k] = F[k][g[k - 1]]
  BY <1>2 DEF LoopsBy
<1>4. \A k \in 1 .. m : k - 1 \in 0 .. m /\ g[k] = g[k - 1] + gap[l[k]]
  <2>1. TAKE k \in 1 .. m
  <2>2. k - 1 \in 0 .. m
    OBVIOUS
  <2>3. g[k - 1] \in Nat
    BY <1>3, <2>2
  <2>4. g[k] = F[k][g[k - 1]]
    BY <1>3
  <2> QED
    BY <2>2, <2>3, <2>4
<1> HIDE DEF F
<1>5. ASSUME NEW n \in 0 .. m PROVE Distance(l, gap, n) = g[n]
  <2> DEFINE r == [k \in 0 .. n |-> g[k]]
             h == CHOOSE f : E(f, n)
             S == {k \in 0 .. n : h[k] = g[k]}
  <2>1. E(r, n)
    <3>1. ASSUME NEW k \in 0 .. n
          PROVE  g[k] = IF k = 0 THEN 0 ELSE r[k - 1] + gap[l[k]]
      <4>1. CASE k = 0
        BY <1>3, <4>1
      <4>2. CASE k # 0
        <5>1. k \in 1 .. m /\ k - 1 \in 0 .. n
          BY <4>2
        <5>2. r[k - 1] = g[k - 1]
          BY <5>1
        <5> HIDE DEF r
        <5> QED
          BY <1>4, <4>2, <5>1, <5>2
      <4> QED
        BY <4>1, <4>2
    <3> QED
      BY <3>1
  <2>2. E(h, n)
    <3> HIDE DEF E
    <3> QED
      BY <2>1, Zenon
  <2> HIDE DEF h
  <2>3. 0 \in S
    BY <1>3, <2>2
  <2>4. ASSUME NEW k \in 1 .. n, k - 1 \in S PROVE k \in S
    <3>1. k \in 0 .. n /\ k # 0 /\ k \in 1 .. m
      OBVIOUS
    <3>2. h[k] = h[k - 1] + gap[l[k]]
      BY <2>2, <3>1
    <3>3. h[k - 1] = g[k - 1]
      BY <2>4
    <3> QED
      BY <1>4, <3>1, <3>2, <3>3
  <2>5. n \in S
    <3>1. n \in Nat /\ n \in 0 .. n
      OBVIOUS
    <3> HIDE DEF S
    <3> QED
      BY <2>3, <2>4, <3>1, UpToInduction
  <2>6. Distance(l, gap, n) = h[n]
    BY Zenon DEF Distance, h
  <2> QED
    BY <2>5, <2>6
<1>6. 0 \in 0 .. m
  OBVIOUS
<1>7. Distance(l, gap, 0) = 0 /\ \A k \in 0 .. m : Distance(l, gap, k) \in Nat
  BY <1>3, <1>5, <1>6
<1>8. \A k \in 1 .. m : Distance(l, gap, k) = Distance(l, gap, k - 1) + gap[l[k]]
  <2> TAKE k \in 1 .. m
  <2>1. k \in 0 .. m /\ k - 1 \in 0 .. m /\ g[k] = g[k - 1] + gap[l[k]]
    BY <1>4
  <2>2. Distance(l, gap, k) = g[k] /\ Distance(l, gap, k - 1) = g[k - 1]
    BY <1>5, <2>1
  <2> QED
    BY <2>1, <2>2
<1> QED
  BY <1>7, <1>8

\* From place b on, the second list has the n distances that the first one has
\* from place a on, and it is c ticks apart there.
Stretch(l1, x1, a, l2, x2, b, n, c) ==
  /\ \A k \in 1 .. a + n : x1[l1[k]] \in Nat
  /\ \A k \in 1 .. b + n : x2[l2[k]] \in Nat
  /\ Distance(l2, x2, b) = Distance(l1, x1, a) + c
  /\ \A k \in 1 .. n : x2[l2[b + k]] = x1[l1[a + k]]

\* Two stretches of distances that are the same keep the sums apart by what they
\* were apart before.
LEMMA SameStretch ==
  ASSUME NEW l1, NEW x1, NEW l2, NEW x2, NEW a \in Nat, NEW b \in Nat, NEW n \in Nat,
         NEW c \in Int, Stretch(l1, x1, a, l2, x2, b, n, c)
  PROVE  \A k \in 0 .. n : Distance(l2, x2, b + k) = Distance(l1, x1, a + k) + c
<1>0. /\ \A k \in 1 .. a + n : x1[l1[k]] \in Nat
      /\ \A k \in 1 .. b + n : x2[l2[k]] \in Nat
      /\ Distance(l2, x2, b) = Distance(l1, x1, a) + c
      /\ \A k \in 1 .. n : x2[l2[b + k]] = x1[l1[a + k]]
  BY DEF Stretch
<1> DEFINE S == {k \in 0 .. n : Distance(l2, x2, b + k) = Distance(l1, x1, a + k) + c}
<1>1. 0 \in S
  <2>1. 0 \in 0 .. n /\ b + 0 = b /\ a + 0 = a
    OBVIOUS
  <2> QED
    BY <1>0, <2>1
<1>2. ASSUME NEW k \in 1 .. n, k - 1 \in S PROVE k \in S
  <2>1. /\ a + k \in 1 .. a + n /\ (a + k) - 1 = a + (k - 1)
        /\ b + k \in 1 .. b + n /\ (b + k) - 1 = b + (k - 1)
        /\ a + (k - 1) \in 0 .. a + n /\ b + (k - 1) \in 0 .. b + n
        /\ k \in 0 .. n /\ a + n \in Nat /\ b + n \in Nat
    OBVIOUS
  <2>2. /\ Distance(l1, x1, a + k) = Distance(l1, x1, a + (k - 1)) + x1[l1[a + k]]
        /\ Distance(l1, x1, a + (k - 1)) \in Nat
    <3> DEFINE m == a + n
    <3>1. m \in Nat /\ \A u \in 1 .. m : x1[l1[u]] \in Nat
      BY <1>0, <2>1
    <3> HIDE DEF m, S
    <3>2. /\ \A u \in 0 .. m : Distance(l1, x1, u) \in Nat
          /\ \A u \in 1 .. m : Distance(l1, x1, u) = Distance(l1, x1, u - 1) + x1[l1[u]]
      BY <3>1, DistanceSums
    <3> QED
      BY <2>1, <3>2 DEF m
  <2>3. /\ Distance(l2, x2, b + k) = Distance(l2, x2, b + (k - 1)) + x2[l2[b + k]]
        /\ Distance(l2, x2, b + (k - 1)) \in Nat
    <3> DEFINE m == b + n
    <3>1. m \in Nat /\ \A u \in 1 .. m : x2[l2[u]] \in Nat
      BY <1>0, <2>1
    <3> HIDE DEF m, S
    <3>2. /\ \A u \in 0 .. m : Distance(l2, x2, u) \in Nat
          /\ \A u \in 1 .. m : Distance(l2, x2, u) = Distance(l2, x2, u - 1) + x2[l2[u]]
      BY <3>1, DistanceSums
    <3> QED
      BY <2>1, <3>2 DEF m
  <2>4. Distance(l2, x2, b + (k - 1)) = Distance(l1, x1, a + (k - 1)) + c
    BY <1>2
  <2>5. x1[l1[a + k]] \in Nat /\ x2[l2[b + k]] = x1[l1[a + k]]
    BY <1>0, <2>1
  <2>6. Distance(l2, x2, b + k) = Distance(l1, x1, a + k) + c
    BY <2>2, <2>3, <2>4, <2>5
  <2> QED
    BY <2>1, <2>6
<1> HIDE DEF S
<1>3. \A k \in 0 .. n : k \in S
  BY <1>1, <1>2, UpToInduction
<1> QED
  BY <1>3 DEF S

\* What InsertAt does to a list.
LEMMA Inserted ==
  ASSUME NEW T, NEW l \in Seq(T), NEW e \in T, NEW i \in 1 .. Len(l) + 1
  PROVE  /\ InsertAt(l, i, e) \in Seq(T)
         /\ Len(InsertAt(l, i, e)) = Len(l) + 1
         /\ \A k \in 1 .. i - 1 : InsertAt(l, i, e)[k] = l[k]
         /\ InsertAt(l, i, e)[i] = e
         /\ \A k \in i .. Len(l) : InsertAt(l, i, e)[k + 1] = l[k]
<1> DEFINE p == SubSeq(l, 1, i - 1)
           q == SubSeq(l, i, Len(l))
           r == p \o <<e>>
<1>1. /\ p \in Seq(T) /\ Len(p) = i - 1
      /\ \A k \in 1 .. i - 1 : p[k] = l[k]
  OBVIOUS
<1>2. /\ q \in Seq(T) /\ Len(q) = Len(l) - i + 1
      /\ \A k \in 1 .. Len(l) - i + 1 : q[k] = l[i + k - 1]
  OBVIOUS
<1> HIDE DEF p, q
<1>3. /\ r \in Seq(T) /\ Len(r) = i /\ r[i] = e
      /\ \A k \in 1 .. i - 1 : r[k] = l[k]
  BY <1>1
<1> HIDE DEF r
<1>4. /\ r \o q \in Seq(T) /\ Len(r \o q) = Len(l) + 1
      /\ \A k \in 1 .. i : (r \o q)[k] = r[k]
  <2>1. r \o q \in Seq(T) /\ Len(r \o q) = Len(r) + Len(q)
    <3>1. r \in Seq(T) /\ q \in Seq(T)
      BY <1>2, <1>3
    <3> QED
      BY <3>1, ConcatProperties
  <2>2. Len(r) + Len(q) = Len(l) + 1
    BY <1>2, <1>3
  <2>3. ASSUME NEW k \in 1 .. i PROVE (r \o q)[k] = r[k]
    <3>1. k \in 1 .. Len(r) + Len(q) /\ k <= Len(r)
      BY <1>2, <1>3
    <3> QED
      BY <1>2, <1>3, <3>1
  <2> QED
    BY <2>1, <2>2, <2>3
<1>5. ASSUME NEW k \in i .. Len(l) PROVE (r \o q)[k + 1] = l[k]
  <2>1. k + 1 \in 1 .. Len(r) + Len(q) /\ k + 1 > Len(r) /\ k + 1 - Len(r) = k + 1 - i
    BY <1>2, <1>3
  <2>2. (r \o q)[k + 1] = q[k + 1 - i]
    BY <1>2, <1>3, <2>1
  <2>3. k + 1 - i \in 1 .. Len(l) - i + 1 /\ i + (k + 1 - i) - 1 = k
    OBVIOUS
  <2> QED
    BY <1>2, <2>2, <2>3
<1>6. InsertAt(l, i, e) = r \o q
  BY DEF InsertAt, p, q, r
<1> QED
  BY <1>3, <1>4, <1>5, <1>6

\* What RemoveAt does to a list.
LEMMA Deleted ==
  ASSUME NEW T, NEW l \in Seq(T), NEW i \in 1 .. Len(l)
  PROVE  /\ RemoveAt(l, i) \in Seq(T)
         /\ Len(RemoveAt(l, i)) = Len(l) - 1
         /\ \A k \in 1 .. i - 1 : RemoveAt(l, i)[k] = l[k]
         /\ \A k \in i .. Len(l) - 1 : RemoveAt(l, i)[k] = l[k + 1]
<1> DEFINE p == SubSeq(l, 1, i - 1)
           q == SubSeq(l, i + 1, Len(l))
<1>1. /\ p \in Seq(T) /\ Len(p) = i - 1
      /\ \A k \in 1 .. i - 1 : p[k] = l[k]
  OBVIOUS
<1>2. /\ q \in Seq(T) /\ Len(q) = Len(l) - i
      /\ \A k \in 1 .. Len(l) - i : q[k] = l[i + k]
  OBVIOUS
<1> HIDE DEF p, q
<1>3. /\ p \o q \in Seq(T) /\ Len(p \o q) = Len(l) - 1
      /\ \A k \in 1 .. i - 1 : (p \o q)[k] = p[k]
  <2>1. p \o q \in Seq(T) /\ Len(p \o q) = Len(p) + Len(q)
    <3>1. p \in Seq(T) /\ q \in Seq(T)
      BY <1>1, <1>2
    <3> QED
      BY <3>1, ConcatProperties
  <2>2. Len(p) + Len(q) = Len(l) - 1
    BY <1>1, <1>2
  <2>3. ASSUME NEW k \in 1 .. i - 1 PROVE (p \o q)[k] = p[k]
    <3>1. k \in 1 .. Len(p) + Len(q) /\ k <= Len(p)
      BY <1>1, <1>2
    <3> QED
      BY <1>1, <1>2, <3>1
  <2> QED
    BY <2>1, <2>2, <2>3
<1>4. ASSUME NEW k \in i .. Len(l) - 1 PROVE (p \o q)[k] = l[k + 1]
  <2>1. k \in 1 .. Len(p) + Len(q) /\ k > Len(p) /\ k - Len(p) = k + 1 - i
    BY <1>1, <1>2
  <2>2. (p \o q)[k] = q[k + 1 - i]
    BY <1>1, <1>2, <2>1
  <2>3. k + 1 - i \in 1 .. Len(l) - i /\ i + (k + 1 - i) = k + 1
    OBVIOUS
  <2> QED
    BY <1>2, <2>2, <2>3
<1>5. RemoveAt(l, i) = p \o q
  BY DEF RemoveAt, p, q
<1> QED
  BY <1>1, <1>3, <1>4, <1>5

\* The invariant: the types, no failed assert, and positive distances where a tick
\* will look.
TInv ==
  /\ TimerTypeOK
  /\ op # "assert"
  /\ op # "run" /\ list # <<>> => expires[list[1]] >= 1
  /\ op = "add" /\ le = 1 => expires[adding] >= 1

\* A later timer is not due before the first one.
LEMMA DistanceGrows ==
  ASSUME NEW l, NEW gap, NEW m \in Nat, \A k \in 1 .. m : gap[l[k]] \in Nat
  PROVE  \A k \in 1 .. m : Distance(l, gap, k) >= gap[l[1]]
<1> DEFINE S == {k \in 0 .. m : k = 0 \/ Distance(l, gap, k) >= gap[l[1]]}
<1>1. 0 \in S
  OBVIOUS
<1>2. ASSUME NEW k \in 1 .. m, k - 1 \in S PROVE k \in S
  <2>1. /\ Distance(l, gap, 0) = 0
        /\ Distance(l, gap, k) = Distance(l, gap, k - 1) + gap[l[k]]
        /\ Distance(l, gap, k - 1) \in Nat /\ k \in 0 .. m
    <3>1. k - 1 \in 0 .. m /\ k \in 0 .. m
      OBVIOUS
    <3> HIDE DEF S
    <3> QED
      BY <3>1, DistanceSums
  <2>2. gap[l[k]] \in Nat /\ gap[l[1]] \in Nat
    <3>1. 1 \in 1 .. m
      OBVIOUS
    <3> QED
      BY <3>1
  <2>3. CASE k = 1
    BY <2>1, <2>2, <2>3
  <2>4. CASE k # 1
    BY <1>2, <2>1, <2>2, <2>4
  <2> QED
    BY <2>3, <2>4
<1> HIDE DEF S
<1>3. \A k \in 0 .. m : k \in S
  BY <1>1, <1>2, UpToInduction
<1>4. \A k \in 1 .. m : k \in 0 .. m /\ k # 0
  OBVIOUS
<1> QED
  BY <1>3, <1>4 DEF S

\* A timer has one place in the list.
LEMMA PlaceUnique ==
  ASSUME NEW l \in Seq(Timer), IsInjective(l), NEW i \in 1 .. Len(l)
  PROVE  (CHOOSE j \in 1 .. Len(l) : l[j] = l[i]) = i
BY DEF IsInjective

\* What del_timer does to the list and the distances: it closes the gap.
LEMMA RemovedClosesGap ==
  ASSUME TimerTypeOK, NEW i \in Pos, Removed(i)
  PROVE  /\ list' \in Seq(Timer)
         /\ Len(list') = Len(list) - 1
         /\ expires' \in [Timer -> Nat]
         /\ \A k \in 1 .. i - 1 : /\ list'[k] = list[k]
                                  /\ expires'[list'[k]] = expires[list[k]]
         /\ \A k \in i .. Len(list) - 1 : list'[k] = list[k + 1]
         /\ i < Len(list) => expires'[list'[i]] = expires[list[i]] + expires[list[i + 1]]
         /\ \A k \in i + 1 .. Len(list) - 1 : expires'[list'[k]] = expires[list[k + 1]]
         /\ IsInjective(list')
         /\ \A t \in Timer : OnList(t)' <=> OnList(t) /\ t # list[i]
<1> USE DEF Pos
<1>1. /\ list \in Seq(Timer) /\ IsInjective(list) /\ expires \in [Timer -> Nat]
      /\ list' = RemoveAt(list, i) /\ i \in 1 .. Len(list)
  BY DEF TimerTypeOK, Removed
<1>2. /\ list' \in Seq(Timer) /\ Len(list') = Len(list) - 1
      /\ \A k \in 1 .. i - 1 : list'[k] = list[k]
      /\ \A k \in i .. Len(list) - 1 : list'[k] = list[k + 1]
  BY <1>1, Deleted
<1>3. \A j, k \in 1 .. Len(list) : list[j] = list[k] => j = k
  BY <1>1 DEF IsInjective
<1>4. \A k \in 1 .. Len(list) : list[k] \in Timer
  BY <1>1
<1>5. /\ i < Len(list) => expires' = [expires EXCEPT ![list[i + 1]] = @ + expires[list[i]]]
      /\ ~(i < Len(list)) => expires' = expires
  BY <1>1 DEF Removed
<1>6. expires' \in [Timer -> Nat]
  <2>1. CASE i < Len(list)
    <3>1. list[i + 1] \in Timer /\ list[i] \in Timer
      BY <1>1, <1>4, <2>1
    <3> QED
      BY <1>1, <1>5, <2>1, <3>1
  <2>2. CASE ~(i < Len(list))
    BY <1>1, <1>5, <2>2
  <2> QED
    BY <2>1, <2>2
<1>7. ASSUME NEW k \in 1 .. Len(list), k # i + 1 PROVE expires'[list[k]] = expires[list[k]]
  <2>1. CASE i < Len(list)
    <3>1. i + 1 \in 1 .. Len(list)
      BY <1>1, <2>1
    <3>2. list[k] # list[i + 1]
      BY <1>3, <1>7, <3>1
    <3> QED
      BY <1>1, <1>4, <1>5, <2>1, <3>2
  <2> QED
    BY <1>5, <2>1
<1>8. i < Len(list) => expires'[list'[i]] = expires[list[i]] + expires[list[i + 1]]
  <2>1. SUFFICES ASSUME i < Len(list)
                 PROVE  expires'[list'[i]] = expires[list[i]] + expires[list[i + 1]]
    OBVIOUS
  <2>2. i \in i .. Len(list) - 1 /\ i + 1 \in 1 .. Len(list) /\ i \in 1 .. Len(list)
    BY <1>1, <2>1
  <2>3. list'[i] = list[i + 1] /\ list[i + 1] \in Timer /\ list[i] \in Timer
    BY <1>2, <1>4, <2>2
  <2>4. expires'[list[i + 1]] = expires[list[i + 1]] + expires[list[i]]
    BY <1>1, <1>5, <2>1, <2>3
  <2>5. expires[list[i]] \in Nat /\ expires[list[i + 1]] \in Nat
    BY <1>1, <2>3
  <2> QED
    BY <2>3, <2>4, <2>5
<1>9. /\ \A k \in 1 .. i - 1 : expires'[list'[k]] = expires[list[k]]
      /\ \A k \in i + 1 .. Len(list) - 1 : expires'[list'[k]] = expires[list[k + 1]]
  <2>1. ASSUME NEW k \in 1 .. i - 1 PROVE expires'[list'[k]] = expires[list[k]]
    <3>1. k \in 1 .. Len(list) /\ k # i + 1
      BY <1>1
    <3> QED
      BY <1>2, <1>7, <3>1
  <2>2. ASSUME NEW k \in i + 1 .. Len(list) - 1 PROVE expires'[list'[k]] = expires[list[k + 1]]
    <3>1. k + 1 \in 1 .. Len(list) /\ k + 1 # i + 1 /\ k \in i .. Len(list) - 1
      BY <1>1
    <3> QED
      BY <1>2, <1>7, <3>1
  <2> QED
    BY <2>1, <2>2
<1> DEFINE Old(k) == IF k < i THEN k ELSE k + 1
<1>10. \A k \in 1 .. Len(list) - 1 : /\ Old(k) \in 1 .. Len(list)
                                     /\ list'[k] = list[Old(k)] /\ Old(k) # i
  <2>1. TAKE k \in 1 .. Len(list) - 1
  <2>2. CASE k < i
    <3>1. k \in 1 .. i - 1 /\ k \in 1 .. Len(list) /\ k # i
      BY <1>1, <2>2
    <3>2. Old(k) = k
      BY <2>2
    <3> HIDE DEF Old
    <3> QED
      BY <1>2, <3>1, <3>2
  <2>3. CASE ~(k < i)
    <3>1. k \in i .. Len(list) - 1 /\ k + 1 \in 1 .. Len(list) /\ k + 1 # i
      BY <1>1, <2>3
    <3>2. Old(k) = k + 1
      BY <2>3
    <3> HIDE DEF Old
    <3> QED
      BY <1>2, <3>1, <3>2
  <2> QED
    BY <2>2, <2>3
<1>11. \A j, k \in 1 .. Len(list) - 1 : Old(j) = Old(k) => j = k
  BY <1>1
<1>12. IsInjective(list')
  <2>1. DOMAIN list' = 1 .. Len(list) - 1
    BY <1>2
  <2> HIDE DEF Old
  <2> QED
    BY <1>3, <1>10, <1>11, <2>1 DEF IsInjective
<1>13. ASSUME NEW t \in Timer PROVE OnList(t)' <=> OnList(t) /\ t # list[i]
  <2>1. ASSUME OnList(t)' PROVE OnList(t) /\ t # list[i]
    <3>1. PICK k \in 1 .. Len(list) - 1 : list'[k] = t
      BY <1>2, <2>1 DEF OnList
    <3> HIDE DEF Old
    <3> QED
      BY <1>1, <1>3, <1>10, <3>1 DEF OnList
  <2>2. ASSUME OnList(t), t # list[i] PROVE OnList(t)'
    <3>1. PICK k \in 1 .. Len(list) : list[k] = t
      BY <2>2 DEF OnList
    <3>2. CASE k < i
      <4>1. k \in 1 .. i - 1 /\ k \in 1 .. Len(list) - 1
        BY <1>1, <3>2
      <4> QED
        BY <1>2, <3>1, <4>1 DEF OnList
    <3>3. CASE ~(k < i)
      <4>1. k - 1 \in i .. Len(list) - 1 /\ k - 1 \in 1 .. Len(list) - 1 /\ (k - 1) + 1 = k
        BY <1>1, <2>2, <3>1, <3>3
      <4> QED
        BY <1>2, <3>1, <4>1 DEF OnList
    <3> QED
      BY <3>2, <3>3
  <2> QED
    BY <2>1, <2>2
<1> HIDE DEF Old
<1> QED
  BY <1>2, <1>6, <1>8, <1>9, <1>12, <1>13

\* The loop of add_timer goes on past position le.
Passes == le \in Pos /\ expires[adding] >= expires[list[le]]

\* What the end of add_timer does: the timer comes before the one at position le,
\* which gives up the distance.
LEMMA AddedSplitsDistance ==
  ASSUME TimerTypeOK, op = "add", AddLoop, ~Passes
  PROVE  /\ list' \in Seq(Timer)
         /\ Len(list') = Len(list) + 1
         /\ expires' \in [Timer -> Nat]
         /\ \A k \in 1 .. le - 1 : /\ list'[k] = list[k]
                                   /\ expires'[list'[k]] = expires[list[k]]
         /\ list'[le] = adding
         /\ expires'[adding] = expires[adding]
         /\ \A k \in le .. Len(list) : list'[k + 1] = list[k]
         /\ le \in Pos => expires'[list[le]] = expires[list[le]] - expires[adding]
         /\ \A k \in le + 1 .. Len(list) : expires'[list[k]] = expires[list[k]]
         /\ IsInjective(list')
         /\ \A t \in Timer : OnList(t)' <=> OnList(t) \/ t = adding
         /\ op' = "idle" /\ adding' = adding
<1> USE DEF Pos
<1>1. /\ list \in Seq(Timer) /\ IsInjective(list) /\ expires \in [Timer -> Nat]
      /\ adding \in Timer /\ le \in 1 .. Len(list) + 1 /\ ~OnList(adding)
      /\ list' = InsertAt(list, le, adding)
      /\ op' = "idle" /\ adding' = adding
  BY DEF TimerTypeOK, AddLoop, Passes
<1>2. /\ list' \in Seq(Timer) /\ Len(list') = Len(list) + 1
      /\ \A k \in 1 .. le - 1 : list'[k] = list[k]
      /\ list'[le] = adding
      /\ \A k \in le .. Len(list) : list'[k + 1] = list[k]
  <2> DEFINE new == InsertAt(list, le, adding)
  <2>1. /\ new \in Seq(Timer) /\ Len(new) = Len(list) + 1
        /\ \A k \in 1 .. le - 1 : new[k] = list[k]
        /\ new[le] = adding
        /\ \A k \in le .. Len(list) : new[k + 1] = list[k]
    <3>1. list \in Seq(Timer) /\ adding \in Timer /\ le \in 1 .. Len(list) + 1
      BY <1>1
    <3> QED
      BY <3>1, Inserted
  <2> HIDE DEF new
  <2>2. list' = new
    BY <1>1 DEF new
  <2> QED
    BY <2>1, <2>2
<1>3. /\ \A j, k \in 1 .. Len(list) : list[j] = list[k] => j = k
      /\ \A k \in 1 .. Len(list) : list[k] \in Timer /\ list[k] # adding
  BY <1>1 DEF IsInjective, OnList
<1>4. /\ le \in Pos => expires' = [expires EXCEPT ![list[le]] = @ - expires[adding]]
      /\ le \notin Pos => expires' = expires
      /\ le \in Pos => expires[adding] < expires[list[le]]
  <2>1. /\ expires' = IF le \in Pos
                        THEN [expires EXCEPT ![list[le]] = @ - expires[adding]]
                        ELSE expires
    BY DEF AddLoop, Passes
  <2>2. le \in Pos => expires[list[le]] \in Nat /\ expires[adding] \in Nat
    BY <1>1, <1>3
  <2> QED
    BY <2>1, <2>2 DEF Passes
<1>5. /\ expires' \in [Timer -> Nat]
      /\ expires'[adding] = expires[adding]
      /\ \A k \in 1 .. Len(list) : k # le => expires'[list[k]] = expires[list[k]]
      /\ le \in Pos => expires'[list[le]] = expires[list[le]] - expires[adding]
  <2>1. CASE le \in Pos
    <3>1. /\ list[le] \in Timer /\ list[le] # adding
          /\ \A k \in 1 .. Len(list) : k # le => list[k] \in Timer /\ list[k] # list[le]
      BY <1>3, <2>1
    <3>2. expires[list[le]] \in Nat /\ expires[adding] \in Nat
      BY <1>1, <3>1
    <3> QED
      BY <1>1, <1>4, <2>1, <3>1, <3>2
  <2>2. CASE le \notin Pos
    BY <1>1, <1>4, <2>2
  <2> QED
    BY <2>1, <2>2
<1>6. /\ \A k \in 1 .. le - 1 : expires'[list'[k]] = expires[list[k]]
      /\ \A k \in le + 1 .. Len(list) : expires'[list[k]] = expires[list[k]]
  <2>1. ASSUME NEW k \in 1 .. le - 1 PROVE expires'[list'[k]] = expires[list[k]]
    <3>1. k \in 1 .. Len(list) /\ k # le
      BY <1>1
    <3> QED
      BY <1>2, <1>5, <3>1
  <2>2. ASSUME NEW k \in le + 1 .. Len(list) PROVE expires'[list[k]] = expires[list[k]]
    <3>1. k \in 1 .. Len(list) /\ k # le
      BY <1>1
    <3> QED
      BY <1>5, <3>1
  <2> QED
    BY <2>1, <2>2
\* Where the entries of the new list come from; 0 is the new timer.
<1> DEFINE Old(k) == IF k < le THEN k ELSE IF k = le THEN 0 ELSE k - 1
<1>7. \A k \in 1 .. Len(list) + 1 :
         IF Old(k) = 0 THEN list'[k] = adding
                       ELSE Old(k) \in 1 .. Len(list) /\ list'[k] = list[Old(k)]
  <2>1. TAKE k \in 1 .. Len(list) + 1
  <2>2. CASE k < le
    <3>1. k \in 1 .. le - 1 /\ k \in 1 .. Len(list) /\ k # 0
      BY <1>1, <2>2
    <3>2. Old(k) = k
      BY <2>2
    <3> HIDE DEF Old
    <3> QED
      BY <1>2, <3>1, <3>2
  <2>3. CASE k = le
    BY <1>1, <1>2, <2>3
  <2>4. CASE k > le
    <3>1. k - 1 \in le .. Len(list) /\ k - 1 \in 1 .. Len(list) /\ k - 1 # 0
          /\ (k - 1) + 1 = k
      BY <1>1, <2>4
    <3>2. Old(k) = k - 1
      BY <1>1, <2>4
    <3>3. list'[(k - 1) + 1] = list[k - 1]
      BY <1>2, <3>1
    <3> HIDE DEF Old
    <3> QED
      BY <3>1, <3>2, <3>3
  <2> QED
    BY <1>1, <2>2, <2>3, <2>4
<1>8. \A j, k \in 1 .. Len(list) + 1 : Old(j) = Old(k) => j = k
  BY <1>1
<1>9. IsInjective(list')
  <2>1. DOMAIN list' = 1 .. Len(list) + 1
    BY <1>2
  <2> HIDE DEF Old
  <2> QED
    BY <1>3, <1>7, <1>8, <2>1 DEF IsInjective
<1>10. ASSUME NEW t \in Timer PROVE OnList(t)' <=> OnList(t) \/ t = adding
  <2>1. ASSUME OnList(t)' PROVE OnList(t) \/ t = adding
    <3>1. PICK k \in 1 .. Len(list) + 1 : list'[k] = t
      BY <1>2, <2>1 DEF OnList
    <3> HIDE DEF Old
    <3> QED
      BY <1>7, <3>1 DEF OnList
  <2>2. ASSUME OnList(t) PROVE OnList(t)'
    <3>1. PICK k \in 1 .. Len(list) : list[k] = t
      BY <2>2 DEF OnList
    <3>2. CASE k < le
      <4>1. k \in 1 .. le - 1 /\ k \in 1 .. Len(list) + 1
        BY <1>1, <3>2
      <4> QED
        BY <1>2, <3>1, <4>1 DEF OnList
    <3>3. CASE ~(k < le)
      <4>1. k \in le .. Len(list) /\ k + 1 \in 1 .. Len(list) + 1
        BY <1>1, <3>3
      <4> QED
        BY <1>2, <3>1, <4>1 DEF OnList
    <3> QED
      BY <3>2, <3>3
  <2>3. ASSUME t = adding PROVE OnList(t)'
    <3>1. le \in 1 .. Len(list')
      BY <1>1, <1>2
    <3> QED
      BY <1>2, <2>3, <3>1 DEF OnList
  <2> QED
    BY <2>1, <2>2, <2>3
<1> HIDE DEF Old
<1> QED
  BY <1>1, <1>2, <1>5, <1>6, <1>9, <1>10

\* The empty list is in order.
LEMMA TInvInit == TimerInit => TInv
<1>1. <<>> \in Seq(Timer) /\ Len(<<>>) = 0 /\ IsInjective(<<>>)
  BY DEF IsInjective
<1> QED
  BY <1>1 DEF TimerInit, TInv, TimerTypeOK

\* Every iteration keeps the list in order.
LEMMA TInvNext == TInv /\ [TimerNext]_timerVars => TInv'
<1> SUFFICES ASSUME TInv, [TimerNext]_timerVars PROVE TInv'
  OBVIOUS
<1>1. /\ list \in Seq(Timer) /\ IsInjective(list) /\ expires \in [Timer -> Nat]
      /\ op \in {"idle", "add", "run"} /\ adding \in Timer
      /\ op # "run" /\ list # <<>> => expires[list[1]] >= 1
      /\ list # <<>> => Len(list) >= 1 /\ Len(list) \in Nat /\ 1 \in Pos
      /\ Len(list) \in Nat
      /\ \A k \in Pos : list[k] \in Timer /\ expires[list[k]] \in Nat
  BY DEF TInv, TimerTypeOK, Pos
<1>2. ASSUME NEW t \in Timer, NEW time \in Times, AddTimer(t, time) PROVE TInv'
  <2>1. time \in Nat /\ time >= 1
    BY TimesAssumption
  <2>2. /\ list' = list /\ op' = "add" /\ adding' = t /\ le' = 1
        /\ expires' = [expires EXCEPT ![t] = time]
        /\ op = "idle" /\ ~OnList(t)
    BY <1>2 DEF AddTimer
  <2>3. expires' \in [Timer -> Nat] /\ expires'[t] = time
    BY <1>1, <2>1, <2>2
  <2>4. list # <<>> => expires'[list[1]] >= 1
    BY <1>1, <2>2 DEF OnList
  <2>5. ~OnList(t)'
    BY <2>2 DEF OnList, Pos
  <2> QED
    BY <1>1, <2>1, <2>2, <2>3, <2>4, <2>5 DEF TInv, TimerTypeOK
<1>3. ASSUME NEW t \in Timer, DelTimer(t) PROVE TInv'
  <2>1. CASE ~OnList(t)
    BY <1>3, <2>1 DEF DelTimer, TInv, TimerTypeOK, OnList, Pos
  <2>2. CASE OnList(t)
    <3>1. op = "idle" /\ op' = "idle" /\ adding' = adding
      BY <1>3 DEF DelTimer
    <3>2. PICK i \in Pos : Removed(i)
      BY <1>3, <2>2 DEF DelTimer
    <3>3. /\ list' \in Seq(Timer) /\ Len(list') = Len(list) - 1
          /\ expires' \in [Timer -> Nat] /\ IsInjective(list')
          /\ 1 \in 1 .. i - 1 => expires'[list'[1]] = expires[list[1]]
          /\ i < Len(list) => expires'[list'[i]] = expires[list[i]] + expires[list[i + 1]]
      <4>1. TimerTypeOK
        BY DEF TInv
      <4> QED
        BY <3>2, <4>1, RemovedClosesGap
    <3>4. list' # <<>> => expires'[list'[1]] >= 1
      <4>1. SUFFICES ASSUME list' # <<>> PROVE expires'[list'[1]] >= 1
        OBVIOUS
      <4>2. Len(list') \in Nat /\ Len(list') # 0
        BY <3>3, <4>1
      <4>3. Len(list) >= 2 /\ list # <<>> /\ expires[list[1]] >= 1 /\ expires[list[1]] \in Nat
        BY <1>1, <3>1, <3>3, <4>2
      <4>4. CASE i = 1
        <5>1. expires'[list'[1]] = expires[list[1]] + expires[list[2]] /\ 2 \in Pos
          BY <1>1, <3>3, <4>3, <4>4 DEF Pos
        <5>2. expires[list[2]] \in Nat
          BY <1>1, <5>1
        <5> QED
          BY <4>3, <5>1, <5>2
      <4>5. CASE i # 1
        <5>1. 1 \in 1 .. i - 1
          BY <3>2, <4>5 DEF Pos
        <5> QED
          BY <3>3, <4>3, <5>1
      <4> QED
        BY <4>4, <4>5
    <3> QED
      BY <1>1, <3>1, <3>3, <3>4 DEF TInv, TimerTypeOK
  <2> QED
    BY <2>1, <2>2
<1>4. ASSUME AddLoop PROVE TInv'
  <2>1. /\ op = "add" /\ le \in 1 .. Len(list) + 1 /\ ~OnList(adding) /\ adding' = adding
        /\ expires[adding] \in Nat
    BY <1>1, <1>4 DEF AddLoop, TInv, TimerTypeOK
  <2>2. CASE Passes
    <3>1. /\ expires' = [expires EXCEPT ![adding] = @ - expires[list[le]]]
          /\ le' = le + 1 /\ list' = list /\ op' = op
          /\ le \in Pos /\ expires[adding] >= expires[list[le]]
      BY <1>4, <2>2 DEF AddLoop, Passes
    <3>2. expires' \in [Timer -> Nat]
      BY <1>1, <2>1, <3>1
    <3>3. list # <<>> => expires'[list[1]] >= 1
      BY <1>1, <2>1, <3>1 DEF OnList
    <3>4. le' \in 1 .. Len(list') + 1 /\ le' # 1
      BY <1>1, <2>1, <3>1 DEF Pos
    <3>5. ~OnList(adding)'
      BY <2>1, <3>1 DEF OnList, Pos
    <3> QED
      BY <1>1, <2>1, <3>1, <3>2, <3>3, <3>4, <3>5 DEF TInv, TimerTypeOK
  <2>3. CASE ~Passes
    <3>1. TimerTypeOK
      BY DEF TInv
    <3>2. /\ list' \in Seq(Timer) /\ IsInjective(list') /\ expires' \in [Timer -> Nat]
          /\ op' = "idle"
          /\ 1 \in 1 .. le - 1 => expires'[list'[1]] = expires[list[1]]
          /\ list'[le] = adding /\ expires'[adding] = expires[adding]
      BY <1>4, <2>1, <2>3, <3>1, AddedSplitsDistance
    <3>3. expires'[list'[1]] >= 1
      <4>1. CASE le = 1
        BY <2>1, <3>2, <4>1 DEF TInv
      <4>2. CASE le # 1
        <5>1. 1 \in 1 .. le - 1 /\ list # <<>>
          BY <1>1, <2>1, <4>2
        <5> QED
          BY <1>1, <2>1, <3>2, <5>1
      <4> QED
        BY <4>1, <4>2
    <3> QED
      BY <1>1, <2>1, <3>2, <3>3 DEF TInv, TimerTypeOK
  <2> QED
    BY <2>2, <2>3
<1>5. ASSUME RunTimerList PROVE TInv'
  <2>1. op = "idle" /\ list # <<>> /\ expires[list[1]] >= 1 /\ Head(list) = list[1]
        /\ list[1] \in Timer /\ expires[list[1]] \in Nat
    BY <1>1, <1>5 DEF RunTimerList
  <2>2. /\ op' = "run" /\ expires' = [expires EXCEPT ![list[1]] = @ - 1]
        /\ list' = list /\ adding' = adding
    BY <1>5, <2>1 DEF RunTimerList
  <2>3. expires' \in [Timer -> Nat]
    BY <1>1, <2>1, <2>2
  <2> QED
    BY <1>1, <2>2, <2>3 DEF TInv, TimerTypeOK
<1>6. ASSUME RunLoop PROVE TInv'
  <2>1. op = "run" /\ adding' = adding
    BY <1>6 DEF RunLoop
  <2>2. CASE list # <<>> /\ expires[Head(list)] = 0
    <3>1. Removed(1) /\ op' = "run" /\ 1 \in Pos /\ TimerTypeOK
      BY <1>1, <1>6, <2>1, <2>2 DEF RunLoop, TInv
    <3>2. list' \in Seq(Timer) /\ IsInjective(list') /\ expires' \in [Timer -> Nat]
      BY <3>1, RemovedClosesGap
    <3> QED
      BY <1>1, <2>1, <3>1, <3>2 DEF TInv, TimerTypeOK
  <2>3. CASE ~(list # <<>> /\ expires[Head(list)] = 0)
    <3>1. op' = "idle" /\ list' = list /\ expires' = expires
      BY <1>6, <2>3 DEF RunLoop
    <3>2. list # <<>> => expires[list[1]] >= 1
      <4>1. list # <<>> => Head(list) = list[1] /\ expires[list[1]] \in Nat
        BY <1>1
      <4> QED
        BY <2>3, <4>1
    <3> QED
      BY <1>1, <2>1, <3>1, <3>2 DEF TInv, TimerTypeOK
  <2> QED
    BY <2>2, <2>3
<1>7. CASE UNCHANGED timerVars
  BY <1>7 DEF timerVars, TInv, TimerTypeOK, OnList, Pos
<1> QED
  BY <1>2, <1>3, <1>4, <1>5, <1>6, <1>7 DEF TimerNext

\* Distances are what add_timer and del_timer leave them to be, and the assert of
\* run_timer_list on the first one never fails.
THEOREM TimersConsistent == TimerSpec => []TInv
<1>1. TimerInit => TInv
  BY TInvInit
<1>2. TInv /\ [TimerNext]_timerVars => TInv'
  BY TInvNext
<1> QED
  BY <1>1, <1>2, PTL DEF TimerSpec

\* Left in terms of places in the list.
LeftKnown ==
  /\ \E S : left \in [Timer -> S]
  /\ \A i \in Pos : /\ left[list[i]] = Distance(list, expires, i)
                    /\ Distance(list, expires, i) \in Nat
                    /\ op # "run" => Distance(list, expires, i) >= 1
  /\ op = "add" => left[adding] = Distance(list, expires, le - 1) + expires[adding]
  /\ \A t \in Timer : ~OnList(t) /\ ~(op = "add" /\ t = adding) => left[t] = -1

\* That is what it says in every state the list is in order.
LEMMA LeftFromPlace == TInv => LeftKnown
<1> SUFFICES ASSUME TInv PROVE LeftKnown
  OBVIOUS
<1>1. /\ list \in Seq(Timer) /\ IsInjective(list) /\ expires \in [Timer -> Nat]
      /\ op = "add" => ~OnList(adding)
      /\ Len(list) \in Nat
      /\ \A k \in 1 .. Len(list) : list[k] \in Timer /\ expires[list[k]] \in Nat
  BY DEF TInv, TimerTypeOK
<1>2. ASSUME NEW i \in Pos
      PROVE  /\ left[list[i]] = Distance(list, expires, i)
             /\ Distance(list, expires, i) \in Nat
             /\ op # "run" => Distance(list, expires, i) >= 1
  <2>0. i \in 1 .. Len(list)
    BY DEF Pos
  <2>1. (CHOOSE j \in Pos : list[j] = list[i]) = i
    BY <1>1, <2>0, PlaceUnique DEF Pos
  <2>2. OnList(list[i]) /\ (op = "add" => list[i] # adding)
    BY <1>1 DEF OnList
  <2>3. Left(list[i]) = Distance(list, expires, CHOOSE j \in Pos : list[j] = list[i])
    BY <2>2 DEF Left
  <2>4. Distance(list, expires, i) \in Nat
    <3>1. i \in 0 .. Len(list)
      BY <2>0
    <3> QED
      BY <1>1, <3>1, DistanceSums
  <2>5. Distance(list, expires, i) >= expires[list[1]]
    BY <1>1, <2>0, DistanceGrows
  <2>6. op # "run" => expires[list[1]] >= 1 /\ expires[list[1]] \in Nat
    <3>1. list # <<>> /\ 1 \in 1 .. Len(list)
      BY <2>0
    <3> QED
      BY <1>1, <3>1 DEF TInv
  <2>7. left[list[i]] = Distance(list, expires, i)
    <3>1. list[i] \in Timer
      BY <1>1, <2>0
    <3>2. Left(list[i]) = Distance(list, expires, i)
      BY <2>1, <2>3, Zenon
    <3> QED
      BY <3>1, <3>2 DEF left
  <2>8. op # "run" => Distance(list, expires, i) >= 1
    BY <2>4, <2>5, <2>6
  <2> QED
    BY <2>4, <2>7, <2>8
<1>3. op = "add" => left[adding] = Distance(list, expires, le - 1) + expires[adding]
  BY DEF Left, left, TInv, TimerTypeOK
<1>4. ASSUME NEW t \in Timer, ~OnList(t), ~(op = "add" /\ t = adding) PROVE left[t] = -1
  BY <1>4 DEF Left, left
<1>5. left \in [Timer -> {Left(t) : t \in Timer}]
  BY DEF left
<1> QED
  BY <1>2, <1>3, <1>4, <1>5 DEF LeftKnown

\* A step begins and ends in such a state.
LEMMA StepKnown ==
  ASSUME TInv, [TimerNext]_timerVars
  PROVE  /\ TInv' /\ LeftKnown /\ LeftKnown'
<1>1. TInv => LeftKnown
  BY LeftFromPlace
<1>2. TInv' => LeftKnown'
  BY LeftFromPlace, PTL
<1> QED
  BY <1>1, <1>2, TInvNext

\* The two lists begin with the same n distances.
Agree(l1, x1, l2, x2, n) ==
  \A k \in 1 .. n : x1[l1[k]] \in Nat /\ x2[l2[k]] = x1[l1[k]]

\* Then they have the same sums there.
LEMMA SamePrefix ==
  ASSUME NEW l1, NEW x1, NEW l2, NEW x2, NEW n \in Nat, Agree(l1, x1, l2, x2, n)
  PROVE  \A k \in 0 .. n : Distance(l2, x2, k) = Distance(l1, x1, k)
<1>1. Distance(l1, x1, 0) = 0 /\ Distance(l2, x2, 0) = 0
  <2>1. 0 \in Nat /\ \A k \in 1 .. 0 : FALSE
    OBVIOUS
  <2> QED
    BY <2>1, DistanceSums
<1> DEFINE z == 0
<1>2. Stretch(l1, x1, z, l2, x2, z, n, z) /\ z \in Nat /\ z \in Int
  BY <1>1 DEF Agree, Stretch
<1>3. \A k \in 0 .. n : Distance(l2, x2, z + k) = Distance(l1, x1, z + k) + z
  <2>1. ASSUME NEW a \in Nat, NEW b \in Nat, NEW c \in Int,
               Stretch(l1, x1, a, l2, x2, b, n, c)
        PROVE  \A k \in 0 .. n : Distance(l2, x2, b + k) = Distance(l1, x1, a + k) + c
    BY <2>1, SameStretch
  <2> HIDE DEF z
  <2> QED
    BY <1>2, <2>1
<1>4. \A k \in 0 .. n : Distance(l1, x1, k) \in Nat
  BY DistanceSums DEF Agree
<1>5. ASSUME NEW k \in 0 .. n PROVE Distance(l2, x2, k) = Distance(l1, x1, k)
  <2>1. Distance(l2, x2, 0 + k) = Distance(l1, x1, 0 + k) + 0 /\ 0 + k = k
    BY <1>3
  <2>2. Distance(l1, x1, k) \in Nat
    BY <1>4
  <2> QED
    BY <2>1, <2>2
<1> QED
  BY <1>5

\* A call of add_timer gives its timer the ticks it asks for, and no other changes.
LEMMA AddTimerAdds ==
  ASSUME TInv, TInv', LeftKnown, LeftKnown', NEW t \in Timer, NEW time \in Times,
         AddTimer(t, time)
  PROVE  Countdowns!Add(t, time)
<1>1. /\ op = "idle" /\ ~OnList(t) /\ list' = list /\ op' = "add" /\ adding' = t /\ le' = 1
      /\ expires' = [expires EXCEPT ![t] = time]
  BY DEF AddTimer
<1>2. /\ Len(list) \in Nat /\ expires \in [Timer -> Nat] /\ time \in Nat
      /\ \A k \in 1 .. Len(list) : list[k] \in Timer /\ list[k] # t
  BY <1>1, TimesAssumption DEF TInv, TimerTypeOK, OnList, Pos
<1>3. Agree(list, expires, list', expires', Len(list))
  BY <1>1, <1>2 DEF Agree
<1>4. \A k \in 0 .. Len(list) : Distance(list', expires', k) = Distance(list, expires, k)
  BY <1>2, <1>3, SamePrefix
<1>5. Distance(list', expires', 0) = 0
  <2>1. 0 \in Nat /\ \A k \in 1 .. 0 : expires'[list'[k]] \in Nat
    OBVIOUS
  <2> QED
    BY <2>1, DistanceSums
<1>6. left'[t] = time
  <2>1. left'[t] = Distance(list', expires', 1 - 1) + expires'[t]
    BY <1>1 DEF LeftKnown
  <2>2. expires'[t] = time /\ 1 - 1 = 0
    BY <1>1, <1>2
  <2> QED
    BY <1>2, <1>5, <2>1, <2>2
<1>7. ASSUME NEW u \in Timer, u # t PROVE left'[u] = left[u] /\ left[u] # 0
  <2>1. CASE OnList(u)
    <3>1. PICK i \in 1 .. Len(list) : list[i] = u
      BY <2>1 DEF OnList, Pos
    <3>2. i \in 0 .. Len(list) /\ i \in Pos /\ i \in Pos' /\ list'[i] = u
      BY <1>1, <3>1 DEF Pos
    <3>3. left[u] = Distance(list, expires, i) /\ Distance(list, expires, i) >= 1
          /\ Distance(list, expires, i) \in Nat
      BY <1>1, <3>1, <3>2 DEF LeftKnown
    <3>4. left'[u] = Distance(list', expires', i)
      BY <3>2 DEF LeftKnown
    <3> QED
      BY <1>4, <3>2, <3>3, <3>4
  <2>2. CASE ~OnList(u)
    <3>1. ~OnList(u)'
      BY <1>1, <2>2 DEF OnList, Pos
    <3> QED
      BY <1>1, <1>7, <2>2, <3>1 DEF LeftKnown
  <2> QED
    BY <2>1, <2>2
<1>8. left[t] = -1
  BY <1>1 DEF LeftKnown
<1>9. left' = [left EXCEPT ![t] = time]
  <2>1. /\ \E S : left \in [Timer -> S]
        /\ \E S : left' \in [Timer -> S]
    BY DEF LeftKnown
  <2> QED
    BY <1>6, <1>7, <2>1
<1> QED
  BY <1>7, <1>8, <1>9 DEF Countdowns!Add, Countdowns!Due, Countdowns!Pending

\* The search of add_timer changes no countdown, and neither does the insertion.
LEMMA AddLoopStutters ==
  ASSUME TInv, TInv', LeftKnown, LeftKnown', AddLoop
  PROVE  left' = left
<1>1. /\ op = "add" /\ adding' = adding /\ adding \in Timer /\ ~OnList(adding)
      /\ le \in 1 .. Len(list) + 1 /\ Len(list) \in Nat
      /\ expires \in [Timer -> Nat] /\ expires' \in [Timer -> Nat]
      /\ \A k \in 1 .. Len(list) : /\ list[k] \in Timer /\ list[k] # adding
                                   /\ expires[list[k]] \in Nat
      /\ list' \in Seq(Timer)
  <2>1. op = "add" /\ adding' = adding
    BY DEF AddLoop
  <2>2. /\ adding \in Timer /\ ~OnList(adding) /\ le \in 1 .. Len(list) + 1
        /\ list \in Seq(Timer) /\ list' \in Seq(Timer)
        /\ expires \in [Timer -> Nat] /\ expires' \in [Timer -> Nat]
    BY <2>1 DEF TInv, TimerTypeOK
  <2> QED
    BY <2>1, <2>2 DEF OnList, Pos
<1>2. left[adding] = Distance(list, expires, le - 1) + expires[adding]
  BY <1>1 DEF LeftKnown
<1>3. /\ \A k \in 0 .. Len(list) : Distance(list, expires, k) \in Nat
      /\ \A k \in 1 .. Len(list) :
            Distance(list, expires, k) = Distance(list, expires, k - 1) + expires[list[k]]
  BY <1>1, DistanceSums
<1>4. CASE Passes
  <2>1. /\ expires' = [expires EXCEPT ![adding] = @ - expires[list[le]]]
        /\ le' = le + 1 /\ list' = list /\ op' = "add"
        /\ le \in 1 .. Len(list)
    BY <1>1, <1>4 DEF AddLoop, Passes, Pos
  <2>2. Agree(list, expires, list', expires', Len(list))
    BY <1>1, <2>1 DEF Agree
  <2>3. \A k \in 0 .. Len(list) : Distance(list', expires', k) = Distance(list, expires, k)
    BY <1>1, <2>2, SamePrefix
  <2>4. left'[adding] = left[adding]
    <3>1. left'[adding] = Distance(list', expires', (le + 1) - 1) + expires'[adding]
      BY <1>1, <2>1 DEF LeftKnown
    <3>2. /\ expires'[adding] = expires[adding] - expires[list[le]]
          /\ expires[adding] \in Nat /\ expires[list[le]] \in Nat
          /\ (le + 1) - 1 = le /\ le \in 0 .. Len(list) /\ le - 1 \in 0 .. Len(list)
      BY <1>1, <2>1
    <3>3. /\ Distance(list', expires', le) = Distance(list, expires, le)
          /\ Distance(list, expires, le) = Distance(list, expires, le - 1) + expires[list[le]]
          /\ Distance(list, expires, le - 1) \in Nat
      BY <1>3, <2>1, <2>3, <3>2
    <3> QED
      BY <1>2, <3>1, <3>2, <3>3
  <2>5. ASSUME NEW u \in Timer, u # adding PROVE left'[u] = left[u]
    <3>1. CASE OnList(u)
      <4>1. PICK i \in 1 .. Len(list) : list[i] = u
        BY <3>1 DEF OnList, Pos
      <4>2. i \in 0 .. Len(list) /\ i \in Pos /\ i \in Pos' /\ list'[i] = u
        BY <2>1, <4>1 DEF Pos
      <4> QED
        BY <2>3, <4>1, <4>2 DEF LeftKnown
    <3>2. CASE ~OnList(u)
      <4>1. ~OnList(u)'
        BY <2>1, <3>2 DEF OnList, Pos
      <4> QED
        BY <1>1, <2>5, <3>2, <4>1 DEF LeftKnown
    <3> QED
      BY <3>1, <3>2
  <2>6. /\ \E S : left \in [Timer -> S]
        /\ \E S : left' \in [Timer -> S]
    BY DEF LeftKnown
  <2> QED
    BY <2>4, <2>5, <2>6
<1>5. CASE ~Passes
  <2>1. /\ Len(list') = Len(list) + 1
        /\ \A k \in 1 .. le - 1 : /\ list'[k] = list[k]
                                  /\ expires'[list'[k]] = expires[list[k]]
        /\ list'[le] = adding
        /\ expires'[adding] = expires[adding]
        /\ \A k \in le .. Len(list) : list'[k + 1] = list[k]
        /\ le \in Pos => expires'[list[le]] = expires[list[le]] - expires[adding]
        /\ \A k \in le + 1 .. Len(list) : expires'[list[k]] = expires[list[k]]
        /\ \A t \in Timer : OnList(t)' <=> OnList(t) \/ t = adding
        /\ op' = "idle"
    <3>1. TimerTypeOK
      BY DEF TInv
    <3> QED
      BY <1>1, <1>5, <3>1, AddedSplitsDistance
  <2>2. /\ \A k \in 0 .. Len(list) + 1 : Distance(list', expires', k) \in Nat
        /\ \A k \in 1 .. Len(list) + 1 :
              Distance(list', expires', k)
                 = Distance(list', expires', k - 1) + expires'[list'[k]]
    <3> DEFINE m == Len(list) + 1
    <3>1. m \in Nat /\ \A k \in 1 .. m : expires'[list'[k]] \in Nat
      BY <1>1, <2>1
    <3> HIDE DEF m
    <3>2. /\ \A k \in 0 .. m : Distance(list', expires', k) \in Nat
          /\ \A k \in 1 .. m : Distance(list', expires', k)
                                  = Distance(list', expires', k - 1) + expires'[list'[k]]
      BY <3>1, DistanceSums
    <3> QED
      BY <3>2 DEF m
  <2>3. \A k \in 0 .. le - 1 : Distance(list', expires', k) = Distance(list, expires, k)
    <3> DEFINE n == le - 1
    <3>1. n \in Nat /\ Agree(list, expires, list', expires', n)
      BY <1>1, <2>1 DEF Agree
    <3> HIDE DEF n
    <3>2. \A k \in 0 .. n : Distance(list', expires', k) = Distance(list, expires, k)
      BY <3>1, SamePrefix
    <3> QED
      BY <3>2 DEF n
  <2>4. Distance(list', expires', le) = Distance(list, expires, le - 1) + expires[adding]
    <3>1. le \in 1 .. Len(list) + 1 /\ le - 1 \in 0 .. le - 1
      BY <1>1
    <3> QED
      BY <2>1, <2>2, <2>3, <3>1
  <2>5. \A k \in le .. Len(list) : Distance(list', expires', k + 1) = Distance(list, expires, k)
    <3>1. CASE le \notin Pos
      <4>1. \A k \in le .. Len(list) : FALSE
        BY <1>1, <3>1 DEF Pos
      <4> QED
        BY <4>1
    <3>2. CASE le \in Pos
      <4> DEFINE n == Len(list) - le
                 b == le + 1
      <4>1. /\ n \in Nat /\ le \in Nat /\ b \in Nat /\ 0 \in Int
            /\ \A k \in 1 .. le + n : expires[list[k]] \in Nat
            /\ \A k \in 1 .. b + n : expires'[list'[k]] \in Nat
        <5>1. /\ n \in Nat /\ le \in Nat /\ b \in Nat /\ le + n = Len(list)
              /\ b + n = Len(list')
          BY <1>1, <2>1, <3>2 DEF Pos
        <5> HIDE DEF n, b
        <5> QED
          BY <1>1, <5>1
      <4>2. Distance(list', expires', b) = Distance(list, expires, le) + 0
        <5>1. /\ le \in 1 .. Len(list) /\ b \in 1 .. Len(list) + 1 /\ b - 1 = le
              /\ le \in 0 .. Len(list) /\ le - 1 \in 0 .. Len(list) /\ le \in le .. Len(list)
          BY <1>1, <3>2 DEF Pos
        <5>2. Distance(list', expires', b) = Distance(list', expires', le) + expires'[list'[b]]
          <6> HIDE DEF b
          <6> QED
            BY <2>2, <5>1
        <5>3. expires'[list'[b]] = expires[list[le]] - expires[adding]
          BY <2>1, <3>2, <5>1
        <5>4. Distance(list, expires, le) = Distance(list, expires, le - 1) + expires[list[le]]
          BY <1>3, <5>1
        <5>5. /\ Distance(list, expires, le - 1) \in Nat /\ expires[list[le]] \in Nat
              /\ expires[adding] \in Nat
          BY <1>1, <1>3, <5>1
        <5> HIDE DEF b
        <5> QED
          BY <2>4, <5>2, <5>3, <5>4, <5>5
      <4>3. \A k \in 1 .. n : expires'[list'[b + k]] = expires[list[le + k]]
        <5>1. TAKE k \in 1 .. n
        <5>2. le + k \in le .. Len(list) /\ le + k \in le + 1 .. Len(list)
              /\ (le + k) + 1 = b + k
          BY <1>1, <3>2 DEF Pos
        <5>3. list'[(le + k) + 1] = list[le + k]
          BY <2>1, <5>2
        <5>4. expires'[list[le + k]] = expires[list[le + k]]
          BY <2>1, <5>2
        <5> QED
          BY <5>2, <5>3, <5>4
      <4> HIDE DEF n, b
      <4>4. Stretch(list, expires, le, list', expires', b, n, 0)
        BY <4>1, <4>2, <4>3 DEF Stretch
      <4>5. \A k \in 0 .. n :
               Distance(list', expires', b + k) = Distance(list, expires, le + k) + 0
        BY <4>1, <4>4, SameStretch
      <4>6. ASSUME NEW k \in le .. Len(list)
            PROVE  Distance(list', expires', k + 1) = Distance(list, expires, k)
        <5>1. k - le \in 0 .. n /\ b + (k - le) = k + 1 /\ le + (k - le) = k
              /\ k \in 0 .. Len(list)
          BY <1>1, <3>2 DEF Pos, n, b
        <5>2. Distance(list', expires', b + (k - le))
                 = Distance(list, expires, le + (k - le)) + 0
          BY <4>5, <5>1
        <5>3. Distance(list, expires, k) \in Nat
          BY <1>3, <5>1
        <5> QED
          BY <5>1, <5>2, <5>3
      <4> QED
        BY <4>6
    <3> QED
      BY <3>1, <3>2
  <2>6. left'[adding] = left[adding]
    <3>1. le \in Pos' /\ list'[le] = adding
      BY <1>1, <2>1 DEF Pos
    <3>2. left'[list'[le]] = Distance(list', expires', le)
      BY <3>1 DEF LeftKnown
    <3> QED
      BY <1>2, <2>4, <3>1, <3>2
  <2>7. ASSUME NEW u \in Timer, u # adding PROVE left'[u] = left[u]
    <3>1. CASE OnList(u)
      <4>1. PICK i \in 1 .. Len(list) : list[i] = u
        BY <3>1 DEF OnList, Pos
      <4>2. left[u] = Distance(list, expires, i)
        BY <4>1 DEF LeftKnown, Pos
      <4>3. CASE i < le
        <5>1. i \in 1 .. le - 1 /\ i \in 0 .. le - 1 /\ i \in Pos'
          BY <1>1, <2>1, <4>3 DEF Pos
        <5>2. list'[i] = u
          BY <2>1, <4>1, <5>1
        <5>3. left'[u] = Distance(list', expires', i)
          BY <5>1, <5>2 DEF LeftKnown
        <5> QED
          BY <2>3, <4>2, <5>1, <5>3
      <4>4. CASE ~(i < le)
        <5>1. i \in le .. Len(list) /\ i + 1 \in Pos'
          BY <1>1, <2>1, <4>4 DEF Pos
        <5>2. list'[i + 1] = u
          BY <2>1, <4>1, <5>1
        <5>3. left'[u] = Distance(list', expires', i + 1)
          BY <5>1, <5>2 DEF LeftKnown
        <5> QED
          BY <2>5, <4>2, <5>1, <5>3
      <4> QED
        BY <4>3, <4>4
    <3>2. CASE ~OnList(u)
      <4>1. ~OnList(u)'
        BY <2>1, <2>7, <3>2
      <4> QED
        BY <1>1, <2>1, <2>7, <3>2, <4>1 DEF LeftKnown
    <3> QED
      BY <3>1, <3>2
  <2>8. /\ \E S : left \in [Timer -> S]
        /\ \E S : left' \in [Timer -> S]
    BY DEF LeftKnown
  <2> QED
    BY <2>6, <2>7, <2>8
<1> QED
  BY <1>4, <1>5

\* What leaves the list takes its countdown with it; no other changes.
LEMMA RemovedLeft ==
  ASSUME TInv, TInv', LeftKnown, LeftKnown', NEW i \in Pos, Removed(i),
         op # "add", op' # "add"
  PROVE  left' = [left EXCEPT ![list[i]] = -1]
<1>1. /\ list \in Seq(Timer) /\ IsInjective(list) /\ i \in 1 .. Len(list) /\ Len(list) \in Nat
      /\ \A k \in 1 .. Len(list) : list[k] \in Timer /\ expires[list[k]] \in Nat
  <2>1. list \in Seq(Timer) /\ IsInjective(list) /\ expires \in [Timer -> Nat]
    BY DEF TInv, TimerTypeOK
  <2>2. i \in 1 .. Len(list)
    BY DEF Pos
  <2> QED
    BY <2>1, <2>2
<1>2. /\ list' \in Seq(Timer)
      /\ Len(list') = Len(list) - 1
      /\ expires' \in [Timer -> Nat]
      /\ \A k \in 1 .. i - 1 : /\ list'[k] = list[k]
                               /\ expires'[list'[k]] = expires[list[k]]
      /\ \A k \in i .. Len(list) - 1 : list'[k] = list[k + 1]
      /\ i < Len(list) => expires'[list'[i]] = expires[list[i]] + expires[list[i + 1]]
      /\ \A k \in i + 1 .. Len(list) - 1 : expires'[list'[k]] = expires[list[k + 1]]
      /\ \A t \in Timer : OnList(t)' <=> OnList(t) /\ t # list[i]
  <2>1. TimerTypeOK
    BY DEF TInv
  <2> QED
    BY <2>1, RemovedClosesGap
<1>3. \A k \in 1 .. Len(list') : list'[k] \in Timer /\ expires'[list'[k]] \in Nat
  BY <1>2
<1>4. /\ \A k \in 0 .. Len(list) : Distance(list, expires, k) \in Nat
      /\ \A k \in 1 .. Len(list) :
            Distance(list, expires, k) = Distance(list, expires, k - 1) + expires[list[k]]
  BY <1>1, DistanceSums
<1>5. /\ \A k \in 0 .. Len(list') : Distance(list', expires', k) \in Nat
      /\ \A k \in 1 .. Len(list') :
            Distance(list', expires', k)
               = Distance(list', expires', k - 1) + expires'[list'[k]]
  <2>1. Len(list') \in Nat
    BY <1>2
  <2> QED
    BY <1>3, <2>1, DistanceSums
<1>6. \A k \in 0 .. i - 1 : Distance(list', expires', k) = Distance(list, expires, k)
  <2> DEFINE n == i - 1
  <2>3. n \in Nat /\ \A k \in 1 .. n : k \in 1 .. i - 1 /\ k \in 1 .. Len(list)
    BY <1>1
  <2>4. \A k \in 1 .. n : expires[list[k]] \in Nat /\ expires'[list'[k]] = expires[list[k]]
    BY <1>1, <1>2, <2>3
  <2>1. n \in Nat /\ Agree(list, expires, list', expires', n)
    BY <2>3, <2>4 DEF Agree
  <2> HIDE DEF n
  <2>2. \A k \in 0 .. n : Distance(list', expires', k) = Distance(list, expires, k)
    BY <2>1, SamePrefix
  <2> QED
    BY <2>2 DEF n
<1>7. ASSUME NEW k \in i .. Len(list) - 1
      PROVE  Distance(list', expires', k) = Distance(list, expires, k + 1)
  <2> DEFINE n == Len(list) - (i + 1)
             a == i + 1
  <2>1. /\ n \in Nat /\ a \in Nat /\ i \in Nat /\ 0 \in Int
        /\ a + n = Len(list) /\ i + n = Len(list')
    BY <1>1, <1>2
  <2>2. Distance(list', expires', i) = Distance(list, expires, a) + 0
    <3>1. /\ i \in 1 .. Len(list') /\ i \in 1 .. Len(list) /\ a \in 1 .. Len(list)
          /\ a - 1 = i /\ i - 1 \in 0 .. i - 1 /\ i < Len(list) /\ i - 1 \in 0 .. Len(list)
      BY <1>1, <1>2
    <3>2. expires'[list'[i]] = expires[list[i]] + expires[list[a]]
      BY <1>2, <3>1
    <3> HIDE DEF a, n
    <3>3. Distance(list', expires', i) = Distance(list, expires, i - 1) + expires'[list'[i]]
      BY <1>5, <1>6, <3>1
    <3>4. Distance(list, expires, a) = Distance(list, expires, i - 1) + expires[list[i]]
                                          + expires[list[a]]
      BY <1>4, <3>1
    <3>5. /\ Distance(list, expires, i - 1) \in Nat /\ expires[list[i]] \in Nat
          /\ expires[list[a]] \in Nat
      BY <1>1, <1>4, <3>1
    <3> QED
      BY <3>2, <3>3, <3>4, <3>5
  <2>3. \A j \in 1 .. n : expires'[list'[i + j]] = expires[list[a + j]]
    <3>1. TAKE j \in 1 .. n
    <3>2. i + j \in i + 1 .. Len(list) - 1 /\ (i + j) + 1 = a + j
      <4> DEFINE L == Len(list)
      <4>1. L \in Nat /\ i \in 1 .. L /\ j \in 1 .. L - (i + 1)
        BY <1>1
      <4> HIDE DEF L
      <4>2. i + j \in i + 1 .. L - 1 /\ (i + j) + 1 = (i + 1) + j
        BY <4>1
      <4> QED
        BY <4>2 DEF L
    <3> QED
      BY <1>2, <3>2
  <2> HIDE DEF n, a
  <2>4. Stretch(list, expires, a, list', expires', i, n, 0)
    BY <1>1, <1>3, <2>1, <2>2, <2>3 DEF Stretch
  <2>5. \A j \in 0 .. n :
           Distance(list', expires', i + j) = Distance(list, expires, a + j) + 0
    BY <2>1, <2>4, SameStretch
  <2>6. k - i \in 0 .. n /\ i + (k - i) = k /\ a + (k - i) = k + 1 /\ k + 1 \in 0 .. Len(list)
    BY <1>1 DEF n, a
  <2>7. Distance(list', expires', i + (k - i)) = Distance(list, expires, a + (k - i)) + 0
    BY <2>5, <2>6
  <2>8. Distance(list, expires, k + 1) \in Nat
    BY <1>4, <2>6
  <2> QED
    BY <2>6, <2>7, <2>8
<1>8. ASSUME NEW u \in Timer, u # list[i] PROVE left'[u] = left[u]
  <2>1. CASE OnList(u)
    <3>1. PICK k \in 1 .. Len(list) : list[k] = u
      BY <2>1 DEF OnList, Pos
    <3>2. left[u] = Distance(list, expires, k)
      BY <3>1 DEF LeftKnown, Pos
    <3>3. CASE k < i
      <4>1. k \in 1 .. i - 1 /\ k \in 0 .. i - 1 /\ k \in Pos'
        BY <1>1, <1>2, <3>3 DEF Pos
      <4>2. list'[k] = u
        BY <1>2, <3>1, <4>1
      <4>3. left'[u] = Distance(list', expires', k)
        BY <4>1, <4>2 DEF LeftKnown
      <4> QED
        BY <1>6, <3>2, <4>1, <4>3
    <3>4. CASE ~(k < i)
      <4>1. k - 1 \in i .. Len(list) - 1 /\ k - 1 \in Pos' /\ (k - 1) + 1 = k
        BY <1>1, <1>2, <1>8, <3>1, <3>4 DEF Pos
      <4>2. list'[k - 1] = u
        BY <1>2, <3>1, <4>1
      <4>3. left'[u] = Distance(list', expires', k - 1)
        BY <4>1, <4>2 DEF LeftKnown
      <4>4. Distance(list', expires', k - 1) = Distance(list, expires, (k - 1) + 1)
        BY <1>7, <4>1
      <4> QED
        BY <3>2, <4>1, <4>3, <4>4
    <3> QED
      BY <3>3, <3>4
  <2>2. CASE ~OnList(u)
    <3>1. ~OnList(u)'
      BY <1>2, <2>2
    <3> QED
      BY <2>2, <3>1 DEF LeftKnown
  <2> QED
    BY <2>1, <2>2
<1>9. left'[list[i]] = -1
  <2>1. \A t \in Timer : t = list[i] => ~OnList(t)'
    BY <1>2
  <2>2. \A t \in Timer : ~OnList(t)' => left'[t] = -1
    BY DEF LeftKnown
  <2> QED
    BY <1>1, <2>1, <2>2
<1> QED
  <2>1. /\ \E S : left \in [Timer -> S]
        /\ \E S : left' \in [Timer -> S]
    BY DEF LeftKnown
  <2> QED
    BY <1>1, <1>8, <1>9, <2>1

\* Between operations no timer is due.
LEMMA NoneDue ==
  ASSUME TInv, LeftKnown, op = "idle"
  PROVE  /\ \A u \in Timer : left[u] # 0
         /\ \A u \in Timer : OnList(u) => left[u] >= 1
         /\ \A u \in Timer : ~OnList(u) => left[u] = -1
<1>1. ASSUME NEW u \in Timer, OnList(u) PROVE left[u] >= 1 /\ left[u] # 0
  <2>1. PICK k \in Pos : list[k] = u
    BY <1>1 DEF OnList
  <2> QED
    BY <2>1 DEF LeftKnown
<1>2. ASSUME NEW u \in Timer, ~OnList(u) PROVE left[u] = -1
  BY <1>2 DEF LeftKnown
<1> QED
  BY <1>1, <1>2

\* del_timer deletes its timer, if it is still pending, and touches no other.
LEMMA DelTimerDeletes ==
  ASSUME TInv, TInv', LeftKnown, LeftKnown', NEW t \in Timer, DelTimer(t)
  PROVE  Countdowns!Delete(t)
<1>1. op = "idle" /\ op' = "idle" /\ adding' = adding
  BY DEF DelTimer
<1>2. \A u \in Timer : left[u] # 0
  BY <1>1, NoneDue
<1>3. left' = [left EXCEPT ![t] = -1]
  <2>1. CASE OnList(t)
    <3>1. PICK i \in Pos : list[i] = t /\ Removed(i)
      BY <2>1 DEF DelTimer
    <3> QED
      BY <1>1, <3>1, RemovedLeft
  <2>2. CASE ~OnList(t)
    <3>1. list' = list /\ expires' = expires /\ le' = le
      BY <2>2 DEF DelTimer
    <3>2. left' = left
      BY <1>1, <3>1 DEF left, Left, OnList, Pos
    <3>3. left[t] = -1
      BY <1>1, <2>2 DEF LeftKnown
    <3>4. \E S : left \in [Timer -> S]
      BY DEF LeftKnown
    <3> QED
      BY <3>2, <3>3, <3>4
  <2> QED
    BY <2>1, <2>2
<1> QED
  BY <1>2, <1>3 DEF Countdowns!Delete, Countdowns!Due

\* A tick counts every pending timer down by one: run_timer_list changes the first
\* distance only.
LEMMA RunTimerListTicks ==
  ASSUME TInv, TInv', LeftKnown, LeftKnown', RunTimerList
  PROVE  Countdowns!Tick
<1>1. /\ op = "idle" /\ list # <<>> /\ Head(list) = list[1] /\ 1 \in Pos
      /\ expires[list[1]] >= 1 /\ expires \in [Timer -> Nat] /\ Len(list) \in Nat
      /\ Len(list) >= 1
      /\ \A j, k \in 1 .. Len(list) : list[j] = list[k] => j = k
      /\ \A k \in 1 .. Len(list) : list[k] \in Timer /\ expires[list[k]] \in Nat
  BY DEF TInv, TimerTypeOK, RunTimerList, Pos, IsInjective
<1>2. /\ op' = "run" /\ expires' = [expires EXCEPT ![list[1]] = @ - 1]
      /\ list' = list /\ adding' = adding
  BY <1>1 DEF RunTimerList
<1>3. /\ expires'[list[1]] = expires[list[1]] - 1
      /\ \A k \in 2 .. Len(list) : expires'[list[k]] = expires[list[k]]
  <2>1. expires'[list[1]] = expires[list[1]] - 1
    BY <1>1, <1>2
  <2>2. ASSUME NEW k \in 2 .. Len(list) PROVE expires'[list[k]] = expires[list[k]]
    <3>1. k \in 1 .. Len(list) /\ 1 \in 1 .. Len(list) /\ k # 1
      BY <1>1
    <3> QED
      BY <1>1, <1>2, <3>1
  <2> QED
    BY <2>1, <2>2
<1>4. \A k \in 1 .. Len(list) : expires'[list'[k]] \in Nat
  <2>1. TAKE k \in 1 .. Len(list)
  <2>2. k = 1 \/ k \in 2 .. Len(list)
    OBVIOUS
  <2> QED
    BY <1>1, <1>2, <1>3, <2>2
<1>5. ASSUME NEW i \in Pos
      PROVE  Distance(list', expires', i) = Distance(list, expires, i) - 1
  <2> DEFINE n == Len(list) - 1
             z == 1
             c == 0 - 1
  <2>1. n \in Nat /\ z \in Nat /\ c \in Int /\ z + n = Len(list) /\ i - 1 \in 0 .. n
        /\ z + (i - 1) = i /\ i \in 0 .. Len(list)
    BY <1>1 DEF Pos
  <2>2. Distance(list', expires', z) = Distance(list, expires, z) + c
    <3>1. 1 \in 1 .. Len(list) /\ 1 - 1 = 0
      BY <1>1
    <3>2. /\ Distance(list, expires, 0) = 0
          /\ Distance(list, expires, 1) = Distance(list, expires, 1 - 1) + expires[list[1]]
      BY <1>1, <3>1, DistanceSums
    <3>3. /\ Distance(list', expires', 0) = 0
          /\ Distance(list', expires', 1)
                = Distance(list', expires', 1 - 1) + expires'[list'[1]]
      BY <1>1, <1>4, <3>1, DistanceSums
    <3>4. expires'[list'[1]] = expires[list[1]] - 1 /\ expires[list[1]] \in Nat
      BY <1>1, <1>2, <1>3, <3>1
    <3> QED
      BY <3>1, <3>2, <3>3, <3>4
  <2>3. \A k \in 1 .. n : expires'[list'[z + k]] = expires[list[z + k]]
    <3>1. \A k \in 1 .. n : z + k \in 2 .. Len(list)
      BY <1>1
    <3> QED
      BY <1>2, <1>3, <3>1
  <2> HIDE DEF n, z, c
  <2>4. Stretch(list, expires, z, list', expires', z, n, c)
    BY <1>1, <1>4, <2>1, <2>2, <2>3 DEF Stretch
  <2>5. \A k \in 0 .. n :
           Distance(list', expires', z + k) = Distance(list, expires, z + k) + c
    <3>1. ASSUME NEW a \in Nat, NEW b \in Nat, NEW d \in Int,
                 Stretch(list, expires, a, list', expires', b, n, d)
          PROVE  \A k \in 0 .. n :
                    Distance(list', expires', b + k) = Distance(list, expires, a + k) + d
      BY <2>1, <3>1, SameStretch
    <3> QED
      BY <2>1, <2>4, <3>1
  <2>6. Distance(list', expires', i) = Distance(list, expires, i) + c
    BY <2>1, <2>5
  <2>7. Distance(list, expires, i) \in Nat
    BY DEF LeftKnown
  <2> QED
    BY <2>6, <2>7 DEF c
<1>6. /\ \A u \in Timer : left[u] # 0
      /\ \A u \in Timer : OnList(u) => left[u] >= 1
      /\ \A u \in Timer : ~OnList(u) => left[u] = -1
  BY <1>1, NoneDue
<1>7. ASSUME NEW u \in Timer, OnList(u) PROVE left'[u] = left[u] - 1
  <2>1. PICK k \in Pos : list[k] = u
    BY <1>7 DEF OnList
  <2>2. k \in Pos' /\ list'[k] = u
    BY <1>2, <2>1 DEF Pos
  <2> QED
    BY <1>5, <2>1, <2>2 DEF LeftKnown
<1>8. ASSUME NEW u \in Timer, ~OnList(u) PROVE left'[u] = -1
  <2>1. ~OnList(u)'
    BY <1>2, <1>8 DEF OnList, Pos
  <2> QED
    BY <1>2, <2>1 DEF LeftKnown
<1>9. left' = [u \in Timer |-> IF u \in Countdowns!Pending THEN left[u] - 1 ELSE -1]
  <2>1. \A u \in Timer : u \in Countdowns!Pending <=> OnList(u)
    <3>1. ASSUME NEW u \in Timer PROVE left[u] >= 0 <=> OnList(u)
      <4>1. CASE OnList(u)
        <5>1. PICK k \in Pos : list[k] = u
          BY <4>1 DEF OnList
        <5>2. left[u] = Distance(list, expires, k) /\ Distance(list, expires, k) \in Nat
          BY <5>1 DEF LeftKnown
        <5> QED
          BY <4>1, <5>2
      <4>2. CASE ~OnList(u)
        BY <1>6, <4>2
      <4> QED
        BY <4>1, <4>2
    <3> QED
      BY <3>1 DEF Countdowns!Pending
  <2>2. \E S : left' \in [Timer -> S]
    BY DEF LeftKnown
  <2> QED
    BY <1>7, <1>8, <2>1, <2>2
<1> QED
  BY <1>6, <1>9 DEF Countdowns!Tick, Countdowns!Due

\* The loop of run_timer_list fires a timer that is due, or ends.
LEMMA RunLoopFires ==
  ASSUME TInv, TInv', LeftKnown, LeftKnown', RunLoop
  PROVE  (\E t \in Timer : Countdowns!Fire(t)) \/ left' = left
<1>1. op = "run" /\ adding' = adding
  BY DEF RunLoop
<1>2. CASE list # <<>> /\ expires[Head(list)] = 0
  <2>1. /\ Removed(1) /\ op' = "run" /\ 1 \in Pos /\ 1 \in 1 .. Len(list)
        /\ expires[list[1]] = 0 /\ list[1] \in Timer /\ Len(list) \in Nat
        /\ \A k \in 1 .. Len(list) : expires[list[k]] \in Nat
    BY <1>1, <1>2 DEF RunLoop, TInv, TimerTypeOK, Pos
  <2>2. left' = [left EXCEPT ![list[1]] = -1]
    BY <1>1, <2>1, RemovedLeft
  <2>3. left[list[1]] = 0
    <3>1. /\ Distance(list, expires, 0) = 0
          /\ Distance(list, expires, 1) = Distance(list, expires, 1 - 1) + expires[list[1]]
      BY <2>1, DistanceSums
    <3>2. left[list[1]] = Distance(list, expires, 1)
      BY <2>1 DEF LeftKnown
    <3> QED
      BY <2>1, <3>1, <3>2
  <2> QED
    BY <2>1, <2>2, <2>3 DEF Countdowns!Fire, Countdowns!Due
<1>3. CASE ~(list # <<>> /\ expires[Head(list)] = 0)
  <2>1. op' = "idle" /\ list' = list /\ expires' = expires
    BY <1>3 DEF RunLoop
  <2> QED
    BY <1>1, <2>1 DEF left, Left, OnList, Pos
<1> QED
  BY <1>2, <1>3

\* The timer list of sched.c implements independent countdowns: add_timer and
\* del_timer move no other timer, a tick counts every pending timer down by one, and
\* the loop of run_timer_list fires a timer exactly when it is due.
THEOREM TimersCountDown == TimerSpec => ImplementsCountdowns
<1>1. TimerInit => Countdowns!Init
  BY DEF TimerInit, Countdowns!Init, left, Left, OnList, Pos
<1>2. TInv /\ [TimerNext]_timerVars => [Countdowns!Next]_left
  <2> SUFFICES ASSUME TInv, [TimerNext]_timerVars PROVE [Countdowns!Next]_left
    OBVIOUS
  <2>1. TInv' /\ LeftKnown /\ LeftKnown'
    BY StepKnown
  <2>2. ASSUME NEW t \in Timer, NEW time \in Times, AddTimer(t, time)
        PROVE  Countdowns!Next
    BY <2>1, <2>2, AddTimerAdds DEF Countdowns!Next
  <2>3. ASSUME NEW t \in Timer, DelTimer(t) PROVE Countdowns!Next
    BY <2>1, <2>3, DelTimerDeletes DEF Countdowns!Next
  <2>4. CASE AddLoop
    BY <2>1, <2>4, AddLoopStutters
  <2>5. CASE RunTimerList
    BY <2>1, <2>5, RunTimerListTicks DEF Countdowns!Next
  <2>6. CASE RunLoop
    BY <2>1, <2>6, RunLoopFires DEF Countdowns!Next
  <2>7. CASE UNCHANGED timerVars
    BY <2>7 DEF timerVars, left, Left, OnList, Pos
  <2> QED
    BY <2>2, <2>3, <2>4, <2>5, <2>6, <2>7 DEF TimerNext
<1>3. TimerSpec => []TInv
  BY TimersConsistent
<1> QED
  BY <1>1, <1>2, <1>3, PTL DEF TimerSpec, ImplementsCountdowns, Countdowns!Spec
=============================================================================
