------------------------------ MODULE EDFSched -------------------------------
(***************************************************************************)
(* The earliest-deadline-first scheduler of the kernel: the core scheduler *)
(* kern/schedule/sched.c, its class kern/schedule/sched_MY.c, and the      *)
(* operations of kern/process/proc.c and kern/trap/trap.c that block, wake *)
(* or create processes.                                                    *)
(*                                                                         *)
(* One processor.  The kernel is not preemptive: a step is what runs until *)
(* the code calls schedule() or returns to user mode.  Timer interrupts    *)
(* come between any two steps, wherever interrupts are enabled, also       *)
(* between "state = SLEEPING" and the call of schedule().                  *)
(*                                                                         *)
(* The run queue is the bag of entries that module ProcessHeap is shown to *)
(* implement, and the timer list the set of countdowns that module         *)
(* TimerList is shown to implement.                                        *)
(***************************************************************************)
EXTENDS Integers, FiniteSets

CONSTANTS
  Proc,            \* process slots
  Idle,            \* idleproc
  InitProc,        \* initproc, the first process of the run queue
  ProcMaxDeadline, \* PROC_MAX_DEADLINE: pt of a process that is not real-time
  RTParams,        \* <<ct, pt>> arguments of forkRT: any integers, nobody checks them
  ExecParams,      \* <<compute_time, period_time>> that do_execve assigns
  SleepTimes,      \* arguments of do_sleep
  MaxHeapSize,     \* MAX_HEAP_SIZE: capacity of the run queue
  MaxPt            \* bound of the model: no deadline grows beyond it, up or down

ASSUME SchedAssumption ==
  /\ Idle \in Proc /\ InitProc \in Proc /\ Idle # InitProc
  /\ ProcMaxDeadline \in Nat
  /\ RTParams \subseteq Int \X Int
  /\ ExecParams \in (Nat \ {0}) \X (Nat \ {0})
  /\ SleepTimes \subseteq Nat \ {0}
  /\ MaxHeapSize \in Nat \ {0}
  /\ MaxPt \in Nat

VARIABLES
  current,      \* the running process
  state,        \* proc->state; "UNINIT" is also a slot that is not in use
  waitState,    \* proc->wait_state
  needResched,  \* proc->need_resched
  isRT, computeTime, periodTime, ct, pt,   \* the EDF fields of proc_struct
  inq,          \* inq[p]: number of entries of the run queue that name p
  x,            \* x[p]: the copy of the deadline in p's run queue entry, 0: no entry
  timer,        \* timer[p]: ticks until p's timer on the timer list expires, 0: none
  kthread,      \* the kernel threads: they never return to user mode
  at,           \* where a process is in the kernel; see At
  halt          \* "none", or why the kernel has stopped for ever

schedVars == <<current, inq, x, needResched>>
rtVars    == <<isRT, computeTime, periodTime, ct, pt>>
vars      == <<schedVars, rtVars, state, waitState, timer, kthread, at, halt>>

State == {"UNINIT", "SLEEPING", "RUNNABLE", "ZOMBIE"}

\* WT_CHILD and WT_TIMER contain WT_INTERRUPTED, WT_KSWAPD does not.
WaitState   == {"none", "child", "timer", "kswapd"}
Interrupted == {"child", "timer"}

\* "run": user code, or the body of a kernel thread.  "kern": a user process
\* inside a system call that slept.  "ret": at the end of trap(), on the way to
\* user mode.  "sleep", "block", "exit": before the call of schedule() in
\* do_sleep, in do_wait or another wait, in __do_exit.  "slept": after it in do_sleep.
At == {"run", "kern", "ret", "sleep", "slept", "block", "exit"}

\* Ways to stop: a failed assert, heap_push on a full heap, heap_gettop on an
\* empty heap, pick_next on an empty heap, a missed deadline of a real-time
\* process or of one that is not.
Halt == {"none", "assert", "full", "topEmpty", "pickEmpty", "missRT", "missNonRT"}

-----------------------------------------------------------------------------
(* sched_MY.c and the wrappers of sched.c.                                 *)

\* Number of entries of the run queue q.
QueueSize(q) == Cardinality({p \in Proc : q[p] > 0})

\* MY_enqueue of every process in S (never idleproc: sched_class_enqueue).
Enqueue(q, S) == [p \in Proc |-> IF p \in S /\ p # Idle THEN q[p] + 1 ELSE q[p]]

\* Mutant: the entry gets the period, not the deadline.
EnqueueXPeriod(S) == [p \in Proc |-> IF p \in S /\ p # Idle THEN periodTime[p] ELSE x[p]]

EnqueueX(S) == [p \in Proc |-> IF p \in S /\ p # Idle THEN pt[p] ELSE x[p]]

\* Mutant: any entry, whatever its deadline.
TopsAny(q, qx) == {p \in Proc : q[p] > 0}

\* MY_pick_next: heap_gettop returns an entry with the least x.
Tops(q, qx) == {p \in Proc : q[p] > 0 /\ \A o \in Proc : q[o] > 0 => qx[p] <= qx[o]}

Stop(why) == /\ halt' = why
             /\ UNCHANGED <<schedVars, rtVars, state, waitState, timer, kthread, at>>

\* heap_push spins for ever when the run queue would grow to q beyond its capacity.
OrHang(q, Step) == IF QueueSize(q) > MaxHeapSize THEN Stop("full") ELSE Step

\* schedule() called by the current process, whose code goes on at "resume"
\* when it is picked again.
Schedule(resume) ==
  LET S  == IF state[current] = "RUNNABLE" THEN {current} ELSE {}
      q  == Enqueue(inq, S)
      qx == EnqueueX(S)
  IN  OrHang(q,
        \/ /\ \A p \in Proc : q[p] = 0
           /\ Stop("pickEmpty")
        \/ /\ \E next \in Tops(q, qx) :
                /\ current' = next
                /\ inq' = [q EXCEPT ![next] = @ - 1]
                /\ x' = [qx EXCEPT ![next] = 0]
           /\ needResched' = [needResched EXCEPT ![current] = FALSE]
           /\ at' = [at EXCEPT ![current] = resume]
           /\ UNCHANGED <<rtVars, state, waitState, timer, kthread, halt>>)

\* Mutant: wakeup_proc queues the current process.
WakeInqCurrent(S) == Enqueue(inq, {p \in S : state[p] # "RUNNABLE"})

\* wakeup_proc for every process in S: the ones that are not RUNNABLE yet.
Woken(S)      == {p \in S : state[p] # "RUNNABLE"}
WakeState(S)  == [p \in Proc |-> IF p \in Woken(S) THEN "RUNNABLE" ELSE state[p]]
WakeWait(S)   == [p \in Proc |-> IF p \in Woken(S) THEN "none" ELSE waitState[p]]
WakeInq(S)    == Enqueue(inq, Woken(S) \ {current})
WakeX(S)      == EnqueueX(Woken(S) \ {current})
WakeAssert(S) == \E p \in S : state[p] = "ZOMBIE"

-----------------------------------------------------------------------------
(* The timer interrupt.                                                    *)

Expired == {p \in Proc : timer[p] = 1}

\* Mutants: the next period gets no new deadline; the panic comes a tick late.
NewPtSame         == IF isRT[current] THEN pt[current] - 1 ELSE pt[current]
CurrentMissesLate == isRT[current] /\ ct[current] < computeTime[current] /\ pt[current] - 1 < 0

\* MY_proc_tick, the part about the current process.
Computes   == isRT[current] /\ ct[current] < computeTime[current]
TickCt     == IF Computes THEN ct[current] + 1 ELSE ct[current]
TickPt     == IF Computes THEN pt[current] - 1 ELSE pt[current]
PeriodDone == isRT[current] /\ TickCt = computeTime[current]
NewCt      == IF PeriodDone THEN 0 ELSE TickCt
NewPt      == IF PeriodDone THEN TickPt + periodTime[current] ELSE TickPt
CurrentMisses == isRT[current] /\ TickPt = 0 /\ TickCt < computeTime[current]

\* tick_decrease_pt_heap panics for a queued process p.
QueuedMisses(p) == \/ pt[p] - 1 = 0 /\ ct[p] < computeTime[p]
                   \/ pt[p] - 1 < 0

\* run_timer_list fires the expired timers and then calls proc_tick(current):
\* a tick the kernel does not survive.
TickStops ==
  LET q == WakeInq(Expired)
      missing == {p \in Proc : q[p] > 0 /\ QueuedMisses(p)}
  IN  \/ /\ WakeAssert(Expired) \/ \E p \in Expired : waitState[p] \notin Interrupted \cup {"none"}
         /\ Stop("assert")
      \/ /\ QueueSize(q) > MaxHeapSize
         /\ Stop("full")
      \/ /\ current # Idle
         /\ CurrentMisses
         /\ Stop("missRT")
      \/ /\ current # Idle
         /\ ~CurrentMisses
         /\ \E p \in missing : Stop(IF isRT[p] THEN "missRT" ELSE "missNonRT")
      \/ /\ current # Idle
         /\ ~CurrentMisses
         /\ \A p \in Proc : q[p] = 0
         /\ Stop("topEmpty")

\* A tick the kernel survives.  In user mode it leads to the end of trap().
TickRuns ==
  LET q  == WakeInq(Expired)
      qx == WakeX(Expired)
      queued(p) == current # Idle /\ q[p] > 0
  IN  /\ ~WakeAssert(Expired)
      /\ \A p \in Expired : waitState[p] \in Interrupted \cup {"none"}
      /\ QueueSize(q) <= MaxHeapSize
      /\ current # Idle => /\ ~CurrentMisses
                           /\ \A p \in Proc : q[p] > 0 => ~QueuedMisses(p)
                           /\ \E p \in Proc : q[p] > 0
                           /\ NewPt \in -MaxPt .. MaxPt
      /\ state' = WakeState(Expired)
      /\ waitState' = WakeWait(Expired)
      /\ timer' = [p \in Proc |-> IF timer[p] > 0 THEN timer[p] - 1 ELSE 0]
      /\ inq' = q
      /\ x' = [p \in Proc |-> IF queued(p) THEN qx[p] - 1 ELSE qx[p]]
      /\ pt' = [p \in Proc |-> IF p = current /\ p # Idle THEN NewPt
                               ELSE IF queued(p) THEN pt[p] - 1 ELSE pt[p]]
      /\ ct' = IF current = Idle THEN ct ELSE [ct EXCEPT ![current] = NewCt]
      /\ needResched' =
           [needResched EXCEPT ![current] =
              \/ @
              \/ current = Idle \/ ~isRT[current] \/ PeriodDone
              \/ \E p \in Tops(q, qx) : qx[p] - 1 < NewPt]
      /\ at' = IF at[current] = "run" /\ current \notin kthread
                 THEN [at EXCEPT ![current] = "ret"] ELSE at
      /\ UNCHANGED <<current, isRT, computeTime, periodTime, kthread, halt>>

Tick == halt = "none" /\ (TickStops \/ TickRuns)

-----------------------------------------------------------------------------
(* What the current process does.                                          *)

\* The current process, not idleproc, executes at one of the places in S.
Executes(S) == halt = "none" /\ current # Idle /\ at[current] \in S

\* cpu_idle
IdleLoop == /\ halt = "none"
            /\ current = Idle
            /\ needResched[Idle]
            /\ Schedule("run")

\* The end of trap(): may_killed is Exit below.
TrapReturn ==
  /\ Executes({"ret"})
  /\ IF needResched[current]
       THEN Schedule("run")
       ELSE /\ at' = [at EXCEPT ![current] = "run"]
            /\ UNCHANGED <<schedVars, rtVars, state, waitState, timer, kthread, halt>>

\* A kernel thread calls schedule() itself: init_main, and lock() when it spins.
KernelYield == /\ Executes({"run"})
               /\ current \in kthread
               /\ Schedule("run")

\* After a system call: a user process is at the end of trap().
AfterSyscall == IF current \in kthread THEN "run" ELSE "ret"

\* do_yield
Yield == /\ Executes({"run"})
         /\ current \notin kthread
         /\ needResched' = [needResched EXCEPT ![current] = TRUE]
         /\ at' = [at EXCEPT ![current] = "ret"]
         /\ UNCHANGED <<current, inq, x, rtVars, state, waitState, timer, kthread, halt>>

\* The end of do_fork and do_forkRT: the new process is queued by wakeup_proc
\* with deadline d, and its parent returns from the system call.
StartChild(p, rt, c, t, d) ==
  OrHang(Enqueue(inq, {p}),
    /\ isRT' = [isRT EXCEPT ![p] = rt]
    /\ computeTime' = [computeTime EXCEPT ![p] = c]
    /\ periodTime' = [periodTime EXCEPT ![p] = t]
    /\ ct' = [ct EXCEPT ![p] = 0]
    /\ pt' = [pt EXCEPT ![p] = d]
    /\ state' = [state EXCEPT ![p] = "RUNNABLE"]
    /\ waitState' = [waitState EXCEPT ![p] = "none"]
    /\ needResched' = [needResched EXCEPT ![p] = FALSE]
    /\ inq' = Enqueue(inq, {p})
    /\ x' = [x EXCEPT ![p] = d]
    /\ at' = [at EXCEPT ![current] = AfterSyscall, ![p] = "run"]
    /\ kthread' = IF current \in kthread THEN kthread \cup {p} ELSE kthread \ {p}
    /\ UNCHANGED <<current, timer, halt>>)

\* A slot no process uses: alloc_proc.
Free(p) == p # Idle /\ state[p] = "UNINIT"

\* do_fork, and kernel_thread.  ct, compute_time and period_time of the child are
\* not initialised; all that is ever asked of them is whether ct < compute_time.
Fork(p) ==
  /\ Executes({"run"})
  /\ Free(p)
  /\ \E garbage \in {0, 1} : StartChild(p, FALSE, garbage, 0, ProcMaxDeadline)

\* do_forkRT
ForkRT(p, c, t) ==
  /\ Executes({"run"})
  /\ current \notin kthread
  /\ Free(p)
  /\ StartChild(p, TRUE, c, t, t)

\* do_execve: the process becomes real-time.  user_main, a kernel thread,
\* becomes a user process this way; init_main and kswapd_main never call it.
Exec ==
  /\ Executes({"run"})
  /\ current # InitProc
  /\ isRT' = [isRT EXCEPT ![current] = TRUE]
  /\ computeTime' = [computeTime EXCEPT ![current] = ExecParams[1]]
  /\ periodTime' = [periodTime EXCEPT ![current] = ExecParams[2]]
  /\ pt' = [pt EXCEPT ![current] = ExecParams[2]]
  /\ ct' = [ct EXCEPT ![current] = 0]
  /\ kthread' = kthread \ {current}
  /\ at' = [at EXCEPT ![current] = IF current \in kthread THEN "run" ELSE "ret"]
  /\ UNCHANGED <<schedVars, state, waitState, timer, halt>>

\* do_sleep up to the call of schedule(): timer and state change together,
\* with interrupts off.
Sleep(time) ==
  /\ Executes({"run"})
  /\ current # InitProc
  /\ state' = [state EXCEPT ![current] = "SLEEPING"]
  /\ waitState' = [waitState EXCEPT ![current] = "timer"]
  /\ timer' = [timer EXCEPT ![current] = time]
  /\ at' = [at EXCEPT ![current] = "sleep"]
  /\ UNCHANGED <<schedVars, rtVars, kthread, halt>>

SleepSchedule == Executes({"sleep"}) /\ Schedule("slept")

\* Mutant: no del_timer.
SleepReturnKeepsTimer ==
  /\ Executes({"slept"})
  /\ at' = [at EXCEPT ![current] = AfterSyscall]
  /\ UNCHANGED <<schedVars, rtVars, state, waitState, timer, kthread, halt>>

\* do_sleep after schedule() returned: del_timer.
SleepReturn ==
  /\ Executes({"slept"})
  /\ timer' = [timer EXCEPT ![current] = 0]
  /\ at' = [at EXCEPT ![current] = AfterSyscall]
  /\ UNCHANGED <<schedVars, rtVars, state, waitState, kthread, halt>>

\* do_wait without a dead child, up to the call of schedule(): there is some
\* other process to wait for.
Wait ==
  /\ Executes({"run", "kern"})
  /\ \E p \in Proc \ {Idle, InitProc, current} : state[p] # "UNINIT"
  /\ state' = [state EXCEPT ![current] = "SLEEPING"]
  /\ waitState' = [waitState EXCEPT ![current] = "child"]
  /\ at' = [at EXCEPT ![current] = "block"]
  /\ UNCHANGED <<schedVars, rtVars, timer, kthread, halt>>

\* try_free_pages up to the call of schedule(): W is kswapd when it sleeps in
\* do_sleep, or nothing.
WaitKswapd(W) ==
  /\ Executes({"run", "kern"})
  /\ \A p \in W : p \in kthread /\ waitState[p] = "timer"
  /\ OrHang(WakeInq(W),
       /\ state' = [WakeState(W) EXCEPT ![current] = "SLEEPING"]
       /\ waitState' = [WakeWait(W) EXCEPT ![current] = "kswapd"]
       /\ inq' = WakeInq(W)
       /\ x' = WakeX(W)
       /\ at' = [at EXCEPT ![current] = "block"]
       /\ UNCHANGED <<current, needResched, rtVars, timer, kthread, halt>>)

BlockSchedule == /\ Executes({"block"})
                 /\ Schedule(IF current \in kthread THEN "run" ELSE "kern")

\* The system call that slept is done.
BlockReturn == /\ Executes({"kern"})
               /\ at' = [at EXCEPT ![current] = "ret"]
               /\ UNCHANGED <<schedVars, rtVars, state, waitState, timer, kthread, halt>>

\* wakeup_proc of a sleeping process by the current one: do_kill, the wakeup of
\* the waiters of kswapd, init_main waking kswapd.
Wake(p) ==
  /\ Executes({"run", "kern"})
  /\ p # current
  /\ state[p] = "SLEEPING"
  /\ OrHang(WakeInq({p}),
       /\ state' = WakeState({p})
       /\ waitState' = WakeWait({p})
       /\ inq' = WakeInq({p})
       /\ x' = WakeX({p})
       /\ UNCHANGED <<current, needResched, rtVars, timer, kthread, at, halt>>)

\* __do_exit up to the call of schedule(), from do_exit or may_killed: it wakes
\* a set W of threads that wait for a child (module ProcLife says which).
Exit(W) ==
  /\ Executes({"run", "kern", "ret"})
  /\ current \notin kthread
  /\ \A p \in W : waitState[p] = "child"
  /\ OrHang(WakeInq(W),
       /\ state' = [WakeState(W) EXCEPT ![current] = "ZOMBIE"]
       /\ waitState' = WakeWait(W)
       /\ inq' = WakeInq(W)
       /\ x' = WakeX(W)
       /\ at' = [at EXCEPT ![current] = "exit"]
       /\ UNCHANGED <<current, needResched, rtVars, timer, kthread, halt>>)

ExitSchedule == Executes({"exit"}) /\ Schedule("exit")

\* do_wait found the dead child p: its proc_struct is freed.
Reap(p) ==
  /\ Executes({"run", "kern"})
  /\ state[p] = "ZOMBIE"
  /\ state' = [state EXCEPT ![p] = "UNINIT"]
  /\ at' = [at EXCEPT ![p] = "run"]
  /\ needResched' = [needResched EXCEPT ![p] = FALSE]
  /\ isRT' = [isRT EXCEPT ![p] = FALSE]
  /\ computeTime' = [computeTime EXCEPT ![p] = 0]
  /\ periodTime' = [periodTime EXCEPT ![p] = 0]
  /\ ct' = [ct EXCEPT ![p] = 0]
  /\ pt' = [pt EXCEPT ![p] = 0]
  /\ UNCHANGED <<current, inq, x, waitState, timer, kthread, halt>>

\* After a panic the kernel stays in its monitor, after a hang it spins.
Halted == halt # "none" /\ UNCHANGED vars

Next == \/ Tick
        \/ IdleLoop \/ TrapReturn \/ KernelYield \/ Yield
        \/ Exec
        \/ SleepSchedule \/ SleepReturn \/ BlockSchedule \/ BlockReturn \/ ExitSchedule
        \/ \E p \in Proc : Fork(p) \/ Wake(p) \/ Reap(p)
        \/ \E p \in Proc, r \in RTParams : ForkRT(p, r[1], r[2])
        \/ \E time \in SleepTimes : Sleep(time)
        \/ Wait
        \/ \E W \in SUBSET Proc : WaitKswapd(W) \/ Exit(W)
        \/ Halted

\* proc_init and sched_init: idleproc runs and initproc is queued.
Init ==
  /\ current = Idle
  /\ state = [p \in Proc |-> IF p \in {Idle, InitProc} THEN "RUNNABLE" ELSE "UNINIT"]
  /\ waitState = [p \in Proc |-> "none"]
  /\ needResched = [p \in Proc |-> p = Idle]
  /\ isRT = [p \in Proc |-> FALSE]
  /\ computeTime = [p \in Proc |-> 0]
  /\ periodTime = [p \in Proc |-> 0]
  /\ ct = [p \in Proc |-> 0]
  /\ pt = [p \in Proc |-> IF p = InitProc THEN ProcMaxDeadline ELSE 0]
  /\ inq = [p \in Proc |-> IF p = InitProc THEN 1 ELSE 0]
  /\ x = [p \in Proc |-> IF p = InitProc THEN ProcMaxDeadline ELSE 0]
  /\ timer = [p \in Proc |-> 0]
  /\ kthread = {Idle, InitProc}
  /\ at = [p \in Proc |-> "run"]
  /\ halt = "none"

Spec == Init /\ [][Next]_vars
-----------------------------------------------------------------------------
\* Every field has its type.
TypeOK ==
  /\ current \in Proc
  /\ state \in [Proc -> State]
  /\ waitState \in [Proc -> WaitState]
  /\ needResched \in [Proc -> BOOLEAN]
  /\ isRT \in [Proc -> BOOLEAN]
  /\ computeTime \in [Proc -> Int]
  /\ periodTime \in [Proc -> Int]
  /\ ct \in [Proc -> Nat]
  /\ pt \in [Proc -> Int]
  /\ inq \in [Proc -> Nat]
  /\ x \in [Proc -> Int]
  /\ timer \in [Proc -> Nat]
  /\ kthread \in SUBSET Proc
  /\ at \in [Proc -> At]
  /\ halt \in Halt

\* No process is lost and none is queued twice: the run queue holds exactly one
\* entry of every RUNNABLE process but the current one and idleproc, whatever
\* order schedule(), wakeup_proc() and timer ticks come in.
QueueExact ==
  \A p \in Proc :
    inq[p] = IF state[p] = "RUNNABLE" /\ p # current /\ p # Idle THEN 1 ELSE 0

\* The deadline copied into a heap entry when it is pushed stays the deadline of
\* the process: tick_decrease_pt_heap decrements both and no one changes the
\* deadline of a queued process.
QueueMirrorsDeadline == \A p \in Proc : inq[p] > 0 => x[p] = pt[p]

\* A timer on the list lives on the kernel stack of a process that is still in
\* do_sleep, and a process that sleeps for a timer has one running: the timer is
\* not used after its stack frame is gone, and the wakeup is not lost even when
\* the tick comes before schedule().
TimerOwned ==
  \A p \in Proc :
    /\ timer[p] > 0 => /\ at[p] \in {"sleep", "slept"}
                       /\ state[p] \in {"SLEEPING", "RUNNABLE"}
                       /\ waitState[p] \in {"timer", "none"}
    /\ waitState[p] = "timer" => timer[p] > 0

\* wait_state tells exactly the sleeping processes, and the place in the code
\* agrees with the state: only a process about to call schedule() is current
\* without being RUNNABLE.
StateConsistent ==
  /\ state[Idle] = "RUNNABLE" /\ Idle \in kthread /\ timer[Idle] = 0 /\ at[Idle] = "run"
  /\ \A p \in Proc : state[p] = "SLEEPING" <=> waitState[p] # "none"
  /\ \A p \in Proc : state[p] = "ZOMBIE" => at[p] = "exit"
  /\ at[current] \notin {"sleep", "block", "exit"} => state[current] = "RUNNABLE"
  /\ at[current] = "block" => state[current] = "SLEEPING"
  /\ \A p \in Proc : p # current => at[p] \notin {"sleep", "block"}
  /\ \A p \in Proc : at[p] = "exit" => state[p] = "ZOMBIE"

\* The panics of MY_proc_tick and tick_decrease_pt_heap catch every missed
\* deadline in time: a real-time process always has computation left in its
\* period and a deadline that is still ahead, queued, running or asleep.  It holds
\* of a process whose two parameters are positive, whatever the others were
\* started with.
DeadlineAhead ==
  \A p \in Proc :
    isRT[p] /\ computeTime[p] > 0 /\ periodTime[p] > 0 => ct[p] < computeTime[p] /\ pt[p] > 0

\* The scheduler is consistent after every order of ticks, system calls and
\* wake-ups: the run queue holds the RUNNABLE processes once each, with the
\* deadlines proc->pt has, timers belong to sleepers, deadlines are ahead, and
\* state, wait_state and the place in the code agree.  The parts need each
\* other: only together are they inductive.
SchedInv ==
  TypeOK /\ QueueExact /\ QueueMirrorsDeadline /\ TimerOwned /\ DeadlineAhead /\ StateConsistent

\* No assert of wakeup_proc and run_timer_list fails: the kernel never wakes a
\* zombie and no timer wakes a process out of an uninterruptible wait.
NoFailedAssert == halt # "assert"

\* Earliest deadline first: schedule() switches to a RUNNABLE process such that
\* no process left in the run queue has an earlier deadline.
DispatchEarliest ==
  [][current' # current =>
       /\ state[current'] = "RUNNABLE"
       /\ \A p \in Proc : inq'[p] > 0 => pt[current'] <= pt[p]]_vars
=============================================================================
