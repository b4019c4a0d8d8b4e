----------------------------- MODULE MCEDFLoads ------------------------------
(***************************************************************************)
(* EDFSched under two loads of real-time processes.                        *)
(*                                                                         *)
(* The load the kernel is built with: init_main starts kswapd and          *)
(* user_main and waits, user_main is exec'd as user/jenny.c, which calls   *)
(* forkRT(4, 10) and forkRT(1, 8).  The first child returns from its fork  *)
(* into the same program and calls forkRT(1, 8) too, so that the load is   *)
(* (1, 10), (4, 10), (1, 8) and (1, 8).  The four compute and do not exit; *)
(* kswapd runs and sleeps again and again, as it does when memory is not   *)
(* short.  Ticks come from the start, also between the forks.              *)
(*                                                                         *)
(* An idealised load: three real-time processes that need the whole        *)
(* processor.  kswapd, which init_main always creates, is left out: at     *)
(* full load it never gets the processor, and its deadline, which nobody   *)
(* renews, ends every behaviour after PROC_MAX_DEADLINE ticks.             *)
(***************************************************************************)
EXTENDS EDFSched, TLC

CONSTANTS
  idle, init,
  k,           \* kswapd
  a,           \* user_main, then the exec'd program
  b, c,        \* the processes it forks
  d,           \* the process that b forks in jenny.c
  KswapdSleep, \* the argument of do_sleep in kswapd_main
  SetupPt      \* full load: ticks come between the forks up to this deadline of a and b

VARIABLE ticked   \* jenny: a tick has come since the processor was last in user mode

RTArgs == {<<1, 2>>, <<3, 4>>, <<2, 5>>, <<3, 5>>, <<4, 10>>, <<1, 10>>, <<5, 10>>, <<4, 8>>,
           <<1, 8>>, <<31, 40>>}
ExecArgs == <<1, 10>>

UserMode  == current \notin kthread /\ at[current] = "run"
Exists(p) == state[p] # "UNINIT"

-----------------------------------------------------------------------------
(* jenny.c                                                                 *)

InitMain == /\ current = init
            /\ \/ ~Exists(a) /\ Fork(k)
               \/ Exists(k) /\ Fork(a)
               \/ Exists(a) /\ (Wait \/ BlockSchedule)

KswapdMain == current = k /\ (Sleep(KswapdSleep) \/ SleepSchedule \/ SleepReturn)

\* main() of jenny.c in each of the four processes, from kernel_execve on.
Jenny == \/ current = a /\ a \in kthread /\ Exec
         \/ current = a /\ isRT[a] /\ ForkRT(b, 4, 10)
         \/ current = a /\ Exists(b) /\ ForkRT(c, 1, 8)
         \/ current = b /\ ForkRT(d, 1, 8)

\* A tick may come anywhere, but the kernel gets back to user mode before the next.
JennyTick == Tick /\ (UserMode \/ ~ticked)

JennyNext ==
  /\ Exists(k) \/ ~Exists(a)
  /\ \/ JennyTick /\ ticked' = TRUE
     \/ /\ InitMain \/ KswapdMain \/ Jenny \/ IdleLoop \/ TrapReturn
        /\ ticked' = (ticked /\ ~UserMode')
     \/ Halted /\ UNCHANGED ticked

-----------------------------------------------------------------------------
(* Full load                                                               *)

User    == {a, b, c}
Started == \A p \in User : Exists(p)

\* compute_time / period_time summed over a, b and c, as a fraction.
FullLoad ==
  /\ Started /\ ~Exists(k)
  /\ computeTime[a] * periodTime[b] * periodTime[c]
       + computeTime[b] * periodTime[a] * periodTime[c]
       + computeTime[c] * periodTime[a] * periodTime[b]
     = periodTime[a] * periodTime[b] * periodTime[c]

\* The clock in user mode: the kernel is back there before the next tick.
ClockTick == UserMode /\ Tick

\* initproc starts user_main (slot a) and waits; a is exec'd and forks b and c.  As
\* soon as the run queue cannot be empty there are ticks.
Setup ==
  /\ ~Started /\ ~Exists(k)
  /\ \/ IdleLoop \/ TrapReturn
     \/ current = init /\ (Fork(a) \/ (Exists(a) /\ Wait) \/ BlockSchedule)
     \/ current = a /\ ~isRT[a] /\ Exec
     \/ \E r \in RTParams :
          current = a /\ isRT[a] /\ (ForkRT(b, r[1], r[2]) \/ (Exists(b) /\ ForkRT(c, r[1], r[2])))
     \/ Exists(b) /\ ClockTick /\ pt'[a] <= SetupPt /\ pt'[b] <= SetupPt
  /\ UNCHANGED ticked

\* From then on the processes compute for ever.
Compute == FullLoad /\ (ClockTick \/ TrapReturn) /\ UNCHANGED ticked

\* Another load, a set-up that reached SetupPt and a panic are not followed any further.
Ends == /\ Exists(a) /\ ~Exists(k) /\ (~FullLoad \/ halt # "none")
        /\ UNCHANGED <<vars, ticked>>

-----------------------------------------------------------------------------
LoadVars == <<vars, ticked>>
LoadNext == JennyNext \/ Setup \/ Compute \/ Ends
LoadSpec == Init /\ ticked = FALSE /\ [][LoadNext]_LoadVars
              /\ WF_LoadVars(Setup) /\ WF_LoadVars(Compute)

\* Both loads, jenny.c with kswapd at three quarters of the processor and the
\* idealised one that needs all of it, are served in time whatever the phases in
\* which the processes are started and kswapd wakes up: MY_proc_tick and
\* tick_decrease_pt_heap never panic for a real-time process.
MeetsDeadlines == halt # "missRT"

\* Without kswapd no process starves at utilisation one, the most that any scheduler
\* can serve: a real-time process gets the processor again and again.  Fairness of
\* Compute says that the clock ticks and trap() returns.
NoStarvation == \A p \in User : [](FullLoad => <>(current = p))
=============================================================================
