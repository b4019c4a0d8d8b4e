------------------------------- MODULE GetPid --------------------------------
(***************************************************************************)
(* kern/process/proc.c: get_pid, as do_fork calls it, with the process     *)
(* list it searches.  The two static variables last_pid and next_safe      *)
(* remember an interval that is known to be free, so that most calls do    *)
(* not search; every iteration of the search is a step.  The list is a     *)
(* set: the search meets the processes in any order.                       *)
(***************************************************************************)
EXTENDS Processes

CONSTANT MaxPid   \* MAX_PID

\* static_assert(MAX_PID > MAX_PROCESS)
ASSUME PidAssumption == /\ MaxProcess \in Nat \ {0}
                        /\ MaxPid \in Nat
                        /\ MaxPid > MaxProcess

VARIABLES procList,  \* proc_list: all processes but idleproc
          pid,       \* proc->pid
          lastPid,   \* static int last_pid
          nextSafe,  \* static int next_safe
          op,        \* "idle", "scan": in the while loop, "done": get_pid returns
          todo,      \* the processes the while loop has still to meet
          child      \* the process do_fork creates

pidVars == <<procList, pid, lastPid, nextSafe, op, todo, child>>

PidInit == /\ procList = {}
           /\ pid = [p \in Proc |-> 0]
           /\ lastPid = MaxPid
           /\ nextSafe = MaxPid
           /\ op = "idle"
           /\ todo = {}
           /\ child \in Proc

\* nr_process counts idleproc, which is not on the list.
NrProcess == Cardinality(procList) + 1

\* Mutant: the limit of do_fork comes later than the pids run out.
BelowLimitLate == NrProcess <= MaxPid

\* The check at the beginning of do_fork.
BelowLimit == NrProcess < MaxProcess

\* inside: all pids from last_pid on are candidates until the search says otherwise.
StartScan == /\ nextSafe' = MaxPid
             /\ op' = "scan"
             /\ todo' = procList

\* Mutant: last_pid wraps around without a search.
GetPidWraps(p) ==
  /\ op = "idle"
  /\ p \notin procList
  /\ BelowLimit
  /\ child' = p
  /\ lastPid' = IF lastPid + 1 >= MaxPid THEN 1 ELSE lastPid + 1
  /\ IF lastPid + 1 < MaxPid /\ lastPid + 1 >= nextSafe
       THEN StartScan
       ELSE op' = "done" /\ UNCHANGED <<nextSafe, todo>>
  /\ UNCHANGED <<procList, pid>>

\* do_fork calls get_pid, up to the loop.
GetPid(p) ==
  /\ op = "idle"
  /\ p \notin procList
  /\ BelowLimit
  /\ child' = p
  /\ IF lastPid + 1 >= MaxPid
       THEN lastPid' = 1 /\ StartScan
       ELSE /\ lastPid' = lastPid + 1
            /\ IF lastPid + 1 >= nextSafe
                 THEN StartScan
                 ELSE op' = "done" /\ UNCHANGED <<nextSafe, todo>>
  /\ UNCHANGED <<procList, pid>>

\* Mutant: the search goes on after "last_pid ++" when it has to start again.
ScanNoRepeat(p) ==
  /\ op = "scan"
  /\ p \in todo
  /\ todo' = todo \ {p}
  /\ IF pid[p] = lastPid
       THEN /\ lastPid' = IF lastPid + 1 >= MaxPid THEN 1 ELSE lastPid + 1
            /\ nextSafe' = IF lastPid + 1 >= nextSafe THEN MaxPid ELSE nextSafe
       ELSE /\ nextSafe' = IF pid[p] > lastPid /\ nextSafe > pid[p] THEN pid[p] ELSE nextSafe
            /\ UNCHANGED lastPid
  /\ UNCHANGED <<procList, pid, op, child>>

\* One iteration of the loop, for the process p.
Scan(p) ==
  /\ op = "scan"
  /\ p \in todo
  /\ IF pid[p] = lastPid
       THEN IF lastPid + 1 >= nextSafe
              THEN /\ lastPid' = IF lastPid + 1 >= MaxPid THEN 1 ELSE lastPid + 1
                   /\ StartScan
              ELSE /\ lastPid' = lastPid + 1
                   /\ todo' = todo \ {p}
                   /\ UNCHANGED <<nextSafe, op>>
       ELSE /\ nextSafe' = IF pid[p] > lastPid /\ nextSafe > pid[p] THEN pid[p] ELSE nextSafe
            /\ todo' = todo \ {p}
            /\ UNCHANGED <<lastPid, op>>
  /\ UNCHANGED <<procList, pid, child>>

ScanEnd == /\ op = "scan"
           /\ todo = {}
           /\ op' = "done"
           /\ UNCHANGED <<procList, pid, lastPid, nextSafe, todo, child>>

\* do_fork goes on: proc->pid = get_pid(), hash_proc and set_links.
SetLinks == /\ op = "done"
            /\ pid' = [pid EXCEPT ![child] = lastPid]
            /\ procList' = procList \cup {child}
            /\ op' = "idle"
            /\ UNCHANGED <<lastPid, nextSafe, todo, child>>

\* do_wait frees a process: unhash_proc and remove_links.
RemoveLinks(p) == /\ op = "idle"
                  /\ p \in procList
                  /\ procList' = procList \ {p}
                  /\ pid' = [pid EXCEPT ![p] = 0]
                  /\ UNCHANGED <<lastPid, nextSafe, op, todo, child>>

PidNext == \/ \E p \in Proc : GetPid(p) \/ Scan(p) \/ RemoveLinks(p)
           \/ ScanEnd
           \/ SetLinks

PidSpec == PidInit /\ [][PidNext]_pidVars

\* get_pid runs on once it is called.
PidFairSpec == PidSpec /\ WF_pidVars(\E p \in Proc : Scan(p)) /\ WF_pidVars(ScanEnd)
-----------------------------------------------------------------------------
\* A pid is between 1 and MAX_PID - 1; the interval stays within these.
PidTypeOK ==
  /\ procList \in SUBSET Proc
  /\ pid \in [Proc -> 0 .. MaxPid - 1]
  /\ \A p \in procList : pid[p] > 0
  /\ lastPid \in 1 .. MaxPid
  /\ nextSafe \in 1 .. MaxPid
  /\ op \in {"idle", "scan", "done"}
  /\ todo \in SUBSET procList
  /\ child \in Proc
  /\ op # "idle" => child \notin procList /\ lastPid < MaxPid

\* get_pid - alloc a unique pid for process: no two processes have the same.
UniquePids == \A p, q \in procList : pid[p] = pid[q] => p = q

\* No process outside of S has a pid strictly between last_pid and next_safe.
FreeInterval(S) == \A p \in procList \ S : ~(lastPid < pid[p] /\ pid[p] < nextSafe)

\* What makes the fast path right: the interval is free between two calls, although
\* processes come and go, and during the search for the processes met so far.
IntervalFree ==
  /\ FreeInterval(todo)
  /\ op # "scan" => todo = {}
  /\ op \in {"scan", "done"} => \A p \in procList \ todo : pid[p] # lastPid
  /\ op = "scan" => lastPid < nextSafe

\* The inductive invariant.
PidInv == PidTypeOK /\ UniquePids /\ IntervalFree

\* The search ends: because of BelowLimit a free pid exists, and "repeat" finds it.
SearchEnds == op = "scan" ~> op = "done"
=============================================================================
