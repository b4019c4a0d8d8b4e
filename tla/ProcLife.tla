------------------------------ MODULE ProcLife -------------------------------
(***************************************************************************)
(* kern/process/proc.c: the life of processes and threads.  do_fork links  *)
(* a child into the family tree (parent, cptr, optr, yptr), CLONE_THREAD   *)
(* also into the ring of a thread group, do_exit kills the group and hands *)
(* the children over, do_wait sleeps until a child is dead and frees it,   *)
(* do_kill marks a process, which dies on its way to user mode.  A fork    *)
(* copies the address space or, with CLONE_VM, shares it; the last user    *)
(* frees it.                                                               *)
(*                                                                         *)
(* Any RUNNABLE process may go on: the choice of the scheduler is the      *)
(* matter of module EDFSched.  The kernel is not preemptive, so a step is  *)
(* what runs from user mode, or from a return of schedule(), to the next   *)
(* call of schedule() or to the end of the system call.                    *)
(***************************************************************************)
EXTENDS Processes

CONSTANTS InitProc,    \* initproc
          Kswapd,      \* kswapd
          Nil,         \* NULL
          AnyChild,    \* pid 0 of do_wait: any child
          Mm           \* the mm_structs there is memory for, with what belongs to them

ASSUME ProcAssumption == /\ InitProc \in Proc /\ Kswapd \in Proc /\ InitProc # Kswapd
                         /\ Nil \notin Proc /\ AnyChild \notin Proc \cup {Nil}
                         /\ Nil \notin Mm
                         /\ IsFiniteSet(Proc)
                         /\ MaxProcess \in Nat /\ MaxProcess >= 4

VARIABLES
  state,     \* proc->state; "UNINIT" is a proc_struct that is not allocated
  links,     \* the fields parent, cptr, optr, yptr
  next,      \* thread_group: the next thread of the ring
  exiting,   \* flags & PF_EXITING
  exitCode,  \* proc->exit_code
  waitFor,   \* the argument of do_wait while the process is in it, else Nil
  at,        \* "user"; "ret": killed, end of trap(); "wait": in do_wait; "final": end of init_main
  nrProcess, \* nr_process
  mm,        \* proc->mm
  mmCount    \* mm->mm_count; 0: not allocated

memVars == <<mm, mmCount>>
vars    == <<state, links, next, exiting, exitCode, waitFor, at, nrProcess, memVars>>

User     == Proc \ {InitProc, Kswapd}
InUse(p) == state[p] # "UNINIT"
Code     == {"none", "exit", "killed"}

\* wait_state == WT_CHILD
WaitsForChild(p) == state[p] = "SLEEPING" /\ waitFor[p] # Nil

N == Cardinality(Proc)

\* The threads of p's group, from p along next_thread.
Group(p) ==
  LET nth[i \in 0 .. N] == IF i = 0 THEN p ELSE next[nth[i - 1]]
  IN  {nth[i] : i \in DOMAIN nth}

\* The children of p, from cptr along optr.
Children(l, p) ==
  LET nth[i \in 0 .. N] ==
        IF i = 0 THEN l.cptr[p] ELSE IF nth[i - 1] = Nil THEN Nil ELSE l.optr[nth[i - 1]]
  IN  {nth[i] : i \in DOMAIN nth} \ {Nil}
-----------------------------------------------------------------------------
(* The family tree.                                                        *)

\* set_links for the process q with l.parent[q] = p
LinkChild(l, q, p) ==
  LET old == l.cptr[p]
  IN  [parent |-> [l.parent EXCEPT ![q] = p],
       cptr   |-> [l.cptr EXCEPT ![p] = q],
       optr   |-> [l.optr EXCEPT ![q] = old],
       yptr   |-> [r \in Proc |-> IF r = q THEN Nil ELSE IF r = old THEN q ELSE l.yptr[r]]]

\* Mutant: the youngest child stays cptr of its parent.
UnlinkChildKeepsCptr(l, q) ==
  [parent |-> [l.parent EXCEPT ![q] = Nil],
   cptr   |-> l.cptr,
   optr   |-> [r \in Proc |-> IF r = q THEN Nil ELSE IF r = l.yptr[q] THEN l.optr[q] ELSE l.optr[r]],
   yptr   |-> [r \in Proc |-> IF r = q THEN Nil ELSE IF r = l.optr[q] THEN l.yptr[q] ELSE l.yptr[r]]]

\* Mutant: the older sibling keeps its yptr.
UnlinkChildKeepsYptr(l, q) ==
  [parent |-> [l.parent EXCEPT ![q] = Nil],
   cptr   |-> IF l.yptr[q] = Nil THEN [l.cptr EXCEPT ![l.parent[q]] = l.optr[q]] ELSE l.cptr,
   optr   |-> [r \in Proc |-> IF r = q THEN Nil ELSE IF r = l.yptr[q] THEN l.optr[q] ELSE l.optr[r]],
   yptr   |-> [l.yptr EXCEPT ![q] = Nil]]

\* remove_links; the fields of the freed process q are forgotten.
UnlinkChild(l, q) ==
  [parent |-> [l.parent EXCEPT ![q] = Nil],
   cptr   |-> IF l.yptr[q] = Nil THEN [l.cptr EXCEPT ![l.parent[q]] = l.optr[q]] ELSE l.cptr,
   optr   |-> [r \in Proc |-> IF r = q THEN Nil ELSE IF r = l.yptr[q] THEN l.optr[q] ELSE l.optr[r]],
   yptr   |-> [r \in Proc |-> IF r = q THEN Nil ELSE IF r = l.optr[q] THEN l.yptr[q] ELSE l.yptr[r]]]

\* One iteration of the loop of __do_exit that hands the first child over.
HandOver(l, from, to) ==
  LET child == l.cptr[from]
  IN  IF child = Nil THEN l
      ELSE LinkChild([l EXCEPT !.cptr[from] = l.optr[child]], child, to)

\* Mutant: only the first child.
HandOverAllOnce(from, to) == HandOver(links, from, to)

\* The whole loop.
HandOverAll(from, to) ==
  LET after[i \in 0 .. N] ==
        IF i = 0 THEN links ELSE HandOver(after[i - 1], from, to)
  IN  after[N]

-----------------------------------------------------------------------------
(* Thread groups.                                                          *)

Prev(p) == CHOOSE q \in Proc : next[q] = p

\* list_add_before(&current->thread_group, &proc->thread_group)
AddThread(p, q) == [next EXCEPT ![Prev(p)] = q, ![q] = p]

\* Mutant: the thread before p still leads to it.
DeThreadHalf(p) == [next EXCEPT ![p] = p]

\* de_thread
DeThread(p) == [next EXCEPT ![Prev(p)] = next[p], ![p] = p]

-----------------------------------------------------------------------------
(* Address spaces.                                                         *)

\* Mutant: a shared address space is not counted.
CopyMmUncounted(p, q, share) ==
  \E m \in IF share THEN {mm[p]} ELSE {n \in Mm : mmCount[n] = 0} :
    /\ mm' = [mm EXCEPT ![q] = m]
    /\ mmCount' = [mmCount EXCEPT ![m] = 1]

\* copy_mm: q shares the address space of p or gets a new one, if there is memory.
CopyMm(p, q, share) ==
  \E m \in IF share THEN {mm[p]} ELSE {n \in Mm : mmCount[n] = 0} :
    /\ mm' = [mm EXCEPT ![q] = m]
    /\ mmCount' = [mmCount EXCEPT ![m] = @ + 1]

\* mm_count_dec for the address space of p: at 0 it is taken down and freed.
Released(p) == [mmCount EXCEPT ![mm[p]] = @ - 1]

\* Mutant: the old address space is not given back.
NewMmKeepsOld(p) ==
  \E m \in Mm :
    /\ mmCount[m] = 0
    /\ mm' = [mm EXCEPT ![p] = m]
    /\ mmCount' = [mmCount EXCEPT ![m] = @ + 1]

\* do_execve gives the address space of p back, load_icode makes a new one.
NewMm(p) ==
  \E m \in Mm :
    /\ Released(p)[m] = 0
    /\ mm' = [mm EXCEPT ![p] = m]
    /\ mmCount' = [Released(p) EXCEPT ![m] = @ + 1]

-----------------------------------------------------------------------------
(* wakeup_proc for a set of sleeping processes: they go on in do_wait.     *)
Wakeup(S) == [p \in Proc |-> IF p \in S THEN "RUNNABLE" ELSE state[p]]

\* At the end of a system call trap() looks at PF_EXITING (may_killed): "ret" is on
\* the way to __do_exit, "user" is back in user mode.
AtEnd(p) == IF exiting[p] THEN "ret" ELSE "user"

Executes(p, place) == p \in User /\ state[p] = "RUNNABLE" /\ at[p] = place

\* do_fork and do_forkRT, or do_fork with CLONE_THREAD (thread) or CLONE_VM (share) or
\* both.  Without memory it frees what it has got so far and fails.  The slot of a process
\* somebody still waits for is not taken: its pid is not reused that soon.
Fork(p, q, thread, share) ==
  /\ Executes(p, "user")
  /\ ~InUse(q) /\ \A r \in Proc : waitFor[r] # q
  /\ nrProcess < MaxProcess
  /\ state' = [state EXCEPT ![q] = "RUNNABLE"]
  /\ links' = LinkChild([links EXCEPT !.cptr[q] = Nil], q, p)
  /\ next' = IF thread THEN AddThread(p, q) ELSE next
  /\ exiting' = [exiting EXCEPT ![q] = FALSE]
  /\ exitCode' = [exitCode EXCEPT ![q] = "none"]
  /\ at' = [at EXCEPT ![p] = AtEnd(p), ![q] = "user"]
  /\ nrProcess' = nrProcess + 1
  /\ CopyMm(p, q, share)
  /\ UNCHANGED waitFor

\* do_execve, but for the real-time fields.  When load_icode finds no memory the
\* process, without an address space, calls do_exit: the outcome is the one of Exit.
Exec(p) ==
  /\ Executes(p, "user")
  /\ NewMm(p)
  /\ next' = DeThread(p)
  /\ at' = [at EXCEPT ![p] = AtEnd(p)]
  /\ UNCHANGED <<state, links, exiting, exitCode, waitFor, nrProcess>>

\* The process that takes over the children of p: another thread of its group.
Heir(p) == IF next[p] = p THEN InitProc ELSE next[p]

\* Mutant: the heir is not woken.
WokenByExitParent(p) == {q \in Group(links.parent[p]) : WaitsForChild(q)}

\* The waiting threads __do_exit of p wakes: of the parent's group, and the heir
\* when it inherits a dead child (p itself when p is its own child).
WokenByExit(p) ==
  {q \in Group(links.parent[p]) : WaitsForChild(q)}
    \cup {q \in {Heir(p)} : /\ WaitsForChild(q)
                            /\ \E c \in Children(links, p) : state[c] = "ZOMBIE" \/ c = p}

\* __do_exit with the given PF_EXITING flags, exit codes and woken processes W.
DoExit(p, W) ==
  /\ state' = [Wakeup(W \cup WokenByExit(p)) EXCEPT ![p] = "ZOMBIE"]
  /\ links' = HandOverAll(p, Heir(p))
  /\ next' = DeThread(p)
  /\ waitFor' = [waitFor EXCEPT ![p] = Nil]
  /\ at' = [at EXCEPT ![p] = "user"]
  /\ mm' = [mm EXCEPT ![p] = Nil]
  /\ mmCount' = Released(p)
  /\ UNCHANGED nrProcess

\* do_exit: the other threads of the group are killed first.
Exit(p) ==
  /\ Executes(p, "user")
  /\ LET K == {q \in Group(p) \ {p} : ~exiting[q]}
     IN  /\ exiting' = [q \in Proc |-> exiting[q] \/ q \in K]
         /\ exitCode' = [q \in Proc |-> IF q = p \/ q \in K THEN "exit" ELSE exitCode[q]]
         /\ DoExit(p, {q \in K : WaitsForChild(q)})

\* do_exit_thread
ExitThread(p) ==
  /\ Executes(p, "user")
  /\ exitCode' = [exitCode EXCEPT ![p] = "exit"]
  /\ UNCHANGED exiting
  /\ DoExit(p, {})

\* The end of trap() for a killed process, after a system call or a timer interrupt
\* in user mode: may_killed.  A process that is killed while trap() is in schedule()
\* goes to user mode first, and may make another system call.
MayKilled(p) ==
  /\ Executes(p, "user") \/ Executes(p, "ret")
  /\ exiting[p]
  /\ DoExit(p, {})
  /\ UNCHANGED <<exiting, exitCode>>

\* do_kill, of another process or of itself; a dead process keeps its pid.
Kill(p, q) ==
  /\ Executes(p, "user")
  /\ q \in User /\ InUse(q)
  /\ at' = [at EXCEPT ![p] = IF q = p THEN "ret" ELSE AtEnd(p)]
  /\ IF exiting[q]
       THEN UNCHANGED <<state, exiting, exitCode>>
       ELSE /\ exiting' = [exiting EXCEPT ![q] = TRUE]
            /\ exitCode' = [exitCode EXCEPT ![q] = "killed"]
            /\ state' = Wakeup({r \in {q} : WaitsForChild(r)})
  /\ UNCHANGED <<links, next, waitFor, nrProcess, memVars>>

\* The children the search of do_wait meets.
Candidates(p, who) ==
  IF who = AnyChild THEN UNION {Children(links, t) : t \in Group(p)}
  ELSE {q \in {who} : InUse(q) /\ links.parent[q] \in Group(p)}

\* do_wait frees the dead child q.
Reap(q) == /\ state' = [state EXCEPT ![q] = "UNINIT"]
           /\ links' = UnlinkChild(links, q)
           /\ exiting' = [exiting EXCEPT ![q] = FALSE]
           /\ exitCode' = [exitCode EXCEPT ![q] = "none"]
           /\ nrProcess' = nrProcess - 1

\* do_wait from "repeat" on: found, asleep, or -E_BAD_PROC.
Search(p, who) ==
  LET kids == Candidates(p, who)
      dead == {q \in kids : state[q] = "ZOMBIE"}
  IN  \/ /\ \E q \in dead : Reap(q)
         /\ waitFor' = [waitFor EXCEPT ![p] = Nil]
         /\ at' = [at EXCEPT ![p] = AtEnd(p)]
         /\ UNCHANGED <<next, memVars>>
      \/ /\ kids # {} /\ dead = {}
         /\ state' = [state EXCEPT ![p] = "SLEEPING"]
         /\ waitFor' = [waitFor EXCEPT ![p] = who]
         /\ at' = [at EXCEPT ![p] = "wait"]
         /\ UNCHANGED <<links, next, exiting, exitCode, nrProcess, memVars>>
      \/ /\ kids = {}
         /\ waitFor' = [waitFor EXCEPT ![p] = Nil]
         /\ at' = [at EXCEPT ![p] = AtEnd(p)]
         /\ UNCHANGED <<state, links, next, exiting, exitCode, nrProcess, memVars>>

\* do_wait
Wait(p, who) == Executes(p, "user") /\ Search(p, who)

\* do_wait after schedule() returned: may_killed, and "repeat".
WaitAgain(p) ==
  /\ Executes(p, "wait")
  /\ IF exiting[p]
       THEN DoExit(p, {}) /\ UNCHANGED <<exiting, exitCode>>
       ELSE Search(p, waitFor[p])

\* nr_process_store of init_main: idleproc, initproc and kswapd.
NrProcessStore == 3

\* The loop of init_main around do_wait(0, NULL).
InitWait ==
  LET dead == {q \in Candidates(InitProc, AnyChild) : state[q] = "ZOMBIE"}
  IN  /\ state[InitProc] = "RUNNABLE"
      /\ at[InitProc] = "wait"
      /\ \/ /\ \E q \in dead : Reap(q)
            /\ at' = [at EXCEPT ![InitProc] =
                        IF nrProcess - 1 = NrProcessStore THEN "final" ELSE "wait"]
         \/ /\ dead = {}
            /\ state' = [state EXCEPT ![InitProc] = "SLEEPING"]
            /\ UNCHANGED <<links, exiting, exitCode, at, nrProcess>>
      /\ UNCHANGED <<next, waitFor, memVars>>

\* "all user-mode processes have quit."
Final == at[InitProc] = "final" /\ UNCHANGED vars

Next == \/ \E p \in User :
             \/ Exec(p) \/ Exit(p) \/ ExitThread(p) \/ MayKilled(p) \/ WaitAgain(p)
             \/ \E q \in User : Kill(p, q) \/ Wait(p, q)
             \/ \E q \in User, thread, share \in BOOLEAN : Fork(p, q, thread, share)
             \/ Wait(p, AnyChild)
        \/ InitWait
        \/ Final

\* init_main has created kswapd, which sleeps, and u, which has left user_main for its
\* first program.
Init ==
  /\ \E u \in User :
       /\ state = [p \in Proc |-> CASE p \in {InitProc, u} -> "RUNNABLE"
                                   [] p = Kswapd -> "SLEEPING"
                                   [] OTHER -> "UNINIT"]
       /\ links = [parent |-> [p \in Proc |-> IF p \in {Kswapd, u} THEN InitProc ELSE Nil],
                   cptr   |-> [p \in Proc |-> IF p = InitProc THEN u ELSE Nil],
                   optr   |-> [p \in Proc |-> IF p = u THEN Kswapd ELSE Nil],
                   yptr   |-> [p \in Proc |-> IF p = Kswapd THEN u ELSE Nil]]
       /\ \E m \in Mm : /\ mm = [p \in Proc |-> IF p = u THEN m ELSE Nil]
                        /\ mmCount = [n \in Mm |-> IF n = m THEN 1 ELSE 0]
  /\ next = [p \in Proc |-> p]
  /\ exiting = [p \in Proc |-> FALSE]
  /\ exitCode = [p \in Proc |-> "none"]
  /\ waitFor = [p \in Proc |-> IF p = InitProc THEN AnyChild ELSE Nil]
  /\ at = [p \in Proc |-> IF p = InitProc THEN "wait" ELSE "user"]
  /\ nrProcess = NrProcessStore + 1

Spec == Init /\ [][Next]_vars
-----------------------------------------------------------------------------
\* Every field has its type.
TypeOK ==
  /\ state \in [Proc -> {"UNINIT", "RUNNABLE", "SLEEPING", "ZOMBIE"}]
  /\ links \in [parent : [Proc -> Proc \cup {Nil}], cptr : [Proc -> Proc \cup {Nil}],
                optr : [Proc -> Proc \cup {Nil}], yptr : [Proc -> Proc \cup {Nil}]]
  /\ next \in [Proc -> Proc]
  /\ exiting \in [Proc -> BOOLEAN]
  /\ exitCode \in [Proc -> Code]
  /\ waitFor \in [Proc -> Proc \cup {Nil, AnyChild}]
  /\ at \in [Proc -> {"user", "ret", "wait", "final"}]
  /\ nrProcess \in 0 .. MaxProcess

\* The pointers of the family tree agree after any sequence of forks, exits and
\* waits: from cptr along optr one meets exactly the processes whose parent it
\* is, yptr leads back, and nr_process counts the processes.  No process has a
\* parent that is dead or freed: __do_exit hands all children over before anybody
\* can free the process.
TreeConsistent ==
  /\ TypeOK
  /\ \A p \in Proc : links.parent[p] # Nil =>
                       /\ InUse(p)
                       /\ state[links.parent[p]] \in {"RUNNABLE", "SLEEPING"}
  /\ \A p \in Proc : Children(links, p) = {q \in Proc : links.parent[q] = p}
  /\ \A p, q \in Proc : links.yptr[q] = p <=> links.optr[p] = q
  /\ nrProcess = Cardinality({p \in Proc : InUse(p)}) + 1

\* The rings of threads are closed and hold living threads only: no next_thread
\* leads to a dead thread.
RingsOfLiving ==
  /\ \A p, q \in Proc : next[p] = next[q] => p = q
  /\ \A p \in Proc : next[p] # p => state[p] \in {"RUNNABLE", "SLEEPING"}

\* Nobody sleeps in do_wait while a child it waits for is dead, whichever thread
\* of the group the child belonged to when it died.
NoLostWakeup ==
  \A p \in Proc : WaitsForChild(p) =>
    \A q \in Candidates(p, waitFor[p]) : state[q] # "ZOMBIE"

\* An address space is shared by exactly the processes mm_count counts, over any
\* mixture of CLONE_VM, CLONE_THREAD, exec, exit and kill: none is freed under a
\* living process or freed twice, and every living user process has one.
AddressSpacesExact ==
  /\ mm \in [Proc -> Mm \cup {Nil}]
  /\ mmCount \in [Mm -> Nat]
  /\ \A p \in Proc : mm[p] # Nil <=> p \in User /\ state[p] \in {"RUNNABLE", "SLEEPING"}
  /\ \A m \in Mm : mmCount[m] = Cardinality({p \in Proc : mm[p] = m})

\* The asserts at the end of init_main.  Those about the tree in full: kswapd is the only
\* child of initproc, and neither has a sibling.  Of those about memory what do_fork
\* and do_execve take themselves: when nr_process is back at its value no proc_struct
\* with its kernel stack is left, zombies included, and no mm_struct.  That a mm_struct
\* takes its pages along (exit_mmap, put_pgdir) is not part of this module.
FinalAsserts ==
  at[InitProc] = "final" =>
    /\ links.cptr[InitProc] = Kswapd
    /\ links.yptr[InitProc] = Nil /\ links.optr[InitProc] = Nil
    /\ links.cptr[Kswapd] = Nil /\ links.yptr[Kswapd] = Nil /\ links.optr[Kswapd] = Nil
    /\ \A p \in User : ~InUse(p)
    /\ \A m \in Mm : mmCount[m] = 0
=============================================================================
