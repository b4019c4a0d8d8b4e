------------------------------ MODULE Monitor --------------------------------
(***************************************************************************)
(* The kernel monitor and the debugger on top of the console:              *)
(* kern/debug/monitor.c, the debug registers of kern/debug/kdebug.c, and   *)
(* panic.c.  In mode "run" the kernel or a program runs with interrupts    *)
(* on, and the interrupt handler of trap_dispatch reads the console; in    *)
(* mode "monitor" (debug_monitor) and "panic" (__panic) interrupts are     *)
(* off, and monitor() polls the console for command lines.                 *)
(*                                                                         *)
(* Two contexts stand for the processes: the one that runs, and another.   *)
(* The arguments of a command are fixed by its name (Command).  A line of  *)
(* more than MAXARGS words is written past the end of argv: mode "lost",   *)
(* of which nothing more is said.                                          *)
(***************************************************************************)
EXTENDS Console, Printfmt, DebugInfo

CONSTANTS
  Command,     \* from the names of commands[], terminated, to what they do and their arguments
  MaxArgs      \* MAXARGS: the places of argv in runcmd

ASSUME MonitorAssumption ==
  /\ \A name \in DOMAIN Command : Command[name].do \in {"continue", "step", "break", "delete"}
  /\ MaxArgs \in Nat

VARIABLES
  mode,        \* "run", "monitor", "panic" or "lost"
  line,        \* buf of readline, up to i
  saved,       \* is_dr_saved
  dr,          \* local_dr and control_dr
  hw,          \* the registers of the processor
  stepping     \* the contexts whose trap frame has FL_TF

monVars == <<mode, line, saved, dr, hw, stepping>>
vars == <<consVars, monVars>>

Init ==
  /\ ConsInit
  /\ mode = "run" /\ line = << >>
  /\ saved = FALSE /\ dr = DrInit /\ hw = DrInit     \* debug_init
  /\ stepping = {}

-----------------------------------------------------------------------------
(* Command lines *)

Whitespace == <<32, 9, 10, 13, 0>>

\* parse: the words of the buffer, from place "at" on.  It warns at the last place of
\* argv and goes on.
WordEnd(buf, at) ==
  Loop(LAMBDA i : Byte(buf, i) # 0 /\ StrChr(Whitespace, Byte(buf, i)) = -1,
       LAMBDA i : i + 1, at, Len(buf))

Parse(buf) ==
  Loop(LAMBDA s : Byte(buf, s.at) # 0,
       LAMBDA s : IF StrChr(Whitespace, Byte(buf, s.at)) # -1 THEN [s EXCEPT !.at = @ + 1]
                  ELSE Of(WordEnd(buf, s.at), LAMBDA end :
                          [at |-> end, argv |-> Append(s.argv, SubSeq(buf, s.at + 1, end) \o <<0>>)]),
       [at |-> 0, argv |-> << >>], Len(buf)).argv

NoAddr == -1                     \* addr is not initialised

\* One argument of mon_breakpoint ("letters" is "r") or mon_watchpoint ("rtl").
Option(st, arg) ==
  LET v == arg[3]
  IN  CASE arg[2] = 114 /\ v \in 48 .. 51 -> [st EXCEPT !.reg = v - 48]
        [] arg[2] = 116 /\ v \in {119, 97} -> [st EXCEPT !.type = IF v = 119 THEN 1 ELSE 3]
        [] arg[2] = 108 /\ v \in {49, 50, 52} -> [st EXCEPT !.len = v - 49]
        [] OTHER -> [st EXCEPT !.bad = TRUE]

Argument(st, arg, letters) ==
  IF st.bad THEN st
  ELSE IF arg[1] = 45
  THEN IF Len(arg) # 4 \/ arg[2] \notin letters THEN [st EXCEPT !.bad = TRUE] ELSE Option(st, arg)
  ELSE Of(StrToL(arg, 16), LAMBDA r :
          IF Byte(arg, r.end) # 0 THEN [st EXCEPT !.bad = TRUE] ELSE [st EXCEPT !.addr = r.val])

Arguments(argv, letters, type) ==
  FoldLeft(LAMBDA st, arg : Argument(st, arg, letters),
           [reg |-> 4, addr |-> NoAddr, type |-> type, len |-> 3, bad |-> FALSE], argv)

\* The settings that can result; without an address it is any.
Enabled(d, st) ==
  IF st.bad THEN {d}
  ELSE {DebugEnableDr(d, st.reg, a, st.type, st.len) :
          a \in IF st.addr = NoAddr THEN 0 .. 2^W - 1 ELSE {st.addr}}

MonBreakpoint(d, argv) ==
  IF Len(argv) # 2 THEN {d} ELSE Enabled(d, Arguments(argv, {114}, 0))

MonWatchpoint(d, argv) ==
  IF Len(argv) < 2 THEN {d} ELSE Enabled(d, Arguments(argv, {114, 116, 108}, 1))

MonDeleteDr(d, argv) ==
  IF Len(argv) # 1 \/ Len(argv[1]) # 2 \/ argv[1][1] \notin 48 .. 51 THEN d
  ELSE DebugDisableDr(d, argv[1][1] - 48)

-----------------------------------------------------------------------------
(* debug_monitor *)

\* A plausible error: the registers are saved again when they are saved already.
DebugStartAgain ==
  /\ saved' = TRUE
  /\ dr' = [local |-> hw.local, control |-> hw.control]
  /\ hw' = [hw EXCEPT !.control = {}]

\* debug_start: save_all_dr copies the registers and disables them.
DebugStart ==
  /\ saved' = TRUE
  /\ IF saved THEN UNCHANGED <<dr, hw>>
     ELSE /\ dr' = [local |-> hw.local, control |-> hw.control]
          /\ hw' = [hw EXCEPT !.control = {}]

EnterMonitor == mode' = "monitor" /\ line' = << >> /\ DebugStart /\ UNCHANGED stepping

\* A plausible error: the flag is cleared, the registers stay disabled.
DebugEndForgets == saved' = FALSE /\ UNCHANGED hw

\* debug_end when the trap frame has no FL_TF: restore_all_dr.
DebugEnd ==
  IF saved THEN saved' = FALSE /\ hw' = dr ELSE UNCHANGED <<saved, hw>>

\* mon_continue and mon_step end the monitor, and with it debug_monitor.
MonContinue ==
  /\ mode = "monitor"
  /\ mode' = "run" /\ stepping' = stepping \ {"current"} /\ DebugEnd /\ UNCHANGED dr

MonStep ==
  /\ mode = "monitor"
  /\ mode' = "run" /\ stepping' = stepping \cup {"current"} /\ UNCHANGED <<saved, dr, hw>>

\* Commands after which the monitor reads the next line.
MonSet(cmd) ==
  /\ dr' \in CASE cmd.do = "break"  -> MonBreakpoint(dr, cmd.argv)
               [] cmd.do = "delete" -> {MonDeleteDr(dr, cmd.argv)}
               [] OTHER -> {dr}
  /\ UNCHANGED <<mode, saved, hw, stepping>>

\* runcmd: the first name of the table that strcmp finds equal.
Found(word) == {name \in DOMAIN Command : StrCmp(name, word) = 0}

RunCmd(argv) ==
  LET cmds == IF argv = << >> THEN {} ELSE {Command[name] : name \in Found(argv[1])}
  IN  \/ cmds = {} /\ UNCHANGED <<mode, saved, dr, hw, stepping>>
      \/ \E cmd \in cmds :
           \/ cmd.do = "continue" /\ MonContinue
           \/ cmd.do = "step" /\ MonStep
           \/ (cmd.do \in {"break", "delete"} \/ mode = "panic") /\ MonSet(cmd)

\* runcmd with what parse does to argv[MAXARGS] on its stack.
RunLine(argv) ==
  IF Len(argv) > MaxArgs THEN mode' = "lost" /\ UNCHANGED <<saved, dr, hw, stepping>>
  ELSE RunCmd(argv)

-----------------------------------------------------------------------------
(* Actions *)

\* trap_dispatch for the interrupt of the keyboard or of the serial port: one
\* character is taken, and 13 starts the debugger.
Interrupt(from, n) ==
  /\ mode = "run" /\ from \in irq /\ n \in Arrived
  /\ \E got \in {Taken(Drained(n))} :
       /\ ConsGetC(n, got, {from})
       /\ IF got.c = 13 THEN EnterMonitor ELSE UNCHANGED monVars

\* trap_dispatch for T_DEBUG, after a single step or at an address of a debug
\* register, and for T_BRKPT.
DebugTrap == mode = "run" /\ EnterMonitor /\ UNCHANGED consVars

\* getchar in readline: a poll that finds a character.
MonitorReads(n) ==
  /\ mode \in {"monitor", "panic"} /\ n \in Arrived
  /\ kbd # << >> \/ com # << >> \/ ring.rpos # ring.wpos
  /\ \E got \in {Taken(Drained(n))} :
       /\ ConsGetC(n, got, {})
       /\ \E r \in {ReadLine(line, got.c)} :
            IF r.end THEN line' = << >> /\ RunLine(Parse(Append(r.line, 0)))
            ELSE line' = r.line /\ UNCHANGED <<mode, saved, dr, hw, stepping>>

\* __panic: monitor(NULL) for ever, the debug registers as they are.
Panic == mode = "run" /\ mode' = "panic" /\ line' = << >>
         /\ UNCHANGED <<saved, dr, hw, stepping, consVars>>

\* schedule() lets the other context run; or the current one exits, in favour of
\* the other, without having executed the instruction it was to step over.
Other(c) == IF c = "current" THEN "other" ELSE "current"
Switch == mode = "run" /\ stepping' = {Other(c) : c \in stepping}
          /\ UNCHANGED <<mode, line, saved, dr, hw, consVars>>
Exit == mode = "run" /\ stepping' = {Other(c) : c \in stepping \ {"current"}}
        /\ UNCHANGED <<mode, line, saved, dr, hw, consVars>>

\* What happens after parse has written past argv is not followed.
Lost == mode = "lost" /\ UNCHANGED vars

Next ==
  \/ \E k \in Key, release \in BOOLEAN : KeyEvent(k, release) /\ UNCHANGED monVars
  \/ \E b \in SerialByte : SerialArrives(b) /\ UNCHANGED monVars
  \/ \E from \in {"kbd", "com"}, n \in 0 .. 2 : Interrupt(from, n)
  \/ DebugTrap
  \/ \E n \in 0 .. 2 : MonitorReads(n)
  \/ Panic
  \/ Switch
  \/ Exit
  \/ Lost

Spec == Init /\ [][Next]_vars

-----------------------------------------------------------------------------
(* Properties *)

TypeOK ==
  /\ kbd \in Seq(0 .. 255) /\ com \in Seq(SerialByte) /\ irq \subseteq {"kbd", "com"}
  /\ down \subseteq Key
  /\ shift \subseteq {"CTL", "SHIFT", "ALT", "CAPSLOCK", "NUMLOCK", "SCROLLLOCK", "E0ESC"}
  /\ ring.rpos \in DOMAIN NoCells /\ ring.wpos \in DOMAIN NoCells
  /\ mode \in {"run", "monitor", "panic", "lost"} /\ Len(line) < BufSize /\ saved \in BOOLEAN
  /\ stepping \subseteq {"current", "other"}

\* The shift state follows the keys, wherever the bytes of the keys were read, one
\* by one by interrupts or by the monitor: between two key events no escape is left
\* over, a bit is set only while a key of it is held, and it is set when all are.
ShiftFollowsKeys ==
  kbd = << >> =>
    /\ "E0ESC" \notin shift
    /\ \A bit \in {"CTL", "SHIFT", "ALT"} :
         LET keys == {k \in Key : bit \in shiftcode(k)}
         IN  /\ bit \in shift => keys \cap down # {}
             /\ keys # {} /\ keys \subseteq down => bit \in shift

\* The ring gives back what was stored, in the order of arrival and each character
\* once, over any number of turns; only when CONSBUFSIZE characters are unread
\* all of them are lost.
RingExact == TypeOK /\ Live(ring) = unread

\* Outside of the monitor the processor has the registers that listdr would show,
\* unless a step was not yet followed by "continue": then it has none armed.  In
\* debug_monitor none is armed, so that it cannot trap into itself.
RegistersArmed ==
  /\ ~saved /\ mode = "run" => hw = dr
  /\ saved => hw.control = {}
  /\ mode = "monitor" => saved

\* Only commands change what is set: no order of traps, steps, process switches and
\* exits loses a breakpoint or brings back a deleted one.
BreakpointsKept == [][dr' # dr => mode \in {"monitor", "panic"}]_vars
=============================================================================
