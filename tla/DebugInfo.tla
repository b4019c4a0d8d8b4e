------------------------------ MODULE DebugInfo ------------------------------
(***************************************************************************)
(* The pure parts of the debugger, kern/debug/kdebug.c and monitor.c: the  *)
(* search of the stabs table that gives the file, line and function of an  *)
(* address, the bits of the debug control register, and the arguments of   *)
(* the commands that set it.                                               *)
(*                                                                         *)
(* The entries of a stabs table are numbered from 0; an entry has a type,  *)
(* a value and a description, and the offset of its name in the string     *)
(* table stands for the name.  A register is the set of its bits.          *)
(***************************************************************************)
EXTENDS Integers, Sequences, FiniteSets, Loops

\* stab_binsearch.  s.l and s.r are the range that is left, s.left and s.right the
\* region; m is the last entry of the type up to the middle of the range.
Middle(stabs, type, s) ==
  Loop(LAMBDA m : m >= s.l /\ stabs[m + 1].type # type, LAMBDA m : m - 1,
       (s.l + s.r) \div 2, Len(stabs) + 1)

SearchStep(stabs, s, m) ==
  LET after == (s.l + s.r) \div 2 + 1
  IN  IF m < s.l THEN [s EXCEPT !.l = after]
      ELSE IF stabs[m + 1].value < s.addr THEN [s EXCEPT !.any = TRUE, !.left = m, !.l = after]
      ELSE IF stabs[m + 1].value > s.addr THEN [s EXCEPT !.any = TRUE, !.right = m - 1, !.r = m - 1]
      ELSE [s EXCEPT !.any = TRUE, !.left = m, !.l = m, !.addr = @ + 1]

\* The end of the search: the last entry of the type in the region.
SearchEnd(stabs, type, s) ==
  IF ~s.any THEN [left |-> s.left, right |-> s.left - 1]
  ELSE [left  |-> Loop(LAMBDA l : l > s.left /\ stabs[l + 1].type # type, LAMBDA l : l - 1,
                       s.right, Len(stabs) + 1),
        right |-> s.right]

StabBinSearch(stabs, left, right, type, addr) ==
  SearchEnd(stabs, type,
    Loop(LAMBDA s : s.l <= s.r,
         LAMBDA s : Of(Middle(stabs, type, s), LAMBDA m : SearchStep(stabs, s, m)),
         [l |-> left, r |-> right, left |-> left, right |-> right, any |-> FALSE, addr |-> addr],
         2 * Len(stabs) + 2))

-----------------------------------------------------------------------------
(* debuginfo_eip.  t has the stabs, whether the tables can be read (for a   *)
(* user address: user_mem_check), and the size of the string table.         *)

NoInfo(addr) == [found |-> FALSE, file |-> -1, line |-> 0, fn |-> -1, fnAddr |-> addr, narg |-> 0]

\* The function of addr, if the region of the file has one, and what to search for
\* the line: its entries, and the address relative to it.
FunctionOf(t, addr, file) ==
  Of(StabBinSearch(t.stabs, file.left, file.right, "FUN", addr), LAMBDA fun :
     IF fun.left <= fun.right
     THEN LET stab == t.stabs[fun.left + 1]
          IN  [in |-> TRUE, left |-> fun.left, right |-> fun.right, rel |-> addr - stab.value,
               fn |-> IF stab.strx < t.strsize THEN stab.strx ELSE -1, fnAddr |-> stab.value]
     ELSE [in |-> FALSE, left |-> file.left, right |-> file.right, rel |-> addr,
           fn |-> -1, fnAddr |-> addr])

\* Back from the line to the name of its file: an included file or the source.
NameStab(t, line, file) ==
  Loop(LAMBDA i : /\ i >= file.left
                  /\ t.stabs[i + 1].type # "SOL"
                  /\ t.stabs[i + 1].type # "SO" \/ t.stabs[i + 1].value = 0,
       LAMBDA i : i - 1, line, Len(t.stabs))

\* The parameters follow the function.
CountArgs(t, fun) ==
  IF ~fun.in THEN 0
  ELSE Loop(LAMBDA i : i < fun.right /\ t.stabs[i + 1].type = "PSYM", LAMBDA i : i + 1,
            fun.left + 1, Len(t.stabs)) - (fun.left + 1)

LineInfo(t, addr, file, fun) ==
  Of(StabBinSearch(t.stabs, fun.left, fun.right, "SLINE", fun.rel), LAMBDA line :
     IF line.left > line.right
     THEN [NoInfo(addr) EXCEPT !.fn = fun.fn, !.fnAddr = fun.fnAddr]
     ELSE Of(NameStab(t, line.left, file), LAMBDA i :
             [found |-> TRUE, line |-> t.stabs[line.right + 1].desc,
              file |-> IF i >= file.left /\ t.stabs[i + 1].strx < t.strsize
                       THEN t.stabs[i + 1].strx ELSE -1,
              fn |-> fun.fn, fnAddr |-> fun.fnAddr, narg |-> CountArgs(t, fun)]))

DebugInfoEip(t, addr) ==
  IF ~t.readable \/ t.strsize <= 0 THEN NoInfo(addr)
  ELSE Of(StabBinSearch(t.stabs, 0, Len(t.stabs) - 1, "SO", addr), LAMBDA file :
          IF file.left = 0 THEN NoInfo(addr)
          ELSE Of(FunctionOf(t, addr, file), LAMBDA fun : LineInfo(t, addr, file, fun)))

-----------------------------------------------------------------------------
(* The debug registers.  d has the addresses local_dr and the bits control_dr. *)

DrNum == 0 .. 3                                  \* MAX_DR_NUM
ExactBits == {8, 9}                              \* DR7_GEXACT | DR7_LEXACT
BitsOf(n) == {b \in 0 .. 1 : (n \div 2^b) % 2 = 1}
Field(reg) == (reg * 4 + 16) .. (reg * 4 + 19)

\* debug_init
DrInit == [local |-> [r \in DrNum |-> 0], control |-> ExactBits]


\* debug_enable_dr and debug_disable_dr; a number that is none changes nothing.
DebugEnableDr(d, reg, addr, type, len) ==
  IF reg \notin DrNum THEN d
  ELSE [local   |-> [d.local EXCEPT ![reg] = addr],
        control |-> (d.control \ Field(reg))
                      \cup {reg * 4 + 16 + b : b \in BitsOf(type)}
                      \cup {reg * 4 + 18 + b : b \in BitsOf(len)}
                      \cup {reg * 2}]

DebugDisableDr(d, reg) ==
  IF reg \notin DrNum THEN d
  ELSE [d EXCEPT !.control = @ \ (Field(reg) \cup {reg * 2})]

\* What debug_list_dr lists.
FieldValue(d, bit) == (IF bit \in d.control THEN 1 ELSE 0) + (IF bit + 1 \in d.control THEN 2 ELSE 0)
DebugListDr(d) ==
  {[reg |-> r, addr |-> d.local[r], type |-> FieldValue(d, r * 4 + 16),
    len |-> FieldValue(d, r * 4 + 18)] : r \in {r \in DrNum : r * 2 \in d.control}}
=============================================================================
