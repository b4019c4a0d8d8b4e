------------------------------ MODULE MCMonitor ------------------------------
(***************************************************************************)
(* Monitor for model checking, and the functions it is built from against  *)
(* what they promise, over small inputs.                                   *)
(***************************************************************************)
EXTENDS Monitor

\* Keys: right control, with an E0 in front, and m; with control m is a return.
MCKey == {157, 50}

\* "m" continues, "c" steps, "mm" sets a breakpoint in register 0, "cc" deletes it.
MCCommand ==
  (<<109, 0>> :> [do |-> "continue", argv |-> << >>])
    @@ (<<99, 0>> :> [do |-> "step", argv |-> << >>])
    @@ (<<109, 109, 0>> :> [do |-> "break", argv |-> <<<<45, 114, 48, 0>>, <<49, 0>>>>])
    @@ (<<99, 99, 0>> :> [do |-> "delete", argv |-> <<<<48, 0>>>>])

-----------------------------------------------------------------------------
(* The keyboard *)

\* With shift and with caps lock a letter is its capital, with both it is not, with
\* control it is its number; only Ctrl-Alt-Del resets.
KeymapsSound ==
  /\ \A data \in {d \in 0 .. 255 : charcode({}, d) \in 97 .. 122} :
       LET c == charcode({}, data)
       IN  /\ Pressed({"SHIFT"}, data).c = c - 32
           /\ Pressed({"CAPSLOCK"}, data).c = c - 32
           /\ Pressed({"SHIFT", "CAPSLOCK"}, data).c = c
           /\ Pressed({"CTL", "SHIFT"}, data).c = c - 96
  /\ \A data \in 0 .. 255, bits \in SUBSET {"CTL", "ALT", "SHIFT", "CAPSLOCK"} :
       LET k == Pressed(bits, data)
       IN  Resets(k.shift, k.c) <=> data = 211 /\ {"CTL", "ALT"} \subseteq bits

-----------------------------------------------------------------------------
(* Screen, terminal and line *)

\* A terminal on the serial line: a backspace only moves the cursor.
TermStep(t, c) ==
  IF c = 8 THEN [t EXCEPT !.cur = IF @ > 0 THEN @ - 1 ELSE 0]
  ELSE [text |-> SubSeq(t.text, 1, t.cur) \o <<c>> \o SubSeq(t.text, t.cur + 2, Len(t.text)),
        cur |-> t.cur + 1]

Echoed(s, c) ==
  LET r == ReadLine(s.line, c)
  IN  [line   |-> r.line,
       screen |-> FoldLeft(CgaPutC, s.screen, r.echo),
       term   |-> FoldLeft(TermStep, s.term, FoldLeft(SerialPutC, << >>, r.echo))]

Prompted(pos) ==
  [line   |-> << >>,
   screen |-> CgaPutC([cells |-> [i \in 0 .. CrtSize - 1 |-> 46], pos |-> pos], 62),
   term   |-> [text |-> <<62>>, cur |-> 1]]

\* Whatever is typed and erased, wherever on the screen, what stands before the
\* cursor is the prompt and the line, on the screen and on the terminal.
EchoSound ==
  \A pos \in 0 .. CrtSize - 1, typed \in Chars({97, 98, 8, 7}, 4) :
    LET s == FoldLeft(Echoed, Prompted(pos), typed)
        shown == <<62>> \o s.line
    IN  /\ s.screen.pos \in Len(shown) .. CrtSize - 1
        /\ \A i \in 1 .. Len(shown) : s.screen.cells[s.screen.pos - Len(shown) + i - 1] = shown[i]
        /\ SubSeq(s.term.text, 1, s.term.cur) = shown
        /\ \A i \in s.term.cur + 1 .. Len(s.term.text) : s.term.text[i] = 32

\* readline echoes what it stores: on the screen of cga_putc and on a terminal behind
\* serial_putc the user sees the line that runcmd will get, through backspaces, full
\* buffers and scrolling, and no control character is ever part of it.
EchoExact == EchoSound /\ (mode = "run" \/ \A i \in 1 .. Len(line) : line[i] >= 32)

-----------------------------------------------------------------------------
(* Command lines and the library *)

White(c) == c \in {32, 9, 10, 13}

\* parse finds the words of a line.
ParseSound ==
  \A s \in Chars({97, 98, 32, 9}, 4) :
    LET argv == Parse(Append(s, 0))
    IN  /\ Len(argv) = Cardinality({i \in DOMAIN s : ~White(s[i]) /\ (i = 1 \/ White(s[i - 1]))})
        /\ FlattenSeq([i \in DOMAIN argv |-> Front(argv[i])]) = SelectSeq(s, LAMBDA c : ~White(c))
        /\ \A i \in DOMAIN argv : Len(argv[i]) > 1 /\ Last(argv[i]) = 0

-----------------------------------------------------------------------------
(* The debugger *)

\* A sequence of settings and deletions leaves listed what was set last.
DrOps == [do : {"set"}, reg : {0, 3}, type : {0, 1, 3}, len : {0, 3}]
           \cup [do : {"delete"}, reg : {0, 3}, type : {0}, len : {0}]

RegistersSound ==
  \A ops \in [1 .. 3 -> DrOps] :
    LET Last3(r) == {i \in 1 .. 3 : ops[i].reg = r /\ \A j \in i + 1 .. 3 : ops[j].reg # r}
        final == FoldLeft(LAMBDA d, op : IF op.do = "set"
                                         THEN DebugEnableDr(d, op.reg, 1, op.type, op.len)
                                         ELSE DebugDisableDr(d, op.reg), DrInit, ops)
    IN  DebugListDr(final) =
          {[reg |-> ops[i].reg, addr |-> 1, type |-> ops[i].type, len |-> ops[i].len] :
             i \in {i \in Last3(0) \cup Last3(3) : ops[i].do = "set"}}

\* -r0, -r4, -ta, -l2, 1f, 1g
Words == {<<45, 114, 48, 0>>, <<45, 114, 52, 0>>, <<45, 116, 97, 0>>, <<45, 108, 50, 0>>,
          <<49, 102, 0>>, <<49, 103, 0>>}
BadWords == {<<45, 114, 52, 0>>, <<49, 103, 0>>}

\* A watchpoint or breakpoint is set exactly when every argument is understood, a
\* register and an address are given, as the arguments say.
ArgumentsSound ==
  \A argv \in Chars(Words, 3) :
    LET given == Range(argv)
        right == given \cap BadWords = {} /\ {<<45, 114, 48, 0>>, <<49, 102, 0>>} \subseteq given
        Set(type, len) == {DebugEnableDr(DrInit, 0, 31, type, len)}
    IN  /\ right => MonWatchpoint(DrInit, argv)
                      = Set(IF <<45, 116, 97, 0>> \in given THEN 3 ELSE 1,
                            IF <<45, 108, 50, 0>> \in given THEN 1 ELSE 3)
        /\ given \cap BadWords # {} => MonWatchpoint(DrInit, argv) = {DrInit}
        /\ right /\ Len(argv) = 2 => MonBreakpoint(DrInit, argv) = Set(0, 3)

\* stab_binsearch finds the last entry of the type at or below the address, and the
\* end of its region.  After an exact match the search goes on for addr + 1 and takes
\* an entry there, if it meets one, for a match too, and so on: the result is for an
\* address of Reached.  With all entries above the address it returns what is before
\* the first, as if it were a region of the type; with no entry the region is empty.
\* (The comment of the function promises an empty one in both cases.)
Reached(values, addr) ==
  {addr} \cup {v \in addr + 1 .. addr + 4 : addr .. v \subseteq values}

StabSearchSound ==
  \A stabs \in [1 .. 4 -> [type : {"SO", "FUN"}, value : {0, 1, 3}]], addr \in 0 .. 4 :
    LET of == {i \in 1 .. 4 : stabs[i].type = "SO"}
        Region(low) ==
          LET end == IF of = low THEN 3 ELSE Min(of \ low) - 2
          IN  CASE of = {}  -> [left |-> 0, right |-> -1]
                [] low = {} -> [left |-> Smaller(end, 0), right |-> end]
                [] OTHER    -> [left |-> Max(low) - 1, right |-> end]
    IN  (\A i, j \in of : i < j => stabs[i].value <= stabs[j].value) =>
          \E v \in Reached({stabs[i].value : i \in of}, addr) :
            StabBinSearch(stabs, 0, 3, "SO", addr) = Region({i \in of : stabs[i].value <= v})

\* A function at "at" with k parameters and lines at its first and its third address.
Fun(at, k) ==
  <<[type |-> "FUN", value |-> at, desc |-> 0, strx |-> at]>>
    \o [i \in 1 .. k |-> [type |-> "PSYM", value |-> 0, desc |-> 0, strx |-> 0]]
    \o [i \in 1 .. 2 |-> [type |-> "SLINE", value |-> 2 * i - 2, desc |-> 10 * at + i, strx |-> 0]]
Source(at) == <<[type |-> "SO", value |-> at, desc |-> 0, strx |-> 20 + at]>>

\* For the table of two files with three functions every address is found in the
\* right function, file and line, with the number of parameters.
DebugInfoSound ==
  \A k1, k2, k3 \in 0 .. 2, addr \in 4 .. 15 :
    LET t == [readable |-> TRUE, strsize |-> 99,
              stabs |-> <<[type |-> "UNDF", value |-> 0, desc |-> 0, strx |-> 0]>>
                          \o Source(4) \o Fun(4, k1) \o Fun(8, k2) \o Source(12) \o Fun(12, k3)]
        at == 4 * (addr \div 4)
    IN  DebugInfoEip(t, addr) =
          [found |-> TRUE, file |-> IF addr < 12 THEN 24 ELSE 32, fn |-> at, fnAddr |-> at,
           line |-> 10 * at + (IF addr < at + 2 THEN 1 ELSE 2),
           narg |-> IF at = 4 THEN k1 ELSE IF at = 8 THEN k2 ELSE k3]

-----------------------------------------------------------------------------
\* The functions of string.c and vprintfmt do what they promise, over overlapping
\* memory, numbers at both ends of a word and formats that break off (StringsSound,
\* PrintSound); parse and runcmd, which are made of them, find the words and the
\* command that were typed and no other, and the tables of kbd_proc_data give the
\* right characters (KeymapsSound).
LibraryExact ==
  /\ PrintSound /\ StringsSound /\ ParseSound /\ KeymapsSound
  /\ \A word \in {Append(line, 0)} : Found(word) = {word} \cap DOMAIN Command


=============================================================================
