------------------------------ MODULE Console --------------------------------
(***************************************************************************)
(* kern/driver/console.c, kern/libs/readline.c and stdio.c: the keyboard   *)
(* and the serial port, the ring of characters they fill, the screen and   *)
(* the serial terminal, and the line that readline collects.               *)
(*                                                                         *)
(* A character is its code.  The keyboard controller holds the bytes of    *)
(* one key event, of which a poll finds as many as have arrived, and the   *)
(* serial port one byte.  Every byte raises an interrupt of its line.      *)
(***************************************************************************)
EXTENDS Integers, Sequences, SequencesExt, FiniteSets, TLC

CONSTANTS
  ConsBufSize,     \* CONSBUFSIZE
  BufSize,         \* BUFSIZE of readline
  Cols, Rows,      \* CRT_COLS, CRT_ROWS
  Key,             \* the keys: scan codes, 128 + the code for those with an E0 in front
  SerialByte       \* what comes over the serial line

ASSUME ConsoleAssumption ==
  /\ ConsBufSize \in Nat \ {0} /\ BufSize \in Nat \ {0}
  /\ Cols \in Nat \ {0} /\ Rows \in Nat \ {0}
  /\ Key \subseteq 1 .. 255 \ {211}             \* not Del, for Ctrl-Alt-Del: Resets
  /\ {96, 224} \cap Key = {}                    \* 96 + 128, a release, is the prefix E0
  /\ SerialByte \subseteq 0 .. 255

VARIABLES
  kbd,             \* bytes of the key event that the controller still has
  com,             \* bytes in the receiver of the serial port
  irq,             \* interrupts that are raised and not yet served
  down,            \* the keys of shiftcode that are held
  shift,           \* the static variable of kbd_proc_data, as the set of its bits
  ring,            \* cons: buf, rpos and wpos; cells that are not to be read are 0
  unread           \* what was stored and not yet read, in order (for the properties)

consVars == <<kbd, com, irq, down, shift, ring, unread>>

-----------------------------------------------------------------------------
(* The keyboard *)

shiftcode(data) ==
  CASE data \in {29, 157} -> {"CTL"}
    [] data \in {42, 54}  -> {"SHIFT"}
    [] data \in {56, 184} -> {"ALT"}
    [] OTHER -> {}

togglecode(data) ==
  CASE data = 58 -> {"CAPSLOCK"}
    [] data = 69 -> {"NUMLOCK"}
    [] data = 70 -> {"SCROLLLOCK"}
    [] OTHER -> {}

NormalRow ==
  <<0, 27, 49, 50, 51, 52, 53, 54,  55, 56, 57, 48, 45, 61, 8, 9,
    113, 119, 101, 114, 116, 121, 117, 105,  111, 112, 91, 93, 10, 0, 97, 115,
    100, 102, 103, 104, 106, 107, 108, 59,  39, 96, 0, 92, 122, 120, 99, 118,
    98, 110, 109, 44, 46, 47, 0, 42,  0, 32, 0, 0, 0, 0, 0, 0,
    0, 0, 0, 0, 0, 0, 0, 55,  56, 57, 45, 52, 53, 54, 43, 49,  50, 51, 48, 46>>

ShiftRow ==
  <<0, 27, 33, 64, 35, 36, 37, 94,  38, 42, 40, 41, 95, 43, 8, 9,
    81, 87, 69, 82, 84, 89, 85, 73,  79, 80, 123, 125, 10, 0, 65, 83,
    68, 70, 71, 72, 74, 75, 76, 58,  34, 126, 0, 124, 90, 88, 67, 86,
    66, 78, 77, 60, 62, 63, 0, 42,  0, 32, 0, 0, 0, 0, 0, 0,
    0, 0, 0, 0, 0, 0, 0, 55,  56, 57, 45, 52, 53, 54, 43, 49,  50, 51, 48, 46>>

CtlRow ==
  <<0, 0, 0, 0, 0, 0, 0, 0,  0, 0, 0, 0, 0, 0, 0, 0,
    17, 23, 5, 18, 20, 25, 21, 9,  15, 16, 0, 0, 13, 0, 1, 19,
    4, 6, 7, 8, 10, 11, 12, 0,  0, 0, 0, 28, 26, 24, 3, 22,
    2, 14, 13, 0, 0, 239, 0, 0>>

\* KEY_UP, KEY_PGUP, KEY_LF, KEY_RT, KEY_END, KEY_DN, KEY_PGDN, KEY_INS, KEY_DEL
Extended == (200 :> 226) @@ (201 :> 230) @@ (203 :> 228) @@ (205 :> 229) @@ (207 :> 225)
              @@ (208 :> 227) @@ (209 :> 231) @@ (210 :> 232) @@ (211 :> 233)
Numeric == (199 :> 224) @@ (156 :> 10) @@ (181 :> 47)      \* KEY_HOME, KP_Enter, KP_Div
CtlNumeric == (151 :> 224) @@ (181 :> 239)

Mapped(row, more, data) ==
  CASE data < Len(row) -> row[data + 1]
    [] data \in DOMAIN more -> more[data]
    [] OTHER -> 0

\* charcode: with CTL the shift key makes no difference.
charcode(bits, data) ==
  CASE "CTL" \in bits   -> Mapped(CtlRow, CtlNumeric @@ Extended, data)
    [] "SHIFT" \in bits -> Mapped(ShiftRow, Numeric @@ Extended, data)
    [] OTHER            -> Mapped(NormalRow, Numeric @@ Extended, data)

Capitals(c) ==
  CASE c \in 97 .. 122 -> c - 32
    [] c \in 65 .. 90  -> c + 32
    [] OTHER -> c

\* A key was pressed: the bits and the character, 0 if there is none.
Pressed(bits, data) ==
  LET toggled == bits \cup shiftcode(data)
      now == (toggled \ togglecode(data)) \cup (togglecode(data) \ toggled)
      c == charcode(now, data)
  IN  [shift |-> now, c |-> IF "CAPSLOCK" \in now THEN Capitals(c) ELSE c]

\* A plausible error: the release of a key leaves the escape in force.
KbdProcDataKeepsEscape(bits, data) ==
  IF data = 224 THEN [shift |-> bits \cup {"E0ESC"}, c |-> 0]
  ELSE IF data >= 128
  THEN [shift |-> bits \ shiftcode(IF "E0ESC" \in bits THEN data ELSE data - 128), c |-> 0]
  ELSE IF "E0ESC" \in bits THEN Pressed(bits \ {"E0ESC"}, data + 128)
  ELSE Pressed(bits, data)

\* kbd_proc_data for the byte data.
KbdProcData(bits, data) ==
  IF data = 224 THEN [shift |-> bits \cup {"E0ESC"}, c |-> 0]
  ELSE IF data >= 128
  THEN [shift |-> bits \ (shiftcode(IF "E0ESC" \in bits THEN data ELSE data - 128)
                            \cup {"E0ESC"}), c |-> 0]
  ELSE IF "E0ESC" \in bits THEN Pressed(bits \ {"E0ESC"}, data + 128)
  ELSE Pressed(bits, data)

\* Ctrl-Alt-Del writes to port 0x92, which resets the machine.
Resets(bits, c) == {"CTL", "ALT"} \subseteq bits /\ c = 233

-----------------------------------------------------------------------------
(* The ring.  d has the ring, the unread characters and the shift bits. *)

Wrapped(pos) == IF pos + 1 = ConsBufSize THEN 0 ELSE pos + 1
NoCells == [i \in 0 .. ConsBufSize - 1 |-> 0]

\* A plausible error: the position for writing turns one cell too early.
StoreTurnsEarly(d, c) ==
  IF c = 0 THEN d
  ELSE LET next == IF d.ring.wpos + 2 >= ConsBufSize THEN 0 ELSE d.ring.wpos + 1
           all  == Append(d.unread, c)
       IN  [d EXCEPT
              !.ring.wpos = next,
              !.ring.buf = IF next = d.ring.rpos THEN NoCells ELSE [@ EXCEPT ![d.ring.wpos] = c],
              !.unread = IF Len(all) = ConsBufSize THEN << >> ELSE all]

\* The body of the loop of cons_intr.  A character stored into the last free cell
\* makes the positions equal: the ring counts as empty.
Store(d, c) ==
  IF c = 0 THEN d
  ELSE LET next == Wrapped(d.ring.wpos)
           all  == Append(d.unread, c)
       IN  [d EXCEPT
              !.ring.wpos = next,
              !.ring.buf = IF next = d.ring.rpos THEN NoCells ELSE [@ EXCEPT ![d.ring.wpos] = c],
              !.unread = IF Len(all) = ConsBufSize THEN << >> ELSE all]

\* serial_proc_data
SerialProcData(b) == IF b = 127 THEN 8 ELSE b

StoreKey(d, data) ==
  LET k == KbdProcData(d.shift, data)
  IN  [Store(d, k.c) EXCEPT !.shift = k.shift]

\* serial_intr, then kbd_intr, which finds n bytes.
Drained(n) ==
  FoldLeft(StoreKey,
           FoldLeft(LAMBDA d, b : Store(d, SerialProcData(b)),
                    [ring |-> ring, unread |-> unread, shift |-> shift], com),
           SubSeq(kbd, 1, n))

\* The next character, 0 if there is none.
Taken(d) ==
  IF d.ring.rpos = d.ring.wpos THEN [d |-> d, c |-> 0]
  ELSE [d |-> [d EXCEPT !.ring.rpos = Wrapped(@),
                        !.ring.buf = [@ EXCEPT ![d.ring.rpos] = 0],
                        !.unread = Tail(@)],
        c |-> d.ring.buf[d.ring.rpos]]

\* How many bytes of the key event a poll may find.
Arrived == IF kbd = << >> THEN {0} ELSE 1 .. Len(kbd)

\* cons_getc with the result got; "served" are the interrupts it is called for.
\* The second byte of a key event raises an interrupt when the first is read.
ConsGetC(n, got, served) ==
  /\ ring' = got.d.ring /\ unread' = got.d.unread /\ shift' = got.d.shift
  /\ com' = << >>
  /\ kbd' = SubSeq(kbd, n + 1, Len(kbd))
  /\ irq' = (irq \ served) \cup (IF n > 0 /\ Len(kbd) = 2 THEN {"kbd"} ELSE {})
  /\ UNCHANGED down

Live(r) == [i \in 1 .. (r.wpos - r.rpos) % ConsBufSize |-> r.buf[(r.rpos + i - 1) % ConsBufSize]]

ConsInit ==
  /\ kbd = << >> /\ com = << >> /\ irq = {} /\ down = {} /\ shift = {}
  /\ ring = [buf |-> NoCells, rpos |-> 0, wpos |-> 0] /\ unread = << >>

\* A key is pressed, again and again while it is held, or released.
KeyEvent(k, release) ==
  /\ kbd = << >>
  /\ release /\ shiftcode(k) # {} => k \in down
  /\ kbd' = (IF k >= 128 THEN <<224>> ELSE << >>) \o <<(k % 128) + (IF release THEN 128 ELSE 0)>>
  /\ down' = IF shiftcode(k) = {} THEN down ELSE IF release THEN down \ {k} ELSE down \cup {k}
  /\ irq' = irq \cup {"kbd"}
  /\ UNCHANGED <<com, shift, ring, unread>>

SerialArrives(b) ==
  /\ com = << >>
  /\ com' = <<b>> /\ irq' = irq \cup {"com"}
  /\ UNCHANGED <<kbd, down, shift, ring, unread>>

-----------------------------------------------------------------------------
(* Output *)

CrtSize == Rows * Cols

Scrolled(s) ==
  IF s.pos < CrtSize THEN s
  ELSE [cells |-> [i \in 0 .. CrtSize - 1 |->
                     IF i < CrtSize - Cols THEN s.cells[i + Cols] ELSE 32],
        pos |-> s.pos - Cols]

\* cga_putc
CgaPutC(s, c) ==
  Scrolled(
    CASE c = 8 /\ s.pos > 0 -> [cells |-> [s.cells EXCEPT ![s.pos - 1] = 32], pos |-> s.pos - 1]
      [] c = 8 /\ s.pos = 0 -> s
      [] c = 10 -> [s EXCEPT !.pos = @ + Cols - (@ % Cols)]
      [] c = 13 -> [s EXCEPT !.pos = @ - (@ % Cols)]
      [] OTHER  -> [cells |-> [s.cells EXCEPT ![s.pos] = c], pos |-> s.pos + 1])

\* serial_putc and lpt_putc: a terminal does not erase by itself.
SerialPutC(out, c) == out \o (IF c = 8 THEN <<8, 32, 8>> ELSE <<c>>)

\* A plausible error: a backspace is echoed although the line is empty.
ReadLineErasesPrompt(line, c) ==
  CASE c >= 32 /\ Len(line) < BufSize - 1 -> [line |-> Append(line, c), echo |-> <<c>>, end |-> FALSE]
    [] c = 8 -> [line |-> IF line = << >> THEN line ELSE Front(line), echo |-> <<c>>, end |-> FALSE]
    [] c \in {10, 13} -> [line |-> line, echo |-> <<c>>, end |-> TRUE]
    [] OTHER -> [line |-> line, echo |-> << >>, end |-> FALSE]

\* The loop of readline for the character c: the line, and what is echoed.
ReadLine(line, c) ==
  CASE c >= 32 /\ Len(line) < BufSize - 1 -> [line |-> Append(line, c), echo |-> <<c>>, end |-> FALSE]
    [] c = 8 /\ Len(line) > 0 -> [line |-> Front(line), echo |-> <<c>>, end |-> FALSE]
    [] c \in {10, 13} -> [line |-> line, echo |-> <<c>>, end |-> TRUE]
    [] OTHER -> [line |-> line, echo |-> << >>, end |-> FALSE]
=============================================================================
