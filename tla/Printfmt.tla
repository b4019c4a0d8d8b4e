------------------------------ MODULE Printfmt -------------------------------
(***************************************************************************)
(* libs/printfmt.c: vprintfmt, which takes a format apart and gives one    *)
(* character after the other to "putch", and vsnprintf.  What vprintfmt    *)
(* prints is the sequence of these characters.  The text of an error of    *)
(* error_string is one character, TextOf(e).                               *)
(***************************************************************************)
EXTENDS CLib

MaxError == 10                          \* MAXERROR of libs/error.h
TextOf(e) == 1000 + e

Null == << >>
Times(c, n) == [i \in 1 .. n |-> c]     \* empty when n is negative
Larger(a, b) == IF a > b THEN a ELSE b
Smaller(a, b) == IF a < b THEN a ELSE b

\* do_div divides two words by one: the high word first, then its remainder with
\* the low word.  divl traps when the quotient does not fit into a word.
DoDiv(n, base) ==
  LET high == n \div 2^W
      rest == (IF high = 0 THEN high ELSE high % base) * 2^W + (n % 2^W)
      low  == rest \div base
  IN  [quot |-> (high \div base) * 2^W + low, mod |-> rest % base, trap |-> low >= 2^W]

DigitChar(d) == IF d < 10 THEN 48 + d ELSE 97 + d - 10

\* printnum calls itself for the digits before the last one, with the width that
\* is left for them; the padding goes in front of the first digit.
PrintNum(num, base, width, padc) ==
  Of(Loop(LAMBDA st : st.num >= base,
          LAMBDA st : [num |-> DoDiv(st.num, base).quot, width |-> st.width - 1,
                       out |-> <<DigitChar(DoDiv(st.num, base).mod)>> \o st.out],
          [num |-> num, width |-> width, out |-> << >>], 2 * W),
     LAMBDA st : Times(padc, st.width - 1) \o <<DigitChar(st.num)>> \o st.out)

\* getuint and getint: one word, or two for a long long, the low one first.
GetUInt(args, ap, lflag) ==
  IF lflag >= 2 THEN args[ap] + args[ap + 1] * 2^W ELSE args[ap]
GetInt(args, ap, lflag) == Signed(GetUInt(args, ap, lflag), IF lflag >= 2 THEN 2 * W ELSE W)

-----------------------------------------------------------------------------
(* vprintfmt.  st has the place in the format ("at", from 0), the next      *)
(* argument ("ap", from 1), the output, and what was read of an escape.     *)

StartState == [at |-> 0, ap |-> 1, out |-> << >>, mode |-> "text", padc |-> 32,
               width |-> -1, precision |-> -1, lflag |-> 0, alt |-> FALSE]

\* One character outside of an escape.
TextStep(fmt, st) ==
  CASE Byte(fmt, st.at) = 37 ->
         [StartState EXCEPT !.at = st.at + 1, !.ap = st.ap, !.out = st.out, !.mode = "escape"]
    [] Byte(fmt, st.at) = 0 -> [st EXCEPT !.mode = "done"]
    [] OTHER -> [st EXCEPT !.at = @ + 1, !.out = Append(@, Byte(fmt, st.at))]

\* process_precision: the first number is the width, a later one the precision.
ProcessPrecision(st, n) ==
  IF st.width < 0 THEN [st EXCEPT !.width = n, !.precision = -1]
                  ELSE [st EXCEPT !.precision = n]

FieldNumber(fmt, at) ==
  Loop(LAMBDA f : Byte(fmt, f.at) \in 48 .. 57,
       LAMBDA f : [at |-> f.at + 1, n |-> f.n * 10 + Byte(fmt, f.at) - 48],
       [at |-> at, n |-> 0], Len(fmt))

\* case '1' ... '9'
NumberStep(fmt, st) ==
  Of(FieldNumber(fmt, st.at), LAMBDA f : [ProcessPrecision(st, f.n) EXCEPT !.at = f.at])

\* The other flags: - 0 * . # l
FlagStep(args, st, ch) ==
  LET on == [st EXCEPT !.at = @ + 1]
  IN  CASE ch \in {45, 48} -> [on EXCEPT !.padc = ch]
        [] ch = 42  -> [ProcessPrecision(on, Signed(args[st.ap], W)) EXCEPT !.ap = @ + 1]
        [] ch = 46  -> [on EXCEPT !.width = Larger(@, 0)]
        [] ch = 35  -> [on EXCEPT !.alt = TRUE]
        [] ch = 108 -> [on EXCEPT !.lflag = @ + 1]

\* %s: padded on the left unless the flag - was given, then on the right.
PrintString(st, arg) ==
  LET p == IF arg = Null THEN <<40, 110, 117, 108, 108, 41, 0>> ELSE arg
      n == StrNLen(p, st.precision)
      left == IF st.width > 0 /\ st.padc # 45 THEN Larger(st.width - n, 0) ELSE 0
      Shown(c) == IF st.alt /\ c \notin 32 .. 126 THEN 63 ELSE c
  IN  Times(st.padc, left) \o [i \in 1 .. n |-> Shown(p[i])] \o Times(32, st.width - left - n)

\* What a conversion prints.  The negation of a negative number is modulo two words.
PrintSigned(st, n) ==
  IF n < 0 THEN <<45>> \o PrintNum((-n) % 2^(2 * W), 10, st.width, st.padc)
           ELSE PrintNum(n, 10, st.width, st.padc)

\* %e: the sign does not matter; 0 and what is above MAXERROR have no text.  The
\* negation of the smallest int overflows.  In the build it is the number itself, which
\* is not above MAXERROR, and its offset in error_string, four times as much, is 0
\* modulo the size of an address: the entry read is the NULL of error 0.
PrintError(err) ==
  LET e == Signed((IF err < 0 THEN -err ELSE err) % 2^W, W)
  IN  IF e > MaxError \/ e \in {0, -2^(W - 1)}
      THEN <<101, 114, 114, 111, 114, 32>> \o PrintSigned([width |-> -1, padc |-> 32], e)
      ELSE <<TextOf(e)>>

Printed(args, st, ch) ==
  CASE ch = 99  -> <<args[st.ap]>>
    [] ch = 101 -> PrintError(Signed(args[st.ap], W))
    [] ch = 115 -> PrintString(st, args[st.ap])
    [] ch = 100 -> PrintSigned(st, GetInt(args, st.ap, st.lflag))
    [] ch = 117 -> PrintNum(GetUInt(args, st.ap, st.lflag), 10, st.width, st.padc)
    [] ch = 111 -> PrintNum(GetUInt(args, st.ap, st.lflag), 8, st.width, st.padc)
    [] ch = 112 -> <<48, 120>> \o PrintNum(args[st.ap], 16, st.width, st.padc)
    [] ch = 120 -> PrintNum(GetUInt(args, st.ap, st.lflag), 16, st.width, st.padc)
    [] ch = 37  -> <<37>>

WordsTaken(st, ch) ==
  IF ch = 37 THEN 0 ELSE IF ch \in {100, 117, 111, 120} /\ st.lflag >= 2 THEN 2 ELSE 1

\* An unknown conversion: the % is printed and the rest read again as text, from
\* the character after the last %.
Rewind(fmt, st) ==
  [st EXCEPT !.out = Append(@, 37), !.mode = "text",
             !.at = Loop(LAMBDA i : Byte(fmt, i - 1) # 37, LAMBDA i : i - 1, @, Len(fmt))]

EscapeStep(fmt, args, st, ch) ==
  CASE ch \in 49 .. 57 -> NumberStep(fmt, st)
    [] ch \in {45, 48, 42, 46, 35, 108} -> FlagStep(args, st, ch)
    [] ch \in {99, 101, 115, 100, 117, 111, 112, 120, 37} ->
         [st EXCEPT !.at = @ + 1, !.ap = @ + WordsTaken(st, ch), !.mode = "text",
                    !.out = @ \o Printed(args, st, ch)]
    [] OTHER -> Rewind(fmt, st)

VPrintFmt(fmt, args) ==
  Loop(LAMBDA st : st.mode # "done",
       LAMBDA st : IF st.mode = "text" THEN TextStep(fmt, st)
                   ELSE EscapeStep(fmt, args, st, Byte(fmt, st.at)),
       StartState, 3 * Len(fmt)).out

-----------------------------------------------------------------------------
(* vsnprintf: characters that do not fit before the last place of the buffer *)
(* are counted and dropped.                                                  *)

SPrintPutCh(b, ch) ==
  [b EXCEPT !.cnt = @ + 1,
            !.at = IF @ < b.end THEN @ + 1 ELSE @,
            !.mem = IF b.at < b.end THEN Put(@, b.at, ch) ELSE @]

\* The result is -E_INVAL (3) for a buffer without a place for the final 0.
VSNPrintF(mem, size, fmt, args) ==
  IF size = 0 THEN [mem |-> mem, ret |-> -3]
  ELSE Of(VPrintFmt(fmt, args), LAMBDA out :
          Of(Loop(LAMBDA b : b.cnt < Len(out), LAMBDA b : SPrintPutCh(b, out[b.cnt + 1]),
                  [mem |-> mem, at |-> 0, end |-> size - 1, cnt |-> 0], Len(out)),
             LAMBDA b : [mem |-> Put(b.mem, b.at, 0), ret |-> b.cnt]))

-----------------------------------------------------------------------------
(* The reference, over small formats and values. *)

Chars(set, n) == UNION {[1 .. k -> set] : k \in 0 .. n}
Str(set, n) == {Append(s, 0) : s \in Chars(set, n)}
Prefix(s, n) == SubSeq(s, 1, Smaller(n, Len(s)))

\* What is printed in a base is read back by strtol as the same number, to the
\* last character, however wide the field; it is as wide as asked for.
NumbersReadBack ==
  \A base \in {8, 10, 16}, n \in 0 .. 2^(2 * W) - 1 :
    /\ DoDiv(n, base) = [quot |-> n \div base, mod |-> n % base, trap |-> FALSE]
    /\ \A width \in {-1, 1, 4} :
         Of(PrintNum(n, base, width, 48), LAMBDA text :
            /\ Len(text) >= width
            /\ StrToL(Append(text, 0), base) = [end |-> Len(text), val |-> n % 2^W]
            /\ n > 0 /\ width < 2 => text[1] # 48)

\* "%d" and "%lld" print every number, the smallest included, with its sign.
SignsPrinted ==
  \A low, high \in {0, 1, 2^(W - 1) - 1, 2^(W - 1), 2^W - 1} :
    LET long == Signed(low + high * 2^W, 2 * W)
        Text(n) == IF n < 0 THEN <<45>> \o PrintNum(-n, 10, -1, 32) ELSE PrintNum(n, 10, -1, 32)
    IN  /\ VPrintFmt(<<37, 108, 108, 100, 37, 120, 0>>, <<low, high, 1>>) = Append(Text(long), 49)
        /\ VPrintFmt(<<37, 100, 0>>, <<low>>) = Text(Signed(low, W))

\* A format with no known conversion is printed as it stands, also when it ends
\* within an escape.
LiteralPrinted ==
  \A f \in Chars({37, 45, 53, 108, 122}, 4) :
    (\A i \in 1 .. Len(f) - 1 : f[i] = 37 => \E j \in i + 1 .. Len(f) : f[j] = 122
                                             /\ \A k \in i + 1 .. j : f[k] # 37)
      => VPrintFmt(Append(f, 0), << >>) = f

\* %s: at most "precision" characters, in a field of at least "width", on the
\* side the flag says.  (The comment at the head of printfmt.c says that there is a
\* width for the numeric formats only; the code of %s has one.)
StringsPrinted ==
  \A s \in Chars({97, 7}, 3), w \in 1 .. 4, p \in 0 .. 3, side \in {"left", "right"} :
    LET text == Prefix(s, p)
        pad  == Times(32, w - Len(text))
        flag == IF side = "left" THEN <<45>> ELSE << >>
    IN  VPrintFmt(<<37>> \o flag \o <<48 + w, 46, 42, 115, 0>>, <<p, Append(s, 0)>>)
          = IF side = "left" THEN text \o pad ELSE pad \o text

\* A buffer of any size gets as much as fits, terminated, nothing behind its end
\* is touched, and the length of the whole text is returned.
BuffersKept ==
  \A s \in Str({97}, 4), size \in 1 .. 4, err \in {-2^(W - 1), -9, 0, 11} :
    LET fmt == <<37, 115, 37, 101, 0>>
        arg == <<s, err % 2^W>>
        all == VPrintFmt(fmt, arg)
    IN  VSNPrintF(Times(1, 6), size, fmt, arg)
          = [ret |-> Len(all),
             mem |-> Prefix(all, size - 1) \o <<0>> \o Times(1, 6 - 1 - Smaller(Len(all), size - 1))]

\* "so that -E_NO_MEM and E_NO_MEM are equivalent": %e prints the text of an error, or
\* "error" and a number that %d reads back, whichever sign the error was given.
ErrorsPrinted ==
  \A e \in 1 .. 2^(W - 1) :
    LET Text(n) == VPrintFmt(<<37, 101, 0>>, <<n % 2^W>>)
    IN  /\ Text(e) = Text(-e)
        /\ Text(-e) = IF e <= MaxError THEN <<TextOf(e)>>
                      ELSE VPrintFmt(<<101, 114, 114, 111, 114, 32, 37, 100, 0>>, <<e % 2^W>>)

PrintSound == /\ NumbersReadBack /\ SignsPrinted /\ ErrorsPrinted /\ LiteralPrinted
              /\ StringsPrinted /\ BuffersKept

\* The string functions against what they promise: also for strings that are
\* prefixes of each other, counts that end within them, and blocks that overlap.
FirstDiff(s, t, i) == s[i] # t[i] /\ \A j \in 1 .. i - 1 : s[j] = t[j]
StringsSound ==
  /\ \A s, t \in Str({97, 98}, 3) :
       LET common == 1 .. Smaller(Len(s), Len(t))
       IN  /\ StrCmp(s, t) < 0 <=> \E i \in common : FirstDiff(s, t, i) /\ s[i] < t[i]
           /\ StrCmp(s, t) = 0 <=> s = t
           /\ \A n \in 0 .. Smaller(Len(s), Len(t)) :
                MemCmp(s, t, n) = 0 <=> SubSeq(s, 1, n) = SubSeq(t, 1, n)
           /\ \A n \in 0 .. 4 :
                StrNCmp(s, t, n) > 0 <=> \E i \in common : i <= n /\ FirstDiff(s, t, i) /\ s[i] > t[i]
  /\ \A s \in Str({97, 98}, 3), n \in 0 .. 5 :
       /\ StrNLen(s, n) = Smaller(Len(s) - 1, n)
       /\ StrNCpy(Times(7, 5), s, n) = Prefix(s, n) \o Times(0, n - Len(s)) \o Times(7, 5 - n)
       /\ StrChr(s, 98) \in {i - 1 : i \in {i \in DOMAIN s : s[i] = 98}} \cup {-1}
       /\ StrChr(s, 98) = -1 <=> \A i \in DOMAIN s : s[i] # 98
       /\ \A i \in 1 .. StrFind(s, 98) : s[i] \notin {0, 98}
  /\ \A dst, src \in 0 .. 8, n \in 0 .. 8 : dst + n <= 9 /\ src + n <= 9 =>
       MemMove([a \in 1 .. 9 |-> a], dst, src, n)
         = [a \in 1 .. 9 |-> IF a - 1 \in dst .. dst + n - 1 THEN a - dst + src ELSE a]
=============================================================================
