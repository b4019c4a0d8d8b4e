-------------------------------- MODULE CLib ---------------------------------
(***************************************************************************)
(* The C library of the kernel and of the user programs: libs/string.c,    *)
(* the string instructions of libs/x86.h that it is built with, and        *)
(* libs/printfmt.c.                                                        *)
(*                                                                         *)
(* Memory is a sequence of characters, which are their codes; a C string   *)
(* ends with 0.  Offsets count from 0.  A word has W bits, 32 in the code, *)
(* and a long long two words.  The arguments of a format are a sequence of *)
(* words and of strings, the empty sequence standing for NULL.             *)
(***************************************************************************)
EXTENDS Integers, Sequences, Loops

CONSTANT W

ASSUME WAssumption == W \in Nat \ {0}

Byte(m, i) == m[i + 1]
Put(m, i, c) == [m EXCEPT ![i + 1] = c]
Signed(n, bits) == IF n >= 2^(bits - 1) THEN n - 2^bits ELSE n

-----------------------------------------------------------------------------
(* libs/string.c *)

StrLen(s) == Loop(LAMBDA n : Byte(s, n) # 0, LAMBDA n : n + 1, 0, Len(s))

\* A negative length is a size_t that no string reaches.
StrNLen(s, len) ==
  Loop(LAMBDA n : (len < 0 \/ n < len) /\ Byte(s, n) # 0, LAMBDA n : n + 1, 0, Len(s))

\* strncpy of src over the beginning of dst, padded with zeros, not terminated
\* when src has len characters or more.
StrNCpy(dst, src, len) ==
  Loop(LAMBDA st : st.p < len,
       LAMBDA st : [p |-> st.p + 1, s |-> IF Byte(src, st.s) # 0 THEN st.s + 1 ELSE st.s,
                    dst |-> Put(st.dst, st.p, Byte(src, st.s))],
       [p |-> 0, s |-> 0, dst |-> dst], len).dst

\* __strcmp: lodsb and scasb up to the first difference or to the end.
StrCmp(s1, s2) ==
  Of(Loop(LAMBDA i : Byte(s1, i) = Byte(s2, i) /\ Byte(s1, i) # 0, LAMBDA i : i + 1, 0, Len(s1)),
     LAMBDA i : IF Byte(s1, i) = Byte(s2, i) THEN 0
                ELSE IF Byte(s1, i) < Byte(s2, i) THEN -1 ELSE 1)

StrNCmp(s1, s2, n) ==
  Of(Loop(LAMBDA i : i < n /\ Byte(s1, i) # 0 /\ Byte(s1, i) = Byte(s2, i), LAMBDA i : i + 1, 0, n),
     LAMBDA i : IF i = n THEN 0 ELSE Byte(s1, i) - Byte(s2, i))

MemCmp(v1, v2, n) ==
  Of(Loop(LAMBDA i : i < n /\ Byte(v1, i) = Byte(v2, i), LAMBDA i : i + 1, 0, n),
     LAMBDA i : IF i = n THEN 0 ELSE Byte(v1, i) - Byte(v2, i))

\* strfind: the place of c, or of the end; strchr: of c, or NULL, which is -1.
StrFind(s, c) == Loop(LAMBDA i : Byte(s, i) \notin {0, c}, LAMBDA i : i + 1, 0, Len(s))
StrChr(s, c) == Of(StrFind(s, c), LAMBDA i : IF Byte(s, i) = 0 THEN -1 ELSE i)

\* __memcpy: words of four characters, then the rest one at a time.
MemCpy(m, dst, src, n) ==
  Loop(LAMBDA st : st.i < n,
       LAMBDA st : Of(IF n - st.i >= 4 THEN 4 ELSE 1, LAMBDA k :
                        [i |-> st.i + k,
                         m |-> [a \in DOMAIN st.m |->
                                  IF a - 1 - dst \in st.i .. st.i + k - 1
                                  THEN Byte(st.m, a - 1 - dst + src) ELSE st.m[a]]]),
       [i |-> 0, m |-> m], n).m

\* rep movsb with the direction flag set.
MoveDown(m, dst, src, n) ==
  Loop(LAMBDA st : st.i > 0,
       LAMBDA st : [i |-> st.i - 1,
                    m |-> Put(st.m, dst + st.i - 1, Byte(st.m, src + st.i - 1))],
       [i |-> n, m |-> m], n).m

\* A plausible error: the direction does not depend on the overlap.
MemMoveUp(m, dst, src, n) == MemCpy(m, dst, src, n)

MemMove(m, dst, src, n) ==
  IF dst < src THEN MemCpy(m, dst, src, n) ELSE MoveDown(m, dst, src, n)

-----------------------------------------------------------------------------
(* strtol *)

DigitOf(c) ==
  IF c \in 48 .. 57 THEN c - 48
  ELSE IF c \in 97 .. 122 THEN c - 97 + 10
  ELSE IF c \in 65 .. 90 THEN c - 65 + 10
  ELSE 2^W

\* The first character after the prefix, and the base; only a small x is taken.
BasePrefix(s, i, base) ==
  IF base \in {0, 16} /\ Byte(s, i) = 48 /\ Byte(s, i + 1) = 120
  THEN [at |-> i + 2, base |-> 16]
  ELSE IF base # 0 THEN [at |-> i, base |-> base]
  ELSE IF Byte(s, i) = 48 THEN [at |-> i + 1, base |-> 8]
  ELSE [at |-> i, base |-> 10]

\* The value of the digits from p on, modulo the size of a word, and endptr.
ReadDigits(s, p, neg) ==
  Of(Loop(LAMBDA st : DigitOf(Byte(s, st.end)) < p.base,
          LAMBDA st : [end |-> st.end + 1,
                       val |-> (st.val * p.base + DigitOf(Byte(s, st.end))) % 2^W],
          [end |-> p.at, val |-> 0], Len(s)),
     LAMBDA st : [st EXCEPT !.val = IF neg THEN (-@) % 2^W ELSE @])

SkipBlanks(s) == Loop(LAMBDA i : Byte(s, i) \in {9, 32}, LAMBDA i : i + 1, 0, Len(s))

StrToL(s, base) ==
  Of(SkipBlanks(s), LAMBDA i :
     ReadDigits(s, BasePrefix(s, IF Byte(s, i) \in {43, 45} THEN i + 1 ELSE i, base),
                Byte(s, i) = 45))
=============================================================================
