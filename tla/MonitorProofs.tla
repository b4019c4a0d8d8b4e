---------------------------- MODULE MonitorProofs ----------------------------
(***************************************************************************)
(* TLAPS proofs about modules Console and Monitor, for every size of the   *)
(* ring and of the line, every set of keys and every table of commands:    *)
(* the ring gives back what was stored, the shift state follows the keys,  *)
(* and the debug registers are armed outside of the debugger and survive   *)
(* every order of traps, steps and switches.                               *)
(*                                                                         *)
(* MonInv is the inductive invariant.  Of the shift state it says where it *)
(* will be when the rest of the key event has been read (After), since a   *)
(* poll may find one byte of two.  The characters are kept abstract: Chr   *)
(* is the set of those that the keyboard and the serial port can give.     *)
(***************************************************************************)
EXTENDS Monitor, InductionLemmas, SequenceTheorems

-----------------------------------------------------------------------------
(* Positions on the ring *)

N == ConsBufSize

\* A difference or a sum of two positions, taken modulo the size of the ring.
LEMMA Mods ==
  ASSUME NEW n \in Nat \ {0}, NEW a \in Int, -n < a, a < 2 * n
  PROVE  a % n = IF a < 0 THEN a + n ELSE IF a < n THEN a ELSE a - n
OBVIOUS

\* How many cells the ring r has to read, and the cell of the i-th of them.
Distance(p, w) == IF w >= p THEN w - p ELSE w - p + N
Onward(p, k) == IF p + k < N THEN p + k ELSE p + k - N
Count(r) == Distance(r.rpos, r.wpos)
Cell(r, i) == Onward(r.rpos, i - 1)

\* A ring whose cells hold members of S.
RingOf(S) == [buf : [0 .. N - 1 -> S], rpos : 0 .. N - 1, wpos : 0 .. N - 1]

LEMMA NFact == N \in Nat \ {0}
BY ConsoleAssumption DEF N

\* Positions on the ring: all of it is arithmetic of p, w in 0 .. N - 1.
LEMMA Positions ==
  ASSUME NEW p \in 0 .. N - 1, NEW w \in 0 .. N - 1
  PROVE  /\ Distance(p, w) \in 0 .. N - 1 /\ (w - p) % N = Distance(p, w)
         /\ \A k \in 0 .. N - 1 : Onward(p, k) \in 0 .. N - 1 /\ (p + k) % N = Onward(p, k)
         /\ Wrapped(p) \in 0 .. N - 1
<1>0. N \in Nat \ {0} /\ p \in Int /\ w \in Int /\ 0 <= p /\ p < N /\ 0 <= w /\ w < N
  BY NFact
<1>1. Distance(p, w) \in 0 .. N - 1 /\ (w - p) % N = Distance(p, w)
  <2>1. w - p \in Int /\ -N < w - p /\ w - p < 2 * N /\ w - p < N
    BY <1>0
  <2>2. (w - p) % N = IF w - p < 0 THEN w - p + N ELSE w - p
    BY <1>0, <2>1, Mods
  <2> QED
    BY <1>0, <2>2 DEF Distance
<1>2. ASSUME NEW k \in 0 .. N - 1
      PROVE  Onward(p, k) \in 0 .. N - 1 /\ (p + k) % N = Onward(p, k)
  <2>1. p + k \in Int /\ -N < p + k /\ p + k < 2 * N /\ ~(p + k < 0)
    BY <1>0
  <2> DEFINE a == p + k
  <2> HIDE DEF a
  <2>2. a \in Int /\ -N < a /\ a < 2 * N /\ ~(a < 0)
    BY <2>1 DEF a
  <2>3. a % N = IF a < 0 THEN a + N ELSE IF a < N THEN a ELSE a - N
    BY <1>0, <2>2, Mods
  <2> QED
    BY <1>0, <2>2, <2>3 DEF Onward, a
<1>3. Wrapped(p) \in 0 .. N - 1
  BY <1>0 DEF Wrapped, N
<1> QED
  BY <1>1, <1>2, <1>3

\* What the ring has to read: as many cells as the positions are apart.
LEMMA LiveCells ==
  ASSUME NEW S, NEW r \in RingOf(S)
  PROVE  /\ Count(r) \in 0 .. N - 1
         /\ \A i \in 1 .. Count(r) : Cell(r, i) \in 0 .. N - 1
         /\ Live(r) = [i \in 1 .. Count(r) |-> r.buf[Cell(r, i)]]
         /\ Live(r) \in Seq(S) /\ Len(Live(r)) = Count(r)
<1>0. r.rpos \in 0 .. N - 1 /\ r.wpos \in 0 .. N - 1 /\ r.buf \in [0 .. N - 1 -> S]
  BY DEF RingOf
<1>1. Count(r) \in 0 .. N - 1 /\ (r.wpos - r.rpos) % N = Count(r)
  BY <1>0, Positions DEF Count
<1>3. \A i \in 1 .. Count(r) : (r.rpos + i - 1) % N = Cell(r, i) /\ Cell(r, i) \in 0 .. N - 1
  <2> TAKE i \in 1 .. Count(r)
  <2>1. i - 1 \in 0 .. N - 1 /\ r.rpos + i - 1 = r.rpos + (i - 1)
    BY <1>0, <1>1, NFact
  <2> QED
    BY <1>0, <2>1, Positions DEF Cell
<1>4. Live(r) = [i \in 1 .. Count(r) |-> r.buf[Cell(r, i)]]
  BY <1>1, <1>3 DEF Live, N
<1>5. Live(r) \in [1 .. Count(r) -> S]
  BY <1>0, <1>3, <1>4
<1>6. Live(r) \in Seq(S) /\ Len(Live(r)) = Count(r)
  BY <1>1, <1>5
<1> QED
  BY <1>1, <1>3, <1>4, <1>6

\* What the interrupt handlers work on: the ring, the unread characters, the bits.
Bits == {"CTL", "SHIFT", "ALT", "CAPSLOCK", "NUMLOCK", "SCROLLLOCK", "E0ESC"}
DataOf(S) == [ring : RingOf(S), unread : Seq(S), shift : SUBSET Bits]

\* Storing moves the end away by one, until it meets the beginning.
LEMMA Advance ==
  ASSUME NEW p \in 0 .. N - 1, NEW w \in 0 .. N - 1
  PROVE  /\ Wrapped(w) = p => Distance(p, Wrapped(w)) = 0 /\ Distance(p, w) + 1 = N
         /\ Wrapped(w) # p => /\ Distance(p, Wrapped(w)) = Distance(p, w) + 1
                              /\ Distance(p, w) + 1 # N
         /\ Onward(p, Distance(p, w)) = w
         /\ \A k \in 0 .. Distance(p, w) - 1 : Onward(p, k) # w
<1>0. N \in Nat \ {0} /\ p \in Int /\ w \in Int /\ 0 <= p /\ p < N /\ 0 <= w /\ w < N
  BY NFact
<1>1. Wrapped(w) = IF w + 1 = N THEN 0 ELSE w + 1
  BY DEF Wrapped, N
<1>2. CASE w >= p
  <2>1. Distance(p, w) = w - p
    BY <1>2 DEF Distance
  <2> QED
    BY <1>0, <1>1, <1>2, <2>1 DEF Distance, Onward
<1>3. CASE w < p
  <2>1. Distance(p, w) = w - p + N
    BY <1>0, <1>3 DEF Distance
  <2> QED
    BY <1>0, <1>1, <1>3, <2>1 DEF Distance, Onward
<1> QED
  BY <1>0, <1>2, <1>3

StoredRing(r, c) ==
  [buf |-> IF Wrapped(r.wpos) = r.rpos THEN NoCells ELSE [r.buf EXCEPT ![r.wpos] = c],
   rpos |-> r.rpos, wpos |-> Wrapped(r.wpos)]

\* A character stored is the last to be read, or it makes the ring count as empty.
LEMMA StoredRingExact ==
  ASSUME NEW S, 0 \in S, NEW c \in S, NEW r \in RingOf(S)
  PROVE  /\ StoredRing(r, c) \in RingOf(S)
         /\ Live(StoredRing(r, c)) = IF Count(r) + 1 = N THEN << >> ELSE Append(Live(r), c)
<1> DEFINE q == StoredRing(r, c)
<1>0. r.rpos \in 0 .. N - 1 /\ r.wpos \in 0 .. N - 1 /\ r.buf \in [0 .. N - 1 -> S]
  BY DEF RingOf
<1>1. Wrapped(r.wpos) \in 0 .. N - 1
  BY <1>0, Positions
<1>2. NoCells \in [0 .. N - 1 -> S]
  BY DEF NoCells, N
<1>3. q \in RingOf(S) /\ q.rpos = r.rpos /\ q.wpos = Wrapped(r.wpos)
  <2>1. (IF Wrapped(r.wpos) = r.rpos THEN NoCells ELSE [r.buf EXCEPT ![r.wpos] = c])
          \in [0 .. N - 1 -> S]
    BY <1>0, <1>2
  <2> QED
    BY <1>0, <1>1, <2>1 DEF RingOf, StoredRing
<1>4. q.buf = IF Wrapped(r.wpos) = r.rpos THEN NoCells ELSE [r.buf EXCEPT ![r.wpos] = c]
  BY DEF StoredRing
<1> HIDE DEF q
<1>5. CASE Wrapped(r.wpos) = r.rpos
  <2>1. Count(q) = 0 /\ Count(r) + 1 = N
    BY <1>0, <1>3, <1>5, Advance DEF Count
  <2>2. Live(q) = << >>
    BY <1>3, <2>1, LiveCells, EmptySeq
  <2> QED
    BY <1>3, <2>1, <2>2 DEF q
<1>6. CASE Wrapped(r.wpos) # r.rpos
  <2>1. Count(q) = Count(r) + 1 /\ Count(r) + 1 # N /\ Count(r) \in Nat
    BY <1>0, <1>3, <1>6, Advance, LiveCells DEF Count
  <2>2. /\ \A i \in 1 .. Count(r) :
              Cell(q, i) = Cell(r, i) /\ Cell(r, i) # r.wpos /\ Cell(r, i) \in 0 .. N - 1
        /\ Cell(q, Count(r) + 1) = r.wpos
    <3>1. \A i : Cell(q, i) = Cell(r, i)
      BY <1>3 DEF Cell
    <3>2. \A i \in 1 .. Count(r) : i - 1 \in 0 .. Count(r) - 1
      BY <2>1
    <3>3. \A i \in 1 .. Count(r) : Cell(r, i) # r.wpos
      BY <1>0, <3>2, Advance DEF Cell, Count
    <3>4. Cell(r, Count(r) + 1) = r.wpos
      <4>1. (Count(r) + 1) - 1 = Count(r)
        BY <2>1
      <4> QED
        BY <1>0, <4>1, Advance DEF Cell, Count
    <3> QED
      BY <3>1, <3>3, <3>4, LiveCells
  <2>3. /\ \A i \in 1 .. Count(r) : q.buf[Cell(q, i)] = r.buf[Cell(r, i)]
        /\ q.buf[Cell(q, Count(r) + 1)] = c
    BY <1>0, <1>4, <1>6, <2>2
  <2>4. /\ Live(q) = [i \in 1 .. Count(q) |-> q.buf[Cell(q, i)]] /\ Live(q) \in Seq(S)
        /\ Len(Live(q)) = Count(q)
        /\ Live(r) = [i \in 1 .. Count(r) |-> r.buf[Cell(r, i)]] /\ Live(r) \in Seq(S)
        /\ Len(Live(r)) = Count(r)
    BY <1>3, LiveCells
  <2>5. /\ Append(Live(r), c) \in Seq(S) /\ Len(Append(Live(r), c)) = Count(r) + 1
        /\ \A i \in 1 .. Count(r) : Append(Live(r), c)[i] = Live(r)[i]
        /\ Append(Live(r), c)[Count(r) + 1] = c
    BY <2>1, <2>4, AppendProperties
  <2>6. \A i \in 1 .. Count(r) + 1 : Live(q)[i] = Append(Live(r), c)[i]
    <3> TAKE i \in 1 .. Count(r) + 1
    <3>1. CASE i = Count(r) + 1
      BY <2>1, <2>3, <2>4, <2>5, <3>1
    <3>2. CASE i # Count(r) + 1
      <4>1. i \in 1 .. Count(r)
        BY <2>1, <3>2
      <4>2. i \in 1 .. Count(q)
        BY <2>1
      <4>3. Live(q)[i] = q.buf[Cell(q, i)] /\ Live(r)[i] = r.buf[Cell(r, i)]
        BY <2>4, <4>1, <4>2
      <4> QED
        BY <2>3, <2>5, <4>1, <4>3
    <3> QED
      BY <3>1, <3>2
  <2>7. Live(q) = Append(Live(r), c)
    BY <2>1, <2>4, <2>5, <2>6, SeqEqual
  <2> QED
    BY <1>3, <2>1, <2>7 DEF q
<1> QED
  BY <1>5, <1>6

-----------------------------------------------------------------------------
(* Characters, and the interrupt handlers that store them *)

\* The characters that the keyboard and the serial port give.
Chr == {0} \cup {KbdProcData(z[1], z[2]).c : z \in (SUBSET Bits) \X (0 .. 255)}
           \cup {SerialProcData(b) : b \in 0 .. 255}

Data == DataOf(Chr)

\* What Store changes, written out.
LEMMA StoreFields ==
  ASSUME NEW d \in Data, NEW c, c # 0
  PROVE  Store(d, c) = [ring   |-> StoredRing(d.ring, c), 
                        unread |-> IF Len(Append(d.unread, c)) = N THEN << >>
                                  ELSE Append(d.unread, c),
                        shift  |-> d.shift]
<1> DEFINE r == d.ring
<1>1. /\ d = [ring |-> r, unread |-> d.unread, shift |-> d.shift]
      /\ r = [buf |-> r.buf, rpos |-> r.rpos, wpos |-> r.wpos]
  BY DEF Data, DataOf, RingOf
<1>2. [r EXCEPT !.wpos = Wrapped(r.wpos)]
        = [buf |-> r.buf, rpos |-> r.rpos, wpos |-> Wrapped(r.wpos)]
  BY <1>1
<1> QED
  BY <1>1, <1>2 DEF Store, StoredRing, N

LEMMA DataFields ==
  ASSUME NEW d \in Data
  PROVE  /\ d.ring \in RingOf(Chr) /\ d.unread \in Seq(Chr) /\ d.shift \in SUBSET Bits
BY DEF Data, DataOf

LEMMA DataMake ==
  ASSUME NEW r \in RingOf(Chr), NEW u \in Seq(Chr), NEW b \in SUBSET Bits
  PROVE  [ring |-> r, unread |-> u, shift |-> b] \in Data
BY DEF Data, DataOf

\* The ring and the unread characters agree.
Agree(d) == Live(d.ring) = d.unread

\* cons_intr keeps them in agreement, at the turn of the ring and when it overflows.
LEMMA StoreAgrees ==
  ASSUME NEW d \in Data, NEW c \in Chr
  PROVE  /\ Store(d, c) \in Data /\ Store(d, c).shift = d.shift
         /\ Agree(d) => Agree(Store(d, c))
<1>1. CASE c = 0
  <2>1. Store(d, c) = d
    BY <1>1 DEF Store
  <2> QED
    BY <2>1
<1>2. CASE c # 0
  <2> DEFINE r == d.ring
             u == IF Len(Append(d.unread, c)) = N THEN << >> ELSE Append(d.unread, c)
  <2>1. Store(d, c) = [ring |-> StoredRing(r, c), unread |-> u, shift |-> d.shift]
    BY <1>2, StoreFields
  <2>2. 0 \in Chr
    BY DEF Chr
  <2>3. r \in RingOf(Chr) /\ d.unread \in Seq(Chr) /\ d.shift \in SUBSET Bits
    BY DataFields
  <2>4. /\ StoredRing(r, c) \in RingOf(Chr)
        /\ Live(StoredRing(r, c)) = IF Count(r) + 1 = N THEN << >> ELSE Append(Live(r), c)
    BY <2>2, <2>3, StoredRingExact
  <2>5. u \in Seq(Chr) /\ Len(Append(d.unread, c)) = Len(d.unread) + 1
    BY <2>3, AppendProperties, EmptySeq
  <2>6. Len(Live(r)) = Count(r)
    BY <2>3, LiveCells
  <2>7. Agree(d) => Live(StoredRing(r, c)) = u
    BY <2>4, <2>5, <2>6 DEF Agree
  <2> HIDE DEF r, u
  <2>8. Store(d, c) \in Data
    BY <2>1, <2>3, <2>4, <2>5, DataMake
  <2> QED
    BY <2>1, <2>7, <2>8 DEF Agree
<1> QED
  BY <1>1, <1>2

\* kbd_proc_data gives bits and a character of the tables.
LEMMA ShiftBits ==
  ASSUME NEW b \in SUBSET Bits, NEW x \in 0 .. 255
  PROVE  KbdProcData(b, x).shift \in SUBSET Bits /\ KbdProcData(b, x).c \in Chr
<1>1. \A y : shiftcode(y) \in SUBSET Bits /\ togglecode(y) \in SUBSET Bits
  BY DEF shiftcode, togglecode, Bits
<1>2. \A y, e : e \in SUBSET Bits => Pressed(e, y).shift \in SUBSET Bits
  BY <1>1 DEF Pressed
<1>3. KbdProcData(b, x).shift \in SUBSET Bits
  <2>1. b \cup {"E0ESC"} \in SUBSET Bits /\ b \ {"E0ESC"} \in SUBSET Bits
    BY DEF Bits
  <2> QED
    BY <1>1, <1>2, <2>1 DEF KbdProcData
<1>4. KbdProcData(b, x).c \in Chr
  <2>1. <<b, x>> \in (SUBSET Bits) \X (0 .. 255) /\ <<b, x>>[1] = b /\ <<b, x>>[2] = x
    OBVIOUS
  <2> QED
    BY <2>1 DEF Chr
<1> QED
  BY <1>3, <1>4

\* kbd_intr for a byte.
LEMMA StoreKeyAgrees ==
  ASSUME NEW d \in Data, NEW x \in 0 .. 255
  PROVE  /\ StoreKey(d, x) \in Data /\ StoreKey(d, x).shift = KbdProcData(d.shift, x).shift
         /\ Agree(d) => Agree(StoreKey(d, x))
<1> DEFINE k == KbdProcData(d.shift, x)
           s == Store(d, k.c)
<1>1. k.shift \in SUBSET Bits /\ k.c \in Chr
  BY DataFields, ShiftBits
<1> HIDE DEF k
<1>2. s \in Data /\ (Agree(d) => Agree(s))
  BY <1>1, StoreAgrees
<1>3. StoreKey(d, x) = [s EXCEPT !.shift = k.shift]
  BY DEF StoreKey, k
<1> HIDE DEF s
<1>4. StoreKey(d, x) = [ring |-> s.ring, unread |-> s.unread, shift |-> k.shift]
  BY <1>2, <1>3 DEF Data, DataOf
<1>5. StoreKey(d, x) \in Data
  BY <1>1, <1>2, <1>4, DataFields, DataMake
<1> QED
  BY <1>2, <1>4, <1>5 DEF Agree, k

\* serial_intr for a byte.
StoreByte(d, b) == Store(d, SerialProcData(b))

LEMMA StoreByteAgrees ==
  ASSUME NEW d \in Data, NEW x \in 0 .. 255
  PROVE  /\ StoreByte(d, x) \in Data /\ StoreByte(d, x).shift = d.shift
         /\ Agree(d) => Agree(StoreByte(d, x))
<1>1. SerialProcData(x) \in Chr
  BY DEF Chr
<1> QED
  BY <1>1, StoreAgrees DEF StoreByte

\* Reading moves the beginning towards the end by one.
LEMMA Retreat ==
  ASSUME NEW p \in 0 .. N - 1, NEW w \in 0 .. N - 1, p # w
  PROVE  /\ Distance(p, w) > 0 /\ Distance(Wrapped(p), w) = Distance(p, w) - 1
         /\ \A k \in 0 .. Distance(p, w) - 2 :
               Onward(Wrapped(p), k) = Onward(p, k + 1) /\ Onward(p, k + 1) # p
<1>0. N \in Nat \ {0} /\ p \in Int /\ w \in Int /\ 0 <= p /\ p < N /\ 0 <= w /\ w < N
  BY NFact
<1>1. Wrapped(p) = IF p + 1 = N THEN 0 ELSE p + 1
  BY DEF Wrapped, N
<1>2. CASE w >= p
  <2>1. Distance(p, w) = w - p
    BY <1>2 DEF Distance
  <2> QED
    BY <1>0, <1>1, <1>2, <2>1 DEF Distance, Onward
<1>3. CASE w < p
  <2>1. Distance(p, w) = w - p + N
    BY <1>0, <1>3 DEF Distance
  <2>2. CASE p + 1 = N
    BY <1>0, <1>1, <1>3, <2>1, <2>2 DEF Distance, Onward
  <2>3. CASE p + 1 # N
    BY <1>0, <1>1, <1>3, <2>1, <2>3 DEF Distance, Onward
  <2> QED
    BY <2>2, <2>3
<1> QED
  BY <1>0, <1>2, <1>3

\* cons_getc takes the oldest unread character.
LEMMA TakenAgrees ==
  ASSUME NEW d \in Data, Agree(d)
  PROVE  /\ Taken(d).d \in Data /\ Agree(Taken(d).d) /\ Taken(d).d.shift = d.shift
         /\ Taken(d).c \in Chr
<1> DEFINE r == d.ring
           q == [buf |-> [r.buf EXCEPT ![r.rpos] = 0], rpos |-> Wrapped(r.rpos), wpos |-> r.wpos]
<1>0. 0 \in Chr
  BY DEF Chr
<1>1. r \in RingOf(Chr) /\ d.unread \in Seq(Chr) /\ d.shift \in SUBSET Bits
  BY DataFields
<1>2. r.rpos \in 0 .. N - 1 /\ r.wpos \in 0 .. N - 1 /\ r.buf \in [0 .. N - 1 -> Chr]
  BY <1>1 DEF RingOf
<1>3. CASE r.rpos = r.wpos
  <2>1. Taken(d) = [d |-> d, c |-> 0]
    BY <1>3 DEF Taken
  <2> QED
    BY <1>0, <2>1
<1>4. CASE r.rpos # r.wpos
  <2>1. Taken(d) = [d |-> [ring |-> q, unread |-> Tail(d.unread), shift |-> d.shift],
                    c |-> r.buf[r.rpos]]
    <3>1. /\ d = [ring |-> r, unread |-> d.unread, shift |-> d.shift]
          /\ r = [buf |-> r.buf, rpos |-> r.rpos, wpos |-> r.wpos]
      BY DEF Data, DataOf, RingOf
    <3> QED
      BY <1>4, <3>1 DEF Taken
  <2>2. q \in RingOf(Chr)
    BY <1>0, <1>2, Positions DEF RingOf
  <2>3. q.rpos = Wrapped(r.rpos) /\ q.wpos = r.wpos /\ q.buf = [r.buf EXCEPT ![r.rpos] = 0]
    OBVIOUS
  <2> HIDE DEF q
  <2>4. Live(q) = Tail(Live(r))
    <3>1. Count(r) \in Nat /\ Count(r) > 0 /\ Count(q) = Count(r) - 1
      BY <1>1, <1>2, <1>4, <2>3, Retreat, LiveCells DEF Count
    <3>2. \A i \in 1 .. Count(q) : Cell(q, i) = Cell(r, i + 1) /\ Cell(r, i + 1) # r.rpos
      <4> TAKE i \in 1 .. Count(q)
      <4>1. i - 1 \in 0 .. Count(r) - 2 /\ (i + 1) - 1 = (i - 1) + 1
        BY <3>1
      <4> QED
        BY <1>2, <1>4, <2>3, <4>1, Retreat DEF Cell, Count
    <3>3. /\ Live(q) = [i \in 1 .. Count(q) |-> q.buf[Cell(q, i)]]
          /\ Live(q) \in Seq(Chr) /\ Len(Live(q)) = Count(q)
          /\ Live(r) = [i \in 1 .. Count(r) |-> r.buf[Cell(r, i)]]
          /\ Live(r) \in Seq(Chr) /\ Len(Live(r)) = Count(r)
          /\ \A i \in 1 .. Count(r) : Cell(r, i) \in 0 .. N - 1
      BY <1>1, <2>2, LiveCells
    <3>4. Live(r) # << >>
      BY <3>1, <3>3
    <3>5. /\ Tail(Live(r)) \in Seq(Chr) /\ Len(Tail(Live(r))) = Count(r) - 1
          /\ \A i \in 1 .. Count(r) - 1 : Tail(Live(r))[i] = Live(r)[i + 1]
      <4> DEFINE L == Live(r)
      <4>1. L \in Seq(Chr) /\ L # << >> /\ Len(L) = Count(r) /\ Count(r) \in Nat
        BY <3>1, <3>3, <3>4
      <4> HIDE DEF L
      <4>2. /\ Tail(L) \in Seq(Chr) /\ Len(Tail(L)) = Len(L) - 1
            /\ \A i \in 1 .. Len(Tail(L)) : Tail(L)[i] = L[i + 1]
        BY <4>1, HeadTailProperties
      <4> QED
        BY <4>1, <4>2 DEF L
    <3>6. \A i \in 1 .. Count(q) : Live(q)[i] = Tail(Live(r))[i]
      <4> TAKE i \in 1 .. Count(q)
      <4>1. i + 1 \in 1 .. Count(r) /\ i \in 1 .. Count(r) - 1
        BY <3>1
      <4>2. Live(q)[i] = q.buf[Cell(q, i)] /\ Live(r)[i + 1] = r.buf[Cell(r, i + 1)]
        BY <3>3, <4>1
      <4>3. q.buf[Cell(q, i)] = r.buf[Cell(r, i + 1)]
        BY <1>2, <2>3, <3>2, <3>3, <4>1
      <4> QED
        BY <3>5, <4>1, <4>2, <4>3
    <3> QED
      BY <3>1, <3>3, <3>5, <3>6, SeqEqual
  <2>5. r.buf[r.rpos] \in Chr
    BY <1>2
  <2>6. Tail(d.unread) \in Seq(Chr) /\ Live(q) = Tail(d.unread)
    BY <2>2, <2>4, LiveCells DEF Agree
  <2>7. /\ Taken(d).d = [ring |-> q, unread |-> Tail(d.unread), shift |-> d.shift]
        /\ Taken(d).c \in Chr
    BY <2>1, <2>5
  <2>8. Taken(d).d \in Data
    BY <1>1, <2>2, <2>6, <2>7, DataMake
  <2> QED
    BY <2>6, <2>7, <2>8 DEF Agree
<1> QED
  BY <1>3, <1>4

-----------------------------------------------------------------------------
(* The loops of the handlers *)

\* The loops of serial_intr and kbd_intr, as the states between their iterations.
KeysStored(d, s) == FoldLeft(StoreKey, d, s)
BytesStored(d, s) == FoldLeft(LAMBDA e, x : Store(e, SerialProcData(x)), d, s)

\* The loop of kbd_intr, as the sequence of the states between its iterations.
LEMMA KeysLoop ==
  ASSUME NEW d \in Data, NEW s \in Seq(0 .. 255)
  PROVE  \E g \in [0 .. Len(s) -> Data] :
            /\ g[0] = d /\ g[Len(s)] = KeysStored(d, s)
            /\ \A k \in 1 .. Len(s) : g[k] = StoreKey(g[k - 1], s[k])
<1> DEFINE n == Len(s)
           q == s
           T == Data
           b == d
           F == [i \in 1 .. n |-> [x \in T |-> StoreKey(x, q[i])]]
           E(h) == h = [i \in SUBSET DOMAIN q |->
                          IF i = {} THEN b
                          ELSE StoreKey(h[i \ {Max(i)}], q[Max(i)])]
           c == CHOOSE h : E(h)
<1>1. n \in Nat /\ DOMAIN q = 1 .. n
  OBVIOUS
<1>2. KeysStored(d, s) = c[DOMAIN q]
  <2> HIDE DEF E
  <2> QED
    BY Zenon DEF KeysStored, E, FoldLeft, MapThenFoldSet
<1>3. \A i \in 1 .. n, x \in T : StoreKey(x, q[i]) \in T
  <2>1. \A i \in 1 .. n : q[i] \in 0 .. 255
    BY ElementOfSeq
  <2> HIDE DEF q, n
  <2> QED
    BY <2>1, StoreKeyAgrees
<1>4. b \in T
  OBVIOUS
<1>5. F \in [1 .. n -> [T -> T]]
  BY <1>3
<1>6. \A i \in 1 .. n, x \in T : F[i][x] = StoreKey(x, q[i])
  OBVIOUS
<1>7. \A h : E(h) => h[{}] = b
  BY Zenon
<1> HIDE DEF n, T, F, q, b
<1>8. PICK h : FoldsBy(h, n, T, b, F)
  BY <1>1, <1>4, <1>5, FoldFunctionExists
<1>9. E(h)
  <2> DEFINE rhs == [i \in SUBSET DOMAIN q |->
                       IF i = {} THEN b
                       ELSE StoreKey(h[i \ {Max(i)}], q[Max(i)])]
  <2>1. ASSUME NEW i \in SUBSET (1 .. n)
        PROVE  h[i] = IF i = {} THEN b
                      ELSE StoreKey(h[i \ {Max(i)}], q[Max(i)])
    <3>1. i # {} => Max(i) \in 1 .. n
      BY <1>1, MaxInIndices
    <3>2. i # {} => i \ {Max(i)} \in SUBSET (1 .. n)
      OBVIOUS
    <3>3. /\ h \in [SUBSET (1 .. n) -> T]
          /\ h[i] = IF i = {} THEN b ELSE F[Max(i)][h[i \ {Max(i)}]]
      BY <1>8 DEF FoldsBy
    <3> QED
      BY <1>6, <3>1, <3>2, <3>3
  <2>2. h \in [SUBSET (1 .. n) -> T]
    BY <1>8 DEF FoldsBy
  <2>3. /\ rhs = [i \in SUBSET (1 .. n) |-> rhs[i]]
        /\ \A i \in SUBSET (1 .. n) :
              rhs[i] = IF i = {} THEN b
                       ELSE StoreKey(h[i \ {Max(i)}], q[Max(i)])
    BY <1>1
  <2> HIDE DEF rhs
  <2>4. h = rhs
    BY <2>1, <2>2, <2>3
  <2> QED
    BY <2>4 DEF rhs
<1> HIDE DEF E
<1>10. E(c)
  BY <1>9
<1> HIDE DEF c
<1>11. c[{}] = b
  BY <1>7, <1>10
<1>12. ASSUME NEW k \in 1 .. n, c[1 .. k - 1] \in T
       PROVE  c[1 .. k] = F[k][c[1 .. k - 1]]
  <2>0. k \in Nat /\ k # 0
    BY <1>1
  <2>1. 1 .. k # {} /\ Max(1 .. k) = k /\ (1 .. k) \ {k} = 1 .. k - 1
    BY <2>0, Indices
  <2>2. 1 .. k \in SUBSET DOMAIN q
    BY <1>1
  <2> DEFINE i == 1 .. k
  <2> HIDE DEF i
  <2>3. c[i] = StoreKey(c[i \ {Max(i)}], q[Max(i)])
    BY <1>10, <2>1, <2>2 DEF E, i
  <2>4. c[1 .. k] = StoreKey(c[1 .. k - 1], q[k])
    BY <2>1, <2>3 DEF i
  <2> QED
    BY <1>6, <1>12, <2>4
<1> DEFINE g == [k \in 0 .. n |-> c[1 .. k]]
<1>13. LoopsBy(g, n, T, b, F)
  BY <1>1, <1>4, <1>5, <1>11, <1>12, FoldValues
<1>14. g[n] = KeysStored(d, s)
  BY <1>1, <1>2
<1> HIDE DEF g
<1>15. /\ g \in [0 .. n -> T] /\ g[0] = b
       /\ \A k \in 1 .. n : g[k] = F[k][g[k - 1]]
  BY <1>13 DEF LoopsBy
<1>16. \A k \in 1 .. n : g[k] = StoreKey(g[k - 1], q[k])
  BY <1>1, <1>6, <1>15
<1> QED
  BY <1>14, <1>15, <1>16 DEF n, T, b, q

\* The loop of serial_intr likewise.
LEMMA BytesLoop ==
  ASSUME NEW d \in Data, NEW s \in Seq(0 .. 255)
  PROVE  \E g \in [0 .. Len(s) -> Data] :
            /\ g[0] = d /\ g[Len(s)] = BytesStored(d, s)
            /\ \A k \in 1 .. Len(s) : g[k] = StoreByte(g[k - 1], s[k])
<1> DEFINE n == Len(s)
           q == s
           T == Data
           b == d
           F == [i \in 1 .. n |-> [x \in T |-> StoreByte(x, q[i])]]
           E(h) == h = [i \in SUBSET DOMAIN q |->
                          IF i = {} THEN b
                          ELSE StoreByte(h[i \ {Max(i)}], q[Max(i)])]
           c == CHOOSE h : E(h)
<1>1. n \in Nat /\ DOMAIN q = 1 .. n
  OBVIOUS
<1>2. BytesStored(d, s) = c[DOMAIN q]
  <2> HIDE DEF E
  <2> QED
    BY Zenon DEF BytesStored, StoreByte, E, FoldLeft, MapThenFoldSet
<1>3. \A i \in 1 .. n, x \in T : StoreByte(x, q[i]) \in T
  <2>1. \A i \in 1 .. n : q[i] \in 0 .. 255
    BY ElementOfSeq
  <2> HIDE DEF q, n
  <2> QED
    BY <2>1, StoreByteAgrees
<1>4. b \in T
  OBVIOUS
<1>5. F \in [1 .. n -> [T -> T]]
  BY <1>3
<1>6. \A i \in 1 .. n, x \in T : F[i][x] = StoreByte(x, q[i])
  OBVIOUS
<1>7. \A h : E(h) => h[{}] = b
  BY Zenon
<1> HIDE DEF n, T, F, q, b
<1>8. PICK h : FoldsBy(h, n, T, b, F)
  BY <1>1, <1>4, <1>5, FoldFunctionExists
<1>9. E(h)
  <2> DEFINE rhs == [i \in SUBSET DOMAIN q |->
                       IF i = {} THEN b
                       ELSE StoreByte(h[i \ {Max(i)}], q[Max(i)])]
  <2>1. ASSUME NEW i \in SUBSET (1 .. n)
        PROVE  h[i] = IF i = {} THEN b
                      ELSE StoreByte(h[i \ {Max(i)}], q[Max(i)])
    <3>1. i # {} => Max(i) \in 1 .. n
      BY <1>1, MaxInIndices
    <3>2. i # {} => i \ {Max(i)} \in SUBSET (1 .. n)
      OBVIOUS
    <3>3. /\ h \in [SUBSET (1 .. n) -> T]
          /\ h[i] = IF i = {} THEN b ELSE F[Max(i)][h[i \ {Max(i)}]]
      BY <1>8 DEF FoldsBy
    <3> QED
      BY <1>6, <3>1, <3>2, <3>3
  <2>2. h \in [SUBSET (1 .. n) -> T]
    BY <1>8 DEF FoldsBy
  <2>3. /\ rhs = [i \in SUBSET (1 .. n) |-> rhs[i]]
        /\ \A i \in SUBSET (1 .. n) :
              rhs[i] = IF i = {} THEN b
                       ELSE StoreByte(h[i \ {Max(i)}], q[Max(i)])
    BY <1>1
  <2> HIDE DEF rhs
  <2>4. h = rhs
    BY <2>1, <2>2, <2>3
  <2> QED
    BY <2>4 DEF rhs
<1> HIDE DEF E
<1>10. E(c)
  BY <1>9
<1> HIDE DEF c
<1>11. c[{}] = b
  BY <1>7, <1>10
<1>12. ASSUME NEW k \in 1 .. n, c[1 .. k - 1] \in T
       PROVE  c[1 .. k] = F[k][c[1 .. k - 1]]
  <2>0. k \in Nat /\ k # 0
    BY <1>1
  <2>1. 1 .. k # {} /\ Max(1 .. k) = k /\ (1 .. k) \ {k} = 1 .. k - 1
    BY <2>0, Indices
  <2>2. 1 .. k \in SUBSET DOMAIN q
    BY <1>1
  <2> DEFINE i == 1 .. k
  <2> HIDE DEF i
  <2>3. c[i] = StoreByte(c[i \ {Max(i)}], q[Max(i)])
    BY <1>10, <2>1, <2>2 DEF E, i
  <2>4. c[1 .. k] = StoreByte(c[1 .. k - 1], q[k])
    BY <2>1, <2>3 DEF i
  <2> QED
    BY <1>6, <1>12, <2>4
<1> DEFINE g == [k \in 0 .. n |-> c[1 .. k]]
<1>13. LoopsBy(g, n, T, b, F)
  BY <1>1, <1>4, <1>5, <1>11, <1>12, FoldValues
<1>14. g[n] = BytesStored(d, s)
  BY <1>1, <1>2
<1> HIDE DEF g
<1>15. /\ g \in [0 .. n -> T] /\ g[0] = b
       /\ \A k \in 1 .. n : g[k] = F[k][g[k - 1]]
  BY <1>13 DEF LoopsBy
<1>16. \A k \in 1 .. n : g[k] = StoreByte(g[k - 1], q[k])
  BY <1>1, <1>6, <1>15
<1> QED
  BY <1>14, <1>15, <1>16 DEF n, T, b, q

\* After the loops the ring and the unread characters agree still.
LEMMA KeysStoredAgree ==
  ASSUME NEW d \in Data, NEW s \in Seq(0 .. 255)
  PROVE  /\ KeysStored(d, s) \in Data /\ (Agree(d) => Agree(KeysStored(d, s)))
         /\ Len(s) = 0 => KeysStored(d, s) = d
         /\ Len(s) = 1 => KeysStored(d, s) = StoreKey(d, s[1])
         /\ Len(s) = 2 => KeysStored(d, s) = StoreKey(StoreKey(d, s[1]), s[2])
<1>0. Len(s) \in Nat /\ \A k \in 1 .. Len(s) : s[k] \in 0 .. 255
  BY ElementOfSeq
<1>1. PICK g \in [0 .. Len(s) -> Data] :
            /\ g[0] = d /\ g[Len(s)] = KeysStored(d, s)
            /\ \A k \in 1 .. Len(s) : g[k] = StoreKey(g[k - 1], s[k])
  BY KeysLoop
<1> DEFINE S == {k \in 0 .. Len(s) : Agree(d) => Agree(g[k])}
<1>2. 0 \in S
  BY <1>0, <1>1
<1>3. \A k \in 1 .. Len(s) : k - 1 \in S => k \in S
  <2> TAKE k \in 1 .. Len(s)
  <2>1. k - 1 \in 0 .. Len(s) /\ k \in 0 .. Len(s)
    BY <1>0
  <2>2. g[k - 1] \in Data /\ s[k] \in 0 .. 255 /\ g[k] = StoreKey(g[k - 1], s[k])
    BY <1>0, <1>1, <2>1
  <2>3. Agree(g[k - 1]) => Agree(g[k])
    BY <2>2, StoreKeyAgrees
  <2> QED
    BY <2>1, <2>3
<1> HIDE DEF S
<1>4. \A k \in 0 .. Len(s) : k \in S
  BY <1>0, <1>2, <1>3, UpToInduction
<1>5. Agree(d) => Agree(g[Len(s)])
  BY <1>0, <1>4 DEF S
<1>6. Len(s) = 1 => g[1] = StoreKey(g[0], s[1])
  BY <1>1
<1>7. Len(s) = 2 => g[1] = StoreKey(g[0], s[1]) /\ g[2] = StoreKey(g[1], s[2])
  BY <1>1
<1> QED
  BY <1>0, <1>1, <1>5, <1>6, <1>7

LEMMA BytesStoredAgree ==
  ASSUME NEW d \in Data, NEW s \in Seq(0 .. 255)
  PROVE  /\ BytesStored(d, s) \in Data /\ BytesStored(d, s).shift = d.shift
         /\ Agree(d) => Agree(BytesStored(d, s))
<1>0. Len(s) \in Nat /\ \A k \in 1 .. Len(s) : s[k] \in 0 .. 255
  BY ElementOfSeq
<1>1. PICK g \in [0 .. Len(s) -> Data] :
            /\ g[0] = d /\ g[Len(s)] = BytesStored(d, s)
            /\ \A k \in 1 .. Len(s) : g[k] = StoreByte(g[k - 1], s[k])
  BY BytesLoop
<1> DEFINE S == {k \in 0 .. Len(s) : g[k].shift = d.shift /\ (Agree(d) => Agree(g[k]))}
<1>2. 0 \in S
  BY <1>0, <1>1
<1>3. \A k \in 1 .. Len(s) : k - 1 \in S => k \in S
  <2> TAKE k \in 1 .. Len(s)
  <2>1. k - 1 \in 0 .. Len(s) /\ k \in 0 .. Len(s)
    BY <1>0
  <2>2. g[k - 1] \in Data /\ s[k] \in 0 .. 255 /\ g[k] = StoreByte(g[k - 1], s[k])
    BY <1>0, <1>1, <2>1
  <2> DEFINE e == g[k - 1]
             x == s[k]
  <2> HIDE DEF e, x
  <2>3. e \in Data /\ x \in 0 .. 255 /\ g[k] = StoreByte(e, x)
    BY <2>2 DEF e, x
  <2>4. StoreByte(e, x).shift = e.shift /\ (Agree(e) => Agree(StoreByte(e, x)))
    BY <2>3, StoreByteAgrees
  <2>5. g[k].shift = g[k - 1].shift /\ (Agree(g[k - 1]) => Agree(g[k]))
    BY <2>3, <2>4 DEF e
  <2> QED
    BY <2>1, <2>5
<1> HIDE DEF S
<1>4. \A k \in 0 .. Len(s) : k \in S
  BY <1>0, <1>2, <1>3, UpToInduction
<1>5. g[Len(s)].shift = d.shift /\ (Agree(d) => Agree(g[Len(s)]))
  BY <1>0, <1>4 DEF S
<1> QED
  BY <1>0, <1>1, <1>5

-----------------------------------------------------------------------------
(* The shift state *)

\* shift follows the keys in dn that are held, as ShiftFollowsKeys says.
Follows(sh, dn) ==
  /\ "E0ESC" \notin sh
  /\ \A bit \in {"CTL", "SHIFT", "ALT"} :
       LET keys == {k \in Key : bit \in shiftcode(k)}
       IN  /\ bit \in sh => keys \cap dn # {}
           /\ keys # {} /\ keys \subseteq dn => bit \in sh

\* The bits when the bytes of s, at most two, have been read.
After(sh, s) ==
  IF Len(s) = 0 THEN sh
  ELSE IF Len(s) = 1 THEN KbdProcData(sh, s[1]).shift
  ELSE KbdProcData(KbdProcData(sh, s[1]).shift, s[2]).shift

\* A key that is pressed sets its bit, and toggles no other of the three.
LEMMA PressFollows ==
  ASSUME NEW b \in SUBSET Bits, NEW dn, Follows(b, dn), NEW k \in Key
  PROVE  Follows(Pressed(b, k).shift, IF shiftcode(k) = {} THEN dn ELSE dn \cup {k})
<1>1. /\ togglecode(k) \in SUBSET {"CAPSLOCK", "NUMLOCK", "SCROLLLOCK"}
      /\ shiftcode(k) \in SUBSET {"CTL", "SHIFT", "ALT"}
  BY DEF togglecode, shiftcode
<1>2. \A bit \in {"CTL", "SHIFT", "ALT", "E0ESC"} :
        bit \in Pressed(b, k).shift <=> bit \in b \/ bit \in shiftcode(k)
  BY <1>1 DEF Pressed
<1>3. "E0ESC" \notin Pressed(b, k).shift
  BY <1>1, <1>2 DEF Follows
<1>4. ASSUME NEW bit \in {"CTL", "SHIFT", "ALT"}
      PROVE  LET keys == {x \in Key : bit \in shiftcode(x)}
                 new == IF shiftcode(k) = {} THEN dn ELSE dn \cup {k}
             IN  /\ bit \in Pressed(b, k).shift => keys \cap new # {}
                 /\ keys # {} /\ keys \subseteq new => bit \in Pressed(b, k).shift
  <2> DEFINE keys == {x \in Key : bit \in shiftcode(x)}
             new == IF shiftcode(k) = {} THEN dn ELSE dn \cup {k}
  <2>1. (bit \in b => keys \cap dn # {}) /\ (keys # {} /\ keys \subseteq dn => bit \in b)
    BY DEF Follows
  <2>2. bit \in shiftcode(k) => k \in keys \cap new
    OBVIOUS
  <2>3. dn \subseteq new
    OBVIOUS
  <2>4. bit \notin shiftcode(k) => (keys \subseteq new => keys \subseteq dn)
    OBVIOUS
  <2>5. bit \in Pressed(b, k).shift <=> bit \in b \/ bit \in shiftcode(k)
    BY <1>2
  <2> HIDE DEF keys, new
  <2> QED
    BY <2>1, <2>2, <2>3, <2>4, <2>5 DEF keys, new
<1> QED
  BY <1>3, <1>4 DEF Follows

\* A key that is released clears its bit: then not all keys of the bit are held.
LEMMA ReleaseFollows ==
  ASSUME NEW b \in SUBSET Bits, NEW dn, Follows(b, dn), NEW k \in Key
  PROVE  Follows(b \ (shiftcode(k) \cup {"E0ESC"}), IF shiftcode(k) = {} THEN dn ELSE dn \ {k})
<1>0. \A x : (\A y, z \in shiftcode(x) : y = z) /\ shiftcode(x) \in SUBSET {"CTL", "SHIFT", "ALT"}
  BY DEF shiftcode
<1>4. ASSUME NEW bit \in {"CTL", "SHIFT", "ALT"}
      PROVE  LET keys == {x \in Key : bit \in shiftcode(x)}
                 new == IF shiftcode(k) = {} THEN dn ELSE dn \ {k}
                 now == b \ (shiftcode(k) \cup {"E0ESC"})
             IN  /\ bit \in now => keys \cap new # {}
                 /\ keys # {} /\ keys \subseteq new => bit \in now
  <2> DEFINE keys == {x \in Key : bit \in shiftcode(x)}
             new == IF shiftcode(k) = {} THEN dn ELSE dn \ {k}
             now == b \ (shiftcode(k) \cup {"E0ESC"})
  <2>1. (bit \in b => keys \cap dn # {}) /\ (keys # {} /\ keys \subseteq dn => bit \in b)
    BY DEF Follows
  <2>2. bit \in shiftcode(k) => k \in keys /\ k \notin new
    OBVIOUS
  <2>3. new \subseteq dn
    OBVIOUS
  <2>4. bit \notin shiftcode(k) => keys \cap new = keys \cap dn
    OBVIOUS
  <2>5. bit \in now <=> bit \in b /\ bit \notin shiftcode(k)
    OBVIOUS
  <2> HIDE DEF keys, new, now
  <2> QED
    BY <2>1, <2>2, <2>3, <2>4, <2>5 DEF keys, new, now
<1> QED
  BY <1>4 DEF Follows

\* The bytes of a key event, once they have been read, bring the bits where the keys are.
EventBytes(k, release) ==
  (IF k >= 128 THEN <<224>> ELSE << >>) \o <<(k % 128) + (IF release THEN 128 ELSE 0)>>

LEMMA ConcatOf ==
  ASSUME NEW s \in Seq(Nat), NEW t \in Seq(Nat)
  PROVE  /\ s \o t \in Seq(Nat) /\ Len(s \o t) = Len(s) + Len(t)
         /\ \A i \in 1 .. Len(s) + Len(t) :
               (s \o t)[i] = IF i <= Len(s) THEN s[i] ELSE t[i - Len(s)]
OBVIOUS

LEMMA TwoBytes ==
  ASSUME NEW s \in Seq(Nat), NEW t \in Seq(Nat), NEW u \in Seq(Nat),
         Len(s) = 1, Len(t) = 1, Len(u) = 2, u[1] = s[1], u[2] = t[1]
  PROVE  s \o t = u
<1> DEFINE v == s \o t
<1>1. /\ v \in Seq(Nat) /\ Len(v) = Len(s) + Len(t)
      /\ \A i \in 1 .. Len(s) + Len(t) : v[i] = IF i <= Len(s) THEN s[i] ELSE t[i - Len(s)]
  BY ConcatOf
<1> HIDE DEF v
<1>2. Len(v) = 2 /\ v[1] = s[1] /\ v[2] = t[1]
  BY <1>1
<1>5. \A i \in 1 .. 2 : v[i] = u[i]
  BY <1>2
<1>6. v = u
  BY <1>1, <1>2, <1>5, SeqEqual
<1> QED
  BY <1>6 DEF v

\* One byte, or the prefix E0 and a byte; the last is never taken for the prefix.
LEMMA EventBytesIs ==
  ASSUME NEW k \in Key, NEW release \in BOOLEAN
  PROVE  LET low == IF k >= 128 THEN k - 128 ELSE k
             last == IF release THEN low + 128 ELSE low
         IN  /\ k \in 1 .. 255 /\ k # 96 /\ k # 224
             /\ last \in 0 .. 255
             /\ EventBytes(k, release) = IF k >= 128 THEN <<224, last>> ELSE <<last>>
<1>1. k \in 1 .. 255 /\ k # 96 /\ k # 224
  BY ConsoleAssumption
<1>2. k % 128 = IF k >= 128 THEN k - 128 ELSE k
  BY <1>1
<1> DEFINE low == IF k >= 128 THEN k - 128 ELSE k
           last == IF release THEN low + 128 ELSE low
<1>3. (k % 128) + (IF release THEN 128 ELSE 0) = last /\ last \in 0 .. 255
  BY <1>1, <1>2
<1> HIDE DEF last
<1>4. EventBytes(k, release) = (IF k >= 128 THEN <<224>> ELSE << >>) \o <<last>>
  BY <1>3 DEF EventBytes
<1>5. <<224>> \o <<last>> = <<224, last>> /\ << >> \o <<last>> = <<last>>
  <2>0. last \in Nat
    BY <1>3
  <2>1. /\ <<224>> \in Seq(Nat) /\ <<last>> \in Seq(Nat) /\ <<224, last>> \in Seq(Nat)
        /\ Len(<<224>>) = 1 /\ Len(<<last>>) = 1 /\ Len(<<224, last>>) = 2
        /\ <<224>>[1] = 224 /\ <<last>>[1] = last /\ <<224, last>>[1] = 224
        /\ <<224, last>>[2] = last
    BY <2>0
  <2> DEFINE s == <<224>>
             t == <<last>>
             u == <<224, last>>
  <2>2. /\ s \in Seq(Nat) /\ t \in Seq(Nat) /\ u \in Seq(Nat)
        /\ Len(s) = 1 /\ Len(t) = 1 /\ Len(u) = 2 /\ s[1] = 224 /\ t[1] = last
        /\ u[1] = 224 /\ u[2] = last
    BY <2>1
  <2> HIDE DEF s, t, u
  <2>3. s \in Seq(Nat)
    BY <2>2
  <2>4. t \in Seq(Nat)
    BY <2>2
  <2>5. u \in Seq(Nat)
    BY <2>2
  <2>8. Len(s) = 1 /\ Len(t) = 1 /\ Len(u) = 2 /\ u[1] = s[1] /\ u[2] = t[1]
    BY <2>2
  <2>6. s \o t = u
    BY <2>3, <2>4, <2>5, <2>8, TwoBytes
  <2>7. << >> \o t = t
    BY <2>2, ConcatEmptySeq
  <2> QED
    BY <2>6, <2>7 DEF s, t, u
<1>6. EventBytes(k, release) = IF k >= 128 THEN <<224, last>> ELSE <<last>>
  BY <1>4, <1>5
<1> QED
  BY <1>1, <1>3, <1>6 DEF last

\* When all bytes of a key event have been read the bits follow the keys again.
LEMMA EventFollows ==
  ASSUME NEW b \in SUBSET Bits, NEW dn, Follows(b, dn), NEW k \in Key, NEW release \in BOOLEAN
  PROVE  Follows(After(b, EventBytes(k, release)),
                 IF shiftcode(k) = {} THEN dn ELSE IF release THEN dn \ {k} ELSE dn \cup {k})
<1> DEFINE low == IF k >= 128 THEN k - 128 ELSE k
           last == IF release THEN low + 128 ELSE low
<1>1. /\ k \in 1 .. 255 /\ k # 96 /\ k # 224 /\ last \in 0 .. 255
      /\ EventBytes(k, release) = IF k >= 128 THEN <<224, last>> ELSE <<last>>
  BY EventBytesIs
<1>2. "E0ESC" \notin b
  BY DEF Follows
<1>3. After(b, EventBytes(k, release)) =
        IF release THEN b \ (shiftcode(k) \cup {"E0ESC"}) ELSE Pressed(b, k).shift
  <2>1. CASE k >= 128
    <3>1. /\ EventBytes(k, release) = <<224, last>> /\ Len(<<224, last>>) = 2
          /\ <<224, last>>[1] = 224 /\ <<224, last>>[2] = last
      BY <1>1, <2>1
    <3>2. After(b, EventBytes(k, release)) = KbdProcData(KbdProcData(b, 224).shift, last).shift
      BY <3>1 DEF After
    <3>3. KbdProcData(b, 224).shift = b \cup {"E0ESC"}
      BY DEF KbdProcData
    <3>4. last # 224 /\ (release => last = k) /\ (~release => last + 128 = k /\ last < 128)
      BY <1>1, <2>1
    <3>5. (b \cup {"E0ESC"}) \ {"E0ESC"} = b
          /\ (b \cup {"E0ESC"}) \ (shiftcode(k) \cup {"E0ESC"}) = b \ (shiftcode(k) \cup {"E0ESC"})
      BY <1>2
    <3>6. CASE release
      <4>1. KbdProcData(b \cup {"E0ESC"}, k).shift
              = (b \cup {"E0ESC"}) \ (shiftcode(k) \cup {"E0ESC"})
        BY <1>1, <2>1, <3>4, <3>6 DEF KbdProcData
      <4> QED
        BY <3>2, <3>3, <3>4, <3>5, <3>6, <4>1
    <3>7. CASE ~release
      <4> HIDE DEF last, low
      <4>1. KbdProcData(b \cup {"E0ESC"}, last)
              = Pressed((b \cup {"E0ESC"}) \ {"E0ESC"}, last + 128)
        BY <1>1, <2>1, <3>4, <3>7 DEF KbdProcData
      <4> QED
        BY <3>2, <3>3, <3>4, <3>5, <3>7, <4>1
    <3> QED
      BY <3>6, <3>7
  <2>2. CASE ~(k >= 128)
    <3>1. /\ EventBytes(k, release) = <<last>> /\ Len(<<last>>) = 1
          /\ <<last>>[1] = last
      BY <1>1, <2>2
    <3>2. After(b, EventBytes(k, release)) = KbdProcData(b, last).shift
      BY <3>1 DEF After
    <3>4. /\ last # 224 /\ (release => last - 128 = k /\ last >= 128)
          /\ ~release => last = k /\ last < 128
      BY <1>1, <2>2
    <3> HIDE DEF last, low
    <3>6. CASE release
      <4>1. KbdProcData(b, last).shift = b \ (shiftcode(last - 128) \cup {"E0ESC"})
        BY <1>1, <1>2, <3>4, <3>6 DEF KbdProcData
      <4> QED
        BY <3>2, <3>4, <3>6, <4>1
    <3>7. CASE ~release
      <4>1. KbdProcData(b, last) = Pressed(b, last)
        BY <1>1, <1>2, <3>4, <3>7 DEF KbdProcData
      <4> QED
        BY <3>2, <3>4, <3>7, <4>1
    <3> QED
      BY <3>6, <3>7
  <2> QED
    BY <2>1, <2>2
<1> HIDE DEF low, last
<1>4. CASE release
  <2>1. Follows(b \ (shiftcode(k) \cup {"E0ESC"}), IF shiftcode(k) = {} THEN dn ELSE dn \ {k})
    BY ReleaseFollows
  <2> QED
    BY <1>3, <1>4, <2>1
<1>5. CASE ~release
  <2>1. Follows(Pressed(b, k).shift, IF shiftcode(k) = {} THEN dn ELSE dn \cup {k})
    BY PressFollows
  <2> QED
    BY <1>3, <1>5, <2>1
<1> QED
  BY <1>4, <1>5

-----------------------------------------------------------------------------
(* The inductive invariant *)

\* What the variables give the handlers to work on.
ConsData == [ring |-> ring, unread |-> unread, shift |-> shift]

\* A pair of the addresses and the control register.
IsDr(d) == d = [local |-> d.local, control |-> d.control]

\* The inductive invariant, in two parts.
ConsInv ==
  /\ kbd \in Seq(0 .. 255) /\ Len(kbd) <= 2
  /\ com \in Seq(SerialByte) /\ irq \subseteq {"kbd", "com"} /\ down \subseteq Key
  /\ ConsData \in Data /\ Agree(ConsData)
  /\ Follows(After(shift, kbd), down)

RegInv ==
  /\ mode \in {"run", "monitor", "panic", "lost"} /\ saved \in BOOLEAN
  /\ stepping \subseteq {"current", "other"}
  /\ IsDr(dr) /\ IsDr(hw) /\ RegistersArmed

LineInv == line \in Seq(Chr) /\ Len(line) < BufSize

MonInv == ConsInv /\ RegInv /\ LineInv

-----------------------------------------------------------------------------
(* Initially, and when keys and bytes arrive *)

\* cons_init and debug_init establish the invariant.
LEMMA InitMonInv == Init => MonInv
<1> SUFFICES ASSUME Init PROVE MonInv
  OBVIOUS
<1>0. /\ kbd = << >> /\ com = << >> /\ irq = {} /\ down = {} /\ shift = {}
      /\ ring = [buf |-> NoCells, rpos |-> 0, wpos |-> 0] /\ unread = << >>
  BY DEF Init, ConsInit
<1>1. N \in Nat /\ N > 0 /\ 0 \in Chr
  BY NFact DEF Chr
<1>2. ring \in RingOf(Chr)
  BY <1>0, <1>1 DEF RingOf, NoCells, N
<1>3. ConsData \in Data
  <2>1. unread \in Seq(Chr) /\ shift \in SUBSET Bits
    BY <1>0
  <2> QED
    BY <1>2, <2>1, DataMake DEF ConsData
<1>4. Agree(ConsData)
  <2>1. Count(ring) = 0
    BY <1>0, <1>1 DEF Count, Distance
  <2>2. Live(ring) \in Seq(Chr) /\ Len(Live(ring)) = 0
    BY <1>2, <2>1, LiveCells
  <2>3. Live(ring) = << >>
    BY <2>2, EmptySeq
  <2>4. ConsData.ring = ring /\ ConsData.unread = unread
    BY DEF ConsData
  <2> QED
    BY <1>0, <2>3, <2>4 DEF Agree
<1>5. Follows(After(shift, kbd), down)
  <2>1. After(shift, kbd) = {}
    BY <1>0 DEF After
  <2> QED
    BY <1>0, <2>1 DEF Follows
<1>6. ConsInv
  BY <1>0, <1>3, <1>4, <1>5 DEF ConsInv
<1>7. IsDr(DrInit)
  BY DEF IsDr, DrInit
<1>8. RegInv
  BY <1>7 DEF Init, RegInv, RegistersArmed
<1>9. LineInv
  BY ConsoleAssumption DEF Init, LineInv
<1> QED
  BY <1>6, <1>8, <1>9 DEF MonInv

\* A key event adds the bytes that account for it.
LEMMA KeyEventKeeps ==
  ASSUME ConsInv, NEW k \in Key, NEW release \in BOOLEAN, KeyEvent(k, release)
  PROVE  ConsInv'
<1>1. /\ kbd = << >> /\ kbd' = EventBytes(k, release)
      /\ down' = IF shiftcode(k) = {} THEN down ELSE IF release THEN down \ {k} ELSE down \cup {k}
      /\ irq' = irq \cup {"kbd"} /\ com' = com /\ shift' = shift /\ ring' = ring /\ unread' = unread
  BY DEF KeyEvent, EventBytes
<1>2. ConsData' = ConsData
  BY <1>1 DEF ConsData
<1>3. /\ EventBytes(k, release) \in Seq(0 .. 255) /\ Len(EventBytes(k, release)) <= 2
  <2> DEFINE low == IF k >= 128 THEN k - 128 ELSE k
             last == IF release THEN low + 128 ELSE low
  <2>1. /\ last \in 0 .. 255
        /\ EventBytes(k, release) = IF k >= 128 THEN <<224, last>> ELSE <<last>>
    BY EventBytesIs
  <2> HIDE DEF last
  <2>2. /\ <<224, last>> \in Seq(0 .. 255) /\ Len(<<224, last>>) = 2
        /\ <<last>> \in Seq(0 .. 255) /\ Len(<<last>>) = 1
    BY <2>1
  <2>3. EventBytes(k, release) = <<224, last>> \/ EventBytes(k, release) = <<last>>
    BY <2>1
  <2> DEFINE u == <<224, last>>
             v == <<last>>
  <2>4. /\ u \in Seq(0 .. 255) /\ Len(u) = 2 /\ v \in Seq(0 .. 255) /\ Len(v) = 1
        /\ EventBytes(k, release) = u \/ EventBytes(k, release) = v
    BY <2>2, <2>3
  <2> HIDE DEF u, v
  <2>5. Len(u) <= 2 /\ Len(v) <= 2
    BY <2>4
  <2> QED
    BY <2>4, <2>5, Zenon
<1>4. shift \in SUBSET Bits
  BY DataFields DEF ConsInv, ConsData
<1>5. After(shift, kbd) = shift
  BY <1>1 DEF After
<1>6. Follows(shift, down)
  BY <1>5 DEF ConsInv
<1>7. Follows(After(shift, EventBytes(k, release)), down')
  BY <1>1, <1>4, <1>6, EventFollows
<1>8. down' \subseteq Key
  BY <1>1 DEF ConsInv
<1>9. Agree(ConsData)'
  BY <1>1 DEF ConsInv, Agree, Live, ConsData
<1>10. Follows(After(shift, kbd), down)'
  BY <1>1, <1>7 DEF Follows, After
<1> QED
  BY <1>1, <1>2, <1>3, <1>8, <1>9, <1>10 DEF ConsInv

LEMMA SerialArrivesKeeps ==
  ASSUME ConsInv, NEW b \in SerialByte, SerialArrives(b)
  PROVE  ConsInv'
<1>1. /\ com' = <<b>> /\ irq' = irq \cup {"com"}
      /\ kbd' = kbd /\ down' = down /\ shift' = shift /\ ring' = ring /\ unread' = unread
  BY DEF SerialArrives
<1>2. ConsData' = ConsData
  BY <1>1 DEF ConsData
<1>3. Agree(ConsData)'
  BY <1>1 DEF ConsInv, Agree, Live, ConsData
<1>4. Follows(After(shift, kbd), down)'
  BY <1>1 DEF ConsInv, Follows, After
<1> QED
  BY <1>1, <1>2, <1>3, <1>4 DEF ConsInv

\* Steps that leave the console alone.
LEMMA ConsUnchanged ==
  ASSUME ConsInv, UNCHANGED consVars
  PROVE  ConsInv'
<1>1. /\ kbd' = kbd /\ com' = com /\ irq' = irq /\ down' = down /\ shift' = shift
      /\ ring' = ring /\ unread' = unread
  BY DEF consVars
<1>2. ConsData' = ConsData
  BY <1>1 DEF ConsData
<1>3. Agree(ConsData)'
  BY <1>1 DEF ConsInv, Agree, Live, ConsData
<1>4. Follows(After(shift, kbd), down)'
  BY <1>1 DEF ConsInv, Follows, After
<1> QED
  BY <1>1, <1>2, <1>3, <1>4 DEF ConsInv

-----------------------------------------------------------------------------
(* Reading *)

\* Arrived, for the bytes s of the controller.
Finds(s) == IF s = << >> THEN {0} ELSE 1 .. Len(s)

LEMMA AtMostTwo ==
  ASSUME NEW m \in Nat, m <= 2, NEW n \in 0 .. m
  PROVE  /\ m \in 0 .. 2 /\ m \in {0, 1, 2} /\ n \in Int /\ n + 1 \in Int /\ m \in Int
         /\ (m = 0 => n = 0 /\ m - n = 0) /\ (m = 1 /\ n # 0 => n = 1)
         /\ (m = 2 /\ n # 0 => n \in {1, 2})
OBVIOUS

\* The bytes of the keyboard, split at n.
LEMMA Split ==
  ASSUME NEW s \in Seq(0 .. 255), Len(s) <= 2, NEW n \in Finds(s)
  PROVE  /\ SubSeq(s, 1, n) \in Seq(0 .. 255) /\ Len(SubSeq(s, 1, n)) = n
         /\ SubSeq(s, n + 1, Len(s)) \in Seq(0 .. 255)
         /\ Len(SubSeq(s, n + 1, Len(s))) = Len(s) - n
         /\ \A i \in 1 .. n : SubSeq(s, 1, n)[i] = s[i]
         /\ \A i \in 1 .. Len(s) - n : SubSeq(s, n + 1, Len(s))[i] = s[n + i]
         /\ Len(s) \in 0 .. 2 /\ n \in 0 .. Len(s)
<1>1. Len(s) \in Nat
  BY LenProperties
<1>2. n \in 0 .. Len(s)
  <2>1. CASE s = << >>
    <3>1. n = 0
      BY <2>1 DEF Finds
    <3> QED
      BY <1>1, <3>1
  <2>2. CASE s # << >>
    <3>1. n \in 1 .. Len(s)
      BY <2>2 DEF Finds
    <3> QED
      BY <1>1, <3>1
  <2> QED
    BY <2>1, <2>2
<1>3. Len(s) \in 0 .. 2 /\ n \in Int /\ n + 1 \in Int /\ Len(s) \in Int
  BY <1>1, <1>2, AtMostTwo
<1>4. \A i \in 1 .. Len(s) : s[i] \in 0 .. 255
  BY ElementOfSeq
<1>5. (\A i \in 1 .. n : s[i] \in 0 .. 255) /\ (\A i \in n + 1 .. Len(s) : s[i] \in 0 .. 255)
  BY <1>2, <1>3, <1>4
<1>6. /\ SubSeq(s, 1, n) \in Seq(0 .. 255)
      /\ Len(SubSeq(s, 1, n)) = IF 1 <= n THEN n - 1 + 1 ELSE 0
      /\ \A i \in 1 .. n - 1 + 1 : SubSeq(s, 1, n)[i] = s[1 + i - 1]
  BY <1>3, <1>5, SubSeqProperties
<1>7. /\ SubSeq(s, n + 1, Len(s)) \in Seq(0 .. 255)
      /\ Len(SubSeq(s, n + 1, Len(s))) = IF n + 1 <= Len(s) THEN Len(s) - (n + 1) + 1 ELSE 0
      /\ \A i \in 1 .. Len(s) - (n + 1) + 1 : SubSeq(s, n + 1, Len(s))[i] = s[n + 1 + i - 1]
  BY <1>3, <1>5, SubSeqProperties
<1> DEFINE p == SubSeq(s, 1, n)
           q == SubSeq(s, n + 1, Len(s))
           L == Len(s)
<1>8. /\ p \in Seq(0 .. 255) /\ Len(p) = n /\ q \in Seq(0 .. 255) /\ Len(q) = L - n
  <2> HIDE DEF p, q
  <2>1. /\ p \in Seq(0 .. 255) /\ q \in Seq(0 .. 255)
        /\ Len(p) = IF 1 <= n THEN n - 1 + 1 ELSE 0
        /\ Len(q) = IF n + 1 <= L THEN L - (n + 1) + 1 ELSE 0
    BY <1>6, <1>7 DEF p, q
  <2> HIDE DEF L
  <2> QED
    BY <1>2, <1>3, <2>1 DEF L
<1>9. (\A i \in 1 .. n : p[i] = s[i]) /\ (\A i \in 1 .. L - n : q[i] = s[n + i])
  <2> HIDE DEF p, q
  <2>1. /\ \A i \in 1 .. n - 1 + 1 : p[i] = s[1 + i - 1]
        /\ \A i \in 1 .. L - (n + 1) + 1 : q[i] = s[n + 1 + i - 1]
    BY <1>6, <1>7 DEF p, q
  <2>2. /\ L \in Int /\ n \in Int
    BY <1>3
  <2> HIDE DEF L
  <2>3. /\ n - 1 + 1 = n /\ L - (n + 1) + 1 = L - n
    BY <2>2
  <2>4. \A i \in Int : 1 + i - 1 = i /\ n + 1 + i - 1 = n + i
    BY <2>2
  <2> QED
    BY <2>1, <2>2, <2>3, <2>4
<1> QED
  BY <1>2, <1>3, <1>8, <1>9

\* It makes no difference where a poll stops within the bytes of an event.
LEMMA AfterSplit ==
  ASSUME NEW b, NEW s \in Seq(0 .. 255), Len(s) <= 2, NEW n \in Finds(s)
  PROVE  After(After(b, SubSeq(s, 1, n)), SubSeq(s, n + 1, Len(s))) = After(b, s)
<1> DEFINE p == SubSeq(s, 1, n)
           q == SubSeq(s, n + 1, Len(s))
<1>1. /\ Len(p) = n /\ Len(q) = Len(s) - n /\ Len(s) \in 0 .. 2 /\ n \in 0 .. Len(s)
      /\ \A i \in 1 .. n : p[i] = s[i]
      /\ \A i \in 1 .. Len(s) - n : q[i] = s[n + i]
  BY Split
<1> HIDE DEF p, q
<1>2. s # << >> => n # 0
  <2> SUFFICES ASSUME s # << >> PROVE n # 0
    OBVIOUS
  <2>1. n \in 1 .. Len(s)
    BY DEF Finds
  <2> QED
    BY <2>1
<1>3. Len(s) # 0 => s # << >>
  OBVIOUS
<1> DEFINE m == Len(s)
<1>4. Len(s) \in Nat
  BY LenProperties
<1> HIDE DEF m
<1>5. /\ m \in {0, 1, 2} /\ (m = 0 => n = 0 /\ m - n = 0) /\ (m = 1 /\ n # 0 => n = 1)
      /\ (m = 2 /\ n # 0 => n \in {1, 2})
  BY <1>1, <1>4, AtMostTwo DEF m
<1>8. After(After(b, p), q) = After(b, s)
  <2>1. CASE m = 0
    <3>1. Len(p) = 0 /\ Len(q) = 0
      BY <1>1, <1>5, <2>1 DEF m
    <3>2. After(b, p) = b /\ After(b, s) = b
      BY <2>1, <3>1 DEF After, m
    <3>3. After(b, q) = b
      BY <3>1 DEF After
    <3> QED
      BY <3>2, <3>3
  <2> DEFINE x == KbdProcData(b, s[1]).shift
  <2>2. CASE m = 1
    <3>1. n = 1
      BY <1>2, <1>3, <1>5, <2>2 DEF m
    <3>2. Len(p) = 1 /\ Len(q) = 0 /\ p[1] = s[1]
      BY <1>1, <2>2, <3>1 DEF m
    <3>3. After(b, p) = x /\ After(b, s) = x
      BY <2>2, <3>2 DEF After, m
    <3> HIDE DEF x
    <3>4. After(x, q) = x
      BY <3>2 DEF After
    <3> QED
      BY <3>3, <3>4
  <2>3. CASE m = 2 /\ n = 1
    <3>1. Len(p) = 1 /\ Len(q) = 1 /\ p[1] = s[1] /\ q[1] = s[2]
      BY <1>1, <2>3 DEF m
    <3>2. After(b, p) = x
      BY <3>1 DEF After
    <3>3. After(b, s) = KbdProcData(x, s[2]).shift
      BY <2>3 DEF After, m
    <3> HIDE DEF x
    <3>4. After(x, q) = KbdProcData(x, s[2]).shift
      BY <3>1 DEF After
    <3> QED
      BY <3>2, <3>3, <3>4
  <2>4. CASE m = 2 /\ n = 2
    <3>1. Len(p) = 2 /\ Len(q) = 0 /\ p[1] = s[1] /\ p[2] = s[2]
      BY <1>1, <2>4 DEF m
    <3> DEFINE y == KbdProcData(x, s[2]).shift
    <3>2. After(b, p) = y /\ After(b, s) = y
      BY <2>4, <3>1 DEF After, m
    <3> HIDE DEF y
    <3>3. After(y, q) = y
      BY <3>1 DEF After
    <3> QED
      BY <3>2, <3>3
  <2> QED
    BY <1>2, <1>3, <1>5, <2>1, <2>2, <2>3, <2>4 DEF m
<1> QED
  BY <1>8 DEF p, q

\* What serial_intr and kbd_intr leave, when the keyboard has n bytes for them.
LEMMA DrainedAgrees ==
  ASSUME ConsInv, NEW n \in Arrived
  PROVE  /\ Drained(n) \in Data /\ Agree(Drained(n))
         /\ Drained(n).shift = After(shift, SubSeq(kbd, 1, n))
<1> DEFINE s == SubSeq(kbd, 1, n)
           e == BytesStored(ConsData, com)
<1>1. s \in Seq(0 .. 255) /\ Len(s) = n /\ n \in 0 .. 2
  <2>1. kbd \in Seq(0 .. 255) /\ Len(kbd) <= 2
    BY DEF ConsInv
  <2>2. n \in Finds(kbd)
    BY DEF Arrived, Finds
  <2>3. /\ SubSeq(kbd, 1, n) \in Seq(0 .. 255) /\ Len(SubSeq(kbd, 1, n)) = n
        /\ Len(kbd) \in 0 .. 2 /\ n \in 0 .. Len(kbd)
    BY <2>1, <2>2, Split
  <2> QED
    BY <2>3
<1>2. com \in Seq(0 .. 255)
  <2>1. com \in Seq(SerialByte) /\ SerialByte \subseteq 0 .. 255
    BY ConsoleAssumption DEF ConsInv
  <2> QED
    BY <2>1, SeqMonotonic, ZenonT(30)
<1>3. ConsData \in Data /\ Agree(ConsData) /\ ConsData.shift = shift
  BY DEF ConsInv, ConsData
<1>4. e \in Data /\ e.shift = shift /\ Agree(e)
  BY <1>2, <1>3, BytesStoredAgree
<1>5. Drained(n) = KeysStored(e, s)
  BY DEF Drained, KeysStored, BytesStored, ConsData
<1> HIDE DEF e, s
<1>6. /\ KeysStored(e, s) \in Data /\ Agree(KeysStored(e, s))
      /\ Len(s) = 0 => KeysStored(e, s) = e
      /\ Len(s) = 1 => KeysStored(e, s) = StoreKey(e, s[1])
      /\ Len(s) = 2 => KeysStored(e, s) = StoreKey(StoreKey(e, s[1]), s[2])
  BY <1>1, <1>4, KeysStoredAgree
<1>7. KeysStored(e, s).shift = After(shift, s)
  <2>1. CASE n = 0
    BY <1>1, <1>4, <1>6, <2>1 DEF After
  <2>2. CASE n = 1
    <3>0. 1 \in 1 .. Len(s)
      BY <1>1, <2>2
    <3>1. s[1] \in 0 .. 255
      BY <1>1, <3>0, ElementOfSeq
    <3>2. StoreKey(e, s[1]).shift = KbdProcData(shift, s[1]).shift
      BY <1>4, <3>1, StoreKeyAgrees
    <3> QED
      BY <1>1, <1>6, <2>2, <3>2 DEF After
  <2>3. CASE n = 2
    <3>0. 1 \in 1 .. Len(s) /\ 2 \in 1 .. Len(s)
      BY <1>1, <2>3
    <3>1. s[1] \in 0 .. 255 /\ s[2] \in 0 .. 255
      BY <1>1, <3>0, ElementOfSeq
    <3> DEFINE f == StoreKey(e, s[1])
    <3>2. f \in Data /\ f.shift = KbdProcData(shift, s[1]).shift
      BY <1>4, <3>1, StoreKeyAgrees
    <3> HIDE DEF f
    <3>3. StoreKey(f, s[2]).shift = KbdProcData(f.shift, s[2]).shift
      BY <3>1, <3>2, StoreKeyAgrees
    <3>4. KeysStored(e, s) = StoreKey(f, s[2])
      BY <1>1, <1>6, <2>3 DEF f
    <3> QED
      BY <1>1, <2>3, <3>2, <3>3, <3>4 DEF After
  <2> QED
    BY <1>1, <2>1, <2>2, <2>3
<1> QED
  BY <1>5, <1>6, <1>7 DEF s

\* cons_getc, whoever calls it.
LEMMA ConsGetCKeeps ==
  ASSUME ConsInv, NEW n \in Arrived, NEW served, ConsGetC(n, Taken(Drained(n)), served)
  PROVE  ConsInv' /\ Taken(Drained(n)).c \in Chr
<1> DEFINE d == Drained(n)
           got == Taken(d)
<1>1. d \in Data /\ Agree(d) /\ d.shift = After(shift, SubSeq(kbd, 1, n))
  BY DrainedAgrees
<1> HIDE DEF d
<1>2. got.d \in Data /\ Agree(got.d) /\ got.d.shift = d.shift /\ got.c \in Chr
  BY <1>1, TakenAgrees
<1> HIDE DEF got
<1>3. /\ ring' = got.d.ring /\ unread' = got.d.unread /\ shift' = got.d.shift
      /\ com' = << >> /\ kbd' = SubSeq(kbd, n + 1, Len(kbd))
      /\ irq' = (irq \ served) \cup (IF n > 0 /\ Len(kbd) = 2 THEN {"kbd"} ELSE {})
      /\ down' = down
  BY DEF ConsGetC, got, d
<1>4. got.d = [ring |-> got.d.ring, unread |-> got.d.unread, shift |-> got.d.shift]
  BY <1>2 DEF Data, DataOf
<1>5. ConsData' = got.d
  BY <1>3, <1>4 DEF ConsData
<1>6. ConsData' \in Data
  BY <1>2, <1>5
<1>7. Agree(ConsData)'
  <2>1. Live(got.d.ring) = got.d.unread
    BY <1>2 DEF Agree
  <2>2. Live(ring)' = unread'
    BY <1>3, <2>1 DEF Live
  <2>3. ConsData.ring = ring /\ ConsData.unread = unread
    BY DEF ConsData
  <2>4. (ConsData.ring = ring /\ ConsData.unread = unread)'
    BY DEF ConsData
  <2> QED
    BY <2>2, <2>4 DEF Agree, Live
<1>8. kbd \in Seq(0 .. 255) /\ Len(kbd) <= 2 /\ n \in Finds(kbd)
  BY DEF ConsInv, Arrived, Finds
<1>9. kbd' \in Seq(0 .. 255) /\ Len(kbd') <= 2
  <2>1. /\ SubSeq(kbd, n + 1, Len(kbd)) \in Seq(0 .. 255)
        /\ Len(SubSeq(kbd, n + 1, Len(kbd))) = Len(kbd) - n
        /\ Len(kbd) \in 0 .. 2 /\ n \in 0 .. Len(kbd)
    BY <1>8, Split
  <2> DEFINE q == SubSeq(kbd, n + 1, Len(kbd))
  <2>2. kbd' = q /\ q \in Seq(0 .. 255) /\ Len(q) = Len(kbd) - n
    BY <1>3, <2>1
  <2> HIDE DEF q
  <2> QED
    BY <2>1, <2>2
<1>10. After(shift', kbd') = After(shift, kbd)
  BY <1>1, <1>2, <1>3, <1>8, AfterSplit
<1>11. Follows(After(shift', kbd'), down')
  BY <1>3, <1>10 DEF ConsInv
<1>12. Follows(After(shift, kbd), down)'
  BY <1>11 DEF Follows, After
<1>13. irq' \subseteq {"kbd", "com"} /\ com' \in Seq(SerialByte) /\ down' \subseteq Key
  <2>1. irq \subseteq {"kbd", "com"} /\ down \subseteq Key
    BY DEF ConsInv
  <2>2. irq' \subseteq {"kbd", "com"}
    BY <1>3, <2>1
  <2>3. com' \in Seq(SerialByte)
    BY <1>3, EmptySeq
  <2> QED
    BY <1>3, <2>1, <2>2, <2>3
<1> QED
  BY <1>2, <1>6, <1>7, <1>9, <1>12, <1>13 DEF ConsInv, got, d

-----------------------------------------------------------------------------
(* The line and the debug registers *)

\* readline keeps the line within its buffer, a terminating 0 included.
LEMMA ReadLineKeeps ==
  ASSUME LineInv, NEW c \in Chr
  PROVE  ReadLine(line, c).line \in Seq(Chr) /\ Len(ReadLine(line, c).line) < BufSize
<1>0. line \in Seq(Chr) /\ Len(line) < BufSize /\ BufSize \in Nat /\ Len(line) \in Nat
  BY ConsoleAssumption DEF LineInv
<1>1. Append(line, c) \in Seq(Chr) /\ Len(Append(line, c)) = Len(line) + 1
  BY <1>0
<1>2. Len(line) > 0 => Front(line) \in Seq(Chr) /\ Len(Front(line)) = Len(line) - 1
  <2> SUFFICES ASSUME Len(line) > 0
               PROVE  Front(line) \in Seq(Chr) /\ Len(Front(line)) = Len(line) - 1
    OBVIOUS
  <2>1. Front(line) = SubSeq(line, 1, Len(line) - 1)
    BY DEF Front
  <2>2. \A i \in 1 .. Len(line) : line[i] \in Chr
    BY <1>0, ElementOfSeq
  <2>3. Len(line) - 1 \in Int /\ \A i \in 1 .. Len(line) - 1 : line[i] \in Chr
    BY <1>0, <2>2
  <2>4. /\ SubSeq(line, 1, Len(line) - 1) \in Seq(Chr)
        /\ Len(SubSeq(line, 1, Len(line) - 1))
             = IF 1 <= Len(line) - 1 THEN Len(line) - 1 - 1 + 1 ELSE 0
    BY <2>3, SubSeqProperties
  <2>5. /\ Front(line) \in Seq(Chr)
        /\ Len(Front(line)) = IF 1 <= Len(line) - 1 THEN Len(line) - 1 - 1 + 1 ELSE 0
    BY <2>1, <2>4
  <2> DEFINE l == Len(line)
             f == Len(Front(line))
  <2>6. l \in Nat /\ l > 0 /\ f = IF 1 <= l - 1 THEN l - 1 - 1 + 1 ELSE 0
    BY <1>0, <2>5
  <2> HIDE DEF l, f
  <2>7. f = l - 1
    BY <2>6
  <2> QED
    BY <2>5, <2>7 DEF l, f
<1>3. ReadLine(line, c).line =
        IF c >= 32 /\ Len(line) < BufSize - 1 THEN Append(line, c)
        ELSE IF c = 8 /\ Len(line) > 0 THEN Front(line) ELSE line
  BY DEF ReadLine
<1> QED
  BY <1>0, <1>1, <1>2, <1>3

\* debug_start: a second stop, before the registers were given back, saves nothing.
LEMMA EnterMonitorKeeps ==
  ASSUME RegInv, mode = "run", EnterMonitor
  PROVE  RegInv' /\ LineInv' /\ dr' = dr
<1>1. CASE saved
  <2>1. /\ saved' = TRUE /\ dr' = dr /\ hw' = hw /\ mode' = "monitor" /\ line' = << >>
        /\ stepping' = stepping
    BY <1>1 DEF EnterMonitor, DebugStart
  <2> QED
    BY <1>1, <2>1, ConsoleAssumption DEF RegInv, RegistersArmed, LineInv, IsDr
<1>2. CASE ~saved
  <2>1. /\ saved' = TRUE /\ dr' = [local |-> hw.local, control |-> hw.control]
        /\ hw' = [hw EXCEPT !.control = {}] /\ mode' = "monitor" /\ line' = << >>
        /\ stepping' = stepping
    BY <1>2 DEF EnterMonitor, DebugStart
  <2>2. hw = dr /\ IsDr(hw)
    BY <1>2 DEF RegInv, RegistersArmed
  <2>3. dr' = dr
    BY <2>1, <2>2 DEF IsDr
  <2>4. hw' = [local |-> hw.local, control |-> {}]
    BY <2>1, <2>2 DEF IsDr
  <2>5. IsDr(hw)' /\ IsDr(dr)' /\ hw'.control = {}
    BY <2>2, <2>3, <2>4 DEF IsDr
  <2> QED
    BY <2>1, <2>3, <2>5, ConsoleAssumption DEF RegInv, RegistersArmed, LineInv
<1> QED
  BY <1>1, <1>2 DEF RegInv

\* The commands that set and delete leave a proper pair of registers.
LEMMA SettingsAreDr ==
  ASSUME NEW d, IsDr(d)
  PROVE  /\ \A argv : \A e \in MonBreakpoint(d, argv) : IsDr(e)
         /\ \A argv : IsDr(MonDeleteDr(d, argv))
<1>1. \A reg, addr, type, len : IsDr(DebugEnableDr(d, reg, addr, type, len))
  BY DEF IsDr, DebugEnableDr
<1>2. \A reg : IsDr(DebugDisableDr(d, reg))
  BY DEF IsDr, DebugDisableDr
<1>3. \A st : \A e \in Enabled(d, st) : IsDr(e)
  BY <1>1 DEF Enabled
<1> QED
  BY <1>2, <1>3 DEF MonBreakpoint, MonDeleteDr

\* The commands: continue gives the registers back, step leaves them saved.
LEMMA RunCmdKeeps ==
  ASSUME RegInv, mode \in {"monitor", "panic"}, NEW argv, RunCmd(argv)
  PROVE  RegInv'
<1> DEFINE cmds == IF argv = << >> THEN {} ELSE {Command[name] : name \in Found(argv[1])}
<1>1. \/ UNCHANGED <<mode, saved, dr, hw, stepping>>
      \/ \E cmd \in cmds : MonContinue \/ MonStep \/ MonSet(cmd)
  BY DEF RunCmd
<1>2. CASE UNCHANGED <<mode, saved, dr, hw, stepping>>
  BY <1>2 DEF RegInv, RegistersArmed, IsDr
<1>3. CASE MonContinue
  <2>1. /\ saved /\ mode' = "run" /\ stepping' = stepping \ {"current"} /\ saved' = FALSE
        /\ hw' = dr /\ dr' = dr
    BY <1>3 DEF MonContinue, DebugEnd, RegInv, RegistersArmed
  <2> QED
    BY <2>1 DEF RegInv, RegistersArmed, IsDr
<1>4. CASE MonStep
  <2>1. /\ mode = "monitor" /\ mode' = "run" /\ stepping' = stepping \cup {"current"}
        /\ saved' = saved /\ hw' = hw /\ dr' = dr
    BY <1>4 DEF MonStep
  <2> QED
    BY <2>1 DEF RegInv, RegistersArmed, IsDr
<1>5. ASSUME NEW cmd \in cmds, MonSet(cmd) PROVE RegInv'
  <2>1. mode' = mode /\ saved' = saved /\ hw' = hw /\ stepping' = stepping
    BY <1>5 DEF MonSet
  <2>2. IsDr(dr) /\ IsDr(hw)
    BY DEF RegInv
  <2>3. IsDr(dr')
    BY <1>5, <2>2, SettingsAreDr DEF MonSet
  <2>4. IsDr(dr)' /\ IsDr(hw)'
    BY <2>1, <2>2, <2>3 DEF IsDr
  <2> QED
    BY <2>1, <2>4 DEF RegInv, RegistersArmed
<1> QED
  BY <1>1, <1>2, <1>3, <1>4, <1>5

-----------------------------------------------------------------------------
(* Steps *)

\* Every step keeps the invariant, and only commands change what is set.
LEMMA NextMonInv ==
  ASSUME MonInv, [Next]_vars
  PROVE  MonInv' /\ (dr' # dr => mode \in {"monitor", "panic"})
<1>0. ConsInv /\ RegInv /\ LineInv
  BY DEF MonInv
<1>1. UNCHANGED monVars => RegInv' /\ LineInv' /\ dr' = dr
  BY <1>0 DEF monVars, RegInv, LineInv, RegistersArmed, IsDr
<1>2. ASSUME NEW k \in Key, NEW release \in BOOLEAN, KeyEvent(k, release), UNCHANGED monVars
      PROVE  MonInv' /\ dr' = dr
  BY <1>0, <1>1, <1>2, KeyEventKeeps DEF MonInv
<1>3. ASSUME NEW b \in SerialByte, SerialArrives(b), UNCHANGED monVars
      PROVE  MonInv' /\ dr' = dr
  BY <1>0, <1>1, <1>3, SerialArrivesKeeps DEF MonInv
<1>4. ASSUME NEW from \in {"kbd", "com"}, NEW n \in 0 .. 2, Interrupt(from, n)
      PROVE  MonInv' /\ dr' = dr
  <2> DEFINE got == Taken(Drained(n))
  <2>1. /\ mode = "run" /\ n \in Arrived /\ ConsGetC(n, got, {from})
        /\ EnterMonitor \/ UNCHANGED monVars
    BY <1>4 DEF Interrupt
  <2>2. ConsInv'
    BY <1>0, <2>1, ConsGetCKeeps
  <2> HIDE DEF got
  <2>3. RegInv' /\ LineInv' /\ dr' = dr
    BY <1>0, <1>1, <2>1, EnterMonitorKeeps
  <2> QED
    BY <2>2, <2>3 DEF MonInv
<1>5. ASSUME DebugTrap
      PROVE  MonInv' /\ dr' = dr
  <2>1. mode = "run" /\ EnterMonitor /\ UNCHANGED consVars
    BY <1>5 DEF DebugTrap
  <2> QED
    BY <1>0, <2>1, ConsUnchanged, EnterMonitorKeeps DEF MonInv
<1>6. ASSUME NEW n \in 0 .. 2, MonitorReads(n)
      PROVE  MonInv' /\ mode \in {"monitor", "panic"}
  <2> DEFINE got == Taken(Drained(n))
             r == ReadLine(line, got.c)
  <2>1. /\ mode \in {"monitor", "panic"} /\ n \in Arrived /\ ConsGetC(n, got, {})
        /\ \/ line' = << >> /\ RunCmd(Parse(Append(r.line, 0)))
           \/ line' = << >> /\ mode' = "lost" /\ UNCHANGED <<saved, dr, hw, stepping>>
           \/ line' = r.line /\ UNCHANGED <<mode, saved, dr, hw, stepping>>
    BY <1>6 DEF MonitorReads, RunLine
  <2>2. ConsInv' /\ got.c \in Chr
    BY <1>0, <2>1, ConsGetCKeeps
  <2> HIDE DEF got
  <2>3. r.line \in Seq(Chr) /\ Len(r.line) < BufSize
    BY <1>0, <2>2, ReadLineKeeps
  <2> HIDE DEF r
  <2>4. LineInv'
    <3>1. CASE line' = << >>
      BY <3>1, ConsoleAssumption DEF LineInv
    <3>2. CASE line' = r.line
      BY <2>3, <3>2 DEF LineInv
    <3> QED
      BY <2>1, <3>1, <3>2
  <2>5. UNCHANGED <<mode, saved, dr, hw, stepping>> => RegInv'
    BY <1>0 DEF RegInv, RegistersArmed, IsDr
  <2>6. mode' = "lost" /\ UNCHANGED <<saved, dr, hw, stepping>> => RegInv'
    BY <1>0 DEF RegInv, RegistersArmed, IsDr
  <2>7. RegInv'
    BY <1>0, <2>1, <2>5, <2>6, RunCmdKeeps
  <2> QED
    BY <2>1, <2>2, <2>4, <2>7 DEF MonInv
<1>7. ASSUME Panic
      PROVE  MonInv' /\ dr' = dr
  <2>1. /\ mode = "run" /\ mode' = "panic" /\ line' = << >> /\ saved' = saved /\ dr' = dr
        /\ hw' = hw
        /\ stepping' = stepping /\ UNCHANGED consVars
    BY <1>7 DEF Panic
  <2>2. RegInv' /\ LineInv'
    BY <1>0, <2>1, ConsoleAssumption DEF RegInv, RegistersArmed, IsDr, LineInv
  <2> QED
    BY <1>0, <2>1, <2>2, ConsUnchanged DEF MonInv
<1>8. ASSUME Switch \/ Exit
      PROVE  MonInv' /\ dr' = dr
  <2>1. /\ mode' = mode /\ line' = line /\ saved' = saved /\ dr' = dr /\ hw' = hw
        /\ stepping' \subseteq {"current", "other"} /\ UNCHANGED consVars
    BY <1>8 DEF Switch, Exit, Other
  <2>2. RegInv' /\ LineInv'
    BY <1>0, <2>1 DEF RegInv, RegistersArmed, IsDr, LineInv
  <2> QED
    BY <1>0, <2>1, <2>2, ConsUnchanged DEF MonInv
<1>9. ASSUME Lost \/ UNCHANGED vars
      PROVE  MonInv' /\ dr' = dr
  <2>1. UNCHANGED vars
    BY <1>9 DEF Lost
  <2> QED
    BY <1>0, <1>1, <2>1, ConsUnchanged DEF MonInv, vars, monVars
<1> QED
  BY <1>2, <1>3, <1>4, <1>5, <1>6, <1>7, <1>8, <1>9 DEF Next

-----------------------------------------------------------------------------
(* Theorems *)

\* What the invariant says of the properties.
LEMMA MonInvRing ==
  ASSUME MonInv
  PROVE  RingExact /\ ShiftFollowsKeys /\ RegistersArmed
<1>1. ConsInv /\ RegInv /\ LineInv
  BY DEF MonInv
<1>2. ring \in RingOf(Chr) /\ shift \in SUBSET Bits
  BY <1>1, DataFields DEF ConsInv, ConsData
<1>3. ring.rpos \in DOMAIN NoCells /\ ring.wpos \in DOMAIN NoCells
  BY <1>2 DEF RingOf, NoCells, N
<1>4. TypeOK
  BY <1>1, <1>2, <1>3 DEF TypeOK, ConsInv, RegInv, LineInv, Bits
<1>5. Live(ring) = unread
  BY <1>1 DEF ConsInv, Agree, ConsData
<1>6. ShiftFollowsKeys
  <2> SUFFICES ASSUME kbd = << >>
               PROVE  Follows(shift, down)
    BY DEF Follows, ShiftFollowsKeys
  <2>1. After(shift, kbd) = shift
    BY DEF After
  <2> QED
    BY <1>1, <2>1 DEF ConsInv
<1> QED
  BY <1>1, <1>4, <1>5, <1>6 DEF RingExact, RegInv

\* The console and the debugger keep the invariant, whatever comes in which order.
THEOREM MonitorInvariant == Spec => []MonInv
<1>1. Init => MonInv
  BY InitMonInv
<1>2. MonInv /\ [Next]_vars => MonInv'
  BY NextMonInv
<1> QED
  BY <1>1, <1>2, PTL DEF Spec

\* cons_intr and cons_getc: every character is read once and in order, over every
\* turn of the ring and after every overflow, for a ring of any size.
THEOREM RingAlwaysExact == Spec => []RingExact
<1>1. MonInv => RingExact
  BY MonInvRing
<1> QED
  BY <1>1, MonitorInvariant, PTL

\* kbd_proc_data: between two key events the shift state is that of the keys held, for
\* any keys with and without the prefix, however their bytes were read.
THEOREM ShiftAlwaysFollows == Spec => []ShiftFollowsKeys
<1>1. MonInv => ShiftFollowsKeys
  BY MonInvRing
<1> QED
  BY <1>1, MonitorInvariant, PTL

\* debug_start and debug_end: while the kernel runs the processor has the registers that
\* were set, or none until "continue" when it was told to step; the debugger has none.
THEOREM RegistersAlwaysArmed == Spec => []RegistersArmed
<1>1. MonInv => RegistersArmed
  BY MonInvRing
<1> QED
  BY <1>1, MonitorInvariant, PTL

\* kdebug.c: no trap, step, process switch or exit changes the registers that are set.
THEOREM OnlyCommandsSet == Spec => BreakpointsKept
<1>1. MonInv /\ [Next]_vars => [dr' # dr => mode \in {"monitor", "panic"}]_vars
  BY NextMonInv
<1> QED
  BY <1>1, MonitorInvariant, PTL DEF BreakpointsKept, Spec
=============================================================================
