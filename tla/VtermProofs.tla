---------------------------- MODULE VtermProofs ----------------------------
(***************************************************************************)
(* Proofs about the virtual terminals, for every size of the display and   *)
(* of the ring, every number of terminals and every keyboard.              *)
(***************************************************************************)
EXTENDS Vterm, TLAPS

W == DISPLAY_WIDTH
N == SCROLL_BUFSIZE

Aligned(i) == i % W = 0

-----------------------------------------------------------------------------
(* Division, for a divisor that is only known to be positive.               *)
LEMMA Division ==
  ASSUME NEW x \in Int, NEW n \in Nat \ {0}
  PROVE  /\ x \div n \in Int /\ x % n \in 0 .. (n - 1)
         /\ x = n * (x \div n) + (x % n)
OBVIOUS

LEMMA QuotientIsUnique ==
  ASSUME NEW n \in Nat \ {0}, NEW q \in Int, NEW p \in Int,
         NEW r \in 0 .. (n - 1), NEW s \in 0 .. (n - 1), n * q + r = n * p + s
  PROVE  q = p /\ r = s
  <1>1. CASE q < p
    <2>1. n * (p - q) >= n /\ n * (p - q) = n * p - n * q
      BY <1>1
    <2>. QED BY <2>1
  <1>2. CASE p < q
    <2>1. n * (q - p) >= n /\ n * (q - p) = n * q - n * p
      BY <1>2
    <2>. QED BY <2>1
  <1>. QED BY <1>1, <1>2

LEMMA MultipleIsAligned ==
  ASSUME NEW n \in Nat \ {0}, NEW q \in Int
  PROVE  (n * q) % n = 0 /\ (n * q) \div n = q
  <1>1. n * q \in Int
    OBVIOUS
  <1>2. /\ (n * q) \div n \in Int /\ (n * q) % n \in 0 .. (n - 1)
        /\ n * q = n * ((n * q) \div n) + ((n * q) % n)
    BY <1>1, Division
  <1>. QED BY <1>2, QuotientIsUnique

(* Inside the ring, and once round it.                                      *)
LEMMA Remainder ==
  ASSUME NEW n \in Nat \ {0}, NEW x \in 0 .. (3 * n - 1)
  PROVE  x % n = IF x < n THEN x ELSE IF x < 2 * n THEN x - n ELSE x - 2 * n
  <1>1. /\ x \div n \in Int /\ x % n \in 0 .. (n - 1)
        /\ x = n * (x \div n) + (x % n)
    BY Division
  <1>2. CASE x < n
    BY <1>1, <1>2, QuotientIsUnique, x = n * 0 + x
  <1>3. CASE n <= x /\ x < 2 * n
    BY <1>1, <1>3, QuotientIsUnique, x = n * 1 + (x - n), x - n \in 0 .. (n - 1)
  <1>4. CASE 2 * n <= x
    BY <1>1, <1>4, QuotientIsUnique, x = n * 2 + (x - 2 * n), x - 2 * n \in 0 .. (n - 1)
  <1>. QED BY <1>2, <1>3, <1>4
-----------------------------------------------------------------------------
(* The ring holds whole rows, and at least two screens of them.             *)
LEMMA Sizes ==
  /\ W \in Nat \ {0} /\ DISPLAY_SIZE \in Nat \ {0} /\ N \in Nat \ {0}
  /\ W <= DISPLAY_SIZE /\ 2 * DISPLAY_SIZE <= N
  /\ Aligned(N) /\ Aligned(DISPLAY_SIZE)
  <1>1. /\ W \in Nat \ {0} /\ DISPLAY_HEIGHT \in Nat \ {0} /\ Screens \in Nat \ {0, 1}
        /\ DISPLAY_SIZE = W * DISPLAY_HEIGHT /\ N = Screens * DISPLAY_SIZE
    BY VtermAssumption DEF W, N, DISPLAY_SIZE, SCROLL_BUFSIZE
  <1>2. DISPLAY_SIZE \in Nat \ {0} /\ W <= DISPLAY_SIZE
    <2>1. W * DISPLAY_HEIGHT = W + W * (DISPLAY_HEIGHT - 1)
      BY <1>1
    <2>2. DISPLAY_HEIGHT - 1 \in Nat /\ W * (DISPLAY_HEIGHT - 1) \in Nat
      BY <1>1
    <2>. QED BY <1>1, <2>1, <2>2
  <1>3. N \in Nat \ {0} /\ 2 * DISPLAY_SIZE <= N
    <2>1. N = 2 * DISPLAY_SIZE + (Screens - 2) * DISPLAY_SIZE
      BY <1>1, <1>2
    <2>2. Screens - 2 \in Nat /\ (Screens - 2) * DISPLAY_SIZE \in Nat
      BY <1>1, <1>2
    <2>. QED BY <1>2, <2>1, <2>2
  <1>4. Aligned(DISPLAY_SIZE)
    BY <1>1, MultipleIsAligned DEF Aligned
  <1>5. Aligned(N)
    <2>1. N = W * (Screens * DISPLAY_HEIGHT) /\ Screens * DISPLAY_HEIGHT \in Int
      BY <1>1
    <2>. QED BY <1>1, <2>1, MultipleIsAligned DEF Aligned
  <1>. QED BY <1>1, <1>2, <1>3, <1>4, <1>5

LEMMA AlignedSum ==
  ASSUME NEW a \in Int, NEW b \in Int, Aligned(a), Aligned(b)
  PROVE  Aligned(a + b) /\ Aligned(a - b)
  <1>1. /\ a \div W \in Int /\ b \div W \in Int
        /\ a = W * (a \div W) /\ b = W * (b \div W)
    BY Division, Sizes DEF Aligned
  <1>2. PICK q \in Int, p \in Int : a = W * q /\ b = W * p
    BY <1>1
  <1>3. a + b = W * (q + p) /\ a - b = W * (q - p) /\ q + p \in Int /\ q - p \in Int
    BY <1>2, Sizes
  <1>. QED BY <1>3, Sizes, MultipleIsAligned DEF Aligned

(* Two starts of rows are a row apart, or the same.                         *)
LEMMA AlignedApart ==
  ASSUME NEW a \in Int, NEW b \in Int, Aligned(a), Aligned(b), a < b
  PROVE  a + W <= b
  <1>1. /\ a \div W \in Int /\ b \div W \in Int
        /\ a = W * (a \div W) /\ b = W * (b \div W)
    BY Division, Sizes DEF Aligned
  <1>2. PICK q \in Int, p \in Int : a = W * q /\ b = W * p
    BY <1>1
  <1>3. p - q >= 1
    <2>1. CASE p <= q
      <3>1. W * (q - p) \in Nat /\ W * (q - p) = W * q - W * p
        BY <2>1, Sizes
      <3>. QED BY <1>2, <3>1, Sizes
    <2>. QED BY <2>1
  <1>4. W * (p - q) = W + W * (p - q - 1) /\ W * (p - q - 1) \in Nat
    BY <1>3, Sizes
  <1>5. W * (p - q) = b - a
    BY <1>2, Sizes
  <1>. QED BY <1>4, <1>5, Sizes

LEMMA WidthIsAligned == Aligned(W) /\ Aligned(0) /\ 0 \in Place /\ W \in Place
  <1>1. W * 1 = W /\ W * 0 = 0
    BY Sizes
  <1>2. W < N
    BY Sizes
  <1>. QED BY <1>1, <1>2, Sizes, MultipleIsAligned DEF Aligned, Place, N
-----------------------------------------------------------------------------
(* What the operators on places do, turn by turn of the ring.               *)
LEMMA Dist ==
  ASSUME NEW to \in Place, NEW from \in Place
  PROVE  /\ circ_dist(to, from) = IF to >= from THEN to - from ELSE to - from + N
         /\ circ_dist(to, from) \in Place
  <1>1. PICK x \in 0 .. (3 * N - 1) : x = to - from + N
    BY Sizes DEF Place, N
  <1>2. x % N = IF x < N THEN x ELSE IF x < 2 * N THEN x - N ELSE x - 2 * N
    BY Sizes, Remainder
  <1>3. circ_dist(to, from) = x % N
    BY <1>1 DEF circ_dist, N
  <1>. QED BY <1>1, <1>2, <1>3, Sizes DEF Place, N

LEMMA Add ==
  ASSUME NEW p \in Place, NEW a \in (-N) .. N
  PROVE  /\ buf_add(p, a) = IF p + a < 0 THEN p + a + N ELSE IF p + a < N THEN p + a ELSE p + a - N
         /\ buf_add(p, a) \in Place
  <1>1. PICK x \in 0 .. (3 * N - 1) : x = p + a + N
    BY Sizes DEF Place, N
  <1>2. x % N = IF x < N THEN x ELSE IF x < 2 * N THEN x - N ELSE x - 2 * N
    BY Sizes, Remainder
  <1>3. buf_add(p, a) = x % N
    BY <1>1 DEF buf_add, N
  <1>. QED BY <1>1, <1>2, <1>3, Sizes DEF Place, N

LEMMA Row ==
  ASSUME NEW i \in Place
  PROVE  /\ RowOf(i) \in Place /\ Aligned(RowOf(i))
         /\ RowOf(i) <= i /\ i < RowOf(i) + W /\ RowOf(i) + W <= N
  <1>1. PICK q \in Int, r \in 0 .. (W - 1) : q = i \div W /\ i = W * q + r
    <2>1. i \in Int /\ W \in Nat \ {0}
      BY Sizes DEF Place
    <2>. QED BY <2>1, Division
  <1>2. RowOf(i) = W * q /\ RowOf(i) \in Int
    BY <1>1, Sizes DEF RowOf, W
  <1>3. Aligned(RowOf(i)) /\ RowOf(i) <= i /\ i < RowOf(i) + W
    <2>1. Aligned(RowOf(i))
      BY <1>2, Sizes, MultipleIsAligned DEF Aligned
    <2>2. i = RowOf(i) + r
      BY <1>1, <1>2
    <2>. QED BY <1>2, <2>1, <2>2, Sizes
  <1>4. RowOf(i) + W <= N
    BY <1>2, <1>3, Sizes, AlignedApart DEF Place, N
  <1>5. -W < RowOf(i)
    BY <1>2, <1>3, Sizes DEF Place, N
  <1>6. RowOf(i) >= 0
    <2>1. CASE RowOf(i) < 0
      BY <1>2, <1>3, <1>5, <2>1, WidthIsAligned, AlignedApart, Sizes
    <2>. QED BY <1>2, <2>1
  <1>. QED BY <1>2, <1>3, <1>4, <1>6, Sizes DEF Place, N

LEMMA NextRow ==
  ASSUME NEW i \in Place
  PROVE  /\ next_row(i) = IF RowOf(i) + W = N THEN 0 ELSE RowOf(i) + W
         /\ next_row(i) \in Place /\ Aligned(next_row(i))
  <1>1. /\ RowOf(i) \in Place /\ Aligned(RowOf(i)) /\ RowOf(i) + W <= N
    BY Row
  <1>2. (i \div W + 1) * W = RowOf(i) + W
    <2>1. i \div W \in Int
      BY Division, Sizes DEF Place, N
    <2>2. PICK q \in Int : q = i \div W
      BY <2>1
    <2>. QED BY <2>2, Sizes DEF RowOf, W
  <1>3. PICK x \in 0 .. (3 * N - 1) : x = RowOf(i) + W
    BY <1>1, Sizes DEF Place, N
  <1>4. x % N = IF x < N THEN x ELSE IF x < 2 * N THEN x - N ELSE x - 2 * N
    BY Sizes, Remainder
  <1>5. next_row(i) = x % N
    BY <1>2, <1>3 DEF next_row, W, N
  <1>6. Aligned(RowOf(i) + W)
    BY <1>1, WidthIsAligned, AlignedSum, Sizes DEF Place, N
  <1>. QED BY <1>1, <1>3, <1>4, <1>5, <1>6, WidthIsAligned, Sizes DEF Place, N

LEMMA RowOfAligned ==
  ASSUME NEW i \in Place, Aligned(i)
  PROVE  RowOf(i) = i
  <1>1. /\ RowOf(i) \in Place /\ Aligned(RowOf(i)) /\ RowOf(i) <= i /\ i < RowOf(i) + W
    BY Row
  <1>2. RowOf(i) \in Int /\ i \in Int
    BY <1>1 DEF Place
  <1>. QED BY <1>1, <1>2, AlignedApart, Sizes
-----------------------------------------------------------------------------
(* The cursor c goes one place, or to the next row, in the text from h to t: *)
(* it passes the start of no row, and reaches the tail or stays in the text. *)
LEMMA CursorSteps ==
  ASSUME NEW h \in Place, NEW t \in Place, NEW c \in Place, NEW d \in {next_row(c), buf_add(c, 1)},
         Aligned(h), Aligned(t), circ_dist(c, h) < circ_dist(t, h)
  PROVE  /\ d \in Place /\ circ_dist(d, c) \in 1 .. W
         /\ circ_dist(d, c) >= circ_dist(t, c) <=> d = t
         /\ d # t => circ_dist(d, h) < circ_dist(t, h)
         /\ \A a \in Place : Aligned(a) /\ circ_dist(c, h) < circ_dist(a, h)
                            => circ_dist(d, h) <= circ_dist(a, h)
         /\ d = t => circ_dist(t, c) <= W
  <1>1. PICK r \in Place : /\ r = RowOf(c) /\ Aligned(r)
                           /\ r <= c /\ c < r + W /\ r + W <= N
    BY Row
  <1>2. /\ d \in Place
        /\ d \in {c + 1, r + W} \/ (d = 0 /\ r + W = N)
    <2>1. 1 \in (-N) .. N
      BY Sizes
    <2>2. /\ buf_add(c, 1) = IF c + 1 < 0 THEN c + 1 + N ELSE IF c + 1 < N THEN c + 1 ELSE c + 1 - N
          /\ buf_add(c, 1) \in Place
      BY <2>1, Add
    <2>3. /\ next_row(c) = IF r + W = N THEN 0 ELSE r + W
          /\ next_row(c) \in Place
      BY <1>1, NextRow
    <2>. QED BY <1>1, <2>2, <2>3, Sizes DEF Place, N
  <1>3. ASSUME NEW a \in Place, Aligned(a)
        PROVE  a <= r \/ r + W <= a
    BY <1>1, <1>3, AlignedApart, Sizes DEF Place, N
  <1>4. circ_dist(d, c) = IF d >= c THEN d - c ELSE d - c + N
    BY <1>2, Dist
  <1>5. circ_dist(d, c) \in 1 .. W
    BY <1>1, <1>2, <1>4, Sizes DEF Place, N
  <1>6. ASSUME NEW a \in Place, Aligned(a), circ_dist(c, h) < circ_dist(a, h)
        PROVE  /\ circ_dist(d, h) <= circ_dist(a, h) \/ (d = h /\ a # h)
               /\ d = h => FALSE
    <2>1. /\ circ_dist(c, h) = IF c >= h THEN c - h ELSE c - h + N
          /\ circ_dist(a, h) = IF a >= h THEN a - h ELSE a - h + N
          /\ circ_dist(d, h) = IF d >= h THEN d - h ELSE d - h + N
      BY <1>2, Dist
    <2>2. (a <= r \/ r + W <= a) /\ (h <= r \/ r + W <= h)
      BY <1>3, <1>6
    <2>. QED BY <1>1, <1>2, <1>6, <2>1, <2>2, Sizes DEF Place, N
  <1>. QED
    <2>1. circ_dist(t, c) = IF t >= c THEN t - c ELSE t - c + N
      BY Dist
    <2>2. (t <= r \/ r + W <= t) /\ (h <= r \/ r + W <= h)
      BY <1>3
    <2>3. /\ circ_dist(c, h) = IF c >= h THEN c - h ELSE c - h + N
          /\ circ_dist(t, h) = IF t >= h THEN t - h ELSE t - h + N
          /\ circ_dist(d, h) = IF d >= h THEN d - h ELSE d - h + N
      BY <1>2, Dist
    <2>4. circ_dist(d, c) >= circ_dist(t, c) <=> d = t
      BY <1>1, <1>2, <1>4, <2>1, <2>2, <2>3, Sizes DEF Place, N
    <2>5. d # t => circ_dist(d, h) < circ_dist(t, h)
      BY <1>1, <1>2, <2>2, <2>3, Sizes DEF Place, N
    <2>. QED BY <1>2, <1>5, <1>6, <2>4, <2>5
-----------------------------------------------------------------------------
TermRec == [vt_head : Place, vt_tail : Place, vt_top : Place, vt_cursor : Place,
            vt_buf : [Place -> Char \cup {Blank}]]

Sound(v) ==
  /\ v \in TermRec
  /\ Aligned(v.vt_head) /\ Aligned(v.vt_tail) /\ Aligned(v.vt_top)
  /\ Within(v, v.vt_cursor)

Control == {"BS", "CR", "NL"}

(* The text after the character c, where the cursor is.                     *)
Put(v, c) == IF c \in Char THEN [v.vt_buf EXCEPT ![v.vt_cursor] = c] ELSE v.vt_buf

(* A row more: at the tail, and one less at the head if the ring is full.   *)
Grown(v, buf) ==
  [vt_head   |-> IF next_row(v.vt_tail) = v.vt_head THEN next_row(v.vt_head) ELSE v.vt_head,
   vt_tail   |-> next_row(v.vt_tail),
   vt_top    |-> v.vt_top,
   vt_cursor |-> v.vt_tail,
   vt_buf    |-> [i \in Place |-> IF circ_dist(i, v.vt_tail) < W THEN Blank ELSE buf[i]]]

LEMMA TailAdvances ==
  ASSUME NEW v, Sound(v)
  PROVE  [advance_tail(v, v.vt_tail) EXCEPT !.vt_cursor = v.vt_tail] = Grown(v, v.vt_buf)
  <1>1. PICK h \in Place, t \in Place, p \in Place :
          /\ h = v.vt_head /\ t = v.vt_tail /\ p = next_row(t)
          /\ Aligned(h) /\ Aligned(t) /\ Aligned(p) /\ h # t
          /\ p = IF t + W = N THEN 0 ELSE t + W
    <2>1. v.vt_head \in Place /\ v.vt_tail \in Place /\ v.vt_cursor \in Place
      BY DEF Sound, TermRec
    <2>2. /\ next_row(v.vt_tail) \in Place /\ Aligned(next_row(v.vt_tail))
          /\ next_row(v.vt_tail) = IF v.vt_tail + W = N THEN 0 ELSE v.vt_tail + W
      BY <2>1, NextRow, RowOfAligned DEF Sound
    <2>3. v.vt_head # v.vt_tail
      <3>1. SUFFICES ASSUME v.vt_head = v.vt_tail PROVE FALSE
        OBVIOUS
      <3>2. circ_dist(v.vt_tail, v.vt_head) = 0 /\ circ_dist(v.vt_cursor, v.vt_head) \in Place
        BY <2>1, <3>1, Dist DEF Place
      <3>. QED BY <3>2 DEF Sound, Within, Place
    <2>. QED BY <2>1, <2>2, <2>3 DEF Sound
  <1>2. h + W <= t \/ t + W <= h
    BY <1>1, AlignedApart DEF Place
  <1>3. h + W <= N /\ t + W <= N
    BY <1>1, Row, RowOfAligned
  <1>4. /\ circ_dist(t, h) = IF t >= h THEN t - h ELSE t - h + N
        /\ circ_dist(t, p) = IF t >= p THEN t - p ELSE t - p + N
        /\ circ_dist(p, t) = IF p >= t THEN p - t ELSE p - t + N
    BY Dist
  <1>5. circ_dist(t, h) >= circ_dist(t, p) <=> p = h
    <2>1. h + W <= p \/ p + W <= h \/ p = h
      BY <1>1, AlignedApart DEF Place
    <2>. QED BY <1>1, <1>2, <1>3, <1>4, <2>1, Sizes DEF Place, N
  <1>6. circ_dist(p, t) = W
    BY <1>1, <1>3, <1>4, Sizes DEF Place, N
  <1>7. \A i \in Place : i \in Acquired(v, p) <=> circ_dist(i, t) < W
    BY <1>1, <1>6 DEF Acquired
  <1>8. [i \in Place |-> IF i \in Acquired(v, p) THEN Blank ELSE v.vt_buf[i]]
          = [i \in Place |-> IF circ_dist(i, t) < W THEN Blank ELSE v.vt_buf[i]]
    BY <1>7
  <1>9. [advance_tail(v, v.vt_tail) EXCEPT !.vt_cursor = v.vt_tail] =
          [vt_head   |-> IF circ_dist(t, h) >= circ_dist(t, p) THEN next_row(p) ELSE h,
           vt_tail   |-> p,
           vt_top    |-> v.vt_top,
           vt_cursor |-> t,
           vt_buf    |-> [i \in Place |-> IF i \in Acquired(v, p) THEN Blank ELSE v.vt_buf[i]]]
    <2>1. PICK A : A = IF circ_dist(t, h) >= circ_dist(t, p) THEN next_row(p) ELSE h
      OBVIOUS
    <2>2. PICK B : B = [i \in Place |-> IF i \in Acquired(v, p) THEN Blank ELSE v.vt_buf[i]]
      OBVIOUS
    <2>3. advance_tail(v, v.vt_tail) = [v EXCEPT !.vt_head = A, !.vt_buf = B, !.vt_tail = p]
      BY <1>1, <2>1, <2>2, Zenon DEF advance_tail
    <2>4. v \in TermRec
      BY DEF Sound
    <2>5. [[v EXCEPT !.vt_head = A, !.vt_buf = B, !.vt_tail = p] EXCEPT !.vt_cursor = t]
            = [vt_head |-> A, vt_tail |-> p, vt_top |-> v.vt_top, vt_cursor |-> t, vt_buf |-> B]
      <3>1. PICK a, b, d, e, f : v = [vt_head |-> a, vt_tail |-> b, vt_top |-> d, vt_cursor |-> e, vt_buf |-> f]
        BY <2>4 DEF TermRec
      <3>2. v.vt_top = d
        BY <3>1
      <3>3. PICK x : x = [v EXCEPT !.vt_head = A]
        OBVIOUS
      <3>4. x = [vt_head |-> A, vt_tail |-> b, vt_top |-> d, vt_cursor |-> e, vt_buf |-> f]
        BY ONLY <3>1, <3>3
      <3>5. PICK y : y = [x EXCEPT !.vt_buf = B]
        OBVIOUS
      <3>6. y = [vt_head |-> A, vt_tail |-> b, vt_top |-> d, vt_cursor |-> e, vt_buf |-> B]
        BY ONLY <3>4, <3>5
      <3>7. PICK z : z = [y EXCEPT !.vt_tail = p]
        OBVIOUS
      <3>8. z = [vt_head |-> A, vt_tail |-> p, vt_top |-> d, vt_cursor |-> e, vt_buf |-> B]
        BY ONLY <3>6, <3>7
      <3>9. [v EXCEPT !.vt_head = A, !.vt_buf = B, !.vt_tail = p] = z
        BY ONLY <3>3, <3>5, <3>7
      <3>10. [z EXCEPT !.vt_cursor = t]
               = [vt_head |-> A, vt_tail |-> p, vt_top |-> d, vt_cursor |-> t, vt_buf |-> B]
        BY ONLY <3>8
      <3>. QED BY <3>2, <3>9, <3>10, Zenon
    <2>. QED BY <1>1, <2>1, <2>2, <2>3, <2>5
  <1>. QED BY <1>1, <1>5, <1>8, <1>9 DEF Grown

LEMMA GrownIsSound ==
  ASSUME NEW v, Sound(v), NEW buf \in [Place -> Char \cup {Blank}]
  PROVE  Sound(Grown(v, buf))
  <1>1. PICK h \in Place, t \in Place, p \in Place, n \in Place :
          /\ h = v.vt_head /\ t = v.vt_tail /\ p = next_row(t) /\ n = next_row(h)
          /\ Aligned(h) /\ Aligned(t) /\ Aligned(p) /\ Aligned(n)
          /\ p = IF t + W = N THEN 0 ELSE t + W
          /\ n = IF h + W = N THEN 0 ELSE h + W
    <2>1. v.vt_head \in Place /\ v.vt_tail \in Place
      BY DEF Sound, TermRec
    <2>. QED BY <2>1, NextRow, RowOfAligned DEF Sound
  <1>2. Grown(v, buf) \in TermRec
    BY <1>1 DEF Grown, TermRec, Sound
  <1>3. PICK g \in Place : g = IF p = h THEN n ELSE h
    OBVIOUS
  <1>4. Within(Grown(v, buf), t) <=> circ_dist(t, g) < circ_dist(p, g)
    BY <1>1, <1>3 DEF Within, Grown
  <1>5. circ_dist(t, g) < circ_dist(p, g)
    <2>1. /\ circ_dist(t, g) = IF t >= g THEN t - g ELSE t - g + N
          /\ circ_dist(p, g) = IF p >= g THEN p - g ELSE p - g + N
      BY Dist
    <2>2. g + W <= p \/ p + W <= g \/ p = g
      BY <1>1, <1>3, AlignedApart DEF Place
    <2>3. g + W <= t \/ t + W <= g \/ t = g
      BY <1>1, <1>3, AlignedApart DEF Place
    <2>4. g + W <= N /\ t + W <= N /\ p + W <= N /\ h + W <= N
      BY <1>1, <1>3, Row, RowOfAligned
    <2>5. CASE p = h
      <3>1. g = IF p + W = N THEN 0 ELSE p + W
        BY <1>1, <1>3, <2>5
      <3>2. p = IF t + W = N THEN 0 ELSE t + W
        BY <1>1
      <3>3. t \in Int /\ p \in Int /\ g \in Int /\ 0 <= t /\ 0 <= p /\ 0 <= g
        BY DEF Place
      <3>. QED BY ONLY <2>1, <2>3, <2>4, <3>1, <3>2, <3>3, Sizes
    <2>6. CASE p # h
      <3>1. g # p
        BY <1>3, <2>6
      <3>2. p = IF t + W = N THEN 0 ELSE t + W
        BY <1>1
      <3>3. t \in Int /\ p \in Int /\ g \in Int /\ 0 <= t /\ 0 <= p /\ 0 <= g
        BY DEF Place
      <3>. QED BY ONLY <2>1, <2>2, <2>3, <2>4, <3>1, <3>2, <3>3, Sizes
    <2>. QED BY <2>5, <2>6
  <1>6. /\ Aligned(Grown(v, buf).vt_head) /\ Aligned(Grown(v, buf).vt_tail)
        /\ Aligned(Grown(v, buf).vt_top) /\ Grown(v, buf).vt_cursor = t
    BY <1>1 DEF Grown, Sound
  <1>. QED BY <1>2, <1>4, <1>5, <1>6 DEF Sound

(* The cursor goes to d in the text: back, or over no start of a row.       *)
Goes(v, d) ==
  /\ d \in Place /\ Within(v, d)
  /\ \/ circ_dist(d, v.vt_head) <= circ_dist(v.vt_cursor, v.vt_head)
     \/ /\ circ_dist(d, v.vt_cursor) <= W
        /\ \A a \in Place : Aligned(a) /\ circ_dist(v.vt_cursor, v.vt_head) < circ_dist(a, v.vt_head)
                          => circ_dist(d, v.vt_head) <= circ_dist(a, v.vt_head)

Moved(v, buf, d) == [v EXCEPT !.vt_buf = buf, !.vt_cursor = d]

(* What handling a character does to a terminal.                            *)
LEMMA Handled ==
  ASSUME NEW v, Sound(v), NEW c \in Char \cup Control
  PROVE  \/ /\ vt_handle_char(v, c) = Grown(v, Put(v, c))
            /\ c # "BS" /\ c # "CR"
            /\ circ_dist(v.vt_tail, v.vt_cursor) <= W
         \/ \E d : Goes(v, d) /\ vt_handle_char(v, c) = Moved(v, Put(v, c), d)
  <1>1. PICK h \in Place, t \in Place, o \in Place :
          /\ h = v.vt_head /\ t = v.vt_tail /\ o = v.vt_cursor
          /\ Aligned(h) /\ Aligned(t) /\ circ_dist(o, h) < circ_dist(t, h)
    BY DEF Sound, TermRec, Within
  <1>2. \A d : Within(v, d) <=> circ_dist(d, h) < circ_dist(t, h)
    BY <1>1 DEF Within
  <1>3. ASSUME NEW x, Sound(x), NEW d \in {next_row(x.vt_cursor), buf_add(x.vt_cursor, 1)},
               x.vt_head = h, x.vt_tail = t, x.vt_cursor = o
        PROVE  \/ /\ handle_tail(x, d) = Grown(x, x.vt_buf)
                  /\ circ_dist(t, o) <= W
               \/ handle_tail(x, d) = [x EXCEPT !.vt_cursor = d] /\ Goes(v, d)
    <2>1. /\ d \in Place /\ circ_dist(d, o) \in 1 .. W
          /\ circ_dist(d, o) >= circ_dist(t, o) <=> d = t
          /\ d # t => circ_dist(d, h) < circ_dist(t, h)
          /\ \A a \in Place : Aligned(a) /\ circ_dist(o, h) < circ_dist(a, h)
                            => circ_dist(d, h) <= circ_dist(a, h)
          /\ d = t => circ_dist(t, o) <= W
      BY <1>1, <1>3, CursorSteps
    <2>2. circ_dist(d, o) <= W
      BY <2>1, Sizes
    <2>3. CASE d = t
      <3>1. handle_tail(x, d) = [advance_tail(x, t) EXCEPT !.vt_cursor = t]
        BY <1>3, <2>1, <2>3 DEF handle_tail
      <3>. QED BY <1>3, <2>1, <2>3, <3>1, TailAdvances
    <2>4. CASE d # t
      <3>1. handle_tail(x, d) = [x EXCEPT !.vt_cursor = d]
        BY <1>3, <2>1, <2>4 DEF handle_tail
      <3>2. Goes(v, d)
        BY <1>1, <1>2, <2>1, <2>2, <2>4 DEF Goes
      <3>. QED BY <3>1, <3>2
    <2>. QED BY <2>3, <2>4
  <1>4. CASE c = "BS"
    <2>1. Put(v, c) = v.vt_buf
      BY <1>4, VtermAssumption DEF Put
    <2>2. CASE o = h
      <3>1. vt_handle_char(v, c) = Moved(v, Put(v, c), o)
        BY <1>1, <1>4, <2>1, <2>2 DEF vt_handle_char, Sound, TermRec, Moved
      <3>2. circ_dist(o, h) \in Int
        BY Dist DEF Place
      <3>. QED BY <1>1, <1>2, <3>1, <3>2 DEF Goes
    <2>3. CASE o # h
      <3>1. vt_handle_char(v, c) = Moved(v, Put(v, c), buf_add(o, -1))
        BY <1>1, <1>4, <2>1, <2>3 DEF vt_handle_char, Sound, TermRec, Moved
      <3>2. PICK d \in Place : d = buf_add(o, -1) /\ d = IF o = 0 THEN N - 1 ELSE o - 1
        <4>1. -1 \in (-N) .. N
          BY Sizes
        <4>2. /\ buf_add(o, -1) = IF o + (-1) < 0 THEN o + (-1) + N
                                  ELSE IF o + (-1) < N THEN o + (-1) ELSE o + (-1) - N
              /\ buf_add(o, -1) \in Place
          BY <4>1, Add
        <4>. QED BY <4>2, Sizes DEF Place, N
      <3>3. /\ circ_dist(d, h) = IF d >= h THEN d - h ELSE d - h + N
            /\ circ_dist(o, h) = IF o >= h THEN o - h ELSE o - h + N
            /\ circ_dist(t, h) = IF t >= h THEN t - h ELSE t - h + N
        BY Dist
      <3>4. circ_dist(d, h) <= circ_dist(o, h) /\ circ_dist(d, h) < circ_dist(t, h)
        BY <1>1, <2>3, <3>2, <3>3, Sizes DEF Place, N
      <3>. QED BY <1>1, <1>2, <3>1, <3>2, <3>4 DEF Goes
    <2>. QED BY <2>2, <2>3
  <1>5. CASE c = "CR"
    <2>1. Put(v, c) = v.vt_buf
      BY <1>5, VtermAssumption DEF Put
    <2>2. vt_handle_char(v, c) = Moved(v, Put(v, c), RowOf(o))
      BY <1>1, <1>5, <2>1 DEF vt_handle_char, Sound, TermRec, Moved
    <2>3. PICK d \in Place : d = RowOf(o) /\ Aligned(d) /\ d <= o /\ o < d + W
      BY Row
    <2>4. h <= d \/ d + W <= h
      BY <1>1, <2>3, AlignedApart DEF Place
    <2>5. /\ circ_dist(d, h) = IF d >= h THEN d - h ELSE d - h + N
          /\ circ_dist(o, h) = IF o >= h THEN o - h ELSE o - h + N
          /\ circ_dist(t, h) = IF t >= h THEN t - h ELSE t - h + N
      BY Dist
    <2>6. circ_dist(d, h) <= circ_dist(o, h) /\ circ_dist(d, h) < circ_dist(t, h)
      BY <1>1, <2>3, <2>4, <2>5, Sizes DEF Place, N
    <2>. QED BY <1>1, <1>2, <2>2, <2>3, <2>6 DEF Goes
  <1>6. CASE c = "NL"
    <2>1. Put(v, c) = v.vt_buf
      BY <1>6, VtermAssumption DEF Put
    <2>2. vt_handle_char(v, c) = handle_tail(v, next_row(v.vt_cursor))
      BY <1>6 DEF vt_handle_char
    <2>3. \A d : [v EXCEPT !.vt_cursor = d] = Moved(v, Put(v, c), d)
      BY <2>1 DEF Sound, TermRec, Moved
    <2>4. PICK d : d = next_row(v.vt_cursor)
      OBVIOUS
    <2>5. \/ handle_tail(v, d) = Grown(v, v.vt_buf) /\ circ_dist(t, o) <= W
          \/ handle_tail(v, d) = [v EXCEPT !.vt_cursor = d] /\ Goes(v, d)
      BY <1>1, <1>3, <2>4
    <2>. QED BY <1>1, <1>6, <2>1, <2>2, <2>3, <2>4, <2>5
  <1>7. CASE c \in Char
    <2>1. PICK x : x = [v EXCEPT !.vt_buf[v.vt_cursor] = c]
      OBVIOUS
    <2>2. /\ x.vt_head = h /\ x.vt_tail = t /\ x.vt_top = v.vt_top /\ x.vt_cursor = o
          /\ x.vt_buf = Put(v, c) /\ x \in TermRec
      BY <1>1, <1>7, <2>1 DEF Sound, TermRec, Put
    <2>3. Sound(x)
      BY <1>1, <2>2 DEF Sound, Within
    <2>4. c \notin Control
      BY <1>7, VtermAssumption DEF Control
    <2>5. vt_handle_char(v, c) = handle_tail(x, buf_add(x.vt_cursor, 1))
      BY <1>1, <2>1, <2>2, <2>4 DEF vt_handle_char, Control
    <2>6. Grown(x, x.vt_buf) = Grown(v, Put(v, c))
      BY <1>1, <2>2 DEF Grown
    <2>7. \A d : [x EXCEPT !.vt_cursor = d] = Moved(v, Put(v, c), d)
      <3>1. x = [v EXCEPT !.vt_buf = Put(v, c)]
        BY <1>1, <1>7, <2>1 DEF Put, Sound, TermRec
      <3>. QED BY <3>1 DEF Sound, TermRec, Moved
    <2>8. PICK d : d = buf_add(x.vt_cursor, 1)
      OBVIOUS
    <2>9. \/ handle_tail(x, d) = Grown(x, x.vt_buf) /\ circ_dist(t, o) <= W
          \/ handle_tail(x, d) = [x EXCEPT !.vt_cursor = d] /\ Goes(v, d)
      BY <1>3, <2>2, <2>3, <2>8
    <2>. QED BY <1>1, <2>4, <2>5, <2>6, <2>7, <2>8, <2>9 DEF Control
  <1>. QED BY <1>4, <1>5, <1>6, <1>7 DEF Control

LEMMA MovedIsSound ==
  ASSUME NEW v, Sound(v), NEW buf \in [Place -> Char \cup {Blank}], NEW d, Goes(v, d)
  PROVE  /\ Sound(Moved(v, buf, d))
         /\ Moved(v, buf, d).vt_head = v.vt_head /\ Moved(v, buf, d).vt_tail = v.vt_tail
         /\ Moved(v, buf, d).vt_top = v.vt_top /\ Moved(v, buf, d).vt_cursor = d
         /\ Moved(v, buf, d).vt_buf = buf
  <1>1. d \in Place /\ v \in TermRec
    BY DEF Sound, Goes
  <1>2. PICK x : x = Moved(v, buf, d)
    OBVIOUS
  <1>3. /\ x \in TermRec
        /\ x.vt_head = v.vt_head /\ x.vt_tail = v.vt_tail /\ x.vt_top = v.vt_top
        /\ x.vt_cursor = d /\ x.vt_buf = buf
    BY <1>1, <1>2 DEF Moved, TermRec
  <1>. QED BY <1>2, <1>3 DEF Sound, Goes, Within

LEMMA PutType ==
  ASSUME NEW v, Sound(v), NEW c
  PROVE  Put(v, c) \in [Place -> Char \cup {Blank}]
  BY DEF Put, Sound, TermRec

(* Following a cursor that is not on the screen moves the screen.           *)
LEMMA Followed ==
  ASSUME NEW v, Sound(v)
  PROVE  /\ Sound(follow(v))
         /\ follow(v).vt_head = v.vt_head /\ follow(v).vt_tail = v.vt_tail
         /\ follow(v).vt_cursor = v.vt_cursor /\ follow(v).vt_buf = v.vt_buf
         /\ \/ OnScreen(v) /\ follow(v) = v
            \/ ~OnScreen(v) /\ follow(v).vt_top # v.vt_top
  <1>1. CASE OnScreen(v)
    BY <1>1 DEF follow
  <1>2. CASE ~OnScreen(v)
    <2>1. PICK o \in Place, q \in Place : o = v.vt_cursor /\ q = v.vt_top /\ Aligned(q)
      BY DEF Sound, TermRec
    <2>2. PICK r \in Place : /\ r = RowOf(o) /\ Aligned(r) /\ r <= o /\ o < r + W /\ r + W <= N
      BY Row
    <2>3. PICK n \in Place : n = next_row(o) /\ Aligned(n) /\ n = IF r + W = N THEN 0 ELSE r + W
      BY <2>2, NextRow
    <2>4. PICK p \in Place : /\ p = buf_add(n, -DISPLAY_SIZE)
                             /\ p = IF n - DISPLAY_SIZE < 0 THEN n - DISPLAY_SIZE + N ELSE n - DISPLAY_SIZE
      <3>1. PICK m \in (-N) .. N : m = -DISPLAY_SIZE
        BY Sizes
      <3>2. /\ buf_add(n, m) = IF n + m < 0 THEN n + m + N ELSE IF n + m < N THEN n + m ELSE n + m - N
            /\ buf_add(n, m) \in Place
        BY Add
      <3>3. n \in Int /\ n < N /\ 0 <= n /\ DISPLAY_SIZE \in Nat \ {0}
        BY Sizes DEF Place, N
      <3>. QED BY <3>1, <3>2, <3>3, Sizes
    <2>5. Aligned(p)
      <3>1. n \in Int /\ DISPLAY_SIZE \in Int /\ N \in Int
        BY Sizes DEF Place
      <3>2. Aligned(n - DISPLAY_SIZE) /\ n - DISPLAY_SIZE \in Int
        <4>1. Aligned(n) /\ Aligned(DISPLAY_SIZE)
          BY <2>3, Sizes
        <4>2. Aligned(n - DISPLAY_SIZE)
          BY ONLY <3>1, <4>1, AlignedSum
        <4>. QED BY <3>1, <4>2
      <3>3. Aligned(n - DISPLAY_SIZE + N)
        BY <3>1, <3>2, Sizes, AlignedSum
      <3>. QED BY <2>4, <3>2, <3>3
    <2>6. p # q
      <3>1. circ_dist(o, q) = IF o >= q THEN o - q ELSE o - q + N
        BY Dist
      <3>2. ~(circ_dist(o, q) < DISPLAY_SIZE)
        BY <1>2, <2>1 DEF OnScreen, Cursor
      <3>. QED BY <2>2, <2>3, <2>4, <3>1, <3>2, Sizes DEF Place, N
    <2>7. follow(v) = [v EXCEPT !.vt_top = p]
      BY <1>2, <2>1, <2>3, <2>4 DEF follow
    <2>8. PICK x : x = [v EXCEPT !.vt_top = p]
      OBVIOUS
    <2>9. /\ x \in TermRec /\ x.vt_top = p
          /\ x.vt_head = v.vt_head /\ x.vt_tail = v.vt_tail
          /\ x.vt_cursor = v.vt_cursor /\ x.vt_buf = v.vt_buf
      BY <2>8 DEF Sound, TermRec
    <2>10. Sound(x)
      BY <2>5, <2>9 DEF Sound, Within
    <2>. QED BY <1>2, <2>1, <2>6, <2>7, <2>8, <2>9, <2>10
  <1>. QED BY <1>1, <1>2

(* A character is written at the cursor, a blank row at the tail, and        *)
(* nothing else.                                                            *)
LEMMA TextAfter ==
  ASSUME NEW v, Sound(v), NEW c \in Char \cup Control, NEW i \in Place,
         Within(v, i), i # v.vt_cursor
  PROVE  vt_handle_char(v, c).vt_buf[i] = v.vt_buf[i]
  <1>1. Put(v, c)[i] = v.vt_buf[i]
    BY DEF Put, Sound, TermRec
  <1>2. CASE vt_handle_char(v, c) = Grown(v, Put(v, c))
    <2>1. PICK h \in Place, t \in Place : /\ h = v.vt_head /\ t = v.vt_tail
                                         /\ Aligned(h) /\ Aligned(t) /\ circ_dist(i, h) < circ_dist(t, h)
      BY DEF Sound, TermRec, Within
    <2>2. ~(circ_dist(i, t) < W)
      <3>1. /\ circ_dist(i, h) = IF i >= h THEN i - h ELSE i - h + N
            /\ circ_dist(t, h) = IF t >= h THEN t - h ELSE t - h + N
            /\ circ_dist(i, t) = IF i >= t THEN i - t ELSE i - t + N
        BY Dist
      <3>2. h + W <= t \/ t + W <= h \/ t = h
        BY <2>1, AlignedApart DEF Place
      <3>3. h + W <= N /\ t + W <= N
        BY <2>1, Row, RowOfAligned
      <3>4. i \in Int /\ h \in Int /\ t \in Int /\ 0 <= i /\ 0 <= h /\ 0 <= t /\ i < N
        BY Sizes DEF Place, N
      <3>. QED BY ONLY <2>1, <3>1, <3>2, <3>3, <3>4, Sizes
    <2>. QED BY <1>1, <1>2, <2>1, <2>2 DEF Grown
  <1>3. CASE \E d : Goes(v, d) /\ vt_handle_char(v, c) = Moved(v, Put(v, c), d)
    BY <1>1, <1>3, PutType, MovedIsSound
  <1>. QED BY <1>2, <1>3, Handled

LEMMA HandledIsSound ==
  ASSUME NEW v, Sound(v), NEW c \in Char \cup Control
  PROVE  Sound(vt_handle_char(v, c)) /\ vt_handle_char(v, c).vt_top = v.vt_top
  <1>1. CASE vt_handle_char(v, c) = Grown(v, Put(v, c))
    BY <1>1, PutType, GrownIsSound DEF Grown
  <1>2. CASE \E d : Goes(v, d) /\ vt_handle_char(v, c) = Moved(v, Put(v, c), d)
    BY <1>2, PutType, MovedIsSound
  <1>. QED BY <1>1, <1>2, Handled

LEMMA ScrolledIsSound ==
  ASSUME NEW v, Sound(v), NEW up \in BOOLEAN
  PROVE  /\ Sound(Scrolled(v, DISPLAY_HEIGHT, up))
         /\ \E q \in Place : Scrolled(v, DISPLAY_HEIGHT, up) = [v EXCEPT !.vt_top = q]
  <1>1. DISPLAY_HEIGHT * DISPLAY_WIDTH = DISPLAY_SIZE
    BY VtermAssumption DEF DISPLAY_SIZE
  <1>2. PICK h \in Place, t \in Place, q \in Place :
          /\ h = v.vt_head /\ t = v.vt_tail /\ q = v.vt_top
          /\ Aligned(h) /\ Aligned(t) /\ Aligned(q)
    BY DEF Sound, TermRec
  <1>3. ASSUME NEW p \in Place, Aligned(p), NEW m \in Int, Aligned(m), -N <= m, m <= N
        PROVE  buf_add(p, m) \in Place /\ Aligned(buf_add(p, m))
    <2>1. m \in (-N) .. N
      BY <1>3, Sizes
    <2>2. /\ buf_add(p, m) = IF p + m < 0 THEN p + m + N ELSE IF p + m < N THEN p + m ELSE p + m - N
          /\ buf_add(p, m) \in Place
      BY <2>1, Add
    <2>3. p \in Int /\ p + m \in Int /\ N \in Int
      BY Sizes DEF Place
    <2>4. Aligned(p + m)
      BY <1>3, <2>3, AlignedSum
    <2>5. Aligned(p + m + N) /\ Aligned(p + m - N)
      BY <2>3, <2>4, Sizes, AlignedSum
    <2>. QED BY <2>2, <2>4, <2>5
  <1>4. /\ Aligned(DISPLAY_SIZE) /\ Aligned(-DISPLAY_SIZE) /\ Aligned(-W)
        /\ DISPLAY_SIZE \in Int /\ -DISPLAY_SIZE \in Int /\ -W \in Int
        /\ -N <= DISPLAY_SIZE /\ DISPLAY_SIZE <= N /\ -N <= -DISPLAY_SIZE /\ -DISPLAY_SIZE <= N
        /\ -N <= -W /\ -W <= N
    <2>1. 0 - DISPLAY_SIZE = -DISPLAY_SIZE /\ 0 - W = -W
      BY Sizes
    <2>2. Aligned(0 - DISPLAY_SIZE) /\ Aligned(0 - W)
      BY Sizes, WidthIsAligned, AlignedSum
    <2>. QED BY <2>1, <2>2, Sizes
  <1>5. PICK p : p = IF up
                     THEN IF circ_dist(q, h) < DISPLAY_SIZE THEN h ELSE buf_add(q, -DISPLAY_SIZE)
                     ELSE IF circ_dist(t, q) < DISPLAY_SIZE + W
                          THEN buf_add(t, -W) ELSE buf_add(q, DISPLAY_SIZE)
    OBVIOUS
  <1>6. p \in Place /\ Aligned(p)
    BY <1>2, <1>3, <1>4, <1>5
  <1>7. Scrolled(v, DISPLAY_HEIGHT, up) = [v EXCEPT !.vt_top = p]
    BY <1>1, <1>2, <1>5 DEF Scrolled, W
  <1>8. PICK x : x = [v EXCEPT !.vt_top = p]
    OBVIOUS
  <1>9. /\ x \in TermRec /\ x.vt_top = p
        /\ x.vt_head = v.vt_head /\ x.vt_tail = v.vt_tail
        /\ x.vt_cursor = v.vt_cursor /\ x.vt_buf = v.vt_buf
    BY <1>6, <1>8 DEF Sound, TermRec
  <1>10. Sound(x)
    BY <1>6, <1>9 DEF Sound, Within
  <1>. QED BY <1>6, <1>7, <1>8, <1>10
-----------------------------------------------------------------------------
(* What the screen has to show of a terminal.                               *)
ShownOf(v, sc) ==
  Within(v, v.vt_top) /\ CursorFollowsTop(v) => sc = [cells |-> Shown(v), cursor |-> Cursor(v)]

VtermIInv ==
  /\ vt \in [Term -> TermRec] /\ vt_curterm \in Term
  /\ VtermSound
  /\ ScreenIsShown

LEMMA IInvParts ==
  VtermIInv <=> /\ vt \in [Term -> TermRec] /\ vt_curterm \in Term
                /\ \A t \in Term : Sound(vt[t])
                /\ ShownOf(vt[vt_curterm], screen)
  <1>1. ASSUME vt \in [Term -> TermRec] PROVE VtermSound <=> \A t \in Term : Sound(vt[t])
    BY <1>1 DEF VtermSound, Sound, TermRec, Aligned, W
  <1>. QED BY <1>1 DEF VtermIInv, ScreenIsShown, ShownOf

LEMMA CellPlace ==
  ASSUME NEW q \in Place, NEW i \in Cell
  PROVE  /\ buf_add(q, i) \in Place
         /\ circ_dist(buf_add(q, i), q) = i
         /\ buf_add(q, i) = IF q + i < N THEN q + i ELSE q + i - N
  <1>1. i \in (-N) .. N /\ i < N /\ 0 <= i
    BY Sizes DEF Cell
  <1>2. PICK p \in Place :
          /\ p = buf_add(q, i)
          /\ p = IF q + i < 0 THEN q + i + N ELSE IF q + i < N THEN q + i ELSE q + i - N
    BY <1>1, Add
  <1>3. circ_dist(p, q) = IF p >= q THEN p - q ELSE p - q + N
    BY Dist
  <1>. QED BY <1>1, <1>2, <1>3, Sizes DEF Place, N

(* Where the cursor is on the screen, and the code can tell it, it is in the *)
(* text the screen shows.                                                   *)
LEMMA CursorIsShown ==
  ASSUME NEW v, Sound(v), OnScreen(v), Within(v, v.vt_top), CursorFollowsTop(v)
  PROVE  /\ circ_dist(v.vt_top, v.vt_head) <= circ_dist(v.vt_cursor, v.vt_head)
         /\ Cursor(v) < circ_dist(v.vt_tail, v.vt_top)
  <1>1. PICK h \in Place, t \in Place, q \in Place, o \in Place :
          h = v.vt_head /\ t = v.vt_tail /\ q = v.vt_top /\ o = v.vt_cursor
    BY DEF Sound, TermRec
  <1>2. /\ circ_dist(q, h) = IF q >= h THEN q - h ELSE q - h + N
        /\ circ_dist(o, h) = IF o >= h THEN o - h ELSE o - h + N
        /\ circ_dist(t, h) = IF t >= h THEN t - h ELSE t - h + N
        /\ circ_dist(o, q) = IF o >= q THEN o - q ELSE o - q + N
        /\ circ_dist(t, q) = IF t >= q THEN t - q ELSE t - q + N
    BY Dist
  <1>3. /\ circ_dist(o, h) < circ_dist(t, h) /\ circ_dist(q, h) < circ_dist(t, h)
        /\ circ_dist(o, q) < DISPLAY_SIZE
        /\ circ_dist(q, h) <= circ_dist(o, h) \/ circ_dist(t, h) + DISPLAY_SIZE <= N
    BY <1>1 DEF Sound, Within, OnScreen, Cursor, CursorFollowsTop, N
  <1>4. /\ h \in Int /\ t \in Int /\ q \in Int /\ o \in Int
        /\ 0 <= h /\ 0 <= t /\ 0 <= q /\ 0 <= o /\ h < N /\ t < N /\ q < N /\ o < N
    BY Sizes DEF Place, N
  <1>5. circ_dist(q, h) <= circ_dist(o, h) /\ circ_dist(o, q) < circ_dist(t, q)
    BY ONLY <1>2, <1>3, <1>4, Sizes
  <1>. QED BY <1>1, <1>5 DEF Cursor

(* The screen of a terminal whose cursor moves in its text.                 *)
LEMMA MovedIsShown ==
  ASSUME NEW v, Sound(v), OnScreen(v), NEW c \in Char \cup Control, NEW d, Goes(v, d), NEW sc,
         ShownOf(v, sc), NEW r, r = Moved(v, Put(v, c), d)
  PROVE  ShownOf(r, [cells  |-> IF c \notin Char THEN sc.cells ELSE [sc.cells EXCEPT ![Cursor(v)] = c],
                     cursor |-> Cursor(r)])
  <1>1. /\ r.vt_head = v.vt_head /\ r.vt_tail = v.vt_tail /\ r.vt_top = v.vt_top
        /\ r.vt_cursor = d /\ r.vt_buf = Put(v, c)
    BY PutType, MovedIsSound
  <1>2. PICK h \in Place, t \in Place, q \in Place, o \in Place :
          /\ h = v.vt_head /\ t = v.vt_tail /\ q = v.vt_top /\ o = v.vt_cursor
          /\ Aligned(q)
    BY DEF Sound, TermRec
  <1>3. SUFFICES ASSUME Within(r, r.vt_top), CursorFollowsTop(r)
                 PROVE  Shown(r) = IF c \notin Char THEN sc.cells ELSE [sc.cells EXCEPT ![Cursor(v)] = c]
    BY DEF ShownOf
  <1>4. Within(v, v.vt_top)
    BY <1>1, <1>3 DEF Within
  <1>5. CursorFollowsTop(v)
    <2>1. CASE circ_dist(t, h) + DISPLAY_SIZE <= SCROLL_BUFSIZE
      BY <1>2, <2>1 DEF CursorFollowsTop
    <2>2. CASE circ_dist(q, h) <= circ_dist(d, h)
      <3>1. SUFFICES ASSUME circ_dist(o, h) < circ_dist(q, h) PROVE FALSE
        <4>1. circ_dist(o, h) \in Int /\ circ_dist(q, h) \in Int
          BY Dist DEF Place
        <4>. QED BY <1>2, <4>1 DEF CursorFollowsTop
      <3>2. d \in Place /\ circ_dist(d, o) <= W /\ circ_dist(d, h) <= circ_dist(q, h)
        <4>1. d \in Place /\ circ_dist(d, h) \in Int /\ circ_dist(o, h) \in Int /\ circ_dist(q, h) \in Int
          BY Dist DEF Place, Goes
        <4>. QED BY <1>2, <2>2, <3>1, <4>1 DEF Goes
      <3>3. /\ circ_dist(d, h) = IF d >= h THEN d - h ELSE d - h + N
            /\ circ_dist(q, h) = IF q >= h THEN q - h ELSE q - h + N
            /\ circ_dist(o, h) = IF o >= h THEN o - h ELSE o - h + N
            /\ circ_dist(d, o) = IF d >= o THEN d - o ELSE d - o + N
            /\ circ_dist(o, q) = IF o >= q THEN o - q ELSE o - q + N
        BY <3>2, Dist
      <3>4. circ_dist(o, q) < DISPLAY_SIZE
        BY <1>2 DEF OnScreen, Cursor
      <3>5. /\ h \in Int /\ d \in Int /\ q \in Int /\ o \in Int
            /\ 0 <= h /\ 0 <= d /\ 0 <= q /\ 0 <= o /\ h < N /\ d < N /\ q < N /\ o < N
        BY <3>2, Sizes DEF Place, N
      <3>6. d = q
        BY ONLY <2>2, <3>2, <3>3, <3>5, Sizes
      <3>. QED BY ONLY <3>1, <3>2, <3>3, <3>4, <3>5, <3>6, Sizes
    <2>. QED BY <1>1, <1>2, <1>3, <2>1, <2>2 DEF CursorFollowsTop
  <1>6. sc.cells = Shown(v)
    BY <1>4, <1>5 DEF ShownOf
  <1>7. CASE c \notin Char
    BY <1>1, <1>6, <1>7 DEF Shown, Put
  <1>8. CASE c \in Char
    <2>1. Cursor(v) \in Cell /\ Cursor(v) < circ_dist(t, q) /\ Cursor(v) = circ_dist(o, q)
      <3>1. Cursor(v) = circ_dist(o, q) /\ circ_dist(o, q) \in Place
        BY <1>2, Dist DEF Cursor
      <3>. QED BY <1>2, <1>4, <1>5, <3>1, CursorIsShown, Sizes DEF OnScreen, Cell, Place
    <2>2. ASSUME NEW i \in Cell
          PROVE  Shown(r)[i] = IF i = circ_dist(o, q) THEN c ELSE Shown(v)[i]
      <3>1. PICK p \in Place : p = buf_add(q, i) /\ circ_dist(p, q) = i /\ p = IF q + i < N THEN q + i ELSE q + i - N
        BY CellPlace
      <3>2. circ_dist(o, q) = IF o >= q THEN o - q ELSE o - q + N
        BY Dist
      <3>3. i = circ_dist(o, q) <=> p = o
        BY <3>1, <3>2, Sizes DEF Place, N, Cell
      <3>4. Put(v, c)[p] = IF p = o THEN c ELSE v.vt_buf[p]
        BY <1>2, <1>8 DEF Put, Sound, TermRec
      <3>5. /\ Shown(v)[i] = IF i < circ_dist(t, q) THEN v.vt_buf[p] ELSE Blank
            /\ Shown(r)[i] = IF i < circ_dist(t, q) THEN Put(v, c)[p] ELSE Blank
        BY <1>1, <1>2, <3>1 DEF Shown
      <3>. QED BY <2>1, <3>3, <3>4, <3>5
    <2>3. Shown(r) = [Shown(v) EXCEPT ![Cursor(v)] = c]
      BY <2>1, <2>2 DEF Shown
    <2>. QED BY <1>6, <1>8, <2>3
  <1>. QED BY <1>7, <1>8

(* The screen of a terminal that grows a row: the row was blank already.    *)
LEMMA GrownIsShown ==
  ASSUME NEW v, Sound(v), OnScreen(v), NEW c \in Char \cup Control, NEW sc,
         circ_dist(v.vt_tail, v.vt_cursor) <= W,
         ShownOf(v, sc), NEW r, r = Grown(v, Put(v, c))
  PROVE  ShownOf(r, [cells  |-> IF c \notin Char THEN sc.cells ELSE [sc.cells EXCEPT ![Cursor(v)] = c],
                     cursor |-> Cursor(r)])
  <1>1. SUFFICES ASSUME Within(r, r.vt_top)
                 PROVE  Shown(r) = IF c \notin Char THEN sc.cells ELSE [sc.cells EXCEPT ![Cursor(v)] = c]
    BY DEF ShownOf
  <1>2. PICK h \in Place, t \in Place, q \in Place, o \in Place, p \in Place, n \in Place, g \in Place :
          /\ h = v.vt_head /\ t = v.vt_tail /\ q = v.vt_top /\ o = v.vt_cursor
          /\ p = next_row(t) /\ n = next_row(h) /\ g = IF p = h THEN n ELSE h
          /\ Aligned(h) /\ Aligned(t) /\ Aligned(q) /\ Aligned(p)
          /\ p = IF t + W = N THEN 0 ELSE t + W
          /\ n = IF h + W = N THEN 0 ELSE h + W
    <2>1. v.vt_head \in Place /\ v.vt_tail \in Place /\ v.vt_top \in Place /\ v.vt_cursor \in Place
      BY DEF Sound, TermRec
    <2>. QED BY <2>1, NextRow, RowOfAligned DEF Sound
  <1>3. /\ r.vt_head = g /\ r.vt_tail = p /\ r.vt_top = q
        /\ r.vt_buf = [i \in Place |-> IF circ_dist(i, t) < W THEN Blank ELSE Put(v, c)[i]]
    BY <1>2 DEF Grown
  <1>4. /\ circ_dist(q, h) = IF q >= h THEN q - h ELSE q - h + N
        /\ circ_dist(o, h) = IF o >= h THEN o - h ELSE o - h + N
        /\ circ_dist(t, h) = IF t >= h THEN t - h ELSE t - h + N
        /\ circ_dist(o, q) = IF o >= q THEN o - q ELSE o - q + N
        /\ circ_dist(t, q) = IF t >= q THEN t - q ELSE t - q + N
        /\ circ_dist(p, q) = IF p >= q THEN p - q ELSE p - q + N
        /\ circ_dist(t, o) = IF t >= o THEN t - o ELSE t - o + N
        /\ circ_dist(q, g) = IF q >= g THEN q - g ELSE q - g + N
        /\ circ_dist(p, g) = IF p >= g THEN p - g ELSE p - g + N
    BY Dist
  <1>5. /\ h \in Int /\ t \in Int /\ q \in Int /\ o \in Int /\ p \in Int /\ g \in Int
        /\ 0 <= h /\ 0 <= t /\ 0 <= q /\ 0 <= o /\ h < N /\ t < N /\ q < N /\ o < N
        /\ 0 <= p /\ 0 <= g /\ p < N /\ g < N
    BY Sizes DEF Place, N
  <1>6. /\ h + W <= N /\ t + W <= N /\ q + W <= N
        /\ q + W <= t \/ t + W <= q \/ t = q
        /\ h + W <= t \/ t + W <= h \/ t = h
        /\ h + W <= q \/ q + W <= h \/ h = q
    BY <1>2, Row, RowOfAligned, AlignedApart DEF Place
  <1>7. /\ circ_dist(o, h) < circ_dist(t, h) /\ circ_dist(o, q) < DISPLAY_SIZE
        /\ circ_dist(t, o) <= W /\ circ_dist(q, g) < circ_dist(p, g)
    BY <1>1, <1>2, <1>3 DEF Sound, Within, OnScreen, Cursor
  <1>8. q # t
    <2>1. SUFFICES ASSUME q = t PROVE FALSE
      OBVIOUS
    <2>. QED BY ONLY <1>4, <1>5, <1>7, <2>1, Sizes
  <1>9. circ_dist(q, h) < circ_dist(t, h)
    <2>1. CASE p = h
      <3>1. /\ g = IF h + W = N THEN 0 ELSE h + W
            /\ p = IF t + W = N THEN 0 ELSE t + W
        BY <1>2, <2>1
      <3>. QED BY ONLY <1>4, <1>5, <1>6, <1>7, <1>8, <2>1, <3>1, Sizes
    <2>2. CASE p # h
      <3>1. /\ g = h
            /\ p = IF t + W = N THEN 0 ELSE t + W
        BY <1>2, <2>2
      <3>. QED BY ONLY <1>4, <1>5, <1>6, <1>7, <1>8, <2>2, <3>1, Sizes
    <2>. QED BY <2>1, <2>2
  <1>10. circ_dist(q, h) <= circ_dist(o, h)
    BY ONLY <1>4, <1>5, <1>6, <1>7, <1>8, <1>9, Sizes
  <1>11. Within(v, v.vt_top) /\ CursorFollowsTop(v)
    BY <1>2, <1>9, <1>10 DEF Within, CursorFollowsTop
  <1>12. sc.cells = Shown(v)
    BY <1>11 DEF ShownOf
  <1>13. circ_dist(p, q) = circ_dist(t, q) + W
    <2>1. p = IF t + W = N THEN 0 ELSE t + W
      BY <1>2
    <2>2. p # q
      <3>1. SUFFICES ASSUME p = q PROVE FALSE
        OBVIOUS
      <3>. QED BY ONLY <1>4, <1>5, <1>7, <3>1, Sizes
    <2>. QED BY ONLY <1>4, <1>5, <1>6, <1>8, <2>1, <2>2, Sizes
  <1>14. Cursor(v) \in Cell /\ Cursor(v) < circ_dist(t, q) /\ Cursor(v) = circ_dist(o, q)
    <2>1. Cursor(v) = circ_dist(o, q) /\ circ_dist(o, q) \in Place
      BY <1>2, Dist DEF Cursor
    <2>. QED BY <1>2, <1>11, <2>1, CursorIsShown, Sizes DEF OnScreen, Cell, Place
  <1>15. ASSUME NEW i \in Cell
         PROVE  Shown(r)[i] = IF c \in Char /\ i = circ_dist(o, q) THEN c ELSE Shown(v)[i]
    <2>1. PICK x \in Place : x = buf_add(q, i) /\ circ_dist(x, q) = i /\ x = IF q + i < N THEN q + i ELSE q + i - N
      BY CellPlace
    <2>2. circ_dist(x, t) = IF x >= t THEN x - t ELSE x - t + N
      BY Dist
    <2>3. i \in Int /\ 0 <= i /\ i < DISPLAY_SIZE /\ x \in Int /\ 0 <= x /\ x < N
      BY Sizes DEF Cell, Place, N
    <2>4. i = circ_dist(o, q) <=> x = o
      BY ONLY <1>4, <1>5, <2>1, <2>3, Sizes
    <2>5. i < circ_dist(t, q) => ~(circ_dist(x, t) < W)
      BY ONLY <1>4, <1>5, <1>6, <2>1, <2>2, <2>3, Sizes
    <2>6. circ_dist(t, q) <= i /\ i < circ_dist(t, q) + W => circ_dist(x, t) < W
      BY ONLY <1>4, <1>5, <1>6, <2>1, <2>2, <2>3, Sizes
    <2>7. Put(v, c)[x] = IF c \in Char /\ x = o THEN c ELSE v.vt_buf[x]
      BY <1>2 DEF Put, Sound, TermRec
    <2>8. /\ Shown(v)[i] = IF i < circ_dist(t, q) THEN v.vt_buf[x] ELSE Blank
          /\ Shown(r)[i] = IF i < circ_dist(p, q)
                           THEN IF circ_dist(x, t) < W THEN Blank ELSE Put(v, c)[x] ELSE Blank
      <3>1. /\ Shown(v)[i] = IF i < circ_dist(t, q) THEN v.vt_buf[x] ELSE Blank
            /\ Shown(r)[i] = IF i < circ_dist(p, q) THEN r.vt_buf[x] ELSE Blank
        BY <1>2, <1>3, <2>1 DEF Shown
      <3>2. r.vt_buf[x] = IF circ_dist(x, t) < W THEN Blank ELSE Put(v, c)[x]
        BY <1>3
      <3>. QED BY <3>1, <3>2
    <2>9. circ_dist(t, q) \in Int /\ (i < circ_dist(t, q) \/ circ_dist(t, q) <= i)
      BY <1>4, <1>5, <2>3, Sizes
    <2>10. circ_dist(t, q) <= i => ~(i = circ_dist(o, q))
      BY <1>14, <2>3, Sizes, Dist DEF Place
    <2>11. CASE i < circ_dist(t, q)
      <3>1. i < circ_dist(p, q)
        BY <1>4, <1>5, <1>13, <2>3, <2>11, Sizes
      <3>. QED BY <2>4, <2>5, <2>7, <2>8, <2>11, <3>1
    <2>12. CASE circ_dist(t, q) <= i
      <3>1. ~(i < circ_dist(t, q))
        BY <1>4, <1>5, <2>3, <2>12, Sizes
      <3>2. i < circ_dist(p, q) => circ_dist(x, t) < W
        BY <1>13, <2>6, <2>12
      <3>. QED BY <2>8, <2>10, <2>12, <3>1, <3>2
    <2>. QED BY <2>9, <2>11, <2>12
  <1>16. CASE c \notin Char
    <2>1. \A i \in Cell : Shown(r)[i] = Shown(v)[i]
      BY <1>15, <1>16
    <2>2. Shown(r) = Shown(v)
      BY <2>1 DEF Shown
    <2>. QED BY <1>12, <1>16, <2>2
  <1>17. CASE c \in Char
    <2>1. \A i \in Cell : Shown(r)[i] = IF i = Cursor(v) THEN c ELSE Shown(v)[i]
      BY <1>14, <1>15, <1>17
    <2>2. Shown(r) = [Shown(v) EXCEPT ![Cursor(v)] = c]
      BY <1>14, <2>1 DEF Shown
    <2>. QED BY <1>12, <1>17, <2>2
  <1>. QED BY <1>16, <1>17
-----------------------------------------------------------------------------
(* What a step does to a terminal, if it changes it: a character is handled, *)
(* or the screen is moved.                                                  *)
LEMMA TermAfter ==
  ASSUME VtermIInv, VtermNext, NEW t \in Term
  PROVE  \/ vt'[t] = vt[t]
         \/ \E c \in Char \cup Control : vt'[t] = vt_handle_char(follow(vt[t]), c)
         \/ \E q \in Place : vt'[t] = [vt[t] EXCEPT !.vt_top = q]
  <1>1. vt \in [Term -> TermRec] /\ Sound(vt[t])
    BY IInvParts
  <1>2. ASSUME NEW u \in Term, NEW c \in Char \cup Control, vt_provide_char(u, c)
        PROVE  vt'[t] = vt[t] \/ vt'[t] = vt_handle_char(follow(vt[t]), c)
    BY <1>1, <1>2 DEF vt_provide_char
  <1>3. ASSUME NEW sc, keyboard_intr_handler(sc)
        PROVE  vt'[t] = vt[t] \/ \E up \in BOOLEAN : vt'[t] = Scrolled(vt[t], DISPLAY_HEIGHT, up)
    <2>1. CASE press_ctrl(sc)
      BY <2>1 DEF press_ctrl
    <2>2. CASE press_function(sc)
      BY <2>2 DEF press_function, vt_switch
    <2>3. CASE press_scroll(sc)
      <3>1. PICK up \in BOOLEAN : vt_scroll(DISPLAY_HEIGHT, up)
        BY <2>3 DEF press_scroll
      <3>. QED BY <1>1, <3>1 DEF vt_scroll
    <2>. QED BY <1>3, <2>1, <2>2, <2>3 DEF keyboard_intr_handler
  <1>4. CASE \E u \in Term, c \in Char \cup Control : vt_provide_char(u, c)
    BY <1>2, <1>4
  <1>5. CASE \E sc \in ScanCode : keyboard_intr_handler(sc)
    BY <1>1, <1>3, <1>5, ScrolledIsSound
  <1>. QED BY <1>4, <1>5 DEF VtermNext, Control

LEMMA ProvideKeeps ==
  ASSUME VtermIInv, NEW t \in Term, NEW c \in Char \cup Control, vt_provide_char(t, c)
  PROVE  VtermIInv'
  <1>1. PICK v, f, r : /\ v = vt[t] /\ f = follow(v) /\ r = vt_handle_char(f, c)
                       /\ vt' = [vt EXCEPT ![t] = r]
    BY DEF vt_provide_char
  <1>2. /\ vt \in [Term -> TermRec] /\ vt_curterm \in Term /\ \A u \in Term : Sound(vt[u])
        /\ ShownOf(vt[vt_curterm], screen)
    BY IInvParts
  <1>3. /\ Sound(v) /\ Sound(f) /\ Sound(r) /\ r.vt_top = f.vt_top
        /\ (OnScreen(v) /\ f = v) \/ f.vt_top # v.vt_top
    BY <1>1, <1>2, Followed, HandledIsSound
  <1>4. /\ vt' \in [Term -> TermRec] /\ vt_curterm' \in Term /\ \A u \in Term : Sound(vt'[u])
    <2>1. r \in TermRec /\ vt_curterm' = vt_curterm
      BY <1>3 DEF Sound, vt_provide_char
    <2>. QED BY <1>1, <1>2, <1>3, <2>1
  <1>5. ShownOf(vt'[vt_curterm'], screen')
    <2>1. vt_curterm' = vt_curterm
      BY DEF vt_provide_char
    <2>2. CASE t # vt_curterm
      <3>1. screen' = screen /\ vt'[vt_curterm] = vt[vt_curterm]
        BY <1>1, <1>2, <2>2 DEF vt_provide_char
      <3>. QED BY <1>2, <2>1, <3>1
    <2>3. CASE t = vt_curterm
      <3>1. vt'[vt_curterm] = r
        BY <1>1, <1>2, <2>3
      <3>2. CASE r.vt_top # v.vt_top
        <4>1. screen' = [cells |-> Shown(r), cursor |-> Cursor(r)]
          BY <1>1, <2>3, <3>2 DEF vt_provide_char, vt_redraw
        <4>. QED BY <2>1, <3>1, <4>1 DEF ShownOf
      <3>3. CASE r.vt_top = v.vt_top
        <4>1. OnScreen(v) /\ f = v /\ ShownOf(v, screen)
          BY <1>1, <1>2, <1>3, <2>3, <3>3
        <4>2. screen' = [cells  |-> IF c \notin Char THEN screen.cells
                                    ELSE [screen.cells EXCEPT ![Cursor(v)] = c],
                         cursor |-> Cursor(r)]
          BY <1>1, <2>3, <3>3 DEF vt_provide_char
        <4>3. \/ r = Grown(v, Put(v, c)) /\ circ_dist(v.vt_tail, v.vt_cursor) <= W
              \/ \E d : Goes(v, d) /\ r = Moved(v, Put(v, c), d)
          BY <1>1, <1>3, <4>1, Handled
        <4>4. ShownOf(r, screen')
          <5>1. CASE r = Grown(v, Put(v, c)) /\ circ_dist(v.vt_tail, v.vt_cursor) <= W
            BY <1>3, <4>1, <4>2, <5>1, GrownIsShown
          <5>2. CASE \E d : Goes(v, d) /\ r = Moved(v, Put(v, c), d)
            BY <1>3, <4>1, <4>2, <5>2, MovedIsShown
          <5>. QED BY <4>3, <5>1, <5>2
        <4>. QED BY <2>1, <3>1, <4>4
      <3>. QED BY <3>2, <3>3
    <2>. QED BY <2>2, <2>3
  <1>6. VtermSound'
    BY <1>4 DEF VtermSound, Sound, TermRec, Aligned, W
  <1>7. ScreenIsShown'
    BY <1>5 DEF ScreenIsShown, ShownOf
  <1>. QED BY <1>4, <1>6, <1>7 DEF VtermIInv

(* Where the screen has been redrawn it shows what it should.               *)
LEMMA RedrawKeeps ==
  ASSUME VtermIInv, vt' \in [Term -> TermRec], \A u \in Term : Sound(vt'[u]),
         vt_curterm' \in Term, vt_redraw(vt'[vt_curterm'])
  PROVE  VtermIInv'
  <1>1. VtermSound'
    BY DEF VtermSound, Sound, TermRec, Aligned, W
  <1>2. ScreenIsShown'
    BY DEF ScreenIsShown, vt_redraw
  <1>. QED BY <1>1, <1>2 DEF VtermIInv

LEMMA KeyKeeps ==
  ASSUME VtermIInv, NEW sc, keyboard_intr_handler(sc)
  PROVE  VtermIInv'
  <1>1. /\ vt \in [Term -> TermRec] /\ vt_curterm \in Term /\ \A u \in Term : Sound(vt[u])
        /\ ShownOf(vt[vt_curterm], screen)
    BY IInvParts
  <1>2. CASE UNCHANGED <<vt, vt_curterm, screen>>
    <2>1. VtermSound'
      BY <1>1, <1>2 DEF VtermSound, Sound, TermRec, Aligned, W
    <2>2. ScreenIsShown'
      BY <1>1, <1>2 DEF ScreenIsShown, ShownOf
    <2>. QED BY <1>1, <1>2, <2>1, <2>2 DEF VtermIInv
  <1>3. CASE press_ctrl(sc)
    BY <1>2, <1>3 DEF press_ctrl
  <1>4. CASE press_function(sc)
    <2>1. CASE sc \in DOMAIN KeyOf
      <3>1. KeyOf[sc] \in Term /\ vt_curterm' = KeyOf[sc] /\ vt' = vt /\ vt_redraw(vt[KeyOf[sc]])
        BY <1>4, <2>1, VtermAssumption DEF press_function, vt_switch
      <3>. QED BY <1>1, <3>1, RedrawKeeps
    <2>2. CASE sc \notin DOMAIN KeyOf
      BY <1>2, <1>4, <2>2 DEF press_function
    <2>. QED BY <2>1, <2>2
  <1>5. CASE press_scroll(sc)
    <2>1. PICK up \in BOOLEAN : vt_scroll(DISPLAY_HEIGHT, up)
      BY <1>5 DEF press_scroll
    <2>2. PICK x : /\ x = Scrolled(vt[vt_curterm], DISPLAY_HEIGHT, up) /\ vt_redraw(x)
                   /\ vt' = [vt EXCEPT ![vt_curterm] = x] /\ vt_curterm' = vt_curterm
      BY <2>1 DEF vt_scroll
    <2>3. Sound(x) /\ x \in TermRec
      BY <1>1, <2>2, ScrolledIsSound DEF Sound
    <2>4. vt' \in [Term -> TermRec] /\ \A u \in Term : Sound(vt'[u])
      BY <1>1, <2>2, <2>3
    <2>5. vt'[vt_curterm'] = x
      BY <1>1, <2>2
    <2>. QED BY <1>1, <2>2, <2>4, <2>5, RedrawKeeps
  <1>. QED BY <1>3, <1>4, <1>5 DEF keyboard_intr_handler

LEMMA VtermNextKeeps ==
  ASSUME VtermIInv, VtermNext
  PROVE  VtermIInv'
  <1>1. CASE \E t \in Term, c \in Char \cup Control : vt_provide_char(t, c)
    BY <1>1, ProvideKeeps
  <1>2. CASE \E sc \in ScanCode : keyboard_intr_handler(sc)
    BY <1>2, KeyKeeps
  <1>. QED BY <1>1, <1>2 DEF VtermNext, Control

LEMMA VtermStarts ==
  ASSUME VtermInit
  PROVE  VtermIInv
  <1>1. NewTerm \in TermRec
    BY WidthIsAligned DEF NewTerm, TermRec, W
  <1>2. Sound(NewTerm)
    <2>1. /\ NewTerm.vt_head = 0 /\ NewTerm.vt_tail = W /\ NewTerm.vt_top = 0 /\ NewTerm.vt_cursor = 0
      BY DEF NewTerm, W
    <2>2. circ_dist(0, 0) = 0 /\ circ_dist(W, 0) = W
      BY WidthIsAligned, Dist, Sizes
    <2>. QED BY <1>1, <2>1, <2>2, WidthIsAligned, Sizes DEF Sound, Within
  <1>3. Cursor(NewTerm) = 0
    <2>1. circ_dist(0, 0) = 0
      BY WidthIsAligned, Dist, Sizes
    <2>. QED BY <2>1 DEF Cursor, NewTerm
  <1>4. /\ vt \in [Term -> TermRec] /\ vt_curterm \in Term /\ vt[vt_curterm] = NewTerm
        /\ \A t \in Term : Sound(vt[t])
        /\ screen = [cells |-> Shown(NewTerm), cursor |-> Cursor(NewTerm)]
    BY <1>1, <1>2, <1>3, VtermAssumption DEF VtermInit
  <1>. QED BY <1>4, IInvParts DEF ShownOf

-----------------------------------------------------------------------------
(* The invariant is inductive: the terminals keep their type, their rows and *)
(* their cursor, and the screen shows the one that is on it.                *)
THEOREM VtermInductive == VtermSpec => []VtermIInv
  <1>1. VtermIInv /\ [VtermNext]_vtermVars => VtermIInv'
    <2>1. SUFFICES ASSUME VtermIInv, [VtermNext]_vtermVars PROVE VtermIInv'
      OBVIOUS
    <2>2. CASE VtermNext
      BY <2>1, <2>2, VtermNextKeeps
    <2>3. CASE UNCHANGED vtermVars
      BY <2>1, <2>3 DEF VtermIInv, VtermSound, ScreenIsShown, vtermVars
    <2>. QED BY <2>1, <2>2, <2>3
  <1>. QED BY <1>1, VtermStarts, PTL DEF VtermSpec

(* However the text goes round the ring of virtterm.c, head, tail and top    *)
(* start rows and the cursor is in the text.                                *)
THEOREM RingSound == VtermSpec => []VtermSound
  <1>1. VtermIInv => VtermSound
    BY DEF VtermIInv
  <1>. QED BY <1>1, VtermInductive, PTL

(* Written piecemeal, scrolled and switched, the screen is what vt_redraw    *)
(* would make of the terminal shown.                                        *)
THEOREM ScreenFollows == VtermSpec => []ScreenIsShown
  <1>1. VtermIInv => ScreenIsShown
    BY DEF VtermIInv
  <1>. QED BY <1>1, VtermInductive, PTL

(* No step changes the text but at the cursor: what advance_tail blanks has  *)
(* been given up at the head.                                               *)
THEOREM TextKept == VtermSpec => TextStays
  <1>1. ASSUME VtermIInv, [VtermNext]_vtermVars, NEW t \in Term, NEW i \in Place,
               Within(vt[t], i), i # vt[t].vt_cursor
        PROVE  vt'[t].vt_buf[i] = vt[t].vt_buf[i]
    <2>1. vt \in [Term -> TermRec] /\ Sound(vt[t])
      BY <1>1, IInvParts
    <2>2. CASE vt'[t] = vt[t]
      BY <2>2
    <2>3. CASE \E c \in Char \cup Control : vt'[t] = vt_handle_char(follow(vt[t]), c)
      <3>1. PICK f : f = follow(vt[t])
        OBVIOUS
      <3>2. /\ Sound(f) /\ f.vt_head = vt[t].vt_head /\ f.vt_tail = vt[t].vt_tail
            /\ f.vt_cursor = vt[t].vt_cursor /\ f.vt_buf = vt[t].vt_buf
        BY <2>1, <3>1, Followed
      <3>3. Within(f, i) /\ i # f.vt_cursor
        BY <1>1, <3>2 DEF Within
      <3>. QED BY <2>3, <3>1, <3>2, <3>3, TextAfter
    <2>4. CASE \E q \in Place : vt'[t] = [vt[t] EXCEPT !.vt_top = q]
      BY <2>1, <2>4 DEF TermRec
    <2>5. CASE UNCHANGED vtermVars
      BY <2>5 DEF vtermVars
    <2>. QED BY <1>1, <2>2, <2>3, <2>4, <2>5, TermAfter
  <1>2. VtermIInv /\ [VtermNext]_vtermVars =>
          [\A t \in Term, i \in Place :
             /\ Within(vt[t], i) /\ Within(vt'[t], i)
             /\ i # vt[t].vt_cursor
             => vt'[t].vt_buf[i] = vt[t].vt_buf[i]]_vtermVars
    BY <1>1
  <1>. QED BY <1>2, VtermInductive, PTL DEF VtermSpec, TextStays
=============================================================================
