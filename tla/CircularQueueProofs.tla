------------------------- MODULE CircularQueueProofs ------------------------
(***************************************************************************)
(* CircularQueue implements BoundedQueue, for any number of queues, any     *)
(* values and any capacities.                                               *)
(*                                                                          *)
(* The inductive invariant is small: the indices of a usable queue are in   *)
(* its buffer, and an unusable one is empty.  The work is in the indices:   *)
(* the modulus is a case distinction while no index passes the buffer       *)
(* twice, and then each operation is compared with its promise element by   *)
(* element.                                                                 *)
(***************************************************************************)
EXTENDS CircularQueue, SequenceTheorems, TLAPS

-----------------------------------------------------------------------------
(* The inductive invariant                                                  *)

Cell == Values \union {Junk}

TypeOK ==
    /\ cap \in [Queues -> Nat \ {0}]
    /\ head \in [Queues -> Nat] /\ tail \in [Queues -> Nat]
    /\ data = [q \in Queues |-> data[q]]

\* Both indices are in the buffer, and it has all its cells.
InBuffer(q) ==
    Usable(q) => /\ head[q] < cap[q] /\ tail[q] < cap[q]
                 /\ data[q] \in [0 .. cap[q] - 1 -> Cell]

\* A queue without room has no element, wherever its indices are.
NoneWithout(q) == ~Usable(q) => head[q] = tail[q]

IInv == TypeOK /\ \A q \in Queues : InBuffer(q) /\ NoneWithout(q)

-----------------------------------------------------------------------------
(* Arithmetic of indices                                                    *)

\* The smaller of two integers.
LEMMA MinOf ==
    ASSUME NEW a \in Int, NEW b \in Int
    PROVE  Min({a, b}) = IF a <= b THEN a ELSE b
<1> DEFINE m == IF a <= b THEN a ELSE b
<1>1. \A x \in {a, b} : (\A y \in {a, b} : x =< y) <=> x = m
  OBVIOUS
<1>2. m \in {a, b}
  OBVIOUS
<1>3. QED
  BY <1>1, <1>2 DEF Min

\* An index that passed the end of the buffer at most once.
Turn(i, c) == IF i < c THEN i ELSE i - c

\* jump: the modulus of such an index is the index, or what is beyond the end.
LEMMA Turned ==
    ASSUME NEW c \in Nat \ {0}, NEW i \in Nat, i < 2 * c
    PROVE  i % c = Turn(i, c) /\ Turn(i, c) \in 0 .. c - 1
<1>1. CASE i < c
  <2>1. i % c = i
    BY <1>1
  <2>2. QED
    BY <1>1, <2>1 DEF Turn
<1>2. CASE i >= c
  <2>1. i % c = i - c
    BY <1>2
  <2>2. QED
    BY <1>2, <2>1 DEF Turn
<1>3. QED
  BY <1>1, <1>2

-----------------------------------------------------------------------------
(* One buffer: c cells d, head h, tail t                                    *)

\* What the invariant asks of it.
Sound(c, h, t, d) ==
    /\ c \in Nat \ {0} /\ h \in Nat /\ t \in Nat
    /\ c = 1 => h = t
    /\ c > 1 => h < c /\ t < c /\ d \in [0 .. c - 1 -> Cell]

\* Its elements: how many, and in order.
Held(c, h, t) == IF h >= t THEN h - t ELSE h + c - t
Seen(c, h, t, d) == [k \in 1 .. Held(c, h, t) |-> d[(t + (k - 1)) % c]]

\* Its cells after the n oldest elements were destroyed.
Gone(c, t, d, n) == [i \in DOMAIN d |->
    IF \E k \in 0 .. n - 1 : i = (t + k) % c THEN Junk ELSE d[i]]

\* Its cells after w was put in from h on, m elements of it before the end of the buffer.
Laid(h, d, w, m) == [i \in DOMAIN d |->
    CASE i \in h .. h + m - 1 -> w[i - h + 1]
      [] i < Len(w) - m       -> w[m + i + 1]
      [] OTHER                -> d[i]]

\* There is room for l more.
HasRoom(c, h, t, l) == Held(c, h, t) + l <= c - 1

\* How many of l elements from h on are before the end.
BeforeEnd(c, h, l) == IF l <= c - h THEN l ELSE c - h

\* next: the cell after one.
After(c, i) == IF i + 1 = c THEN 0 ELSE i + 1

\* Its cells after v was put into one.
Put(d, h, v) == [d EXCEPT ![h] = v]

\* c cells that were filled with s from the first on.
Filling(c, s) == [i \in 0 .. c - 1 |-> IF i < Len(s) THEN s[i + 1] ELSE Junk]

\* size: less than the cells, and how far the head is from the tail.
LEMMA HeldIs ==
    ASSUME NEW c, NEW h, NEW t, NEW d, Sound(c, h, t, d)
    PROVE  /\ Held(c, h, t) \in 0 .. c - 1
           /\ c = 1 => Held(c, h, t) = 0
           /\ c > 1 => h = Turn(t + Held(c, h, t), c)
BY DEF Sound, Held, Turn

\* jump by less than the buffer.
LEMMA Jumped ==
    ASSUME NEW c \in Nat, c > 1, NEW i \in 0 .. c - 1, NEW k \in 0 .. c - 1
    PROVE  (i + k) % c = Turn(i + k, c) /\ Turn(i + k, c) \in 0 .. c - 1
<1>1. c \in Nat \ {0} /\ i + k \in Nat /\ i + k < 2 * c
  OBVIOUS
<1>2. QED
  BY <1>1, Turned

\* for_each: the cells from the tail on, as many as the queue has elements.
LEMMA Elements ==
    ASSUME NEW c, NEW h, NEW t, NEW d, Sound(c, h, t, d)
    PROVE  /\ Seen(c, h, t, d) \in Seq(Cell)
           /\ Len(Seen(c, h, t, d)) = Held(c, h, t)
           /\ \A k \in 1 .. Held(c, h, t) :
                  /\ Turn(t + (k - 1), c) \in 0 .. c - 1
                  /\ Seen(c, h, t, d)[k] = d[Turn(t + (k - 1), c)]
<1> DEFINE n == Held(c, h, t)
           s == Seen(c, h, t, d)
<1>1. n \in 0 .. c - 1 /\ c \in Nat /\ (c = 1 => n = 0)
  BY HeldIs DEF Sound
<1>2. s = [k \in 1 .. n |-> d[(t + (k - 1)) % c]]
  BY DEF Seen
<1>3. ASSUME NEW k \in 1 .. n
      PROVE  /\ Turn(t + (k - 1), c) \in 0 .. c - 1
             /\ s[k] = d[Turn(t + (k - 1), c)]
             /\ s[k] \in Cell
  <2>1. c > 1 /\ k - 1 \in 0 .. c - 1
    BY <1>1
  <2>2. t \in 0 .. c - 1 /\ d \in [0 .. c - 1 -> Cell]
    BY <2>1 DEF Sound
  <2>3. (t + (k - 1)) % c = Turn(t + (k - 1), c) /\ Turn(t + (k - 1), c) \in 0 .. c - 1
    BY <1>1, <2>1, <2>2, Jumped
  <2>4. QED
    BY <1>2, <2>2, <2>3
<1>4. s \in [1 .. n -> Cell]
  BY <1>2, <1>3
<1>5. s \in Seq(Cell) /\ Len(s) = n
  BY <1>1, <1>4
<1>6. QED
  BY <1>3, <1>5

-----------------------------------------------------------------------------
(* What the operations do to a buffer                                       *)

\* push into a queue that is not full: the element is last.
LEMMA Pushed ==
    ASSUME NEW c, NEW h, NEW t, NEW d, Sound(c, h, t, d), c > 1,
           NEW v \in Values, NEW g, g = After(c, h), g # t
    PROVE  /\ Sound(c, g, t, Put(d, h, v))
           /\ Seen(c, g, t, Put(d, h, v)) = Append(Seen(c, h, t, d), v)
<1> DEFINE e == Put(d, h, v)
           n == Held(c, h, t)
           s == Seen(c, h, t, d)
           u == Seen(c, g, t, e)
<1>1. /\ c \in Nat /\ h \in 0 .. c - 1 /\ t \in 0 .. c - 1
      /\ d \in [0 .. c - 1 -> Cell]
  BY DEF Sound
<1>2. /\ n \in 0 .. c - 1 /\ h = Turn(t + n, c)
  BY HeldIs
<1>2a. g = (IF h + 1 = c THEN 0 ELSE h + 1)
  BY DEF After
<1>3. e \in [0 .. c - 1 -> Cell]
  BY <1>1 DEF Cell, Put
<1>4. Sound(c, g, t, e)
  BY <1>1, <1>2a, <1>3 DEF Sound
<1>5. Held(c, g, t) = n + 1
  BY <1>1, <1>2a DEF Held
<1>6. /\ s \in Seq(Cell) /\ Len(s) = n
      /\ \A k \in 1 .. n : /\ Turn(t + (k - 1), c) \in 0 .. c - 1
                           /\ s[k] = d[Turn(t + (k - 1), c)]
  BY Elements
<1>7. /\ u \in Seq(Cell) /\ Len(u) = n + 1
      /\ \A k \in 1 .. n + 1 : /\ Turn(t + (k - 1), c) \in 0 .. c - 1
                               /\ u[k] = e[Turn(t + (k - 1), c)]
  <2> HIDE DEF e
  <2>1. /\ u \in Seq(Cell) /\ Len(u) = Held(c, g, t)
        /\ \A k \in 1 .. Held(c, g, t) : /\ Turn(t + (k - 1), c) \in 0 .. c - 1
                                        /\ u[k] = e[Turn(t + (k - 1), c)]
    BY <1>4, Elements
  <2>2. QED
    BY <1>5, <2>1
<1>8. /\ Append(s, v) \in Seq(Cell) /\ Len(Append(s, v)) = n + 1
      /\ \A k \in 1 .. n : Append(s, v)[k] = s[k]
      /\ Append(s, v)[n + 1] = v
  <2>1. v \in Cell
    BY DEF Cell
  <2>2. QED
    BY <1>2, <1>6, <2>1
<1>9. ASSUME NEW k \in 1 .. n + 1 PROVE u[k] = Append(s, v)[k]
  <2>1. CASE k = n + 1
    <3>1. Turn(t + (k - 1), c) = h
      BY <1>1, <1>2, <2>1
    <3>2. QED
      BY <1>1, <1>7, <1>8, <2>1, <3>1 DEF Put
  <2>2. CASE k \in 1 .. n
    <3>1. Turn(t + (k - 1), c) # h
      BY <1>1, <1>2, <2>2 DEF Turn
    <3>2. u[k] = d[Turn(t + (k - 1), c)]
      BY <1>1, <1>7, <3>1 DEF Put
    <3>3. QED
      BY <1>6, <1>8, <2>2, <3>2
  <2>3. k = n + 1 \/ k \in 1 .. n
    <3> HIDE DEF n
    <3>1. QED
      BY <1>2
  <2>4. QED
    BY <2>1, <2>2, <2>3
<1>10. u = Append(s, v)
  BY <1>7, <1>8, <1>9, SeqEqual
<1>11. QED
  BY <1>4, <1>10

\* Destruction of the n oldest elements: the others stay, in order.
LEMMA Removed ==
    ASSUME NEW c, NEW h, NEW t, NEW d, Sound(c, h, t, d), c > 1,
           NEW n \in 0 .. Held(c, h, t)
    PROVE  /\ Sound(c, h, (t + n) % c, Gone(c, t, d, n))
           /\ Held(c, h, (t + n) % c) = Held(c, h, t) - n
           /\ Seen(c, h, (t + n) % c, Gone(c, t, d, n))
                = SubSeq(Seen(c, h, t, d), n + 1, Held(c, h, t))
<1> DEFINE m == Held(c, h, t)
           e == Gone(c, t, d, n)
           g == (t + n) % c
           s == Seen(c, h, t, d)
           u == Seen(c, h, g, e)
<1>1. /\ c \in Nat /\ h \in 0 .. c - 1 /\ t \in 0 .. c - 1
      /\ d \in [0 .. c - 1 -> Cell]
  BY DEF Sound
<1>2. /\ m \in 0 .. c - 1 /\ h = Turn(t + m, c) /\ n \in 0 .. c - 1 /\ n <= m
  <2>1. m \in 0 .. c - 1 /\ h = Turn(t + m, c)
    BY HeldIs
  <2>2. n \in 0 .. m
    OBVIOUS
  <2> HIDE DEF m
  <2>3. QED
    BY <1>1, <2>1, <2>2
<1>3. g = Turn(t + n, c) /\ g \in 0 .. c - 1
  BY <1>1, <1>2, Jumped
<1>4. e \in [0 .. c - 1 -> Cell]
  BY <1>1 DEF Gone, Cell
<1>5. Sound(c, h, g, e)
  BY <1>1, <1>3, <1>4 DEF Sound
<1>6. Held(c, h, g) = m - n
  BY <1>1, <1>2, <1>3 DEF Turn, Held
<1>7. /\ s \in Seq(Cell) /\ Len(s) = m
      /\ \A k \in 1 .. m : /\ Turn(t + (k - 1), c) \in 0 .. c - 1
                           /\ s[k] = d[Turn(t + (k - 1), c)]
  BY Elements
<1>8. /\ u \in Seq(Cell) /\ Len(u) = m - n
      /\ \A k \in 1 .. m - n : /\ Turn(g + (k - 1), c) \in 0 .. c - 1
                               /\ u[k] = e[Turn(g + (k - 1), c)]
  BY <1>5, <1>6, Elements
<1>9. /\ SubSeq(s, n + 1, m) \in Seq(Cell) /\ Len(SubSeq(s, n + 1, m)) = m - n
      /\ \A k \in 1 .. m - n : SubSeq(s, n + 1, m)[k] = s[n + k]
  <2>1. \A i \in n + 1 .. m : s[i] \in Cell
    BY <1>2, <1>7, ElementOfSeq
  <2>2. QED
    BY <1>2, <2>1, SubSeqProperties
<1>10. ASSUME NEW k \in 1 .. m - n PROVE u[k] = SubSeq(s, n + 1, m)[k]
  <2>1. k \in Nat /\ n + k \in 1 .. m
    BY <1>2
  <2>2. Turn(g + (k - 1), c) = Turn(t + (n + k - 1), c)
    <3> HIDE DEF m, g
    <3>1. n + k - 1 < c
      BY <1>1, <1>2, <2>1
    <3>2. QED
      BY <1>1, <1>2, <1>3, <2>1, <3>1 DEF Turn
  <2>3. ASSUME NEW j \in 0 .. n - 1 PROVE Turn(t + (n + k - 1), c) # (t + j) % c
    <3> HIDE DEF m
    <3>1. j \in 0 .. c - 1 /\ j < n + k - 1 /\ n + k - 1 < c
      BY <1>1, <1>2, <2>1
    <3>2. (t + j) % c = Turn(t + j, c)
      BY <1>1, <3>1, Jumped
    <3>3. Turn(t + j, c) # Turn(t + (n + k - 1), c)
      BY <1>1, <1>2, <2>1, <3>1 DEF Turn
    <3>4. QED
      BY <3>2, <3>3
  <2>4. Turn(t + (n + k - 1), c) \in 0 .. c - 1
    BY <1>8, <2>2
  <2>5. e[Turn(t + (n + k - 1), c)] = d[Turn(t + (n + k - 1), c)]
    BY <1>1, <2>3, <2>4 DEF Gone
  <2>6. s[n + k] = d[Turn(t + (n + k - 1), c)]
    BY <1>7, <2>1
  <2>7. QED
    BY <1>8, <1>9, <2>2, <2>5, <2>6
<1>11. u = SubSeq(s, n + 1, m)
  BY <1>8, <1>9, <1>10, SeqEqual
<1>12. QED
  BY <1>5, <1>6, <1>11

\* The cells that l more elements take, up to the end of the buffer and from its start,
\* are none of those of the n elements before them.
LEMMA PiecesApart ==
    ASSUME NEW c \in Nat, NEW h \in 0 .. c - 1, NEW t \in 0 .. c - 1,
           NEW n \in Nat, NEW l \in Nat, n + l <= c - 1, h = Turn(t + n, c),
           NEW m \in Nat, m = (IF l <= c - h THEN l ELSE c - h),
           NEW j \in 0 .. n - 1
    PROVE  /\ Turn(t + j, c) \in 0 .. c - 1
           /\ Turn(t + j, c) \notin h .. h + m - 1
           /\ ~(Turn(t + j, c) < l - m)
<1>1. CASE t + n < c
  BY <1>1 DEF Turn
<1>2. CASE t + n >= c
  BY <1>2 DEF Turn
<1>3. QED
  BY <1>1, <1>2

\* The elements after l more were put in.
LEMMA Longer ==
    ASSUME NEW c \in Nat, NEW h \in 0 .. c - 1, NEW t \in 0 .. c - 1,
           NEW l \in Nat, Held(c, h, t) + l <= c - 1
    PROVE  Held(c, Turn(h + l, c), t) = Held(c, h, t) + l
BY DEF Held, Turn

\* Which element is in which cell after two pieces were put in.
LEMMA LaidIs ==
    ASSUME NEW h \in Nat, NEW d, NEW w \in Seq(Values), NEW m \in Nat, Len(w) - m <= h,
           NEW i \in DOMAIN d
    PROVE  /\ i \in h .. h + m - 1 => Laid(h, d, w, m)[i] = w[i - h + 1]
           /\ i \notin h .. h + m - 1 /\ i < Len(w) - m => Laid(h, d, w, m)[i] = w[m + i + 1]
           /\ i \notin h .. h + m - 1 /\ ~(i < Len(w) - m) => Laid(h, d, w, m)[i] = d[i]
<1>1. Laid(h, d, w, m)[i] =
        CASE i \in h .. h + m - 1 -> w[i - h + 1]
          [] i < Len(w) - m       -> w[m + i + 1]
          [] OTHER                -> d[i]
  BY DEF Laid
<1>2. CASE i \in h .. h + m - 1
  <2>1. Len(w) \in Nat
    BY LenProperties
  <2>2. ~(i < Len(w) - m)
    BY <1>2, <2>1
  <2>3. QED
    BY <1>1, <1>2, <2>2
<1>3. CASE i \notin h .. h + m - 1
  BY <1>1, <1>3
<1>4. QED
  BY <1>2, <1>3

\* enqueue_n in two pieces, up to the end of the buffer and from its start, where there is room for all: they follow the others.
LEMMA Joined ==
    ASSUME NEW c, NEW h, NEW t, NEW d, Sound(c, h, t, d), c > 1,
           NEW w \in Seq(Values), HasRoom(c, h, t, Len(w)),
           NEW e, e = Laid(h, d, w, BeforeEnd(c, h, Len(w)))
    PROVE  /\ Sound(c, (h + Len(w)) % c, t, e)
           /\ Seen(c, (h + Len(w)) % c, t, e) = Seen(c, h, t, d) \o w
<1> DEFINE n == Held(c, h, t)
           l == Len(w)
           m == BeforeEnd(c, h, l)
           g == (h + l) % c
           s == Seen(c, h, t, d)
           u == Seen(c, g, t, e)
<1>1. /\ c \in Nat /\ h \in 0 .. c - 1 /\ t \in 0 .. c - 1
      /\ d \in [0 .. c - 1 -> Cell]
  BY DEF Sound
<1>2. /\ n \in 0 .. c - 1 /\ h = Turn(t + n, c)
  BY HeldIs
<1>3. l \in Nat /\ l <= c - 1 /\ n + l <= c - 1
  <2>1. l \in Nat /\ n + l <= c - 1
    BY LenProperties DEF HasRoom
  <2> HIDE DEF n, l
  <2>2. QED
    BY <1>1, <1>2, <2>1
<1>4. g = Turn(h + l, c) /\ g \in 0 .. c - 1
  <2> HIDE DEF l
  <2>1. l \in 0 .. c - 1
    BY <1>1, <1>3
  <2>2. QED
    BY <1>1, <2>1, Jumped
<1>5. /\ m = (IF l <= c - h THEN l ELSE c - h) /\ m \in Nat
      /\ m <= l /\ h + m <= c /\ l - m <= h
  <2>1. m = (IF l <= c - h THEN l ELSE c - h)
    BY DEF BeforeEnd
  <2> HIDE DEF l, m
  <2>2. QED
    BY <1>1, <1>3, <2>1
<1> HIDE DEF m
<1>6. \A k \in 1 .. l : w[k] \in Cell
  BY ElementOfSeq DEF Cell
<1>6a. ASSUME NEW i \in 0 .. c - 1
      PROVE  /\ i \in h .. h + m - 1 => e[i] = w[i - h + 1]
             /\ i \notin h .. h + m - 1 /\ i < l - m => e[i] = w[m + i + 1]
             /\ i \notin h .. h + m - 1 /\ ~(i < l - m) => e[i] = d[i]
  <2>1. m \in Nat /\ Len(w) - m <= h
    BY <1>5
  <2>2. /\ i \in h .. h + m - 1 => Laid(h, d, w, m)[i] = w[i - h + 1]
        /\ i \notin h .. h + m - 1 /\ i < l - m => Laid(h, d, w, m)[i] = w[m + i + 1]
        /\ i \notin h .. h + m - 1 /\ ~(i < l - m) => Laid(h, d, w, m)[i] = d[i]
    <3>1. i \in DOMAIN d /\ h \in Nat
      BY <1>1
    <3>2. QED
      BY <2>1, <3>1, LaidIs
  <2>3. e = Laid(h, d, w, m)
    BY DEF m
  <2>4. QED
    BY <2>2, <2>3
\* What is in the cells: the new elements from the head on, the others elsewhere.
<1>7. ASSUME NEW j \in 0 .. l - 1
      PROVE  Turn(h + j, c) \in 0 .. c - 1 /\ e[Turn(h + j, c)] = w[j + 1]
  <2> HIDE DEF l
  <2>1. j \in Nat /\ j < l /\ j < c
    BY <1>1, <1>3
  <2>2. Turn(h + j, c) \in 0 .. c - 1
    BY <1>1, <2>1 DEF Turn
  <2>3. CASE j < m
    <3>1. Turn(h + j, c) = h + j /\ h + j \in h .. h + m - 1
      BY <1>1, <1>5, <2>1, <2>3 DEF Turn
    <3>2. e[h + j] = w[(h + j) - h + 1]
      BY <1>6a, <2>2, <3>1
    <3>3. (h + j) - h + 1 = j + 1
      BY <1>1, <2>1
    <3>4. QED
      BY <2>2, <3>1, <3>2, <3>3
  <2>4. CASE j >= m
    <3>1. m = c - h /\ h + j >= c
      BY <1>1, <1>3, <1>5, <2>1, <2>4
    <3>2. /\ Turn(h + j, c) = h + j - c /\ h + j - c \notin h .. h + m - 1
          /\ h + j - c < l - m
      BY <1>1, <1>3, <2>1, <3>1 DEF Turn
    <3>3. e[h + j - c] = w[m + (h + j - c) + 1]
      BY <1>6a, <2>2, <3>2
    <3>4. m + (h + j - c) + 1 = j + 1
      <4>1. (c - h) + (h + j - c) + 1 = j + 1
        BY <1>1, <2>1
      <4>2. QED
        BY <3>1, <4>1
    <3>5. QED
      BY <2>2, <3>2, <3>3, <3>4
  <2>5. QED
    BY <1>5, <2>1, <2>3, <2>4
<1>8. ASSUME NEW j \in 0 .. n - 1
      PROVE  Turn(t + j, c) \in 0 .. c - 1 /\ e[Turn(t + j, c)] = d[Turn(t + j, c)]
  <2> HIDE DEF l, n
  <2>1. /\ Turn(t + j, c) \in 0 .. c - 1
        /\ Turn(t + j, c) \notin h .. h + m - 1
        /\ ~(Turn(t + j, c) < l - m)
    <3>1. /\ c \in Nat /\ h \in 0 .. c - 1 /\ t \in 0 .. c - 1 /\ n \in Nat /\ l \in Nat
          /\ n + l <= c - 1 /\ h = Turn(t + n, c) /\ m \in Nat
          /\ m = (IF l <= c - h THEN l ELSE c - h)
      BY <1>1, <1>2, <1>3, <1>5
    <3>2. QED
      BY <3>1, PiecesApart
  <2>2. QED
    BY <1>6a, <2>1
<1>9. e \in [0 .. c - 1 -> Cell]
  <2>1. ASSUME NEW i \in 0 .. c - 1 PROVE e[i] \in Cell
    <3> HIDE DEF l
    <3>1. CASE i \in h .. h + m - 1
      <4>1. i - h + 1 \in 1 .. l
        BY <1>1, <1>3, <1>5, <3>1
      <4>2. QED
        BY <1>6, <1>6a, <3>1, <4>1
    <3>2. CASE i \notin h .. h + m - 1 /\ i < l - m
      <4>1. i \in Nat /\ m + i + 1 \in 1 .. l
        BY <1>1, <1>3, <1>5, <3>2
      <4>2. QED
        BY <1>6, <1>6a, <3>2, <4>1
    <3>3. CASE i \notin h .. h + m - 1 /\ ~(i < l - m)
      BY <1>1, <1>6a, <3>3
    <3>4. QED
      BY <3>1, <3>2, <3>3
  <2>2. e = [i \in 0 .. c - 1 |-> e[i]]
    BY <1>1 DEF Laid
  <2>3. QED
    BY <2>1, <2>2
<1>10. Sound(c, g, t, e)
  BY <1>1, <1>4, <1>9 DEF Sound
<1>11. Held(c, g, t) = n + l
  BY <1>1, <1>3, <1>4, Longer
<1>12. /\ s \in Seq(Cell) /\ Len(s) = n
       /\ \A k \in 1 .. n : s[k] = d[Turn(t + (k - 1), c)]
  BY Elements
<1>13. /\ u \in Seq(Cell) /\ Len(u) = n + l
       /\ \A k \in 1 .. n + l : u[k] = e[Turn(t + (k - 1), c)]
  <2> HIDE DEF g
  <2>1. /\ u \in Seq(Cell) /\ Len(u) = Held(c, g, t)
        /\ \A k \in 1 .. Held(c, g, t) : u[k] = e[Turn(t + (k - 1), c)]
    BY <1>10, Elements
  <2>2. QED
    BY <1>11, <2>1
<1>14. /\ s \o w \in Seq(Cell) /\ Len(s \o w) = n + l
       /\ \A k \in 1 .. n + l : (s \o w)[k] = IF k <= n THEN s[k] ELSE w[k - n]
  <2>1. w \in Seq(Cell)
    BY SeqMonotonic DEF Cell
  <2> HIDE DEF s, n, l
  <2>2. QED
    BY <1>12, <2>1, ConcatProperties DEF l
<1>15. ASSUME NEW k \in 1 .. n + l PROVE u[k] = (s \o w)[k]
  <2> HIDE DEF n, l, s, u
  <2>1. k \in Nat /\ k >= 1 /\ n \in Nat /\ k <= n + l
    BY <1>1, <1>2, <1>3
  <2>2. CASE k <= n
    <3>1. k - 1 \in 0 .. n - 1 /\ k \in 1 .. n
      BY <2>1, <2>2
    <3>2. QED
      BY <1>8, <1>12, <1>13, <1>14, <2>2, <3>1
  <2>3. CASE k > n
    <3>1. k - n - 1 \in 0 .. l - 1 /\ (k - n - 1) + 1 = k - n
      BY <1>3, <2>1, <2>3
    <3>2. Turn(t + (k - 1), c) = Turn(h + (k - n - 1), c)
      BY <1>1, <1>2, <1>3, <2>1, <2>3 DEF Turn
    <3>3. e[Turn(h + (k - n - 1), c)] = w[k - n]
      BY <1>7, <3>1
    <3>4. u[k] = e[Turn(t + (k - 1), c)] /\ (s \o w)[k] = w[k - n]
      BY <1>13, <1>14, <2>1, <2>3
    <3>5. QED
      BY <3>2, <3>3, <3>4
  <2>4. k <= n \/ k > n
    BY <2>1
  <2>5. QED
    BY <2>2, <2>3, <2>4
<1>16. u = s \o w
  <2> HIDE DEF u, s, n, l
  <2>1. QED
    BY <1>13, <1>14, <1>15, SeqEqual
<1>17. QED
  BY <1>10, <1>16

\* reserve_shrink and a copy: a new buffer, filled from its start.
LEMMA Filled ==
    ASSUME NEW c \in Nat \ {0}, NEW s \in Seq(Cell), Len(s) <= c - 1,
           NEW e, e = Filling(c, s)
    PROVE  Sound(c, Len(s), 0, e) /\ Seen(c, Len(s), 0, e) = s
<1> DEFINE l == Len(s)
           u == Seen(c, l, 0, e)
<1>1. l \in Nat
  BY LenProperties
<1>2. e \in [0 .. c - 1 -> Cell]
  <2>1. ASSUME NEW i \in 0 .. c - 1, i < l PROVE s[i + 1] \in Cell
    BY <1>1, <2>1, ElementOfSeq
  <2>2. QED
    BY <2>1 DEF Cell, Filling
<1>3. Sound(c, l, 0, e)
  BY <1>1, <1>2 DEF Sound
<1>4. Held(c, l, 0) = l
  BY <1>1 DEF Held
<1>5. /\ u \in Seq(Cell) /\ Len(u) = l
      /\ \A k \in 1 .. l : u[k] = e[Turn(0 + (k - 1), c)]
  <2> HIDE DEF l
  <2>1. /\ u \in Seq(Cell) /\ Len(u) = Held(c, l, 0)
        /\ \A k \in 1 .. Held(c, l, 0) : u[k] = e[Turn(0 + (k - 1), c)]
    BY <1>3, Elements
  <2>2. QED
    BY <1>4, <2>1
<1>6. ASSUME NEW k \in 1 .. l PROVE u[k] = s[k]
  <2>1. /\ Turn(0 + (k - 1), c) = k - 1 /\ k - 1 \in 0 .. c - 1 /\ k - 1 < l
        /\ (k - 1) + 1 = k
    BY <1>1 DEF Turn
  <2>2. QED
    BY <1>5, <2>1 DEF Filling
<1>7. QED
  BY <1>3, <1>5, <1>6, SeqEqual

-----------------------------------------------------------------------------
(* What BoundedQueue does to a sequence                                     *)

\* How many of l new elements stay when r have room, and how many of n old ones go then.
Stay(l, r)  == IF l <= r THEN l ELSE r
Go(n, k, r) == IF r - n < k THEN k - (r - n) ELSE 0

\* That k of l new elements and all but x of n old ones are the last that r have room for.
Fits(n, l, r, k, x) ==
    /\ n \in Nat /\ l \in Nat /\ r \in Nat /\ k \in Nat /\ x \in Nat
    /\ n <= r /\ k <= l /\ x <= n /\ n - x + k <= r
    /\ n + l <= r => x = 0 /\ k = l
    /\ n + l > r => n - x + k = r
    /\ x < n => k = l

\* They are these.
LEMMA Shares ==
    ASSUME NEW n \in Nat, NEW l \in Nat, NEW r \in Nat, n <= r
    PROVE  Fits(n, l, r, Stay(l, r), Go(n, Stay(l, r), r))
<1>1. CASE l <= r
  BY <1>1 DEF Stay, Go, Fits
<1>2. CASE l > r
  BY <1>2 DEF Stay, Go, Fits
<1>3. QED
  BY <1>1, <1>2

\* A sequence without its first x elements.
LEMMA LatterPart ==
    ASSUME NEW s \in Seq(Cell), NEW x \in 0 .. Len(s)
    PROVE  /\ SubSeq(s, x + 1, Len(s)) \in Seq(Cell)
           /\ Len(SubSeq(s, x + 1, Len(s))) = Len(s) - x
           /\ \A i \in 1 .. Len(s) - x : SubSeq(s, x + 1, Len(s))[i] = s[x + i]
<1>1. Len(s) \in Nat
  BY LenProperties
<1>2. x + 1 \in Int /\ Len(s) \in Int /\ Len(s) - (x + 1) + 1 = Len(s) - x
  BY <1>1
<1>3. \A i \in x + 1 .. Len(s) : s[i] \in Cell
  BY <1>1, ElementOfSeq
<1>4. /\ SubSeq(s, x + 1, Len(s)) \in Seq(Cell)
      /\ Len(SubSeq(s, x + 1, Len(s)))
           = IF x + 1 <= Len(s) THEN Len(s) - (x + 1) + 1 ELSE 0
      /\ \A i \in 1 .. Len(s) - (x + 1) + 1 : SubSeq(s, x + 1, Len(s))[i] = s[x + 1 + i - 1]
  BY <1>2, <1>3, SubSeqProperties
<1>5. \A i \in 1 .. Len(s) - x : x + 1 + i - 1 = x + i
  BY <1>1
<1>6. Len(SubSeq(s, x + 1, Len(s))) = Len(s) - x
  BY <1>1, <1>4
<1>7. \A i \in 1 .. Len(s) - x : SubSeq(s, x + 1, Len(s))[i] = s[x + i]
  BY <1>2, <1>4, <1>5
<1>8. QED
  BY <1>4, <1>6, <1>7

\* BoundedQueue's Newest.
LastOf(s, n) == IF Len(s) > n THEN SubSeq(s, Len(s) - n + 1, Len(s)) ELSE s

\* All but the first x elements, and the last k elements.
Latter(s, x) == SubSeq(s, x + 1, Len(s))
Final(s, k)  == SubSeq(s, Len(s) - k + 1, Len(s))

\* Of the new elements the last that have room stay, and of the old ones the last that
\* have room beside them.
LEMMA NewestOf ==
    ASSUME NEW s \in Seq(Cell), NEW w \in Seq(Cell), NEW r, NEW k, NEW x,
           Fits(Len(s), Len(w), r, k, x)
    PROVE  LastOf(s \o w, r) = Latter(s, x) \o Final(w, k)
<1> DEFINE n == Len(s)
           l == Len(w)
           a == SubSeq(s, x + 1, n)
           b == SubSeq(w, l - k + 1, l)
           z == s \o w
<1>1. /\ n <= r /\ n - x + k <= r
      /\ n + l <= r => x = 0 /\ k = l
      /\ n + l > r => n - x + k = r
      /\ x < n => k = l
  BY DEF Fits
<1>2. /\ n \in Nat /\ l \in Nat /\ x \in Nat /\ k \in Nat /\ r \in Nat /\ x <= n /\ k <= l
  BY DEF Fits
<1>3. /\ z \in Seq(Cell) /\ Len(z) = n + l
      /\ \A i \in 1 .. n + l : z[i] = IF i <= n THEN s[i] ELSE w[i - n]
  BY ConcatProperties
<1>4. /\ a \in Seq(Cell) /\ Len(a) = n - x
      /\ \A i \in 1 .. n - x : a[i] = s[x + i]
  <2>1. x \in 0 .. n
    BY <1>2
  <2>2. QED
    BY <2>1, LatterPart
<1>5. /\ b \in Seq(Cell) /\ Len(b) = k
      /\ \A i \in 1 .. k : b[i] = w[l - k + i]
  <2>1. l - k \in 0 .. l /\ l - (l - k) = k
    BY <1>2
  <2>2. /\ b \in Seq(Cell) /\ Len(b) = l - (l - k)
        /\ \A i \in 1 .. l - (l - k) : b[i] = w[(l - k) + i]
    BY <2>1, LatterPart
  <2>3. QED
    BY <2>1, <2>2
<1>6. /\ a \o b \in Seq(Cell) /\ Len(a \o b) = n - x + k
      /\ \A i \in 1 .. n - x + k : (a \o b)[i] = IF i <= n - x THEN a[i] ELSE b[i - (n - x)]
  <2> HIDE DEF a, b, n
  <2>1. /\ a \o b \in Seq(Cell) /\ Len(a \o b) = Len(a) + Len(b)
        /\ \A i \in 1 .. Len(a) + Len(b) :
               (a \o b)[i] = IF i <= Len(a) THEN a[i] ELSE b[i - Len(a)]
    <3>1. a \in Seq(Cell) /\ b \in Seq(Cell)
      BY <1>4, <1>5
    <3>2. QED
      BY <3>1, ConcatProperties
  <2>2. QED
    BY <1>4, <1>5, <2>1
<1>7. CASE n + l <= r
  <2>1. x + 1 = 1 /\ l - k + 1 = 1
    BY <1>1, <1>2, <1>7
  <2>2. a = s /\ b = w
    <3>1. SubSeq(s, 1, n) = s /\ SubSeq(w, 1, l) = w
      BY SubSeqFull
    <3>2. QED
      BY <2>1, <3>1
  <2>3. ~(Len(z) > r)
    BY <1>2, <1>3, <1>7
  <2>4. LastOf(z, r) = z
    BY <2>3 DEF LastOf
  <2>5. QED
    BY <2>2, <2>4 DEF Latter, Final
<1>8. CASE n + l > r
  <2> DEFINE y == SubSeq(z, Len(z) - r + 1, Len(z))
  <2>1. n - x + k = r
    BY <1>1, <1>8
  <2>2. /\ y \in Seq(Cell) /\ Len(y) = r
        /\ \A i \in 1 .. r : y[i] = z[n + l - r + i]
    <3> HIDE DEF z, n, l
    <3>1. n + l - r \in 0 .. n + l /\ n + l - (n + l - r) = r /\ Len(z) = n + l
      BY <1>1, <1>2, <1>3, <1>8
    <3>2. Len(z) - r \in 0 .. Len(z) /\ Len(z) - (Len(z) - r) = r /\ Len(z) - r = n + l - r
      <4>1. Len(z) \in Nat /\ r \in Nat /\ r <= Len(z)
        BY <1>2, <1>8, <3>1
      <4>2. Len(z) - r \in 0 .. Len(z) /\ Len(z) - (Len(z) - r) = r
        BY <4>1
      <4>3. Len(z) - r = n + l - r
        BY <1>2, <3>1, <4>1
      <4>4. QED
        BY <4>2, <4>3
    <3>3. /\ y \in Seq(Cell) /\ Len(y) = Len(z) - (Len(z) - r)
          /\ \A i \in 1 .. Len(z) - (Len(z) - r) : y[i] = z[(Len(z) - r) + i]
      BY <1>3, <3>2, LatterPart
    <3>4. QED
      BY <3>2, <3>3
  <2>3. ASSUME NEW i \in 1 .. r PROVE y[i] = (a \o b)[i]
    <3>1. x < n => k = l
      BY <1>1
    <3> HIDE DEF a, b, z, y, n, l
    <3>2. i \in Nat /\ i >= 1 /\ i <= r
      BY <1>2
    <3>3. CASE i <= n - x
      <4>1. k = l
        BY <1>2, <3>1, <3>2, <3>3
      <4>2. n + l - r + i = x + i /\ x + i \in 1 .. n /\ i \in 1 .. n - x
        BY <1>2, <2>1, <3>2, <3>3, <4>1
      <4>3. x + i \in 1 .. n + l /\ x + i <= n
        BY <1>2, <4>2
      <4>4. z[x + i] = s[x + i]
        BY <1>3, <4>3
      <4>5. (a \o b)[i] = s[x + i]
        BY <1>4, <1>6, <2>1, <3>3, <4>2
      <4>6. QED
        BY <2>2, <4>2, <4>4, <4>5
    <3>4. CASE i > n - x
      <4>1. /\ n + l - r + i \in 1 .. n + l /\ ~(n + l - r + i <= n)
            /\ (n + l - r + i) - n = l - k + (i - (n - x))
            /\ i - (n - x) \in 1 .. k
        <5>1. r = n - x + k
          BY <2>1
        <5>2. r \in Nat
          BY <1>2
        <5>3. i - (n - x) \in 1 .. k
          BY <1>2, <3>2, <3>4, <5>1
        <5>4. n + l - r + i \in 1 .. n + l
          BY <1>2, <1>8, <3>2, <5>2
        <5>5. (n + l - r + i) - n = l - k + (i - (n - x))
          BY <1>2, <3>2, <5>1
        <5>6. ~(n + l - r + i <= n)
          BY <1>2, <3>2, <5>1, <5>3, <5>5
        <5>7. QED
          BY <5>3, <5>4, <5>5, <5>6
      <4>2. z[n + l - r + i] = w[l - k + (i - (n - x))]
        BY <1>3, <4>1
      <4>3. (a \o b)[i] = b[i - (n - x)]
        <5>1. i \in 1 .. n - x + k /\ ~(i <= n - x)
          BY <1>2, <2>1, <3>2, <3>4
        <5>2. QED
          BY <1>6, <5>1
      <4>4. QED
        BY <1>5, <2>2, <4>1, <4>2, <4>3
    <3>5. i <= n - x \/ i > n - x
      BY <1>2, <3>2
    <3>6. QED
      BY <3>3, <3>4, <3>5
  <2>4. y = a \o b
    <3> HIDE DEF a, b, y
    <3>1. QED
      BY <1>6, <2>1, <2>2, <2>3, SeqEqual
  <2>5. Len(z) > r
    BY <1>2, <1>3, <1>8
  <2>6. LastOf(z, r) = y
    BY <2>5 DEF LastOf
  <2>7. QED
    BY <2>4, <2>6 DEF Latter, Final
<1>9. n + l <= r \/ n + l > r
  BY <1>2
<1>10. QED
  BY <1>7, <1>8, <1>9 DEF Latter, Final

\* The x oldest elements destroyed, and those of v put in.
LEMMA Exchanged ==
    ASSUME NEW c, NEW h, NEW t, NEW d, Sound(c, h, t, d), c > 1,
           NEW x \in 0 .. Held(c, h, t), NEW v \in Seq(Values),
           HasRoom(c, h, t, Len(v) - x),
           NEW e, e = Laid(h, Gone(c, t, d, x), v, BeforeEnd(c, h, Len(v)))
    PROVE  /\ Sound(c, (h + Len(v)) % c, (t + x) % c, e)
           /\ Seen(c, (h + Len(v)) % c, (t + x) % c, e) = Latter(Seen(c, h, t, d), x) \o v
<1> DEFINE g == (t + x) % c
           f == Gone(c, t, d, x)
<1>1. /\ Sound(c, h, g, f) /\ Held(c, h, g) = Held(c, h, t) - x
      /\ Seen(c, h, g, f) = SubSeq(Seen(c, h, t, d), x + 1, Held(c, h, t))
  BY Removed
<1>2. Seen(c, h, g, f) = Latter(Seen(c, h, t, d), x)
  BY <1>1, Elements DEF Latter
<1> HIDE DEF g, f
<1>3. HasRoom(c, h, g, Len(v))
  <2>1. Held(c, h, t) \in Nat /\ c \in Nat /\ Len(v) \in Nat
    BY HeldIs, LenProperties DEF Sound
  <2>2. QED
    BY <1>1, <2>1 DEF HasRoom
<1>4. e = Laid(h, f, v, BeforeEnd(c, h, Len(v)))
  BY DEF f
<1>5. /\ Sound(c, (h + Len(v)) % c, g, e)
      /\ Seen(c, (h + Len(v)) % c, g, e) = Seen(c, h, g, f) \o v
  <2>1. Sound(c, h, g, f)
    BY <1>1
  <2>2. QED
    BY <1>3, <1>4, <2>1, Joined
<1>6. QED
  BY <1>2, <1>5 DEF g

\* enqueue_n on a buffer of r elements at most: k of l new elements, after x of n old ones
\* were destroyed.
LEMMA Replaced ==
    ASSUME NEW c, NEW h, NEW t, NEW d, Sound(c, h, t, d), c > 1, NEW w \in Seq(Values),
           NEW n, n = Held(c, h, t), NEW l, l = Len(w), NEW r, r = c - 1,
           NEW k, NEW x, Fits(n, l, r, k, x)
    PROVE  /\ Final(w, k) \in Seq(Values) /\ Len(Final(w, k)) = k
           /\ LET e == Laid(h, Gone(c, t, d, x), Final(w, k), BeforeEnd(c, h, k))
              IN /\ Sound(c, (h + k) % c, (t + x) % c, e)
                 /\ Seen(c, (h + k) % c, (t + x) % c, e) = LastOf(Seen(c, h, t, d) \o w, r)
<1> DEFINE s == Seen(c, h, t, d)
           v == Final(w, k)
           e == Laid(h, Gone(c, t, d, x), v, BeforeEnd(c, h, k))
<1>1. /\ n \in Nat /\ l \in Nat /\ r \in Nat /\ n <= r
      /\ k \in Nat /\ k <= l /\ x \in Nat /\ x <= n
  BY DEF Fits
<1>2. s \in Seq(Cell) /\ Len(s) = n /\ w \in Seq(Cell)
  BY Elements, SeqMonotonic DEF Cell
<1>3. v \in Seq(Values)
  <2>1. l - k + 1 \in Int /\ l \in Int /\ \A i \in l - k + 1 .. l : w[i] \in Values
    BY <1>1, ElementOfSeq
  <2>2. QED
    BY <2>1, SubSeqProperties DEF Final
<1>4. Len(v) = k
  <2>1. l - k + 1 \in Int /\ l \in Int /\ \A i \in l - k + 1 .. l : w[i] \in Values
    BY <1>1, ElementOfSeq
  <2>2. Len(v) = IF l - k + 1 <= l THEN l - (l - k + 1) + 1 ELSE 0
    BY <2>1, SubSeqProperties DEF Final
  <2>3. QED
    BY <1>1, <2>2
<1> HIDE DEF v, s
<1>5. /\ Sound(c, (h + k) % c, (t + x) % c, e)
      /\ Seen(c, (h + k) % c, (t + x) % c, e) = Latter(s, x) \o v
  <2>1. x \in 0 .. Held(c, h, t) /\ HasRoom(c, h, t, Len(v) - x)
    BY <1>1, <1>4 DEF Fits, HasRoom
  <2>2. e = Laid(h, Gone(c, t, d, x), v, BeforeEnd(c, h, Len(v)))
    BY <1>4
  <2> HIDE DEF e
  <2>3. /\ Sound(c, (h + Len(v)) % c, (t + x) % c, e)
        /\ Seen(c, (h + Len(v)) % c, (t + x) % c, e) = Latter(Seen(c, h, t, d), x) \o v
    BY <1>3, <2>1, <2>2, Exchanged
  <2>4. QED
    BY <1>4, <2>3 DEF s
<1>6. LastOf(s \o w, r) = Latter(s, x) \o v
  <2>1. Fits(Len(s), Len(w), r, k, x)
    BY <1>2
  <2>2. LastOf(s \o w, r) = Latter(s, x) \o Final(w, k)
    BY <1>2, <2>1, NewestOf
  <2>3. QED
    BY <2>2 DEF v
<1>7. QED
  BY <1>3, <1>4, <1>5, <1>6 DEF s, v

\* The first x elements of a sequence.
LEMMA FirstPart ==
    ASSUME NEW s \in Seq(Cell), NEW x \in 0 .. Len(s)
    PROVE  /\ SubSeq(s, 1, x) \in Seq(Cell) /\ Len(SubSeq(s, 1, x)) = x
           /\ \A i \in 1 .. x : SubSeq(s, 1, x)[i] = s[i]
<1>1. Len(s) \in Nat /\ x \in Nat
  BY LenProperties
<1>2. \A i \in 1 .. x : s[i] \in Cell
  BY <1>1, ElementOfSeq
<1>3. /\ SubSeq(s, 1, x) \in Seq(Cell)
      /\ Len(SubSeq(s, 1, x)) = IF 1 <= x THEN x - 1 + 1 ELSE 0
      /\ \A i \in 1 .. x - 1 + 1 : SubSeq(s, 1, x)[i] = s[1 + i - 1]
  BY <1>1, <1>2, SubSeqProperties
<1>4. Len(SubSeq(s, 1, x)) = x
  BY <1>1, <1>3
<1>5. \A i \in 1 .. x : SubSeq(s, 1, x)[i] = s[i]
  BY <1>1, <1>3
<1>6. QED
  BY <1>3, <1>4, <1>5

\* Iterators over the n oldest elements pass over them in order.
LEMMA Walked ==
    ASSUME NEW c, NEW h, NEW t, NEW d, Sound(c, h, t, d), NEW n \in 0 .. Held(c, h, t)
    PROVE  [k \in 1 .. n |-> d[(t + (k - 1)) % c]] = SubSeq(Seen(c, h, t, d), 1, n)
<1> DEFINE s == Seen(c, h, t, d)
           u == [k \in 1 .. n |-> d[(t + (k - 1)) % c]]
<1>1. Held(c, h, t) \in Nat
  <2>1. Held(c, h, t) \in 0 .. c - 1
    BY HeldIs
  <2>2. QED
    BY <2>1 DEF Sound
<1>2. s \in Seq(Cell) /\ Len(s) = Held(c, h, t)
  BY Elements
<1>3. \A k \in 1 .. n : u[k] = s[k]
  BY <1>1 DEF Seen
<1>4. /\ SubSeq(s, 1, n) \in Seq(Cell) /\ Len(SubSeq(s, 1, n)) = n
      /\ \A k \in 1 .. n : SubSeq(s, 1, n)[k] = s[k]
  BY <1>2, FirstPart
<1>5. \A k \in 1 .. n : s[k] \in Cell
  BY <1>1, <1>2, ElementOfSeq
<1>6. u \in [1 .. n -> Cell]
  BY <1>3, <1>5
<1>7. n \in Nat
  BY <1>1
<1>8. u \in Seq(Cell) /\ Len(u) = n
  BY <1>6, <1>7
<1> HIDE DEF u, s
<1>9. u = SubSeq(s, 1, n)
  BY <1>3, <1>4, <1>8, SeqEqual
<1>10. QED
  BY <1>9 DEF u, s

\* The cells from i on.
Piece(d, i, n) == [k \in 1 .. n |-> d[i + k - 1]]

\* n cells from i on are in a buffer of c.
Before(c, i, n) == c \in Nat /\ i \in Nat /\ n \in Nat /\ i + n <= c

\* A buffer has all its cells.
Whole(c, d) == d \in [0 .. c - 1 -> Cell]

\* They are a sequence, in the buffer.
LEMMA PieceIs ==
    ASSUME NEW c, NEW d, Whole(c, d), NEW i, NEW n, Before(c, i, n)
    PROVE  /\ Piece(d, i, n) \in Seq(Cell) /\ Len(Piece(d, i, n)) = n
           /\ \A k \in 1 .. n : Piece(d, i, n)[k] = d[i + k - 1]
<1>1. n \in Nat /\ \A k \in 1 .. n : i + k - 1 \in 0 .. c - 1
  BY DEF Before
<1>2. Piece(d, i, n) \in [1 .. n -> Cell]
  BY <1>1 DEF Whole, Piece
<1>3. \A k \in 1 .. n : Piece(d, i, n)[k] = d[i + k - 1]
  BY DEF Piece
<1>4. QED
  BY <1>1, <1>2, <1>3

\* dequeue_n reads the n oldest elements, in one piece when the tail is before the head.
LEMMA OnePiece ==
    ASSUME NEW c, NEW h, NEW t, NEW d, Sound(c, h, t, d), c > 1,
           NEW n \in 0 .. Held(c, h, t), t < h
    PROVE  Piece(d, t, n) = SubSeq(Seen(c, h, t, d), 1, n)
<1>1. /\ c \in Nat /\ h \in Nat /\ t \in Nat /\ h < c /\ t < c /\ n \in Nat /\ n <= h - t
  BY DEF Sound, Held
<1>2. \A k \in 1 .. n : (t + (k - 1)) % c = t + k - 1
  <2>1. ASSUME NEW k \in 1 .. n PROVE (t + (k - 1)) % c = t + k - 1
    <3>1. t \in 0 .. c - 1 /\ k - 1 \in 0 .. c - 1 /\ t + (k - 1) < c /\ c > 1
          /\ t + (k - 1) = t + k - 1
      BY <1>1
    <3>2. (t + (k - 1)) % c = Turn(t + (k - 1), c)
      BY <1>1, <3>1, Jumped
    <3>3. QED
      BY <3>1, <3>2 DEF Turn
  <2>2. QED
    BY <2>1
<1>3. Piece(d, t, n) = [k \in 1 .. n |-> d[(t + (k - 1)) % c]]
  BY <1>2 DEF Piece
<1>4. QED
  BY <1>3, Walked

\* And otherwise in two pieces, of which m are before the end of the buffer.
LEMMA TwoPieces ==
    ASSUME NEW c, NEW h, NEW t, NEW d, Sound(c, h, t, d), c > 1,
           NEW n \in 0 .. Held(c, h, t), ~(t < h),
           NEW m, m = BeforeEnd(c, t, n)
    PROVE  Piece(d, t, m) \o Piece(d, 0, n - m) = SubSeq(Seen(c, h, t, d), 1, n)
<1> DEFINE s == Seen(c, h, t, d)
           a == Piece(d, t, m)
           b == Piece(d, 0, n - m)
<1>1. /\ c \in Nat /\ h \in Nat /\ t \in Nat /\ h < c /\ t < c
      /\ d \in [0 .. c - 1 -> Cell]
  BY DEF Sound
<1>2. /\ n \in Nat /\ n <= Held(c, h, t) /\ Held(c, h, t) \in Nat /\ n < c
      /\ n <= h + c - t
  BY <1>1, HeldIs DEF Held
<1>3. /\ m \in Nat /\ m <= n /\ t + m <= c /\ n - m \in Nat /\ n - m <= c
      /\ m < n => t + m = c
  BY <1>1, <1>2 DEF BeforeEnd
<1>4. /\ a \in Seq(Cell) /\ Len(a) = m /\ \A k \in 1 .. m : a[k] = d[t + k - 1]
  <2>1. Whole(c, d) /\ Before(c, t, m)
    BY <1>1, <1>3 DEF Whole, Before
  <2>2. QED
    BY <2>1, PieceIs
<1>5. /\ b \in Seq(Cell) /\ Len(b) = n - m
      /\ \A k \in 1 .. n - m : b[k] = d[0 + k - 1]
  <2>1. Whole(c, d) /\ Before(c, 0, n - m)
    BY <1>1, <1>3 DEF Whole, Before
  <2>2. QED
    BY <2>1, PieceIs
<1> HIDE DEF a, b
<1>6. /\ a \o b \in Seq(Cell) /\ Len(a \o b) = n
      /\ \A k \in 1 .. n : (a \o b)[k] = IF k <= m THEN a[k] ELSE b[k - m]
  <2>1. a \in Seq(Cell) /\ b \in Seq(Cell)
    BY <1>4, <1>5
  <2>2. /\ a \o b \in Seq(Cell) /\ Len(a \o b) = Len(a) + Len(b)
        /\ \A k \in 1 .. Len(a) + Len(b) :
               (a \o b)[k] = IF k <= Len(a) THEN a[k] ELSE b[k - Len(a)]
    BY <2>1, ConcatProperties
  <2>3. Len(a) + Len(b) = n
    BY <1>2, <1>3, <1>4, <1>5
  <2>4. QED
    BY <1>4, <2>2, <2>3
<1>7. /\ s \in Seq(Cell) /\ Len(s) = Held(c, h, t)
      /\ \A k \in 1 .. Held(c, h, t) : s[k] = d[Turn(t + (k - 1), c)]
  BY Elements
<1>8. /\ SubSeq(s, 1, n) \in Seq(Cell) /\ Len(SubSeq(s, 1, n)) = n
      /\ \A k \in 1 .. n : SubSeq(s, 1, n)[k] = s[k]
  BY <1>7, FirstPart
<1> HIDE DEF s
<1>9. ASSUME NEW k \in 1 .. n PROVE (a \o b)[k] = SubSeq(s, 1, n)[k]
  <2>1. k \in Nat /\ k >= 1 /\ k <= n /\ k \in 1 .. Held(c, h, t)
    BY <1>2
  <2>2. SubSeq(s, 1, n)[k] = d[Turn(t + (k - 1), c)]
    BY <1>7, <1>8, <2>1
  <2>3. CASE k <= m
    <3>1. k \in 1 .. m /\ Turn(t + (k - 1), c) = t + k - 1
      BY <1>1, <1>3, <2>1, <2>3 DEF Turn
    <3>2. (a \o b)[k] = d[t + k - 1]
      BY <1>4, <1>6, <2>3, <3>1
    <3>3. QED
      BY <2>2, <3>1, <3>2
  <2>4. CASE k > m
    <3>1. /\ k - m \in 1 .. n - m /\ t + m = c /\ ~(k <= m)
      BY <1>2, <1>3, <2>1, <2>4
    <3>2. Turn(t + (k - 1), c) = 0 + (k - m) - 1
      BY <1>1, <1>3, <2>1, <2>4, <3>1, SMTT(20) DEF Turn
    <3>3. (a \o b)[k] = d[0 + (k - m) - 1]
      BY <1>5, <1>6, <3>1
    <3>4. QED
      BY <2>2, <3>2, <3>3
  <2>5. k <= m \/ k > m
    BY <1>3, <2>1
  <2>6. QED
    BY <2>3, <2>4, <2>5
<1>10. a \o b = SubSeq(s, 1, n)
  BY <1>6, <1>8, <1>9, SeqEqual
<1>11. QED
  BY <1>10 DEF a, b, s

\* The place of a cell in the order of the elements.
Linear(c, h, t, i) == IF h >= t THEN i ELSE IF i >= t THEN i - t ELSE i + c - t

\* The difference of iterators, from the oldest element to n elements after it.
LEMMA Distances ==
    ASSUME NEW c, NEW h, NEW t, NEW d, Sound(c, h, t, d), c > 1,
           NEW n \in 0 .. Held(c, h, t)
    PROVE  Linear(c, h, t, (t + n) % c) - Linear(c, h, t, t) = n
<1>1. /\ c \in Nat /\ h \in 0 .. c - 1 /\ t \in 0 .. c - 1 /\ n \in 0 .. c - 1
      /\ n <= Held(c, h, t)
  <2>1. Held(c, h, t) \in 0 .. c - 1
    BY HeldIs
  <2>2. QED
    BY <2>1 DEF Sound
<1>2. (t + n) % c = Turn(t + n, c)
  BY <1>1, Jumped
<1>3. Linear(c, h, t, Turn(t + n, c)) - Linear(c, h, t, t) = n
  BY <1>1 DEF Turn, Linear, Held
<1>4. QED
  BY <1>2, <1>3

\* No element is seen where head and tail are the same.
LEMMA NoneSeen ==
    ASSUME NEW c, NEW h, NEW d, Sound(c, h, h, d)
    PROVE  Seen(c, h, h, d) = <<>>
<1>1. Held(c, h, h) = 0
  BY DEF Sound, Held
<1>2. Seen(c, h, h, d) \in Seq(Cell) /\ Len(Seen(c, h, h, d)) = 0
  BY <1>1, Elements
<1>3. QED
  BY <1>2, EmptySeq

\* is_full: the cell after the head is the tail just when there is no room.
LEMMA FullIs ==
    ASSUME NEW c, NEW h, NEW t, NEW d, Sound(c, h, t, d), c > 1
    PROVE  After(c, h) = t <=> Held(c, h, t) = c - 1
BY DEF Sound, Held, After

-----------------------------------------------------------------------------
(* One queue of the state                                                   *)

Items == [q \in Queues |-> Contents(q)]
Rooms == [q \in Queues |-> Capacity(q)]

\* The invariant, of each queue.
LEMMA SoundOne ==
    ASSUME IInv, NEW q \in Queues
    PROVE  /\ Sound(cap[q], head[q], tail[q], data[q])
           /\ Contents(q) = Seen(cap[q], head[q], tail[q], data[q])
           /\ Size(q) = Held(cap[q], head[q], tail[q])
           /\ Usable(q) <=> cap[q] > 1
           /\ Items[q] = Contents(q) /\ Rooms[q] = cap[q] - 1
<1>1. cap[q] \in Nat \ {0} /\ head[q] \in Nat /\ tail[q] \in Nat
  BY DEF IInv, TypeOK
<1>2. Usable(q) <=> cap[q] > 1
  BY <1>1 DEF Usable, Capacity
<1>3. Sound(cap[q], head[q], tail[q], data[q])
  BY <1>1, <1>2 DEF IInv, InBuffer, NoneWithout, Sound
<1>4. /\ Contents(q) = Seen(cap[q], head[q], tail[q], data[q])
      /\ Size(q) = Held(cap[q], head[q], tail[q])
  BY DEF Contents, Walk, Jump, Seen, Size, Held
<1>5. QED
  BY <1>2, <1>3, <1>4 DEF Items, Rooms, Capacity

\* A step that gives queue q the buffer c, h, t, d, and leaves the others.
Becomes(q, c, h, t, d) ==
    /\ cap' = [cap EXCEPT ![q] = c] /\ head' = [head EXCEPT ![q] = h]
    /\ tail' = [tail EXCEPT ![q] = t] /\ data' = [data EXCEPT ![q] = d]

\* A step that gives queue q the sound buffer c, h, t, d keeps the invariant, and changes
\* what this queue has and may have, and of no other.
LEMMA OneChanges ==
    ASSUME IInv, NEW q \in Queues, NEW c, NEW h, NEW t, NEW d, Sound(c, h, t, d),
           Becomes(q, c, h, t, d)
    PROVE  /\ IInv'
           /\ Items' = [Items EXCEPT ![q] = Seen(c, h, t, d)]
           /\ Rooms' = [Rooms EXCEPT ![q] = c - 1]
<1>1. /\ cap \in [Queues -> Nat \ {0}] /\ head \in [Queues -> Nat]
      /\ tail \in [Queues -> Nat] /\ data = [p \in Queues |-> data[p]]
  BY DEF IInv, TypeOK
<1>2. /\ cap'[q] = c /\ head'[q] = h /\ tail'[q] = t /\ data'[q] = d
      /\ \A p \in Queues \ {q} : /\ cap'[p] = cap[p] /\ head'[p] = head[p]
                                 /\ tail'[p] = tail[p] /\ data'[p] = data[p]
  BY <1>1 DEF Becomes
<1>3. c \in Nat \ {0} /\ h \in Nat /\ t \in Nat
  BY DEF Sound
<1>4. TypeOK'
  BY <1>1, <1>3 DEF TypeOK, Becomes
<1>5. ASSUME NEW p \in Queues PROVE InBuffer(p)' /\ NoneWithout(p)'
  <2>1. CASE p = q
    <3>1. Usable(q)' <=> c > 1
      BY <1>2, <1>3 DEF Usable, Capacity
    <3>2. QED
      BY <1>2, <1>3, <2>1, <3>1 DEF Sound, InBuffer, NoneWithout
  <2>2. CASE p # q
    BY <1>2, <2>2 DEF IInv, InBuffer, NoneWithout, Usable, Capacity
  <2>3. QED
    BY <2>1, <2>2
<1>6. IInv'
  BY <1>4, <1>5 DEF IInv
<1>7. ASSUME NEW p \in Queues
      PROVE  /\ Contents(p)' = IF p = q THEN Seen(c, h, t, d) ELSE Contents(p)
             /\ Capacity(p)' = IF p = q THEN c - 1 ELSE Capacity(p)
  <2>1. Contents(p)' = Seen(cap'[p], head'[p], tail'[p], data'[p])
    BY DEF Contents, Walk, Jump, Seen, Size, Held
  <2>2. Contents(p) = Seen(cap[p], head[p], tail[p], data[p])
    BY SoundOne
  <2>3. QED
    BY <1>2, <2>1, <2>2 DEF Capacity
<1>8. /\ Items' = [Items EXCEPT ![q] = Seen(c, h, t, d)]
      /\ Rooms' = [Rooms EXCEPT ![q] = c - 1]
  BY <1>7 DEF Items, Rooms
<1>9. QED
  BY <1>6, <1>8

\* What a step does not change.
LEMMA Same ==
    ASSUME IInv, NEW q \in Queues
    PROVE  /\ cap = [cap EXCEPT ![q] = cap[q]] /\ head = [head EXCEPT ![q] = head[q]]
           /\ tail = [tail EXCEPT ![q] = tail[q]] /\ data = [data EXCEPT ![q] = data[q]]
           /\ Items = [Items EXCEPT ![q] = Items[q]] /\ Rooms = [Rooms EXCEPT ![q] = Rooms[q]]
<1>1. /\ cap \in [Queues -> Nat \ {0}] /\ head \in [Queues -> Nat]
      /\ tail \in [Queues -> Nat] /\ data = [p \in Queues |-> data[p]]
  BY DEF IInv, TypeOK
<1>2. data = [data EXCEPT ![q] = data[q]]
  BY <1>1
<1>3. QED
  BY <1>1, <1>2 DEF Items, Rooms

-----------------------------------------------------------------------------
(* One operation after the other                                            *)

\* push, emplace: the new element is last.
LEMMA PushKeeps ==
    ASSUME IInv, NEW q \in Queues, NEW v \in Values, Push(q, v)
    PROVE  IInv' /\ Promise!Push(q, v)
<1> DEFINE c == cap[q]
           h == head[q]
           t == tail[q]
           d == data[q]
           g == After(c, h)
           e == Put(d, h, v)
<1>1. /\ Sound(c, h, t, d) /\ c > 1 /\ g # t
      /\ Contents(q) = Seen(c, h, t, d) /\ Items[q] = Seen(c, h, t, d) /\ Rooms[q] = c - 1
  BY SoundOne DEF Push, IsFull, NextCell, After
<1>2. Becomes(q, c, g, t, e) /\ out' = out
  <2>1. /\ cap' = cap /\ tail' = tail /\ out' = out /\ head' = [head EXCEPT ![q] = g]
        /\ data' = [data EXCEPT ![q] = e]
    BY DEF Push, NextCell, After, Put
  <2>2. QED
    BY <2>1, Same DEF Becomes
<1> HIDE DEF c, h, t, d, g
<1>3. Sound(c, g, t, e) /\ Seen(c, g, t, e) = Append(Seen(c, h, t, d), v)
  <2>1. g = After(c, h)
    BY DEF g
  <2>2. Sound(c, h, t, d) /\ c > 1 /\ g # t
    BY <1>1
  <2>3. QED
    BY <2>1, <2>2, Pushed
<1> HIDE DEF e
<1>4. /\ IInv' /\ Items' = [Items EXCEPT ![q] = Seen(c, g, t, e)]
      /\ Rooms' = [Rooms EXCEPT ![q] = c - 1]
  BY <1>2, <1>3, OneChanges
<1>5. Items' = [Items EXCEPT ![q] = Append(Items[q], v)] /\ Rooms' = Rooms
  BY <1>1, <1>3, <1>4, Same
<1>6. Len(Items[q]) < Rooms[q]
  <2>1. Len(Items[q]) = Held(c, h, t)
    BY <1>1, Elements
  <2>2. Held(c, h, t) \in 0 .. c - 1 /\ Held(c, h, t) # c - 1
    BY <1>1, HeldIs, FullIs DEF g
  <2>3. c \in Nat
    BY <1>1 DEF Sound
  <2>4. QED
    BY <1>1, <2>1, <2>2, <2>3
<1>7. Promise!Push(q, v)
  BY <1>2, <1>5, <1>6 DEF Promise!Push, Items, Rooms
<1>8. QED
  BY <1>4, <1>7

\* dequeue, pop: the oldest element is given and gone.
LEMMA DequeueKeeps ==
    ASSUME IInv, NEW q \in Queues, Dequeue(q)
    PROVE  IInv' /\ Promise!DequeueN(q, 1)
<1> DEFINE c == cap[q]
           h == head[q]
           t == tail[q]
           d == data[q]
           s == Seen(c, h, t, d)
           g == (t + 1) % c
           e == Gone(c, t, d, 1)
<1>1. /\ Sound(c, h, t, d) /\ c > 1 /\ h # t
      /\ Items[q] = s /\ Rooms[q] = c - 1
  BY SoundOne DEF Dequeue, Empty
<1>2. c \in Nat /\ h \in 0 .. c - 1 /\ t \in 0 .. c - 1
  BY <1>1 DEF Sound
<1>3. (IF t + 1 = c THEN 0 ELSE t + 1) = g
  <2> HIDE DEF c, h, t, d
  <2>1. 1 \in 0 .. c - 1
    BY <1>1, <1>2
  <2>2. (t + 1) % c = Turn(t + 1, c)
    BY <1>1, <1>2, <2>1, Jumped
  <2>3. Turn(t + 1, c) = IF t + 1 = c THEN 0 ELSE t + 1
    BY <1>2 DEF Turn
  <2>4. QED
    BY <2>2, <2>3
<1>4. Becomes(q, c, h, g, e) /\ out' = <<d[t]>>
  <2>1. /\ cap' = cap /\ head' = head /\ out' = <<d[t]>>
        /\ tail' = [tail EXCEPT ![q] = NextCell(q, t)]
        /\ data' = [data EXCEPT ![q] = Destroy(q, 1)]
    BY DEF Dequeue
  <2>2. NextCell(q, t) = g
    BY <1>3 DEF NextCell
  <2>3. Destroy(q, 1) = e
    BY DEF Destroy, Jump, Gone
  <2>4. QED
    BY <2>1, <2>2, <2>3, Same DEF Becomes
<1> HIDE DEF c, h, t, d
<1>5. 1 \in 0 .. Held(c, h, t) /\ Held(c, h, t) \in Nat
  BY <1>1, <1>2 DEF Held
<1>6. /\ Sound(c, h, g, e) /\ Seen(c, h, g, e) = SubSeq(s, 2, Held(c, h, t))
  BY <1>1, <1>5, Removed
<1>7. s \in Seq(Cell) /\ Len(s) = Held(c, h, t) /\ s[1] = d[t]
  <2>1. /\ s \in Seq(Cell) /\ Len(s) = Held(c, h, t)
        /\ s[1] = d[Turn(t + (1 - 1), c)]
    BY <1>1, <1>5, Elements
  <2>2. Turn(t + (1 - 1), c) = t
    BY <1>2 DEF Turn
  <2>3. QED
    BY <2>1, <2>2
<1> HIDE DEF e, g, s
<1>8. /\ IInv' /\ Items' = [Items EXCEPT ![q] = Seen(c, h, g, e)]
      /\ Rooms' = [Rooms EXCEPT ![q] = c - 1]
  <2>1. Sound(c, h, g, e)
    BY <1>6
  <2>2. QED
    BY <1>4, <2>1, OneChanges
<1>9. Items' = [Items EXCEPT ![q] = SubSeq(Items[q], 2, Len(Items[q]))] /\ Rooms' = Rooms
  BY <1>1, <1>6, <1>7, <1>8, Same
<1>10. out' = SubSeq(Items[q], 1, 1)
  <2>1. /\ SubSeq(s, 1, 1) \in Seq(Cell) /\ Len(SubSeq(s, 1, 1)) = 1
        /\ \A i \in 1 .. 1 : SubSeq(s, 1, 1)[i] = s[i]
    BY <1>5, <1>7, FirstPart
  <2>2. SubSeq(s, 1, 1) = <<s[1]>>
    <3> DEFINE u == SubSeq(s, 1, 1)
    <3>1. u \in Seq(Cell) /\ Len(u) = 1 /\ u[1] = s[1]
      BY <2>1
    <3> HIDE DEF u
    <3>2. u = <<u[1]>>
      BY <3>1
    <3>3. QED
      BY <3>1, <3>2 DEF u
  <2>3. QED
    BY <1>1, <1>4, <1>7, <2>2
<1>11. Promise!DequeueN(q, 1)
  BY <1>9, <1>10 DEF Promise!DequeueN, Items, Rooms
<1>12. QED
  BY <1>8, <1>11

\* clear: no element stays.
LEMMA ClearKeeps ==
    ASSUME IInv, NEW q \in Queues, Clear(q)
    PROVE  IInv' /\ Promise!Clear(q)
<1> DEFINE c == cap[q]
           h == head[q]
           t == tail[q]
           d == data[q]
           n == Held(c, h, t)
           e == Gone(c, t, d, n)
<1>1. /\ Sound(c, h, t, d) /\ Items[q] = Seen(c, h, t, d) /\ Rooms[q] = c - 1
      /\ Size(q) = n
  BY SoundOne
<1>2. Becomes(q, c, h, h, e) /\ out' = out
  <2>1. /\ cap' = cap /\ head' = head /\ out' = out
        /\ tail' = [tail EXCEPT ![q] = h] /\ data' = [data EXCEPT ![q] = Destroy(q, n)]
    BY <1>1 DEF Clear
  <2>2. Destroy(q, n) = e
    BY DEF Destroy, Jump, Gone
  <2>3. QED
    BY <2>1, <2>2, Same DEF Becomes
<1> HIDE DEF c, h, t, d
<1>3. Sound(c, h, h, e)
  <2>1. c \in Nat \ {0} /\ h \in Nat /\ (c > 1 => h < c)
    BY <1>1 DEF Sound
  <2>2. CASE c > 1
    <3>1. d \in [0 .. c - 1 -> Cell]
      BY <1>1, <2>2 DEF Sound
    <3>2. e \in [0 .. c - 1 -> Cell]
      BY <3>1 DEF Gone, Cell
    <3>3. QED
      BY <2>1, <2>2, <3>2 DEF Sound
  <2>3. CASE c = 1
    BY <2>1, <2>3 DEF Sound
  <2>4. QED
    BY <2>1, <2>2, <2>3
<1> HIDE DEF e, n
<1>4. Seen(c, h, h, e) = <<>>
  BY <1>3, NoneSeen
<1>5. /\ IInv' /\ Items' = [Items EXCEPT ![q] = Seen(c, h, h, e)]
      /\ Rooms' = [Rooms EXCEPT ![q] = c - 1]
  BY <1>2, <1>3, OneChanges
<1>6. Items' = [Items EXCEPT ![q] = <<>>] /\ Rooms' = Rooms
  BY <1>1, <1>4, <1>5, Same
<1>7. Promise!Clear(q)
  BY <1>2, <1>6 DEF Promise!Clear, Items, Rooms
<1>8. QED
  BY <1>5, <1>7

\* Of a sequence and one more element, the last r.
LEMMA LastWithOne ==
    ASSUME NEW s \in Seq(Cell), NEW v \in Cell, NEW r, r \in Nat, r > 0, Len(s) <= r
    PROVE  LastOf(s \o <<v>>, r) = Append(IF Len(s) = r THEN SubSeq(s, 2, Len(s)) ELSE s, v)
<1> DEFINE n == Len(s)
           w == <<v>>
           x == Go(n, 1, r)
<1>1. n \in Nat
  BY LenProperties
<1>2. w \in Seq(Cell) /\ Len(w) = 1 /\ w[1] = v
  OBVIOUS
<1>3. Fits(n, 1, r, 1, x)
  <2> HIDE DEF n
  <2>1. n <= r /\ Stay(1, r) = 1
    BY DEF Stay, n
  <2>2. Fits(n, 1, r, Stay(1, r), Go(n, Stay(1, r), r))
    BY <1>1, <2>1 DEF Stay, Go, Fits
  <2>3. QED
    BY <2>1, <2>2
<1>4. x = IF n = r THEN 1 ELSE 0
  BY <1>1 DEF Go
<1> HIDE DEF x, w
<1>5. LastOf(s \o w, r) = Latter(s, x) \o Final(w, 1)
  <2>1. PICK k : k = 1
    OBVIOUS
  <2>2. Fits(Len(s), Len(w), r, k, x)
    BY <1>2, <1>3, <2>1
  <2>3. LastOf(s \o w, r) = Latter(s, x) \o Final(w, k)
    <3>1. w \in Seq(Cell)
      BY <1>2
    <3>2. QED
      BY <2>2, <3>1, NewestOf
  <2>4. QED
    BY <2>1, <2>3
<1>6. Final(w, 1) = w
  <2>1. SubSeq(w, 1, Len(w)) = w
    BY <1>2, SubSeqFull
  <2>2. QED
    BY <1>2, <2>1 DEF Final
<1>7. Latter(s, x) = IF n = r THEN SubSeq(s, 2, n) ELSE s
  <2>1. CASE n = r
    <3>1. x + 1 = 2
      BY <1>4, <2>1
    <3>2. QED
      BY <2>1, <3>1 DEF Latter
  <2>2. CASE n # r
    <3>1. x + 1 = 1
      BY <1>4, <2>2
    <3>2. SubSeq(s, 1, Len(s)) = s
      BY SubSeqFull
    <3>3. QED
      BY <2>2, <3>1, <3>2 DEF Latter
  <2>3. QED
    BY <2>1, <2>2
<1>8. Latter(s, x) \in Seq(Cell)
  <2>1. x \in 0 .. Len(s)
    BY <1>3 DEF Fits
  <2>2. QED
    BY <2>1, LatterPart DEF Latter
<1>9. Latter(s, x) \o w = Append(Latter(s, x), v)
  BY <1>8, AppendIsConcat DEF w
<1>10. QED
  BY <1>5, <1>6, <1>7, <1>9 DEF w

\* rotate, push_back, enqueue: the new element is last, and the oldest is gone when the
\* queue was full.
LEMMA RotateKeeps ==
    ASSUME IInv, NEW q \in Queues, NEW v \in Values, Rotate(q, v)
    PROVE  IInv' /\ Promise!EnqueueN(q, <<v>>)
<1> DEFINE c == cap[q]
           h == head[q]
           t == tail[q]
           d == data[q]
           n == Held(c, h, t)
           s == Seen(c, h, t, d)
           g == After(c, h)
           full == g = t
           b == IF full THEN Gone(c, t, d, 1) ELSE d
           a == IF full THEN After(c, t) ELSE t
           e == Put(b, h, v)
<1>1. /\ Sound(c, h, t, d) /\ c > 1 /\ Items[q] = s /\ Rooms[q] = c - 1
  BY SoundOne DEF Rotate
<1>2. c \in Nat /\ h \in 0 .. c - 1 /\ t \in 0 .. c - 1 /\ g \in 0 .. c - 1
  BY <1>1 DEF Sound, After
<1>3. Becomes(q, c, g, a, e) /\ out' = out
  <2>1. /\ cap' = cap /\ out' = out /\ head' = [head EXCEPT ![q] = NextCell(q, h)]
        /\ tail' = [tail EXCEPT ![q] = IF IsFull(q) THEN NextCell(q, t) ELSE t]
        /\ data' = [data EXCEPT ![q] = [(IF IsFull(q) THEN Destroy(q, 1) ELSE d)
                                          EXCEPT ![h] = v]]
    BY DEF Rotate
  <2>2. NextCell(q, h) = g /\ NextCell(q, t) = After(c, t) /\ (IsFull(q) <=> full)
    BY DEF NextCell, After, IsFull
  <2>3. Destroy(q, 1) = Gone(c, t, d, 1)
    BY DEF Destroy, Jump, Gone
  <2>4. QED
    BY <2>1, <2>2, <2>3, Same DEF Becomes, Put
<1>4. Items[q] \in Seq(Cell) /\ Len(s) = n /\ n \in 0 .. c - 1
  BY <1>1, Elements, HeldIs
<1> HIDE DEF c, h, t, d, n, s, g, e
<1>5. Sound(c, g, a, e) /\ Seen(c, g, a, e) = Append(IF n = c - 1 THEN SubSeq(s, 2, n) ELSE s, v)
  <2>1. CASE full
    <3>1. n = c - 1 /\ 1 \in 0 .. n
      BY <1>1, <1>2, <2>1, FullIs DEF g, n
    <3>2. a = (t + 1) % c
      <4>1. 1 \in 0 .. c - 1
        BY <1>1, <1>2
      <4>2. (t + 1) % c = Turn(t + 1, c)
        BY <1>1, <1>2, <4>1, Jumped
      <4>3. Turn(t + 1, c) = After(c, t)
        BY <1>2 DEF Turn, After
      <4>4. QED
        BY <2>1, <4>2, <4>3
    <3>3. /\ Sound(c, h, a, b) /\ Seen(c, h, a, b) = SubSeq(s, 2, n)
      <4>1. /\ Sound(c, h, (t + 1) % c, Gone(c, t, d, 1))
            /\ Seen(c, h, (t + 1) % c, Gone(c, t, d, 1)) = SubSeq(s, 2, n)
        BY <1>1, <3>1, Removed DEF n, s
      <4>2. QED
        BY <2>1, <3>2, <4>1
    <3>4. g # a
      BY <1>1, <1>2, <2>1 DEF After
    <3> HIDE DEF a, b
    <3>5. Sound(c, g, a, e) /\ Seen(c, g, a, e) = Append(Seen(c, h, a, b), v)
      <4>1. Sound(c, h, a, b) /\ g = After(c, h) /\ e = Put(b, h, v)
        BY <3>3 DEF g, e
      <4>2. QED
        BY <1>1, <3>4, <4>1, Pushed
    <3>6. QED
      BY <3>1, <3>3, <3>5
  <2>2. CASE ~full
    <3>1. n # c - 1
      BY <1>1, <2>2, FullIs DEF g, n
    <3>2. g # t /\ g = After(c, h) /\ e = Put(d, h, v) /\ a = t
      BY <2>2 DEF g, e
    <3>3. Sound(c, g, t, e) /\ Seen(c, g, t, e) = Append(Seen(c, h, t, d), v)
      <4> HIDE DEF full
      <4>1. QED
        BY <1>1, <3>2, Pushed
    <3>4. QED
      BY <3>1, <3>2, <3>3 DEF s
  <2>3. QED
    BY <2>1, <2>2
<1> HIDE DEF a
<1>6. /\ IInv' /\ Items' = [Items EXCEPT ![q] = Seen(c, g, a, e)]
      /\ Rooms' = [Rooms EXCEPT ![q] = c - 1]
  <2>1. Sound(c, g, a, e)
    BY <1>5
  <2>2. QED
    BY <1>3, <2>1, OneChanges
<1>7. Seen(c, g, a, e) = LastOf(Items[q] \o <<v>>, Rooms[q])
  <2> DEFINE r == c - 1
  <2>1. r \in Nat /\ r > 0 /\ n <= r
    BY <1>1, <1>2, <1>4
  <2>2. s \in Seq(Cell) /\ v \in Cell
    BY <1>1, <1>4 DEF Cell
  <2> HIDE DEF r
  <2>3. LastOf(s \o <<v>>, r) = Append(IF Len(s) = r THEN SubSeq(s, 2, Len(s)) ELSE s, v)
    BY <1>4, <2>1, <2>2, LastWithOne
  <2>4. QED
    BY <1>1, <1>4, <1>5, <2>3 DEF r
<1>8. /\ Items' = [Items EXCEPT ![q] = LastOf(Items[q] \o <<v>>, Rooms[q])]
      /\ Rooms' = Rooms /\ Rooms[q] > 0
  <2>1. Rooms' = Rooms
    BY <1>1, <1>6, Same
  <2>2. QED
    BY <1>1, <1>2, <1>6, <1>7, <2>1
<1>9. Promise!EnqueueN(q, <<v>>)
  BY <1>3, <1>8 DEF Promise!EnqueueN, Promise!Newest, LastOf, Items, Rooms
<1>10. QED
  BY <1>6, <1>9

\* dequeue_n: the n oldest elements are given in order and gone.
LEMMA DequeueNKeeps ==
    ASSUME IInv, NEW q \in Queues, NEW n \in 0 .. MaxCapacity, DequeueN(q, n)
    PROVE  IInv' /\ Promise!DequeueN(q, n)
<1> DEFINE c == cap[q]
           h == head[q]
           t == tail[q]
           d == data[q]
           s == Seen(c, h, t, d)
           g == (t + n) % c
           e == Gone(c, t, d, n)
           m == BeforeEnd(c, t, n)
<1>1. /\ Sound(c, h, t, d) /\ c > 1 /\ Items[q] = s /\ Rooms[q] = c - 1
      /\ n <= Held(c, h, t)
  BY SoundOne DEF DequeueN
<1>2. c \in Nat /\ h \in 0 .. c - 1 /\ t \in 0 .. c - 1 /\ n \in Nat
  BY <1>1, BoundsAssumption DEF Sound
<1>3. n \in 0 .. Held(c, h, t)
  <2>1. Held(c, h, t) \in 0 .. c - 1
    BY <1>1, HeldIs
  <2> HIDE DEF c, h, t
  <2>2. QED
    BY <1>1, <1>2, <2>1
<1>4. Becomes(q, c, h, g, e)
  <2>1. /\ cap' = cap /\ head' = head
        /\ tail' = [tail EXCEPT ![q] = g] /\ data' = [data EXCEPT ![q] = Destroy(q, n)]
    BY DEF DequeueN, Jump
  <2>2. Destroy(q, n) = e
    BY DEF Destroy, Jump, Gone
  <2>3. QED
    BY <2>1, <2>2, Same DEF Becomes
<1>5. out' = IF t < h THEN Piece(d, t, n) ELSE Piece(d, t, m) \o Piece(d, 0, n - m)
  <2>1. out' = IF t < h
                 THEN Piece(d, t, Min({h - t, n}))
                 ELSE Piece(d, t, Min({c - t, n})) \o Piece(d, 0, n - Min({c - t, n}))
    BY DEF DequeueN, Piece
  <2> HIDE DEF c, h, t, d
  <2>2. Min({c - t, n}) = m
    BY <1>2, MinOf DEF BeforeEnd
  <2>3. t < h => Min({h - t, n}) = n
    <3>1. t < h => n <= h - t
      BY <1>1, <1>2 DEF Held
    <3>2. QED
      BY <1>2, <3>1, MinOf
  <2>4. QED
    BY <2>1, <2>2, <2>3
<1> HIDE DEF c, h, t, d
<1>6. /\ Sound(c, h, g, e) /\ Seen(c, h, g, e) = SubSeq(s, n + 1, Held(c, h, t))
  BY <1>1, <1>3, Removed
<1>7. Len(s) = Held(c, h, t)
  BY <1>1, Elements
<1>8. out' = SubSeq(s, 1, n)
  <2>1. CASE t < h
    BY <1>1, <1>3, <1>5, <2>1, OnePiece
  <2>2. CASE ~(t < h)
    BY <1>1, <1>3, <1>5, <2>2, TwoPieces
  <2>3. QED
    BY <2>1, <2>2
<1> HIDE DEF e, g, s
<1>9. /\ IInv' /\ Items' = [Items EXCEPT ![q] = Seen(c, h, g, e)]
      /\ Rooms' = [Rooms EXCEPT ![q] = c - 1]
  <2>1. Sound(c, h, g, e)
    BY <1>6
  <2>2. QED
    BY <1>4, <2>1, OneChanges
<1>10. Items' = [Items EXCEPT ![q] = SubSeq(Items[q], n + 1, Len(Items[q]))] /\ Rooms' = Rooms
  BY <1>1, <1>6, <1>7, <1>9, Same
<1>11. out' = SubSeq(Items[q], 1, n)
  BY <1>1, <1>8
<1>12. Promise!DequeueN(q, n)
  BY <1>10, <1>11 DEF Promise!DequeueN, Items, Rooms
<1>13. QED
  BY <1>9, <1>12

\* enqueue_n: the newest elements that fit, after the others that still fit.
LEMMA EnqueueNKeeps ==
    ASSUME IInv, NEW q \in Queues, NEW w \in Bulks, EnqueueN(q, w)
    PROVE  IInv' /\ Promise!EnqueueN(q, w)
<1> DEFINE c == cap[q]
           h == head[q]
           t == tail[q]
           d == data[q]
           n == Held(c, h, t)
           l == Len(w)
           r == c - 1
           k == Stay(l, r)
           x == Go(n, k, r)
           g == (h + k) % c
           a == (t + x) % c
           e == Laid(h, Gone(c, t, d, x), Final(w, k), BeforeEnd(c, h, k))
<1>1. /\ Sound(c, h, t, d) /\ c > 1 /\ Items[q] = Seen(c, h, t, d) /\ Rooms[q] = r
      /\ Size(q) = n
  BY SoundOne DEF EnqueueN
<1>2. /\ c \in Nat /\ h \in 0 .. c - 1 /\ t \in 0 .. c - 1 /\ n \in 0 .. c - 1
      /\ d \in [0 .. c - 1 -> Cell]
  BY <1>1, HeldIs DEF Sound
<1>3. w \in Seq(Values)
  <2>1. PICK j \in 0 .. MaxBulk : w \in [1 .. j -> Values]
    BY DEF Bulks
  <2>2. QED
    BY <2>1, BoundsAssumption
<1>4. l \in Nat /\ r \in Nat /\ n \in Nat /\ n <= r
  <2>1. l \in Nat
    BY <1>3, LenProperties
  <2> HIDE DEF c, n
  <2>2. QED
    BY <1>1, <1>2, <2>1
<1>5. Fits(n, l, r, k, x)
  <2> HIDE DEF n, l, r
  <2>1. QED
    BY <1>4, Shares
<1>6. /\ Final(w, k) \in Seq(Values) /\ Len(Final(w, k)) = k
      /\ Sound(c, g, a, e) /\ Seen(c, g, a, e) = LastOf(Seen(c, h, t, d) \o w, r)
  <2> HIDE DEF c, h, t, d, k, x
  <2>1. QED
    BY <1>1, <1>3, <1>5, Replaced
<1>7. /\ Min({l, c - 1}) = k /\ (IF (c - 1) - n < k THEN k - ((c - 1) - n) ELSE 0) = x
      /\ Min({k, c - h}) = BeforeEnd(c, h, k)
  <2>1. k \in Nat
    BY <1>5 DEF Fits
  <2> HIDE DEF c, h, n, l
  <2>2. Min({l, c - 1}) = k
    BY <1>2, <1>4, MinOf DEF Stay
  <2> HIDE DEF k
  <2>3. Min({k, c - h}) = BeforeEnd(c, h, k)
    BY <1>2, <2>1, MinOf DEF BeforeEnd
  <2>4. QED
    BY <2>2, <2>3 DEF Go
<1>8. Becomes(q, c, g, a, e) /\ out' = out
  <2> DEFINE total == Min({Len(w), Capacity(q)})
             drop == IF Space(q) < total THEN total - Space(q) ELSE 0
             src == SubSeq(w, Len(w) - total + 1, Len(w))
             nseq1 == Min({total, c - h})
             f == [i \in DOMAIN d |->
                     CASE i \in h .. h + nseq1 - 1 -> src[i - h + 1]
                       [] i < total - nseq1        -> src[nseq1 + i + 1]
                       [] OTHER                    -> Destroy(q, drop)[i]]
  <2>1. /\ cap' = cap /\ out' = out /\ head' = [head EXCEPT ![q] = Jump(q, h, total)]
        /\ tail' = [tail EXCEPT ![q] = Jump(q, t, drop)] /\ data' = [data EXCEPT ![q] = f]
    BY DEF EnqueueN
  <2>2. total = k /\ drop = x /\ nseq1 = BeforeEnd(c, h, k) /\ src = Final(w, k)
    <3>1. total = k
      BY <1>7 DEF Capacity
    <3>2. Space(q) = (c - 1) - n
      BY <1>1 DEF Space, Capacity
    <3> HIDE DEF total
    <3>3. drop = IF (c - 1) - n < k THEN k - ((c - 1) - n) ELSE 0
      BY <3>1, <3>2
    <3>4. QED
      BY <1>7, <3>1, <3>3 DEF Final
  <2>3. Destroy(q, drop) = Gone(c, t, d, x) /\ DOMAIN Gone(c, t, d, x) = DOMAIN d
    BY <2>2 DEF Destroy, Jump, Gone
  <2>4. f = e
    <3> DEFINE m == BeforeEnd(c, h, k)
               v == Final(w, k)
               z == Gone(c, t, d, x)
    <3>1. f = [i \in DOMAIN z |->
                 CASE i \in h .. h + m - 1 -> v[i - h + 1]
                   [] i < k - m            -> v[m + i + 1]
                   [] OTHER                -> z[i]]
      <4> HIDE DEF total, drop, src, nseq1, m, v, z, k, x, c, h, t, d
      <4>1. QED
        BY <2>2, <2>3 DEF m, v, z
    <3>2. e = [i \in DOMAIN z |->
                 CASE i \in h .. h + m - 1 -> v[i - h + 1]
                   [] i < k - m            -> v[m + i + 1]
                   [] OTHER                -> z[i]]
      <4> HIDE DEF m, v, z, k, x, c, h, t, d
      <4>1. e = Laid(h, z, v, m) /\ Len(v) = k
        BY <1>6 DEF m, v, z
      <4>2. QED
        BY <4>1 DEF Laid
    <3>3. QED
      BY <3>1, <3>2
  <2>5. Jump(q, h, total) = g /\ Jump(q, t, drop) = a
    <3> HIDE DEF total, drop
    <3>1. QED
      BY <2>2 DEF Jump
  <2> HIDE DEF total, drop, f, e, g, a
  <2>6. QED
    BY <2>1, <2>4, <2>5, Same DEF Becomes
<1> HIDE DEF e, g, a, c, h, t, d
<1>9. /\ IInv' /\ Items' = [Items EXCEPT ![q] = Seen(c, g, a, e)]
      /\ Rooms' = [Rooms EXCEPT ![q] = c - 1]
  <2>1. Sound(c, g, a, e)
    BY <1>6
  <2>2. QED
    BY <1>8, <2>1, OneChanges
<1>10. /\ Items' = [Items EXCEPT ![q] = LastOf(Items[q] \o w, Rooms[q])]
       /\ Rooms' = Rooms
  BY <1>1, <1>6, <1>9, Same
<1>11. Rooms[q] > 0
  <2>1. c - 1 > 0
    BY <1>1, <1>2
  <2>2. QED
    BY <1>1, <2>1
<1>12. Promise!EnqueueN(q, w)
  BY <1>8, <1>10, <1>11 DEF Promise!EnqueueN, Promise!Newest, LastOf, Items, Rooms
<1>13. QED
  BY <1>9, <1>12

\* A queue that was filled with s has s.
LEMMA FillKeeps ==
    ASSUME IInv, NEW q \in Queues, NEW c, c \in Nat \ {0}, NEW s \in Seq(Cell),
           Len(s) < c, Fill(q, c, Cells(c), s)
    PROVE  /\ IInv' /\ out' = out
           /\ Items' = [Items EXCEPT ![q] = s] /\ Rooms' = [Rooms EXCEPT ![q] = c - 1]
<1> DEFINE l == Len(s)
           e == Filling(c, s)
<1>1. l \in Nat /\ l <= c - 1
  BY LenProperties
<1>2. Becomes(q, c, l, 0, e) /\ out' = out
  BY DEF Fill, Cells, Becomes, Filling
<1>3. Sound(c, l, 0, e) /\ Seen(c, l, 0, e) = s
  BY <1>1, Filled
<1> HIDE DEF l, e
<1>4. PICK z : z = 0
  OBVIOUS
<1>5. /\ IInv' /\ Items' = [Items EXCEPT ![q] = Seen(c, l, z, e)]
      /\ Rooms' = [Rooms EXCEPT ![q] = c - 1]
  <2>1. Becomes(q, c, l, z, e) /\ Sound(c, l, z, e)
    BY <1>2, <1>3, <1>4
  <2>2. QED
    BY <2>1, OneChanges
<1>6. Seen(c, l, z, e) = s
  BY <1>3, <1>4
<1>7. QED
  BY <1>2, <1>5, <1>6

\* A walk from the oldest element over no more than there are.
LEMMA WalkIs ==
    ASSUME IInv, NEW q \in Queues, NEW n \in 0 .. Size(q)
    PROVE  /\ Walk(q, tail[q], n) = SubSeq(Items[q], 1, n)
           /\ Walk(q, tail[q], n) \in Seq(Cell) /\ Len(Walk(q, tail[q], n)) = n
<1>1. /\ Sound(cap[q], head[q], tail[q], data[q])
      /\ Items[q] = Seen(cap[q], head[q], tail[q], data[q])
      /\ Size(q) = Held(cap[q], head[q], tail[q])
  BY SoundOne
<1>2. Walk(q, tail[q], n) = SubSeq(Items[q], 1, n)
  BY <1>1, Walked DEF Walk, Jump
<1>3. Items[q] \in Seq(Cell) /\ Len(Items[q]) = Size(q)
  BY <1>1, Elements
<1>4. SubSeq(Items[q], 1, n) \in Seq(Cell) /\ Len(SubSeq(Items[q], 1, n)) = n
  BY <1>3, FirstPart
<1>5. QED
  BY <1>2, <1>4

\* The difference of iterators n elements apart.
LEMMA DistanceIs ==
    ASSUME IInv, NEW q \in Queues, Usable(q), NEW n \in 0 .. Size(q)
    PROVE  Distance(q, tail[q], Jump(q, tail[q], n)) = n
<1>1. /\ Sound(cap[q], head[q], tail[q], data[q]) /\ cap[q] > 1
      /\ Size(q) = Held(cap[q], head[q], tail[q])
  BY SoundOne
<1>2. Linear(cap[q], head[q], tail[q], (tail[q] + n) % cap[q])
        - Linear(cap[q], head[q], tail[q], tail[q]) = n
  BY <1>1, Distances
<1>3. \A i : IdxLinear(q, i) = Linear(cap[q], head[q], tail[q], i)
  BY DEF IdxLinear, Linear
<1>4. QED
  BY <1>2, <1>3 DEF Distance, Jump

\* reserve_shrink: the oldest elements that fit stay.
LEMMA ReserveShrinkKeeps ==
    ASSUME IInv, NEW q \in Queues, NEW n \in 0 .. MaxCapacity, ReserveShrink(q, n)
    PROVE  IInv' /\ Promise!Resize(q, n)
<1> DEFINE c == cap[q]
           h == head[q]
           t == tail[q]
           d == data[q]
           m == IF Size(q) <= n THEN Size(q) ELSE n
<1>1. /\ Sound(c, h, t, d) /\ Items[q] = Seen(c, h, t, d) /\ Rooms[q] = c - 1
      /\ Size(q) = Held(c, h, t) /\ (Usable(q) <=> c > 1) /\ c \in Nat \ {0}
  BY SoundOne DEF Sound
<1>2. n \in Nat
  BY BoundsAssumption
<1>3. /\ Items[q] \in Seq(Cell) /\ Len(Items[q]) = Size(q) /\ Size(q) \in Nat
      /\ Size(q) <= c - 1 /\ (c = 1 => Size(q) = 0)
  <2>1. Items[q] \in Seq(Cell) /\ Len(Items[q]) = Size(q)
    BY <1>1, Elements
  <2>2. Size(q) \in 0 .. c - 1 /\ (c = 1 => Size(q) = 0)
    BY <1>1, HeldIs
  <2> HIDE DEF c, h, t, d
  <2>3. QED
    BY <1>1, <2>1, <2>2
<1>4. Min({Size(q), n}) = m /\ m \in Nat /\ m <= Size(q) /\ m <= n
  <2> HIDE DEF c, h, t, d
  <2>1. QED
    BY <1>2, <1>3, MinOf
<1> HIDE DEF m
<1> DEFINE oldest == [Items EXCEPT ![q] = SubSeq(Items[q], 1, m)]
<1>5. SUFFICES IInv' /\ out' = out /\ Items' = oldest /\ Rooms' = [Rooms EXCEPT ![q] = n]
  <2>1. oldest = [Items EXCEPT ![q] = SubSeq(@, 1, Min({Len(@), n}))]
    BY <1>3, <1>4
  <2> HIDE DEF oldest
  <2>2. QED
    BY <2>1 DEF Promise!Resize, Promise!Min, Min, Items, Rooms
<1>6. CASE n = Capacity(q) /\ UNCHANGED vars
  <2>1. /\ cap' = cap /\ head' = head /\ tail' = tail /\ data' = data /\ out' = out
        /\ n = c - 1
    BY <1>6 DEF vars, Capacity
  <2>2. Becomes(q, c, h, t, d)
    BY <2>1, Same DEF Becomes
  <2>3. m = Size(q)
    BY <1>3, <2>1 DEF m
  <2>4. SubSeq(Items[q], 1, m) = Items[q]
    <3>1. SubSeq(Items[q], 1, Len(Items[q])) = Items[q]
      BY <1>3, SubSeqFull
    <3>2. QED
      BY <1>3, <2>3, <3>1
  <2> HIDE DEF c, h, t, d
  <2>5. /\ IInv' /\ Items' = [Items EXCEPT ![q] = Seen(c, h, t, d)]
        /\ Rooms' = [Rooms EXCEPT ![q] = c - 1]
    BY <1>1, <2>2, OneChanges
  <2>6. QED
    BY <1>1, <2>1, <2>4, <2>5
<1>7. CASE /\ n # Capacity(q) /\ n = 0
           /\ cap' = [cap EXCEPT ![q] = 1] /\ data' = [data EXCEPT ![q] = Cells(0)]
           /\ tail' = [tail EXCEPT ![q] = head[q]] /\ UNCHANGED <<head, out>>
  <2>1. PICK u : u = 1
    OBVIOUS
  <2>2. Becomes(q, u, h, h, Cells(0)) /\ out' = out
    BY <1>7, <2>1, Same DEF Becomes
  <2>3. Sound(u, h, h, Cells(0))
    BY <1>1, <2>1 DEF Sound
  <2> HIDE DEF c, h, t, d
  <2>4. Seen(u, h, h, Cells(0)) = <<>>
    BY <2>3, NoneSeen
  <2>5. /\ IInv' /\ Items' = [Items EXCEPT ![q] = Seen(u, h, h, Cells(0))]
        /\ Rooms' = [Rooms EXCEPT ![q] = u - 1]
    BY <2>2, <2>3, OneChanges
  <2>6. u - 1 = n
    BY <1>7, <2>1
  <2>7. SubSeq(Items[q], 1, m) = <<>>
    <3>1. m = 0
      BY <1>4, <1>7
    <3>2. SubSeq(Items[q], 1, 0) = <<>>
      BY SubSeqEmpty
    <3>3. QED
      BY <3>1, <3>2
  <2>8. QED
    BY <2>2, <2>4, <2>5, <2>6, <2>7
<1>8. CASE /\ n # Capacity(q) /\ n # 0
           /\ LET last == Jump(q, tail[q], Min({Size(q), n}))
                  kept == IF Size(q) = 0 THEN 0 ELSE Distance(q, tail[q], last)
              IN Fill(q, n + 1, Cells(n + 1), Walk(q, tail[q], kept))
  <2>1. m \in 0 .. Size(q)
    BY <1>3, <1>4
  <2>2. (IF Size(q) = 0 THEN 0 ELSE Distance(q, t, Jump(q, t, m))) = m
    <3>1. CASE Size(q) = 0
      BY <1>4, <3>1
    <3>2. CASE Size(q) # 0
      <4>1. Usable(q)
        BY <1>1, <1>3, <3>2
      <4>2. Distance(q, t, Jump(q, t, m)) = m
        BY <2>1, <4>1, DistanceIs
      <4>3. QED
        BY <3>2, <4>2
    <3>3. QED
      BY <3>1, <3>2
  <2>3. Fill(q, n + 1, Cells(n + 1), Walk(q, t, m))
    BY <1>4, <1>8, <2>2
  <2>4. /\ Walk(q, t, m) = SubSeq(Items[q], 1, m)
        /\ Walk(q, t, m) \in Seq(Cell) /\ Len(Walk(q, t, m)) = m
    BY <2>1, WalkIs
  <2>5. PICK b : b = n + 1
    OBVIOUS
  <2> DEFINE s == Walk(q, t, m)
  <2>6. /\ b \in Nat \ {0} /\ s \in Seq(Cell) /\ Len(s) < b /\ Fill(q, b, Cells(b), s)
    BY <1>2, <1>4, <2>3, <2>4, <2>5
  <2> HIDE DEF s
  <2>7. /\ IInv' /\ out' = out
        /\ Items' = [Items EXCEPT ![q] = s] /\ Rooms' = [Rooms EXCEPT ![q] = b - 1]
    BY <2>6, FillKeeps
  <2>8. b - 1 = n
    BY <1>2, <2>5
  <2>9. QED
    BY <2>4, <2>7, <2>8 DEF s
<1>9. QED
  BY <1>6, <1>7, <1>8 DEF ReserveShrink

\* Assignment of a copy: as many elements, in the same order, and room for as many.
LEMMA CopyKeeps ==
    ASSUME IInv, NEW q \in Queues, NEW p \in Queues, CopyAssign(p, q)
    PROVE  IInv' /\ Promise!Copy(p, q)
<1> DEFINE c == cap[q]
           h == head[q]
           t == tail[q]
           d == data[q]
           n == Size(q)
<1>1. /\ Sound(c, h, t, d) /\ Items[q] = Seen(c, h, t, d) /\ Rooms[q] = c - 1
      /\ n = Held(c, h, t) /\ (Usable(q) <=> c > 1) /\ c \in Nat \ {0}
  BY SoundOne DEF Sound
<1>2. /\ Items[q] \in Seq(Cell) /\ Len(Items[q]) = n /\ n \in 0 .. c - 1
      /\ c > 1 => h = Turn(t + n, c)
      /\ c = 1 => n = 0
  BY <1>1, Elements, HeldIs
<1>3. n \in 0 .. n /\ n \in Nat
  <2> HIDE DEF c, n
  <2>1. QED
    BY <1>1, <1>2
<1>4. Distance(q, t, h) = n
  <2>1. CASE c > 1
    <3>1. (t + n) % c = h
      <4>1. t \in 0 .. c - 1 /\ c \in Nat
        BY <1>1, <2>1 DEF Sound
      <4> HIDE DEF c, h, t, n
      <4>2. (t + n) % c = Turn(t + n, c)
        BY <1>2, <2>1, <4>1, Jumped
      <4>3. QED
        BY <1>2, <2>1, <4>2
    <3>2. Distance(q, t, Jump(q, t, n)) = n
      BY <1>1, <1>3, <2>1, DistanceIs
    <3>3. QED
      BY <3>1, <3>2 DEF Jump
  <2>2. CASE c = 1
    <3>1. h = t /\ h \in Nat
      BY <1>1, <2>2 DEF Sound
    <3>2. Distance(q, t, h) = 0
      BY <3>1 DEF Distance, IdxLinear
    <3>3. QED
      BY <1>2, <2>2, <3>2
  <2> HIDE DEF c
  <2>3. QED
    BY <1>1, <2>1, <2>2
<1>5. /\ Walk(q, t, n) = SubSeq(Items[q], 1, n) /\ Walk(q, t, n) \in Seq(Cell)
      /\ Len(Walk(q, t, n)) = n
  BY <1>3, WalkIs
<1>6. Walk(q, t, n) = Items[q]
  <2>1. SubSeq(Items[q], 1, Len(Items[q])) = Items[q]
    BY <1>2, SubSeqFull
  <2>2. QED
    BY <1>2, <1>5, <2>1
<1>7. Fill(p, c, Cells(c), Items[q])
  BY <1>4, <1>6 DEF CopyAssign
<1> HIDE DEF c, n
<1>8. Len(Items[q]) < c
  BY <1>1, <1>2
<1>9. /\ IInv' /\ out' = out
      /\ Items' = [Items EXCEPT ![p] = Items[q]] /\ Rooms' = [Rooms EXCEPT ![p] = c - 1]
  BY <1>1, <1>2, <1>7, <1>8, FillKeeps
<1>10. Promise!Copy(p, q)
  BY <1>1, <1>9 DEF Promise!Copy, Items, Rooms
<1>11. QED
  BY <1>9, <1>10

\* Assignment of an rvalue: each queue has what the other had.
LEMMA MoveKeeps ==
    ASSUME IInv, NEW q \in Queues, NEW p \in Queues \ {q}, MoveAssign(p, q)
    PROVE  IInv' /\ Promise!Exchange(p, q)
<1> DEFINE to(i) == IF i = p THEN q ELSE IF i = q THEN p ELSE i
<1>1. /\ cap \in [Queues -> Nat \ {0}] /\ head \in [Queues -> Nat]
      /\ tail \in [Queues -> Nat] /\ data = [i \in Queues |-> data[i]]
  BY DEF IInv, TypeOK
<1>2. /\ cap'  = [cap EXCEPT ![p] = cap[q], ![q] = cap[p]]
      /\ data' = [data EXCEPT ![p] = data[q], ![q] = data[p]]
      /\ head' = [head EXCEPT ![p] = head[q], ![q] = head[p]]
      /\ tail' = [tail EXCEPT ![p] = tail[q], ![q] = tail[p]] /\ out' = out
  BY DEF MoveAssign
<1>3. ASSUME NEW i \in Queues
      PROVE  /\ cap'[i] = cap[to(i)] /\ data'[i] = data[to(i)]
             /\ head'[i] = head[to(i)] /\ tail'[i] = tail[to(i)] /\ to(i) \in Queues
  BY <1>1, <1>2
<1>4. TypeOK'
  BY <1>1, <1>2 DEF TypeOK
<1> HIDE DEF to
<1>5. ASSUME NEW i \in Queues PROVE InBuffer(i)' /\ NoneWithout(i)'
  <2>1. InBuffer(to(i)) /\ NoneWithout(to(i))
    BY <1>3 DEF IInv
  <2>2. QED
    BY <1>3, <2>1 DEF InBuffer, NoneWithout, Usable, Capacity
<1>6. IInv'
  BY <1>4, <1>5 DEF IInv
<1>7. ASSUME NEW i \in Queues
      PROVE  Contents(i)' = Contents(to(i)) /\ Capacity(i)' = Capacity(to(i))
  <2>1. Contents(i)' = Seen(cap'[i], head'[i], tail'[i], data'[i])
    BY DEF Contents, Walk, Jump, Seen, Size, Held
  <2>2. Contents(to(i)) = Seen(cap[to(i)], head[to(i)], tail[to(i)], data[to(i)])
    BY <1>3, SoundOne
  <2>3. QED
    BY <1>3, <2>1, <2>2 DEF Capacity
<1>8. Items' = [i \in Queues |-> Contents(to(i))] /\ Rooms' = [i \in Queues |-> Capacity(to(i))]
  BY <1>7 DEF Items, Rooms
<1>9. /\ Items' = [Items EXCEPT ![p] = Items[q], ![q] = Items[p]]
      /\ Rooms' = [Rooms EXCEPT ![p] = Rooms[q], ![q] = Rooms[p]]
  BY <1>8 DEF to, Items, Rooms
<1>10. Promise!Exchange(p, q)
  BY <1>2, <1>9 DEF Promise!Exchange, Items, Rooms
<1>11. QED
  BY <1>6, <1>10

-----------------------------------------------------------------------------
(* The theorem                                                              *)

\* A new queue has no element, and all its cells.
LEMMA Begins == Init => IInv /\ Promise!Init
<1> SUFFICES ASSUME Init PROVE IInv /\ Promise!Init
  OBVIOUS
<1>1. /\ cap \in [Queues -> 1 .. MaxCapacity + 1] /\ data = [q \in Queues |-> Buffer(cap[q])]
      /\ head = [q \in Queues |-> 0] /\ tail = [q \in Queues |-> 0] /\ out = <<>>
  BY DEF Init
<1>2. ASSUME NEW q \in Queues
      PROVE  /\ cap[q] \in Nat \ {0} /\ cap[q] - 1 \in 0 .. MaxCapacity
             /\ head[q] = 0 /\ tail[q] = 0
  BY <1>1, BoundsAssumption
<1>3. TypeOK
  BY <1>1, <1>2 DEF TypeOK
<1>4. ASSUME NEW q \in Queues PROVE InBuffer(q) /\ NoneWithout(q)
  <2>1. CASE Usable(q)
    <3>1. cap[q] > 1
      BY <1>2, <2>1 DEF Usable, Capacity
    <3>2. data[q] = Cells(cap[q])
      BY <1>1, <3>1 DEF Buffer
    <3>3. data[q] \in [0 .. cap[q] - 1 -> Cell]
      BY <3>2 DEF Cells, Cell
    <3>4. QED
      BY <1>2, <3>1, <3>3 DEF InBuffer, NoneWithout
  <2>2. CASE ~Usable(q)
    BY <1>2, <2>2 DEF InBuffer, NoneWithout
  <2>3. QED
    BY <2>1, <2>2
<1>5. IInv
  BY <1>3, <1>4 DEF IInv
<1>6. ASSUME NEW q \in Queues PROVE Contents(q) = <<>>
  <2>1. /\ Sound(cap[q], head[q], tail[q], data[q])
        /\ Contents(q) = Seen(cap[q], head[q], tail[q], data[q])
    BY <1>5, SoundOne
  <2>2. head[q] = tail[q]
    BY <1>2
  <2>3. QED
    BY <2>1, <2>2, NoneSeen
<1>7. Items = [q \in Queues |-> <<>>] /\ Rooms \in [Queues -> 0 .. MaxCapacity]
  BY <1>2, <1>6 DEF Items, Rooms, Capacity
<1>8. Promise!Init
  BY <1>1, <1>7 DEF Promise!Init, Items, Rooms
<1>9. QED
  BY <1>5, <1>8

\* No step breaks the invariant.
LEMMA Preserved == IInv /\ [Next]_vars => IInv'
<1> SUFFICES ASSUME IInv, [Next]_vars PROVE IInv'
  OBVIOUS
<1>1. CASE UNCHANGED vars
  BY <1>1 DEF vars, IInv, TypeOK, InBuffer, NoneWithout, Usable, Capacity
<1>2. CASE Next
  <2>1. PICK q \in Queues :
          \/ \E v \in Values : Push(q, v) \/ Rotate(q, v)
          \/ Dequeue(q)
          \/ \E n \in 0 .. MaxCapacity : DequeueN(q, n)
          \/ \E s \in Bulks : EnqueueN(q, s)
          \/ Clear(q)
          \/ \E n \in 0 .. MaxCapacity : ReserveShrink(q, n)
          \/ \E p \in Queues \ {q} : CopyAssign(p, q) \/ MoveAssign(p, q)
    BY <1>2 DEF Next
  <2>2. CASE \E v \in Values : Push(q, v) \/ Rotate(q, v)
    BY <2>2, PushKeeps, RotateKeeps
  <2>3. CASE Dequeue(q)
    BY <2>3, DequeueKeeps
  <2>4. CASE \E n \in 0 .. MaxCapacity : DequeueN(q, n)
    BY <2>4, DequeueNKeeps
  <2>5. CASE \E s \in Bulks : EnqueueN(q, s)
    BY <2>5, EnqueueNKeeps
  <2>6. CASE Clear(q)
    BY <2>6, ClearKeeps
  <2>7. CASE \E n \in 0 .. MaxCapacity : ReserveShrink(q, n)
    BY <2>7, ReserveShrinkKeeps
  <2>8. CASE \E p \in Queues \ {q} : CopyAssign(p, q) \/ MoveAssign(p, q)
    BY <2>8, CopyKeeps, MoveKeeps
  <2>9. QED
    BY <2>1, <2>2, <2>3, <2>4, <2>5, <2>6, <2>7, <2>8
<1>3. QED
  BY <1>1, <1>2

\* Each operation does what BoundedQueue says of it.
LEMMA Kept == IInv => \A q \in Queues : KeepsPromise(q)
<1> SUFFICES ASSUME IInv, NEW q \in Queues PROVE KeepsPromise(q)
  OBVIOUS
<1>1. ASSUME NEW v \in Values
      PROVE  /\ Push(q, v) => Promise!Push(q, v)
             /\ Rotate(q, v) => Promise!EnqueueN(q, <<v>>)
  BY PushKeeps, RotateKeeps
<1>2. Dequeue(q) => Promise!DequeueN(q, 1)
  BY DequeueKeeps
<1>3. ASSUME NEW n \in 0 .. MaxCapacity
      PROVE  /\ DequeueN(q, n) => Promise!DequeueN(q, n)
             /\ ReserveShrink(q, n) => Promise!Resize(q, n)
  BY DequeueNKeeps, ReserveShrinkKeeps
<1>4. ASSUME NEW s \in Bulks PROVE EnqueueN(q, s) => Promise!EnqueueN(q, s)
  BY EnqueueNKeeps
<1>5. Clear(q) => Promise!Clear(q)
  BY ClearKeeps
<1>6. ASSUME NEW p \in Queues \ {q}
      PROVE  /\ CopyAssign(p, q) => Promise!Copy(p, q)
             /\ MoveAssign(p, q) => Promise!Exchange(p, q)
  BY CopyKeeps, MoveKeeps
<1>7. QED
  BY <1>1, <1>2, <1>3, <1>4, <1>5, <1>6 DEF KeepsPromise

\* Wherever the buffer wraps, whatever was done to it before, and for any capacities: each
\* operation of circular_queue does to the elements, oldest first, what a bounded first-in
\* first-out sequence that drops its oldest elements does.
THEOREM QueueImplementsItsPromise == Spec => ImplementsBoundedQueue
<1>1. Init => IInv /\ Promise!Init
  BY Begins
<1>2. IInv /\ [Next]_vars => IInv'
  BY Preserved
<1>3. IInv => \A q \in Queues : KeepsPromise(q)
  BY Kept
<1>4. QED
  BY <1>1, <1>2, <1>3, PTL DEF Spec, ImplementsBoundedQueue
=============================================================================
