----------------------------- MODULE MsgpackProofs -----------------------------
(***************************************************************************)
(* Lemmas about MsgpackReader, for streams of any length with any counts:   *)
(* what each call of msgpack::reader keeps of where the reader is.          *)
(*                                                                          *)
(* Remaining folds Count over a stream.  That the fold over one element     *)
(* more is Count of the fold before is proved by an induction over the      *)
(* positions, with the set of those for which it holds.                     *)
(*                                                                          *)
(* ReaderInv is what holds of a reader whose calls have not thrown: it is   *)
(* in step with the elements it has read.  Each call takes one element,     *)
(* enters or leaves a scope, or throws (lemmas ...Keeps).  Moved and Astray *)
(* are about a client that goes on after an exception: the scopes below the *)
(* one on top stay, and one that counts more elements than are in the       *)
(* stream goes on to do so (lemmas ...Moves).                               *)
(***************************************************************************)
EXTENDS MsgpackReader, SequenceTheorems, NaturalsInduction, WellFoundedInduction, TLAPS

-----------------------------------------------------------------------------
(* Induction, and the fold over a stream                                    *)

\* A set of naturals that has 0 and with each number the next one has all.
LEMMA SetInduction ==
    ASSUME NEW S, 0 \in S, \A n \in Nat : n \in S => n + 1 \in S
    PROVE  \A n \in Nat : n \in S
<1> DEFINE U == Nat \ S
<1>1. SUFFICES ASSUME U # {} PROVE FALSE
  OBVIOUS
<1>2. IsWellFoundedOn(OpToRel(<, Nat), Nat)
  BY NatLessThanWellFounded
<1>3. PICK n \in U : \A m \in U : ~(<<m, n>> \in OpToRel(<, Nat))
  BY <1>1, <1>2, WFMin
<1>4. \A m \in U : ~(m < n)
  BY <1>3 DEF OpToRel
<1>5. n # 0 /\ n - 1 \in Nat /\ (n - 1) + 1 = n
  OBVIOUS
<1>6. n - 1 \notin S
  BY <1>5
<1>7. n - 1 \in U
  BY <1>5, <1>6
<1>8. QED
  BY <1>4, <1>7

-----------------------------------------------------------------------------
(* What the stream says                                                     *)

Fold(in) == FoldLeft(Count, <<>>, in)

\* h tells what the fold over in makes of every set of its first k positions.
Folds(in, k, h) == h = [s \in SUBSET (1 .. k) |->
                           IF s = {} THEN <<>> ELSE Count(h[s \ {Max(s)}], in[Max(s)])]

\* The greatest of the positions is what Max finds.
LEMMA MaxIs ==
    ASSUME NEW S \in SUBSET Nat, NEW m \in S, \A n \in S : n <= m
    PROVE  Max(S) = m
<1>1. \A x \in S : (\A y \in S : x >= y) <=> x = m
  OBVIOUS
<1>2. QED
  BY <1>1 DEF Max

\* There is such a function.
LEMMA FoldsExist ==
    ASSUME NEW in
    PROVE  \A k \in Nat : \E h : Folds(in, k, h)
<1> DEFINE S == {k \in Nat : \E h : Folds(in, k, h)}
<1>1. 0 \in S
  <2> DEFINE h == [s \in SUBSET (1 .. 0) |-> <<>>]
  <2>1. \A s \in SUBSET (1 .. 0) : s = {}
    OBVIOUS
  <2>2. Folds(in, 0, h)
    BY <2>1 DEF Folds
  <2>3. QED
    BY <2>2
<1>2. ASSUME NEW k \in Nat, k \in S PROVE k + 1 \in S
  <2>1. PICK f : Folds(in, k, f)
    BY <1>2
  <2> DEFINE h == [s \in SUBSET (1 .. k + 1) |->
                      IF s \subseteq 1 .. k THEN f[s] ELSE Count(f[s \ {k + 1}], in[k + 1])]
  <2>2. ASSUME NEW s \in SUBSET (1 .. k + 1)
        PROVE  h[s] = IF s = {} THEN <<>> ELSE Count(h[s \ {Max(s)}], in[Max(s)])
    <3>1. CASE s \subseteq 1 .. k
      <4>1. h[s] = f[s] /\ h[s \ {Max(s)}] = f[s \ {Max(s)}]
        BY <3>1
      <4>2. f[s] = IF s = {} THEN <<>> ELSE Count(f[s \ {Max(s)}], in[Max(s)])
        BY <2>1, <3>1 DEF Folds
      <4>3. QED
        BY <4>1, <4>2
    <3>2. CASE ~(s \subseteq 1 .. k)
      <4>1. k + 1 \in s /\ s \in SUBSET Nat /\ \A n \in s : n <= k + 1
        BY <3>2
      <4>2. Max(s) = k + 1
        BY <4>1, MaxIs
      <4>3. s \ {k + 1} \in SUBSET (1 .. k) /\ s \ {k + 1} \in SUBSET (1 .. k + 1)
        OBVIOUS
      <4>4. h[s \ {k + 1}] = f[s \ {k + 1}]
        BY <4>3
      <4>5. h[s] = Count(f[s \ {k + 1}], in[k + 1])
        BY <3>2
      <4>6. QED
        BY <4>1, <4>2, <4>4, <4>5
    <3>3. QED
      BY <3>1, <3>2
  <2>3. Folds(in, k + 1, h)
    BY <2>2 DEF Folds
  <2>4. QED
    BY <2>3
<1>3. \A k \in Nat : k \in S
  <2> HIDE DEF S
  <2>1. QED
    BY <1>1, <1>2, SetInduction
<1>4. QED
  BY <1>3

\* Count takes the elements one by one.
CountsAlong(in, n, g) == /\ g[0] = <<>>
                     /\ \A i \in 1 .. n : g[i] = Count(g[i - 1], in[i])

\* What the fold makes of one position more is Count of what it made of those before.
LEMMA FoldsStep ==
    ASSUME NEW in, NEW n \in Nat, NEW h, Folds(in, n, h), NEW k \in Nat, k + 1 <= n
    PROVE  h[1 .. k + 1] = Count(h[1 .. k], in[k + 1])
<1>1. Max(1 .. k + 1) = k + 1
  <2>1. 1 .. k + 1 \in SUBSET Nat /\ k + 1 \in 1 .. k + 1 /\ \A m \in 1 .. k + 1 : m <= k + 1
    OBVIOUS
  <2>2. QED
    BY <2>1, MaxIs
<1>2. (1 .. k + 1) \ {k + 1} = 1 .. k
  OBVIOUS
<1>3. k + 1 \in 1 .. k + 1
  OBVIOUS
<1>4. 1 .. k + 1 \in SUBSET (1 .. n)
  OBVIOUS
<1>5. QED
  BY <1>1, <1>2, <1>3, <1>4 DEF Folds

\* Of no position the fold makes the empty sequence.
LEMMA FoldsEmpty ==
    ASSUME NEW in, NEW n \in Nat, NEW h, Folds(in, n, h)
    PROVE  h[1 .. 0] = <<>>
<1>1. 1 .. 0 = {} /\ {} \in SUBSET (1 .. n)
  OBVIOUS
<1>2. QED
  BY <1>1 DEF Folds

\* The fold over a whole stream is what it makes of all of its positions.
LEMMA FoldIsLast ==
    ASSUME NEW X, NEW in \in Seq(X), NEW h, h = CHOOSE f : Folds(in, Len(in), f)
    PROVE  Folds(in, Len(in), h) /\ Fold(in) = h[1 .. Len(in)]
<1>1. Len(in) \in Nat /\ DOMAIN in = 1 .. Len(in)
  BY LenProperties
<1>2. Folds(in, Len(in), h)
  <2>1. \E f : Folds(in, Len(in), f)
    BY <1>1, FoldsExist
  <2>2. QED
    BY <2>1, Zenon
<1>3. Fold(in) = LET it[s \in SUBSET DOMAIN in] == IF s = {} THEN <<>>
                                                   ELSE Count(it[s \ {Max(s)}], in[Max(s)])
                 IN  it[DOMAIN in]
  BY DEF Fold, FoldLeft, MapThenFoldSet
<1>4. QED
  BY <1>1, <1>2, <1>3 DEF Folds

\* Whatever counts the elements of a stream one by one ends where the fold does.
LEMMA FoldIs ==
    ASSUME NEW X, NEW in \in Seq(X), NEW g, CountsAlong(in, Len(in), g)
    PROVE  Fold(in) = g[Len(in)]
<1> DEFINE n == Len(in)
           h == CHOOSE f : Folds(in, Len(in), f)
           S == {k \in Nat : k <= n => h[1 .. k] = g[k]}
<1>1. n \in Nat
  BY LenProperties
<1>2. Folds(in, n, h) /\ Fold(in) = h[1 .. n]
  BY FoldIsLast
<1> HIDE DEF h
<1>3. 0 \in S
  BY <1>1, <1>2, FoldsEmpty DEF CountsAlong
<1>4. ASSUME NEW k \in Nat, k \in S PROVE k + 1 \in S
  <2>1. SUFFICES ASSUME k + 1 <= n PROVE h[1 .. k + 1] = g[k + 1]
    BY <1>4
  <2>2. h[1 .. k + 1] = Count(h[1 .. k], in[k + 1])
    BY <1>1, <1>2, <2>1, FoldsStep
  <2>3. h[1 .. k] = g[k]
    BY <1>1, <1>4, <2>1
  <2>4. k + 1 \in 1 .. n /\ (k + 1) - 1 = k
    BY <1>1, <2>1
  <2>5. g[k + 1] = Count(g[k], in[k + 1])
    BY <2>4 DEF CountsAlong
  <2>6. QED
    BY <2>2, <2>3, <2>5
<1>5. \A k \in Nat : k \in S
  <2> HIDE DEF S
  <2>1. QED
    BY <1>3, <1>4, SetInduction
<1>6. QED
  BY <1>1, <1>2, <1>5

\* The fold counts the elements one by one.
LEMMA FoldCounts ==
    ASSUME NEW X, NEW in \in Seq(X)
    PROVE  \E g : CountsAlong(in, Len(in), g)
<1> DEFINE n == Len(in)
           h == CHOOSE f : Folds(in, Len(in), f)
           g == [k \in 0 .. n |-> h[1 .. k]]
<1>1. n \in Nat
  BY LenProperties
<1>2. Folds(in, n, h)
  BY FoldIsLast
<1> HIDE DEF h
<1>3. g[0] = <<>>
  BY <1>1, <1>2, FoldsEmpty
<1>4. ASSUME NEW i \in 1 .. n PROVE g[i] = Count(g[i - 1], in[i])
  <2>1. i - 1 \in Nat /\ (i - 1) + 1 <= n /\ (i - 1) + 1 = i /\ i \in 0 .. n /\ i - 1 \in 0 .. n
    BY <1>1
  <2>2. h[1 .. (i - 1) + 1] = Count(h[1 .. i - 1], in[(i - 1) + 1])
    BY <1>1, <1>2, <2>1, FoldsStep
  <2>3. QED
    BY <2>1, <2>2
<1>5. QED
  BY <1>3, <1>4 DEF CountsAlong

\* An element more is counted after those before it.
LEMMA FoldStep ==
    ASSUME NEW X, NEW in \in Seq(X), NEW k \in Nat, k + 1 <= Len(in)
    PROVE  Fold(SubSeq(in, 1, k + 1)) = Count(Fold(SubSeq(in, 1, k)), in[k + 1])
<1> DEFINE a == SubSeq(in, 1, k)
           b == SubSeq(in, 1, k + 1)
<1>1. Len(in) \in Nat /\ \A i \in 1 .. Len(in) : in[i] \in X
  BY LenProperties, ElementOfSeq
<1>2. /\ b \in Seq(X) /\ Len(b) = k + 1
      /\ \A i \in 1 .. k + 1 : b[i] = in[i]
  <2>1. \A i \in 1 .. k + 1 : in[i] \in X
    BY <1>1
  <2>2. b \in Seq(X) /\ Len(b) = k + 1 /\ \A i \in 1 .. (k + 1) - 1 + 1 : b[i] = in[1 + i - 1]
    BY <2>1, SubSeqProperties
  <2>3. QED
    BY <2>2
<1>3. /\ a \in Seq(X) /\ Len(a) = k
      /\ \A i \in 1 .. k : a[i] = in[i]
  <2>1. \A i \in 1 .. k : in[i] \in X
    BY <1>1
  <2>2. a \in Seq(X) /\ Len(a) = k /\ \A i \in 1 .. k - 1 + 1 : a[i] = in[1 + i - 1]
    BY <2>1, SubSeqProperties
  <2>3. QED
    BY <2>2
<1> HIDE DEF a, b
<1>4. PICK g : CountsAlong(b, k + 1, g)
  BY <1>2, FoldCounts
<1>5. CountsAlong(a, k, g)
  BY <1>2, <1>3, <1>4 DEF CountsAlong
<1>6. Fold(b) = g[k + 1] /\ Fold(a) = g[k]
  BY <1>2, <1>3, <1>4, <1>5, FoldIs
<1>7. g[k + 1] = Count(g[k], in[k + 1])
  <2>1. k + 1 \in 1 .. k + 1 /\ (k + 1) - 1 = k
    OBVIOUS
  <2>2. QED
    BY <1>2, <1>4, <2>1 DEF CountsAlong
<1>8. QED
  BY <1>6, <1>7 DEF a, b

\* Nothing has been counted of an empty stream.
LEMMA FoldEmpty == Fold(<<>>) = <<>>
<1>1. <<>> \in Seq({}) /\ Len(<<>>) = 0
  OBVIOUS
<1>2. PICK g : CountsAlong(<<>>, Len(<<>>), g)
  BY <1>1, FoldCounts
<1>3. Fold(<<>>) = g[Len(<<>>)]
  BY <1>1, <1>2, FoldIs
<1>4. g[0] = <<>>
  BY <1>2 DEF CountsAlong
<1>5. QED
  BY <1>1, <1>3, <1>4

-----------------------------------------------------------------------------
(* The containers that are open                                             *)

\* A bounded set of numbers has a greatest one.
LEMMA LastOf ==
    ASSUME NEW S \in SUBSET Nat, S # {}, NEW n \in Nat, \A k \in S : k <= n
    PROVE  \E m \in S : \A k \in S : k <= m
<1> DEFINE U == {n - k : k \in S}
<1>1. U \in SUBSET Nat /\ U # {}
  <2>1. \A k \in S : n - k \in Nat
    OBVIOUS
  <2>2. QED
    BY <2>1
<1>2. IsWellFoundedOn(OpToRel(<, Nat), Nat)
  BY NatLessThanWellFounded
<1>3. PICK u \in U : \A v \in U : ~(<<v, u>> \in OpToRel(<, Nat))
  BY <1>1, <1>2, WFMin
<1>4. \A v \in U : ~(v < u)
  BY <1>1, <1>3 DEF OpToRel
<1>5. PICK m \in S : u = n - m
  OBVIOUS
<1>6. ASSUME NEW k \in S PROVE k <= m
  <2>1. n - k \in U
    OBVIOUS
  <2>2. ~(n - k < n - m)
    BY <1>4, <1>5, <2>1
  <2>3. QED
    BY <2>2
<1>7. QED
  BY <1>6

\* In the last container something is left.
Full(L) == L # <<>> => L[Len(L)] # 0

\* Nothing is to be dropped when something is left in the last container.
LEMMA OpenFull ==
    ASSUME NEW L \in Seq(Nat), Full(L)
    PROVE  Open(L) = L
<1> DEFINE some == {i \in DOMAIN L : L[i] # 0}
<1>1. Len(L) \in Nat /\ DOMAIN L = 1 .. Len(L)
  BY LenProperties
<1>2. CASE L = <<>>
  <2>1. some = {}
    BY <1>2
  <2>2. SubSeq(L, 1, 0) = <<>>
    BY SubSeqEmpty
  <2>3. QED
    BY <1>2, <2>1, <2>2 DEF Open
<1>3. CASE L # <<>>
  <2>1. Len(L) \in some /\ some \in SUBSET Nat /\ \A n \in some : n <= Len(L)
    BY <1>1, <1>3, EmptySeq DEF Full
  <2>2. Max(some) = Len(L)
    BY <2>1, MaxIs
  <2>3. SubSeq(L, 1, Len(L)) = L
    BY SubSeqFull
  <2>4. some # {}
    BY <2>1
  <2>5. QED
    BY <2>2, <2>3, <2>4 DEF Open
<1>4. QED
  BY <1>2, <1>3

\* Leaving a container in which nothing is left makes no difference.
LEMMA OpenPop ==
    ASSUME NEW L \in Seq(Nat), L # <<>>, L[Len(L)] = 0
    PROVE  Open(SubSeq(L, 1, Len(L) - 1)) = Open(L)
<1> DEFINE n == Len(L)
           K == SubSeq(L, 1, Len(L) - 1)
           some == {i \in DOMAIN L : L[i] # 0}
           kept == {i \in DOMAIN K : K[i] # 0}
<1>1. n \in Nat /\ n # 0 /\ DOMAIN L = 1 .. n /\ \A i \in 1 .. n : L[i] \in Nat
  BY LenProperties, EmptySeq, ElementOfSeq
<1>2. /\ K \in Seq(Nat) /\ Len(K) = n - 1 /\ DOMAIN K = 1 .. n - 1
      /\ \A i \in 1 .. n - 1 : K[i] = L[i]
  <2>1. \A i \in 1 .. n - 1 : L[i] \in Nat
    BY <1>1
  <2>2. K \in Seq(Nat) /\ Len(K) = n - 1 /\ \A i \in 1 .. (n - 1) - 1 + 1 : K[i] = L[1 + i - 1]
    BY <1>1, <2>1, SubSeqProperties
  <2>3. QED
    BY <1>1, <2>2, LenProperties
<1>3. kept = some
  BY <1>1, <1>2
<1>4. ASSUME NEW m \in 0 .. n - 1 PROVE SubSeq(K, 1, m) = SubSeq(L, 1, m)
  <2>1. \A i \in 1 .. m : L[i] \in Nat /\ K[i] \in Nat
    BY <1>1, <1>2
  <2>2. /\ SubSeq(L, 1, m) \in Seq(Nat) /\ Len(SubSeq(L, 1, m)) = m
        /\ \A i \in 1 .. m - 1 + 1 : SubSeq(L, 1, m)[i] = L[1 + i - 1]
    BY <2>1, SubSeqProperties
  <2>3. /\ SubSeq(K, 1, m) \in Seq(Nat) /\ Len(SubSeq(K, 1, m)) = m
        /\ \A i \in 1 .. m - 1 + 1 : SubSeq(K, 1, m)[i] = K[1 + i - 1]
    BY <2>1, SubSeqProperties
  <2>4. \A i \in 1 .. m : SubSeq(K, 1, m)[i] = SubSeq(L, 1, m)[i]
    BY <1>1, <1>2, <2>2, <2>3
  <2>5. QED
    BY <2>2, <2>3, <2>4, SeqEqual
<1>5. CASE some = {}
  BY <1>1, <1>3, <1>4, <1>5 DEF Open
<1>6. CASE some # {}
  <2>1. PICK m \in some : \A k \in some : k <= m
    <3>1. some \in SUBSET Nat /\ \A k \in some : k <= n
      BY <1>1
    <3>2. QED
      BY <1>1, <1>6, <3>1, LastOf
  <2>2. Max(some) = m /\ Max(kept) = m
    BY <1>1, <1>3, <2>1, MaxIs
  <2>3. m \in 0 .. n - 1
    BY <1>1, <1>3
  <2>4. QED
    BY <1>3, <1>4, <1>6, <2>2, <2>3 DEF Open
<1>7. QED
  BY <1>5, <1>6

\* The containers left by an element of kind k, to which n elements belong, after L.
Taken(L) == IF L = <<>> THEN L ELSE [L EXCEPT ![Len(L)] = @ - 1]
After(L, k, n) == CASE k = "arr" -> Append(Taken(L), n)
                    [] k = "map" -> Append(Taken(L), 2 * n)
                    [] OTHER -> Taken(L)

\* Taking an element from the last container, in the words of Count
LEMMA TakenIs ==
    ASSUME NEW L \in Seq(Nat), Full(L)
    PROVE  /\ Taken(L) \in Seq(Nat)
           /\ Taken(L) = IF L = <<>> THEN L ELSE Front(L) \o <<Last(L) - 1>>
<1>1. CASE L = <<>>
  BY <1>1 DEF Taken
<1>2. CASE L # <<>>
  <2> DEFINE n == Len(L)
             K == [L EXCEPT ![n] = @ - 1]
             F == SubSeq(L, 1, n - 1)
             x == L[n] - 1
  <2>1. n \in Nat /\ n # 0 /\ \A i \in 1 .. n : L[i] \in Nat
    BY <1>2, LenProperties, EmptySeq, ElementOfSeq
  <2>2. x \in Nat
    BY <1>2, <2>1 DEF Full
  <2>3. K = [L EXCEPT ![n] = x]
    OBVIOUS
  <2>4. K \in Seq(Nat) /\ Len(K) = n /\ \A i \in 1 .. n : K[i] = IF i = n THEN x ELSE L[i]
    BY <2>1, <2>2, <2>3, ExceptSeq
  <2>5. F \in Seq(Nat) /\ Len(F) = n - 1 /\ \A i \in 1 .. n - 1 : F[i] = L[i]
    <3>1. \A i \in 1 .. n - 1 : L[i] \in Nat
      BY <2>1
    <3>2. n - 1 \in Int
      BY <2>1
    <3>3. /\ F \in Seq(Nat) /\ Len(F) = IF 1 <= n - 1 THEN (n - 1) - 1 + 1 ELSE 0
          /\ \A i \in 1 .. (n - 1) - 1 + 1 : F[i] = L[1 + i - 1]
      BY <3>1, <3>2, SubSeqProperties
    <3> HIDE DEF F
    <3>4. ASSUME NEW i \in 1 .. n - 1 PROVE F[i] = L[i]
      <4>1. i \in 1 .. (n - 1) - 1 + 1 /\ 1 + i - 1 = i
        BY <2>1
      <4>2. QED
        BY <3>3, <4>1
    <3>5. (IF 1 <= n - 1 THEN (n - 1) - 1 + 1 ELSE 0) = n - 1
      <4> HIDE DEF n
      <4>1. CASE n = 1
        BY <4>1
      <4>2. CASE n # 1
        BY <2>1, <4>2
      <4>3. QED
        BY <4>1, <4>2
    <3>6. QED
      BY <3>3, <3>4, <3>5
  <2>6. <<x>> \in Seq(Nat) /\ Len(<<x>>) = 1 /\ <<x>>[1] = x
    BY <2>2
  <2>7. /\ F \o <<x>> \in Seq(Nat) /\ Len(F \o <<x>>) = n
        /\ \A i \in 1 .. n : (F \o <<x>>)[i] = IF i <= n - 1 THEN F[i] ELSE <<x>>[i - (n - 1)]
    <3> HIDE DEF F, x
    <3>1. (n - 1) + 1 = n
      BY <2>1
    <3>2. QED
      BY <2>5, <2>6, <3>1, ConcatProperties
  <2>8. \A i \in 1 .. n : K[i] = (F \o <<x>>)[i]
    <3>1. SUFFICES ASSUME NEW i \in 1 .. n PROVE K[i] = (F \o <<x>>)[i]
      OBVIOUS
    <3> HIDE DEF F, x, K
    <3>2. CASE i = n
      <4>1. ~(i <= n - 1) /\ i - (n - 1) = 1
        BY <2>1, <3>2
      <4>2. QED
        BY <2>4, <2>6, <2>7, <3>2, <4>1
    <3>3. CASE i # n
      <4>1. i <= n - 1 /\ i \in 1 .. n - 1
        BY <2>1, <3>3
      <4>2. QED
        BY <2>4, <2>5, <2>7, <3>3, <4>1
    <3>4. QED
      BY <3>2, <3>3
  <2>9. K = F \o <<x>>
    <3> HIDE DEF F, x, K
    <3>1. QED
      BY <2>4, <2>7, <2>8, SeqEqual
  <2>10. QED
    BY <1>2, <2>4, <2>9 DEF Taken, Front, Last
<1>3. QED
  BY <1>1, <1>2

\* Whatever sequence stands for the open containers, counting an element gives the next.
LEMMA CountIs ==
    ASSUME NEW F, NEW L \in Seq(Nat), Full(L), Open(F) = Open(L), NEW e, e.n \in Nat
    PROVE  /\ Count(F, e) = After(L, e.k, e.n)
           /\ After(L, e.k, e.n) \in Seq(Nat)
<1>1. Open(F) = L
  BY OpenFull
<1>2. Taken(L) \in Seq(Nat)
  BY TakenIs
<1>3. Count(F, e) = CASE e.k = "arr" -> Append(Taken(L), e.n)
                         [] e.k = "map" -> Append(Taken(L), 2 * e.n)
                         [] OTHER -> Taken(L)
  BY <1>1, TakenIs DEF Count
<1>4. QED
  BY <1>2, <1>3 DEF After

\* What the stream says after one element more.
LEMMA RemainingStep ==
    ASSUME NEW X, NEW in \in Seq(X), NEW k \in Nat, k + 1 <= Len(in),
           NEW L \in Seq(Nat), Full(L), Open(L) = Remaining(SubSeq(in, 1, k)),
           in[k + 1].n \in Nat
    PROVE  /\ After(L, in[k + 1].k, in[k + 1].n) \in Seq(Nat)
           /\ Open(After(L, in[k + 1].k, in[k + 1].n)) = Remaining(SubSeq(in, 1, k + 1))
<1> DEFINE F == Fold(SubSeq(in, 1, k))
           e == in[k + 1]
<1>1. Open(F) = Open(L)
  BY DEF Remaining, Fold
<1>2. Remaining(SubSeq(in, 1, k + 1)) = Open(Count(F, e))
  BY FoldStep DEF Remaining, Fold
<1> HIDE DEF F, e
<1>3. Count(F, e) = After(L, e.k, e.n) /\ After(L, e.k, e.n) \in Seq(Nat)
  BY <1>1, CountIs DEF e
<1>4. QED
  BY <1>2, <1>3 DEF e

\* No container is open before the first element.
LEMMA RemainingEmpty == Remaining(<<>>) = <<>>
<1>1. <<>> \in Seq(Nat) /\ Full(<<>>)
  BY DEF Full
<1>2. Open(<<>>) = <<>>
  BY <1>1, OpenFull
<1>3. QED
  BY <1>2, FoldEmpty DEF Remaining, Fold

-----------------------------------------------------------------------------
(* msgpack::reader                                                          *)

ScopeType   == [type : {"array", "object", "binary"}, key : BOOLEAN, id : Nat, left : Nat]
ReaderType  == [pos : Nat \ {0}, scopes : Seq(ScopeType), room : Nat, gen : Nat, goal : Int,
                stale : Nat, err : {"ok", "recoverable", "fatal"}, torn : BOOLEAN]
ElementType(V) == [k : Kinds, n : Nat, v : V]

\* A reader that has not thrown is in step, and a loop that runs has a scope to leave.
Placed(in, x) == x.pos <= Len(in) + 1 /\ InStep(in, x)
Leaving(x)    == x.goal = NoGoal \/ x.goal \in 0 .. Len(x.scopes) - 1
ReaderInv(in, x) == Ok(x) => x \in ReaderType /\ Placed(in, x) /\ Leaving(x)

\* No element is taken in a binary, nor where none is left.
Takes(s) == s # <<>> => s[Len(s)].left # 0 /\ s[Len(s)].type # "binary"
\* From the scopes s to t one element has been taken.
SameTypes(s, t) == Len(t) = Len(s) /\ \A i \in 1 .. Len(s) : t[i].type = s[i].type
Stepped(s, t) == /\ t \in Seq(ScopeType) /\ SameTypes(s, t)
                 /\ Takes(s) /\ Lefts(t) = Taken(Lefts(s))

\* The scopes of a reader, and what is left in them
LEMMA ScopesAre ==
    ASSUME NEW s \in Seq(ScopeType)
    PROVE  /\ Len(s) \in Nat /\ DOMAIN s = 1 .. Len(s) /\ \A i \in 1 .. Len(s) : s[i] \in ScopeType
           /\ s # <<>> => Len(s) # 0
           /\ Lefts(s) \in Seq(Nat) /\ Len(Lefts(s)) = Len(s)
           /\ \A i \in 1 .. Len(s) : Lefts(s)[i] = s[i].left
<1>1. Len(s) \in Nat /\ DOMAIN s = 1 .. Len(s) /\ \A i \in 1 .. Len(s) : s[i] \in ScopeType
  BY LenProperties, ElementOfSeq
<1>2. s # <<>> => Len(s) # 0
  BY EmptySeq
<1>3. Lefts(s) = [i \in 1 .. Len(s) |-> s[i].left]
  BY <1>1 DEF Lefts
<1>4. \A i \in 1 .. Len(s) : s[i].left \in Nat
  BY <1>1 DEF ScopeType
<1>5. Lefts(s) \in Seq(Nat) /\ Len(Lefts(s)) = Len(s)
  BY <1>1, <1>3, <1>4
<1>6. QED
  BY <1>1, <1>2, <1>3, <1>5

\* The last scope is replaced by one with an element less.
LEMMA SteppedIs ==
    ASSUME NEW s \in Seq(ScopeType), s # <<>>, NEW key \in BOOLEAN,
           s[Len(s)].left # 0, s[Len(s)].type # "binary",
           NEW t, t = [s EXCEPT ![Len(s)] = [s[Len(s)] EXCEPT !.left = s[Len(s)].left - 1, !.key = key]]
    PROVE  Stepped(s, t)
<1> DEFINE n == Len(s)
           e == [s[n] EXCEPT !.left = s[n].left - 1, !.key = key]
<1>1. n \in Nat /\ n # 0 /\ n \in 1 .. n /\ s[n] \in ScopeType
  BY ScopesAre
<1>2. e \in ScopeType /\ e.left = s[n].left - 1 /\ e.type = s[n].type
  <2>1. s[n].left - 1 \in Nat
    BY <1>1 DEF ScopeType
  <2> DEFINE l == s[n].left - 1
             f == [s[n] EXCEPT !.left = l, !.key = key]
  <2> HIDE DEF l
  <2>2. f \in ScopeType /\ f.left = l /\ f.type = s[n].type
    BY <1>1, <2>1 DEF ScopeType, l
  <2>3. QED
    BY <2>2 DEF l
<1> HIDE DEF e
<1>3. t \in Seq(ScopeType) /\ Len(t) = n /\ \A j \in 1 .. n : t[j] = IF j = n THEN e ELSE s[j]
  BY <1>1, <1>2, ExceptSeq DEF e
<1>4. SameTypes(s, t)
  BY <1>2, <1>3 DEF SameTypes
<1>5. Lefts(t) = Taken(Lefts(s))
  <2> DEFINE L == Lefts(s)
             K == Lefts(t)
  <2>1. L \in Seq(Nat) /\ Len(L) = n /\ \A i \in 1 .. n : L[i] = s[i].left
    BY ScopesAre
  <2>2. K \in Seq(Nat) /\ Len(K) = n /\ \A i \in 1 .. n : K[i] = t[i].left
    BY <1>3, ScopesAre
  <2> HIDE DEF L, K
  <2>3. L # <<>>
    BY <1>1, <2>1
  <2>4. L[n] # 0 /\ L[n] \in Nat
    BY <1>1, <2>1, ElementOfSeq
  <2>5. Taken(L) = [L EXCEPT ![n] = L[n] - 1]
    BY <2>1, <2>3 DEF Taken
  <2>6. L[n] - 1 \in Nat
    BY <2>4
  <2>7. Taken(L) \in Seq(Nat) /\ Len(Taken(L)) = n
        /\ \A i \in 1 .. n : Taken(L)[i] = IF i = n THEN L[n] - 1 ELSE L[i]
    BY <1>1, <2>1, <2>5, <2>6, ExceptSeq
  <2>8. ASSUME NEW i \in 1 .. n PROVE K[i] = Taken(L)[i]
    <3>1. K[i] = t[i].left /\ L[i] = s[i].left /\ t[i] = IF i = n THEN e ELSE s[i]
      BY <1>3, <2>1, <2>2
    <3>2. Taken(L)[i] = IF i = n THEN L[n] - 1 ELSE L[i]
      BY <2>7
    <3>3. L[n] = s[n].left
      BY <1>1, <2>1
    <3>4. QED
      BY <1>2, <3>1, <3>2, <3>3
  <2>9. K = Taken(L)
    BY <2>2, <2>7, <2>8, SeqEqual
  <2>10. QED
    BY <2>9 DEF L, K
<1>6. QED
  BY <1>3, <1>4, <1>5 DEF Stepped, Takes

\* Outside of all scopes there is nothing to step over (_step_context with no scope).
LEMMA SteppedOutside ==
    Stepped(<<>>, <<>>)
<1>1. <<>> \in Seq(ScopeType) /\ Len(<<>>) = 0
  BY EmptySeq
<1>2. Lefts(<<>>) = <<>>
  BY ScopesAre, <1>1, EmptySeq
<1>3. SameTypes(<<>>, <<>>)
  BY DEF SameTypes
<1>4. QED
  BY <1>1, <1>2, <1>3 DEF Stepped, Takes, Taken

\* _step_context, when it does not throw.
LEMMA StepContextIs ==
    ASSUME NEW x \in ReaderType, Ok(x), NEW y, y = StepContext(x), Ok(y)
    PROVE  Stepped(x.scopes, y.scopes) /\ y = [x EXCEPT !.scopes = y.scopes]
<1>1. CASE x.scopes = <<>>
  BY <1>1, SteppedOutside DEF StepContext, ReaderType
<1>2. CASE x.scopes # <<>>
  <2> DEFINE s == x.scopes
             e == s[Len(s)]
             key == IF KeyOrder(e) THEN FALSE ELSE e.key
             t == [e EXCEPT !.left = Less(e), !.key = key]
             next == SetTop(x, t)
  <2>1. s \in Seq(ScopeType) /\ e \in ScopeType
    BY <1>2, ScopesAre DEF ReaderType
  <2>2. Top(x) = e
    BY DEF Top, Last
  <2>3. next = [x EXCEPT !.scopes = [s EXCEPT ![Len(s)] = t]]
    BY DEF SetTop
  <2>4. y = IF e.type = "binary" \/ (KeyOrder(e) /\ ~e.key) THEN Throw(x, "recoverable")
            ELSE IF e.left = 0 THEN Throw(next, "recoverable") ELSE next
    BY <1>2, <2>2 DEF StepContext
  <2>5. next.err = "ok" /\ next.scopes = [s EXCEPT ![Len(s)] = t]
    BY <2>3 DEF ReaderType, Ok
  <2>6. ~Ok(Throw(x, "recoverable")) /\ ~Ok(Throw(next, "recoverable"))
    BY <2>3, <2>5 DEF Throw, Ok, ReaderType
  <2>7. e.type # "binary" /\ e.left # 0 /\ y = next
    BY <2>4, <2>6
  <2>8. key \in BOOLEAN /\ Less(e) = e.left - 1
    BY <2>1, <2>7 DEF ScopeType, Less
  <2>9. Stepped(s, y.scopes)
    BY <1>2, <2>1, <2>5, <2>7, <2>8, SteppedIs
  <2>10. QED
    BY <2>3, <2>5, <2>7, <2>9
<1>3. QED
  BY <1>1, <1>2

\* _step_context_on_skip, which does not look at the type of the scope.
LEMMA StepOnSkipIs ==
    ASSUME NEW x \in ReaderType, Ok(x), ~InScope(x, "binary"),
           NEW y, y = StepOnSkip(x), Ok(y)
    PROVE  Stepped(x.scopes, y.scopes) /\ y = [x EXCEPT !.scopes = y.scopes]
<1>1. CASE x.scopes = <<>>
  BY <1>1, SteppedOutside DEF StepOnSkip, ReaderType
<1>2. CASE x.scopes # <<>>
  <2> DEFINE s == x.scopes
             e == s[Len(s)]
             t == [e EXCEPT !.left = Less(e)]
             next == SetTop(x, t)
  <2>1. s \in Seq(ScopeType) /\ e \in ScopeType
    BY <1>2, ScopesAre DEF ReaderType
  <2>2. Top(x) = e
    BY DEF Top, Last
  <2>3. next = [x EXCEPT !.scopes = [s EXCEPT ![Len(s)] = t]]
    BY DEF SetTop
  <2>4. y = IF e.left = 0 THEN Throw(next, "recoverable") ELSE next
    BY <1>2, <2>2 DEF StepOnSkip
  <2>5. next.err = "ok" /\ next.scopes = [s EXCEPT ![Len(s)] = t]
    BY <2>3 DEF ReaderType, Ok
  <2>6. ~Ok(Throw(next, "recoverable"))
    BY <2>3, <2>5 DEF Throw, Ok, ReaderType
  <2>7. e.type # "binary" /\ e.left # 0 /\ y = next
    BY <1>2, <2>2, <2>4, <2>6 DEF InScope
  <2>8. Less(e) = e.left - 1 /\ e.key \in BOOLEAN
    BY <2>1, <2>7 DEF Less, ScopeType
  <2>9. t = [e EXCEPT !.left = e.left - 1, !.key = e.key]
    BY <2>1, <2>8 DEF ScopeType
  <2>10. Stepped(s, y.scopes)
    BY <1>2, <2>1, <2>5, <2>7, <2>8, <2>9, SteppedIs
  <2>11. QED
    BY <2>3, <2>5, <2>7, <2>10
<1>3. QED
  BY <1>1, <1>2

\* y has taken the element at the position of x.
Took(in, x, y) ==
    /\ x.pos <= Len(in)
    /\ Stepped(x.scopes, y.scopes)
    /\ y = [x EXCEPT !.pos = x.pos + 1, !.scopes = y.scopes]

\* A header that is taken is of one of the kinds asked for, and is there (_verify_eof).
LEMMA TakeIs ==
    ASSUME NEW in, NEW x \in ReaderType, Ok(x), NEW kinds, NEW y, y = Take(in, x, kinds), Ok(y)
    PROVE  /\ ~(x.pos > Len(in)) /\ in[x.pos].k \in kinds
           /\ y = [x EXCEPT !.pos = x.pos + 1] /\ y \in ReaderType
<1>1. ~Ok(Throw(x, "recoverable")) /\ ~Ok(Throw(x, "fatal"))
  BY DEF Throw, Ok, ReaderType
<1>2. ~(x.pos > Len(in)) /\ in[x.pos].k \in kinds /\ y = Advance(x)
  BY <1>1 DEF Take
<1>3. y = [x EXCEPT !.pos = x.pos + 1]
  BY <1>2 DEF Advance
<1>4. QED
  BY <1>2, <1>3 DEF ReaderType

\* A call that does not throw has not thrown before.
LEMMA StepContextThrows ==
    ASSUME NEW x, Ok(StepContext(x))
    PROVE  Ok(x)
  BY DEF StepContext

\* A reader that has thrown takes no header.
LEMMA TakeThrows ==
    ASSUME NEW in, NEW x \in ReaderType, NEW kinds, ~Ok(x)
    PROVE  ~Ok(Take(in, x, kinds))
  BY DEF Take, Throw, Advance, Ok

\* What _verify_eof, the header and _step_context take together
LEMMA TakeStepIs ==
    ASSUME NEW V, NEW in \in Seq(ElementType(V)), NEW x \in ReaderType, NEW kinds,
           NEW y, y = StepContext(Take(in, x, kinds)), Ok(y)
    PROVE  Ok(x) /\ Took(in, x, y) /\ in[x.pos].k \in kinds
<1> DEFINE h == Take(in, x, kinds)
<1>1. Ok(h) /\ Ok(x)
  BY StepContextThrows, TakeThrows
<1>2. /\ ~(x.pos > Len(in)) /\ in[x.pos].k \in kinds
      /\ h = [x EXCEPT !.pos = x.pos + 1] /\ h \in ReaderType
  BY <1>1, TakeIs
<1> HIDE DEF h
<1>3. Stepped(h.scopes, y.scopes) /\ y = [h EXCEPT !.scopes = y.scopes]
  BY <1>1, <1>2, StepContextIs DEF h
<1>4. h.scopes = x.scopes
  BY <1>2 DEF ReaderType
<1>5. y = [x EXCEPT !.pos = x.pos + 1, !.scopes = y.scopes]
  BY <1>2, <1>3 DEF ReaderType
<1>6. Len(in) \in Nat /\ x.pos \in Nat
  BY LenProperties DEF ReaderType
<1>7. QED
  BY <1>1, <1>2, <1>3, <1>4, <1>5, <1>6 DEF Took

\* The containers are all scopes when no binary is open.
LEMMA ContainersAll ==
    ASSUME NEW x \in ReaderType, Takes(x.scopes)
    PROVE  Containers(x) = x.scopes
  BY DEF Takes, Containers, InScope, Top, Last

\* A reader that has taken an element is one position further, with scopes of the same types.
LEMMA TookIs ==
    ASSUME NEW V, NEW in \in Seq(ElementType(V)), NEW x \in ReaderType, NEW y, Took(in, x, y)
    PROVE  /\ y \in ReaderType /\ y.pos = x.pos + 1 /\ y.gen = x.gen /\ y.goal = x.goal
           /\ y.err = x.err /\ y.torn = x.torn /\ y.scopes \in Seq(ScopeType)
           /\ Len(y.scopes) = Len(x.scopes)
<1>1. y.scopes \in Seq(ScopeType) /\ Len(y.scopes) = Len(x.scopes)
  BY DEF Took, Stepped, SameTypes
<1> DEFINE t == y.scopes
           p == x.pos + 1
<1>2. y = [x EXCEPT !.pos = p, !.scopes = t]
  BY DEF Took
<1>3. t \in Seq(ScopeType) /\ p \in Nat \ {0}
  BY <1>1 DEF ReaderType
<1>4. y.pos = p
  BY <1>2 DEF ReaderType
<1>5. y.gen = x.gen /\ y.goal = x.goal /\ y.err = x.err /\ y.torn = x.torn
  BY <1>2 DEF ReaderType
<1> HIDE DEF t, p
<1>6. y \in ReaderType
  BY <1>2, <1>3 DEF ReaderType
<1>7. QED
  BY <1>1, <1>4, <1>5, <1>6 DEF p

\* What is left in the scopes after an element without elements is what the stream says.
\* Of a container its own elements are still to be entered.
LEMMA TookCounts ==
    ASSUME NEW V, NEW in \in Seq(ElementType(V)), NEW x \in ReaderType, InStep(in, x),
           NEW y, Took(in, x, y), NEW L, L = After(Lefts(x.scopes), in[x.pos].k, in[x.pos].n)
    PROVE  /\ L = CASE in[x.pos].k = "arr" -> Append(Lefts(y.scopes), in[x.pos].n)
                    [] in[x.pos].k = "map" -> Append(Lefts(y.scopes), 2 * in[x.pos].n)
                    [] OTHER -> Lefts(y.scopes)
           /\ Open(L) = Remaining(SubSeq(in, 1, y.pos - 1))
           /\ \A i \in 1 .. Len(y.scopes) : y.scopes[i].type # "binary"
<1> DEFINE s == x.scopes
           K == Lefts(s)
           k == x.pos - 1
<1>1. s \in Seq(ScopeType) /\ Takes(s) /\ x.pos \in Nat /\ x.pos # 0 /\ k \in Nat /\ k + 1 = x.pos
  BY DEF ReaderType, Took, Stepped
<1>2. Containers(x) = s
  BY <1>1, ContainersAll
<1>3. K \in Seq(Nat) /\ Len(K) = Len(s) /\ \A i \in 1 .. Len(s) : K[i] = s[i].left
  BY <1>1, ScopesAre
<1>4. Full(K)
  <2>1. K # <<>> => s # <<>>
    BY <1>3, EmptySeq, <1>1
  <2>2. s # <<>> => Len(s) \in 1 .. Len(s) /\ s[Len(s)].left # 0
    BY <1>1, ScopesAre DEF Takes
  <2>3. QED
    BY <1>3, <2>1, <2>2 DEF Full
<1>5. Open(K) = Remaining(SubSeq(in, 1, k))
  BY <1>2 DEF InStep
<1>6. k + 1 <= Len(in) /\ in[k + 1] \in ElementType(V)
  <2>1. x.pos <= Len(in) /\ Len(in) \in Nat
    BY LenProperties DEF Took
  <2>2. x.pos \in 1 .. Len(in)
    BY <1>1, <2>1
  <2>3. QED
    BY <1>1, <2>1, <2>2, ElementOfSeq
<1>7. in[k + 1].n \in Nat
  BY <1>6 DEF ElementType
<1> HIDE DEF K
<1>8. Open(After(K, in[k + 1].k, in[k + 1].n)) = Remaining(SubSeq(in, 1, k + 1))
  BY <1>1, <1>3, <1>4, <1>5, <1>6, <1>7, RemainingStep
<1>9. y.pos - 1 = k + 1
  <2>1. y.pos = x.pos + 1
    BY TookIs
  <2>2. QED
    BY <1>1, <2>1
<1>10. L = After(K, in[k + 1].k, in[k + 1].n)
  BY <1>1 DEF K
<1>11. Lefts(y.scopes) = Taken(K)
  BY DEF Took, Stepped, K
<1>12. \A i \in 1 .. Len(y.scopes) : y.scopes[i].type # "binary"
  <2>1. DOMAIN s = 1 .. Len(s) /\ \A i \in DOMAIN s : s[i].type # "binary"
    BY <1>1, <1>2, ScopesAre DEF InStep
  <2>2. SameTypes(s, y.scopes)
    BY DEF Took, Stepped
  <2>3. QED
    BY <2>1, <2>2 DEF SameTypes
<1>13. QED
  BY <1>1, <1>8, <1>9, <1>10, <1>11, <1>12 DEF After

\* Where no scope is a binary, every scope is a container of elements.
LEMMA NoBinaryOnTop ==
    ASSUME NEW x, x.scopes \in Seq(ScopeType),
           \A i \in 1 .. Len(x.scopes) : x.scopes[i].type # "binary"
    PROVE  Containers(x) = x.scopes /\ ~InScope(x, "binary")
<1>1. x.scopes # <<>> => Len(x.scopes) \in 1 .. Len(x.scopes)
  BY ScopesAre
<1>2. QED
  BY <1>1 DEF Containers, InScope, Top, Last

\* An element without elements has been read or skipped.
LEMMA FlatTaken ==
    ASSUME NEW V, NEW in \in Seq(ElementType(V)), NEW x, ReaderInv(in, x), Ok(x),
           NEW y, Took(in, x, y), in[x.pos].k \in Flat
    PROVE  ReaderInv(in, y) /\ Ok(y)
<1>1. x \in ReaderType /\ InStep(in, x) /\ Leaving(x)
  BY DEF ReaderInv, Placed
<1>2. /\ y \in ReaderType /\ y.pos = x.pos + 1 /\ y.goal = x.goal /\ y.err = x.err /\ y.torn = x.torn
      /\ y.scopes \in Seq(ScopeType) /\ Len(y.scopes) = Len(x.scopes)
  BY <1>1, TookIs
<1>3. in[x.pos].k # "arr" /\ in[x.pos].k # "map"
  BY DEF Flat
<1>4. /\ Open(Lefts(y.scopes)) = Remaining(SubSeq(in, 1, y.pos - 1))
      /\ \A i \in 1 .. Len(y.scopes) : y.scopes[i].type # "binary"
  BY <1>1, <1>3, TookCounts
<1>5. InStep(in, y)
  <2>1. Containers(y) = y.scopes /\ DOMAIN y.scopes = 1 .. Len(y.scopes)
    BY <1>2, <1>4, NoBinaryOnTop, ScopesAre
  <2>2. ~y.torn
    BY <1>1, <1>2 DEF InStep
  <2>3. QED
    BY <1>4, <2>1, <2>2 DEF InStep
<1>6. y.pos <= Len(in) + 1
  <2>1. x.pos \in Nat /\ x.pos <= Len(in) /\ Len(in) \in Nat
    BY <1>1, LenProperties DEF Took, ReaderType
  <2>2. QED
    BY <1>2, <2>1
<1>7. QED
  BY <1>1, <1>2, <1>5, <1>6 DEF ReaderInv, Placed, Leaving, Ok

\* An element of kind k opens a scope of this type.
Enters(k, type) == \/ k = "arr" /\ type = "array"
                   \/ k = "map" /\ type = "object"
                   \/ k = "bin" /\ type = "binary"

\* The vector of the scopes grows, and nothing else changes but what points into it.
LEMMA GrownIs ==
    ASSUME NEW x \in ReaderType
    PROVE  /\ Grown(x) \in ReaderType
           /\ Grown(x).pos = x.pos /\ Grown(x).scopes = x.scopes /\ Grown(x).gen = x.gen
           /\ Grown(x).goal = x.goal /\ Grown(x).err = x.err /\ Grown(x).torn = x.torn
<1>1. CASE Len(x.scopes) < x.room
  BY <1>1 DEF Grown
<1>2. CASE ~(Len(x.scopes) < x.room)
  <2> DEFINE m == IF x.room = 0 THEN 1 ELSE 2 * x.room
             d == IF x.goal = NoGoal THEN x.stale ELSE x.room
  <2>1. Grown(x) = [x EXCEPT !.room = m, !.stale = d]
    BY <1>2 DEF Grown
  <2>2. m \in Nat /\ d \in Nat
    BY DEF ReaderType
  <2> HIDE DEF m, d
  <2>3. QED
    BY <2>1, <2>2 DEF ReaderType
<1>3. QED
  BY <1>1, <1>2

\* The scope that _new_scope pushes for the header just read is the container the stream opens.
LEMMA ScopeEntered ==
    ASSUME NEW V, NEW in \in Seq(ElementType(V)), NEW x, ReaderInv(in, x), Ok(x),
           NEW y, Took(in, x, y), NEW type, Enters(in[x.pos].k, type),
           NEW z, z = NewScope(y, type, in[x.pos].n)
    PROVE  /\ z \in ReaderType /\ z.pos = y.pos /\ z.goal = x.goal /\ Len(z.scopes) = Len(x.scopes) + 1
           /\ ReaderInv(in, z) /\ Ok(z)
<1> DEFINE s == y.scopes
           n == in[x.pos].n
           m == IF type = "object" THEN 2 * n ELSE n
           e == [type |-> type, key |-> FALSE, id |-> y.gen + 1, left |-> m]
<1>1. x \in ReaderType /\ InStep(in, x) /\ Leaving(x)
  BY DEF ReaderInv, Placed
<1>2. /\ y \in ReaderType /\ y.pos = x.pos + 1 /\ y.gen = x.gen /\ y.goal = x.goal
      /\ y.err = x.err /\ y.torn = x.torn
      /\ y.scopes \in Seq(ScopeType) /\ Len(y.scopes) = Len(x.scopes)
  BY <1>1, TookIs
<1>3. Ok(y)
  BY <1>2 DEF Ok
<1> DEFINE h == Grown(y)
<1>4. /\ h \in ReaderType /\ h.pos = y.pos /\ h.scopes = s /\ h.gen = y.gen /\ h.goal = y.goal
      /\ h.err = y.err /\ h.torn = y.torn
  BY <1>2, GrownIs
<1>5. z = [h EXCEPT !.gen = y.gen + 1, !.scopes = Append(s, e)]
  BY <1>3, <1>4 DEF NewScope
<1> HIDE DEF h
<1>6. x.pos \in 1 .. Len(in) /\ Len(in) \in Nat /\ n \in Nat
  <2>1. x.pos \in Nat /\ x.pos # 0 /\ x.pos <= Len(in) /\ Len(in) \in Nat
    BY <1>1, LenProperties DEF Took, ReaderType
  <2>2. x.pos \in 1 .. Len(in)
    BY <2>1
  <2>3. in[x.pos] \in ElementType(V)
    BY <2>2, ElementOfSeq
  <2>4. QED
    BY <2>1, <2>2, <2>3 DEF ElementType
<1> HIDE DEF n
<1>7. e \in ScopeType /\ e.type = type /\ e.left = m
  <2>1. m \in Nat /\ y.gen + 1 \in Nat
    BY <1>2, <1>6 DEF ReaderType
  <2>2. type \in {"array", "object", "binary"}
    BY DEF Enters
  <2> HIDE DEF m
  <2>3. QED
    BY <2>1, <2>2 DEF ScopeType
<1> HIDE DEF e, m
<1>8. /\ Append(s, e) \in Seq(ScopeType) /\ Len(Append(s, e)) = Len(s) + 1
      /\ Append(s, e)[Len(s) + 1] = e /\ \A i \in 1 .. Len(s) : Append(s, e)[i] = s[i]
  BY <1>2, <1>7, ScopesAre
<1>9. /\ z.scopes = Append(s, e) /\ z.pos = y.pos /\ z.goal = y.goal /\ z.err = y.err /\ z.torn = y.torn
      /\ z \in ReaderType
  <2> DEFINE t == Append(s, e)
             g == y.gen + 1
  <2>1. t \in Seq(ScopeType) /\ g \in Nat
    BY <1>2, <1>8 DEF ReaderType
  <2>2. z = [h EXCEPT !.gen = g, !.scopes = t]
    BY <1>5
  <2> HIDE DEF t, g
  <2>3. z.scopes = t /\ z.pos = y.pos /\ z.goal = y.goal /\ z.err = y.err /\ z.torn = y.torn
    BY <1>4, <2>2 DEF ReaderType
  <2>4. z \in ReaderType
    BY <1>4, <2>1, <2>2 DEF ReaderType
  <2>5. QED
    BY <2>3, <2>4 DEF t
<1>10. /\ \A i \in 1 .. Len(s) : s[i].type # "binary"
       /\ Open(After(Lefts(x.scopes), in[x.pos].k, n)) = Remaining(SubSeq(in, 1, y.pos - 1))
       /\ in[x.pos].k = "arr" => After(Lefts(x.scopes), in[x.pos].k, n) = Append(Lefts(s), n)
       /\ in[x.pos].k = "map" => After(Lefts(x.scopes), in[x.pos].k, n) = Append(Lefts(s), 2 * n)
       /\ in[x.pos].k = "bin" => After(Lefts(x.scopes), in[x.pos].k, n) = Lefts(s)
  BY <1>1, TookCounts DEF n
<1>11. Lefts(Append(s, e)) = Append(Lefts(s), m)
  <2> DEFINE t == Append(s, e)
             L == Lefts(s)
             K == Lefts(t)
  <2>1. L \in Seq(Nat) /\ Len(L) = Len(s) /\ Len(s) \in Nat /\ \A i \in 1 .. Len(s) : L[i] = s[i].left
    BY <1>2, ScopesAre
  <2>2. K \in Seq(Nat) /\ Len(K) = Len(s) + 1 /\ \A i \in 1 .. Len(s) + 1 : K[i] = t[i].left
    BY <1>8, ScopesAre
  <2> HIDE DEF L, K, t
  <2>3. m \in Nat
    BY <1>7 DEF ScopeType
  <2>4. /\ Append(L, m) \in Seq(Nat) /\ Len(Append(L, m)) = Len(s) + 1
        /\ Append(L, m)[Len(s) + 1] = m /\ \A i \in 1 .. Len(s) : Append(L, m)[i] = L[i]
    BY <2>1, <2>3
  <2>5. ASSUME NEW i \in 1 .. Len(s) + 1 PROVE K[i] = Append(L, m)[i]
    <3>1. CASE i = Len(s) + 1
      BY <1>7, <1>8, <2>2, <2>4, <3>1 DEF t
    <3>2. CASE i # Len(s) + 1
      <4>1. i \in 1 .. Len(s)
        BY <2>1, <3>2
      <4>2. K[i] = s[i].left
        BY <1>8, <2>2, <4>1 DEF t
      <4>3. QED
        BY <2>1, <2>4, <4>1, <4>2
    <3>3. QED
      BY <3>1, <3>2
  <2>6. K = Append(L, m)
    BY <2>2, <2>4, <2>5, SeqEqual
  <2>7. QED
    BY <2>6 DEF K, L, t
<1>12. InStep(in, z)
  <2>1. ~z.torn
    <3>1. ~x.torn
      BY <1>1 DEF InStep
    <3>2. QED
      BY <1>2, <1>9, <3>1
  <2>2. z.scopes \in Seq(ScopeType) /\ z.scopes # <<>> /\ Top(z) = e /\ DOMAIN z.scopes = 1 .. Len(s) + 1
    <3>1. Len(s) \in Nat
      BY <1>2, ScopesAre
    <3>2. Append(s, e) # <<>>
      <4>1. Len(Append(s, e)) # 0
        BY <1>8, <3>1
      <4>2. Len(<<>>) = 0
        BY EmptySeq
      <4>3. QED
        BY <4>1, <4>2, Zenon
    <3>3. Top(z) = e
      BY <1>8, <1>9 DEF Top, Last
    <3>4. QED
      BY <1>8, <1>9, <3>2, <3>3, ScopesAre
  <2>3. CASE type = "binary"
    <3>1. Containers(z) = Front(z.scopes)
      BY <1>7, <2>2, <2>3 DEF Containers, InScope
    <3>2. Front(z.scopes) = s
      <4> DEFINE t == Append(s, e)
      <4>1. Len(s) \in Nat /\ \A i \in 1 .. Len(s) : s[i] \in ScopeType
        BY <1>2, ScopesAre
      <4>2. \A i \in 1 .. Len(s) : t[i] \in ScopeType
        BY <1>8, <4>1
      <4>3. /\ SubSeq(t, 1, Len(s)) \in Seq(ScopeType)
            /\ Len(SubSeq(t, 1, Len(s))) = IF 1 <= Len(s) THEN Len(s) - 1 + 1 ELSE 0
            /\ \A i \in 1 .. Len(s) - 1 + 1 : SubSeq(t, 1, Len(s))[i] = t[1 + i - 1]
        BY <4>1, <4>2, SubSeqProperties
      <4>4. Len(SubSeq(t, 1, Len(s))) = Len(s)
        BY <4>1, <4>3
      <4>5. ASSUME NEW i \in 1 .. Len(s) PROVE SubSeq(t, 1, Len(s))[i] = s[i]
        <5>1. i \in 1 .. Len(s) - 1 + 1 /\ 1 + i - 1 = i
          BY <4>1
        <5>2. QED
          BY <1>8, <4>3, <5>1
      <4>6. SubSeq(t, 1, Len(s)) = s
        BY <1>2, <4>3, <4>4, <4>5, SeqEqual
      <4>7. Len(t) - 1 = Len(s)
        BY <1>8, <4>1
      <4>8. QED
        BY <1>9, <4>6, <4>7 DEF Front
    <3>3. in[x.pos].k = "bin"
      BY <2>3 DEF Enters
    <3>4. DOMAIN s = 1 .. Len(s) /\ \A i \in 1 .. Len(s) : z.scopes[i] = s[i]
      BY <1>2, <1>8, <1>9, ScopesAre
    <3>5. QED
      BY <1>9, <1>10, <2>1, <3>1, <3>2, <3>3, <3>4 DEF InStep
  <2>4. CASE type # "binary"
    <3>1. Containers(z) = z.scopes
      BY <1>7, <2>2, <2>4 DEF Containers, InScope
    <3>2. \A i \in 1 .. Len(s) + 1 : z.scopes[i].type # "binary"
      <4>1. SUFFICES ASSUME NEW i \in 1 .. Len(s) + 1 PROVE z.scopes[i].type # "binary"
        OBVIOUS
      <4>2. CASE i = Len(s) + 1
        BY <1>7, <1>8, <1>9, <2>4, <4>2
      <4>3. CASE i # Len(s) + 1
        <5>1. i \in 1 .. Len(s)
          BY <1>2, <4>3, ScopesAre
        <5>2. QED
          BY <1>8, <1>9, <1>10, <5>1
      <4>4. QED
        BY <4>2, <4>3
    <3>3. After(Lefts(x.scopes), in[x.pos].k, n) = Append(Lefts(s), m)
      BY <1>10, <2>4 DEF Enters, m
    <3>4. QED
      BY <1>9, <1>10, <1>11, <2>1, <2>2, <3>1, <3>2, <3>3 DEF InStep
  <2>5. QED
    BY <2>3, <2>4
<1>13. z.pos <= Len(in) + 1
  BY <1>2, <1>6, <1>9
<1>14. Len(z.scopes) = Len(x.scopes) + 1 /\ Len(x.scopes) \in Nat
  BY <1>1, <1>2, <1>8, <1>9, ScopesAre DEF ReaderType
<1>15. Leaving(z)
  <2>1. x.goal = NoGoal \/ x.goal \in 0 .. Len(x.scopes) - 1
    BY <1>1 DEF Leaving
  <2>2. x.goal \in 0 .. Len(x.scopes) - 1 => x.goal \in 0 .. Len(z.scopes) - 1
    BY <1>14
  <2>3. QED
    BY <1>2, <1>9, <2>1, <2>2 DEF Leaving
<1>16. QED
  BY <1>2, <1>3, <1>9, <1>12, <1>13, <1>14, <1>15 DEF ReaderInv, Placed, Ok

\* An exception is thrown, and nothing is asked of the reader afterwards.
LEMMA Throws ==
    ASSUME NEW x, Ok(x) => x \in ReaderType, NEW e \in {"recoverable", "fatal"}
    PROVE  ~Ok(Throw(x, e))
  BY DEF Throw, Ok, ReaderType

\* A call that threw has thrown, whether or not it tore the stream.
LEMMA TornThrows ==
    ASSUME NEW x, NEW y, ~Ok(y)
    PROVE  ~Ok(TornBy(x, y))
<1>1. TornBy(x, y) = IF Ok(x) THEN [y EXCEPT !.torn = TRUE] ELSE y
  BY DEF TornBy
<1>2. [y EXCEPT !.torn = TRUE].err = y.err
  OBVIOUS
<1>3. QED
  BY <1>1, <1>2 DEF Ok

\* _read_number keeps the reader in step, or throws.
LEMMA ReadNumberKeeps ==
    ASSUME NEW V, NEW in \in Seq(ElementType(V)), NEW x, ReaderInv(in, x), Ok(x)
    PROVE  ReaderInv(in, ReadNumber(in, x))
<1> DEFINE y == StepContext(Take(in, x, {"num"}))
<1>1. ReadNumber(in, x) = y
  BY DEF ReadNumber
<1>2. ASSUME Ok(y) PROVE ReaderInv(in, y)
  <2>1. x \in ReaderType
    BY DEF ReaderInv
  <2>2. Took(in, x, y) /\ in[x.pos].k \in {"num"}
    BY <1>2, <2>1, TakeStepIs
  <2>3. in[x.pos].k \in Flat
    BY <2>2 DEF Flat
  <2>4. QED
    BY <2>2, <2>3, FlatTaken
<1>3. QED
  BY <1>1, <1>2 DEF ReaderInv

\* read(string) keeps the reader in step, or throws.
LEMMA ReadStringKeeps ==
    ASSUME NEW V, NEW in \in Seq(ElementType(V)), NEW x, ReaderInv(in, x), Ok(x)
    PROVE  ReaderInv(in, ReadString(in, x))
<1> DEFINE h == Take(in, x, {"str"})
           y == StepContext(h)
<1>1. ReadString(in, x) = TornBy(h, y)
  BY DEF ReadString
<1>2. CASE Ok(y)
  <2>1. x \in ReaderType
    BY DEF ReaderInv
  <2>2. Took(in, x, y) /\ in[x.pos].k \in {"str"}
    BY <1>2, <2>1, TakeStepIs
  <2>3. in[x.pos].k \in Flat
    BY <2>2 DEF Flat
  <2>4. TornBy(h, y) = y
    BY <1>2 DEF TornBy
  <2>5. QED
    BY <1>1, <2>2, <2>3, <2>4, FlatTaken
<1>3. CASE ~Ok(y)
  <2>1. ~Ok(TornBy(h, y))
    BY <1>3, TornThrows
  <2>2. QED
    BY <1>1, <2>1 DEF ReaderInv
<1>4. QED
  BY <1>2, <1>3

\* _verify_not_key_type throws or does nothing.
LEMMA VerifyNotKeyIs ==
    ASSUME NEW x, Ok(x) => x \in ReaderType
    PROVE  VerifyNotKey(x) = x \/ ~Ok(VerifyNotKey(x))
  BY Throws DEF VerifyNotKey

\* begin_array, begin_object and begin_binary after their type checks: the header, _step_context
\* and the new scope.
LEMMA OpenedIs ==
    ASSUME NEW V, NEW in \in Seq(ElementType(V)), NEW x, ReaderInv(in, x),
           NEW kind, NEW type, Enters(kind, type),
           NEW z, z = Opened(in, x, kind, type), Ok(z)
    PROVE  /\ ReaderInv(in, z) /\ Ok(x) /\ x \in ReaderType /\ ~(x.pos > Len(in)) /\ in[x.pos].k = kind
           /\ z \in ReaderType /\ z.goal = x.goal /\ Len(z.scopes) = Len(x.scopes) + 1
<1> DEFINE h == Take(in, x, {kind})
           y == StepContext(h)
<1>1. z = IF Ok(y) THEN NewScope(y, type, in[x.pos].n)
          ELSE IF kind = "bin" THEN TornBy(h, y) ELSE y
  BY DEF Opened
<1>2. Ok(y)
  BY <1>1, TornThrows
<1>3. Ok(x)
  <2>1. Ok(h)
    BY <1>2, StepContextThrows
  <2>2. ~Ok(x) => ~Ok(h)
    BY DEF Take, Throw, Advance, Ok
  <2>3. QED
    BY <2>1, <2>2
<1>4. x \in ReaderType
  BY <1>3 DEF ReaderInv
<1>5. Took(in, x, y) /\ in[x.pos].k \in {kind}
  BY <1>2, <1>4, TakeStepIs
<1>6. Enters(in[x.pos].k, type)
  BY <1>5
<1> HIDE DEF y, h
<1>7. z = NewScope(y, type, in[x.pos].n)
  BY <1>1, <1>2
<1>8. ReaderInv(in, z) /\ z \in ReaderType /\ z.goal = x.goal /\ Len(z.scopes) = Len(x.scopes) + 1
  BY <1>3, <1>5, <1>6, <1>7, ScopeEntered
<1>9. ~(x.pos > Len(in))
  <2>1. x.pos \in Nat /\ Len(in) \in Nat /\ x.pos <= Len(in)
    BY <1>4, <1>5, LenProperties DEF Took, ReaderType
  <2>2. QED
    BY <2>1
<1>10. QED
  BY <1>3, <1>4, <1>5, <1>8, <1>9

\* begin_array and begin_object with _verify_not_key_type
LEMMA BeginIs ==
    ASSUME NEW V, NEW in \in Seq(ElementType(V)), NEW x, ReaderInv(in, x), Ok(x),
           NEW kind, NEW type, Enters(kind, type),
           NEW z, z = Opened(in, VerifyNotKey(x), kind, type), Ok(z)
    PROVE  /\ ReaderInv(in, z) /\ x \in ReaderType /\ ~(x.pos > Len(in)) /\ in[x.pos].k = kind
           /\ z \in ReaderType /\ z.goal = x.goal /\ Len(z.scopes) = Len(x.scopes) + 1
<1> DEFINE v == VerifyNotKey(x)
<1>1. v = x \/ ~Ok(v)
  BY VerifyNotKeyIs DEF ReaderInv
<1>2. ReaderInv(in, v)
  BY <1>1 DEF ReaderInv
<1> HIDE DEF v
<1>3. z = Opened(in, v, kind, type)
  BY DEF v
<1>4. Ok(v)
  BY <1>2, <1>3, OpenedIs
<1>5. QED
  BY <1>1, <1>3, <1>4, OpenedIs

\* begin_array keeps the reader in step, or throws.
LEMMA BeginArrayKeeps ==
    ASSUME NEW V, NEW in \in Seq(ElementType(V)), NEW x, ReaderInv(in, x), Ok(x)
    PROVE  ReaderInv(in, BeginArray(in, x))
<1>1. Enters("arr", "array") /\ BeginArray(in, x) = Opened(in, VerifyNotKey(x), "arr", "array")
  BY DEF Enters, BeginArray
<1>2. QED
  BY <1>1, BeginIs DEF ReaderInv

\* begin_object keeps the reader in step, or throws.
LEMMA BeginObjectKeeps ==
    ASSUME NEW V, NEW in \in Seq(ElementType(V)), NEW x, ReaderInv(in, x), Ok(x)
    PROVE  ReaderInv(in, BeginObject(in, x))
<1>1. Enters("map", "object") /\ BeginObject(in, x) = Opened(in, VerifyNotKey(x), "map", "object")
  BY DEF Enters, BeginObject
<1>2. QED
  BY <1>1, BeginIs DEF ReaderInv

\* begin_binary keeps the reader in step, or throws.
LEMMA BeginBinaryKeeps ==
    ASSUME NEW V, NEW in \in Seq(ElementType(V)), NEW x, ReaderInv(in, x), Ok(x)
    PROVE  ReaderInv(in, BeginBinary(in, x))
<1>1. Enters("bin", "binary") /\ BeginBinary(in, x) = Opened(in, x, "bin", "binary")
  BY DEF Enters, BeginBinary
<1>2. QED
  BY <1>1, OpenedIs DEF ReaderInv

-----------------------------------------------------------------------------
(* Skipping, and leaving scopes                                             *)

\* _skip_once keeps the reader in step, or throws.
LEMMA SkipOnceIs ==
    ASSUME NEW V, NEW in \in Seq(ElementType(V)), NEW x, ReaderInv(in, x), Ok(x), ~InScope(x, "binary"),
           NEW z, z = SkipOnce(in, x), Ok(z)
    PROVE  /\ ReaderInv(in, z) /\ ~(x.pos > Len(in))
           /\ in[x.pos].k \notin Flat =>
                z \in ReaderType /\ z.goal = x.goal /\ Len(z.scopes) = Len(x.scopes) + 1
<1> DEFINE k == in[x.pos].k
<1>1. x \in ReaderType /\ x.pos \in Nat /\ x.pos # 0 /\ Len(in) \in Nat
  BY LenProperties DEF ReaderInv, ReaderType
<1>2. ~(x.pos > Len(in))
  BY Throws DEF SkipOnce, ReaderInv
<1>3. x.pos <= Len(in) /\ k \in Kinds
  <2>1. x.pos \in 1 .. Len(in)
    BY <1>1, <1>2
  <2>2. in[x.pos] \in ElementType(V)
    BY <2>1, ElementOfSeq
  <2>3. k \in Kinds
    BY <2>2 DEF ElementType
  <2>4. QED
    BY <1>1, <1>2, <2>3
<1>4. z = CASE k = "num" -> StepOnSkip(Advance(x))
            [] k = "nil" -> Advance(StepOnSkip(x))
            [] k \in {"str", "bin", "ext"} -> TornBy(x, StepOnSkip(Advance(x)))
            [] k = "arr" -> BeginArray(in, x)
            [] k = "map" -> BeginObject(in, x)
  BY <1>2 DEF SkipOnce
<1> HIDE DEF k
<1>5. CASE k \in {"num", "str", "bin", "ext"}
  <2> DEFINE h == Advance(x)
             y == StepOnSkip(h)
  <2>1. h = [x EXCEPT !.pos = x.pos + 1]
    BY DEF Advance
  <2>2. h \in ReaderType /\ h.scopes = x.scopes /\ Ok(h) /\ ~InScope(h, "binary")
    <3>1. h \in ReaderType
      BY <1>1, <2>1 DEF ReaderType
    <3>2. h.scopes = x.scopes /\ h.err = x.err
      BY <1>1, <2>1 DEF ReaderType
    <3>3. QED
      BY <3>1, <3>2 DEF Ok, InScope, Top
  <2> HIDE DEF h
  <2>3. z = y \/ z = TornBy(x, y)
    BY <1>4, <1>5 DEF h
  <2>4. Ok(y)
    BY <2>3, TornThrows
  <2>5. z = y
    BY <2>3, <2>4 DEF TornBy
  <2>6. Stepped(h.scopes, z.scopes) /\ z = [h EXCEPT !.scopes = z.scopes]
    BY <2>2, <2>4, <2>5, StepOnSkipIs
  <2>7. z = [x EXCEPT !.pos = x.pos + 1, !.scopes = z.scopes]
    BY <2>1, <2>6
  <2>8. Took(in, x, z)
    BY <1>3, <2>2, <2>6, <2>7 DEF Took
  <2>9. k \in Flat
    BY <1>5 DEF Flat
  <2>10. QED
    BY <1>2, <2>8, <2>9, FlatTaken DEF k
<1>6. CASE k = "nil"
  <2> DEFINE y == StepOnSkip(x)
  <2>1. z = Advance(y)
    BY <1>4, <1>6
  <2>2. Ok(y)
    BY <2>1 DEF Advance
  <2>3. Stepped(x.scopes, y.scopes) /\ y = [x EXCEPT !.scopes = y.scopes]
    BY <1>1, <2>2, StepOnSkipIs
  <2> HIDE DEF y
  <2>4. z = [y EXCEPT !.pos = y.pos + 1]
    BY <2>1, <2>2 DEF Advance
  <2>5. y.pos = x.pos
    BY <1>1, <2>3 DEF ReaderType
  <2>6. z.scopes = y.scopes
    BY <2>4
  <2>7. z = [x EXCEPT !.pos = x.pos + 1, !.scopes = z.scopes]
    BY <1>1, <2>3, <2>4, <2>5, <2>6 DEF ReaderType
  <2>8. Took(in, x, z)
    BY <1>3, <2>3, <2>6, <2>7 DEF Took
  <2>9. k \in Flat
    BY <1>6 DEF Flat
  <2>10. QED
    BY <1>2, <2>8, <2>9, FlatTaken DEF k
<1>7. CASE k = "arr"
  <2>1. Enters("arr", "array") /\ z = Opened(in, VerifyNotKey(x), "arr", "array")
    BY <1>4, <1>7 DEF Enters, BeginArray
  <2>2. QED
    BY <1>2, <2>1, BeginIs
<1>8. CASE k = "map"
  <2>1. Enters("map", "object") /\ z = Opened(in, VerifyNotKey(x), "map", "object")
    BY <1>4, <1>8 DEF Enters, BeginObject
  <2>2. QED
    BY <1>2, <2>1, BeginIs
<1>9. QED
  BY <1>3, <1>5, <1>6, <1>7, <1>8 DEF Kinds, Flat

\* Only the loop that is to leave the scopes begun changes.
LEMMA GoalKeeps ==
    ASSUME NEW in, NEW x \in ReaderType, ReaderInv(in, x), Ok(x),
           NEW g \in Int, g = NoGoal \/ g \in 0 .. Len(x.scopes) - 1
    PROVE  ReaderInv(in, [x EXCEPT !.goal = g])
<1> DEFINE y == [x EXCEPT !.goal = g]
<1>1. /\ y \in ReaderType /\ y.goal = g /\ y.scopes = x.scopes /\ y.pos = x.pos
      /\ y.err = x.err /\ y.torn = x.torn
  BY DEF ReaderType
<1> HIDE DEF y
<1>2. Containers(y) = Containers(x)
  BY <1>1 DEF Containers, InScope, Top
<1>3. Placed(in, y)
  BY <1>1, <1>2 DEF ReaderInv, Placed, InStep
<1>4. QED
  BY <1>1, <1>3 DEF ReaderInv, Leaving, y

\* read(nullptr) keeps the reader in step, or throws.
LEMMA SkipKeeps ==
    ASSUME NEW V, NEW in \in Seq(ElementType(V)), NEW x, ReaderInv(in, x), Ok(x), ~InScope(x, "binary")
    PROVE  ReaderInv(in, Skip(in, x))
<1> DEFINE z == SkipOnce(in, x)
<1>1. Skip(in, x) = IF Ok(z) /\ in[x.pos].k \notin Flat THEN [z EXCEPT !.goal = Len(x.scopes)] ELSE z
  BY DEF Skip
<1>2. ReaderInv(in, z)
  BY SkipOnceIs DEF ReaderInv
<1>3. ASSUME Ok(z), in[x.pos].k \notin Flat PROVE ReaderInv(in, [z EXCEPT !.goal = Len(x.scopes)])
  <2>1. z \in ReaderType /\ Len(z.scopes) = Len(x.scopes) + 1
    BY <1>3, SkipOnceIs
  <2>2. Len(x.scopes) \in Nat
    BY ScopesAre DEF ReaderInv, ReaderType
  <2>3. Len(x.scopes) \in 0 .. Len(z.scopes) - 1 /\ Len(x.scopes) \in Int
    BY <2>1, <2>2
  <2> HIDE DEF z
  <2>4. QED
    BY <1>2, <1>3, <2>1, <2>3, GoalKeeps
<1>4. QED
  BY <1>1, <1>2, <1>3

\* The scopes without the last one, and what is left in them.
LEMMA FrontIs ==
    ASSUME NEW s \in Seq(ScopeType), s # <<>>
    PROVE  /\ Front(s) \in Seq(ScopeType) /\ Len(Front(s)) = Len(s) - 1
           /\ \A i \in 1 .. Len(s) - 1 : Front(s)[i] = s[i]
           /\ Lefts(Front(s)) = SubSeq(Lefts(s), 1, Len(s) - 1)
<1> DEFINE n == Len(s)
           F == SubSeq(s, 1, n - 1)
           L == Lefts(s)
           G == SubSeq(L, 1, n - 1)
<1>1. n \in Nat /\ n # 0 /\ \A i \in 1 .. n : s[i] \in ScopeType
  BY ScopesAre
<1>2. L \in Seq(Nat) /\ Len(L) = n /\ \A i \in 1 .. n : L[i] = s[i].left /\ L[i] \in Nat
  BY ScopesAre, ElementOfSeq
<1>3. Front(s) = F
  BY DEF Front
<1>4. n - 1 \in Int /\ (IF 1 <= n - 1 THEN (n - 1) - 1 + 1 ELSE 0) = n - 1
  <2> HIDE DEF n
  <2>1. CASE n = 1
    BY <2>1
  <2>2. CASE n # 1
    BY <1>1, <2>2
  <2>3. QED
    BY <2>1, <2>2
<1>5. F \in Seq(ScopeType) /\ Len(F) = n - 1 /\ \A i \in 1 .. n - 1 : F[i] = s[i]
  <2>1. \A i \in 1 .. n - 1 : s[i] \in ScopeType
    BY <1>1
  <2>2. /\ F \in Seq(ScopeType) /\ Len(F) = IF 1 <= n - 1 THEN (n - 1) - 1 + 1 ELSE 0
        /\ \A i \in 1 .. (n - 1) - 1 + 1 : F[i] = s[1 + i - 1]
    BY <1>4, <2>1, SubSeqProperties
  <2> HIDE DEF F
  <2>3. ASSUME NEW i \in 1 .. n - 1 PROVE F[i] = s[i]
    <3>1. i \in 1 .. (n - 1) - 1 + 1 /\ 1 + i - 1 = i
      BY <1>1
    <3>2. QED
      BY <2>2, <3>1
  <2>4. QED
    BY <1>4, <2>2, <2>3
<1>6. G \in Seq(Nat) /\ Len(G) = n - 1 /\ \A i \in 1 .. n - 1 : G[i] = L[i]
  <2>1. \A i \in 1 .. n - 1 : L[i] \in Nat
    BY <1>1, <1>2
  <2>2. /\ G \in Seq(Nat) /\ Len(G) = IF 1 <= n - 1 THEN (n - 1) - 1 + 1 ELSE 0
        /\ \A i \in 1 .. (n - 1) - 1 + 1 : G[i] = L[1 + i - 1]
    BY <1>4, <2>1, SubSeqProperties
  <2> HIDE DEF G
  <2>3. ASSUME NEW i \in 1 .. n - 1 PROVE G[i] = L[i]
    <3>1. i \in 1 .. (n - 1) - 1 + 1 /\ 1 + i - 1 = i
      BY <1>1
    <3>2. QED
      BY <2>2, <3>1
  <2>4. QED
    BY <1>4, <2>2, <2>3
<1>7. Lefts(F) \in Seq(Nat) /\ Len(Lefts(F)) = n - 1 /\ \A i \in 1 .. n - 1 : Lefts(F)[i] = F[i].left
  BY <1>5, ScopesAre
<1> HIDE DEF F, G, L
<1>8. ASSUME NEW i \in 1 .. n - 1 PROVE Lefts(F)[i] = G[i]
  <2>1. i \in 1 .. n
    BY <1>1
  <2>2. QED
    BY <1>2, <1>5, <1>6, <1>7, <2>1
<1>9. Lefts(F) = G
  BY <1>6, <1>7, <1>8, SeqEqual
<1>10. QED
  BY <1>3, <1>5, <1>9 DEF G, L

\* A scope is left in which nothing is left, or a binary.
LEMMA ScopeLeft ==
    ASSUME NEW in, NEW x \in ReaderType, ReaderInv(in, x), Ok(x), x.scopes # <<>>,
           Top(x).left = 0 \/ Top(x).type = "binary",
           NEW g \in Int, g = NoGoal \/ g \in 0 .. Len(x.scopes) - 2
    PROVE  ReaderInv(in, [x EXCEPT !.scopes = Front(x.scopes), !.goal = g])
<1> DEFINE s == x.scopes
           t == Front(s)
           y == [x EXCEPT !.scopes = t, !.goal = g]
<1>1. s \in Seq(ScopeType) /\ Len(s) \in Nat /\ Len(s) # 0 /\ Top(x) = s[Len(s)]
  BY ScopesAre DEF ReaderType, Top, Last
<1>2. t \in Seq(ScopeType) /\ Len(t) = Len(s) - 1 /\ \A i \in 1 .. Len(s) - 1 : t[i] = s[i]
  BY <1>1, FrontIs
<1>3. Lefts(t) = SubSeq(Lefts(s), 1, Len(s) - 1)
  BY <1>1, FrontIs
<1> HIDE DEF t
<1>4. /\ y \in ReaderType /\ y.scopes = t /\ y.goal = g /\ y.pos = x.pos /\ y.err = x.err
      /\ y.torn = x.torn
  BY <1>2 DEF ReaderType
<1> HIDE DEF y
<1>5. InStep(in, x)
  BY DEF ReaderInv, Placed
<1>6. \A i \in 1 .. Len(t) : t[i].type # "binary"
  <2>1. Containers(x) \in {s, t}
    BY DEF Containers, t
  <2>2. DOMAIN s = 1 .. Len(s) /\ DOMAIN t = 1 .. Len(t)
    BY <1>1, <1>2, ScopesAre
  <2>3. ASSUME NEW i \in 1 .. Len(t) PROVE i \in DOMAIN Containers(x)
    BY <1>1, <1>2, <2>1, <2>2
  <2>4. QED
    BY <1>1, <1>2, <1>5, <2>3 DEF InStep
<1>7. Containers(y) = t /\ DOMAIN t = 1 .. Len(t)
  BY <1>2, <1>4, <1>6, NoBinaryOnTop, ScopesAre
<1>8. Open(Lefts(t)) = Remaining(SubSeq(in, 1, x.pos - 1))
  <2>1. CASE Top(x).type = "binary"
    <3>1. Containers(x) = t
      BY <2>1 DEF Containers, InScope, t
    <3>2. QED
      BY <1>5, <3>1 DEF InStep
  <2>2. CASE Top(x).type # "binary"
    <3> DEFINE L == Lefts(s)
    <3>1. Containers(x) = s
      BY <2>2 DEF Containers, InScope
    <3>2. L \in Seq(Nat) /\ Len(L) = Len(s) /\ L[Len(s)] = s[Len(s)].left
      <4>1. Len(s) \in 1 .. Len(s)
        BY <1>1
      <4>2. QED
        BY <1>1, <4>1, ScopesAre
    <3>3. Open(L) = Remaining(SubSeq(in, 1, x.pos - 1))
      BY <1>5, <3>1 DEF InStep
    <3> HIDE DEF L
    <3>4. L # <<>> /\ L[Len(L)] = 0
      BY <1>1, <2>2, <3>2
    <3>5. Open(SubSeq(L, 1, Len(L) - 1)) = Open(L)
      BY <3>2, <3>4, OpenPop
    <3>6. Lefts(t) = SubSeq(L, 1, Len(L) - 1)
      BY <1>3, <3>2 DEF L
    <3>7. QED
      BY <3>3, <3>5, <3>6
  <2>3. QED
    BY <2>1, <2>2
<1>9. InStep(in, y)
  <2>1. ~y.torn
    BY <1>4, <1>5 DEF InStep
  <2>2. QED
    BY <1>4, <1>6, <1>7, <1>8, <2>1 DEF InStep
<1>10. Leaving(y)
  BY <1>1, <1>2, <1>4 DEF Leaving
<1>11. y.pos <= Len(in) + 1
  BY <1>4 DEF ReaderInv, Placed
<1>12. QED
  BY <1>4, <1>9, <1>10, <1>11 DEF ReaderInv, Placed, y, t

\* The last scope changes, but neither its type nor, unless it is a binary, what is left in it.
LEMMA TopChanged ==
    ASSUME NEW in, NEW x \in ReaderType, ReaderInv(in, x), Ok(x), x.scopes # <<>>,
           NEW e \in ScopeType, e.type = Top(x).type,
           e.type # "binary" => e.left = Top(x).left
    PROVE  ReaderInv(in, SetTop(x, e))
<1> DEFINE s == x.scopes
           n == Len(s)
           t == [s EXCEPT ![n] = e]
           y == SetTop(x, e)
<1>1. s \in Seq(ScopeType) /\ n \in Nat /\ n # 0 /\ n \in 1 .. n /\ Top(x) = s[n]
  BY ScopesAre DEF ReaderType, Top, Last
<1>2. t \in Seq(ScopeType) /\ Len(t) = n /\ \A i \in 1 .. n : t[i] = IF i = n THEN e ELSE s[i]
  BY <1>1, ExceptSeq
<1>3. y = [x EXCEPT !.scopes = t]
  BY DEF SetTop
<1> HIDE DEF t
<1>4. /\ y \in ReaderType /\ y.scopes = t /\ y.goal = x.goal /\ y.pos = x.pos /\ y.err = x.err
      /\ y.torn = x.torn
  BY <1>2, <1>3 DEF ReaderType
<1> HIDE DEF y
<1>5. InStep(in, x)
  BY DEF ReaderInv, Placed
<1>6. t # <<>> /\ Top(y) = e
  <2>1. t # <<>>
    BY <1>1, <1>2, EmptySeq
  <2>2. QED
    BY <1>1, <1>2, <1>4, <2>1 DEF Top, Last
<1>7. CASE e.type = "binary"
  <2>1. Containers(x) = Front(s) /\ Containers(y) = Front(t)
    BY <1>4, <1>6, <1>7 DEF Containers, InScope
  <2>2. /\ Front(s) \in Seq(ScopeType) /\ Len(Front(s)) = n - 1
        /\ \A i \in 1 .. n - 1 : Front(s)[i] = s[i]
    BY <1>1, FrontIs
  <2>3. /\ Front(t) \in Seq(ScopeType) /\ Len(Front(t)) = n - 1
        /\ \A i \in 1 .. n - 1 : Front(t)[i] = t[i]
    BY <1>2, <1>6, FrontIs
  <2>4. \A i \in 1 .. n - 1 : t[i] = s[i]
    BY <1>1, <1>2
  <2>5. Front(s) = Front(t)
    BY <2>2, <2>3, <2>4, SeqEqual
  <2>6. DOMAIN Front(s) = 1 .. n - 1
    BY <2>2, ScopesAre
  <2>7. InStep(in, y)
    BY <1>4, <1>5, <2>1, <2>4, <2>5, <2>6 DEF InStep
  <2>8. QED
    BY <1>2, <1>4, <2>7 DEF ReaderInv, Placed, Leaving, y
<1>8. CASE e.type # "binary"
  <2>1. Containers(x) = s /\ Containers(y) = t
    BY <1>4, <1>6, <1>8 DEF Containers, InScope
  <2>2. Lefts(s) \in Seq(Nat) /\ Len(Lefts(s)) = n /\ \A i \in 1 .. n : Lefts(s)[i] = s[i].left
    BY <1>1, ScopesAre
  <2>3. Lefts(t) \in Seq(Nat) /\ Len(Lefts(t)) = n /\ \A i \in 1 .. n : Lefts(t)[i] = t[i].left
    BY <1>2, ScopesAre
  <2>4. \A i \in 1 .. n : t[i].left = s[i].left /\ t[i].type = s[i].type
    BY <1>1, <1>2, <1>8
  <2>5. Lefts(s) = Lefts(t)
    BY <2>2, <2>3, <2>4, SeqEqual
  <2>6. DOMAIN s = 1 .. n /\ DOMAIN t = 1 .. n
    BY <1>1, <1>2, ScopesAre
  <2>7. InStep(in, y)
    BY <1>4, <1>5, <2>1, <2>4, <2>5, <2>6 DEF InStep
  <2>8. QED
    BY <1>2, <1>4, <2>7 DEF ReaderInv, Placed, Leaving, y
<1>9. QED
  BY <1>7, <1>8

\* read_key_next keeps the reader in step, or throws.
LEMMA ReadKeyNextKeeps ==
    ASSUME NEW in, NEW x, ReaderInv(in, x), Ok(x)
    PROVE  ReaderInv(in, ReadKeyNext(x))
<1> DEFINE y == ReadKeyNext(x)
           e == [Top(x) EXCEPT !.key = TRUE]
<1>1. x \in ReaderType
  BY DEF ReaderInv
<1>2. ~Ok(Throw(x, "recoverable")) /\ ~Ok(Throw(x, "fatal"))
  BY <1>1, Throws
<1>3. ~Ok(y) \/ (InScope(x, "object") /\ y = SetTop(x, e))
  BY <1>2 DEF ReadKeyNext
<1>4. CASE InScope(x, "object") /\ y = SetTop(x, e)
  <2>1. x.scopes # <<>>
    BY <1>4 DEF InScope
  <2>2. Top(x) \in ScopeType
    BY <1>1, <2>1, ScopesAre DEF Top, Last, ReaderType
  <2>3. e \in ScopeType /\ e.type = Top(x).type /\ e.left = Top(x).left
    BY <2>2 DEF ScopeType
  <2> HIDE DEF e
  <2>4. QED
    BY <1>1, <1>4, <2>1, <2>3, TopChanged
<1>5. QED
  BY <1>3, <1>4 DEF ReaderInv

\* binary_read_some reads no more than is left.
LEMMA MinIs ==
    ASSUME NEW n \in Nat, NEW m \in Nat
    PROVE  m - Min({n, m}) \in Nat
<1>1. CASE n <= m
  <2>1. \A x \in {n, m} : (\A y \in {n, m} : x =< y) <=> x = n
    BY <1>1
  <2>2. Min({n, m}) = n
    BY <2>1 DEF Min
  <2>3. QED
    BY <1>1, <2>2
<1>2. CASE ~(n <= m)
  <2>1. \A x \in {n, m} : (\A y \in {n, m} : x =< y) <=> x = m
    BY <1>2
  <2>2. Min({n, m}) = m
    BY <2>1 DEF Min
  <2>3. QED
    BY <2>2
<1>3. QED
  BY <1>1, <1>2

\* binary_read_some keeps the reader in step, or throws.
LEMMA ReadBinaryKeeps ==
    ASSUME NEW in, NEW x, ReaderInv(in, x), Ok(x), NEW n \in Nat
    PROVE  ReaderInv(in, ReadBinary(x, n))
<1> DEFINE y == ReadBinary(x, n)
           l == Top(x).left - Min({n, Top(x).left})
           e == [Top(x) EXCEPT !.left = l]
<1>1. x \in ReaderType
  BY DEF ReaderInv
<1>2. ~Ok(Throw(x, "recoverable"))
  BY <1>1, Throws
<1>3. ~Ok(y) \/ (InScope(x, "binary") /\ y = SetTop(x, e))
  BY <1>2 DEF ReadBinary
<1>4. CASE InScope(x, "binary") /\ y = SetTop(x, e)
  <2>1. x.scopes # <<>> /\ Top(x).type = "binary"
    BY <1>4 DEF InScope
  <2>2. Top(x) \in ScopeType
    BY <1>1, <2>1, ScopesAre DEF Top, Last, ReaderType
  <2>3. l \in Nat
    BY <2>2, MinIs DEF ScopeType
  <2> HIDE DEF l
  <2>4. e \in ScopeType /\ e.type = Top(x).type
    BY <2>2, <2>3 DEF ScopeType
  <2> HIDE DEF e
  <2>5. QED
    BY <1>1, <1>4, <2>1, <2>4, TopChanged
<1>5. QED
  BY <1>3, <1>4 DEF ReaderInv

\* end_binary keeps the reader in step, or throws.
LEMMA EndBinaryKeeps ==
    ASSUME NEW in, NEW x, ReaderInv(in, x), Ok(x), x.goal = NoGoal
    PROVE  ReaderInv(in, EndBinary(x))
<1> DEFINE y == EndBinary(x)
<1>1. x \in ReaderType
  BY DEF ReaderInv
<1>2. ~Ok(Throw(x, "recoverable"))
  BY <1>1, Throws
<1>3. ~Ok(y) \/ (InScope(x, "binary") /\ y = [x EXCEPT !.scopes = Front(x.scopes)])
  BY <1>2 DEF EndBinary
<1>4. CASE InScope(x, "binary") /\ y = [x EXCEPT !.scopes = Front(x.scopes)]
  <2>1. x.scopes # <<>> /\ Top(x).type = "binary"
    BY <1>4 DEF InScope
  <2>2. y = [x EXCEPT !.scopes = Front(x.scopes), !.goal = NoGoal]
    BY <1>1, <1>4 DEF ReaderType
  <2>3. NoGoal \in Int
    BY DEF NoGoal
  <2> DEFINE g == NoGoal
  <2>4. (g = NoGoal \/ g \in 0 .. Len(x.scopes) - 2) /\ (Top(x).left = 0 \/ Top(x).type = "binary")
    BY <2>1
  <2> HIDE DEF g
  <2>5. ReaderInv(in, [x EXCEPT !.scopes = Front(x.scopes), !.goal = g])
    BY <1>1, <2>1, <2>3, <2>4, ScopeLeft DEF g
  <2>6. QED
    BY <2>2, <2>5 DEF g
<1>5. QED
  BY <1>3, <1>4 DEF ReaderInv

\* end_array and end_object find a scope at which the loop is to stop, or throw.
LEMMA EndScopeKeeps ==
    ASSUME NEW in, NEW x, ReaderInv(in, x), Ok(x), NEW type, NEW id
    PROVE  ReaderInv(in, EndScope(x, type, id))
<1> DEFINE s == x.scopes
           at == {i \in DOMAIN s : s[i].id = id}
           y == EndScope(x, type, id)
<1>1. x \in ReaderType
  BY DEF ReaderInv
<1>2. ~Ok(Throw(x, "recoverable")) /\ ~Ok(Throw(x, "fatal"))
  BY <1>1, Throws
<1>3. ~Ok(y) \/ (at # {} /\ y = [x EXCEPT !.goal = Max(at) - 1])
  BY <1>2 DEF EndScope
<1>4. CASE at # {} /\ y = [x EXCEPT !.goal = Max(at) - 1]
  <2>1. Len(s) \in Nat /\ DOMAIN s = 1 .. Len(s)
    BY <1>1, ScopesAre DEF ReaderType
  <2>2. at \in SUBSET Nat /\ \A k \in at : k <= Len(s) /\ k # 0
    BY <2>1
  <2>3. PICK m \in at : \A k \in at : k <= m
    BY <1>4, <2>1, <2>2, LastOf
  <2>4. Max(at) = m
    BY <2>2, <2>3, MaxIs
  <2>5. m - 1 \in 0 .. Len(s) - 1 /\ m - 1 \in Int
    BY <2>1, <2>2
  <2>6. QED
    BY <1>1, <1>4, <2>4, <2>5, GoalKeeps
<1>5. QED
  BY <1>3, <1>4 DEF ReaderInv

\* One turn of the loop of _break_scope keeps the reader in step, or throws.
LEMMA BreakTurnKeeps ==
    ASSUME NEW V, NEW in \in Seq(ElementType(V)), NEW x, ReaderInv(in, x), Ok(x), x.goal # NoGoal
    PROVE  ReaderInv(in, BreakTurn(in, x))
<1> DEFINE s == x.scopes
           y == BreakTurn(in, x)
           e == [Top(x) EXCEPT !.key = Top(x).key \/ KeyOrder(Top(x))]
           g == IF Len(s) - 1 = x.goal THEN NoGoal ELSE x.goal
<1>1. x \in ReaderType
  BY DEF ReaderInv
<1>2. Len(s) \in Nat /\ x.goal \in 0 .. Len(s) - 1
  BY <1>1, ScopesAre DEF ReaderInv, Leaving, ReaderType
<1>3. s # <<>> /\ Top(x) \in ScopeType
  <2>1. Len(s) # 0 /\ s \in Seq(ScopeType)
    BY <1>1, <1>2 DEF ReaderType
  <2>2. s # <<>>
    BY <2>1, EmptySeq
  <2>3. QED
    BY <1>2, <2>1, <2>2, ScopesAre DEF Top, Last
<1>4. CASE Top(x).left = 0
  <2>1. y = [x EXCEPT !.scopes = Front(s), !.goal = g]
    BY <1>4 DEF BreakTurn
  <2>2. g \in Int /\ (g = NoGoal \/ g \in 0 .. Len(s) - 2)
    <3>1. NoGoal \in Int
      BY DEF NoGoal
    <3>2. QED
      BY <1>2, <3>1
  <2> HIDE DEF g
  <2>3. ReaderInv(in, [x EXCEPT !.scopes = Front(x.scopes), !.goal = g])
    BY <1>1, <1>3, <1>4, <2>2, ScopeLeft
  <2>4. QED
    BY <2>1, <2>3
<1>5. CASE Top(x).left # 0 /\ Top(x).type = "binary"
  <2>1. y = [Throw(x, "fatal") EXCEPT !.torn = TRUE]
    BY <1>5 DEF BreakTurn
  <2>2. ~Ok(Throw(x, "fatal"))
    BY <1>1, Throws
  <2>3. y.err = Throw(x, "fatal").err
    BY <2>1
  <2>4. QED
    BY <2>2, <2>3 DEF ReaderInv, Ok
<1>6. CASE Top(x).left # 0 /\ Top(x).type # "binary"
  <2> DEFINE z == SetTop(x, e)
  <2>1. y = SkipOnce(in, z)
    BY <1>6 DEF BreakTurn
  <2>2. e \in ScopeType /\ e.type = Top(x).type /\ e.left = Top(x).left
    <3> DEFINE b == Top(x).key \/ KeyOrder(Top(x))
    <3>1. b \in BOOLEAN
      BY DEF KeyOrder
    <3> HIDE DEF b
    <3>2. QED
      BY <1>3, <3>1 DEF ScopeType, b
  <2> HIDE DEF e
  <2>3. ReaderInv(in, z)
    BY <1>1, <1>3, <2>2, TopChanged
  <2>4. z = [x EXCEPT !.scopes = [s EXCEPT ![Len(s)] = e]]
    BY DEF SetTop
  <2>5. Ok(z)
    BY <1>1, <2>4 DEF Ok, ReaderType
  <2>6. ~InScope(z, "binary")
    <3>1. z.scopes = [s EXCEPT ![Len(s)] = e] /\ s \in Seq(ScopeType) /\ Len(s) \in 1 .. Len(s)
      BY <1>1, <1>2, <1>3, <2>4, ScopesAre DEF ReaderType
    <3>2. Len(z.scopes) = Len(s) /\ z.scopes[Len(s)] = e
      BY <2>2, <3>1, ExceptSeq
    <3>3. QED
      BY <1>6, <2>2, <3>2 DEF InScope, Top, Last
  <2> HIDE DEF z
  <2>7. QED
    BY <2>1, <2>3, <2>5, <2>6, SkipOnceIs DEF ReaderInv
<1>7. QED
  BY <1>4, <1>5, <1>6

\* A turn keeps the reader in step, or throws, or what it does is undefined.
LEMMA BreakStepKeeps ==
    ASSUME NEW V, NEW in \in Seq(ElementType(V)), NEW x, ReaderInv(in, x), Ok(x), x.goal # NoGoal
    PROVE  ReaderInv(in, BreakStep(in, x))
<1>1. x \in ReaderType
  BY DEF ReaderInv
<1>2. CASE Dangles(x)
  <2>1. BreakStep(in, x) = Throw(x, "undefined")
    BY <1>2 DEF BreakStep
  <2>2. Throw(x, "undefined").err = "undefined"
    BY <1>1 DEF Throw, ReaderType
  <2>3. QED
    BY <2>1, <2>2 DEF ReaderInv, Ok
<1>3. CASE ~Dangles(x)
  BY <1>3, BreakTurnKeeps DEF BreakStep
<1>4. QED
  BY <1>2, <1>3

\* The reader at the beginning of a document
LEMMA StartKeeps ==
    ASSUME NEW V, NEW in \in Seq(ElementType(V)), NEW depth \in Nat
    PROVE  ReaderInv(in, Start(depth)) /\ Start(depth) \in ReaderType /\ Ok(Start(depth))
<1> DEFINE x == Start(depth)
<1>1. /\ x.pos = 1 /\ x.scopes = <<>> /\ x.goal = NoGoal /\ x.err = "ok"
      /\ x.torn = FALSE /\ x \in ReaderType
  BY EmptySeq DEF Start, NoGoal, ReaderType
<1>2. Containers(x) = <<>>
  BY <1>1 DEF Containers, InScope
<1>3. Lefts(<<>>) = <<>> /\ DOMAIN <<>> = {}
  <2>1. <<>> \in Seq(ScopeType) /\ Len(<<>>) = 0
    BY EmptySeq
  <2>2. Lefts(<<>>) \in Seq(Nat) /\ Len(Lefts(<<>>)) = 0 /\ DOMAIN <<>> = 1 .. 0
    BY <2>1, ScopesAre
  <2>3. QED
    BY <2>2, EmptySeq
<1>4. Open(<<>>) = <<>>
  <2>1. <<>> \in Seq(Nat) /\ Full(<<>>)
    BY EmptySeq DEF Full
  <2>2. QED
    BY <2>1, OpenFull
<1>5. SubSeq(in, 1, x.pos - 1) = <<>>
  <2>1. x.pos - 1 = 0
    BY <1>1
  <2>2. SubSeq(in, 1, 0) \in Seq(ElementType(V)) /\ Len(SubSeq(in, 1, 0)) = IF 1 <= 0 THEN 0 - 1 + 1 ELSE 0
    BY SubSeqProperties
  <2>3. Len(SubSeq(in, 1, 0)) = 0
    BY <2>2
  <2>4. SubSeq(in, 1, 0) = <<>>
    BY <2>2, <2>3, EmptySeq
  <2>5. QED
    BY <2>1, <2>4
<1>6. InStep(in, x)
  BY <1>1, <1>2, <1>3, <1>4, <1>5, RemainingEmpty DEF InStep
<1>7. Len(in) \in Nat
  BY LenProperties
<1>8. QED
  BY <1>1, <1>6, <1>7 DEF ReaderInv, Placed, Leaving, Ok

-----------------------------------------------------------------------------
(* Where a call leaves the reader, whether or not it threw                  *)

\* A key is read only after ReadKeyNext.
KeyReady(x) == x.scopes # <<>> /\ KeyOrder(Top(x)) => Top(x).key
\* The element at the position is not read, it is read, or it is one too many: the last scope
\* has nothing left, and the reader counts elems_left below 0.
Unread(x, y) == LET n == Len(x.scopes)
                IN  y.pos = x.pos /\ y.scopes[n].left = x.scopes[n].left /\ y.torn = x.torn
WasRead(in, x, y) == LET n == Len(x.scopes)
                     IN  /\ y.pos = x.pos + 1 /\ x.scopes[n].left # 0
                         /\ y.scopes[n].left = x.scopes[n].left - 1
                         /\ Ok(y) /\ y.torn = x.torn
TooMany(x, y) == /\ y.pos \in {x.pos, x.pos + 1} /\ ~Ok(y)
                 /\ y.scopes[Len(x.scopes)].left = Wrapped
\* A new scope is entered by reading its header.
Scoped(x, y) == LET n == Len(x.scopes)
                IN  \/ Len(y.scopes) = n
                    \/ /\ Len(y.scopes) = n + 1 /\ Ok(y)
                       /\ y.scopes[n + 1].id > x.gen /\ y.scopes[n + 1].id <= y.gen
                       /\ y.scopes[n + 1].type # "binary"
Moved(in, x, y) ==
    /\ y \in ReaderType /\ y.pos <= Len(in) + 1 /\ y.gen >= x.gen
    /\ Scoped(x, y)
    /\ \A i \in 1 .. Len(x.scopes) :
          /\ y.scopes[i].id = x.scopes[i].id /\ y.scopes[i].type = x.scopes[i].type
          /\ i # Len(x.scopes) => y.scopes[i].left = x.scopes[i].left
    /\ Unread(x, y) \/ WasRead(in, x, y) \/ TooMany(x, y)

Halted(x, y) == y.goal = IF Ok(y) THEN x.goal ELSE NoGoal

\* A reader that is asked for something: it has not thrown, and is inside of a scope.
Asked(in, x) == /\ x \in ReaderType /\ Ok(x) /\ x.pos <= Len(in) + 1 /\ x.scopes # <<>>
                /\ \A i \in 1 .. Len(x.scopes) : x.scopes[i].type # "binary"

\* The last scope of a reader that is asked for something
LEMMA TopIs ==
    ASSUME NEW in, NEW x, Asked(in, x)
    PROVE  /\ Len(x.scopes) \in Nat /\ Len(x.scopes) # 0 /\ Len(x.scopes) \in 1 .. Len(x.scopes)
           /\ Top(x) = x.scopes[Len(x.scopes)] /\ Top(x) \in ScopeType /\ Top(x).type # "binary"
           /\ x.scopes \in Seq(ScopeType)
<1>1. x.scopes \in Seq(ScopeType) /\ x.scopes # <<>>
  BY DEF Asked, ReaderType
<1>2. Len(x.scopes) \in Nat /\ Len(x.scopes) # 0 /\ Len(x.scopes) \in 1 .. Len(x.scopes)
  BY <1>1, ScopesAre
<1>3. Top(x) = x.scopes[Len(x.scopes)] /\ Top(x) \in ScopeType
  BY <1>1, <1>2, ScopesAre DEF Top, Last
<1>4. QED
  BY <1>1, <1>2, <1>3 DEF Asked

\* What an exception changes in the reader
LEMMA ThrowIs ==
    ASSUME NEW x \in ReaderType, Ok(x), NEW e \in {"recoverable", "fatal"}, NEW y, y = Throw(x, e)
    PROVE  /\ y \in ReaderType /\ y.err = e /\ y.goal = NoGoal
           /\ y.pos = x.pos /\ y.gen = x.gen /\ y.scopes = x.scopes /\ y.torn = x.torn
<1> DEFINE z == [x EXCEPT !.goal = NoGoal, !.stale = 0]
<1>1. NoGoal \in Int /\ 0 \in Nat
  BY DEF NoGoal
<1>2. /\ z \in ReaderType /\ z.goal = NoGoal /\ z.err = x.err
      /\ z.pos = x.pos /\ z.gen = x.gen /\ z.scopes = x.scopes /\ z.torn = x.torn
  BY <1>1 DEF ReaderType
<1>3. y = [z EXCEPT !.err = e]
  BY DEF Throw, ReaderType
<1> HIDE DEF z
<1>4. QED
  BY <1>2, <1>3 DEF ReaderType

\* An exception in front of an element
LEMMA ThrowMoves ==
    ASSUME NEW in, NEW x, Asked(in, x), NEW e \in {"recoverable", "fatal"}
    PROVE  /\ Moved(in, x, Throw(x, e)) /\ Halted(x, Throw(x, e)) /\ ~Ok(Throw(x, e))
           /\ Throw(x, e).err = e /\ Unread(x, Throw(x, e)) /\ Throw(x, e).scopes = x.scopes
<1> DEFINE y == Throw(x, e)
<1>2. x \in ReaderType /\ Ok(x) /\ x.pos <= Len(in) + 1
  BY DEF Asked
<1>3. /\ y \in ReaderType /\ y.pos = x.pos /\ y.gen = x.gen /\ y.scopes = x.scopes /\ y.torn = x.torn
      /\ y.err = e /\ y.goal = NoGoal
  BY <1>2, ThrowIs
<1> HIDE DEF y
<1>4. ~Ok(y)
  BY <1>3 DEF Ok
<1>5. y.gen >= x.gen
  BY <1>2, <1>3 DEF ReaderType
<1>6. QED
  BY <1>2, <1>3, <1>4, <1>5 DEF Moved, Halted, Unread, Scoped, y

At(x, p) == [x EXCEPT !.pos = p]
Counted(x, p, s, y) ==
    /\ y \in ReaderType /\ Ok(y) /\ y.pos = p /\ y.gen = x.gen /\ y.goal = x.goal
    /\ y.torn = x.torn /\ Len(y.scopes) = Len(x.scopes)
    /\ y.scopes = [x.scopes EXCEPT ![Len(x.scopes)] = s]
    /\ \A i \in 1 .. Len(x.scopes) :
          /\ y.scopes[i].id = x.scopes[i].id /\ y.scopes[i].type = x.scopes[i].type
          /\ i # Len(x.scopes) => y.scopes[i].left = x.scopes[i].left
          /\ i = Len(x.scopes) => y.scopes[i] = s

\* The last scope is counted down, the position being p.
LEMMA TopCounts ==
    ASSUME NEW in, NEW x, Asked(in, x), NEW s \in ScopeType, NEW p \in {x.pos, x.pos + 1},
           p <= Len(in) + 1, s.id = Top(x).id, s.type = Top(x).type, s.left = Less(Top(x)),
           NEW y, y = SetTop(At(x, p), s)
    PROVE  Counted(x, p, s, y)
<1> DEFINE n == Len(x.scopes)
           t == [x.scopes EXCEPT ![n] = s]
<1>1. /\ x.scopes \in Seq(ScopeType) /\ n \in Nat /\ n # 0 /\ n \in 1 .. n
      /\ Top(x) = x.scopes[n]
  BY TopIs
<1>2. t \in Seq(ScopeType) /\ Len(t) = n /\ \A i \in 1 .. n : t[i] = IF i = n THEN s ELSE x.scopes[i]
  BY <1>1, ExceptSeq
<1>3. x \in ReaderType /\ Ok(x)
  BY DEF Asked
<1> DEFINE h == At(x, p)
<1>4. h.scopes = x.scopes /\ h = [x EXCEPT !.pos = p]
  BY <1>3 DEF ReaderType, At
<1> HIDE DEF h
<1>5. y = [h EXCEPT !.scopes = t]
  BY <1>4 DEF SetTop, h
<1> HIDE DEF t
<1>6. p \in Nat \ {0}
  BY <1>3 DEF ReaderType
<1>7. /\ y \in ReaderType /\ y.scopes = t /\ y.pos = p /\ y.gen = x.gen /\ y.goal = x.goal
      /\ y.torn = x.torn /\ y.err = x.err
  BY <1>2, <1>3, <1>4, <1>5, <1>6 DEF ReaderType
<1>8. Ok(y)
  BY <1>3, <1>7 DEF Ok
<1>9. QED
  BY <1>1, <1>2, <1>7, <1>8 DEF t, Counted

\* What _step_context and _step_context_on_skip do: they count, and throw if nothing is left.
Steps(in, x, p, y) ==
    \E s \in ScopeType :
        /\ s.id = Top(x).id /\ s.type = Top(x).type /\ s.left = Less(Top(x))
        /\ LET next == SetTop(At(x, p), s)
           IN  \/ Top(x).left # 0 /\ y = next
               \/ Top(x).left = 0 /\ y = Throw(next, "recoverable")
               \/ Top(x).left = 0 /\ y = [Throw(next, "recoverable") EXCEPT !.torn = TRUE]

\* An element was read that is no container, or is not entered.
Went(in, x, y) == /\ Moved(in, x, y) /\ Len(y.scopes) = Len(x.scopes)
                  /\ IF Ok(y) THEN WasRead(in, x, y) ELSE Unread(x, y) \/ TooMany(x, y)

\* A step that counts moves the reader.
LEMMA StepMoves ==
    ASSUME NEW in, NEW x, Asked(in, x), NEW p \in {x.pos, x.pos + 1}, p <= Len(in) + 1,
           NEW y, Steps(in, x, p, y), Ok(y) => p = x.pos + 1
    PROVE  Went(in, x, y) /\ Halted(x, y)
<1> DEFINE n == Len(x.scopes)
<1>1. /\ n \in Nat /\ n # 0 /\ n \in 1 .. n /\ Top(x) = x.scopes[n] /\ Top(x) \in ScopeType
      /\ x \in ReaderType /\ Ok(x)
  BY TopIs DEF Asked
<1>2. PICK s \in ScopeType :
        /\ s.id = Top(x).id /\ s.type = Top(x).type /\ s.left = Less(Top(x))
        /\ LET next == SetTop(At(x, p), s)
           IN  \/ Top(x).left # 0 /\ y = next
               \/ Top(x).left = 0 /\ y = Throw(next, "recoverable")
               \/ Top(x).left = 0 /\ y = [Throw(next, "recoverable") EXCEPT !.torn = TRUE]
  BY DEF Steps
<1> DEFINE next == SetTop(At(x, p), s)
<1>3. /\ next \in ReaderType /\ Ok(next) /\ next.pos = p /\ next.gen = x.gen /\ next.goal = x.goal
      /\ next.torn = x.torn /\ Len(next.scopes) = n
      /\ \A i \in 1 .. n :
            /\ next.scopes[i].id = x.scopes[i].id /\ next.scopes[i].type = x.scopes[i].type
            /\ i # n => next.scopes[i].left = x.scopes[i].left
            /\ i = n => next.scopes[i] = s
  <2>1. s.id = Top(x).id /\ s.type = Top(x).type /\ s.left = Less(Top(x))
    BY <1>2
  <2>2. Counted(x, p, s, next)
    BY <2>1, TopCounts
  <2>3. QED
    BY <2>2 DEF Counted
<1>4. \/ Top(x).left # 0 /\ y = next
      \/ Top(x).left = 0 /\ y = Throw(next, "recoverable")
      \/ Top(x).left = 0 /\ y = [Throw(next, "recoverable") EXCEPT !.torn = TRUE]
  BY <1>2
<1>5. next.scopes[n].left = Less(Top(x))
  BY <1>1, <1>2, <1>3
<1> HIDE DEF next
<1>6. x.gen \in Nat
  BY <1>1 DEF ReaderType
<1>7. CASE Top(x).left # 0 /\ y = next
  <2>1. WasRead(in, x, y)
    BY <1>1, <1>3, <1>5, <1>7 DEF WasRead, Less
  <2>2. QED
    BY <1>1, <1>3, <1>6, <1>7, <2>1 DEF Moved, Halted, Scoped, Went
<1>8. CASE /\ Top(x).left = 0
           /\ y \in {Throw(next, "recoverable"), [Throw(next, "recoverable") EXCEPT !.torn = TRUE]}
  <2>2. /\ y \in ReaderType /\ y.err = "recoverable" /\ y.goal = NoGoal /\ y.pos = p /\ y.gen = x.gen
        /\ y.scopes = next.scopes
    <3> DEFINE z == Throw(next, "recoverable")
    <3>1. z = Throw(next, "recoverable")
      OBVIOUS
    <3>3. y = z \/ y = [z EXCEPT !.torn = TRUE]
      BY <1>8
    <3> HIDE DEF z
    <3>2. /\ z \in ReaderType /\ z.err = "recoverable" /\ z.goal = NoGoal /\ z.pos = p /\ z.gen = x.gen
          /\ z.scopes = next.scopes
      BY <1>3, <3>1, ThrowIs
    <3>4. QED
      BY <3>2, <3>3 DEF ReaderType
  <2>3. ~Ok(y)
    BY <2>2 DEF Ok
  <2>4. TooMany(x, y)
    BY <1>5, <1>8, <2>2, <2>3 DEF TooMany, Less
  <2>5. QED
    BY <1>1, <1>3, <1>6, <2>2, <2>3, <2>4 DEF Moved, Halted, Scoped, Went
<1>9. QED
  BY <1>4, <1>7, <1>8

\* elems_left is a number.
LEMMA LessIs ==
    ASSUME NEW e \in ScopeType
    PROVE  Less(e) \in Nat
<1>1. Wrapped \in Nat
  BY DEF Wrapped
<1>2. QED
  BY <1>1 DEF Less, ScopeType

\* The reader behind a header is the one in front of it but for its position.
LEMMA AtIs ==
    ASSUME NEW in, NEW x, Asked(in, x), NEW p \in {x.pos, x.pos + 1}
    PROVE  /\ At(x, p) \in ReaderType /\ At(x, p).scopes = x.scopes /\ Ok(At(x, p))
           /\ Top(At(x, p)) = Top(x) /\ At(x, p).scopes # <<>> /\ At(x, p).pos = p
           /\ Advance(x) = At(x, x.pos + 1)
<1>1. x \in ReaderType /\ Ok(x) /\ x.scopes # <<>>
  BY DEF Asked
<1>2. At(x, p) \in ReaderType /\ At(x, p).scopes = x.scopes /\ At(x, p).err = x.err /\ At(x, p).pos = p
  BY <1>1 DEF ReaderType, At
<1>3. Advance(x) = At(x, x.pos + 1)
  BY <1>1 DEF Advance, At
<1>4. QED
  BY <1>1, <1>2, <1>3 DEF Ok, Top

\* _step_context counts down the last scope, or throws for what is too many.
LEMMA StepContextMoves ==
    ASSUME NEW in, NEW x, Asked(in, x), KeyReady(x), NEW p \in {x.pos, x.pos + 1},
           NEW y, y = StepContext(At(x, p))
    PROVE  Steps(in, x, p, y) /\ Steps(in, x, p, TornBy(At(x, p), y))
<1> DEFINE e == Top(x)
           h == At(x, p)
           key == IF KeyOrder(e) THEN FALSE ELSE e.key
           s == [e EXCEPT !.left = Less(e), !.key = key]
           next == SetTop(h, s)
<1>1. e \in ScopeType /\ e.type # "binary" /\ x.scopes # <<>>
  BY TopIs DEF Asked
<1>2. h \in ReaderType /\ Ok(h) /\ Top(h) = e /\ h.scopes # <<>> /\ h.scopes = x.scopes
  BY AtIs
<1>3. ~(KeyOrder(e) /\ ~e.key)
  BY <1>1 DEF KeyReady
<1>4. s \in ScopeType /\ s.id = e.id /\ s.type = e.type /\ s.left = Less(e)
  BY <1>1, LessIs DEF ScopeType
<1> HIDE DEF h, e
<1>5. y = IF e.left = 0 THEN Throw(next, "recoverable") ELSE next
  BY <1>1, <1>2, <1>3 DEF StepContext, h
<1> HIDE DEF s
<1>6. Steps(in, x, p, y)
  BY <1>4, <1>5 DEF Steps, e, h
<1>7. TornBy(h, y) = IF ~Ok(y) THEN [y EXCEPT !.torn = TRUE] ELSE y
  BY <1>2 DEF TornBy
<1>8. Ok(next)
  <2>1. next.err = h.err
    BY DEF SetTop
  <2>2. QED
    BY <1>2, <2>1 DEF Ok
<1>9. Steps(in, x, p, TornBy(h, y))
  BY <1>4, <1>5, <1>7, <1>8 DEF Steps, e, h
<1>10. QED
  BY <1>6, <1>9 DEF h

\* _step_context_on_skip
LEMMA StepOnSkipMoves ==
    ASSUME NEW in, NEW x, Asked(in, x), NEW p \in {x.pos, x.pos + 1},
           NEW y, y = StepOnSkip(At(x, p))
    PROVE  Steps(in, x, p, y) /\ Steps(in, x, p, TornBy(x, y))
<1> DEFINE e == Top(x)
           h == At(x, p)
           s == [e EXCEPT !.left = Less(e)]
           next == SetTop(h, s)
<1>1. e \in ScopeType /\ e.type # "binary" /\ x.scopes # <<>> /\ Ok(x)
  BY TopIs DEF Asked
<1>2. h \in ReaderType /\ Ok(h) /\ Top(h) = e /\ h.scopes # <<>> /\ h.scopes = x.scopes
  BY AtIs
<1>4. s \in ScopeType /\ s.id = e.id /\ s.type = e.type /\ s.left = Less(e)
  BY <1>1, LessIs DEF ScopeType
<1> HIDE DEF h, e
<1>5. y = IF e.left = 0 THEN Throw(next, "recoverable") ELSE next
  BY <1>1, <1>2 DEF StepOnSkip, h
<1> HIDE DEF s
<1>6. Steps(in, x, p, y)
  BY <1>4, <1>5 DEF Steps, e, h
<1>7. TornBy(x, y) = IF ~Ok(y) THEN [y EXCEPT !.torn = TRUE] ELSE y
  BY <1>1 DEF TornBy
<1>8. Ok(next)
  <2>1. next.err = h.err
    BY DEF SetTop
  <2>2. QED
    BY <1>2, <2>1 DEF Ok
<1>9. Steps(in, x, p, TornBy(x, y))
  BY <1>4, <1>5, <1>7, <1>8 DEF Steps, e, h
<1>10. QED
  BY <1>6, <1>9

\* An exception passes through what is called after it.
LEMMA ThrownPasses ==
    ASSUME NEW x, ~Ok(x)
    PROVE  /\ \A in, kinds : Take(in, x, kinds) = x
           /\ StepContext(x) = x /\ TornBy(x, x) = x
           /\ \A e : Throw(x, e) = x
           /\ \A type, n : NewScope(x, type, n) = x
  BY DEF Take, Throw, Advance, StepContext, TornBy, NewScope

\* Reading a header and counting it
LEMMA HeaderMoves ==
    ASSUME NEW V, NEW in \in Seq(ElementType(V)), NEW x, Asked(in, x), KeyReady(x), NEW kinds,
           NEW y \in {StepContext(Take(in, x, kinds)),
                      TornBy(Take(in, x, kinds), StepContext(Take(in, x, kinds)))}
    PROVE  Went(in, x, y) /\ Halted(x, y) /\ (Ok(y) => in[x.pos].k \in kinds)
<1> DEFINE h == Take(in, x, kinds)
<1>1. x \in ReaderType /\ Ok(x) /\ x.pos \in Nat /\ Len(in) \in Nat
  BY LenProperties DEF Asked, ReaderType
<1>2. CASE x.pos > Len(in) \/ in[x.pos].k \notin kinds
  <2>1. PICK e \in {"recoverable", "fatal"} : h = Throw(x, e)
    BY <1>2 DEF Take
  <2>2. /\ Moved(in, x, h) /\ Halted(x, h) /\ ~Ok(h) /\ Unread(x, h) /\ h.scopes = x.scopes
    BY <2>1, ThrowMoves
  <2> HIDE DEF h
  <2>3. y = h
    BY <2>2, ThrownPasses DEF h
  <2>4. QED
    BY <2>2, <2>3 DEF Went
<1>3. CASE ~(x.pos > Len(in)) /\ in[x.pos].k \in kinds
  <2> DEFINE p == x.pos + 1
  <2>1. h = At(x, p)
    BY <1>1, <1>3, AtIs DEF Take
  <2>2. p \in {x.pos, x.pos + 1} /\ p <= Len(in) + 1
    BY <1>1, <1>3
  <2> HIDE DEF p, h
  <2>3. Steps(in, x, p, y)
    BY <2>1, <2>2, StepContextMoves DEF h
  <2>4. p = x.pos + 1
    BY DEF p
  <2>5. QED
    BY <1>3, <2>2, <2>3, <2>4, StepMoves
<1>4. QED
  BY <1>2, <1>3

\* _read_number
LEMMA ReadNumberMoves ==
    ASSUME NEW V, NEW in \in Seq(ElementType(V)), NEW x, Asked(in, x), KeyReady(x)
    PROVE  /\ Went(in, x, ReadNumber(in, x)) /\ Halted(x, ReadNumber(in, x))
           /\ Ok(ReadNumber(in, x)) => in[x.pos].k \in {"num"}
  BY HeaderMoves DEF ReadNumber

\* read(string)
LEMMA ReadStringMoves ==
    ASSUME NEW V, NEW in \in Seq(ElementType(V)), NEW x, Asked(in, x), KeyReady(x)
    PROVE  /\ Went(in, x, ReadString(in, x)) /\ Halted(x, ReadString(in, x))
           /\ Ok(ReadString(in, x)) => in[x.pos].k \in {"str"}
  BY HeaderMoves DEF ReadString

\* A container was entered: its scope has the id given last.
Entered(in, x, z, type) ==
    LET n == Len(x.scopes)
    IN  /\ Moved(in, x, z) /\ Ok(z) /\ WasRead(in, x, z) /\ z.goal = x.goal
        /\ Len(z.scopes) = n + 1 /\ z.scopes[n + 1].id = z.gen /\ z.scopes[n + 1].type = type

\* A scope that is opened
WithScope(x, z, type) ==
    /\ z \in ReaderType /\ Ok(z) /\ z.gen = x.gen + 1 /\ z.pos = x.pos /\ z.goal = x.goal
    /\ z.torn = x.torn /\ z.scopes \in Seq(ScopeType) /\ Len(z.scopes) = Len(x.scopes) + 1
    /\ z.scopes[Len(x.scopes) + 1].id = z.gen /\ z.scopes[Len(x.scopes) + 1].type = type
    /\ \A i \in 1 .. Len(x.scopes) : z.scopes[i] = x.scopes[i]
    /\ Front(z.scopes) = x.scopes

\* The new scope has the next id, and what the header counts is left in it.
LEMMA NewScopeIs ==
    ASSUME NEW x \in ReaderType, Ok(x), NEW type \in {"array", "object", "binary"}, NEW n \in Nat,
           NEW z, z = NewScope(x, type, n)
    PROVE  WithScope(x, z, type)
<1> DEFINE s == [type |-> type, key |-> FALSE, id |-> x.gen + 1,
                 left |-> IF type = "object" THEN 2 * n ELSE n]
           t == Append(x.scopes, s)
<1>1. s \in ScopeType /\ s.id = x.gen + 1 /\ s.type = type
  BY DEF ScopeType, ReaderType
<1>2. x.scopes \in Seq(ScopeType) /\ Len(x.scopes) \in Nat
  BY ScopesAre DEF ReaderType
<1> DEFINE g == x.gen + 1
<1> DEFINE h == Grown(x)
<1>11. /\ h \in ReaderType /\ h.pos = x.pos /\ h.scopes = x.scopes /\ h.gen = x.gen /\ h.goal = x.goal
       /\ h.err = x.err /\ h.torn = x.torn
  BY GrownIs
<1>3. z = [h EXCEPT !.gen = g, !.scopes = t] /\ g \in Nat
  BY <1>11 DEF NewScope, ReaderType
<1> HIDE DEF h
<1> HIDE DEF s
<1>4. /\ t \in Seq(ScopeType) /\ Len(t) = Len(x.scopes) + 1 /\ t[Len(x.scopes) + 1] = s
      /\ \A i \in 1 .. Len(x.scopes) : t[i] = x.scopes[i]
  BY <1>1, <1>2, AppendProperties
<1> HIDE DEF t, g
<1>5. /\ z \in ReaderType /\ z.err = x.err /\ z.gen = g /\ z.pos = x.pos /\ z.goal = x.goal
      /\ z.torn = x.torn /\ z.scopes = t
  BY <1>3, <1>4, <1>11 DEF ReaderType
<1>6. t # <<>>
  BY <1>2, <1>4, EmptySeq
<1>7. /\ Front(t) \in Seq(ScopeType) /\ Len(Front(t)) = Len(t) - 1
      /\ \A i \in 1 .. Len(t) - 1 : Front(t)[i] = t[i]
  BY <1>4, <1>6, FrontIs
<1>8. Len(Front(t)) = Len(x.scopes) /\ \A i \in 1 .. Len(x.scopes) : Front(t)[i] = x.scopes[i]
  BY <1>2, <1>4, <1>7
<1>9. Front(t) = x.scopes
  BY <1>2, <1>7, <1>8, SeqEqual
<1>10. QED
  BY <1>1, <1>4, <1>5, <1>9 DEF Ok, g, WithScope

\* A container is entered after its header was read.
LEMMA ScopeMoves ==
    ASSUME NEW V, NEW in \in Seq(ElementType(V)), NEW x, Asked(in, x), NEW y, Went(in, x, y), Ok(y),
           y.goal = x.goal, NEW type \in {"array", "object"}, NEW n \in Nat
    PROVE  Entered(in, x, NewScope(y, type, n), type)
<1> DEFINE z == NewScope(y, type, n)
           k == Len(x.scopes)
<1>1. y \in ReaderType /\ Moved(in, x, y) /\ Len(y.scopes) = k /\ WasRead(in, x, y) /\ k \in Nat
      /\ x.gen \in Nat /\ y.gen \in Nat /\ y.gen >= x.gen /\ k \in 1 .. k
  BY TopIs DEF Went, Moved, Asked, ReaderType
<1> HIDE DEF z
<1>2. /\ z \in ReaderType /\ Ok(z) /\ z.gen = y.gen + 1 /\ z.pos = y.pos /\ z.goal = y.goal
      /\ z.torn = y.torn /\ Len(z.scopes) = k + 1
      /\ z.scopes[k + 1].id = z.gen /\ z.scopes[k + 1].type = type
      /\ \A i \in 1 .. k : z.scopes[i] = y.scopes[i]
  <2>1. z = NewScope(y, type, n) /\ type \in {"array", "object", "binary"}
    BY DEF z
  <2>2. WithScope(y, z, type)
    BY <1>1, <2>1, NewScopeIs
  <2>3. QED
    BY <1>1, <2>2 DEF WithScope
<1>3. WasRead(in, x, z)
  BY <1>1, <1>2 DEF WasRead
<1>4. Moved(in, x, z)
  <2>1. Scoped(x, z)
    <3>1. z.gen > x.gen /\ z.gen <= z.gen
      BY <1>1, <1>2
    <3>2. QED
      BY <1>2, <3>1 DEF Scoped
  <2>2. \A i \in 1 .. k :
          /\ z.scopes[i].id = x.scopes[i].id /\ z.scopes[i].type = x.scopes[i].type
          /\ i # k => z.scopes[i].left = x.scopes[i].left
    BY <1>1, <1>2 DEF Moved
  <2>3. z.gen >= x.gen /\ z.pos <= Len(in) + 1
    BY <1>1, <1>2 DEF Moved
  <2>4. QED
    BY <1>2, <1>3, <2>1, <2>2, <2>3 DEF Moved
<1>5. QED
  BY <1>2, <1>3, <1>4 DEF Entered, z

\* begin_array and begin_object
LEMMA BeginMoves ==
    ASSUME NEW V, NEW in \in Seq(ElementType(V)), NEW x, Asked(in, x), NEW kind,
           NEW type \in {"array", "object"}, kind # "bin",
           NEW z, z = Opened(in, VerifyNotKey(x), kind, type)
    PROVE  /\ IF Ok(z) THEN Entered(in, x, z, type) /\ VerifyNotKey(x) = x ELSE Went(in, x, z)
           /\ Halted(x, z)
           /\ Ok(z) => in[x.pos].k = kind
<1> DEFINE v == VerifyNotKey(x)
           h == Take(in, v, {kind})
           y == StepContext(h)
<1>1. z = IF Ok(y) THEN NewScope(y, type, in[v.pos].n) ELSE y
  BY DEF Opened
<1>2. x \in ReaderType /\ Ok(x) /\ x.scopes # <<>> /\ Len(in) \in Nat /\ x.pos \in Nat /\ x.pos # 0
  BY LenProperties DEF Asked, ReaderType
<1>3. CASE v = x
  <2>1. KeyReady(x)
    <3>1. ~Ok(Throw(x, "recoverable"))
      BY ThrowMoves
    <3>2. ~(InScope(x, "object") /\ (KeyOrder(Top(x)) \/ Top(x).key))
      BY <1>2, <1>3, <3>1 DEF VerifyNotKey
    <3>3. QED
      BY <1>2, <3>2 DEF KeyReady, InScope, KeyOrder
  <2>2. y \in {StepContext(Take(in, x, {kind})), TornBy(Take(in, x, {kind}), StepContext(Take(in, x, {kind})))}
    BY <1>3
  <2> HIDE DEF y
  <2>3. Went(in, x, y) /\ Halted(x, y) /\ (Ok(y) => in[x.pos].k \in {kind})
    BY <2>1, <2>2, HeaderMoves
  <2>4. CASE Ok(y)
    <3>1. y.goal = x.goal /\ in[x.pos].k = kind
      BY <2>3, <2>4 DEF Halted
    <3>2. in[x.pos] \in ElementType(V)
      <4>1. y.pos = x.pos + 1 /\ y.pos <= Len(in) + 1
        BY <2>3, <2>4 DEF Went, WasRead, Moved
      <4>2. x.pos \in 1 .. Len(in)
        BY <1>2, <4>1
      <4>3. QED
        BY <4>2, ElementOfSeq
    <3>3. in[x.pos].n \in Nat
      BY <3>2 DEF ElementType
    <3>4. Entered(in, x, z, type)
      BY <1>1, <1>3, <2>3, <2>4, <3>1, <3>3, ScopeMoves
    <3>5. QED
      BY <1>3, <3>1, <3>4 DEF Entered, Halted
  <2>5. CASE ~Ok(y)
    BY <1>1, <2>3, <2>5
  <2>6. QED
    BY <2>4, <2>5
<1>4. CASE v # x
  <2>1. v = Throw(x, "recoverable")
    BY <1>4 DEF VerifyNotKey
  <2> HIDE DEF v
  <2>2. Moved(in, x, v) /\ Halted(x, v) /\ ~Ok(v) /\ Unread(x, v) /\ v.scopes = x.scopes
    BY <2>1, ThrowMoves
  <2>3. y = v
    BY <2>2, ThrownPasses
  <2> HIDE DEF y
  <2>4. z = v
    BY <1>1, <2>2, <2>3
  <2>5. QED
    BY <2>2, <2>4 DEF Went
<1>5. QED
  BY <1>3, <1>4

\* begin_array
LEMMA BeginArrayMoves ==
    ASSUME NEW V, NEW in \in Seq(ElementType(V)), NEW x, Asked(in, x), NEW z, z = BeginArray(in, x)
    PROVE  /\ IF Ok(z) THEN Entered(in, x, z, "array") /\ VerifyNotKey(x) = x ELSE Went(in, x, z)
           /\ Halted(x, z)
           /\ Ok(z) => in[x.pos].k = "arr"
  BY BeginMoves DEF BeginArray

\* begin_object
LEMMA BeginObjectMoves ==
    ASSUME NEW V, NEW in \in Seq(ElementType(V)), NEW x, Asked(in, x), NEW z, z = BeginObject(in, x)
    PROVE  /\ IF Ok(z) THEN Entered(in, x, z, "object") /\ VerifyNotKey(x) = x ELSE Went(in, x, z)
           /\ Halted(x, z)
           /\ Ok(z) => in[x.pos].k = "map"
  BY BeginMoves DEF BeginObject

\* begin_binary, and end_binary at once
LEMMA BinaryMoves ==
    ASSUME NEW V, NEW in \in Seq(ElementType(V)), NEW x, Asked(in, x), KeyReady(x),
           NEW z, z = BeginBinary(in, x)
    PROVE  /\ ~Ok(z) => Went(in, x, z) /\ Halted(x, z)
           /\ Ok(z) => /\ Went(in, x, EndBinary(z)) /\ Ok(EndBinary(z)) /\ EndBinary(z).goal = x.goal
                       /\ z.goal = x.goal /\ in[x.pos].k = "bin"
<1> DEFINE h == Take(in, x, {"bin"})
           y == StepContext(h)
<1>1. z = IF Ok(y) THEN NewScope(y, "binary", in[x.pos].n) ELSE TornBy(h, y)
  BY DEF Opened, BeginBinary
<1>2. x \in ReaderType /\ Ok(x) /\ x.scopes # <<>> /\ Len(in) \in Nat /\ x.pos \in Nat /\ x.pos # 0
  BY LenProperties DEF Asked, ReaderType
<1>3. y \in {StepContext(Take(in, x, {"bin"})), TornBy(Take(in, x, {"bin"}), StepContext(Take(in, x, {"bin"})))}
      /\ TornBy(h, y) \in {StepContext(Take(in, x, {"bin"})),
                           TornBy(Take(in, x, {"bin"}), StepContext(Take(in, x, {"bin"})))}
  OBVIOUS
<1> HIDE DEF y, h
<1>4. Went(in, x, y) /\ Halted(x, y) /\ (Ok(y) => in[x.pos].k \in {"bin"})
  BY <1>3, HeaderMoves
<1>5. Went(in, x, TornBy(h, y)) /\ Halted(x, TornBy(h, y))
  BY <1>3, HeaderMoves
<1>6. CASE ~Ok(y)
  BY <1>1, <1>5, <1>6, TornThrows
<1>7. CASE Ok(y)
  <2>1. in[x.pos] \in ElementType(V)
    <3>1. y.pos = x.pos + 1 /\ y.pos <= Len(in) + 1
      BY <1>4, <1>7 DEF Went, WasRead, Moved
    <3>2. x.pos \in 1 .. Len(in)
      BY <1>2, <3>1
    <3>3. QED
      BY <3>2, ElementOfSeq
  <2>2. in[x.pos].n \in Nat
    BY <2>1 DEF ElementType
  <2>3. y \in ReaderType /\ y.scopes \in Seq(ScopeType) /\ Len(y.scopes) \in Nat
    BY <1>4, ScopesAre DEF Went, Moved, ReaderType
  <2>4. /\ z \in ReaderType /\ Ok(z) /\ z.gen = y.gen + 1 /\ z.pos = y.pos /\ z.goal = y.goal
        /\ z.torn = y.torn /\ z.scopes \in Seq(ScopeType) /\ Len(z.scopes) = Len(y.scopes) + 1
        /\ z.scopes[Len(y.scopes) + 1].type = "binary" /\ Front(z.scopes) = y.scopes
    BY <1>1, <1>7, <2>2, <2>3, NewScopeIs DEF WithScope
  <2>5. z.scopes # <<>>
    BY <2>3, <2>4, EmptySeq
  <2>6. InScope(z, "binary")
    BY <2>4, <2>5 DEF InScope, Top, Last
  <2> DEFINE w == EndBinary(z)
  <2>7. w = [z EXCEPT !.scopes = y.scopes]
    BY <2>4, <2>6 DEF EndBinary
  <2>8. /\ w \in ReaderType /\ w.scopes = y.scopes /\ w.pos = y.pos /\ w.goal = y.goal /\ w.err = z.err
        /\ w.torn = y.torn /\ w.gen = y.gen + 1
    BY <2>3, <2>4, <2>7 DEF ReaderType
  <2> HIDE DEF w
  <2>9. Ok(w) /\ y.goal = x.goal
    BY <1>4, <1>7, <2>4, <2>8 DEF Ok, Halted
  <2>10. x.gen \in Nat /\ y.gen \in Nat
    BY <1>2, <2>3 DEF ReaderType
  <2>11. WasRead(in, x, w)
    BY <1>4, <1>7, <2>8, <2>9 DEF Went, WasRead
  <2>12. Moved(in, x, w)
    BY <1>4, <2>8, <2>9, <2>10, <2>11 DEF Went, Moved, Scoped
  <2>13. Went(in, x, w)
    BY <1>4, <2>8, <2>9, <2>11, <2>12 DEF Went
  <2>14. QED
    BY <1>4, <1>7, <2>4, <2>8, <2>9, <2>13 DEF w
<1>8. QED
  BY <1>6, <1>7

\* An element was read, whether or not it is a container, or the call threw.
Consumed(in, x, z) ==
    /\ Moved(in, x, z) /\ Halted(x, z)
    /\ Ok(z) => /\ WasRead(in, x, z)
                /\ Len(z.scopes) = Len(x.scopes) + IF in[x.pos].k \in Flat THEN 0 ELSE 1

\* _skip_once
LEMMA SkipOnceMoves ==
    ASSUME NEW V, NEW in \in Seq(ElementType(V)), NEW x, Asked(in, x), NEW z, z = SkipOnce(in, x)
    PROVE  Consumed(in, x, z)
<1> DEFINE k == in[x.pos].k
           p == x.pos + 1
<1>1. x \in ReaderType /\ Ok(x) /\ x.pos \in Nat /\ x.pos # 0 /\ Len(in) \in Nat
  BY LenProperties DEF Asked, ReaderType
<1>2. CASE x.pos > Len(in)
  BY <1>2, ThrowMoves DEF SkipOnce, Consumed
<1>3. CASE ~(x.pos > Len(in))
  <2>1. k \in Kinds
    <3>1. x.pos \in 1 .. Len(in)
      BY <1>1, <1>3
    <3>2. in[x.pos] \in ElementType(V)
      BY <3>1, ElementOfSeq
    <3>3. QED
      BY <3>2 DEF ElementType
  <2>2. z = CASE k = "num" -> StepOnSkip(Advance(x))
              [] k = "nil" -> Advance(StepOnSkip(x))
              [] k \in {"str", "bin", "ext"} -> TornBy(x, StepOnSkip(Advance(x)))
              [] k = "arr" -> BeginArray(in, x)
              [] k = "map" -> BeginObject(in, x)
    BY <1>3 DEF SkipOnce
  <2> HIDE DEF k
  <2>3. p \in {x.pos, x.pos + 1} /\ p <= Len(in) + 1
    BY <1>1, <1>3
  <2>4. CASE k \in {"num", "str", "bin", "ext"}
    <3>1. z \in {StepOnSkip(At(x, p)), TornBy(x, StepOnSkip(At(x, p)))}
      BY <2>2, <2>4, AtIs
    <3> HIDE DEF p
    <3>2. Steps(in, x, p, z)
      BY <2>3, <3>1, StepOnSkipMoves
    <3>3. Went(in, x, z) /\ Halted(x, z)
      BY <2>3, <3>2, StepMoves DEF p
    <3>4. k \in Flat /\ Len(x.scopes) \in Nat
      BY <2>4, TopIs DEF Flat
    <3>5. QED
      BY <3>3, <3>4 DEF Went, Consumed, k
  <2>5. CASE k = "nil"
    <3> DEFINE q == x.pos
               y == StepOnSkip(At(x, q))
    <3>1. At(x, q) = x
      BY <1>1 DEF At, ReaderType
    <3>2. z = Advance(y)
      BY <2>2, <2>5, <3>1
    <3>3. Steps(in, x, q, y)
      BY StepOnSkipMoves
    <3> HIDE DEF y
    <3>4. PICK s \in ScopeType :
            /\ s.id = Top(x).id /\ s.type = Top(x).type /\ s.left = Less(Top(x))
            /\ LET next == SetTop(At(x, q), s)
               IN  \/ Top(x).left # 0 /\ y = next
                   \/ Top(x).left = 0 /\ y = Throw(next, "recoverable")
                   \/ Top(x).left = 0 /\ y = [Throw(next, "recoverable") EXCEPT !.torn = TRUE]
      BY <3>3 DEF Steps
    <3> DEFINE next == SetTop(x, s)
    <3>5. next.err = x.err /\ next.pos = x.pos
      BY DEF SetTop
    <3>6. Ok(next)
      BY <1>1, <3>5 DEF Ok
    <3>7. CASE Top(x).left = 0
      <4>1. ~Ok(y)
        <5>1. q \in {x.pos, x.pos + 1} /\ q <= Len(in) + 1
          BY <1>1, <1>3
        <5>2. next = SetTop(At(x, q), s) /\ s.id = Top(x).id /\ s.type = Top(x).type /\ s.left = Less(Top(x))
          BY <3>1, <3>4
        <5>3. y = Throw(next, "recoverable") \/ y = [Throw(next, "recoverable") EXCEPT !.torn = TRUE]
          BY <3>1, <3>4, <3>7 DEF next
        <5> HIDE DEF next, q
        <5>4. Counted(x, q, s, next)
          BY <5>1, <5>2, TopCounts
        <5>5. next \in ReaderType
          BY <5>4 DEF Counted
        <5> DEFINE t == Throw(next, "recoverable")
        <5>6. t \in ReaderType /\ t.err = "recoverable"
          <6>1. t = Throw(next, "recoverable") /\ Ok(next)
            BY <3>6 DEF next
          <6> HIDE DEF t
          <6>2. QED
            BY <5>5, <6>1, ThrowIs
        <5> HIDE DEF t
        <5>7. y = t \/ y = [t EXCEPT !.torn = TRUE]
          BY <5>3 DEF t
        <5>8. y.err = "recoverable"
          BY <5>6, <5>7 DEF ReaderType
        <5>9. QED
          BY <5>8 DEF Ok
      <4>2. z = y
        BY <3>2, <4>1 DEF Advance
      <4>3. q \in {x.pos, x.pos + 1} /\ q <= Len(in) + 1
        BY <1>1, <1>3
      <4> HIDE DEF q
      <4>4. Went(in, x, z) /\ Halted(x, z)
        BY <3>3, <4>1, <4>2, <4>3, StepMoves
      <4>5. QED
        BY <4>1, <4>2, <4>4 DEF Went, Consumed
    <3>8. CASE Top(x).left # 0
      <4>1. y = next
        BY <3>1, <3>4, <3>8
      <4>2. z = [next EXCEPT !.pos = next.pos + 1]
        BY <3>2, <3>6, <4>1 DEF Advance
      <4>3. z = SetTop(At(x, p), s)
        BY <1>1, <4>2, <3>5 DEF SetTop, At, ReaderType
      <4> HIDE DEF p, next
      <4>4. Steps(in, x, p, z)
        BY <3>4, <3>8, <4>3 DEF Steps
      <4>5. p = x.pos + 1
        BY DEF p
      <4>6. Went(in, x, z) /\ Halted(x, z)
        BY <2>3, <4>4, <4>5, StepMoves
      <4>7. k \in Flat /\ Len(x.scopes) \in Nat
        BY <2>5, TopIs DEF Flat
      <4>8. QED
        BY <4>6, <4>7 DEF Went, Consumed, k
    <3>9. QED
      BY <3>7, <3>8
  <2>6. CASE k = "arr"
    <3>1. z = BeginArray(in, x)
      BY <2>2, <2>6
    <3>2. (IF Ok(z) THEN Entered(in, x, z, "array") ELSE Went(in, x, z)) /\ Halted(x, z)
      BY <3>1, BeginArrayMoves
    <3>3. k \notin Flat
      BY <2>6 DEF Flat
    <3>4. QED
      BY <3>2, <3>3 DEF Entered, Went, Consumed, k
  <2>7. CASE k = "map"
    <3>1. z = BeginObject(in, x)
      BY <2>2, <2>7
    <3>2. (IF Ok(z) THEN Entered(in, x, z, "object") ELSE Went(in, x, z)) /\ Halted(x, z)
      BY <3>1, BeginObjectMoves
    <3>3. k \notin Flat
      BY <2>7 DEF Flat
    <3>4. QED
      BY <3>2, <3>3 DEF Entered, Went, Consumed, k
  <2>8. QED
    BY <2>1, <2>4, <2>5, <2>6, <2>7 DEF Kinds, Flat
<1>4. QED
  BY <1>2, <1>3

\* Only the goal is set.
LEMMA GoalMoves ==
    ASSUME NEW in, NEW x, NEW y, Moved(in, x, y), NEW g \in Int
    PROVE  /\ Moved(in, x, [y EXCEPT !.goal = g]) /\ [y EXCEPT !.goal = g].goal = g
           /\ Ok([y EXCEPT !.goal = g]) = Ok(y)
           /\ WasRead(in, x, y) => WasRead(in, x, [y EXCEPT !.goal = g])
           /\ [y EXCEPT !.goal = g].scopes = y.scopes
<1> DEFINE z == [y EXCEPT !.goal = g]
<1>1. /\ z \in ReaderType /\ z.pos = y.pos /\ z.gen = y.gen /\ z.scopes = y.scopes /\ z.err = y.err
      /\ z.torn = y.torn /\ z.goal = g
  BY DEF Moved, ReaderType
<1> HIDE DEF z
<1>2. Ok(z) = Ok(y)
  BY <1>1 DEF Ok
<1>3. Moved(in, x, z)
  BY <1>1, <1>2 DEF Moved, Scoped, Unread, WasRead, TooMany
<1>4. QED
  BY <1>1, <1>2, <1>3 DEF WasRead, z

\* read(nullptr): a container that is skipped is left until its own scopes are gone.
LEMMA SkipMoves ==
    ASSUME NEW V, NEW in \in Seq(ElementType(V)), NEW x, Asked(in, x), x.goal = NoGoal,
           NEW z, z = Skip(in, x)
    PROVE  /\ Moved(in, x, z) /\ (Ok(z) => WasRead(in, x, z))
           /\ \/ z.goal = NoGoal /\ (Ok(z) => Len(z.scopes) = Len(x.scopes))
              \/ z.goal = Len(x.scopes) /\ Ok(z) /\ Len(z.scopes) = Len(x.scopes) + 1
<1> DEFINE y == SkipOnce(in, x)
           w == [y EXCEPT !.goal = Len(x.scopes)]
<1>1. z = IF Ok(y) /\ in[x.pos].k \notin Flat THEN w ELSE y
  BY DEF Skip
<1>2. Len(x.scopes) \in Nat
  BY TopIs
<1> HIDE DEF y
<1>3. Consumed(in, x, y)
  BY SkipOnceMoves DEF y
<1>4. CASE Ok(y) /\ in[x.pos].k \notin Flat
  <2>1. Moved(in, x, y) /\ WasRead(in, x, y) /\ Len(y.scopes) = Len(x.scopes) + 1
    BY <1>3, <1>4 DEF Consumed
  <2> DEFINE g == Len(x.scopes)
  <2>2. g \in Int
    BY <1>2
  <2> HIDE DEF g
  <2>3. /\ Moved(in, x, [y EXCEPT !.goal = g]) /\ [y EXCEPT !.goal = g].goal = g
        /\ Ok([y EXCEPT !.goal = g]) = Ok(y)
        /\ WasRead(in, x, y) => WasRead(in, x, [y EXCEPT !.goal = g])
        /\ [y EXCEPT !.goal = g].scopes = y.scopes
    BY <2>1, <2>2, GoalMoves
  <2>4. z = [y EXCEPT !.goal = g]
    BY <1>1, <1>4 DEF g
  <2>5. QED
    BY <1>4, <2>1, <2>3, <2>4 DEF g
<1>5. CASE ~(Ok(y) /\ in[x.pos].k \notin Flat)
  <2>1. z = y
    BY <1>1, <1>5
  <2>2. z.goal = NoGoal
    BY <1>3, <2>1 DEF Consumed, Halted
  <2>3. ASSUME Ok(z) PROVE Len(z.scopes) = Len(x.scopes)
    <3>1. in[x.pos].k \in Flat /\ Ok(y)
      BY <1>5, <2>1, <2>3
    <3>2. Len(y.scopes) = Len(x.scopes) + 0
      BY <1>3, <3>1 DEF Consumed
    <3>3. QED
      BY <1>2, <2>1, <3>2
  <2>4. QED
    BY <1>3, <2>1, <2>2, <2>3 DEF Consumed
<1>6. QED
  BY <1>4, <1>5

\* read_key_next
LEMMA ReadKeyNextMoves ==
    ASSUME NEW in, NEW x, Asked(in, x), NEW z, z = ReadKeyNext(x)
    PROVE  /\ Moved(in, x, z) /\ Halted(x, z) /\ Unread(x, z) /\ Len(z.scopes) = Len(x.scopes)
           /\ Ok(z) => Asked(in, z) /\ KeyOrder(Top(z)) /\ Top(z).key
<1> DEFINE n == Len(x.scopes)
           s == [Top(x) EXCEPT !.key = TRUE]
           t == [x.scopes EXCEPT ![n] = s]
<1>1. /\ n \in Nat /\ n # 0 /\ n \in 1 .. n /\ Top(x) = x.scopes[n] /\ Top(x) \in ScopeType
      /\ Top(x).type # "binary" /\ x \in ReaderType /\ Ok(x) /\ x.scopes # <<>> /\ x.pos <= Len(in) + 1
      /\ x.scopes \in Seq(ScopeType)
  BY TopIs DEF Asked
<1>2. CASE z = Throw(x, "recoverable") \/ z = Throw(x, "fatal")
  BY <1>2, ThrowMoves
<1>3. CASE InScope(x, "object") /\ ~(~KeyOrder(Top(x)) \/ Top(x).key)
  <2>1. z = [x EXCEPT !.scopes = t]
    BY <1>3 DEF ReadKeyNext, SetTop
  <2>2. /\ s \in ScopeType /\ s.key = TRUE /\ s.id = Top(x).id /\ s.type = Top(x).type
        /\ s.left = Top(x).left
    BY <1>1 DEF ScopeType
  <2> HIDE DEF s
  <2>3. t \in Seq(ScopeType) /\ Len(t) = n /\ \A i \in 1 .. n : t[i] = IF i = n THEN s ELSE x.scopes[i]
    BY <1>1, <2>2, ExceptSeq
  <2> HIDE DEF t
  <2>4. /\ z \in ReaderType /\ z.scopes = t /\ z.pos = x.pos /\ z.gen = x.gen /\ z.goal = x.goal
        /\ z.err = x.err /\ z.torn = x.torn
    BY <1>1, <2>1, <2>3 DEF ReaderType
  <2>5. Ok(z) /\ z.gen >= x.gen
    BY <1>1, <2>4 DEF Ok, ReaderType
  <2>6. t # <<>>
    BY <1>1, <2>3, EmptySeq
  <2>7. Top(z) = s
    BY <1>1, <2>3, <2>4 DEF Top, Last
  <2>8. Unread(x, z)
    BY <1>1, <2>2, <2>3, <2>4 DEF Unread
  <2>9. \A i \in 1 .. n :
          /\ t[i].id = x.scopes[i].id /\ t[i].type = x.scopes[i].type
          /\ i # n => t[i].left = x.scopes[i].left
    BY <1>1, <2>2, <2>3
  <2>10. Moved(in, x, z)
    BY <1>1, <2>3, <2>4, <2>5, <2>8, <2>9 DEF Moved, Scoped
  <2>11. Asked(in, z)
    BY <1>1, <2>3, <2>4, <2>5, <2>6, <2>9 DEF Asked
  <2>12. KeyOrder(Top(z)) /\ Top(z).key
    BY <1>3, <2>2, <2>7 DEF KeyOrder
  <2>13. QED
    BY <2>3, <2>4, <2>5, <2>8, <2>10, <2>11, <2>12 DEF Halted
<1>4. QED
  BY <1>2, <1>3 DEF ReadKeyNext

\* What is done first to the last scope's key makes no difference.
LEMMA MovesAfter ==
    ASSUME NEW in, NEW x, Asked(in, x), NEW w, Moved(in, x, w), Unread(x, w), Ok(w),
           Len(w.scopes) = Len(x.scopes), NEW z, Moved(in, w, z)
    PROVE  Moved(in, x, z) /\ (WasRead(in, w, z) => WasRead(in, x, z))
<1> DEFINE n == Len(x.scopes)
<1>1. n \in Nat /\ n # 0 /\ n \in 1 .. n /\ x.scopes # <<>> /\ x.gen \in Nat /\ w.gen \in Nat /\ z.gen \in Nat
      /\ z \in ReaderType
  BY TopIs DEF Asked, Moved, ReaderType
<1>2. w.pos = x.pos /\ w.scopes[n].left = x.scopes[n].left /\ w.torn = x.torn /\ w.gen >= x.gen
  BY DEF Unread, Moved
<1>3. Scoped(x, z)
  <2>1. CASE Len(z.scopes) = n
    BY <2>1 DEF Scoped
  <2>2. CASE Len(z.scopes) # n
    <3>1. /\ Len(z.scopes) = n + 1 /\ Ok(z) /\ z.scopes[n + 1].id > w.gen /\ z.scopes[n + 1].id <= z.gen
          /\ z.scopes[n + 1].type # "binary"
      BY <2>2 DEF Moved, Scoped
    <3>2. z.scopes[n + 1] \in ScopeType
      <4>1. z.scopes \in Seq(ScopeType) /\ n + 1 \in 1 .. Len(z.scopes)
        BY <1>1, <3>1 DEF ReaderType
      <4>2. QED
        BY <4>1, ScopesAre
    <3>3. z.scopes[n + 1].id > x.gen
      BY <1>1, <1>2, <3>1, <3>2 DEF ScopeType
    <3>4. QED
      BY <3>1, <3>3 DEF Scoped
  <2>3. QED
    BY <2>1, <2>2
<1>4. \A i \in 1 .. n :
        /\ z.scopes[i].id = x.scopes[i].id /\ z.scopes[i].type = x.scopes[i].type
        /\ i # n => z.scopes[i].left = x.scopes[i].left
  BY DEF Moved
<1>5. z.pos <= Len(in) + 1 /\ z.gen >= x.gen
  BY <1>1, <1>2 DEF Moved
<1>6. Unread(w, z) => Unread(x, z)
  BY <1>2 DEF Unread
<1>7. WasRead(in, w, z) => WasRead(in, x, z)
  BY <1>2 DEF WasRead
<1>8. TooMany(w, z) => TooMany(x, z)
  BY <1>2 DEF TooMany
<1>9. QED
  BY <1>1, <1>3, <1>4, <1>5, <1>6, <1>7, <1>8 DEF Moved

\* A key is a string that is read after read_key_next.
LEMMA ReadKeyMoves ==
    ASSUME NEW V, NEW in \in Seq(ElementType(V)), NEW x, Asked(in, x),
           NEW z, z = ReadString(in, ReadKeyNext(x))
    PROVE  /\ Went(in, x, z) /\ Halted(x, z)
           /\ Ok(z) => KeyOrder(Top(x))
<1> DEFINE w == ReadKeyNext(x)
<1>1. /\ Moved(in, x, w) /\ Halted(x, w) /\ Unread(x, w) /\ Len(w.scopes) = Len(x.scopes)
      /\ Ok(w) => Asked(in, w) /\ KeyOrder(Top(w)) /\ Top(w).key
  BY ReadKeyNextMoves
<1>2. z = ReadString(in, w)
  OBVIOUS
<1> HIDE DEF w
<1>3. CASE ~Ok(w)
  <2>1. z = w
    BY <1>2, <1>3, ThrownPasses DEF ReadString
  <2>2. QED
    BY <1>1, <1>3, <2>1 DEF Went
<1>4. CASE Ok(w)
  <2>1. Asked(in, w) /\ KeyReady(w)
    BY <1>1, <1>4 DEF KeyReady
  <2>2. Went(in, w, z) /\ Halted(w, z)
    BY <1>2, <2>1, ReadStringMoves
  <2>3. Moved(in, x, z) /\ (WasRead(in, w, z) => WasRead(in, x, z))
    BY <1>1, <1>4, <2>2, MovesAfter DEF Went
  <2>4. Unread(w, z) => Unread(x, z)
    BY <1>1 DEF Unread
  <2>5. TooMany(w, z) => TooMany(x, z)
    BY <1>1 DEF TooMany, Unread
  <2>6. Went(in, x, z) /\ Halted(x, z)
    BY <1>1, <1>4, <2>2, <2>3, <2>4, <2>5 DEF Went, Halted
  <2>7. KeyOrder(Top(x))
    <3>1. /\ Top(x) = x.scopes[Len(x.scopes)] /\ Len(x.scopes) \in 1 .. Len(x.scopes)
          /\ Top(w) = w.scopes[Len(w.scopes)]
      BY <2>1, TopIs
    <3>2. Top(w).type = Top(x).type /\ Top(w).left = Top(x).left
      BY <1>1, <3>1 DEF Moved, Unread
    <3>3. QED
      BY <1>1, <1>4, <3>2 DEF KeyOrder
  <2>8. QED
    BY <2>6, <2>7
<1>5. QED
  BY <1>3, <1>4

\* The last scope is given another key.
LEMMA KeySet ==
    ASSUME NEW in, NEW x, Asked(in, x), NEW s \in ScopeType, s.id = Top(x).id, s.type = Top(x).type,
           s.left = Top(x).left, NEW z, z = SetTop(x, s)
    PROVE  /\ Moved(in, x, z) /\ Unread(x, z) /\ Len(z.scopes) = Len(x.scopes) /\ Ok(z) /\ z.goal = x.goal
           /\ Asked(in, z) /\ Top(z) = s
<1> DEFINE n == Len(x.scopes)
           t == [x.scopes EXCEPT ![n] = s]
<1>1. /\ n \in Nat /\ n # 0 /\ n \in 1 .. n /\ Top(x) = x.scopes[n] /\ Top(x) \in ScopeType
      /\ Top(x).type # "binary" /\ x \in ReaderType /\ Ok(x) /\ x.scopes # <<>> /\ x.pos <= Len(in) + 1
      /\ x.scopes \in Seq(ScopeType)
  BY TopIs DEF Asked
<1>2. z = [x EXCEPT !.scopes = t]
  BY DEF SetTop
<1>3. t \in Seq(ScopeType) /\ Len(t) = n /\ \A i \in 1 .. n : t[i] = IF i = n THEN s ELSE x.scopes[i]
  BY <1>1, ExceptSeq
<1> HIDE DEF t
<1>4. /\ z \in ReaderType /\ z.scopes = t /\ z.pos = x.pos /\ z.gen = x.gen /\ z.goal = x.goal
      /\ z.err = x.err /\ z.torn = x.torn
  BY <1>1, <1>2, <1>3 DEF ReaderType
<1>5. Ok(z) /\ z.gen >= x.gen
  BY <1>1, <1>4 DEF Ok, ReaderType
<1>6. t # <<>>
  BY <1>1, <1>3, EmptySeq
<1>7. Top(z) = s
  BY <1>1, <1>3, <1>4 DEF Top, Last
<1>8. Unread(x, z)
  BY <1>1, <1>3, <1>4 DEF Unread
<1>9. \A i \in 1 .. n :
        /\ t[i].id = x.scopes[i].id /\ t[i].type = x.scopes[i].type
        /\ i # n => t[i].left = x.scopes[i].left
  BY <1>1, <1>3
<1>10. Moved(in, x, z)
  BY <1>1, <1>3, <1>4, <1>5, <1>8, <1>9 DEF Moved, Scoped
<1>11. Asked(in, z)
  BY <1>1, <1>3, <1>4, <1>5, <1>6, <1>9 DEF Asked
<1>12. QED
  BY <1>3, <1>4, <1>5, <1>7, <1>8, <1>10, <1>11

\* A turn of _break_scope, in a scope in which something is left
LEMMA BreakMoves ==
    ASSUME NEW V, NEW in \in Seq(ElementType(V)), NEW x, Asked(in, x), Top(x).left # 0,
           NEW z, z = BreakTurn(in, x)
    PROVE  Moved(in, x, z) /\ Halted(x, z) /\ (Ok(z) => WasRead(in, x, z))
<1> DEFINE key == Top(x).key \/ KeyOrder(Top(x))
           s == [Top(x) EXCEPT !.key = key]
           w == SetTop(x, s)
<1>1. Top(x) \in ScopeType /\ Top(x).type # "binary"
  BY TopIs
<1>2. z = SkipOnce(in, w)
  BY <1>1 DEF BreakTurn
<1>3. key \in BOOLEAN
  BY DEF KeyOrder
<1> HIDE DEF key
<1>4. s \in ScopeType /\ s.id = Top(x).id /\ s.type = Top(x).type /\ s.left = Top(x).left
  BY <1>1, <1>3 DEF ScopeType
<1> HIDE DEF s
<1>5. /\ Moved(in, x, w) /\ Unread(x, w) /\ Len(w.scopes) = Len(x.scopes) /\ Ok(w) /\ w.goal = x.goal
      /\ Asked(in, w)
  BY <1>4, KeySet
<1> HIDE DEF w
<1>6. Consumed(in, w, z)
  BY <1>2, <1>5, SkipOnceMoves
<1>7. Moved(in, x, z) /\ (WasRead(in, w, z) => WasRead(in, x, z))
  BY <1>5, <1>6, MovesAfter DEF Consumed
<1>8. QED
  BY <1>5, <1>6, <1>7 DEF Consumed, Halted

-----------------------------------------------------------------------------
(* Readers that are not in step                                             *)

\* A scope counts more elements than the stream still has.
Astray(in, x) == \E i \in 1 .. Len(x.scopes) : x.scopes[i].left + x.pos > Len(in) + 1
\* The ids of the scopes were given in their order, and none of them is a binary.
Nested(x) == \A i \in 1 .. Len(x.scopes) :
                /\ x.scopes[i].type # "binary" /\ x.scopes[i].id <= x.gen
                /\ \A j \in 1 .. Len(x.scopes) : i < j => x.scopes[i].id < x.scopes[j].id

\* A call keeps the scopes in their order.
LEMMA MovedNested ==
    ASSUME NEW in, NEW x, Asked(in, x), Nested(x), NEW y, Moved(in, x, y)
    PROVE  Nested(y) /\ y.scopes # <<>> /\ (Ok(y) => Asked(in, y))
<1> DEFINE n == Len(x.scopes)
           m == Len(y.scopes)
<1>1. /\ n \in Nat /\ n # 0 /\ x.scopes \in Seq(ScopeType) /\ y.scopes \in Seq(ScopeType)
      /\ y \in ReaderType /\ x.gen \in Nat /\ y.gen \in Nat /\ y.gen >= x.gen
  BY TopIs DEF Asked, Moved, ReaderType
<1>2. \/ m = n
      \/ m = n + 1 /\ y.scopes[m].id > x.gen /\ y.scopes[m].id <= y.gen /\ y.scopes[m].type # "binary"
  BY DEF Moved, Scoped
<1>3. m \in Nat /\ y.scopes # <<>>
  BY <1>1, <1>2, EmptySeq, ScopesAre
<1>4. \A i \in 1 .. n : x.scopes[i].id \in Nat /\ x.scopes[i].id <= x.gen
  BY <1>1, ScopesAre DEF ScopeType, Nested
<1>5. \A i \in 1 .. m : y.scopes[i].id \in Nat
  BY <1>1, ScopesAre DEF ScopeType
<1>6. \A i \in 1 .. n : y.scopes[i].id = x.scopes[i].id /\ y.scopes[i].type = x.scopes[i].type
  BY DEF Moved
<1>7. ASSUME NEW i \in 1 .. m
      PROVE  /\ y.scopes[i].type # "binary" /\ y.scopes[i].id <= y.gen
             /\ \A j \in 1 .. m : i < j => y.scopes[i].id < y.scopes[j].id
  <2>1. CASE i \in 1 .. n
    <3>1. y.scopes[i].type # "binary" /\ y.scopes[i].id <= y.gen
      BY <1>1, <1>4, <1>6, <2>1 DEF Nested
    <3>2. ASSUME NEW j \in 1 .. m, i < j PROVE y.scopes[i].id < y.scopes[j].id
      <4>1. CASE j \in 1 .. n
        BY <1>6, <2>1, <3>2, <4>1 DEF Nested
      <4>2. CASE j \notin 1 .. n
        <5>1. j = m /\ m = n + 1
          BY <1>1, <1>2, <1>3, <4>2
        <5>2. QED
          BY <1>1, <1>2, <1>4, <1>5, <1>6, <2>1, <5>1, SMTT(20)
      <4>3. QED
        BY <4>1, <4>2
    <3>3. QED
      BY <3>1, <3>2
  <2>2. CASE i \notin 1 .. n
    <3>1. i = m /\ m = n + 1
      BY <1>1, <1>2, <1>3, <2>2
    <3>2. QED
      BY <1>2, <1>3, <3>1
  <2>3. QED
    BY <2>1, <2>2
<1>8. QED
  BY <1>1, <1>3, <1>7 DEF Nested, Asked, Moved

\* What has gone astray stays so: an element that is read is counted where it belongs, if at
\* all.  One too many leads astray.
LEMMA MovedAstray ==
    ASSUME NEW V, NEW in \in Seq(ElementType(V)), Len(in) < Wrapped, NEW x, Asked(in, x),
           NEW y, Moved(in, x, y), Astray(in, x) \/ TooMany(x, y)
    PROVE  Astray(in, y)
<1> DEFINE n == Len(x.scopes)
           m == Len(y.scopes)
<1>1. /\ n \in Nat /\ n # 0 /\ x.scopes \in Seq(ScopeType) /\ y.scopes \in Seq(ScopeType)
      /\ y \in ReaderType /\ x.pos \in Nat /\ y.pos \in Nat /\ x.pos # 0 /\ y.pos # 0 /\ Len(in) \in Nat
  BY TopIs, LenProperties DEF Asked, Moved, ReaderType
<1>2. m \in Nat /\ m >= n
  BY <1>1 DEF Moved, Scoped
<1>3. \A i \in 1 .. n : x.scopes[i].left \in Nat
  BY <1>1, ScopesAre DEF ScopeType
<1>4. \A i \in 1 .. m : y.scopes[i].left \in Nat
  BY <1>1, ScopesAre DEF ScopeType
<1>5. Wrapped \in Nat
  BY DEF Wrapped
<1>6. CASE TooMany(x, y)
  <2>1. y.scopes[n].left = Wrapped /\ n \in 1 .. m
    BY <1>1, <1>2, <1>6 DEF TooMany
  <2>2. Wrapped + y.pos > Len(in) + 1
    BY <1>1, <1>5
  <2>3. QED
    BY <2>1, <2>2 DEF Astray
<1>7. CASE Astray(in, x) /\ ~TooMany(x, y)
  <2>1. PICK i \in 1 .. n : x.scopes[i].left + x.pos > Len(in) + 1
    BY <1>7 DEF Astray
  <2>2. i \in 1 .. m
    BY <1>1, <1>2
  <2>3. i # n => y.scopes[i].left = x.scopes[i].left
    BY DEF Moved
  <2>4. \/ y.pos = x.pos /\ y.scopes[n].left = x.scopes[n].left
        \/ y.pos = x.pos + 1 /\ x.scopes[n].left # 0 /\ y.scopes[n].left = x.scopes[n].left - 1
    BY <1>7 DEF Moved, Unread, WasRead
  <2>5. y.scopes[i].left + y.pos > Len(in) + 1
    <3>1. n \in 1 .. n
      BY <1>1
    <3>2. x.scopes[i].left \in Nat /\ x.scopes[n].left \in Nat
      BY <1>3, <3>1
    <3>3. CASE i = n
      BY <1>1, <2>1, <2>4, <3>2, <3>3
    <3>4. CASE i # n
      <4>1. y.scopes[i].left = x.scopes[i].left /\ (y.pos = x.pos \/ y.pos = x.pos + 1)
        BY <2>3, <2>4, <3>4
      <4>2. QED
        BY <1>1, <2>1, <3>2, <4>1
    <3>5. QED
      BY <3>3, <3>4
  <2>6. QED
    BY <2>2, <2>5 DEF Astray
<1>8. QED
  BY <1>6, <1>7

\* A call that reads nothing leaves the reader in step.
LEMMA UnreadInStep ==
    ASSUME NEW in, NEW x, Asked(in, x), InStep(in, x), NEW y, Moved(in, x, y), Unread(x, y),
           Len(y.scopes) = Len(x.scopes)
    PROVE  InStep(in, y)
<1> DEFINE n == Len(x.scopes)
<1>1. /\ n \in Nat /\ n # 0 /\ x.scopes \in Seq(ScopeType) /\ y.scopes \in Seq(ScopeType) /\ n \in 1 .. n
      /\ Top(x).type # "binary" /\ Top(x) = x.scopes[n]
  BY TopIs DEF Asked, Moved, ReaderType
<1>2. \A i \in 1 .. n : y.scopes[i].left = x.scopes[i].left /\ y.scopes[i].type = x.scopes[i].type
  BY DEF Moved, Unread
<1>3. /\ Lefts(x.scopes) \in Seq(Nat) /\ Len(Lefts(x.scopes)) = n
      /\ \A i \in 1 .. n : Lefts(x.scopes)[i] = x.scopes[i].left
  BY <1>1, ScopesAre
<1>4. /\ Lefts(y.scopes) \in Seq(Nat) /\ Len(Lefts(y.scopes)) = n
      /\ \A i \in 1 .. n : Lefts(y.scopes)[i] = y.scopes[i].left
  BY <1>1, ScopesAre
<1>5. Lefts(x.scopes) = Lefts(y.scopes)
  BY <1>2, <1>3, <1>4, SeqEqual
<1>6. y.scopes # <<>>
  BY <1>1, EmptySeq
<1>7. Top(y) = y.scopes[n] /\ Top(y).type # "binary"
  BY <1>1, <1>2 DEF Top, Last
<1>8. Containers(x) = x.scopes /\ Containers(y) = y.scopes
  BY <1>1, <1>7 DEF Containers, InScope
<1>9. DOMAIN x.scopes = 1 .. n /\ DOMAIN y.scopes = 1 .. n
  BY <1>1, ScopesAre
<1>10. x.pos = y.pos /\ x.torn = y.torn
  BY DEF Unread
<1>11. QED
  BY <1>2, <1>5, <1>8, <1>9, <1>10 DEF InStep, Asked

\* The last scope is left when nothing is left in it: it is not the one that is astray.
LEMMA BreakLeaves ==
    ASSUME NEW V, NEW in \in Seq(ElementType(V)), NEW x, Asked(in, x), Nested(x), Top(x).left = 0,
           x.goal \in 0 .. Len(x.scopes) - 1, NEW y, y = BreakTurn(in, x)
    PROVE  /\ y \in ReaderType /\ Ok(y) /\ y.pos = x.pos /\ y.gen = x.gen /\ y.torn = x.torn /\ Nested(y)
           /\ y.goal = IF Len(x.scopes) - 1 = x.goal THEN NoGoal ELSE x.goal
           /\ Len(y.scopes) = Len(x.scopes) - 1
           /\ \A i \in 1 .. Len(y.scopes) : y.scopes[i] = x.scopes[i]
           /\ Astray(in, x) => Astray(in, y)
<1> DEFINE n == Len(x.scopes)
           t == Front(x.scopes)
           g == IF n - 1 = x.goal THEN NoGoal ELSE x.goal
<1>1. /\ n \in Nat /\ n # 0 /\ x.scopes \in Seq(ScopeType) /\ n \in 1 .. n /\ x.scopes # <<>>
      /\ Top(x) = x.scopes[n] /\ x \in ReaderType /\ Ok(x)
      /\ x.pos \in Nat /\ Len(in) \in Nat /\ x.pos <= Len(in) + 1
  BY TopIs, LenProperties DEF Asked, ReaderType
<1>2. y = [x EXCEPT !.scopes = t, !.goal = g]
  BY DEF BreakTurn
<1>3. t \in Seq(ScopeType) /\ Len(t) = n - 1 /\ \A i \in 1 .. n - 1 : t[i] = x.scopes[i]
  BY <1>1, FrontIs
<1> HIDE DEF t
<1>4. g \in Int
  BY <1>1 DEF NoGoal, ReaderType
<1> HIDE DEF g
<1>5. /\ y \in ReaderType /\ y.err = x.err /\ y.pos = x.pos /\ y.gen = x.gen /\ y.torn = x.torn
      /\ y.scopes = t /\ y.goal = g
  BY <1>1, <1>2, <1>3, <1>4 DEF ReaderType
<1>6. 1 .. Len(t) \subseteq 1 .. n
  BY <1>1, <1>3
<1>7. Nested(y)
  <2>1. \A i \in 1 .. Len(t) : t[i] = x.scopes[i] /\ i \in 1 .. n
    BY <1>3, <1>6
  <2> DEFINE s == x.scopes
  <2>2. \A i \in 1 .. n : /\ s[i].type # "binary" /\ s[i].id <= x.gen
                          /\ \A j \in 1 .. n : i < j => s[i].id < s[j].id
    BY DEF Nested
  <2> HIDE DEF s
  <2>3. \A i \in 1 .. Len(t) : /\ t[i].type # "binary" /\ t[i].id <= x.gen
                               /\ \A j \in 1 .. Len(t) : i < j => t[i].id < t[j].id
    BY <2>1, <2>2 DEF s
  <2>4. QED
    BY <1>5, <2>3 DEF Nested
<1>8. ASSUME Astray(in, x) PROVE Astray(in, y)
  <2>1. PICK i \in 1 .. n : x.scopes[i].left + x.pos > Len(in) + 1
    BY <1>8 DEF Astray
  <2>2. i # n
    BY <1>1, <2>1
  <2>3. i \in 1 .. n - 1
    BY <1>1, <2>2
  <2>4. QED
    BY <1>3, <1>5, <2>1, <2>3 DEF Astray
<1>9. Ok(y)
  BY <1>1, <1>5 DEF Ok
<1>10. QED
  BY <1>3, <1>5, <1>7, <1>8, <1>9 DEF g

\* Where something is left in the last scope, the document goes on.
LEMMA GoesOn ==
    ASSUME NEW in, NEW x, Asked(in, x), InStep(in, x), Top(x).left # 0
    PROVE  Remaining(SubSeq(in, 1, x.pos - 1)) # <<>>
<1> DEFINE n == Len(x.scopes)
           L == Lefts(x.scopes)
<1>1. /\ n \in Nat /\ n # 0 /\ x.scopes \in Seq(ScopeType) /\ n \in 1 .. n
      /\ Top(x).type # "binary" /\ Top(x) = x.scopes[n]
  BY TopIs
<1>2. L \in Seq(Nat) /\ Len(L) = n /\ L[n] = x.scopes[n].left
  BY <1>1, ScopesAre
<1>3. Containers(x) = x.scopes
  BY <1>1 DEF Containers, InScope
<1> HIDE DEF L
<1>4. Full(L)
  BY <1>1, <1>2 DEF Full
<1>5. Open(L) = L
  BY <1>2, <1>4, OpenFull
<1>6. L # <<>>
  BY <1>1, <1>2, EmptySeq
<1>7. QED
  BY <1>3, <1>5, <1>6 DEF InStep, L

\* A reader outside of all scopes is between two documents.
LEMMA Between ==
    ASSUME NEW in, NEW x, x.scopes = <<>>, InStep(in, x)
    PROVE  Remaining(SubSeq(in, 1, x.pos - 1)) = <<>>
<1>1. Containers(x) = <<>>
  BY DEF Containers, InScope
<1>2. Lefts(<<>>) = <<>>
  <2>1. <<>> \in Seq(ScopeType) /\ Len(<<>>) = 0
    BY EmptySeq
  <2>2. Lefts(<<>>) \in Seq(Nat) /\ Len(Lefts(<<>>)) = 0
    BY <2>1, ScopesAre
  <2>3. QED
    BY <2>2, EmptySeq
<1>3. Open(<<>>) = <<>>
  <2>1. <<>> \in Seq(Nat) /\ Full(<<>>)
    BY EmptySeq DEF Full
  <2>2. QED
    BY <2>1, OpenFull
<1>4. QED
  BY <1>1, <1>2, <1>3 DEF InStep

\* end_array and end_object: the loop is to leave a scope that is open, or nothing is done.
LEMMA EndScopeIs ==
    ASSUME NEW in, NEW x, Asked(in, x), Nested(x), NEW type, NEW id, NEW y, y = EndScope(x, type, id)
    PROVE  \/ /\ y \in {Throw(x, "fatal"), Throw(x, "recoverable")}
              /\ ~\E i \in 1 .. Len(x.scopes) : x.scopes[i].id = id /\ x.scopes[i].type = type
           \/ \E i \in 1 .. Len(x.scopes) :
                 x.scopes[i].id = id /\ x.scopes[i].type = type /\ y = [x EXCEPT !.goal = i - 1]
<1> DEFINE s == x.scopes
           at == {i \in DOMAIN s : s[i].id = id}
<1>1. s \in Seq(ScopeType) /\ Len(s) \in Nat /\ DOMAIN s = 1 .. Len(s)
  BY TopIs, ScopesAre
<1>2. CASE at = {}
  <2>1. y = Throw(x, "fatal")
    BY <1>2 DEF EndScope
  <2>2. ~\E i \in 1 .. Len(s) : s[i].id = id
    BY <1>1, <1>2
  <2>3. QED
    BY <2>1, <2>2
<1>3. CASE at # {}
  <2>1. PICK i \in 1 .. Len(s) : s[i].id = id
    BY <1>1, <1>3
  <2>2. \A j \in 1 .. Len(s) : s[j].id = id => j = i
    <3>1. SUFFICES ASSUME NEW j \in 1 .. Len(s), s[j].id = id, j # i PROVE FALSE
      OBVIOUS
    <3>2. s[i].id \in Nat /\ s[j].id \in Nat
      BY <1>1, ScopesAre DEF ScopeType
    <3>3. i < j \/ j < i
      BY <1>1, <3>1
    <3>4. QED
      BY <2>1, <3>1, <3>2, <3>3 DEF Nested
  <2>3. at = {i}
    BY <1>1, <2>1, <2>2
  <2>4. Max(at) = i
    <3>1. at \in SUBSET Nat /\ i \in at /\ \A k \in at : k <= i
      BY <1>1, <2>3
    <3>2. QED
      BY <3>1, MaxIs
  <2>5. y = IF s[i].type # type THEN Throw(x, "recoverable") ELSE [x EXCEPT !.goal = i - 1]
    BY <1>3, <2>3, <2>4 DEF EndScope
  <2>6. CASE s[i].type # type
    BY <2>2, <2>5, <2>6
  <2>7. CASE s[i].type = type
    BY <2>1, <2>5, <2>7
  <2>8. QED
    BY <2>6, <2>7
<1>4. QED
  BY <1>2, <1>3
-----------------------------------------------------------------------------
(* The vector of the scopes                                                 *)

\* It has at least the room that was reserved, and a pointer into it was only lost to a scope
\* as deep as that, or deeper.
Sound(depth, x) ==
    /\ {"err", "room", "stale"} \subseteq DOMAIN x
    /\ x.err \in {"ok", "recoverable", "fatal"}
    /\ x.room \in Nat /\ x.room >= depth
    /\ x.stale \in Nat /\ (x.stale = 0 \/ x.stale >= depth)

\* What changes neither the vector nor the exception keeps it sound.
LEMMA SoundSame ==
    ASSUME NEW depth \in Nat, NEW x, Sound(depth, x), NEW y, DOMAIN y = DOMAIN x, y.err = x.err,
           y.room = x.room, y.stale = x.stale
    PROVE  Sound(depth, y)
  BY DEF Sound

\* A thrown reader runs no loop.
LEMMA SoundThrow ==
    ASSUME NEW depth \in Nat, NEW x, Sound(depth, x), NEW e \in {"recoverable", "fatal"}
    PROVE  Sound(depth, Throw(x, e))
<1>1. CASE Ok(x)
  <2> DEFINE y == [x EXCEPT !.err = e, !.goal = NoGoal, !.stale = 0]
  <2>1. DOMAIN y = DOMAIN x /\ y.err = e /\ y.room = x.room /\ y.stale = 0
    BY DEF Sound
  <2> HIDE DEF y
  <2>2. Throw(x, e) = y
    BY <1>1 DEF Throw, y
  <2>3. QED
    BY <2>1, <2>2 DEF Sound
<1>2. CASE ~Ok(x)
  BY <1>2 DEF Throw
<1>3. QED
  BY <1>1, <1>2

\* The position, the last scope, all scopes, the goal or torn may change.
LEMMA SoundElse ==
    ASSUME NEW depth \in Nat, NEW x, Sound(depth, x), NEW s
    PROVE  /\ Sound(depth, Advance(x)) /\ Sound(depth, SetTop(x, s))
           /\ \A y : Sound(depth, TornBy(y, x))
           /\ Sound(depth, [x EXCEPT !.scopes = s]) /\ Sound(depth, [x EXCEPT !.goal = s])
           /\ Sound(depth, [x EXCEPT !.torn = s])
           /\ \A g : Sound(depth, [x EXCEPT !.scopes = s, !.goal = g])
<1>1. ASSUME NEW f \in {"pos", "scopes", "goal", "torn"}, NEW t PROVE Sound(depth, [x EXCEPT ![f] = t])
  BY <1>1 DEF Sound
<1>2. Sound(depth, Advance(x))
  BY <1>1 DEF Advance
<1>3. Sound(depth, SetTop(x, s))
  BY <1>1 DEF SetTop
<1>4. ASSUME NEW y PROVE Sound(depth, TornBy(y, x))
  BY <1>1 DEF TornBy
<1>5. ASSUME NEW g PROVE Sound(depth, [x EXCEPT !.scopes = s, !.goal = g])
  <2> DEFINE y == [x EXCEPT !.scopes = s, !.goal = g]
  <2>1. DOMAIN y = DOMAIN x /\ y.err = x.err /\ y.room = x.room /\ y.stale = x.stale
    BY DEF Sound
  <2> HIDE DEF y
  <2>2. Sound(depth, y)
    BY <2>1, SoundSame
  <2>3. QED
    BY <2>2 DEF y
<1>6. QED
  BY <1>1, <1>2, <1>3, <1>4, <1>5

\* A scope that is pushed finds room, or makes room.
LEMMA SoundNewScope ==
    ASSUME NEW depth \in Nat, NEW x, Sound(depth, x), NEW type, NEW n
    PROVE  Sound(depth, NewScope(x, type, n))
<1>1. Sound(depth, Grown(x))
  <2> DEFINE m == IF x.room = 0 THEN 1 ELSE 2 * x.room
             d == IF x.goal = NoGoal THEN x.stale ELSE x.room
  <2>1. m \in Nat /\ m >= depth /\ d \in Nat /\ (d = 0 \/ d >= depth)
    BY DEF Sound
  <2>2. Grown(x) = x \/ Grown(x) = [x EXCEPT !.room = m, !.stale = d]
    BY DEF Grown
  <2> HIDE DEF m, d
  <2>3. QED
    BY <2>1, <2>2 DEF Sound
<1> DEFINE h == Grown(x)
           t == Append(h.scopes, [type |-> type, key |-> FALSE, id |-> x.gen + 1,
                                  left |-> IF type = "object" THEN 2 * n ELSE n])
           g == h.gen + 1
<1>2. NewScope(x, type, n) = x \/ NewScope(x, type, n) = [h EXCEPT !.gen = g, !.scopes = t]
  BY DEF NewScope
<1> HIDE DEF h, t, g
<1>3. Sound(depth, [h EXCEPT !.gen = g, !.scopes = t])
  <2> DEFINE y == [h EXCEPT !.gen = g, !.scopes = t]
  <2>1. DOMAIN y = DOMAIN h /\ y.err = h.err /\ y.room = h.room /\ y.stale = h.stale
    BY <1>1 DEF Sound, h
  <2> HIDE DEF y
  <2>2. Sound(depth, h)
    BY <1>1 DEF h
  <2>3. Sound(depth, y)
    BY <2>1, <2>2, SoundSame
  <2>4. QED
    BY <2>3 DEF y
<1>4. QED
  BY <1>2, <1>3

\* Counting an element, and what is checked before one is read
LEMMA SoundSteps ==
    ASSUME NEW depth \in Nat, NEW x, Sound(depth, x)
    PROVE  /\ Sound(depth, StepContext(x)) /\ Sound(depth, StepOnSkip(x))
           /\ Sound(depth, VerifyNotKey(x))
           /\ \A in, kinds : Sound(depth, Take(in, x, kinds))
<1>1. Sound(depth, StepContext(x))
  <2> DEFINE e == Top(x)
             next == SetTop(x, [e EXCEPT !.left = Less(e), !.key = IF KeyOrder(e) THEN FALSE ELSE e.key])
  <2>1. Sound(depth, next)
    BY SoundElse
  <2>2. StepContext(x) \in {x, next, Throw(x, "recoverable"), Throw(next, "recoverable")}
    BY DEF StepContext
  <2> HIDE DEF next
  <2>3. QED
    BY <2>1, <2>2, SoundThrow
<1>2. Sound(depth, StepOnSkip(x))
  <2> DEFINE next == SetTop(x, [Top(x) EXCEPT !.left = Less(Top(x))])
  <2>1. Sound(depth, next)
    BY SoundElse
  <2>2. StepOnSkip(x) \in {x, next, Throw(next, "recoverable")}
    BY DEF StepOnSkip
  <2> HIDE DEF next
  <2>3. QED
    BY <2>1, <2>2, SoundThrow
<1>3. Sound(depth, VerifyNotKey(x))
  BY SoundThrow DEF VerifyNotKey
<1>4. \A in, kinds : Sound(depth, Take(in, x, kinds))
  BY SoundThrow, SoundElse DEF Take
<1>5. QED
  BY <1>1, <1>2, <1>3, <1>4

\* The functions that open a scope
LEMMA SoundBegins ==
    ASSUME NEW depth \in Nat, NEW x, Sound(depth, x), NEW in
    PROVE  /\ Sound(depth, BeginArray(in, x)) /\ Sound(depth, BeginObject(in, x))
           /\ Sound(depth, BeginBinary(in, x))
<1>1. ASSUME NEW v, Sound(depth, v), NEW kind, NEW type PROVE Sound(depth, Opened(in, v, kind, type))
  <2> DEFINE h == Take(in, v, {kind})
             y == StepContext(h)
  <2>1. Sound(depth, y)
    BY <1>1, SoundSteps
  <2>2. Opened(in, v, kind, type) \in {NewScope(y, type, in[v.pos].n), TornBy(h, y), y}
    BY DEF Opened
  <2> HIDE DEF y, h
  <2>3. Sound(depth, NewScope(y, type, in[v.pos].n))
    BY <2>1, SoundNewScope
  <2>4. Sound(depth, TornBy(h, y))
    BY <2>1, SoundElse
  <2>5. QED
    BY <2>1, <2>2, <2>3, <2>4
<1>2. Sound(depth, VerifyNotKey(x))
  BY SoundSteps
<1>3. QED
  BY <1>1, <1>2 DEF BeginArray, BeginObject, BeginBinary

\* The functions that read an element
LEMMA SoundReads ==
    ASSUME NEW depth \in Nat, NEW x, Sound(depth, x), NEW in
    PROVE  Sound(depth, ReadNumber(in, x)) /\ Sound(depth, ReadString(in, x))
<1>1. Sound(depth, ReadNumber(in, x))
  BY SoundSteps DEF ReadNumber
<1>2. Sound(depth, ReadString(in, x))
  <2> DEFINE h == Take(in, x, {"str"})
  <2>1. Sound(depth, StepContext(h))
    BY SoundSteps
  <2> HIDE DEF h
  <2>2. Sound(depth, TornBy(h, StepContext(h)))
    BY <2>1, SoundElse
  <2>3. QED
    BY <2>2 DEF ReadString, h
<1>3. QED
  BY <1>1, <1>2

\* The functions that skip an element
LEMMA SoundSkips ==
    ASSUME NEW depth \in Nat, NEW V, NEW in \in Seq(ElementType(V)), NEW x, Sound(depth, x),
           x.pos \in Nat \ {0}
    PROVE  Sound(depth, SkipOnce(in, x)) /\ Sound(depth, Skip(in, x))
<1>1. Sound(depth, SkipOnce(in, x))
  <2>1. /\ Sound(depth, StepOnSkip(Advance(x))) /\ Sound(depth, Advance(StepOnSkip(x)))
        /\ Sound(depth, Throw(x, "fatal"))
    BY SoundSteps, SoundElse, SoundThrow
  <2>2. Sound(depth, TornBy(x, StepOnSkip(Advance(x))))
    BY <2>1, SoundElse
  <2>3. CASE x.pos > Len(in)
    BY <2>1, <2>3 DEF SkipOnce
  <2>4. CASE ~(x.pos > Len(in))
    <3>1. x.pos \in 1 .. Len(in)
      BY <2>4, LenProperties
    <3>2. in[x.pos] \in ElementType(V)
      BY <3>1, ElementOfSeq
    <3>3. in[x.pos].k \in {"num", "nil", "str", "bin", "ext", "arr", "map"}
      BY <3>2 DEF ElementType, Kinds, Flat
    <3>4. QED
      BY <2>1, <2>2, <2>4, <3>3, SoundBegins DEF SkipOnce
  <2>5. QED
    BY <2>3, <2>4
<1>2. Sound(depth, Skip(in, x))
  BY <1>1, SoundElse DEF Skip
<1>3. QED
  BY <1>1, <1>2

\* The functions of binaries and keys, and the end of a scope
LEMMA SoundEnds ==
    ASSUME NEW depth \in Nat, NEW x, Sound(depth, x)
    PROVE  /\ \A n : Sound(depth, ReadBinary(x, n))
           /\ Sound(depth, EndBinary(x)) /\ Sound(depth, ReadKeyNext(x))
           /\ \A type, id : Sound(depth, EndScope(x, type, id))
<1>1. ASSUME NEW n PROVE Sound(depth, ReadBinary(x, n))
  BY SoundThrow, SoundElse DEF ReadBinary
<1>2. Sound(depth, EndBinary(x))
  BY SoundThrow, SoundElse DEF EndBinary
<1>3. Sound(depth, ReadKeyNext(x))
  BY SoundThrow, SoundElse DEF ReadKeyNext
<1>4. ASSUME NEW type, NEW id PROVE Sound(depth, EndScope(x, type, id))
  BY SoundThrow, SoundElse DEF EndScope
<1>5. QED
  BY <1>1, <1>2, <1>3, <1>4

\* One turn of the loop
LEMMA SoundTurn ==
    ASSUME NEW depth \in Nat, NEW V, NEW in \in Seq(ElementType(V)), NEW x \in ReaderType,
           Sound(depth, x)
    PROVE  Sound(depth, BreakTurn(in, x))
<1>1. CASE Top(x).left = 0
  BY <1>1, SoundElse DEF BreakTurn
<1>2. CASE Top(x).left # 0 /\ Top(x).type = "binary"
  <2> DEFINE y == Throw(x, "fatal")
  <2>1. Sound(depth, y)
    BY SoundThrow
  <2> HIDE DEF y
  <2>2. Sound(depth, [y EXCEPT !.torn = TRUE])
    BY <2>1, SoundElse
  <2>3. QED
    BY <1>2, <2>2 DEF BreakTurn, y
<1>3. CASE Top(x).left # 0 /\ Top(x).type # "binary"
  <2> DEFINE y == SetTop(x, [Top(x) EXCEPT !.key = @ \/ KeyOrder(Top(x))])
  <2>1. Sound(depth, y)
    BY SoundElse
  <2>2. y.pos \in Nat \ {0}
    BY DEF SetTop, ReaderType
  <2> HIDE DEF y
  <2>3. Sound(depth, SkipOnce(in, y))
    BY <2>1, <2>2, SoundSkips
  <2>4. QED
    BY <1>3, <2>3 DEF BreakTurn, y
<1>4. QED
  BY <1>1, <1>2, <1>3

\* Nothing is known of a reader after a turn of the loop through a pointer that dangles.
LEMMA DanglingIs ==
    ASSUME NEW in, NEW x \in ReaderType, Ok(x), Dangles(x)
    PROVE  BreakStep(in, x).err = "undefined" /\ BreakStep(in, x).scopes = x.scopes
<1> DEFINE z == [x EXCEPT !.goal = NoGoal, !.stale = 0]
<1>1. z.scopes = x.scopes /\ DOMAIN z = DOMAIN x /\ "err" \in DOMAIN z /\ "scopes" \in DOMAIN z
  BY DEF ReaderType
<1>2. BreakStep(in, x) = [z EXCEPT !.err = "undefined"]
  BY DEF BreakStep, Throw, ReaderType
<1> HIDE DEF z
<1>3. QED
  BY <1>1, <1>2

\* Such a turn is in a scope beyond those reserved, and any other keeps the vector sound.
LEMMA SoundBreakStep ==
    ASSUME NEW depth \in Nat, NEW V, NEW in \in Seq(ElementType(V)), NEW x \in ReaderType, Ok(x),
           Sound(depth, x)
    PROVE  /\ Dangles(x) => x.scopes # <<>> /\ Len(x.scopes) >= depth
           /\ ~Dangles(x) => Sound(depth, BreakStep(in, x))
<1>1. ASSUME Dangles(x) PROVE x.scopes # <<>> /\ Len(x.scopes) >= depth
  <2>1. Len(x.scopes) # 0 /\ Len(x.scopes) >= depth
    BY <1>1 DEF Dangles, Sound
  <2>2. QED
    BY <2>1, EmptySeq
<1>2. ASSUME ~Dangles(x) PROVE Sound(depth, BreakStep(in, x))
  BY <1>2, SoundTurn DEF BreakStep
<1>3. QED
  BY <1>1, <1>2

\* A reader that is used again after an exception
LEMMA SoundAgain ==
    ASSUME NEW depth \in Nat, NEW x, Sound(depth, x)
    PROVE  Sound(depth, [x EXCEPT !.err = "ok", !.goal = NoGoal])
<1> DEFINE y == [x EXCEPT !.err = "ok", !.goal = NoGoal]
<1>1. DOMAIN y = DOMAIN x /\ y.err = "ok" /\ y.room = x.room /\ y.stale = x.stale
  BY DEF Sound
<1> HIDE DEF y
<1>2. Sound(depth, y)
  BY <1>1 DEF Sound
<1>3. QED
  BY <1>2 DEF y

\* A reader that was just constructed
LEMMA SoundStart ==
    ASSUME NEW depth \in Nat
    PROVE  Sound(depth, Start(depth))
  BY DEF Sound, Start
=============================================================================
