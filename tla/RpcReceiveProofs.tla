--------------------------- MODULE RpcReceiveProofs ---------------------------
(***************************************************************************)
(* Theorems about RpcReceive, for any number of messages, of any content    *)
(* with one element each, parameter types of any depth, and any number of   *)
(* methods and of requests that wait for a reply.  The elements of all      *)
(* messages together are fewer than elems_left, a uint32_t, can count.      *)
(*                                                                          *)
(* BoundaryKept says that the reader is at the first byte of a message      *)
(* whenever one is awaited.  That is no invariant of the steps by itself:   *)
(* while a message is handled, the reader must be inside of it, in a scope  *)
(* for each end_array that a caller on the stack will ask for, so that what *)
(* ends a container ends that one, and what leaves the message ends there.  *)
(* This is the invariant Course.  It relates three things:                  *)
(*                                                                          *)
(*   - the elements of the stream and the reader's scopes (Inside).  The    *)
(*     reader is in step with the elements, by the proofs about             *)
(*     msgpack::reader, or astray: after a call was refused one of its      *)
(*     scopes counts more elements than the stream has, until the reader    *)
(*     throws.  A reader that is astray never leaves the message, because   *)
(*     a scope is left only when all of its elements were read.             *)
(*   - the scopes and the call stack (Framed): what is restored or dumped   *)
(*     next is an element of the scope on top, and each entry that ends a   *)
(*     container has its scope, in the order of the stack.                  *)
(*   - the header that was read and the message that it is of (Heading,     *)
(*     Identified).                                                         *)
(*                                                                          *)
(* For AnsweredOnce, Replied says of each request whether it is answered,   *)
(* still to be answered by the handler that it is posted to, or being read. *)
(***************************************************************************)
EXTENDS RpcReceive, MsgpackProofs

-----------------------------------------------------------------------------
(* The stream of a connection                                               *)

\* A function on the first numbers
Listed(f, n) == f = [i \in 1 .. n |-> f[i]]

\* It is a sequence.
LEMMA ListedSeq ==
    ASSUME NEW n \in Nat, NEW f, Listed(f, n), NEW S, \A i \in 1 .. n : f[i] \in S
    PROVE  f \in Seq(S) /\ Len(f) = n /\ DOMAIN f = 1 .. n
<1>1. f \in [1 .. n -> S]
  BY DEF Listed
<1>2. [1 .. n -> S] \in {[1 .. k -> S] : k \in Nat}
  OBVIOUS
<1>3. f \in Seq(S)
  <2>1. f \in UNION {[1 .. k -> S] : k \in Nat}
    BY <1>1, <1>2, Zenon
  <2>2. QED
    BY <2>1, SeqDef, Zenon
<1>4. Len(f) \in Nat /\ DOMAIN f = 1 .. Len(f) /\ DOMAIN f = 1 .. n
  BY <1>1, <1>3, LenProperties
<1>5. Len(f) = n
  <2>1. \A k \in Nat : 1 .. k = 1 .. n => ~(k < n) /\ ~(n < k)
    OBVIOUS
  <2> DEFINE l == Len(f)
  <2>2. l \in Nat /\ 1 .. l = 1 .. n
    BY <1>4, Zenon
  <2> HIDE DEF l
  <2>3. ~(l < n) /\ ~(n < l)
    BY <2>1, <2>2, Zenon
  <2>4. l = n
    BY <2>2, <2>3
  <2>5. QED
    BY <2>4 DEF l
<1>6. QED
  BY <1>3, <1>4, <1>5

\* The concatenation of sequences, one by one.
FlatAlong(ss, n, g) == /\ g[1] = ss[1]
                       /\ \A i \in 2 .. n : g[i] = g[i - 1] \o ss[i]
SameUpTo(ss, tt, n, m) == \A i \in 1 .. n : i <= m => ss[i] = tt[i]
Flattens(ss, n, f) == f = [i \in 1 .. n |-> IF i = 1 THEN ss[i] ELSE f[i - 1] \o ss[i]]

\* FlattenSeq is defined by a recursive function, which exists.
LEMMA FlattensExist ==
    ASSUME NEW ss
    PROVE  \A k \in Nat : \E f : Flattens(ss, k, f)
<1> DEFINE S == {k \in Nat : \E f : Flattens(ss, k, f)}
<1>1. 0 \in S
  <2> DEFINE f == [i \in 1 .. 0 |-> <<>>]
  <2>1. Flattens(ss, 0, f)
    BY DEF Flattens
  <2>2. QED
    BY <2>1
<1>2. ASSUME NEW k \in Nat, k \in S PROVE k + 1 \in S
  <2>1. PICK f : Flattens(ss, k, f)
    BY <1>2
  <2> DEFINE h == [i \in 1 .. k + 1 |-> IF i = k + 1 THEN IF i = 1 THEN ss[i] ELSE f[i - 1] \o ss[i]
                                       ELSE f[i]]
  <2>2. ASSUME NEW i \in 1 .. k + 1
        PROVE  h[i] = IF i = 1 THEN ss[i] ELSE h[i - 1] \o ss[i]
    <3>1. CASE i = 1 /\ k = 0
      BY <3>1
    <3>2. CASE i = 1 /\ k # 0
      <4>1. h[1] = f[1] /\ f[1] = ss[1]
        BY <2>1, <3>2 DEF Flattens
      <4>2. QED
        BY <3>2, <4>1
    <3>3. CASE i # 1
      <4>1. i - 1 \in 1 .. k /\ i - 1 \in 1 .. k + 1 /\ i - 1 # k + 1
        BY <3>3
      <4>2. h[i - 1] = f[i - 1]
        BY <4>1
      <4>3. CASE i = k + 1
        BY <3>3, <4>2, <4>3
      <4>4. CASE i # k + 1
        <5>1. i \in 1 .. k
          BY <4>4
        <5>2. f[i] = f[i - 1] \o ss[i]
          BY <2>1, <3>3, <5>1 DEF Flattens
        <5>3. QED
          BY <3>3, <4>2, <4>4, <5>2
      <4>5. QED
        BY <4>3, <4>4
    <3>4. QED
      BY <3>1, <3>2, <3>3
  <2>3. Flattens(ss, k + 1, h)
    BY <2>2 DEF Flattens
  <2>4. QED
    BY <2>3
<1>3. \A k \in Nat : k \in S
  <2> HIDE DEF S
  <2>1. QED
    BY <1>1, <1>2, SetInduction
<1>4. QED
  BY <1>3

\* FlattenSeq concatenates one by one.
LEMMA FlattenAlong ==
    ASSUME NEW ss, NEW n \in Nat \ {0}, Len(ss) = n
    PROVE  \E g : FlatAlong(ss, n, g) /\ FlattenSeq(ss) = g[n]
<1> DEFINE f == CHOOSE h : Flattens(ss, n, h)
<1>1. Flattens(ss, n, f)
  <2>1. \E h : Flattens(ss, n, h)
    BY FlattensExist
  <2>2. QED
    BY <2>1, Zenon
<1>2. FlattenSeq(ss) = f[n]
  BY DEF FlattenSeq, Flattens
<1> HIDE DEF f
<1>3. f[1] = ss[1]
  BY <1>1 DEF Flattens
<1>4. ASSUME NEW i \in 2 .. n PROVE f[i] = f[i - 1] \o ss[i]
  <2>1. i \in 1 .. n /\ i # 1
    OBVIOUS
  <2>2. QED
    BY <1>1, <2>1 DEF Flattens
<1>5. QED
  BY <1>2, <1>3, <1>4 DEF FlatAlong

\* Nothing else does.
LEMMA FlatAlongSame ==
    ASSUME NEW ss, NEW tt, NEW n \in Nat, NEW m \in Nat, SameUpTo(ss, tt, n, m),
           NEW g, NEW h, FlatAlong(ss, n, g), FlatAlong(tt, m, h)
    PROVE  SameUpTo(g, h, n, m)
<1> DEFINE S == {k \in Nat : k + 1 <= n /\ k + 1 <= m => g[k + 1] = h[k + 1]}
<1>1. 0 \in S
  <2>1. SUFFICES ASSUME 1 <= n, 1 <= m PROVE g[1] = h[1]
    OBVIOUS
  <2>2. ss[1] = tt[1]
    BY <2>1 DEF SameUpTo
  <2>3. QED
    BY <2>2 DEF FlatAlong
<1>2. ASSUME NEW k \in Nat, k \in S PROVE k + 1 \in S
  <2>1. SUFFICES ASSUME (k + 1) + 1 <= n, (k + 1) + 1 <= m PROVE g[(k + 1) + 1] = h[(k + 1) + 1]
    OBVIOUS
  <2>2. g[k + 1] = h[k + 1]
    BY <1>2, <2>1
  <2>3. /\ (k + 1) + 1 \in 2 .. n /\ (k + 1) + 1 \in 2 .. m /\ ((k + 1) + 1) - 1 = k + 1
        /\ (k + 1) + 1 \in 1 .. n
    BY <2>1
  <2>4. g[(k + 1) + 1] = g[k + 1] \o ss[(k + 1) + 1] /\ h[(k + 1) + 1] = h[k + 1] \o tt[(k + 1) + 1]
    BY <2>3 DEF FlatAlong
  <2>5. ss[(k + 1) + 1] = tt[(k + 1) + 1]
    BY <2>1, <2>3 DEF SameUpTo
  <2>6. QED
    BY <2>2, <2>4, <2>5
<1>3. \A k \in Nat : k \in S
  <2> HIDE DEF S
  <2>1. QED
    BY <1>1, <1>2, SetInduction
<1>4. ASSUME NEW k \in 1 .. n, k <= m PROVE g[k] = h[k]
  <2>1. k - 1 \in Nat /\ (k - 1) + 1 = k
    OBVIOUS
  <2>2. k - 1 \in S
    BY <1>3, <2>1
  <2>3. QED
    BY <1>4, <2>1, <2>2
<1>5. QED
  BY <1>4 DEF SameUpTo

\* The first k messages, as they are in the stream
Part(m, i)  == Numbered(m[i].elements, i)
Prefix(m, k) == FlattenSeq([i \in 1 .. k |-> Part(m, i)])

\* Without a message there is nothing.
LEMMA PrefixEmpty ==
    ASSUME NEW m
    PROVE  Prefix(m, 0) = <<>>
<1>1. [i \in 1 .. 0 |-> Part(m, i)] = <<>>
  OBVIOUS
<1>2. Len(<<>>) = 0
  OBVIOUS
<1>3. QED
  BY <1>1, <1>2 DEF Prefix, FlattenSeq

\* One message is added to those before.
LEMMA PrefixStep ==
    ASSUME NEW m, NEW k \in Nat, NEW X, Part(m, k + 1) \in Seq(X)
    PROVE  Prefix(m, k + 1) = Prefix(m, k) \o Part(m, k + 1)
<1> DEFINE ss(n) == [i \in 1 .. n |-> Part(m, i)]
<1>1. \A n \in Nat : Len(ss(n)) = n /\ \A i \in 1 .. n : ss(n)[i] = Part(m, i)
  <2>1. ASSUME NEW n \in Nat PROVE Len(ss(n)) = n /\ \A i \in 1 .. n : ss(n)[i] = Part(m, i)
    <3> DEFINE t == ss(n)
               Z == {Part(m, j) : j \in 1 .. n}
    <3>1. \A i \in 1 .. n : t[i] = Part(m, i)
      OBVIOUS
    <3>2. Listed(t, n)
      BY DEF Listed
    <3>3. \A i \in 1 .. n : t[i] \in Z
      BY <3>1
    <3> HIDE DEF t, Z
    <3>4. Len(t) = n
      BY <3>2, <3>3, ListedSeq
    <3>5. QED
      BY <3>1, <3>4 DEF t
  <2>2. QED
    BY <2>1
<1>2. PICK g : FlatAlong(ss(k + 1), k + 1, g) /\ Prefix(m, k + 1) = g[k + 1]
  <2>1. k + 1 \in Nat \ {0} /\ Len(ss(k + 1)) = k + 1
    BY <1>1
  <2> HIDE DEF ss
  <2>2. \E g : FlatAlong(ss(k + 1), k + 1, g) /\ FlattenSeq(ss(k + 1)) = g[k + 1]
    BY <2>1, FlattenAlong
  <2>3. QED
    BY <2>2 DEF Prefix, ss
<1>3. CASE k = 0
  <2>1. Prefix(m, k + 1) = Part(m, 1)
    <3>1. 1 \in 1 .. k + 1
      BY <1>3
    <3>2. g[1] = ss(k + 1)[1] /\ ss(k + 1)[1] = Part(m, 1)
      BY <1>1, <1>2, <3>1 DEF FlatAlong
    <3>3. QED
      BY <1>2, <1>3, <3>2
  <2>2. <<>> \o Part(m, 1) = Part(m, 1)
    BY <1>3, ConcatEmptySeq
  <2>3. QED
    BY <1>3, <2>1, <2>2, PrefixEmpty
<1>4. CASE k # 0
  <2>1. PICK h : FlatAlong(ss(k), k, h) /\ Prefix(m, k) = h[k]
    <3>1. k \in Nat \ {0} /\ Len(ss(k)) = k
      BY <1>1, <1>4
    <3> HIDE DEF ss
    <3>2. \E h : FlatAlong(ss(k), k, h) /\ FlattenSeq(ss(k)) = h[k]
      BY <3>1, FlattenAlong
    <3>3. QED
      BY <3>2 DEF Prefix, ss
  <2>2. \A i \in 1 .. k : i <= k + 1 => ss(k)[i] = ss(k + 1)[i]
    BY <1>1
  <2>3. h[k] = g[k]
    <3>1. k \in Nat /\ k + 1 \in Nat /\ k \in 1 .. k /\ k <= k + 1
      BY <1>4
    <3> HIDE DEF ss
    <3>2. FlatAlong(ss(k), k, h) /\ FlatAlong(ss(k + 1), k + 1, g)
      BY <1>2, <2>1
    <3> DEFINE a == ss(k)
               b == ss(k + 1)
    <3>4. SameUpTo(a, b, k, k + 1)
      BY <2>2 DEF SameUpTo
    <3>5. FlatAlong(a, k, h) /\ FlatAlong(b, k + 1, g)
      BY <3>2
    <3> HIDE DEF a, b
    <3>6. SameUpTo(h, g, k, k + 1)
      BY <3>1, <3>4, <3>5, FlatAlongSame
    <3>7. QED
      BY <3>1, <3>6 DEF SameUpTo
  <2>4. g[k + 1] = g[k] \o ss(k + 1)[k + 1]
    <3>1. k + 1 \in 2 .. k + 1 /\ (k + 1) - 1 = k
      BY <1>4
    <3> HIDE DEF ss
    <3>2. QED
      BY <1>2, <3>1 DEF FlatAlong
  <2>5. ss(k + 1)[k + 1] = Part(m, k + 1)
    BY <1>1
  <2>6. QED
    BY <1>2, <2>1, <2>3, <2>4, <2>5
<1>5. QED
  BY <1>3, <1>4

\* The messages of a connection, and the number of elements of the first k of them
Values        == Int \cup STRING
Connection(m) == \E n \in 1 .. MaxMessages : m \in [1 .. n -> Messages]
Bound(m, k)   == Len(Prefix(m, k))

\* Numbering a message changes no more than the values of its numbers.
LEMMA PartIs ==
    ASSUME NEW m, NEW i \in Int, IsStream(m[i].elements)
    PROVE  /\ Part(m, i) \in Seq(ElementType(Values)) /\ Len(Part(m, i)) = Len(m[i].elements)
           /\ m[i].elements \in Seq(ElementType(Values)) /\ Len(m[i].elements) \in Nat
           /\ \A j \in 1 .. Len(m[i].elements) :
                 LET e == m[i].elements[j]
                     f == Part(m, i)[j]
                 IN  /\ f.k = e.k /\ f.n = e.n /\ e.n \in Nat
                     /\ f.v = IF e.k = "num" /\ e.v = OwnNumber THEN i ELSE e.v
                     /\ e.k = "num" => e.v \in Int
<1> DEFINE s == m[i].elements
           n == Len(s)
           t == Part(m, i)
<1>1. /\ n \in Nat /\ Listed(s, n)
      /\ \A j \in 1 .. n : s[j] \in [k : Kinds, n : Nat, v : IF s[j].k = "num" THEN Int ELSE STRING]
  BY DEF IsStream, IsElement, Listed
<1>2. DOMAIN s = 1 .. n
  BY <1>1 DEF Listed
<1>3. \A j \in 1 .. n : s[j] \in ElementType(Values)
  BY <1>1 DEF ElementType, Values
<1> DEFINE num(j) == IF s[j].k = "num" /\ s[j].v = OwnNumber THEN [s[j] EXCEPT !.v = i] ELSE s[j]
<1>4. t = [j \in 1 .. n |-> num(j)]
  BY <1>2 DEF Part, Numbered
<1> HIDE DEF s, t, n
<1>5. ASSUME NEW j \in 1 .. n
      PROVE  /\ num(j) \in ElementType(Values)
             /\ num(j).k = s[j].k /\ num(j).n = s[j].n /\ s[j].n \in Nat
             /\ num(j).v = IF s[j].k = "num" /\ s[j].v = OwnNumber THEN i ELSE s[j].v
             /\ s[j].k = "num" => s[j].v \in Int
  <2> DEFINE e == s[j]
  <2>1. e \in [k : Kinds, n : Nat, v : Values] /\ (e.k = "num" => e.v \in Int)
    <3>1. e \in [k : Kinds, n : Nat, v : IF e.k = "num" THEN Int ELSE STRING]
      BY <1>1
    <3> HIDE DEF e
    <3>2. QED
      BY <3>1 DEF Values
  <2> HIDE DEF e
  <2>2. i \in Values
    BY DEF Values
  <2> DEFINE w == IF e.k = "num" /\ e.v = OwnNumber THEN [e EXCEPT !.v = i] ELSE e
  <2>3. /\ w \in [k : Kinds, n : Nat, v : Values] /\ w.k = e.k /\ w.n = e.n /\ e.n \in Nat
        /\ w.v = IF e.k = "num" /\ e.v = OwnNumber THEN i ELSE e.v
    BY <2>1, <2>2
  <2>4. w = num(j)
    BY DEF e
  <2> HIDE DEF w
  <2>5. num(j) \in ElementType(Values)
    BY <2>3, <2>4 DEF ElementType
  <2>6. QED
    BY <2>1, <2>3, <2>4, <2>5 DEF e
<1>6. Listed(t, n) /\ \A j \in 1 .. n : t[j] = num(j)
  BY <1>4 DEF Listed
<1>7. t \in Seq(ElementType(Values)) /\ Len(t) = n
  <2>1. \A j \in 1 .. n : t[j] \in ElementType(Values)
    BY <1>5, <1>6
  <2>2. Listed(t, n) /\ n \in Nat
    BY <1>1, <1>6
  <2>3. QED
    BY <2>1, <2>2, ListedSeq
<1>8. s \in Seq(ElementType(Values))
  BY <1>1, <1>3, ListedSeq DEF n
<1>9. QED
  BY <1>1, <1>5, <1>6, <1>7, <1>8 DEF s, t, n

\* Each message of a connection is a stream of its own, which is at its end after its last
\* element and nowhere before.
LEMMA MessageIs ==
    ASSUME NEW m, Connection(m)
    PROVE  /\ m \in Seq(Messages) /\ Len(m) \in 1 .. MaxMessages /\ DOMAIN m = 1 .. Len(m)
           /\ \A i \in 1 .. Len(m) :
                 /\ m[i] \in Messages /\ IsStream(m[i].elements)
                 /\ m[i].elements # <<>> /\ Remaining(m[i].elements) = <<>>
                 /\ \A j \in 1 .. Len(m[i].elements) - 1 : Remaining(SubSeq(m[i].elements, 1, j)) # <<>>
                 /\ Len(m[i].elements) * MaxMessages < Wrapped
<1>1. PICK n \in 1 .. MaxMessages : m \in [1 .. n -> Messages]
  BY DEF Connection
<1>2. n \in Nat /\ Listed(m, n) /\ \A i \in 1 .. n : m[i] \in Messages
  BY <1>1, BoundsAssumption DEF Listed
<1>3. m \in Seq(Messages) /\ Len(m) = n /\ DOMAIN m = 1 .. n
  BY <1>2, ListedSeq
<1>4. QED
  BY <1>1, <1>2, <1>3, MessagesAssumption

\* The prefixes are streams, each with one message more than the one before.
LEMMA PrefixIs ==
    ASSUME NEW m, Connection(m)
    PROVE  \A k \in 0 .. Len(m) :
              /\ Prefix(m, k) \in Seq(ElementType(Values)) /\ Bound(m, k) \in Nat
              /\ k # 0 => /\ Prefix(m, k) = Prefix(m, k - 1) \o Part(m, k)
                          /\ Bound(m, k) = Bound(m, k - 1) + Len(m[k].elements)
                          /\ \A i \in 1 .. Bound(m, k - 1) : Prefix(m, k)[i] = Prefix(m, k - 1)[i]
                          /\ \A j \in 1 .. Len(m[k].elements) :
                                Prefix(m, k)[Bound(m, k - 1) + j] = Part(m, k)[j]
<1> DEFINE E == ElementType(Values)
           Good(k) == /\ Prefix(m, k) \in Seq(E) /\ Bound(m, k) \in Nat
                      /\ k # 0 => /\ Prefix(m, k) = Prefix(m, k - 1) \o Part(m, k)
                                  /\ Bound(m, k) = Bound(m, k - 1) + Len(m[k].elements)
                                  /\ \A i \in 1 .. Bound(m, k - 1) : Prefix(m, k)[i] = Prefix(m, k - 1)[i]
                                  /\ \A j \in 1 .. Len(m[k].elements) :
                                        Prefix(m, k)[Bound(m, k - 1) + j] = Part(m, k)[j]
           S == {k \in Nat : k <= Len(m) => Good(k)}
<1>1. Len(m) \in Nat
  BY MessageIs, BoundsAssumption
<1>2. 0 \in S
  <2>1. Prefix(m, 0) \in Seq(E) /\ Bound(m, 0) \in Nat
    <3> HIDE DEF E
    <3>1. <<>> \in Seq(E) /\ Len(<<>>) = 0
      OBVIOUS
    <3>2. Prefix(m, 0) = <<>>
      BY PrefixEmpty
    <3>3. Prefix(m, 0) \in Seq(E)
      BY <3>1, <3>2, Zenon
    <3>4. Bound(m, 0) = 0
      BY <3>1, <3>2 DEF Bound
    <3>5. QED
      BY <3>3, <3>4
  <2>2. QED
    BY <2>1
<1>3. ASSUME NEW k \in Nat, k \in S PROVE k + 1 \in S
  <2>1. SUFFICES ASSUME k + 1 <= Len(m) PROVE Good(k + 1)
    OBVIOUS
  <2>2. Prefix(m, k) \in Seq(E) /\ Bound(m, k) \in Nat
    BY <1>1, <1>3, <2>1
  <2>3. k + 1 \in 1 .. Len(m) /\ k + 1 \in Int /\ (k + 1) - 1 = k /\ k + 1 # 0
    BY <1>1, <2>1
  <2>4. IsStream(m[k + 1].elements)
    BY <2>3, MessageIs
  <2>5. /\ Part(m, k + 1) \in Seq(E) /\ Len(Part(m, k + 1)) = Len(m[k + 1].elements)
        /\ Len(m[k + 1].elements) \in Nat
    BY <2>3, <2>4, PartIs
  <2>6. Prefix(m, k + 1) = Prefix(m, k) \o Part(m, k + 1)
    BY <2>5, PrefixStep
  <2> DEFINE a == Prefix(m, k)
             b == Part(m, k + 1)
             c == Prefix(m, k + 1)
  <2>7. a \in Seq(E) /\ b \in Seq(E) /\ c = a \o b
    BY <2>2, <2>5, <2>6
  <2> HIDE DEF a, b, c, E
  <2>8. /\ c \in Seq(E) /\ Len(c) = Len(a) + Len(b) /\ Len(a) \in Nat /\ Len(b) \in Nat
        /\ \A i \in 1 .. Len(c) : c[i] = IF i <= Len(a) THEN a[i] ELSE b[i - Len(a)]
    BY <2>7, ConcatProperties, LenProperties
  <2>9. \A i \in 1 .. Len(a) : c[i] = a[i]
    BY <2>8
  <2>10. \A j \in 1 .. Len(b) : c[Len(a) + j] = b[j]
    <3>1. ASSUME NEW j \in 1 .. Len(b) PROVE c[Len(a) + j] = b[j]
      <4>1. Len(a) + j \in 1 .. Len(c) /\ ~(Len(a) + j <= Len(a)) /\ (Len(a) + j) - Len(a) = j
        BY <2>8
      <4>2. QED
        BY <2>8, <4>1
    <3>2. QED
      BY <3>1
  <2>11. Bound(m, k + 1) = Bound(m, k) + Len(m[k + 1].elements) /\ Bound(m, k + 1) \in Nat
    BY <2>5, <2>8 DEF Bound, a, b, c
  <2>12. QED
    BY <2>3, <2>5, <2>6, <2>8, <2>9, <2>10, <2>11 DEF Bound, a, b, c
<1>4. \A k \in Nat : k \in S
  <2> HIDE DEF S
  <2>1. QED
    BY <1>2, <1>3, SetInduction
<1>5. QED
  BY <1>1, <1>4

\* The stream of a connection begins with each of the prefixes.
LEMMA PrefixOf ==
    ASSUME NEW m, Connection(m), NEW k \in 0 .. Len(m)
    PROVE  \A l \in k .. Len(m) :
              /\ Bound(m, k) <= Bound(m, l)
              /\ \A i \in 1 .. Bound(m, k) : Prefix(m, l)[i] = Prefix(m, k)[i]
<1> DEFINE Good(l) == /\ Bound(m, k) <= Bound(m, l)
                      /\ \A i \in 1 .. Bound(m, k) : Prefix(m, l)[i] = Prefix(m, k)[i]
           S == {j \in Nat : k + j <= Len(m) => Good(k + j)}
<1>1. Len(m) \in Nat /\ k \in Nat
  BY MessageIs, BoundsAssumption
<1>2. \A j \in 0 .. Len(m) : Bound(m, j) \in Nat
  BY PrefixIs
<1>3. 0 \in S
  BY <1>1, <1>2
<1>4. ASSUME NEW j \in Nat, j \in S PROVE j + 1 \in S
  <2>1. SUFFICES ASSUME k + (j + 1) <= Len(m) PROVE Good(k + (j + 1))
    OBVIOUS
  <2> DEFINE l == k + j
             n == k + (j + 1)
  <2>2. n - 1 = l /\ n # 0 /\ n \in 0 .. Len(m) /\ l \in 0 .. Len(m) /\ n \in 1 .. Len(m)
    BY <1>1, <2>1
  <2>3. Good(l)
    BY <1>1, <1>4, <2>1
  <2> HIDE DEF l, n
  <2>4. /\ Bound(m, n) = Bound(m, l) + Len(m[n].elements)
        /\ \A i \in 1 .. Bound(m, l) : Prefix(m, n)[i] = Prefix(m, l)[i]
    <3>1. /\ Bound(m, n) = Bound(m, n - 1) + Len(m[n].elements)
          /\ \A i \in 1 .. Bound(m, n - 1) : Prefix(m, n)[i] = Prefix(m, n - 1)[i]
      BY <2>2, PrefixIs
    <3>2. QED
      BY <2>2, <3>1
  <2>5. Len(m[n].elements) \in Nat
    BY <2>2, MessageIs DEF IsStream
  <2>6. Bound(m, k) \in Nat /\ Bound(m, l) \in Nat
    BY <1>1, <1>2, <2>2
  <2>7. Good(n)
    BY <2>3, <2>4, <2>5, <2>6
  <2>8. QED
    BY <2>7 DEF n
<1>5. \A j \in Nat : j \in S
  <2> HIDE DEF S
  <2>1. QED
    BY <1>3, <1>4, SetInduction
<1>6. ASSUME NEW l \in k .. Len(m) PROVE Good(l)
  <2>1. l - k \in Nat /\ k + (l - k) = l /\ l <= Len(m)
    BY <1>1
  <2>2. l - k \in S
    BY <1>5, <2>1
  <2>3. QED
    BY <2>1, <2>2
<1>7. QED
  BY <1>6

\* What is open depends on no more than what was open and the kind and count of an element.
LEMMA CountSame ==
    ASSUME NEW F, NEW G, Open(F) = Open(G), NEW e, NEW f, e.k = f.k, e.n = f.n
    PROVE  Open(Count(F, e)) = Open(Count(G, f))
  BY DEF Count

\* The bytes of a connection
Bytes(m) == Prefix(m, Len(m))
\* Where the bytes of message h are, the position behind the first j elements of it
Behind(m, h, j) == Bound(m, h - 1) + j

\* The bytes of each message are in the stream.
LEMMA BytesAre ==
    ASSUME NEW m, Connection(m), NEW h \in 1 .. Len(m), NEW s, s = Bytes(m)
    PROVE  /\ s \in Seq(ElementType(Values)) /\ Len(s) \in Nat
           /\ Bound(m, h - 1) \in Nat /\ Bound(m, h) = Bound(m, h - 1) + Len(m[h].elements)
           /\ Len(m[h].elements) \in Nat \ {0} /\ Bound(m, h) <= Len(s)
           /\ \A j \in 1 .. Len(m[h].elements) :
                 s[Behind(m, h, j)] = Part(m, h)[j] /\ Behind(m, h, j) \in 1 .. Len(s)
<1> DEFINE n == Len(m)
<1>1. n \in Nat /\ h \in 0 .. n /\ h - 1 \in 0 .. n /\ h # 0 /\ n \in 0 .. n /\ n \in h .. n
  BY MessageIs, BoundsAssumption
<1>2. /\ s \in Seq(ElementType(Values)) /\ Len(s) = Bound(m, n) /\ Len(s) \in Nat
  BY <1>1, PrefixIs DEF Bytes, Bound
<1>3. /\ Bound(m, h - 1) \in Nat /\ Bound(m, h) \in Nat
      /\ Bound(m, h) = Bound(m, h - 1) + Len(m[h].elements)
      /\ \A j \in 1 .. Len(m[h].elements) : Prefix(m, h)[Bound(m, h - 1) + j] = Part(m, h)[j]
  BY <1>1, PrefixIs
<1>4. IsStream(m[h].elements) /\ m[h].elements # <<>>
  BY MessageIs
<1>5. Len(m[h].elements) \in Nat \ {0}
  <2>1. Len(m[h].elements) \in Nat /\ m[h].elements \in Seq(ElementType(Values))
    BY <1>1, <1>4, PartIs
  <2>2. QED
    BY <1>4, <2>1, EmptySeq
<1>6. Bound(m, h) <= Len(s) /\ \A i \in 1 .. Bound(m, h) : s[i] = Prefix(m, h)[i]
  BY <1>1, <1>2, PrefixOf DEF Bytes
<1>7. ASSUME NEW j \in 1 .. Len(m[h].elements)
      PROVE  s[Behind(m, h, j)] = Part(m, h)[j] /\ Behind(m, h, j) \in 1 .. Len(s)
  <2>1. Bound(m, h - 1) + j \in 1 .. Bound(m, h)
    BY <1>3, <1>5
  <2>2. s[Bound(m, h - 1) + j] = Part(m, h)[j]
    BY <1>3, <1>6, <2>1
  <2>3. Bound(m, h - 1) + j \in 1 .. Len(s)
    BY <1>2, <1>3, <1>6, <2>1
  <2>4. QED
    BY <2>2, <2>3 DEF Behind
<1>8. QED
  BY <1>2, <1>3, <1>5, <1>6, <1>7

\* A message in the stream of a connection opens what it opens when it is alone.
LEMMA RemainsSame ==
    ASSUME NEW m, Connection(m), NEW h \in 1 .. Len(m), NEW s, s = Bytes(m),
           Remaining(SubSeq(s, 1, Bound(m, h - 1))) = <<>>
    PROVE  \A j \in 0 .. Len(m[h].elements) :
              Remaining(SubSeq(s, 1, Behind(m, h, j))) = Remaining(SubSeq(m[h].elements, 1, j))
<1> DEFINE el == m[h].elements
           b == Bound(m, h - 1)
           E == ElementType(Values)
           Same(j) == Remaining(SubSeq(s, 1, b + j)) = Remaining(SubSeq(el, 1, j))
           S == {j \in Nat : j <= Len(el) => Same(j)}
<1>1. /\ s \in Seq(E) /\ Len(s) \in Nat /\ b \in Nat /\ Len(el) \in Nat /\ b + Len(el) <= Len(s)
      /\ \A j \in 1 .. Len(el) : s[b + j] = Part(m, h)[j]
  BY BytesAre DEF Behind
<1>2. IsStream(el) /\ h \in Int
  BY MessageIs, BoundsAssumption
<1>3. el \in Seq(E) /\ \A j \in 1 .. Len(el) : Part(m, h)[j].k = el[j].k /\ Part(m, h)[j].n = el[j].n
  BY <1>2, PartIs
<1>4. Remaining(SubSeq(s, 1, b)) = <<>>
  OBVIOUS
<1> HIDE DEF el, b, E
<1>5. 0 \in S
  <2>1. SubSeq(el, 1, 0) = <<>> /\ b + 0 = b
    BY <1>1, <1>3, SubSeqEmpty
  <2>2. QED
    BY <1>4, <2>1, RemainingEmpty
<1>6. ASSUME NEW j \in Nat, j \in S PROVE j + 1 \in S
  <2>1. SUFFICES ASSUME j + 1 <= Len(el) PROVE Same(j + 1)
    OBVIOUS
  <2>2. Same(j)
    BY <1>1, <1>6, <2>1
  <2>3. (b + j) + 1 <= Len(s) /\ b + j \in Nat /\ (b + j) + 1 = b + (j + 1) /\ j + 1 \in 1 .. Len(el)
    BY <1>1, <2>1
  <2> DEFINE F == Fold(SubSeq(s, 1, b + j))
             G == Fold(SubSeq(el, 1, j))
             e == s[(b + j) + 1]
             f == el[j + 1]
  <2>4. Fold(SubSeq(s, 1, (b + j) + 1)) = Count(F, e)
    BY <1>1, <2>3, FoldStep
  <2>5. Fold(SubSeq(el, 1, j + 1)) = Count(G, f)
    BY <1>3, <2>1, FoldStep
  <2>6. Open(F) = Open(G)
    BY <2>2 DEF Remaining, Fold
  <2>7. e.k = f.k /\ e.n = f.n
    BY <1>1, <1>3, <2>3
  <2> HIDE DEF F, G, e, f
  <2>8. Open(Count(F, e)) = Open(Count(G, f))
    BY <2>6, <2>7, CountSame
  <2>9. Open(Fold(SubSeq(s, 1, b + (j + 1)))) = Open(Fold(SubSeq(el, 1, j + 1)))
    BY <2>3, <2>4, <2>5, <2>8
  <2>10. QED
    BY <2>9 DEF Remaining, Fold
<1>7. \A j \in Nat : j \in S
  <2> HIDE DEF S
  <2>1. QED
    BY <1>5, <1>6, SetInduction
<1>8. \A j \in 0 .. Len(el) : Same(j)
  BY <1>1, <1>7
<1>9. QED
  BY <1>8 DEF Behind, b, el

\* Between two messages nothing is open.
LEMMA BoundaryIs ==
    ASSUME NEW m, Connection(m), NEW s, s = Bytes(m)
    PROVE  \A k \in 0 .. Len(m) : Remaining(SubSeq(s, 1, Bound(m, k))) = <<>>
<1> DEFINE Good(k) == Remaining(SubSeq(s, 1, Bound(m, k))) = <<>>
           S == {k \in Nat : k <= Len(m) => Good(k)}
<1>1. Len(m) \in Nat
  BY MessageIs, BoundsAssumption
<1>2. 0 \in S
  <2>1. Bound(m, 0) = 0
    BY PrefixEmpty DEF Bound
  <2>2. SubSeq(s, 1, 0) = <<>>
    BY SubSeqEmpty
  <2>3. QED
    BY <2>1, <2>2, RemainingEmpty
<1>3. ASSUME NEW k \in Nat, k \in S PROVE k + 1 \in S
  <2>1. SUFFICES ASSUME k + 1 <= Len(m) PROVE Good(k + 1)
    OBVIOUS
  <2> DEFINE h == k + 1
             el == m[h].elements
  <2>2. h \in 1 .. Len(m) /\ h - 1 = k /\ Good(h - 1) /\ h \in Int
    BY <1>1, <1>3, <2>1
  <2> HIDE DEF h
  <2>3. Remaining(SubSeq(s, 1, Bound(m, h - 1))) = <<>>
    BY <2>2
  <2>4. \A j \in 0 .. Len(el) : Remaining(SubSeq(s, 1, Behind(m, h, j))) = Remaining(SubSeq(el, 1, j))
    BY <2>2, <2>3, RemainsSame
  <2>5. Len(el) \in Nat \ {0} /\ Bound(m, h) = Behind(m, h, Len(el))
    BY <2>2, BytesAre DEF Behind
  <2>6. IsStream(el) /\ Remaining(el) = <<>>
    BY <2>2, MessageIs
  <2>7. SubSeq(el, 1, Len(el)) = el
    <3>1. el \in Seq(ElementType(Values))
      BY <2>2, <2>6, PartIs
    <3>2. QED
      BY <3>1, SubSeqFull
  <2>8. Good(h)
    <3>1. Len(el) \in 0 .. Len(el)
      BY <2>5
    <3>2. Remaining(SubSeq(s, 1, Behind(m, h, Len(el)))) = Remaining(SubSeq(el, 1, Len(el)))
      BY <2>4, <3>1
    <3>3. QED
      BY <2>5, <2>6, <2>7, <3>2
  <2>9. QED
    BY <2>8 DEF h
<1>4. \A k \in Nat : k \in S
  <2> HIDE DEF S
  <2>1. QED
    BY <1>2, <1>3, SetInduction
<1>5. QED
  BY <1>1, <1>4

\* Inside of a message something is.
LEMMA InsideIs ==
    ASSUME NEW m, Connection(m), NEW s, s = Bytes(m), NEW h \in 1 .. Len(m), NEW q \in Nat,
           Bound(m, h - 1) < q, q < Bound(m, h)
    PROVE  Remaining(SubSeq(s, 1, q)) # <<>>
<1> DEFINE el == m[h].elements
           j == q - Bound(m, h - 1)
<1>1. h - 1 \in 0 .. Len(m)
  BY MessageIs, BoundsAssumption
<1>2. Remaining(SubSeq(s, 1, Bound(m, h - 1))) = <<>>
  BY <1>1, BoundaryIs
<1>3. \A i \in 0 .. Len(el) : Remaining(SubSeq(s, 1, Behind(m, h, i))) = Remaining(SubSeq(el, 1, i))
  BY <1>2, RemainsSame
<1>4. Bound(m, h - 1) \in Nat /\ Bound(m, h) = Bound(m, h - 1) + Len(el) /\ Len(el) \in Nat
  BY BytesAre
<1>5. j \in 0 .. Len(el) /\ j \in 1 .. Len(el) - 1 /\ Behind(m, h, j) = q
  BY <1>4 DEF Behind
<1>6. Remaining(SubSeq(el, 1, j)) # <<>>
  BY <1>5, MessageIs
<1>7. QED
  BY <1>3, <1>5, <1>6

\* elems_left can count all elements of a connection.
LEMMA BytesShort ==
    ASSUME NEW m, Connection(m), NEW s, s = Bytes(m)
    PROVE  Len(s) < Wrapped
<1> DEFINE M == MaxMessages
           W == Wrapped - 1
           S == {k \in Nat : k <= Len(m) => Bound(m, k) * M <= k * W}
<1>1. Len(m) \in Nat /\ Len(m) <= M /\ M \in Nat \ {0} /\ W \in Nat /\ Wrapped = W + 1
  BY MessageIs, BoundsAssumption DEF Wrapped
<1>2. \A k \in 0 .. Len(m) : Bound(m, k) \in Nat
  BY PrefixIs
<1> HIDE DEF W
<1>3. 0 \in S
  <2>1. Bound(m, 0) = 0
    BY PrefixEmpty DEF Bound
  <2>2. QED
    BY <1>1, <2>1
<1>4. ASSUME NEW k \in Nat, k \in S PROVE k + 1 \in S
  <2>1. SUFFICES ASSUME k + 1 <= Len(m) PROVE Bound(m, k + 1) * M <= (k + 1) * W
    OBVIOUS
  <2> DEFINE h == k + 1
             a == Bound(m, k)
             l == Len(m[h].elements)
  <2>2. h \in 1 .. Len(m) /\ h - 1 = k /\ k <= Len(m) /\ k \in 0 .. Len(m)
    BY <1>1, <2>1
  <2>3. a * M <= k * W
    BY <1>4, <2>2
  <2>4. Bound(m, h) = a + l /\ l \in Nat
    <3> HIDE DEF h
    <3>1. Bound(m, h) = Bound(m, h - 1) + Len(m[h].elements) /\ Len(m[h].elements) \in Nat
      BY <2>2, BytesAre
    <3>2. QED
      BY <2>2, <3>1
  <2>5. l * M < Wrapped
    BY <2>2, MessageIs
  <2>6. a \in Nat
    BY <1>2, <2>2
  <2> HIDE DEF a, l
  <2>7. l * M \in Nat /\ a * M \in Nat /\ k * W \in Nat
    BY <1>1, <2>4, <2>6
  <2>8. (a + l) * M = a * M + l * M /\ (k + 1) * W = k * W + W
    BY <1>1, <2>4, <2>6
  <2>9. (a + l) * M <= (k + 1) * W
    BY <1>1, <2>3, <2>5, <2>7, <2>8
  <2>10. QED
    BY <2>4, <2>9
<1>5. \A k \in Nat : k \in S
  <2> HIDE DEF S
  <2>1. QED
    BY <1>3, <1>4, SetInduction
<1> DEFINE n == Len(m)
           c == Bound(m, n)
<1>6. c * M <= n * W /\ c \in Nat /\ n \in Nat /\ n <= M
  BY <1>1, <1>2, <1>5
<1> HIDE DEF n, c
<1>7. n * W <= M * W
  BY <1>1, <1>6
<1>8. c <= W
  <2>1. SUFFICES ASSUME c >= W + 1 PROVE FALSE
    BY <1>1, <1>6
  <2>2. c * M >= (W + 1) * M
    BY <1>1, <1>6, <2>1
  <2>3. (W + 1) * M = M * W + M
    BY <1>1
  <2>4. c * M \in Nat /\ M * W \in Nat /\ n * W \in Nat
    BY <1>1, <1>6
  <2>5. QED
    BY <1>1, <1>6, <1>7, <2>2, <2>3, <2>4
<1>9. Len(s) = c
  BY DEF Bytes, Bound, c, n
<1>10. QED
  BY <1>1, <1>6, <1>8, <1>9

\* What was read when a message begins is the messages before it.
LEMMA ReadSoFar ==
    ASSUME NEW m, Connection(m), NEW s, s = Bytes(m), NEW k \in 0 .. Len(m)
    PROVE  SubSeq(s, 1, Bound(m, k)) = Prefix(m, k)
<1> DEFINE p == Prefix(m, k)
           b == Bound(m, k)
<1>1. Len(m) \in Nat /\ Len(m) \in 0 .. Len(m) /\ Len(m) \in k .. Len(m)
  BY MessageIs, BoundsAssumption
<1>2. p \in Seq(ElementType(Values)) /\ Len(p) = b /\ b \in Nat
  BY PrefixIs DEF Bound
<1>3. s \in Seq(ElementType(Values)) /\ Len(s) = Bound(m, Len(m)) /\ Len(s) \in Nat
  BY <1>1, PrefixIs DEF Bytes, Bound
<1>4. b <= Len(s) /\ \A i \in 1 .. b : s[i] = p[i]
  BY <1>1, <1>3, PrefixOf DEF Bytes
<1> HIDE DEF p, b
<1>5. \A i \in 1 .. b : s[i] \in ElementType(Values)
  BY <1>2, <1>3, <1>4, ElementOfSeq
<1>6. SubSeq(s, 1, b) \in Seq(ElementType(Values)) /\ Len(SubSeq(s, 1, b)) = b
      /\ \A i \in 1 .. b : SubSeq(s, 1, b)[i] = s[i]
  <2>1. /\ SubSeq(s, 1, b) \in Seq(ElementType(Values))
        /\ Len(SubSeq(s, 1, b)) = IF 1 <= b THEN b - 1 + 1 ELSE 0
        /\ \A i \in 1 .. b - 1 + 1 : SubSeq(s, 1, b)[i] = s[1 + i - 1]
    BY <1>2, <1>5, SubSeqProperties
  <2>2. QED
    BY <1>2, <2>1
<1>7. SubSeq(s, 1, b) = p
  BY <1>2, <1>4, <1>6, SeqEqual
<1>8. QED
  BY <1>7 DEF p, b

-----------------------------------------------------------------------------
(* The call stack of handle_single_message                                  *)

IsList(t) == Len(t) \in Nat /\ t = [i \in 1 .. Len(t) |-> t[i]]

\* Lists are sequences.
LEMMA ListIs ==
    ASSUME NEW t, IsList(t)
    PROVE  /\ t \in Seq({t[i] : i \in 1 .. Len(t)}) /\ Len(t) \in Nat
           /\ t # <<>> => Len(t) # 0
<1> DEFINE S == {t[i] : i \in 1 .. Len(t)}
<1>1. Len(t) \in Nat /\ Listed(t, Len(t))
  BY DEF IsList, Listed
<1>2. \A i \in 1 .. Len(t) : t[i] \in S
  OBVIOUS
<1> HIDE DEF S
<1>3. t \in Seq(S)
  BY <1>1, <1>2, ListedSeq
<1>4. t # <<>> => Len(t) # 0
  BY <1>3, EmptySeq
<1>5. QED
  BY <1>1, <1>3, <1>4 DEF S

\* Sequences are lists.
LEMMA SeqIsList ==
    ASSUME NEW S, NEW t \in Seq(S)
    PROVE  IsList(t)
<1>1. Len(t) \in Nat /\ t \in [1 .. Len(t) -> S]
  BY LenProperties
<1>2. QED
  BY <1>1 DEF IsList

\* The rest of a list
LEMMA TailIs ==
    ASSUME NEW t, IsList(t), t # <<>>
    PROVE  /\ IsList(Tail(t)) /\ Head(t) = t[1] /\ Len(t) \in Nat \ {0} /\ Len(Tail(t)) = Len(t) - 1
           /\ \A i \in 1 .. Len(t) - 1 : Tail(t)[i] = t[i + 1]
<1> DEFINE S == {t[i] : i \in 1 .. Len(t)}
<1>1. t \in Seq(S)
  BY ListIs
<1> HIDE DEF S
<1>2. /\ Tail(t) \in Seq(S) /\ Head(t) = t[1] /\ Len(Tail(t)) = Len(t) - 1
      /\ \A i \in 1 .. Len(Tail(t)) : Tail(t)[i] = t[i + 1]
  BY <1>1, HeadTailProperties
<1>3. Len(t) \in Nat \ {0}
  BY ListIs
<1>4. IsList(Tail(t))
  BY <1>2, SeqIsList
<1>5. QED
  BY <1>2, <1>3, <1>4

\* One list after another
LEMMA ConcatIs ==
    ASSUME NEW a, NEW b, IsList(a), IsList(b)
    PROVE  /\ IsList(a \o b) /\ Len(a \o b) = Len(a) + Len(b) /\ Len(a) \in Nat /\ Len(b) \in Nat
           /\ \A i \in 1 .. Len(a) + Len(b) : (a \o b)[i] = IF i <= Len(a) THEN a[i] ELSE b[i - Len(a)]
<1> DEFINE S == {a[i] : i \in 1 .. Len(a)}
           V == {b[i] : i \in 1 .. Len(b)}
           U == S \union V
<1>1. a \in Seq(S) /\ b \in Seq(V) /\ Len(a) \in Nat /\ Len(b) \in Nat
  BY ListIs
<1>2. S \subseteq U /\ V \subseteq U
  OBVIOUS
<1> HIDE DEF S, V, U
<1>3. a \in Seq(U) /\ b \in Seq(U)
  BY <1>1, <1>2, SeqMonotonic
<1> DEFINE c == a \o b
<1>4. /\ c \in Seq(U) /\ Len(c) = Len(a) + Len(b)
      /\ \A i \in 1 .. Len(c) : c[i] = IF i <= Len(a) THEN a[i] ELSE b[i - Len(a)]
  BY <1>3, ConcatProperties
<1> HIDE DEF c
<1>5. IsList(c)
  BY <1>4, SeqIsList
<1>6. \A i \in 1 .. Len(a) + Len(b) : c[i] = IF i <= Len(a) THEN a[i] ELSE b[i - Len(a)]
  BY <1>4
<1>7. QED
  BY <1>1, <1>4, <1>5, <1>6 DEF c

\* A list of one
LEMMA OneIs ==
    ASSUME NEW e
    PROVE  IsList(<<e>>) /\ Len(<<e>>) = 1 /\ <<e>>[1] = e
<1>1. <<e>> \in Seq({e})
  OBVIOUS
<1>2. QED
  BY <1>1, SeqIsList

\* What is put in front of a list comes off it first.
LEMMA PushIs ==
    ASSUME NEW e, NEW t, IsList(t)
    PROVE  /\ IsList(<<e>> \o t) /\ <<e>> \o t # <<>> /\ Len(<<e>> \o t) = Len(t) + 1
           /\ Head(<<e>> \o t) = e /\ Tail(<<e>> \o t) = t
           /\ (<<e>> \o t)[1] = e /\ \A i \in 1 .. Len(t) : (<<e>> \o t)[i + 1] = t[i]
<1> DEFINE a == <<e>>
           c == a \o t
<1>1. IsList(a) /\ Len(a) = 1 /\ a[1] = e
  BY OneIs
<1> HIDE DEF a
<1>2. /\ IsList(c) /\ Len(c) = 1 + Len(t) /\ Len(t) \in Nat
      /\ \A i \in 1 .. 1 + Len(t) : c[i] = IF i <= 1 THEN a[i] ELSE t[i - 1]
  <2>1. /\ IsList(c) /\ Len(c) = Len(a) + Len(t) /\ Len(t) \in Nat
        /\ \A i \in 1 .. Len(a) + Len(t) : c[i] = IF i <= Len(a) THEN a[i] ELSE t[i - Len(a)]
    BY <1>1, ConcatIs
  <2> HIDE DEF c
  <2>2. QED
    BY <1>1, <2>1
<1> HIDE DEF c
<1>3. c[1] = e /\ \A i \in 1 .. Len(t) : c[i + 1] = t[i]
  <2>1. 1 \in 1 .. 1 + Len(t)
    BY <1>2
  <2>2. ASSUME NEW i \in 1 .. Len(t) PROVE c[i + 1] = t[i]
    <3>1. i + 1 \in 1 .. 1 + Len(t) /\ ~(i + 1 <= 1) /\ (i + 1) - 1 = i
      BY <1>2
    <3>2. QED
      BY <1>2, <3>1
  <2>3. QED
    BY <1>1, <1>2, <2>1, <2>2
<1>4. c # <<>>
  <2>1. Len(<<>>) = 0
    OBVIOUS
  <2>2. QED
    BY <1>2, <2>1
<1>5. /\ IsList(Tail(c)) /\ Head(c) = e /\ Len(Tail(c)) = Len(t)
      /\ \A i \in 1 .. Len(t) : Tail(c)[i] = t[i]
  BY <1>2, <1>3, <1>4, TailIs
<1>6. Tail(c) = t
  <2> DEFINE u == Tail(c)
  <2>1. u = [i \in 1 .. Len(t) |-> u[i]] /\ t = [i \in 1 .. Len(t) |-> t[i]]
    BY <1>5 DEF IsList
  <2>2. \A i \in 1 .. Len(t) : u[i] = t[i]
    BY <1>5
  <2> HIDE DEF u
  <2>3. u = t
    BY <2>1, <2>2
  <2>4. QED
    BY <2>3 DEF u
<1>7. QED
  BY <1>2, <1>3, <1>4, <1>5, <1>6 DEF a, c

\* The entries that leave a scope, which is not the one of the message, and those that read
\* an element where it is: not in front of a key, before ReadKeyNext.
Holds(e) == e.op \in {"end", "list", "dict", "object", "close", "dumping", "leave"}
ScopeOf(e) == IF e.op \in {"end", "list", "close"} THEN "array"
              ELSE IF e.op \in {"dict", "object"} THEN "object" ELSE e.type
Reads(e) == e.op \in {"restore", "field", "select", "dump"}
EntryOk(e, id) ==
    /\ e.op \in Ops \union {"dump", "dumping", "leave", "left", "close", "done"}
    /\ e.op \in {"restore", "field", "list", "dict"} => e.type \in Types
    /\ e.op = "select" => e.types \in Seq(Types)
    /\ e.op = "object" => \A key \in DOMAIN e.type : e.type[key] \in Types
    /\ e.op = "end" => e.scope = "array"
    /\ e.op \in {"dumping", "leave"} => e.type \in {"array", "object"}
    /\ Holds(e) => e.id # id
Bottom(e) == e.op \in {"close", "done"}
Loose(t, id) == /\ IsList(t) /\ t # <<>> /\ Bottom(t[Len(t)])
                /\ \A j \in 1 .. Len(t) : EntryOk(t[j], id)

\* Each entry is at a depth of the scopes s: the first one at k, the others outside of the
\* scopes that those before them leave.  An entry that reads something is in an array.
Depths(t, s, k, d) ==
    /\ d[1] = k
    /\ \A j \in 1 .. Len(t) : d[j] \in 1 .. k
    /\ \A i, j \in 1 .. Len(t) : i <= j => d[j] <= d[i]
    /\ \A j \in 1 .. Len(t) - 1 : d[j + 1] = IF Holds(t[j]) THEN d[j] - 1 ELSE d[j]
    /\ \A j \in 1 .. Len(t) :
          /\ Holds(t[j]) => s[d[j]].id = t[j].id /\ s[d[j]].type = ScopeOf(t[j])
          /\ Reads(t[j]) => s[d[j]].type = "array"
Framed(t, s, k, id) == Loose(t, id) /\ k \in 1 .. Len(s) /\ Len(s) \in Nat /\ \E d : Depths(t, s, k, d)

\* The first entry, and what is behind it
LEMMA LooseTail ==
    ASSUME NEW t, NEW id, Loose(t, id)
    PROVE  /\ EntryOk(Head(t), id) /\ Head(t) = t[1] /\ IsList(Tail(t)) /\ IsList(t)
           /\ Len(Tail(t)) = Len(t) - 1 /\ Len(t) \in Nat \ {0}
           /\ ~Bottom(Head(t)) => Loose(Tail(t), id)
<1>1. /\ IsList(t) /\ t # <<>> /\ Bottom(t[Len(t)]) /\ \A j \in 1 .. Len(t) : EntryOk(t[j], id)
  BY DEF Loose
<1>2. /\ IsList(Tail(t)) /\ Head(t) = t[1] /\ Len(t) \in Nat \ {0} /\ Len(Tail(t)) = Len(t) - 1
      /\ \A i \in 1 .. Len(t) - 1 : Tail(t)[i] = t[i + 1]
  BY <1>1, TailIs
<1>3. EntryOk(Head(t), id)
  BY <1>1, <1>2
<1>4. ASSUME ~Bottom(Head(t)) PROVE Loose(Tail(t), id)
  <2>1. Len(t) # 1
    BY <1>1, <1>2, <1>4
  <2>2. Len(t) - 1 \in 1 .. Len(t) - 1 /\ (Len(t) - 1) + 1 = Len(t)
    BY <1>2, <2>1
  <2>3. Tail(t)[Len(Tail(t))] = t[Len(t)]
    BY <1>2, <2>2
  <2>4. \A j \in 1 .. Len(Tail(t)) : EntryOk(Tail(t)[j], id)
    BY <1>1, <1>2
  <2>5. Tail(t) # <<>>
    <3> DEFINE u == Tail(t)
    <3>1. Len(u) # 0
      BY <1>2, <2>2
    <3> HIDE DEF u
    <3>2. u = <<>> => Len(u) = 0
      OBVIOUS
    <3>3. u # <<>>
      BY <3>1, <3>2
    <3>4. QED
      BY <3>3 DEF u
  <2>6. QED
    BY <1>1, <1>2, <2>3, <2>4, <2>5 DEF Loose
<1>5. QED
  BY <1>1, <1>2, <1>3, <1>4

\* An entry is put in front.
LEMMA LoosePush ==
    ASSUME NEW t, NEW id, Loose(t, id), NEW e, EntryOk(e, id)
    PROVE  Loose(<<e>> \o t, id)
<1> DEFINE c == <<e>> \o t
<1>1. IsList(t) /\ Bottom(t[Len(t)]) /\ (\A j \in 1 .. Len(t) : EntryOk(t[j], id)) /\ Len(t) \in Nat \ {0}
  BY LooseTail DEF Loose
<1>2. IsList(c) /\ c # <<>> /\ Len(c) = Len(t) + 1 /\ c[1] = e /\ \A i \in 1 .. Len(t) : c[i + 1] = t[i]
  BY <1>1, PushIs
<1> HIDE DEF c
<1>3. c[Len(c)] = t[Len(t)]
  BY <1>1, <1>2
<1>4. ASSUME NEW j \in 1 .. Len(c) PROVE EntryOk(c[j], id)
  <2>1. CASE j = 1
    BY <1>2, <2>1
  <2>2. CASE j # 1
    <3>1. j - 1 \in 1 .. Len(t) /\ (j - 1) + 1 = j
      BY <1>1, <1>2, <2>2
    <3>2. c[j] = t[j - 1]
      BY <1>2, <3>1
    <3>3. QED
      BY <1>1, <3>1, <3>2
  <2>3. QED
    BY <2>1, <2>2
<1>5. Loose(c, id)
  BY <1>1, <1>2, <1>3, <1>4 DEF Loose
<1>6. QED
  BY <1>5 DEF c

\* What the first entry knows
LEMMA FramedHead ==
    ASSUME NEW t, NEW s, NEW k, NEW id, Framed(t, s, k, id), NEW e, e = Head(t)
    PROVE  /\ EntryOk(e, id) /\ k \in 1 .. Len(s) /\ Len(s) \in Nat /\ Loose(t, id)
           /\ Holds(e) => s[k].id = e.id /\ s[k].type = ScopeOf(e)
           /\ Reads(e) => s[k].type = "array"
<1>1. PICK d : Depths(t, s, k, d)
  BY DEF Framed
<1>2. Loose(t, id) /\ k \in 1 .. Len(s) /\ Len(s) \in Nat
  BY DEF Framed
<1>3. EntryOk(e, id) /\ e = t[1] /\ 1 \in 1 .. Len(t)
  <2>1. EntryOk(Head(t), id) /\ Head(t) = t[1] /\ Len(t) \in Nat \ {0}
    BY <1>2, LooseTail
  <2>2. QED
    BY <2>1
<1>4. QED
  BY <1>1, <1>2, <1>3 DEF Depths

\* What is behind it
LEMMA FramedTail ==
    ASSUME NEW t, NEW s, NEW k, NEW id, Framed(t, s, k, id), ~Bottom(Head(t))
    PROVE  Framed(Tail(t), s, IF Holds(Head(t)) THEN k - 1 ELSE k, id)
<1> DEFINE u == Tail(t)
           n == Len(t)
           l == IF Holds(t[1]) THEN k - 1 ELSE k
<1>1. PICK d : Depths(t, s, k, d)
  BY DEF Framed
<1>2. Loose(t, id) /\ k \in 1 .. Len(s) /\ Len(s) \in Nat
  BY DEF Framed
<1>3. /\ Loose(u, id) /\ Head(t) = t[1] /\ IsList(t) /\ n \in Nat \ {0} /\ Len(u) = n - 1
  BY <1>2, LooseTail
<1>4. Len(u) \in Nat \ {0}
  BY <1>3, LooseTail
<1>5. \A i \in 1 .. n - 1 : u[i] = t[i + 1]
  <2>1. t # <<>>
    BY <1>2 DEF Loose
  <2>2. QED
    BY <1>3, <2>1, TailIs
<1> HIDE DEF u, n
<1> DEFINE c == [i \in 1 .. n - 1 |-> d[i + 1]]
<1>6. \A i \in 1 .. n - 1 : c[i] = d[i + 1] /\ i + 1 \in 1 .. n /\ u[i] = t[i + 1]
  BY <1>3, <1>5
<1>7. 1 \in 1 .. n - 1 /\ c[1] = d[2] /\ d[2] = l
  <2>1. 1 \in 1 .. n - 1 /\ n - 1 = Len(t) - 1
    BY <1>3, <1>4 DEF n
  <2>2. d[1 + 1] = IF Holds(t[1]) THEN d[1] - 1 ELSE d[1]
    BY <1>1, <2>1 DEF Depths
  <2>3. d[1] = k
    BY <1>1 DEF Depths
  <2>4. QED
    BY <1>6, <2>1, <2>2, <2>3
<1> HIDE DEF c, l
<1>8. /\ \A j \in 1 .. n : d[j] \in 1 .. k
      /\ \A i, j \in 1 .. n : i <= j => d[j] <= d[i]
      /\ \A j \in 1 .. n - 1 : d[j + 1] = IF Holds(t[j]) THEN d[j] - 1 ELSE d[j]
      /\ \A j \in 1 .. n :
            /\ Holds(t[j]) => s[d[j]].id = t[j].id /\ s[d[j]].type = ScopeOf(t[j])
            /\ Reads(t[j]) => s[d[j]].type = "array"
  BY <1>1 DEF Depths, n
<1>9. \A j \in 1 .. n - 1 : c[j] \in 1 .. l
  <2>1. ASSUME NEW j \in 1 .. n - 1 PROVE c[j] \in 1 .. l
    <3>1. j + 1 \in 1 .. n /\ 2 \in 1 .. n /\ 2 <= j + 1
      BY <1>3, <1>7
    <3>2. d[j + 1] <= d[2] /\ d[j + 1] \in 1 .. k
      BY <1>8, <3>1
    <3>3. d[2] \in 1 .. k
      BY <1>8, <3>1
    <3>4. QED
      BY <1>6, <1>7, <3>2, <3>3
  <2>2. QED
    BY <2>1
<1>10. \A i, j \in 1 .. n - 1 : i <= j => c[j] <= c[i]
  <2>1. ASSUME NEW i \in 1 .. n - 1, NEW j \in 1 .. n - 1, i <= j PROVE c[j] <= c[i]
    <3>1. i + 1 \in 1 .. n /\ j + 1 \in 1 .. n /\ i + 1 <= j + 1
      BY <1>3, <2>1
    <3>2. d[j + 1] <= d[i + 1]
      BY <1>8, <3>1
    <3>3. QED
      BY <1>6, <3>2
  <2>2. QED
    BY <2>1
<1>11. \A j \in 1 .. (n - 1) - 1 : c[j + 1] = IF Holds(u[j]) THEN c[j] - 1 ELSE c[j]
  <2>1. ASSUME NEW j \in 1 .. (n - 1) - 1 PROVE c[j + 1] = IF Holds(u[j]) THEN c[j] - 1 ELSE c[j]
    <3>1. j + 1 \in 1 .. n - 1 /\ j \in 1 .. n - 1
      BY <1>3
    <3>2. d[(j + 1) + 1] = IF Holds(t[j + 1]) THEN d[j + 1] - 1 ELSE d[j + 1]
      BY <1>8, <3>1
    <3>3. c[j + 1] = d[(j + 1) + 1] /\ c[j] = d[j + 1] /\ u[j] = t[j + 1]
      BY <1>6, <3>1
    <3>4. QED
      BY <3>2, <3>3
  <2>2. QED
    BY <2>1
<1>12. \A j \in 1 .. n - 1 :
          /\ Holds(u[j]) => s[c[j]].id = u[j].id /\ s[c[j]].type = ScopeOf(u[j])
          /\ Reads(u[j]) => s[c[j]].type = "array"
  BY <1>6, <1>8
<1>13. Depths(u, s, l, c)
  <2>1. Len(u) = n - 1
    BY <1>3
  <2>2. QED
    BY <1>7, <1>9, <1>10, <1>11, <1>12, <2>1 DEF Depths
<1>14. l \in 1 .. Len(s)
  <2>1. 2 \in 1 .. n
    BY <1>3, <1>7
  <2>2. d[2] \in 1 .. k
    BY <1>8, <2>1
  <2>3. QED
    BY <1>2, <1>7, <2>2
<1>15. Framed(u, s, l, id)
  BY <1>2, <1>3, <1>13, <1>14 DEF Framed
<1>16. QED
  BY <1>3, <1>15 DEF u, l

\* Entries that leave no scope, and read in an array only
Parts(p, s, k, id) ==
    /\ IsList(p)
    /\ \A i \in 1 .. Len(p) :
          /\ EntryOk(p[i], id) /\ ~Holds(p[i])
          /\ Reads(p[i]) => s[k].type = "array"

\* What such entries are put in front of stays a call stack.
LEMMA FramedParts ==
    ASSUME NEW t, NEW s, NEW k, NEW id, Framed(t, s, k, id), NEW p, Parts(p, s, k, id)
    PROVE  Framed(p \o t, s, k, id)
<1> DEFINE c == p \o t
           m == Len(p)
           n == Len(t)
<1>1. PICK d : Depths(t, s, k, d)
  BY DEF Framed
<1>2. Loose(t, id) /\ k \in 1 .. Len(s) /\ Len(s) \in Nat
  BY DEF Framed
<1>3. /\ IsList(p) /\ IsList(t) /\ n \in Nat \ {0} /\ Bottom(t[n]) /\ \A j \in 1 .. n : EntryOk(t[j], id)
  BY <1>2, LooseTail DEF Parts, Loose
<1>4. /\ IsList(c) /\ Len(c) = m + n /\ m \in Nat
      /\ \A i \in 1 .. m + n : c[i] = IF i <= m THEN p[i] ELSE t[i - m]
  BY <1>3, ConcatIs
<1>5. \A i \in 1 .. m : EntryOk(p[i], id) /\ ~Holds(p[i]) /\ (Reads(p[i]) => s[k].type = "array")
  BY DEF Parts
<1> HIDE DEF c
<1>6. c # <<>>
  <2>1. Len(<<>>) = 0
    OBVIOUS
  <2>2. QED
    BY <1>3, <1>4, <2>1
<1>7. Bottom(c[Len(c)])
  <2>1. m + n \in 1 .. m + n /\ ~(m + n <= m) /\ (m + n) - m = n
    BY <1>3, <1>4
  <2>2. QED
    BY <1>3, <1>4, <2>1
<1>8. \A i \in 1 .. m + n :
         \/ i \in 1 .. m /\ c[i] = p[i]
         \/ i > m /\ i - m \in 1 .. n /\ c[i] = t[i - m]
  BY <1>3, <1>4
<1>9. Loose(c, id)
  BY <1>3, <1>4, <1>5, <1>6, <1>7, <1>8 DEF Loose
<1> DEFINE e == [i \in 1 .. m + n |-> IF i <= m THEN k ELSE d[i - m]]
<1>10. \A i \in 1 .. m + n :
         \/ i \in 1 .. m /\ c[i] = p[i] /\ e[i] = k
         \/ i > m /\ i - m \in 1 .. n /\ c[i] = t[i - m] /\ e[i] = d[i - m]
  BY <1>3, <1>4, <1>8
<1>19. m \in Nat /\ n \in Nat \ {0}
  BY <1>3, <1>4
<1> HIDE DEF e, m, n
<1>11. /\ d[1] = k
       /\ \A j \in 1 .. n : d[j] \in 1 .. k
       /\ \A i, j \in 1 .. n : i <= j => d[j] <= d[i]
       /\ \A j \in 1 .. n - 1 : d[j + 1] = IF Holds(t[j]) THEN d[j] - 1 ELSE d[j]
       /\ \A j \in 1 .. n :
             /\ Holds(t[j]) => s[d[j]].id = t[j].id /\ s[d[j]].type = ScopeOf(t[j])
             /\ Reads(t[j]) => s[d[j]].type = "array"
  BY <1>1 DEF Depths, n
<1>12. e[1] = k
  <2>1. 1 \in 1 .. m + n
    BY <1>3, <1>4
  <2>2. CASE 1 - m \in 1 .. n /\ 1 > m
    BY <1>4, <1>10, <1>11, <2>1, <2>2
  <2>3. QED
    BY <1>10, <2>1, <2>2
<1>13. \A j \in 1 .. m + n : e[j] \in 1 .. k
  BY <1>2, <1>10, <1>11
<1>14. \A i, j \in 1 .. m + n : i <= j => e[j] <= e[i]
  <2>1. ASSUME NEW i \in 1 .. m + n, NEW j \in 1 .. m + n, i <= j PROVE e[j] <= e[i]
    <3>1. CASE i \in 1 .. m /\ e[i] = k
      BY <1>2, <1>13, <3>1
    <3>2. CASE i > m /\ i - m \in 1 .. n /\ e[i] = d[i - m]
      <4>1. j > m
        BY <1>3, <1>4, <2>1, <3>2
      <4>2. j - m \in 1 .. n /\ e[j] = d[j - m]
        BY <1>10, <1>19, <4>1
      <4>3. i - m <= j - m
        BY <1>3, <1>4, <2>1
      <4>4. QED
        BY <1>11, <3>2, <4>2, <4>3
    <3>3. QED
      BY <1>10, <3>1, <3>2
  <2>2. QED
    BY <2>1
<1>15. \A j \in 1 .. (m + n) - 1 : e[j + 1] = IF Holds(c[j]) THEN e[j] - 1 ELSE e[j]
  <2>1. ASSUME NEW j \in 1 .. (m + n) - 1 PROVE e[j + 1] = IF Holds(c[j]) THEN e[j] - 1 ELSE e[j]
    <3>1. j \in 1 .. m + n /\ j + 1 \in 1 .. m + n
      BY <1>3, <1>4
    <3>2. CASE j \in 1 .. m /\ c[j] = p[j] /\ e[j] = k
      <4>1. ~Holds(c[j])
        BY <1>5, <3>2 DEF m
      <4>2. CASE j + 1 \in 1 .. m /\ e[j + 1] = k
        BY <3>2, <4>1, <4>2
      <4>3. CASE j + 1 > m /\ e[j + 1] = d[(j + 1) - m]
        <5>1. (j + 1) - m = 1
          BY <1>3, <1>4, <3>2, <4>3
        <5>2. QED
          BY <1>11, <3>2, <4>1, <4>3, <5>1
      <4>4. QED
        BY <1>10, <3>1, <4>2, <4>3
    <3>3. CASE j > m /\ j - m \in 1 .. n /\ c[j] = t[j - m] /\ e[j] = d[j - m]
      <4>1. j + 1 > m /\ (j + 1) - m = (j - m) + 1 /\ j - m \in 1 .. n - 1
        BY <1>3, <1>4, <3>3
      <4>2. e[j + 1] = d[(j + 1) - m]
        BY <1>10, <1>19, <3>1, <4>1
      <4>3. d[(j - m) + 1] = IF Holds(t[j - m]) THEN d[j - m] - 1 ELSE d[j - m]
        BY <1>11, <4>1
      <4>4. QED
        BY <3>3, <4>1, <4>2, <4>3
    <3>4. QED
      BY <1>10, <3>1, <3>2, <3>3
  <2>2. QED
    BY <2>1
<1>16. \A j \in 1 .. m + n :
          /\ Holds(c[j]) => s[e[j]].id = c[j].id /\ s[e[j]].type = ScopeOf(c[j])
          /\ Reads(c[j]) => s[e[j]].type = "array"
  <2>1. ASSUME NEW j \in 1 .. m + n
        PROVE  /\ Holds(c[j]) => s[e[j]].id = c[j].id /\ s[e[j]].type = ScopeOf(c[j])
               /\ Reads(c[j]) => s[e[j]].type = "array"
    <3>1. CASE j \in 1 .. m /\ c[j] = p[j] /\ e[j] = k
      BY <1>5, <3>1 DEF m
    <3>2. CASE j - m \in 1 .. n /\ c[j] = t[j - m] /\ e[j] = d[j - m]
      BY <1>11, <3>2
    <3>3. QED
      BY <1>10, <3>1, <3>2
  <2>2. QED
    BY <2>1
<1>17. Depths(c, s, k, e)
  <2>1. Len(c) = m + n
    BY <1>4 DEF m, n
  <2>2. QED
    BY <1>12, <1>13, <1>14, <1>15, <1>16, <2>1 DEF Depths
<1>18. QED
  BY <1>2, <1>9, <1>17 DEF Framed, c

\* An entry is put in front that leaves the next scope.
LEMMA FramedHold ==
    ASSUME NEW t, NEW s, NEW k, NEW id, Framed(t, s, k, id), NEW e, EntryOk(e, id), Holds(e),
           k + 1 <= Len(s), s[k + 1].id = e.id, s[k + 1].type = ScopeOf(e)
    PROVE  Framed(<<e>> \o t, s, k + 1, id)
<1> DEFINE c == <<e>> \o t
           n == Len(t)
<1>1. PICK d : Depths(t, s, k, d)
  BY DEF Framed
<1>2. Loose(t, id) /\ k \in 1 .. Len(s) /\ Len(s) \in Nat
  BY DEF Framed
<1>3. Loose(c, id)
  BY <1>2, LoosePush
<1>4. IsList(t) /\ n \in Nat \ {0}
  BY <1>2, LooseTail DEF Loose
<1>5. Len(c) = n + 1 /\ c[1] = e /\ \A i \in 1 .. n : c[i + 1] = t[i]
  BY <1>4, PushIs
<1> HIDE DEF c
<1> DEFINE b == [i \in 1 .. n + 1 |-> IF i = 1 THEN k + 1 ELSE d[i - 1]]
<1>6. \A i \in 1 .. n + 1 :
         \/ i = 1 /\ c[i] = e /\ b[i] = k + 1
         \/ i > 1 /\ i - 1 \in 1 .. n /\ c[i] = t[i - 1] /\ b[i] = d[i - 1]
  <2>1. ASSUME NEW i \in 1 .. n + 1, i # 1
        PROVE  i > 1 /\ i - 1 \in 1 .. n /\ c[i] = t[i - 1] /\ b[i] = d[i - 1]
    <3>1. i > 1 /\ i - 1 \in 1 .. n /\ (i - 1) + 1 = i
      BY <1>4, <2>1
    <3>2. QED
      BY <1>5, <2>1, <3>1
  <2>2. 1 \in 1 .. n + 1 /\ b[1] = k + 1
    BY <1>4
  <2>3. QED
    BY <1>5, <2>1, <2>2
<1> HIDE DEF b, n
<1>7. /\ d[1] = k
      /\ \A j \in 1 .. n : d[j] \in 1 .. k
      /\ \A i, j \in 1 .. n : i <= j => d[j] <= d[i]
      /\ \A j \in 1 .. n - 1 : d[j + 1] = IF Holds(t[j]) THEN d[j] - 1 ELSE d[j]
      /\ \A j \in 1 .. n :
            /\ Holds(t[j]) => s[d[j]].id = t[j].id /\ s[d[j]].type = ScopeOf(t[j])
            /\ Reads(t[j]) => s[d[j]].type = "array"
  BY <1>1 DEF Depths, n
<1>8. b[1] = k + 1
  BY <1>4, <1>6 DEF n
<1>9. \A j \in 1 .. n + 1 : b[j] \in 1 .. k + 1
  BY <1>2, <1>6, <1>7
<1>10. \A i, j \in 1 .. n + 1 : i <= j => b[j] <= b[i]
  <2>1. ASSUME NEW i \in 1 .. n + 1, NEW j \in 1 .. n + 1, i <= j PROVE b[j] <= b[i]
    <3>1. CASE i = 1
      BY <1>2, <1>8, <1>9, <3>1
    <3>2. CASE i # 1
      <4>1. j # 1 /\ i - 1 <= j - 1
        BY <1>4, <2>1, <3>2 DEF n
      <4>2. b[i] = d[i - 1] /\ b[j] = d[j - 1] /\ i - 1 \in 1 .. n /\ j - 1 \in 1 .. n
        BY <1>6, <3>2, <4>1
      <4>3. QED
        BY <1>7, <4>1, <4>2
    <3>3. QED
      BY <3>1, <3>2
  <2>2. QED
    BY <2>1
<1>11. \A j \in 1 .. (n + 1) - 1 : b[j + 1] = IF Holds(c[j]) THEN b[j] - 1 ELSE b[j]
  <2>1. ASSUME NEW j \in 1 .. (n + 1) - 1 PROVE b[j + 1] = IF Holds(c[j]) THEN b[j] - 1 ELSE b[j]
    <3>1. j \in 1 .. n + 1 /\ j + 1 \in 1 .. n + 1 /\ j + 1 # 1 /\ (j + 1) - 1 = j
      BY <1>4 DEF n
    <3>2. b[j + 1] = d[j]
      BY <1>6, <3>1
    <3>3. CASE j = 1
      <4>1. c[j] = e /\ b[j] = k + 1
        BY <1>5, <1>8, <3>3
      <4>2. QED
        BY <1>2, <1>7, <3>2, <3>3, <4>1
    <3>4. CASE j # 1
      <4>1. c[j] = t[j - 1] /\ b[j] = d[j - 1] /\ j - 1 \in 1 .. n - 1 /\ (j - 1) + 1 = j
        BY <1>4, <1>6, <3>1, <3>4 DEF n
      <4>2. d[(j - 1) + 1] = IF Holds(t[j - 1]) THEN d[j - 1] - 1 ELSE d[j - 1]
        BY <1>7, <4>1
      <4>3. QED
        BY <3>2, <4>1, <4>2
    <3>5. QED
      BY <3>3, <3>4
  <2>2. QED
    BY <2>1
<1>12. \A j \in 1 .. n + 1 :
          /\ Holds(c[j]) => s[b[j]].id = c[j].id /\ s[b[j]].type = ScopeOf(c[j])
          /\ Reads(c[j]) => s[b[j]].type = "array"
  <2>1. ~Reads(e)
    BY DEF Holds, Reads
  <2>2. ASSUME NEW j \in 1 .. n + 1
        PROVE  /\ Holds(c[j]) => s[b[j]].id = c[j].id /\ s[b[j]].type = ScopeOf(c[j])
               /\ Reads(c[j]) => s[b[j]].type = "array"
    <3>1. CASE c[j] = e /\ b[j] = k + 1
      BY <2>1, <3>1
    <3>2. CASE j - 1 \in 1 .. n /\ c[j] = t[j - 1] /\ b[j] = d[j - 1]
      BY <1>7, <3>2
    <3>3. QED
      BY <1>6, <3>1, <3>2
  <2>3. QED
    BY <2>2
<1>13. Depths(c, s, k + 1, b)
  <2>1. Len(c) = n + 1
    BY <1>5 DEF n
  <2>2. QED
    BY <1>8, <1>9, <1>10, <1>11, <1>12, <2>1 DEF Depths
<1>14. k + 1 \in 1 .. Len(s)
  BY <1>2
<1>15. QED
  BY <1>2, <1>3, <1>13, <1>14 DEF Framed, c

\* Scopes that are the same up to the k-th one
Alike(s, z, k) == \A i \in 1 .. k : z[i].id = s[i].id /\ z[i].type = s[i].type

\* Only the scopes up to the first entry's matter.
LEMMA FramedScopes ==
    ASSUME NEW t, NEW s, NEW k, NEW id, Framed(t, s, k, id), NEW z, Alike(s, z, k), Len(z) \in Nat,
           k <= Len(z)
    PROVE  Framed(t, z, k, id)
<1>1. PICK d : Depths(t, s, k, d)
  BY DEF Framed
<1>2. Loose(t, id) /\ k \in 1 .. Len(s) /\ Len(s) \in Nat
  BY DEF Framed
<1>3. Depths(t, z, k, d)
  BY <1>1 DEF Depths, Alike
<1>4. k \in 1 .. Len(z)
  BY <1>2
<1>5. QED
  BY <1>2, <1>3, <1>4 DEF Framed

-----------------------------------------------------------------------------
(* The reader inside of a message                                           *)

\* The bytes of a message are those of s behind lo, up to hi.
Bounds(s, lo, hi) ==
    /\ s \in Seq(ElementType(Values)) /\ Len(s) \in Nat /\ Len(s) < Wrapped
    /\ lo \in Nat /\ hi \in Nat /\ hi <= Len(s) /\ Remaining(SubSeq(s, 1, hi)) = <<>>
    /\ \A q \in Nat : lo < q /\ q < hi => Remaining(SubSeq(s, 1, q)) # <<>>
\* The reader is in step with the message, or it counts more elements than the stream still
\* has, and will not leave the message; the first scope is the message.
Right(s, x, lo, hi) == InStep(s, x) /\ lo < x.pos - 1 /\ x.pos - 1 <= hi
Inside(s, x, lo, hi, id) ==
    /\ x \in ReaderType /\ x.pos <= Len(s) + 1 /\ x.scopes # <<>> /\ Nested(x)
    /\ x.scopes[1].id = id /\ x.scopes[1].type = "array"
    /\ Right(s, x, lo, hi) \/ Astray(s, x)

\* A reader inside of a message can be asked for something unless it threw.
LEMMA InsideAsked ==
    ASSUME NEW s, NEW lo, NEW hi, NEW id, NEW x, Inside(s, x, lo, hi, id), Ok(x)
    PROVE  Asked(s, x) /\ Nested(x) /\ x \in ReaderType
  BY DEF Inside, Asked, Nested

\* Whatever a call reads, the reader stays inside of the message.
LEMMA InsideMoves ==
    ASSUME NEW s, NEW lo, NEW hi, NEW id, Bounds(s, lo, hi), NEW x, Inside(s, x, lo, hi, id), Ok(x),
           NEW y, Moved(s, x, y), InStep(s, x) /\ Ok(y) => InStep(s, y)
    PROVE  Inside(s, y, lo, hi, id) /\ (Right(s, x, lo, hi) /\ Ok(y) => Right(s, y, lo, hi))
<1>1. Asked(s, x) /\ Nested(x) /\ x \in ReaderType
  BY InsideAsked
<1>2. s \in Seq(ElementType(Values)) /\ Len(s) < Wrapped /\ hi \in Nat /\ lo \in Nat
  BY DEF Bounds
<1>3. Nested(y) /\ y.scopes # <<>>
  BY <1>1, MovedNested
<1>4. /\ Len(x.scopes) \in Nat /\ Len(x.scopes) \in 1 .. Len(x.scopes) /\ Top(x) = x.scopes[Len(x.scopes)]
      /\ 1 \in 1 .. Len(x.scopes)
  <2>1. Len(x.scopes) \in Nat /\ Len(x.scopes) # 0 /\ Top(x) = x.scopes[Len(x.scopes)]
    BY <1>1, TopIs
  <2>2. QED
    BY <2>1
<1>5. y.scopes[1].id = id /\ y.scopes[1].type = "array"
  BY <1>4 DEF Moved, Inside
<1>6. y \in ReaderType /\ y.pos <= Len(s) + 1
  BY DEF Moved
<1>7. ASSUME Astray(s, x) \/ TooMany(x, y) PROVE Astray(s, y)
  BY <1>1, <1>2, <1>7, MovedAstray
<1>8. ASSUME Right(s, x, lo, hi), Unread(x, y) PROVE Right(s, y, lo, hi)
  <2>1. InStep(s, x)
    BY <1>8 DEF Right
  <2>2. CASE Ok(y)
    BY <1>8, <2>1, <2>2 DEF Right, Unread
  <2>3. CASE ~Ok(y)
    <3>1. Len(y.scopes) = Len(x.scopes)
      BY <2>3 DEF Moved, Scoped
    <3>2. InStep(s, y)
      BY <1>1, <1>8, <2>1, <3>1, UnreadInStep
    <3>3. QED
      BY <1>8, <3>2 DEF Right, Unread
  <2>4. QED
    BY <2>2, <2>3
<1>9. ASSUME Right(s, x, lo, hi), WasRead(s, x, y) PROVE Right(s, y, lo, hi)
  <2>1. InStep(s, x) /\ lo < x.pos - 1 /\ x.pos - 1 <= hi /\ x.pos \in Nat \ {0}
    BY <1>1, <1>9 DEF Right, ReaderType
  <2>2. Top(x).left # 0 /\ y.pos = x.pos + 1 /\ Ok(y)
    BY <1>4, <1>9 DEF WasRead
  <2>3. Remaining(SubSeq(s, 1, x.pos - 1)) # <<>>
    BY <1>1, <2>1, <2>2, GoesOn
  <2>4. x.pos - 1 # hi
    BY <2>3 DEF Bounds
  <2>5. lo < y.pos - 1 /\ y.pos - 1 <= hi
    BY <1>2, <2>1, <2>2, <2>4
  <2>6. QED
    BY <2>1, <2>2, <2>5 DEF Right
<1>10. Unread(x, y) \/ WasRead(s, x, y) \/ TooMany(x, y)
  BY DEF Moved
<1>11. Ok(y) => ~TooMany(x, y)
  BY DEF TooMany
<1>12. Right(s, x, lo, hi) \/ Astray(s, x)
  BY DEF Inside
<1>13. Right(s, y, lo, hi) \/ Astray(s, y)
  BY <1>7, <1>8, <1>9, <1>10, <1>12
<1>14. Inside(s, y, lo, hi, id)
  BY <1>3, <1>5, <1>6, <1>13 DEF Inside
<1>15. QED
  BY <1>8, <1>9, <1>10, <1>11, <1>14

\* The exception and the loop that runs make no difference.
Still(x, y) == /\ y \in ReaderType /\ y.pos = x.pos /\ y.scopes = x.scopes /\ y.gen = x.gen
               /\ y.torn = x.torn

\* A reader that stays where it is stays inside of the message.
LEMMA InsideStill ==
    ASSUME NEW s, NEW lo, NEW hi, NEW id, NEW x, Inside(s, x, lo, hi, id), NEW y, Still(x, y)
    PROVE  Inside(s, y, lo, hi, id) /\ (Right(s, x, lo, hi) => Right(s, y, lo, hi))
<1>1. InStep(s, x) => InStep(s, y)
  BY DEF Still, InStep, Containers, InScope, Top
<1>2. Right(s, x, lo, hi) => Right(s, y, lo, hi)
  BY <1>1 DEF Right, Still
<1>3. Astray(s, x) => Astray(s, y)
  BY DEF Astray, Still
<1>4. Nested(y)
  BY DEF Inside, Nested, Still
<1>5. QED
  BY <1>2, <1>3, <1>4 DEF Inside, Still

\* A reader that is given another exception and loop
LEMMA StillIs ==
    ASSUME NEW x \in ReaderType, NEW e \in {"ok", "recoverable", "fatal"}, NEW g \in Int,
           NEW y, y = [x EXCEPT !.err = e, !.goal = g]
    PROVE  Still(x, y) /\ y.err = e /\ y.goal = g /\ (Ok(y) <=> e = "ok")
<1>1. /\ y \in ReaderType /\ y.pos = x.pos /\ y.scopes = x.scopes /\ y.gen = x.gen /\ y.torn = x.torn
      /\ y.err = e /\ y.goal = g
  BY DEF ReaderType
<1>2. QED
  BY <1>1 DEF Still, Ok

\* end_array of the message finds its scope.
LEMMA EndingIs ==
    ASSUME NEW s, NEW lo, NEW hi, NEW id, NEW x, Inside(s, x, lo, hi, id),
           NEW y, y = EndScope([x EXCEPT !.err = "ok", !.goal = NoGoal], "array", id)
    PROVE  Inside(s, y, lo, hi, id) /\ Ok(y) /\ y.goal = 0
<1> DEFINE h == [x EXCEPT !.err = "ok", !.goal = NoGoal]
<1>1. x \in ReaderType /\ NoGoal \in Int
  BY DEF Inside, NoGoal
<1>2. Still(x, h) /\ Ok(h) /\ h.goal = NoGoal
  BY <1>1 DEF ReaderType, Still, Ok
<1> HIDE DEF h
<1>3. Inside(s, h, lo, hi, id)
  BY <1>2, InsideStill
<1>4. Asked(s, h) /\ Nested(h) /\ h \in ReaderType
  BY <1>2, <1>3, InsideAsked
<1>5. y = EndScope(h, "array", id)
  BY DEF h
<1>6. Len(h.scopes) \in Nat /\ Len(h.scopes) # 0 /\ h.scopes \in Seq(ScopeType)
  BY <1>4, TopIs
<1>7. 1 \in 1 .. Len(h.scopes) /\ h.scopes[1].id = id /\ h.scopes[1].type = "array"
  BY <1>3, <1>6 DEF Inside
<1>8. \/ /\ y \in {Throw(h, "fatal"), Throw(h, "recoverable")}
         /\ ~\E i \in 1 .. Len(h.scopes) : h.scopes[i].id = id /\ h.scopes[i].type = "array"
      \/ \E i \in 1 .. Len(h.scopes) :
            h.scopes[i].id = id /\ h.scopes[i].type = "array" /\ y = [h EXCEPT !.goal = i - 1]
  BY <1>4, <1>5, EndScopeIs
<1>9. PICK i \in 1 .. Len(h.scopes) : h.scopes[i].id = id /\ y = [h EXCEPT !.goal = i - 1]
  BY <1>7, <1>8
<1>10. i = 1
  <2>1. \A j \in 1 .. Len(h.scopes) : h.scopes[j].id \in Nat
    BY <1>6, ScopesAre DEF ScopeType
  <2>2. 1 < i => h.scopes[1].id < h.scopes[i].id
    BY <1>4, <1>7 DEF Nested
  <2>3. QED
    BY <1>6, <1>7, <1>9, <2>1, <2>2
<1>11. y = [h EXCEPT !.err = "ok", !.goal = 0]
  <2>1. h.err = "ok"
    BY <1>2 DEF Ok
  <2>2. y = [h EXCEPT !.goal = 0]
    BY <1>9, <1>10
  <2>3. QED
    BY <1>4, <2>1, <2>2 DEF ReaderType
<1>12. Still(h, y) /\ Ok(y) /\ y.goal = 0
  <2>1. h \in ReaderType /\ 0 \in Int
    BY <1>4
  <2>2. /\ y \in ReaderType /\ y.pos = h.pos /\ y.scopes = h.scopes /\ y.gen = h.gen /\ y.torn = h.torn
        /\ y.err = "ok" /\ y.goal = 0
    BY <2>1, <1>11 DEF ReaderType
  <2>3. QED
    BY <2>2 DEF Still, Ok
<1>13. QED
  BY <1>3, <1>12, InsideStill

-----------------------------------------------------------------------------
(* What the calls of a handler leave of the scopes                          *)

\* Nothing is entered or left, or one scope is entered.
Kept(x, y) == /\ Len(y.scopes) = Len(x.scopes) /\ Alike(x.scopes, y.scopes, Len(x.scopes))
              /\ y.goal = NoGoal
Deeper(x, y, type) ==
    /\ Len(y.scopes) = Len(x.scopes) + 1 /\ Alike(x.scopes, y.scopes, Len(x.scopes))
    /\ y.goal = NoGoal
    /\ y.scopes[Len(y.scopes)].id = y.gen /\ y.scopes[Len(y.scopes)].type = type /\ y.gen > x.gen

\* A reader that is not in a loop and keeps what it should be stays inside of the message.
LEMMA Steady ==
    ASSUME NEW s, NEW lo, NEW hi, NEW id, Bounds(s, lo, hi), NEW x, Inside(s, x, lo, hi, id), Ok(x),
           x.goal = NoGoal, NEW y, Moved(s, x, y), ReaderInv(s, x) => ReaderInv(s, y)
    PROVE  Inside(s, y, lo, hi, id) /\ (Right(s, x, lo, hi) /\ Ok(y) => Right(s, y, lo, hi))
<1>1. InStep(s, x) => ReaderInv(s, x)
  BY DEF Inside, ReaderInv, Placed, Leaving
<1>2. InStep(s, x) /\ Ok(y) => InStep(s, y)
  BY <1>1 DEF ReaderInv, Placed
<1>3. QED
  BY <1>2, InsideMoves

\* A call that neither enters nor leaves a scope
LEMMA WentKept ==
    ASSUME NEW s, NEW x, NEW y, Went(s, x, y), Halted(x, y), x.goal = NoGoal
    PROVE  Moved(s, x, y) /\ Kept(x, y)
  BY DEF Went, Moved, Halted, Kept, Alike

\* A scope of the message that is entered has an id of its own.
LEMMA EnteredDeeper ==
    ASSUME NEW s, NEW lo, NEW hi, NEW id, NEW x, Inside(s, x, lo, hi, id), Ok(x), x.goal = NoGoal,
           NEW y, NEW type, Entered(s, x, y, type)
    PROVE  Moved(s, x, y) /\ Deeper(x, y, type) /\ y.gen # id
<1> DEFINE n == Len(x.scopes)
<1>1. Asked(s, x) /\ Nested(x) /\ x \in ReaderType
  BY InsideAsked
<1>2. n \in Nat /\ n # 0 /\ n \in 1 .. n /\ 1 \in 1 .. n /\ x.gen \in Nat /\ x.scopes \in Seq(ScopeType)
  <2>1. n \in Nat /\ n # 0 /\ x.scopes \in Seq(ScopeType)
    BY <1>1, TopIs
  <2>2. QED
    BY <1>1, <2>1 DEF ReaderType
<1>3. /\ Moved(s, x, y) /\ y.goal = NoGoal /\ Len(y.scopes) = n + 1
      /\ y.scopes[n + 1].id = y.gen /\ y.scopes[n + 1].type = type
  BY DEF Entered
<1>4. y.gen > x.gen
  <2>1. Len(y.scopes) # n
    BY <1>2, <1>3
  <2>2. y.scopes[n + 1].id > x.gen
    BY <1>3, <2>1 DEF Moved, Scoped
  <2>3. QED
    BY <1>3, <2>2
<1>5. Alike(x.scopes, y.scopes, n)
  BY <1>3 DEF Moved, Alike
<1>6. id <= x.gen /\ id \in Nat
  <2>1. x.scopes[1] \in ScopeType
    BY <1>2, ScopesAre
  <2>2. x.scopes[1].id <= x.gen
    BY <1>1, <1>2 DEF Nested
  <2>3. QED
    BY <2>1, <2>2 DEF Inside, ScopeType
<1>7. y.gen \in Nat
  BY <1>3 DEF Moved, ReaderType
<1>8. QED
  BY <1>2, <1>3, <1>4, <1>5, <1>6, <1>7 DEF Deeper

\* Reading a number in a message
LEMMA NumberInside ==
    ASSUME NEW s, NEW lo, NEW hi, NEW id, Bounds(s, lo, hi), NEW x, Inside(s, x, lo, hi, id), Ok(x),
           x.goal = NoGoal, KeyReady(x), NEW y, y = ReadNumber(s, x)
    PROVE  /\ Inside(s, y, lo, hi, id) /\ Kept(x, y)
           /\ Ok(y) => /\ WasRead(s, x, y) /\ s[x.pos].k = "num"
                       /\ Right(s, x, lo, hi) => Right(s, y, lo, hi)
<1>1. Asked(s, x) /\ s \in Seq(ElementType(Values))
  BY InsideAsked DEF Bounds
<1>2. Went(s, x, y) /\ Halted(x, y) /\ (Ok(y) => s[x.pos].k \in {"num"})
  BY <1>1, ReadNumberMoves
<1>3. Moved(s, x, y) /\ Kept(x, y)
  BY <1>2, WentKept
<1>4. ReaderInv(s, x) => ReaderInv(s, y)
  BY <1>1, ReadNumberKeeps
<1>5. Inside(s, y, lo, hi, id) /\ (Right(s, x, lo, hi) /\ Ok(y) => Right(s, y, lo, hi))
  BY <1>3, <1>4, Steady
<1>6. QED
  BY <1>2, <1>3, <1>5 DEF Went

\* Reading a string in a message
LEMMA StringInside ==
    ASSUME NEW s, NEW lo, NEW hi, NEW id, Bounds(s, lo, hi), NEW x, Inside(s, x, lo, hi, id), Ok(x),
           x.goal = NoGoal, KeyReady(x), NEW y, y = ReadString(s, x)
    PROVE  /\ Inside(s, y, lo, hi, id) /\ Kept(x, y)
           /\ Ok(y) => /\ WasRead(s, x, y)
                       /\ Right(s, x, lo, hi) => Right(s, y, lo, hi)
<1>1. Asked(s, x) /\ s \in Seq(ElementType(Values))
  BY InsideAsked DEF Bounds
<1>2. Went(s, x, y) /\ Halted(x, y)
  BY <1>1, ReadStringMoves
<1>3. Moved(s, x, y) /\ Kept(x, y)
  BY <1>2, WentKept
<1>4. ReaderInv(s, x) => ReaderInv(s, y)
  BY <1>1, ReadStringKeeps
<1>5. Inside(s, y, lo, hi, id) /\ (Right(s, x, lo, hi) /\ Ok(y) => Right(s, y, lo, hi))
  BY <1>3, <1>4, Steady
<1>6. QED
  BY <1>2, <1>3, <1>5 DEF Went

\* Entering an array in a message
LEMMA ArrayInside ==
    ASSUME NEW s, NEW lo, NEW hi, NEW id, Bounds(s, lo, hi), NEW x, Inside(s, x, lo, hi, id), Ok(x),
           x.goal = NoGoal, NEW y, y = BeginArray(s, x)
    PROVE  /\ Inside(s, y, lo, hi, id)
           /\ Ok(y) => Deeper(x, y, "array") /\ y.gen # id /\ VerifyNotKey(x) = x
<1>1. Asked(s, x) /\ s \in Seq(ElementType(Values))
  BY InsideAsked DEF Bounds
<1>2. /\ IF Ok(y) THEN Entered(s, x, y, "array") /\ VerifyNotKey(x) = x ELSE Went(s, x, y)
      /\ Halted(x, y)
  BY <1>1, BeginArrayMoves
<1>3. Ok(y) => Moved(s, x, y) /\ Deeper(x, y, "array") /\ y.gen # id
  BY <1>2, EnteredDeeper
<1>4. Moved(s, x, y)
  BY <1>2, <1>3 DEF Went
<1>5. ReaderInv(s, x) => ReaderInv(s, y)
  BY <1>1, BeginArrayKeeps
<1>6. Inside(s, y, lo, hi, id)
  BY <1>4, <1>5, Steady
<1>7. QED
  BY <1>2, <1>3, <1>6

\* Entering an object in a message
LEMMA ObjectInside ==
    ASSUME NEW s, NEW lo, NEW hi, NEW id, Bounds(s, lo, hi), NEW x, Inside(s, x, lo, hi, id), Ok(x),
           x.goal = NoGoal, NEW y, y = BeginObject(s, x)
    PROVE  /\ Inside(s, y, lo, hi, id)
           /\ Ok(y) => Deeper(x, y, "object") /\ y.gen # id /\ VerifyNotKey(x) = x
<1>1. Asked(s, x) /\ s \in Seq(ElementType(Values))
  BY InsideAsked DEF Bounds
<1>2. /\ IF Ok(y) THEN Entered(s, x, y, "object") /\ VerifyNotKey(x) = x ELSE Went(s, x, y)
      /\ Halted(x, y)
  BY <1>1, BeginObjectMoves
<1>3. Ok(y) => Moved(s, x, y) /\ Deeper(x, y, "object") /\ y.gen # id
  BY <1>2, EnteredDeeper
<1>4. Moved(s, x, y)
  BY <1>2, <1>3 DEF Went
<1>5. ReaderInv(s, x) => ReaderInv(s, y)
  BY <1>1, BeginObjectKeeps
<1>6. Inside(s, y, lo, hi, id)
  BY <1>4, <1>5, Steady
<1>7. QED
  BY <1>2, <1>3, <1>6

\* An exception in a message
LEMMA ThrowInside ==
    ASSUME NEW s, NEW lo, NEW hi, NEW id, Bounds(s, lo, hi), NEW x, Inside(s, x, lo, hi, id), Ok(x),
           NEW e \in {"recoverable", "fatal"}
    PROVE  Inside(s, Throw(x, e), lo, hi, id) /\ ~Ok(Throw(x, e)) /\ Throw(x, e).err = e
<1> DEFINE y == Throw(x, e)
<1>1. Asked(s, x)
  BY InsideAsked
<1>2. Moved(s, x, y) /\ ~Ok(y) /\ y.err = e
  BY <1>1, ThrowMoves
<1> HIDE DEF y
<1>3. Inside(s, y, lo, hi, id)
  BY <1>2, InsideMoves
<1>4. QED
  BY <1>2, <1>3 DEF y

\* Skipping a value in a message: what it enters is left at once.
LEMMA SkipInside ==
    ASSUME NEW s, NEW lo, NEW hi, NEW id, Bounds(s, lo, hi), NEW x, Inside(s, x, lo, hi, id), Ok(x),
           x.goal = NoGoal, NEW y, y = Skip(s, x)
    PROVE  /\ Inside(s, y, lo, hi, id) /\ Alike(x.scopes, y.scopes, Len(x.scopes))
           /\ Ok(y) => \/ Kept(x, y)
                       \/ y.goal = Len(x.scopes) /\ Len(y.scopes) = Len(x.scopes) + 1
<1>1. Asked(s, x) /\ s \in Seq(ElementType(Values))
  BY InsideAsked DEF Bounds
<1>2. /\ Moved(s, x, y)
      /\ \/ y.goal = NoGoal /\ (Ok(y) => Len(y.scopes) = Len(x.scopes))
         \/ y.goal = Len(x.scopes) /\ Ok(y) /\ Len(y.scopes) = Len(x.scopes) + 1
  BY <1>1, SkipMoves
<1>3. ~InScope(x, "binary")
  <2>1. Top(x).type # "binary"
    BY <1>1, TopIs
  <2>2. QED
    BY <2>1 DEF InScope
<1>4. ReaderInv(s, x) => ReaderInv(s, y)
  BY <1>1, <1>3, SkipKeeps
<1>5. Inside(s, y, lo, hi, id)
  BY <1>2, <1>4, Steady
<1>6. Alike(x.scopes, y.scopes, Len(x.scopes))
  BY <1>2 DEF Moved, Alike
<1>7. QED
  BY <1>2, <1>5, <1>6 DEF Kept

\* read_key_next in a message
LEMMA KeyNextInside ==
    ASSUME NEW s, NEW lo, NEW hi, NEW id, Bounds(s, lo, hi), NEW x, Inside(s, x, lo, hi, id), Ok(x),
           x.goal = NoGoal, NEW y, y = ReadKeyNext(x)
    PROVE  /\ Inside(s, y, lo, hi, id) /\ Kept(x, y)
           /\ Ok(y) => KeyOrder(Top(y)) /\ Top(y).key
<1>1. Asked(s, x) /\ s \in Seq(ElementType(Values))
  BY InsideAsked DEF Bounds
<1>2. /\ Moved(s, x, y) /\ Halted(x, y) /\ Len(y.scopes) = Len(x.scopes)
      /\ Ok(y) => KeyOrder(Top(y)) /\ Top(y).key
  BY <1>1, ReadKeyNextMoves
<1>3. ReaderInv(s, x) => ReaderInv(s, y)
  BY ReadKeyNextKeeps
<1>4. Inside(s, y, lo, hi, id)
  BY <1>2, <1>3, Steady
<1>5. Kept(x, y)
  BY <1>2 DEF Moved, Halted, Kept, Alike
<1>6. QED
  BY <1>2, <1>4, <1>5

\* After a key its value is next.
LEMMA ValueNext ==
    ASSUME NEW s, NEW x, Asked(s, x), KeyOrder(Top(x)), NEW y, WasRead(s, x, y),
           Len(y.scopes) = Len(x.scopes)
    PROVE  ~KeyOrder(Top(y))
<1> DEFINE n == Len(x.scopes)
<1>1. n \in Nat /\ n # 0 /\ n \in 1 .. n /\ Top(x) = x.scopes[n] /\ Top(x) \in ScopeType
  BY TopIs
<1>2. y.scopes[n].left = x.scopes[n].left - 1 /\ x.scopes[n].left # 0
  BY DEF WasRead
<1>3. Top(y) = y.scopes[n]
  BY DEF Top, Last
<1>4. x.scopes[n].left \in Nat /\ x.scopes[n].left % 2 = 0
  BY <1>1 DEF ScopeType, KeyOrder
<1> DEFINE l == x.scopes[n].left
<1>5. l \in Nat /\ l % 2 = 0
  BY <1>4
<1> HIDE DEF l
<1>6. (l - 1) % 2 # 0
  BY <1>5
<1>7. QED
  BY <1>2, <1>3, <1>6 DEF KeyOrder, l

\* Reading a key in a message
LEMMA KeyInside ==
    ASSUME NEW s, NEW lo, NEW hi, NEW id, Bounds(s, lo, hi), NEW x, Inside(s, x, lo, hi, id), Ok(x),
           x.goal = NoGoal, NEW y, y = ReadString(s, ReadKeyNext(x))
    PROVE  /\ Inside(s, y, lo, hi, id) /\ Kept(x, y)
           /\ Ok(y) => KeyReady(y)
<1>1. Asked(s, x) /\ s \in Seq(ElementType(Values))
  BY InsideAsked DEF Bounds
<1>2. Went(s, x, y) /\ Halted(x, y) /\ (Ok(y) => KeyOrder(Top(x)))
  BY <1>1, ReadKeyMoves
<1>3. Moved(s, x, y) /\ Kept(x, y)
  BY <1>2, WentKept
<1>4. ASSUME ReaderInv(s, x) PROVE ReaderInv(s, y)
  <2> DEFINE w == ReadKeyNext(x)
  <2>1. ReaderInv(s, w)
    BY <1>4, ReadKeyNextKeeps
  <2>2. y = ReadString(s, w)
    OBVIOUS
  <2> HIDE DEF w
  <2>3. CASE Ok(w)
    BY <1>1, <2>1, <2>2, <2>3, ReadStringKeeps
  <2>4. CASE ~Ok(w)
    <3>1. /\ Take(s, w, {"str"}) = w /\ StepContext(w) = w /\ TornBy(w, w) = w
      BY <2>4, ThrownPasses
    <3>2. y = w
      BY <2>2, <3>1 DEF ReadString
    <3>3. QED
      BY <2>1, <3>2
  <2>5. QED
    BY <2>3, <2>4
<1>5. Inside(s, y, lo, hi, id)
  BY <1>3, <1>4, Steady
<1>6. Ok(y) => ~KeyOrder(Top(y))
  <2>1. Ok(y) => WasRead(s, x, y) /\ Len(y.scopes) = Len(x.scopes)
    BY <1>2 DEF Went
  <2>2. QED
    BY <1>1, <1>2, <1>3, <2>1, ValueNext
<1>7. QED
  BY <1>3, <1>5, <1>6 DEF KeyReady

\* A binary in a message, whose bytes are dropped
LEMMA BinaryInside ==
    ASSUME NEW s, NEW lo, NEW hi, NEW id, Bounds(s, lo, hi), NEW x, Inside(s, x, lo, hi, id), Ok(x),
           x.goal = NoGoal, KeyReady(x), NEW z, z = BeginBinary(s, x)
    PROVE  IF Ok(z)
           THEN /\ Inside(s, EndBinary(z), lo, hi, id) /\ Kept(x, EndBinary(z)) /\ Ok(EndBinary(z))
                /\ WasRead(s, x, EndBinary(z))
           ELSE Inside(s, z, lo, hi, id) /\ Kept(x, z)
<1> DEFINE w == EndBinary(z)
<1>1. Asked(s, x) /\ s \in Seq(ElementType(Values))
  BY InsideAsked DEF Bounds
<1>2. /\ ~Ok(z) => Went(s, x, z) /\ Halted(x, z)
      /\ Ok(z) => Went(s, x, w) /\ Ok(w) /\ w.goal = x.goal /\ z.goal = x.goal
  BY <1>1, BinaryMoves
<1>3. ASSUME ReaderInv(s, x) PROVE ReaderInv(s, z) /\ (Ok(z) /\ z.goal = NoGoal => ReaderInv(s, w))
  <2>1. ReaderInv(s, z)
    BY <1>1, <1>3, BeginBinaryKeeps
  <2>2. QED
    BY <2>1, EndBinaryKeeps
<1>4. CASE ~Ok(z)
  <2>1. Moved(s, x, z) /\ Kept(x, z)
    BY <1>2, <1>4, WentKept
  <2>2. Inside(s, z, lo, hi, id)
    BY <1>3, <2>1, Steady
  <2>3. QED
    BY <1>4, <2>1, <2>2
<1>5. CASE Ok(z)
  <2>1. Halted(x, w)
    BY <1>2, <1>5 DEF Halted
  <2> HIDE DEF w
  <2>2. Moved(s, x, w) /\ Kept(x, w)
    BY <1>2, <1>5, <2>1, WentKept
  <2>3. z.goal = NoGoal
    BY <1>2, <1>5
  <2>4. Inside(s, w, lo, hi, id)
    BY <1>3, <1>5, <2>2, <2>3, Steady
  <2>5. WasRead(s, x, w)
    BY <1>2, <1>5 DEF Went
  <2>6. QED
    BY <1>2, <1>5, <2>2, <2>4, <2>5 DEF w
<1>6. QED
  BY <1>4, <1>5

-----------------------------------------------------------------------------
(* The handler between two calls                                            *)

\* A list in parts
LEMMA ListAgain ==
    ASSUME NEW t, IsList(t), t # <<>>
    PROVE  t = <<Head(t)>> \o Tail(t)
<1> DEFINE e == Head(t)
           u == Tail(t)
           c == <<e>> \o u
<1>1. /\ IsList(u) /\ Len(t) \in Nat \ {0} /\ Len(u) = Len(t) - 1 /\ e = t[1]
      /\ \A i \in 1 .. Len(t) - 1 : u[i] = t[i + 1]
  BY TailIs
<1> HIDE DEF e, u
<1>2. IsList(c) /\ Len(c) = Len(u) + 1 /\ c[1] = e /\ \A i \in 1 .. Len(u) : c[i + 1] = u[i]
  BY <1>1, PushIs
<1> HIDE DEF c
<1>3. Len(c) = Len(t) /\ t = [i \in 1 .. Len(t) |-> t[i]] /\ c = [i \in 1 .. Len(t) |-> c[i]]
  BY <1>1, <1>2 DEF IsList
<1>4. ASSUME NEW i \in 1 .. Len(t) PROVE c[i] = t[i]
  <2>1. CASE i = 1
    BY <1>1, <1>2, <2>1
  <2>2. CASE i # 1
    <3>1. i - 1 \in 1 .. Len(t) - 1 /\ i - 1 \in 1 .. Len(u) /\ (i - 1) + 1 = i
      BY <1>1, <2>2
    <3>2. u[i - 1] = t[(i - 1) + 1] /\ c[(i - 1) + 1] = u[i - 1]
      BY <1>1, <1>2, <3>1
    <3>3. QED
      BY <3>1, <3>2
  <2>3. QED
    BY <2>1, <2>2
<1>5. c = t
  BY <1>3, <1>4
<1>6. QED
  BY <1>5 DEF c, e, u

\* Lists in a row
LEMMA ListsAre ==
    ASSUME NEW a, NEW b, NEW c, IsList(a), IsList(b), IsList(c)
    PROVE  (a \o b) \o c = a \o (b \o c)
<1> DEFINE p == a \o b
           q == b \o c
           n == Len(a) + Len(b) + Len(c)
<1>1. /\ IsList(p) /\ Len(p) = Len(a) + Len(b) /\ Len(a) \in Nat /\ Len(b) \in Nat /\ Len(c) \in Nat
      /\ \A i \in 1 .. Len(a) + Len(b) : p[i] = IF i <= Len(a) THEN a[i] ELSE b[i - Len(a)]
  BY ConcatIs
<1>2. /\ IsList(q) /\ Len(q) = Len(b) + Len(c)
      /\ \A i \in 1 .. Len(b) + Len(c) : q[i] = IF i <= Len(b) THEN b[i] ELSE c[i - Len(b)]
  BY ConcatIs
<1> HIDE DEF p, q
<1>3. /\ IsList(p \o c) /\ Len(p \o c) = Len(p) + Len(c)
      /\ \A i \in 1 .. Len(p) + Len(c) : (p \o c)[i] = IF i <= Len(p) THEN p[i] ELSE c[i - Len(p)]
  BY <1>1, ConcatIs
<1>4. /\ IsList(a \o q) /\ Len(a \o q) = Len(a) + Len(q)
      /\ \A i \in 1 .. Len(a) + Len(q) : (a \o q)[i] = IF i <= Len(a) THEN a[i] ELSE q[i - Len(a)]
  BY <1>1, <1>2, ConcatIs
<1> DEFINE x == p \o c
           y == a \o q
<1>5. /\ x = [i \in 1 .. n |-> x[i]] /\ y = [i \in 1 .. n |-> y[i]]
      /\ \A i \in 1 .. n : x[i] = IF i <= Len(p) THEN p[i] ELSE c[i - Len(p)]
      /\ \A i \in 1 .. n : y[i] = IF i <= Len(a) THEN a[i] ELSE q[i - Len(a)]
  <2>1. Len(p) + Len(c) = n /\ Len(a) + Len(q) = n
    BY <1>1, <1>2
  <2> HIDE DEF n
  <2>2. QED
    BY <1>3, <1>4, <2>1 DEF IsList
<1> HIDE DEF x, y, n
<1>6. ASSUME NEW i \in 1 .. n PROVE x[i] = y[i]
  <2>1. CASE i <= Len(a)
    <3>1. i <= Len(p) /\ i \in 1 .. Len(a) + Len(b)
      BY <1>1, <2>1
    <3>2. QED
      BY <1>1, <1>5, <2>1, <3>1
  <2>2. CASE ~(i <= Len(a)) /\ i <= Len(a) + Len(b)
    <3>1. i - Len(a) \in 1 .. Len(b) + Len(c) /\ i - Len(a) <= Len(b) /\ i \in 1 .. Len(a) + Len(b)
      BY <1>1, <2>2
    <3>2. QED
      BY <1>1, <1>2, <1>5, <2>2, <3>1
  <2>3. CASE ~(i <= Len(a)) /\ ~(i <= Len(a) + Len(b))
    <3>1. /\ i - Len(a) \in 1 .. Len(b) + Len(c) /\ ~(i - Len(a) <= Len(b))
          /\ (i - Len(a)) - Len(b) = i - (Len(a) + Len(b))
      BY <1>1, <2>3 DEF n
    <3>2. QED
      BY <1>1, <1>2, <1>5, <2>3, <3>1
  <2>4. QED
    BY <2>1, <2>2, <2>3
<1>7. x = y
  BY <1>5, <1>6
<1>8. QED
  BY <1>7 DEF x, y, p, q

\* A call stack of two entries
LEMMA TwoTuple == ASSUME NEW e, NEW f PROVE <<e, f>> = <<e>> \o <<f>>
<1> DEFINE a == <<e>> \o <<f>>
           b == <<e, f>>
<1>1. /\ IsList(a) /\ Len(a) = 2 /\ a[1] = e /\ a[2] = f
  <2> DEFINE d == <<f>>
  <2>1. IsList(d) /\ Len(d) = 1 /\ d[1] = f
    BY OneIs
  <2> HIDE DEF d
  <2>2. /\ IsList(<<e>> \o d) /\ Len(<<e>> \o d) = Len(d) + 1 /\ (<<e>> \o d)[1] = e
        /\ \A i \in 1 .. Len(d) : (<<e>> \o d)[i + 1] = d[i]
    BY <2>1, PushIs
  <2>3. (<<e>> \o d)[1 + 1] = d[1]
    BY <2>1, <2>2
  <2>4. QED
    BY <2>1, <2>2, <2>3 DEF d
<1>2. IsList(b) /\ Len(b) = 2 /\ b[1] = e /\ b[2] = f
  <2>1. b \in Seq({e, f}) /\ Len(b) = 2 /\ b[1] = e /\ b[2] = f
    OBVIOUS
  <2> HIDE DEF b
  <2>2. QED
    BY <2>1, SeqIsList
<1> HIDE DEF a, b
<1>3. a = [i \in 1 .. 2 |-> a[i]] /\ b = [i \in 1 .. 2 |-> b[i]]
  BY <1>1, <1>2 DEF IsList
<1>4. \A i \in 1 .. 2 : a[i] = b[i]
  BY <1>1, <1>2
<1>5. a = b
  BY <1>3, <1>4
<1>6. QED
  BY <1>5 DEF a, b

\* A call stack of three entries
LEMMA ThreeTuple ==
    ASSUME NEW e, NEW f, NEW g PROVE <<e, f, g>> = <<e>> \o (<<f>> \o <<g>>)
<1> DEFINE d == <<f>> \o <<g>>
           a == <<e>> \o d
           b == <<e, f, g>>
<1>1. IsList(d) /\ Len(d) = 2 /\ d[1] = f /\ d[2] = g
  <2> DEFINE c == <<f, g>>
  <2>1. d = c
    BY TwoTuple
  <2>2. c \in Seq({f, g}) /\ Len(c) = 2 /\ c[1] = f /\ c[2] = g
    OBVIOUS
  <2> HIDE DEF c, d
  <2>3. IsList(c)
    BY <2>2, SeqIsList
  <2>4. QED
    BY <2>1, <2>2, <2>3
<1> HIDE DEF d
<1>2. IsList(a) /\ Len(a) = 3 /\ a[1] = e /\ a[2] = f /\ a[3] = g
  <2>1. /\ IsList(<<e>> \o d) /\ Len(<<e>> \o d) = Len(d) + 1 /\ (<<e>> \o d)[1] = e
        /\ \A i \in 1 .. Len(d) : (<<e>> \o d)[i + 1] = d[i]
    <3>1. IsList(d)
      BY <1>1
    <3>2. QED
      BY <3>1, PushIs
  <2>2. (<<e>> \o d)[1 + 1] = d[1] /\ (<<e>> \o d)[2 + 1] = d[2]
    BY <1>1, <2>1
  <2>3. QED
    BY <1>1, <2>1, <2>2
<1>3. IsList(b) /\ Len(b) = 3 /\ b[1] = e /\ b[2] = f /\ b[3] = g
  <2>1. b \in Seq({e, f, g}) /\ Len(b) = 3 /\ b[1] = e /\ b[2] = f /\ b[3] = g
    OBVIOUS
  <2> HIDE DEF b
  <2>2. QED
    BY <2>1, SeqIsList
<1> HIDE DEF a, b
<1>4. a = [i \in 1 .. 3 |-> a[i]] /\ b = [i \in 1 .. 3 |-> b[i]]
  BY <1>2, <1>3 DEF IsList
<1>5. \A i \in 1 .. 3 : a[i] = b[i]
  BY <1>2, <1>3
<1>6. a = b
  BY <1>4, <1>5
<1>7. QED
  BY <1>6 DEF a, b, d

\* Two entries in front of a list
LEMMA TwoAre ==
    ASSUME NEW e, NEW f, NEW t, IsList(t)
    PROVE  <<e, f>> \o t = <<e>> \o (<<f>> \o t)
<1>1. IsList(<<e>>) /\ IsList(<<f>>)
  BY OneIs
<1>2. (<<e>> \o <<f>>) \o t = <<e>> \o (<<f>> \o t)
  BY <1>1, ListsAre
<1>3. <<e>> \o <<f>> = <<e, f>>
  BY TwoTuple
<1>4. QED
  BY <1>2, <1>3

\* Where something is read in an object, the key is read that comes before it; a pair of the
\* object that is dumped is read after ReadKeyNext.
Ready(x, t, id) ==
    LET n == Len(x.scopes)
    IN  \/ Framed(t, x.scopes, n, id)
        \/ \E e, u : /\ t = <<e>> \o u /\ EntryOk(e, id) /\ e.op \in {"restore", "dump"} /\ KeyReady(x)
                     /\ Framed(u, x.scopes, n, id)
        \/ \E u : /\ t = <<Dump>> \o (<<Dump>> \o u) /\ KeyOrder(Top(x)) /\ Top(x).key
                  /\ Framed(u, x.scopes, n, id)
Data(x, t, id) == IF x.goal = NoGoal THEN Ready(x, t, id)
                  ELSE x.goal \in 1 .. Len(x.scopes) - 1 /\ Framed(t, x.scopes, x.goal, id)
\* An exception passes through the frames of a dump.
Cleanup(x, t, id) ==
    /\ \E u, err : /\ Loose(u, id) /\ err \in {"recoverable", "fatal"}
                   /\ \/ t = <<Rethrow(err)>> \o u
                      \/ \E e : /\ e.op \in {"leave", "left"} /\ EntryOk(e, id)
                                /\ t = <<e>> \o (<<Rethrow(err)>> \o u)
    /\ x.goal = NoGoal \/ x.goal \in 1 .. Len(x.scopes) - 1

\* What is done after reading one element
Rest(x, u, id) ==
    \/ Framed(u, x.scopes, Len(x.scopes), id)
    \/ /\ KeyOrder(Top(x)) /\ Top(x).key
       /\ \E v : u = <<Dump>> \o v /\ Framed(v, x.scopes, Len(x.scopes), id)

\* A call stack is a list of entries.
LEMMA FramedLoose ==
    ASSUME NEW t, NEW s, NEW k, NEW id, Framed(t, s, k, id)
    PROVE  Loose(t, id) /\ IsList(t) /\ t # <<>>
  BY DEF Framed, Loose

\* Dump is an entry.
LEMMA DumpIs == \A id : EntryOk(Dump, id) /\ Reads(Dump) /\ ~Holds(Dump) /\ ~Bottom(Dump) /\ Dump.op = "dump"
  BY DEF EntryOk, Reads, Holds, Bottom, Dump, Ops

\* Outside of objects no key is needed.
LEMMA ArrayReady ==
    ASSUME NEW s, NEW x, Asked(s, x), x.scopes[Len(x.scopes)].type = "array"
    PROVE  KeyReady(x) /\ ~KeyOrder(Top(x))
<1>1. Top(x) = x.scopes[Len(x.scopes)]
  BY TopIs
<1>2. QED
  BY <1>1 DEF KeyReady, KeyOrder

\* The handler reads an element.
LEMMA ReadyReads ==
    ASSUME NEW s, NEW x, Asked(s, x), NEW t, NEW id, Ready(x, t, id), Reads(Head(t))
    PROVE  /\ KeyReady(x) /\ EntryOk(Head(t), id) /\ Rest(x, Tail(t), id)
           /\ Head(t).op # "dump" => Framed(Tail(t), x.scopes, Len(x.scopes), id)
           /\ Head(t).op \in {"field", "select"} => x.scopes[Len(x.scopes)].type = "array"
<1> DEFINE n == Len(x.scopes)
<1>1. CASE Framed(t, x.scopes, n, id)
  <2> DEFINE e == Head(t)
  <2>1. EntryOk(e, id) /\ x.scopes[n].type = "array"
    BY <1>1, FramedHead
  <2>2. ~Bottom(e) /\ ~Holds(e)
    BY DEF Reads, Bottom, Holds
  <2>3. Framed(Tail(t), x.scopes, n, id)
    BY <1>1, <2>2, FramedTail
  <2>4. KeyReady(x)
    BY <2>1, ArrayReady
  <2>5. QED
    BY <2>1, <2>3, <2>4 DEF Rest
<1>2. CASE \E e, u : /\ t = <<e>> \o u /\ EntryOk(e, id) /\ e.op \in {"restore", "dump"} /\ KeyReady(x)
                     /\ Framed(u, x.scopes, n, id)
  <2>1. PICK e, u : /\ t = <<e>> \o u /\ EntryOk(e, id) /\ e.op \in {"restore", "dump"} /\ KeyReady(x)
                    /\ Framed(u, x.scopes, n, id)
    BY <1>2
  <2>2. IsList(u)
    BY <2>1, FramedLoose
  <2>3. Head(t) = e /\ Tail(t) = u
    BY <2>1, <2>2, PushIs
  <2>4. QED
    BY <2>1, <2>3 DEF Rest
<1>3. CASE \E u : /\ t = <<Dump>> \o (<<Dump>> \o u) /\ KeyOrder(Top(x)) /\ Top(x).key
                  /\ Framed(u, x.scopes, n, id)
  <2>1. PICK u : /\ t = <<Dump>> \o (<<Dump>> \o u) /\ KeyOrder(Top(x)) /\ Top(x).key
                 /\ Framed(u, x.scopes, n, id)
    BY <1>3
  <2> DEFINE v == <<Dump>> \o u
  <2>2. IsList(v)
    BY <2>1, FramedLoose, PushIs
  <2>3. t = <<Dump>> \o v
    BY <2>1
  <2> HIDE DEF v
  <2>4. Head(t) = Dump /\ Tail(t) = v
    BY <2>2, <2>3, PushIs
  <2>5. Rest(x, v, id)
    BY <2>1 DEF Rest, v
  <2>6. KeyReady(x)
    BY <2>1 DEF KeyReady
  <2>7. QED
    BY <2>4, <2>5, <2>6, DumpIs
<1>4. QED
  BY <1>1, <1>2, <1>3 DEF Ready

\* It does something else.
LEMMA ReadyOther ==
    ASSUME NEW x, NEW t, NEW id, Ready(x, t, id), ~Reads(Head(t))
    PROVE  Framed(t, x.scopes, Len(x.scopes), id)
<1> DEFINE n == Len(x.scopes)
<1>1. ASSUME NEW e, NEW u, t = <<e>> \o u, Framed(u, x.scopes, n, id), e.op \in {"restore", "dump"} PROVE FALSE
  <2>1. IsList(u)
    BY <1>1, FramedLoose
  <2>2. Head(t) = e
    BY <1>1, <2>1, PushIs
  <2>3. QED
    BY <1>1, <2>2 DEF Reads
<1>2. ASSUME NEW u, t = <<Dump>> \o (<<Dump>> \o u), Framed(u, x.scopes, n, id) PROVE FALSE
  <2> DEFINE v == <<Dump>> \o u
  <2>1. IsList(v)
    BY <1>2, FramedLoose, PushIs
  <2>2. t = <<Dump>> \o v
    BY <1>2
  <2> HIDE DEF v
  <2>3. Head(t) = Dump
    BY <2>1, <2>2, PushIs
  <2>4. QED
    BY <2>3, DumpIs
<1>3. QED
  BY <1>1, <1>2 DEF Ready

\* The same stack after a call that neither enters nor leaves a scope
LEMMA FramedKept ==
    ASSUME NEW u, NEW x, NEW id, Framed(u, x.scopes, Len(x.scopes), id), NEW y, Kept(x, y)
    PROVE  Framed(u, y.scopes, Len(y.scopes), id) /\ Data(y, u, id)
<1>1. Len(x.scopes) \in Nat
  BY DEF Framed
<1>2. Framed(u, y.scopes, Len(x.scopes), id)
  BY <1>1, FramedScopes DEF Kept
<1>3. QED
  BY <1>2 DEF Kept, Data, Ready

\* The scope that is entered is to be left by the entry put in front.
LEMMA FramedDeeper ==
    ASSUME NEW u, NEW x, NEW id, Framed(u, x.scopes, Len(x.scopes), id), NEW y, NEW type,
           Deeper(x, y, type), NEW e, EntryOk(e, id), Holds(e), e.id = y.gen, ScopeOf(e) = type
    PROVE  Framed(<<e>> \o u, y.scopes, Len(y.scopes), id)
<1> DEFINE n == Len(x.scopes)
<1>1. n \in Nat /\ n \in 1 .. n
  BY DEF Framed
<1>2. Framed(u, y.scopes, n, id)
  BY <1>1, FramedScopes DEF Deeper
<1>3. n + 1 = Len(y.scopes) /\ y.scopes[n + 1].id = e.id /\ y.scopes[n + 1].type = ScopeOf(e)
  BY <1>1 DEF Deeper
<1>4. n + 1 <= Len(y.scopes)
  BY <1>1, <1>3
<1>5. Framed(<<e>> \o u, y.scopes, n + 1, id)
  BY <1>2, <1>3, <1>4, FramedHold
<1>6. QED
  BY <1>3, <1>5

\* One entry is put in front that leaves no scope, and reads in an array only.
LEMMA FramedOne ==
    ASSUME NEW t, NEW s, NEW k, NEW id, Framed(t, s, k, id), NEW e, EntryOk(e, id), ~Holds(e),
           Reads(e) => s[k].type = "array"
    PROVE  Framed(<<e>> \o t, s, k, id)
<1> DEFINE p == <<e>>
<1>1. IsList(p) /\ Len(p) = 1 /\ p[1] = e
  BY OneIs
<1> HIDE DEF p
<1>2. Parts(p, s, k, id)
  BY <1>1 DEF Parts
<1>3. Framed(p \o t, s, k, id)
  BY <1>2, FramedParts
<1>4. QED
  BY <1>3 DEF p

\* The scope at i is to be left.
Ends(x, y, i) == y = [x EXCEPT !.goal = i - 1]
\* Leaving the scope of an entry
LEMMA EndInside ==
    ASSUME NEW s, NEW lo, NEW hi, NEW id, Bounds(s, lo, hi), NEW x, Inside(s, x, lo, hi, id), Ok(x),
           x.goal = NoGoal, NEW type, NEW e, e # id, NEW y, y = EndScope(x, type, e)
    PROVE  /\ Inside(s, y, lo, hi, id)
           /\ Ok(y) => \E i \in 2 .. Len(x.scopes) : Ends(x, y, i)
           /\ \A i \in 1 .. Len(x.scopes) :
                 x.scopes[i].id = e /\ x.scopes[i].type = type =>
                    i \in 2 .. Len(x.scopes) /\ Ends(x, y, i) /\ Ok(y)
<1>1. Asked(s, x) /\ Nested(x) /\ x \in ReaderType
  BY InsideAsked
<1>2. Len(x.scopes) \in Nat /\ Len(x.scopes) # 0 /\ x.scopes \in Seq(ScopeType)
  BY <1>1, TopIs
<1>3. \/ /\ y \in {Throw(x, "fatal"), Throw(x, "recoverable")}
         /\ ~\E i \in 1 .. Len(x.scopes) : x.scopes[i].id = e /\ x.scopes[i].type = type
      \/ \E i \in 1 .. Len(x.scopes) :
            x.scopes[i].id = e /\ x.scopes[i].type = type /\ Ends(x, y, i)
  BY <1>1, EndScopeIs DEF Ends
<1>4. ASSUME NEW i \in 1 .. Len(x.scopes), x.scopes[i].id = e, Ends(x, y, i)
      PROVE  /\ i \in 2 .. Len(x.scopes) /\ Inside(s, y, lo, hi, id) /\ Ok(y)
             /\ \A j \in 1 .. Len(x.scopes) : x.scopes[j].id = e => j = i
  <2>1. i # 1
    BY <1>4 DEF Inside
  <2>2. i - 1 \in Int /\ i \in 2 .. Len(x.scopes)
    BY <1>2, <2>1
  <2>3. y.err = x.err /\ Still(x, y)
    BY <1>1, <1>4, <2>2 DEF ReaderType, Still, Ends
  <2>4. Inside(s, y, lo, hi, id) /\ Ok(y)
    BY <2>3, InsideStill DEF Ok
  <2>5. ASSUME NEW j \in 1 .. Len(x.scopes), x.scopes[j].id = e, j # i PROVE FALSE
    <3>1. x.scopes[i].id \in Nat /\ x.scopes[j].id \in Nat
      BY <1>2, ScopesAre DEF ScopeType
    <3>2. i < j \/ j < i
      BY <1>2, <2>5
    <3>3. QED
      BY <1>1, <1>4, <2>5, <3>1, <3>2 DEF Nested
  <2>6. QED
    BY <2>2, <2>4, <2>5
<1>5. CASE \E i \in 1 .. Len(x.scopes) :
              x.scopes[i].id = e /\ x.scopes[i].type = type /\ Ends(x, y, i)
  BY <1>4, <1>5
<1>6. CASE /\ y \in {Throw(x, "fatal"), Throw(x, "recoverable")}
           /\ ~\E i \in 1 .. Len(x.scopes) : x.scopes[i].id = e /\ x.scopes[i].type = type
  <2>1. Inside(s, y, lo, hi, id) /\ ~Ok(y)
    BY <1>6, ThrowInside
  <2>2. QED
    BY <1>6, <2>1
<1>7. QED
  BY <1>3, <1>5, <1>6

-----------------------------------------------------------------------------
(* Restoring a value                                                        *)

\* A step of a handler: an exception was thrown, or the handler goes on.
Restores(s, z, lo, hi, id) == Inside(s, z.r, lo, hi, id) /\ (Ok(z.r) => Data(z.r, z.todo, id))

\* After a value, the one behind it
LEMMA SkipDone ==
    ASSUME NEW s, NEW lo, NEW hi, NEW id, Bounds(s, lo, hi), NEW x, Inside(s, x, lo, hi, id), Ok(x),
           x.goal = NoGoal, NEW u, Framed(u, x.scopes, Len(x.scopes), id), NEW y, y = Skip(s, x)
    PROVE  Inside(s, y, lo, hi, id) /\ (Ok(y) => Data(y, u, id))
<1> DEFINE n == Len(x.scopes)
<1>1. /\ Inside(s, y, lo, hi, id) /\ Alike(x.scopes, y.scopes, n)
      /\ Ok(y) => \/ Kept(x, y)
                  \/ y.goal = n /\ Len(y.scopes) = n + 1
  BY SkipInside
<1>2. n \in Nat /\ n \in 1 .. n
  BY DEF Framed
<1>3. Kept(x, y) => Data(y, u, id)
  BY FramedKept
<1>4. ASSUME y.goal = n, Len(y.scopes) = n + 1 PROVE Data(y, u, id)
  <2>1. Framed(u, y.scopes, n, id)
    BY <1>1, <1>2, <1>4, FramedScopes
  <2>2. y.goal # NoGoal /\ y.goal \in 1 .. Len(y.scopes) - 1
    BY <1>2, <1>4 DEF NoGoal
  <2>3. QED
    BY <1>4, <2>1, <2>2 DEF Data
<1>5. QED
  BY <1>1, <1>3, <1>4

\* The scope of the first entry is left.
LEMMA EndDone ==
    ASSUME NEW s, NEW lo, NEW hi, NEW id, Bounds(s, lo, hi), NEW x, Inside(s, x, lo, hi, id), Ok(x),
           x.goal = NoGoal, NEW t, Framed(t, x.scopes, Len(x.scopes), id), NEW e, e = Head(t), Holds(e),
           ~Bottom(e), NEW y, y = EndScope(x, ScopeOf(e), e.id)
    PROVE  Inside(s, y, lo, hi, id) /\ Ok(y) /\ Data(y, Tail(t), id) /\ y.goal # NoGoal
<1> DEFINE n == Len(x.scopes)
           u == Tail(t)
<1>1. EntryOk(e, id) /\ n \in Nat /\ n \in 1 .. n /\ x.scopes[n].id = e.id /\ x.scopes[n].type = ScopeOf(e)
  BY FramedHead
<1>2. e.id # id
  BY <1>1 DEF EntryOk
<1>3. /\ Inside(s, y, lo, hi, id)
      /\ n \in 2 .. n /\ Ends(x, y, n) /\ Ok(y)
  <2>1. /\ Inside(s, y, lo, hi, id)
        /\ \A i \in 1 .. Len(x.scopes) :
              x.scopes[i].id = e.id /\ x.scopes[i].type = ScopeOf(e) =>
                 i \in 2 .. Len(x.scopes) /\ Ends(x, y, i) /\ Ok(y)
    BY <1>2, EndInside
  <2>2. QED
    BY <1>1, <2>1
<1>4. Framed(u, x.scopes, n - 1, id)
  BY FramedTail
<1>5. n - 1 \in Int /\ x \in ReaderType
  BY <1>1 DEF Inside
<1>6. y.goal = n - 1 /\ y.scopes = x.scopes
  BY <1>3, <1>5 DEF ReaderType, Ends
<1>7. y.goal # NoGoal /\ y.goal \in 1 .. Len(y.scopes) - 1
  BY <1>1, <1>3, <1>6 DEF NoGoal
<1>8. QED
  BY <1>3, <1>4, <1>6, <1>7 DEF Data

\* A value is restored next.
LEMMA NextReady ==
    ASSUME NEW x, x.goal = NoGoal, KeyReady(x), NEW id, NEW u, Framed(u, x.scopes, Len(x.scopes), id),
           NEW type \in Types, NEW at
    PROVE  Data(x, <<Restore(type, at)>> \o u, id)
<1> DEFINE e == Restore(type, at)
<1>1. EntryOk(e, id) /\ e.op \in {"restore", "dump"}
  BY DEF EntryOk, Restore, Ops, Holds
<1> HIDE DEF e
<1>2. Ready(x, <<e>> \o u, id)
  BY <1>1 DEF Ready
<1>3. QED
  BY <1>2 DEF Data, e

\* The loop over the properties of an object
LEMMA ObjectLoopIs ==
    ASSUME NEW id, NEW type, \A key \in DOMAIN type : type[key] \in Types, NEW at, NEW g, g # id,
           NEW e, e = Loop("object", type, at, g)
    PROVE  EntryOk(e, id) /\ Holds(e) /\ ~Bottom(e) /\ ~Reads(e) /\ e.id = g /\ ScopeOf(e) = "object"
  BY DEF EntryOk, Holds, Bottom, Reads, Loop, ScopeOf, Ops

\* The end of a tuple
LEMMA EndIs ==
    ASSUME NEW id, NEW g, g # id, NEW e, e = End("array", g)
    PROVE  EntryOk(e, id) /\ Holds(e) /\ ~Bottom(e) /\ ~Reads(e) /\ e.id = g /\ ScopeOf(e) = "array"
  BY DEF EntryOk, Holds, Bottom, Reads, End, ScopeOf, Ops

\* The entries for the parts of a tuple or of a record
PartsOf(type, at) ==
    [i \in DOMAIN type.of |-> [op |-> IF type.t = "record" THEN "field" ELSE "restore",
                               type |-> type.of[i], at |-> Append(at, i)]]

\* They are such entries.
LEMMA PartsAre ==
    ASSUME NEW type, type.of \in Seq(Types), NEW at, NEW id, NEW s, NEW k, s[k].type = "array"
    PROVE  Parts(PartsOf(type, at), s, k, id) /\ IsList(PartsOf(type, at))
<1> DEFINE op == IF type.t = "record" THEN "field" ELSE "restore"
           n == Len(type.of)
           f(i) == [op |-> op, type |-> type.of[i], at |-> Append(at, i)]
           p == PartsOf(type, at)
<1>1. n \in Nat /\ DOMAIN type.of = 1 .. n /\ \A i \in 1 .. n : type.of[i] \in Types
  BY LenProperties, ElementOfSeq
<1>2. p = [i \in 1 .. n |-> f(i)]
  BY <1>1 DEF PartsOf
<1>3. op \in {"field", "restore"}
  OBVIOUS
<1> HIDE DEF op
<1>4. ASSUME NEW i \in 1 .. n PROVE EntryOk(f(i), id) /\ ~Holds(f(i))
  BY <1>1, <1>3 DEF EntryOk, Holds, Ops
<1> HIDE DEF p, f, n
<1>5. p \in Seq({f(i) : i \in 1 .. n}) /\ Len(p) = n
  <2> DEFINE F == {f(i) : i \in 1 .. n}
  <2>1. \A i \in 1 .. n : f(i) \in F /\ p[i] = f(i)
    BY <1>2
  <2>2. Listed(p, n)
    BY <1>2 DEF Listed
  <2> HIDE DEF F
  <2>3. p \in Seq(F) /\ Len(p) = n
    BY <1>1, <2>1, <2>2, ListedSeq
  <2>4. QED
    BY <2>3 DEF F
<1>6. IsList(p)
  BY <1>5, SeqIsList
<1>7. \A i \in 1 .. n : p[i] = f(i)
  BY <1>2
<1>8. Parts(p, s, k, id)
  BY <1>4, <1>5, <1>6, <1>7 DEF Parts
<1>9. QED
  BY <1>6, <1>8 DEF p

\* A container is entered, to be left by the entry put in front.
LEMMA EnterDone ==
    ASSUME NEW x, NEW id, NEW u, Framed(u, x.scopes, Len(x.scopes), id), NEW y, NEW type,
           Deeper(x, y, type), NEW e, EntryOk(e, id), Holds(e), e.id = y.gen, ScopeOf(e) = type
    PROVE  Data(y, <<e>> \o u, id)
<1>1. Framed(<<e>> \o u, y.scopes, Len(y.scopes), id)
  BY FramedDeeper
<1>2. QED
  BY <1>1 DEF Data, Ready, Deeper

\* Its elements are restored before that.
LEMMA ElementsDone ==
    ASSUME NEW x, NEW id, NEW u, Framed(u, x.scopes, Len(x.scopes), id), NEW y,
           Deeper(x, y, "array"), y.gen # id, NEW p, Parts(p, y.scopes, Len(y.scopes), id), IsList(p)
    PROVE  Data(y, p \o <<End("array", y.gen)>> \o u, id)
<1> DEFINE e == End("array", y.gen)
<1>1. EntryOk(e, id) /\ Holds(e) /\ e.id = y.gen /\ ScopeOf(e) = "array"
  BY EndIs
<1> HIDE DEF e
<1>2. Framed(<<e>> \o u, y.scopes, Len(y.scopes), id)
  BY <1>1, FramedDeeper
<1>3. Framed(p \o (<<e>> \o u), y.scopes, Len(y.scopes), id)
  BY <1>2, FramedParts
<1>4. (p \o <<e>>) \o u = p \o (<<e>> \o u)
  <2>1. IsList(<<e>>) /\ IsList(u)
    BY OneIs, FramedLoose
  <2>2. QED
    BY <2>1, ListsAre
<1>5. y.goal = NoGoal
  BY DEF Deeper
<1>6. QED
  BY <1>3, <1>4, <1>5 DEF Data, Ready, e

\* The restore function of a type
LEMMA RestoreTypeIs ==
    ASSUME NEW s, NEW lo, NEW hi, NEW id, Bounds(s, lo, hi), NEW x, Inside(s, x, lo, hi, id), Ok(x),
           x.goal = NoGoal, KeyReady(x), NEW u, Framed(u, x.scopes, Len(x.scopes), id),
           NEW type \in Types, NEW b, NEW at, NEW z, z = RestoreType(s, x, b, type, at, u)
    PROVE  Restores(s, z, lo, hi, id)
<1> DEFINE n == Len(x.scopes)
           array == BeginArray(s, x)
           object == BeginObject(s, x)
<1>1. IsList(u)
  BY FramedLoose
<1>2. /\ Inside(s, array, lo, hi, id)
      /\ Ok(array) => Deeper(x, array, "array") /\ array.gen # id
  BY ArrayInside
<1>3. /\ Inside(s, object, lo, hi, id)
      /\ Ok(object) => Deeper(x, object, "object") /\ object.gen # id
  BY ObjectInside
<1>4. ASSUME Ok(array) PROVE array.scopes[Len(array.scopes)].type = "array"
  BY <1>2, <1>4 DEF Deeper
<1>5. \/ type.t \in {"int", "text"}
      \/ type.t \in {"optional", "list", "dict"} /\ type.of \in Types
      \/ type.t \in {"tuple", "variant", "record"} /\ type.of \in Seq(Types)
      \/ type.t = "object" /\ \A key \in DOMAIN type.of : type.of[key] \in Types
  BY TypesAssumption
<1> HIDE DEF array, object
<1>6. CASE type.t = "int"
  <2>1. z.r = ReadNumber(s, x) /\ z.todo = u
    BY <1>6 DEF RestoreType, Scalar, Result
  <2>2. Inside(s, z.r, lo, hi, id) /\ Kept(x, z.r)
    BY <2>1, NumberInside
  <2>3. QED
    BY <2>1, <2>2, FramedKept DEF Restores
<1>7. CASE type.t = "text"
  <2>1. z.r = ReadString(s, x) /\ z.todo = u
    BY <1>7 DEF RestoreType, Scalar, Result
  <2>2. Inside(s, z.r, lo, hi, id) /\ Kept(x, z.r)
    BY <2>1, StringInside
  <2>3. QED
    BY <2>1, <2>2, FramedKept DEF Restores
<1>8. CASE type.t = "optional"
  <2>1. z.r = x /\ z.todo = <<Restore(type.of, at)>> \o u /\ type.of \in Types
    BY <1>5, <1>8 DEF RestoreType, Result
  <2>2. QED
    BY <2>1, NextReady DEF Restores
<1>9. CASE type.t \in {"tuple", "record"}
  <2>1. z.r = array /\ z.todo = PartsOf(type, at) \o <<End("array", array.gen)>> \o u /\ type.of \in Seq(Types)
    BY <1>5, <1>9 DEF RestoreType, Result, PartsOf, array
  <2>2. ASSUME Ok(array) PROVE Data(array, z.todo, id)
    <3> DEFINE p == PartsOf(type, at)
    <3>1. Parts(p, array.scopes, Len(array.scopes), id) /\ IsList(p)
      BY <1>4, <2>1, <2>2, PartsAre
    <3> HIDE DEF p
    <3>2. Data(array, p \o <<End("array", array.gen)>> \o u, id)
      BY <1>2, <2>2, <3>1, ElementsDone
    <3>3. QED
      BY <2>1, <3>2 DEF p
  <2>3. QED
    BY <1>2, <2>1, <2>2 DEF Restores
<1>10. CASE type.t = "variant"
  <2> DEFINE e == Select(type.of, at)
             p == <<e>>
             c == End("array", array.gen)
  <2>1. z.r = array /\ z.todo = <<e, c>> \o u /\ type.of \in Seq(Types)
    BY <1>5, <1>10 DEF RestoreType, Result, array
  <2>2. EntryOk(e, id) /\ ~Holds(e)
    BY <2>1 DEF EntryOk, Holds, Select, Ops
  <2>3. <<e, c>> \o u = p \o <<c>> \o u
    <3> HIDE DEF e, c
    <3>1. IsList(p) /\ IsList(<<c>>)
      BY OneIs
    <3>2. <<e, c>> \o u = <<e>> \o (<<c>> \o u)
      BY <1>1, TwoAre
    <3>3. (p \o <<c>>) \o u = p \o (<<c>> \o u)
      BY <1>1, <3>1, ListsAre
    <3>4. QED
      BY <3>2, <3>3
  <2> HIDE DEF e
  <2>4. ASSUME Ok(array) PROVE Data(array, z.todo, id)
    <3>1. IsList(p) /\ Len(p) = 1 /\ p[1] = e
      BY OneIs
    <3> HIDE DEF p
    <3>2. Parts(p, array.scopes, Len(array.scopes), id)
      BY <1>4, <2>2, <2>4, <3>1 DEF Parts
    <3>3. Data(array, p \o <<End("array", array.gen)>> \o u, id)
      BY <1>2, <2>4, <3>1, <3>2, ElementsDone
    <3>4. QED
      BY <2>1, <2>3, <3>3
  <2>5. QED
    BY <1>2, <2>1, <2>4 DEF Restores
<1>11. CASE type.t = "list"
  <2> DEFINE e == Loop("list", type.of, at, array.gen)
  <2>1. z.r = array /\ z.todo = <<e>> \o u /\ type.of \in Types
    BY <1>5, <1>11 DEF RestoreType, Result, array
  <2>2. ASSUME Ok(array) PROVE Data(array, z.todo, id)
    <3>3. e = Loop("list", type.of, at, array.gen)
      OBVIOUS
    <3> HIDE DEF e
    <3>4. array.gen # id /\ "list" \in {"list", "dict"} /\ type.of \in Types
      BY <1>2, <2>1, <2>2
    <3>1. EntryOk(e, id) /\ Holds(e) /\ e.id = array.gen /\ ScopeOf(e) = "array"
      BY <3>3, <3>4 DEF EntryOk, Holds, Loop, ScopeOf, Ops
    <3>2. QED
      BY <1>2, <2>1, <2>2, <3>1, EnterDone
  <2>3. QED
    BY <1>2, <2>1, <2>2 DEF Restores
<1>12. CASE type.t = "dict"
  <2> DEFINE e == Loop("dict", type.of, at, object.gen)
  <2>1. z.r = object /\ z.todo = <<e>> \o u /\ type.of \in Types
    BY <1>5, <1>12 DEF RestoreType, Result, object
  <2>2. ASSUME Ok(object) PROVE Data(object, z.todo, id)
    <3>3. e = Loop("dict", type.of, at, object.gen)
      OBVIOUS
    <3> HIDE DEF e
    <3>4. object.gen # id /\ "dict" \in {"list", "dict"} /\ type.of \in Types
      BY <1>3, <2>1, <2>2
    <3>1. EntryOk(e, id) /\ Holds(e) /\ e.id = object.gen /\ ScopeOf(e) = "object"
      BY <3>3, <3>4 DEF EntryOk, Holds, Loop, ScopeOf, Ops
    <3>2. QED
      BY <1>3, <2>1, <2>2, <3>1, EnterDone
  <2>3. QED
    BY <1>3, <2>1, <2>2 DEF Restores
<1>13. CASE type.t = "object"
  <2> DEFINE e == Loop("object", type.of, at, object.gen)
  <2>1. \/ z.r = Throw(x, "fatal")
        \/ z.r = object /\ z.todo = <<e>> \o u
    BY <1>13 DEF RestoreType, Result, object
  <2>2. CASE z.r = Throw(x, "fatal")
    BY <2>2, ThrowInside DEF Restores
  <2>3. CASE z.r = object /\ z.todo = <<e>> \o u
    <3>1. ASSUME Ok(object) PROVE Data(object, z.todo, id)
      <4>1. \A key \in DOMAIN type.of : type.of[key] \in Types
        BY <1>5, <1>13
      <4>2. EntryOk(e, id) /\ Holds(e) /\ e.id = object.gen /\ ScopeOf(e) = "object"
        BY <1>3, <3>1, <4>1, ObjectLoopIs
      <4> HIDE DEF e
      <4>3. QED
        BY <1>3, <2>3, <3>1, <4>2, EnterDone
    <3>2. QED
      BY <1>3, <2>3, <3>1 DEF Restores
  <2>4. QED
    BY <2>1, <2>2, <2>3
<1>14. QED
  BY <1>5, <1>6, <1>7, <1>8, <1>9, <1>10, <1>11, <1>12, <1>13

\* One turn of the loop over the elements of a list, a dictionary or an object
LEMMA TurnIs ==
    ASSUME NEW s, NEW lo, NEW hi, NEW id, Bounds(s, lo, hi), NEW x, Inside(s, x, lo, hi, id), Ok(x),
           x.goal = NoGoal, NEW t, Framed(t, x.scopes, Len(x.scopes), id), NEW e, e = Head(t),
           e.op \in {"list", "dict", "object"}, NEW b, NEW z, z = Turn(s, x, b, e, Tail(t))
    PROVE  Restores(s, z, lo, hi, id)
<1> DEFINE n == Len(x.scopes)
           u == Tail(t)
           key == ReadString(s, ReadKeyNext(x))
           name == s[x.pos].v
           scope == IF e.op = "list" THEN "array" ELSE "object"
           again == <<e>> \o u
           y == EndScope(x, scope, e.id)
           first == Restore(e.type, Append(e.at, b[e.at] + 1))
           value == Restore(e.type, Append(e.at, NewPair))
           place == Emplace(e.at, name)
           part == Restore(e.type[name], Append(e.at, name))
<1>1. EntryOk(e, id) /\ Holds(e) /\ ~Bottom(e) /\ scope = ScopeOf(e)
  <2>1. EntryOk(e, id)
    BY FramedHead
  <2>2. Holds(e) /\ ~Bottom(e) /\ scope = ScopeOf(e)
    BY DEF Holds, Bottom, ScopeOf
  <2>3. QED
    BY <2>1, <2>2
<1>2. again = t /\ IsList(t)
  BY FramedLoose, ListAgain
<1>3. IF ShouldBreak(x, e.id) THEN z = Result(y, b, u)
      ELSE IF e.op = "list"
           THEN z = Result(x, Put(b, e.at, b[e.at] + 1), <<first>> \o again)
      ELSE IF ~Ok(key) THEN z = Result(key, b, again)
      ELSE IF e.op = "dict" THEN z = Result(key, b, <<value, place>> \o again)
      ELSE IF name \in DOMAIN e.type THEN z = Result(key, b, <<part>> \o again)
      ELSE z = Result(key, b, <<SkipValue>> \o again)
  BY DEF Turn
<1>4. /\ Inside(s, key, lo, hi, id) /\ Kept(x, key)
      /\ Ok(key) => KeyReady(key)
  BY KeyInside
<1>5. Framed(t, key.scopes, Len(key.scopes), id)
  <2>1. Kept(x, key)
    BY <1>4
  <2> HIDE DEF key
  <2>2. QED
    BY <2>1, FramedKept
<1>6. key.goal = NoGoal
  BY <1>4 DEF Kept
<1>7. Inside(s, y, lo, hi, id) /\ Ok(y) /\ Data(y, u, id)
  <2>1. y = EndScope(x, ScopeOf(e), e.id)
    BY <1>1
  <2> HIDE DEF y
  <2>2. QED
    BY <1>1, <2>1, EndDone
<1> HIDE DEF key, y, u, again, name, scope
<1>8. CASE ShouldBreak(x, e.id)
  <2>1. z.r = y /\ z.todo = u
    BY <1>3, <1>8 DEF Result
  <2>2. QED
    BY <1>7, <2>1 DEF Restores
<1>9. CASE ~ShouldBreak(x, e.id) /\ e.op = "list"
  <2>1. z.r = x /\ z.todo = <<first>> \o t
    BY <1>2, <1>3, <1>9 DEF Result
  <2>2. x.scopes[n].type = "array"
    <3>1. x.scopes[n].type = ScopeOf(e)
      BY <1>1, FramedHead
    <3>2. QED
      BY <1>9, <3>1 DEF ScopeOf
  <2>3. EntryOk(first, id) /\ ~Holds(first)
    BY <1>1, <1>9 DEF EntryOk, Holds, Restore, Ops
  <2> HIDE DEF first
  <2>4. Framed(<<first>> \o t, x.scopes, n, id)
    BY <2>2, <2>3, FramedOne
  <2>5. QED
    BY <2>1, <2>4 DEF Restores, Data, Ready
<1>10. CASE ~ShouldBreak(x, e.id) /\ e.op # "list" /\ ~Ok(key)
  <2>1. z.r = key
    BY <1>3, <1>10 DEF Result
  <2>2. QED
    BY <1>4, <1>10, <2>1 DEF Restores
<1>11. CASE ~ShouldBreak(x, e.id) /\ e.op = "dict" /\ Ok(key)
  <2>1. z.r = key /\ z.todo = <<value, place>> \o t
    BY <1>2, <1>3, <1>11 DEF Result
  <2>2. EntryOk(place, id) /\ ~Holds(place) /\ ~Reads(place)
    BY DEF EntryOk, Holds, Reads, Emplace, Ops
  <2> HIDE DEF place
  <2>3. Framed(<<place>> \o t, key.scopes, Len(key.scopes), id)
    BY <1>5, <2>2, FramedOne
  <2>4. e.type \in Types
    BY <1>1, <1>11 DEF EntryOk
  <2>5. Data(key, <<value>> \o (<<place>> \o t), id)
    BY <1>4, <1>6, <1>11, <2>3, <2>4, NextReady
  <2> HIDE DEF value
  <2>6. <<value, place>> \o t = <<value>> \o (<<place>> \o t)
    BY <1>2, TwoAre
  <2>7. QED
    BY <1>4, <2>1, <2>5, <2>6 DEF Restores
<1>12. CASE ~ShouldBreak(x, e.id) /\ e.op = "object" /\ Ok(key) /\ name \in DOMAIN e.type
  <2>1. z.r = key /\ z.todo = <<part>> \o t
    BY <1>2, <1>3, <1>12 DEF Result
  <2>2. e.type[name] \in Types
    BY <1>1, <1>12 DEF EntryOk
  <2>3. Data(key, <<part>> \o t, id)
    BY <1>4, <1>5, <1>6, <1>12, <2>2, NextReady
  <2>4. QED
    BY <1>4, <2>1, <2>3 DEF Restores
<1>13. CASE ~ShouldBreak(x, e.id) /\ e.op = "object" /\ Ok(key) /\ name \notin DOMAIN e.type
  <2>1. z.r = key /\ z.todo = <<SkipValue>> \o t
    BY <1>2, <1>3, <1>13 DEF Result
  <2>2. EntryOk(SkipValue, id) /\ ~Holds(SkipValue) /\ ~Reads(SkipValue)
    BY DEF EntryOk, Holds, Reads, SkipValue, Ops
  <2>3. Framed(<<SkipValue>> \o t, key.scopes, Len(key.scopes), id)
    BY <1>5, <2>2, FramedOne
  <2>4. QED
    BY <1>4, <1>6, <2>1, <2>3 DEF Restores, Data, Ready
<1>14. QED
  BY <1>8, <1>9, <1>10, <1>11, <1>12, <1>13

\* The index of a variant
LEMMA RestoreIndexIs ==
    ASSUME NEW s, NEW lo, NEW hi, NEW id, Bounds(s, lo, hi), NEW x, Inside(s, x, lo, hi, id), Ok(x),
           x.goal = NoGoal, KeyReady(x), x.scopes[Len(x.scopes)].type = "array",
           NEW u, Framed(u, x.scopes, Len(x.scopes), id), NEW types \in Seq(Types), NEW b, NEW at,
           NEW z, z = RestoreIndex(s, x, b, types, at, u)
    PROVE  Restores(s, z, lo, hi, id)
<1> DEFINE n == Len(x.scopes)
           y == ReadNumber(s, x)
           index == s[x.pos].v
           e == Restore(types[index + 1], Append(at, index + 1))
<1>1. Inside(s, y, lo, hi, id) /\ Kept(x, y)
  BY NumberInside
<1>2. IF ~Ok(y) THEN z = Result(y, b, u)
      ELSE IF index \notin 0 .. (Len(types) - 1) THEN z = Result(Throw(y, "fatal"), b, u)
      ELSE z = Result(y, Put(Cleared(b, at), at, index), <<e>> \o u)
  BY DEF RestoreIndex
<1> HIDE DEF y, index
<1>3. CASE ~Ok(y)
  <2>1. z.r = y
    BY <1>2, <1>3 DEF Result
  <2>2. QED
    BY <1>1, <1>3, <2>1 DEF Restores
<1>4. CASE Ok(y) /\ index \notin 0 .. (Len(types) - 1)
  <2>1. z.r = Throw(y, "fatal")
    BY <1>2, <1>4 DEF Result
  <2>2. QED
    BY <1>1, <1>4, <2>1, ThrowInside DEF Restores
<1>5. CASE Ok(y) /\ index \in 0 .. (Len(types) - 1)
  <2>1. z.r = y /\ z.todo = <<e>> \o u
    BY <1>2, <1>5 DEF Result
  <2>2. types[index + 1] \in Types
    <3>1. Len(types) \in Nat
      BY LenProperties
    <3>2. index + 1 \in 1 .. Len(types)
      BY <1>5, <3>1
    <3>3. QED
      BY <3>2, ElementOfSeq
  <2>3. KeyReady(y)
    <3>1. Asked(s, y)
      BY <1>1, <1>5, InsideAsked
    <3>2. n \in 1 .. n
      BY DEF Framed
    <3>3. y.scopes[Len(y.scopes)].type = "array"
      BY <1>1, <3>2 DEF Kept, Alike
    <3>4. QED
      BY <3>1, <3>3, ArrayReady
  <2>4. Framed(u, y.scopes, Len(y.scopes), id) /\ y.goal = NoGoal
    BY <1>1, FramedKept DEF Kept
  <2>5. Data(y, <<e>> \o u, id)
    BY <2>2, <2>3, <2>4, NextReady
  <2>6. QED
    BY <1>1, <2>1, <2>5 DEF Restores
<1>6. QED
  BY <1>3, <1>4, <1>5

\* A step of restoring a value keeps the handler in the message and its call stack in order.
LEMMA RestoreStepIs ==
    ASSUME NEW s, NEW lo, NEW hi, NEW id, Bounds(s, lo, hi), NEW x, Inside(s, x, lo, hi, id), Ok(x),
           x.goal = NoGoal, NEW t, Ready(x, t, id), Head(t).op \in Ops, NEW b,
           NEW z, z = RestoreStep(s, x, b, t)
    PROVE  Restores(s, z, lo, hi, id)
<1> DEFINE n == Len(x.scopes)
           e == Head(t)
           u == Tail(t)
<1>1. Asked(s, x)
  BY InsideAsked
<1>2. ASSUME Reads(e), e.op # "dump"
      PROVE  KeyReady(x) /\ EntryOk(e, id) /\ Framed(u, x.scopes, n, id)
  BY <1>1, <1>2, ReadyReads
<1>3. ASSUME ~Reads(e) PROVE Framed(t, x.scopes, n, id) /\ EntryOk(e, id)
  <2>1. Framed(t, x.scopes, n, id)
    BY <1>3, ReadyOther
  <2>2. QED
    BY <2>1, FramedHead
<1>4. ASSUME ~Reads(e), ~Holds(e), ~Bottom(e) PROVE Framed(u, x.scopes, n, id)
  BY <1>3, <1>4, FramedTail
<1>5. CASE e.op = "restore"
  <2>1. z = RestoreType(s, x, b, e.type, e.at, u)
    BY <1>5 DEF RestoreStep
  <2>2. Reads(e) /\ e.op # "dump"
    BY <1>5 DEF Reads
  <2>3. e.type \in Types
    BY <1>2, <1>5, <2>2 DEF EntryOk
  <2>4. QED
    BY <1>2, <2>1, <2>2, <2>3, RestoreTypeIs
<1>6. CASE e.op = "field"
  <2>1. \/ z = Result(Skip(s, x), b, u)
        \/ z = RestoreType(s, x, b, e.type, e.at, u)
    BY <1>6 DEF RestoreStep
  <2>2. Reads(e) /\ e.op # "dump"
    BY <1>6 DEF Reads
  <2>3. e.type \in Types
    BY <1>2, <1>6, <2>2 DEF EntryOk
  <2>4. CASE z = RestoreType(s, x, b, e.type, e.at, u)
    BY <1>2, <2>2, <2>3, <2>4, RestoreTypeIs
  <2>5. CASE z = Result(Skip(s, x), b, u)
    <3>1. z.r = Skip(s, x) /\ z.todo = u
      BY <2>5 DEF Result
    <3>2. QED
      BY <1>2, <2>2, <3>1, SkipDone DEF Restores
  <2>6. QED
    BY <2>1, <2>4, <2>5
<1>7. CASE e.op = "select"
  <2>1. z = RestoreIndex(s, x, b, e.types, e.at, u)
    BY <1>7 DEF RestoreStep
  <2>2. Reads(e) /\ e.op # "dump"
    BY <1>7 DEF Reads
  <2>3. e.types \in Seq(Types)
    BY <1>2, <1>7, <2>2 DEF EntryOk
  <2>4. x.scopes[n].type = "array"
    BY <1>1, <1>7, <2>2, ReadyReads
  <2>5. QED
    BY <1>2, <2>1, <2>2, <2>3, <2>4, RestoreIndexIs
<1>8. CASE e.op = "emplace"
  <2>1. z = Result(x, Emplaced(b, e.at, e.key), u)
    BY <1>8 DEF RestoreStep
  <2>2. z.r = x /\ z.todo = u
    BY <2>1 DEF Result
  <2>3. ~Reads(e) /\ ~Holds(e) /\ ~Bottom(e)
    BY <1>8 DEF Reads, Holds, Bottom
  <2>4. Data(x, u, id)
    BY <1>4, <2>3 DEF Data, Ready
  <2>5. QED
    BY <2>2, <2>4 DEF Restores
<1>9. CASE e.op \in {"list", "dict", "object"}
  <2>1. z = Turn(s, x, b, e, u)
    BY <1>9 DEF RestoreStep
  <2>2. Framed(t, x.scopes, n, id)
    BY <1>3, <1>9 DEF Reads
  <2>3. QED
    BY <1>9, <2>1, <2>2, TurnIs
<1>10. CASE e.op = "skip"
  <2>1. z = Result(Skip(s, x), b, u)
    BY <1>10 DEF RestoreStep
  <2>2. z.r = Skip(s, x) /\ z.todo = u
    BY <2>1 DEF Result
  <2>3. ~Reads(e) /\ ~Holds(e) /\ ~Bottom(e)
    BY <1>10 DEF Reads, Holds, Bottom
  <2>4. Framed(u, x.scopes, n, id)
    BY <1>4, <2>3
  <2>5. QED
    BY <2>2, <2>4, SkipDone DEF Restores
<1>11. CASE e.op = "end"
  <2>1. z = Result(EndScope(x, e.scope, e.id), b, u)
    BY <1>11 DEF RestoreStep
  <2>2. z.r = EndScope(x, e.scope, e.id) /\ z.todo = u
    BY <2>1 DEF Result
  <2>3. ~Reads(e) /\ Holds(e) /\ ~Bottom(e)
    BY <1>11 DEF Reads, Holds, Bottom
  <2>4. Framed(t, x.scopes, n, id) /\ e.scope = ScopeOf(e)
    BY <1>3, <1>11, <2>3 DEF EntryOk, ScopeOf
  <2>5. z.r = EndScope(x, ScopeOf(e), e.id)
    BY <2>2, <2>4
  <2>6. QED
    BY <2>2, <2>3, <2>4, <2>5, EndDone DEF Restores
<1>12. QED
  BY <1>5, <1>6, <1>7, <1>8, <1>9, <1>10, <1>11 DEF Ops

-----------------------------------------------------------------------------
(* Dumping an object                                                        *)

\* A step of a handler that dumps an object, or of the exception that leaves it
Dumps(s, z, lo, hi, id) ==
    /\ Inside(s, z.r, lo, hi, id)
    /\ Ok(z.r) => Data(z.r, z.todo, id) \/ Cleanup(z.r, z.todo, id)
\* What a call leaves to Dumped
Outcome(s, y, v, lo, hi, id) ==
    Inside(s, y, lo, hi, id) /\ Loose(v, id) /\ (Ok(y) => Data(y, v, id))

\* A frame is left by the exception, or has its container left.
LEMMA UnwindIs ==
    ASSUME NEW s, NEW lo, NEW hi, NEW id, Bounds(s, lo, hi), NEW x, Inside(s, x, lo, hi, id), Ok(x),
           x.goal = NoGoal, NEW v, Loose(v, id), NEW err \in {"recoverable", "fatal"}, NEW w,
           NEW z, z = Unwind(x, w, err, v)
    PROVE  Dumps(s, z, lo, hi, id)
<1> DEFINE e == Head(v)
           u == Tail(v)
           l == Leave(e.type, e.id)
<1>1. EntryOk(e, id) /\ (~Bottom(e) => Loose(u, id) /\ IsList(u))
  BY LooseTail
<1>2. \/ e.op = "dump" /\ z.r = x /\ z.todo = <<Rethrow(err)>> \o u
      \/ e.op = "dumping" /\ z.r = x /\ z.todo = <<l, Rethrow(err)>> \o u
      \/ z.r = Throw(x, err)
  BY DEF Unwind
<1>3. CASE e.op = "dump" /\ z.r = x /\ z.todo = <<Rethrow(err)>> \o u
  <2>1. Loose(u, id)
    BY <1>1, <1>3 DEF Bottom
  <2>2. Cleanup(x, z.todo, id)
    BY <1>3, <2>1 DEF Cleanup
  <2>3. QED
    BY <1>3, <2>2 DEF Dumps
<1>4. CASE e.op = "dumping" /\ z.r = x /\ z.todo = <<l, Rethrow(err)>> \o u
  <2>1. Loose(u, id) /\ IsList(u)
    BY <1>1, <1>4 DEF Bottom
  <2>2. l.op = "leave" /\ EntryOk(l, id)
    BY <1>1, <1>4 DEF EntryOk, Holds, Leave, Ops
  <2> HIDE DEF l
  <2>3. <<l, Rethrow(err)>> \o u = <<l>> \o (<<Rethrow(err)>> \o u)
    BY <2>1, TwoAre
  <2>4. Cleanup(x, z.todo, id)
    BY <1>4, <2>1, <2>2, <2>3 DEF Cleanup
  <2>5. QED
    BY <1>4, <2>4 DEF Dumps
<1>5. CASE z.r = Throw(x, err)
  BY <1>5, ThrowInside DEF Dumps
<1>6. QED
  BY <1>2, <1>3, <1>4, <1>5

\* The reader is used again by the cleanups.
LEMMA Restarted ==
    ASSUME NEW s, NEW lo, NEW hi, NEW id, NEW x, Inside(s, x, lo, hi, id),
           NEW y, y = [x EXCEPT !.err = "ok", !.goal = NoGoal]
    PROVE  Inside(s, y, lo, hi, id) /\ Ok(y) /\ y.goal = NoGoal
<1>1. x \in ReaderType /\ NoGoal \in Int
  BY DEF Inside, NoGoal
<1>2. Still(x, y) /\ Ok(y) /\ y.goal = NoGoal
  BY <1>1 DEF ReaderType, Still, Ok
<1>3. QED
  BY <1>2, InsideStill

\* A call returned, or an exception of the reader or the writer begins to unwind.
LEMMA DumpedIs ==
    ASSUME NEW s, NEW lo, NEW hi, NEW id, Bounds(s, lo, hi), NEW y, NEW v,
           Outcome(s, y, v, lo, hi, id), NEW w, NEW z, z = Dumped(y, w, v)
    PROVE  Dumps(s, z, lo, hi, id)
<1> DEFINE x == [y EXCEPT !.err = "ok", !.goal = NoGoal]
           err == IF Ok(y) THEN "fatal" ELSE y.err
           c == [w EXCEPT !.err = FALSE]
<1>1. \/ Ok(y) /\ z.r = y /\ z.todo = v
      \/ z = Unwind(x, c, err, v)
  BY DEF Dumped
<1>2. Inside(s, y, lo, hi, id) /\ Loose(v, id) /\ (Ok(y) => Data(y, v, id))
  BY DEF Outcome
<1>3. Inside(s, x, lo, hi, id) /\ Ok(x) /\ x.goal = NoGoal
  BY <1>2, Restarted
<1>4. err \in {"recoverable", "fatal"}
  BY <1>2 DEF Inside, ReaderType, Ok
<1> HIDE DEF x, err, c
<1>5. CASE z = Unwind(x, c, err, v)
  BY <1>2, <1>3, <1>4, <1>5, UnwindIs
<1>6. CASE Ok(y) /\ z.r = y /\ z.todo = v
  BY <1>2, <1>6 DEF Dumps
<1>7. QED
  BY <1>1, <1>5, <1>6

\* What is behind an element is a call stack, too.
LEMMA RestLoose ==
    ASSUME NEW x, NEW u, NEW id, Rest(x, u, id)
    PROVE  Loose(u, id)
<1>1. CASE Framed(u, x.scopes, Len(x.scopes), id)
  BY <1>1, FramedLoose
<1>2. CASE \E v : u = <<Dump>> \o v /\ Framed(v, x.scopes, Len(x.scopes), id)
  <2>1. PICK v : u = <<Dump>> \o v /\ Framed(v, x.scopes, Len(x.scopes), id)
    BY <1>2
  <2>2. Loose(v, id)
    BY <2>1, FramedLoose
  <2>3. QED
    BY <2>1, <2>2, DumpIs, LoosePush
<1>3. QED
  BY <1>1, <1>2 DEF Rest

\* An element was read that is no container.
LEMMA FlatDone ==
    ASSUME NEW s, NEW x, Asked(s, x), NEW u, NEW id, Rest(x, u, id), NEW y, Kept(x, y),
           WasRead(s, x, y)
    PROVE  Data(y, u, id)
<1> DEFINE n == Len(x.scopes)
<1>1. CASE Framed(u, x.scopes, n, id)
  BY <1>1, FramedKept
<1>2. CASE KeyOrder(Top(x)) /\ \E v : u = <<Dump>> \o v /\ Framed(v, x.scopes, n, id)
  <2>1. PICK v : u = <<Dump>> \o v /\ Framed(v, x.scopes, n, id)
    BY <1>2
  <2>2. Framed(v, y.scopes, Len(y.scopes), id)
    BY <2>1, FramedKept
  <2>3. ~KeyOrder(Top(y))
    BY <1>2, ValueNext DEF Kept
  <2>4. Ready(y, u, id)
    BY <2>1, <2>2, <2>3, DumpIs DEF Ready, KeyReady
  <2>5. QED
    BY <2>4 DEF Data, Kept
<1>3. QED
  BY <1>1, <1>2 DEF Rest

\* A null is not read: what is read next stands where it is.
LEMMA NullDone ==
    ASSUME NEW x, x.goal = NoGoal, NEW u, NEW id, Rest(x, u, id)
    PROVE  Data(x, u, id)
<1> DEFINE n == Len(x.scopes)
<1>1. CASE Framed(u, x.scopes, n, id)
  BY <1>1 DEF Data, Ready
<1>2. CASE Top(x).key /\ \E v : u = <<Dump>> \o v /\ Framed(v, x.scopes, n, id)
  <2>1. KeyReady(x)
    BY <1>2 DEF KeyReady
  <2>2. Ready(x, u, id)
    BY <1>2, <2>1, DumpIs DEF Ready
  <2>3. QED
    BY <2>2 DEF Data
<1>3. QED
  BY <1>1, <1>2 DEF Rest

\* No container is entered as a key.
LEMMA NotAsKey ==
    ASSUME NEW s, NEW x, Asked(s, x), VerifyNotKey(x) = x, NEW u, NEW id, Rest(x, u, id)
    PROVE  Framed(u, x.scopes, Len(x.scopes), id)
<1>1. ASSUME KeyOrder(Top(x)) PROVE FALSE
  <2>1. InScope(x, "object")
    BY <1>1 DEF InScope, KeyOrder, Asked
  <2>2. VerifyNotKey(x) = Throw(x, "recoverable")
    BY <1>1, <2>1 DEF VerifyNotKey
  <2>3. ~Ok(Throw(x, "recoverable"))
    BY ThrowMoves
  <2>4. QED
    BY <2>2, <2>3 DEF Asked
<1>2. QED
  BY <1>1 DEF Rest

\* The frame of a container
LEMMA DumpingIs ==
    ASSUME NEW id, NEW type \in {"array", "object"}, NEW g, g # id
    PROVE  /\ EntryOk(Dumping(type, g), id) /\ Holds(Dumping(type, g)) /\ Dumping(type, g).id = g
           /\ ScopeOf(Dumping(type, g)) = type
  BY DEF EntryOk, Holds, Dumping, ScopeOf, Ops

\* A container is entered by a dump.
LEMMA EnteredDone ==
    ASSUME NEW s, NEW lo, NEW hi, NEW id, NEW x, Asked(s, x), NEW u, Rest(x, u, id), NEW y,
           Inside(s, y, lo, hi, id), Ok(y), NEW type \in {"array", "object"}, Deeper(x, y, type),
           y.gen # id, VerifyNotKey(x) = x
    PROVE  Outcome(s, y, <<Dumping(type, y.gen)>> \o u, lo, hi, id)
<1> DEFINE e == Dumping(type, y.gen)
<1>1. Framed(u, x.scopes, Len(x.scopes), id)
  BY NotAsKey
<1>2. EntryOk(e, id) /\ Holds(e) /\ e.id = y.gen /\ ScopeOf(e) = type
  BY DumpingIs
<1> HIDE DEF e
<1>3. Data(y, <<e>> \o u, id)
  BY <1>1, <1>2, EnterDone
<1>4. Loose(<<e>> \o u, id)
  BY <1>2, RestLoose, LoosePush
<1>5. QED
  BY <1>3, <1>4 DEF Outcome, e

\* An element of the object
LEMMA DumpOnceIs ==
    ASSUME NEW s, NEW lo, NEW hi, NEW id, Bounds(s, lo, hi), NEW x, Inside(s, x, lo, hi, id), Ok(x),
           x.goal = NoGoal, KeyReady(x), NEW u, Rest(x, u, id), NEW w, NEW z, z = DumpOnce(s, x, w, u)
    PROVE  Dumps(s, z, lo, hi, id)
<1> DEFINE n == Len(x.scopes)
           array == BeginArray(s, x)
           object == BeginObject(s, x)
           binary == BeginBinary(s, x)
           number == ReadNumber(s, x)
           string == ReadString(s, x)
<1>1. Asked(s, x) /\ Loose(u, id)
  BY InsideAsked, RestLoose
<1>2. ASSUME NEW c, z = Dumped(Throw(x, "fatal"), c, u) PROVE Dumps(s, z, lo, hi, id)
  <2> DEFINE y == Throw(x, "fatal")
  <2>1. Inside(s, y, lo, hi, id) /\ ~Ok(y)
    BY ThrowInside
  <2>2. Outcome(s, y, u, lo, hi, id)
    BY <1>1, <2>1 DEF Outcome
  <2> HIDE DEF y
  <2>3. z = Dumped(y, c, u)
    BY <1>2 DEF y
  <2>4. QED
    BY <2>2, <2>3, DumpedIs
<1>3. ASSUME NEW y, Kept(x, y), Inside(s, y, lo, hi, id), Ok(y) => WasRead(s, x, y)
      PROVE  Outcome(s, y, u, lo, hi, id)
  BY <1>1, <1>3, FlatDone DEF Outcome
<1> DEFINE k == s[x.pos].k
           m == s[x.pos].n
           write == T!Write("json", w, k, s[x.pos].v)
           numbered == IF Ok(number) THEN write ELSE w
           spelt == IF Ok(string) THEN write ELSE w
           inner(y, type) == <<Dumping(type, y.gen)>> \o u
<1>4. k \in Kinds \/ x.pos > Len(s)
  <2>1. s \in Seq(ElementType(Values)) /\ Len(s) \in Nat /\ x.pos \in Nat \ {0}
    BY <1>1 DEF Bounds, Asked, ReaderType
  <2>2. ASSUME ~(x.pos > Len(s)) PROVE k \in Kinds
    <3>1. x.pos \in 1 .. Len(s)
      BY <2>1, <2>2
    <3>2. s[x.pos] \in ElementType(Values)
      BY <2>1, <3>1, ElementOfSeq
    <3>3. QED
      BY <3>2 DEF ElementType
  <2>3. QED
    BY <2>2
<1>5. \/ z = Dumped(Throw(x, "fatal"), w, u)
      \/ IF Ok(object) THEN z = Dumped(object, T!Push("json", w, "object", m), inner(object, "object"))
         ELSE z = Dumped(object, w, u)
      \/ IF Ok(array) THEN z = Dumped(array, T!Push("json", w, "array", m), inner(array, "array"))
         ELSE z = Dumped(array, w, u)
      \/ z = DumpBinary(binary, w, u)
      \/ z = Dumped(x, write, u)
      \/ z = Dumped(number, numbered, u)
      \/ z = Dumped(string, spelt, u)
  <2> HIDE DEF array, object, binary, number, string, numbered, spelt, write
  <2>1. CASE x.pos > Len(s)
    <3>1. z = Dumped(Throw(x, "fatal"), w, u)
      BY <2>1 DEF DumpOnce
    <3>2. QED
      BY <3>1
  <2>2. CASE ~(x.pos > Len(s)) /\ k = "map"
    BY <2>2 DEF DumpOnce, object
  <2>3. CASE ~(x.pos > Len(s)) /\ k = "arr"
    BY <2>3 DEF DumpOnce, array
  <2>4. CASE ~(x.pos > Len(s)) /\ k = "bin"
    BY <2>4 DEF DumpOnce, binary
  <2>5. CASE ~(x.pos > Len(s)) /\ k = "nil"
    BY <2>5 DEF DumpOnce, write
  <2>6. CASE ~(x.pos > Len(s)) /\ k = "num"
    BY <2>6 DEF DumpOnce, number, numbered, write
  <2>7. CASE ~(x.pos > Len(s)) /\ k = "str"
    BY <2>7 DEF DumpOnce, string, spelt, write
  <2>8. CASE ~(x.pos > Len(s)) /\ k = "ext"
    BY <2>8 DEF DumpOnce
  <2>9. QED
    BY <1>4, <2>1, <2>2, <2>3, <2>4, <2>5, <2>6, <2>7, <2>8 DEF Kinds, Flat
<1>6. /\ Inside(s, array, lo, hi, id)
      /\ Ok(array) => Deeper(x, array, "array") /\ array.gen # id /\ VerifyNotKey(x) = x
  BY ArrayInside
<1>7. /\ Inside(s, object, lo, hi, id)
      /\ Ok(object) => Deeper(x, object, "object") /\ object.gen # id /\ VerifyNotKey(x) = x
  BY ObjectInside
<1>8. Outcome(s, number, u, lo, hi, id)
  <2>1. Inside(s, number, lo, hi, id) /\ Kept(x, number) /\ (Ok(number) => WasRead(s, x, number))
    BY NumberInside
  <2> HIDE DEF number
  <2>2. QED
    BY <1>3, <2>1
<1>9. Outcome(s, string, u, lo, hi, id)
  <2>1. Inside(s, string, lo, hi, id) /\ Kept(x, string) /\ (Ok(string) => WasRead(s, x, string))
    BY StringInside
  <2> HIDE DEF string
  <2>2. QED
    BY <1>3, <2>1
<1>10. Outcome(s, x, u, lo, hi, id)
  BY <1>1, NullDone DEF Outcome
<1>11. ASSUME Ok(array) PROVE Outcome(s, array, inner(array, "array"), lo, hi, id)
  <2>1. Inside(s, array, lo, hi, id) /\ Deeper(x, array, "array") /\ array.gen # id /\ VerifyNotKey(x) = x
    BY <1>6, <1>11
  <2> HIDE DEF array
  <2>2. QED
    BY <1>1, <1>11, <2>1, EnteredDone
<1>12. ASSUME Ok(object) PROVE Outcome(s, object, inner(object, "object"), lo, hi, id)
  <2>1. Inside(s, object, lo, hi, id) /\ Deeper(x, object, "object") /\ object.gen # id /\ VerifyNotKey(x) = x
    BY <1>7, <1>12
  <2> HIDE DEF object
  <2>2. QED
    BY <1>1, <1>12, <2>1, EnteredDone
<1>13. ASSUME z = DumpBinary(binary, w, u) PROVE Dumps(s, z, lo, hi, id)
  <2> DEFINE y == EndBinary(binary)
             c == T!Refuse(IF w.ctx = <<>> THEN w
                           ELSE T!SetScope(w, [T!Scope(w) EXCEPT !.size = T!Scope(w).capacity + 1]))
  <2>1. IF Ok(binary)
        THEN Inside(s, y, lo, hi, id) /\ Kept(x, y) /\ Ok(y) /\ WasRead(s, x, y)
        ELSE Inside(s, binary, lo, hi, id) /\ Kept(x, binary)
    BY BinaryInside
  <2> HIDE DEF binary
  <2>2. \/ ~Ok(binary) /\ z = Dumped(binary, w, u)
        \/ Ok(binary) /\ z = Dumped(Throw(y, "recoverable"), w, u)
        \/ Ok(binary) /\ z = Dumped(y, c, u)
    BY <1>13 DEF DumpBinary
  <2> HIDE DEF c, y
  <2>3. CASE ~Ok(binary) /\ z = Dumped(binary, w, u)
    <3>1. Outcome(s, binary, u, lo, hi, id)
      BY <1>3, <2>1, <2>3
    <3>2. QED
      BY <2>3, <3>1, DumpedIs
  <2>4. CASE Ok(binary) /\ z = Dumped(Throw(y, "recoverable"), w, u)
    <3> DEFINE t == Throw(y, "recoverable")
    <3>1. Inside(s, t, lo, hi, id) /\ ~Ok(t)
      BY <2>1, <2>4, ThrowInside
    <3> HIDE DEF t
    <3>2. Outcome(s, t, u, lo, hi, id)
      BY <1>1, <3>1 DEF Outcome
    <3>3. z = Dumped(t, w, u)
      BY <2>4 DEF t
    <3>4. QED
      BY <3>2, <3>3, DumpedIs
  <2>5. CASE Ok(binary) /\ z = Dumped(y, c, u)
    <3>1. Outcome(s, y, u, lo, hi, id)
      BY <1>3, <2>1, <2>5
    <3>2. QED
      BY <2>5, <3>1, DumpedIs
  <2>6. QED
    BY <2>2, <2>3, <2>4, <2>5
<1> HIDE DEF array, object, binary, number, string, numbered, spelt, write
<1>14. ASSUME NEW y, NEW c, Inside(s, y, lo, hi, id), ~Ok(y), z = Dumped(y, c, u) PROVE Dumps(s, z, lo, hi, id)
  <2>1. Outcome(s, y, u, lo, hi, id)
    BY <1>1, <1>14 DEF Outcome
  <2>2. QED
    BY <1>14, <2>1, DumpedIs
<1>15. CASE z = Dumped(Throw(x, "fatal"), w, u)
  BY <1>2, <1>15
<1>16. CASE IF Ok(object) THEN z = Dumped(object, T!Push("json", w, "object", m), inner(object, "object"))
            ELSE z = Dumped(object, w, u)
  <2>1. CASE Ok(object)
    <3> DEFINE c == T!Push("json", w, "object", m)
               v == inner(object, "object")
    <3>1. Outcome(s, object, v, lo, hi, id) /\ z = Dumped(object, c, v)
      BY <1>12, <1>16, <2>1
    <3> HIDE DEF c, v
    <3>2. QED
      BY <3>1, DumpedIs
  <2>2. CASE ~Ok(object)
    BY <1>7, <1>14, <1>16, <2>2
  <2>3. QED
    BY <2>1, <2>2
<1>17. CASE IF Ok(array) THEN z = Dumped(array, T!Push("json", w, "array", m), inner(array, "array"))
            ELSE z = Dumped(array, w, u)
  <2>1. CASE Ok(array)
    <3> DEFINE c == T!Push("json", w, "array", m)
               v == inner(array, "array")
    <3>1. Outcome(s, array, v, lo, hi, id) /\ z = Dumped(array, c, v)
      BY <1>11, <1>17, <2>1
    <3> HIDE DEF c, v
    <3>2. QED
      BY <3>1, DumpedIs
  <2>2. CASE ~Ok(array)
    BY <1>6, <1>14, <1>17, <2>2
  <2>3. QED
    BY <2>1, <2>2
<1>18. CASE z = Dumped(x, write, u)
  BY <1>10, <1>18, DumpedIs
<1>19. CASE z = Dumped(number, numbered, u)
  BY <1>8, <1>19, DumpedIs
<1>20. CASE z = Dumped(string, spelt, u)
  BY <1>9, <1>20, DumpedIs
<1>21. QED
  BY <1>5, <1>13, <1>15, <1>16, <1>17, <1>18, <1>19, <1>20

\* One turn of the loop over the elements of a container
LEMMA DumpTurnIs ==
    ASSUME NEW s, NEW lo, NEW hi, NEW id, Bounds(s, lo, hi), NEW x, Inside(s, x, lo, hi, id), Ok(x),
           x.goal = NoGoal, NEW t, Framed(t, x.scopes, Len(x.scopes), id), NEW e, e = Head(t),
           e.op = "dumping", NEW w, NEW z, z = DumpTurn(x, w, e, Tail(t))
    PROVE  Dumps(s, z, lo, hi, id)
<1> DEFINE n == Len(x.scopes)
           u == Tail(t)
           key == ReadKeyNext(x)
           l == Leave(e.type, e.id)
           c == IF Ok(key) THEN T!WriteKeyNext(w) ELSE w
<1>1. Holds(e) /\ ~Bottom(e) /\ ScopeOf(e) = e.type
  BY DEF Holds, Bottom, ScopeOf
<1>2. /\ EntryOk(e, id) /\ n \in Nat /\ n \in 1 .. n /\ Loose(t, id)
      /\ x.scopes[n].id = e.id /\ x.scopes[n].type = e.type /\ e.type \in {"array", "object"}
  <2>1. /\ EntryOk(e, id) /\ n \in 1 .. n /\ n \in Nat /\ Loose(t, id)
        /\ x.scopes[n].id = e.id /\ x.scopes[n].type = e.type
    BY <1>1, FramedHead
  <2>2. QED
    BY <2>1 DEF EntryOk
<1>3. <<e>> \o u = t
  BY <1>2, ListAgain, FramedLoose
<1>4. Framed(u, x.scopes, n - 1, id)
  BY <1>1, FramedTail
<1>5. /\ l.op = "leave" /\ EntryOk(l, id) /\ Holds(l) /\ l.id = e.id /\ ScopeOf(l) = e.type
  BY <1>1, <1>2 DEF EntryOk, Holds, ScopeOf, Leave, Ops
<1>6. \/ z = Dumped(x, w, <<l>> \o u)
      \/ e.type = "array" /\ z = Dumped(x, w, <<Dump>> \o t)
      \/ z = Dumped(key, c, <<Dump, Dump>> \o t)
  <2>1. <<e>> \o Tail(t) = t
    BY <1>3
  <2> HIDE DEF key
  <2>2. QED
    BY <2>1 DEF DumpTurn, key
<1> HIDE DEF l, c
<1>7. CASE z = Dumped(x, w, <<l>> \o u)
  <2> DEFINE v == <<l>> \o u
  <2>1. (n - 1) + 1 = n
    BY <1>2
  <2>2. Framed(v, x.scopes, (n - 1) + 1, id)
    BY <1>2, <1>4, <1>5, <2>1, FramedHold
  <2>3. Framed(v, x.scopes, n, id)
    BY <2>1, <2>2
  <2> HIDE DEF v
  <2>4. Loose(v, id) /\ Data(x, v, id)
    BY <2>3, FramedLoose DEF Data, Ready
  <2>5. Outcome(s, x, v, lo, hi, id)
    BY <2>4 DEF Outcome
  <2>6. z = Dumped(x, w, v)
    BY <1>7 DEF v
  <2>7. QED
    BY <2>5, <2>6, DumpedIs
<1>8. CASE e.type = "array" /\ z = Dumped(x, w, <<Dump>> \o t)
  <2> DEFINE v == <<Dump>> \o t
  <2>1. Framed(v, x.scopes, n, id)
    BY <1>2, <1>8, DumpIs, FramedOne
  <2> HIDE DEF v
  <2>2. Loose(v, id) /\ Data(x, v, id)
    BY <2>1, FramedLoose DEF Data, Ready
  <2>3. Outcome(s, x, v, lo, hi, id)
    BY <2>2 DEF Outcome
  <2>4. z = Dumped(x, w, v)
    BY <1>8 DEF v
  <2>5. QED
    BY <2>3, <2>4, DumpedIs
<1>9. CASE z = Dumped(key, c, <<Dump, Dump>> \o t)
  <2> DEFINE v == <<Dump, Dump>> \o t
  <2>1. /\ Inside(s, key, lo, hi, id) /\ Kept(x, key)
        /\ Ok(key) => KeyOrder(Top(key)) /\ Top(key).key
    BY KeyNextInside
  <2> HIDE DEF key
  <2>2. Framed(t, key.scopes, Len(key.scopes), id) /\ key.goal = NoGoal
    BY <2>1, FramedKept DEF Kept
  <2>3. v = <<Dump>> \o (<<Dump>> \o t)
    BY FramedLoose, TwoAre
  <2> HIDE DEF v
  <2>4. Ok(key) => Data(key, v, id)
    BY <2>1, <2>2, <2>3 DEF Data, Ready
  <2>5. Loose(v, id)
    BY <1>2, <2>3, DumpIs, LoosePush
  <2>6. Outcome(s, key, v, lo, hi, id)
    BY <2>1, <2>4, <2>5 DEF Outcome
  <2>7. z = Dumped(key, c, v)
    BY <1>9 DEF v
  <2>8. QED
    BY <2>6, <2>7, DumpedIs
<1>10. QED
  BY <1>6, <1>7, <1>8, <1>9

\* The reader ends the scope after the writer popped its own.
LEMMA LeftIs == \A id : EntryOk(Left, id) /\ ~Reads(Left) /\ ~Holds(Left) /\ ~Bottom(Left) /\ Left.op = "left"
  BY DEF EntryOk, Reads, Holds, Bottom, Left, Ops

\* A container is left that was dumped to its end.
LEMMA LeaveIs ==
    ASSUME NEW s, NEW lo, NEW hi, NEW id, Bounds(s, lo, hi), NEW x, Inside(s, x, lo, hi, id), Ok(x),
           x.goal = NoGoal, NEW t, Framed(t, x.scopes, Len(x.scopes), id), NEW e, e = Head(t),
           e.op = "leave", NEW w, NEW z, z = LeaveContainer(x, w, e, Tail(t))
    PROVE  Dumps(s, z, lo, hi, id)
<1> DEFINE n == Len(x.scopes)
           u == Tail(t)
           y == EndScope(x, e.type, e.id)
<1>1. Holds(e) /\ ~Bottom(e) /\ ScopeOf(e) = e.type
  BY DEF Holds, Bottom, ScopeOf
<1>2. \/ z.r = Throw(x, "fatal")
      \/ z.r = y /\ z.todo = <<Left>> \o u
  BY DEF LeaveContainer
<1>3. Inside(s, y, lo, hi, id) /\ Ok(y) /\ Data(y, u, id) /\ y.goal # NoGoal
  BY <1>1, EndDone
<1> HIDE DEF y
<1>4. y.goal \in 1 .. Len(y.scopes) - 1 /\ Framed(u, y.scopes, y.goal, id)
  BY <1>3 DEF Data
<1>5. Framed(<<Left>> \o u, y.scopes, y.goal, id)
  BY <1>4, LeftIs, FramedOne
<1>6. Data(y, <<Left>> \o u, id)
  BY <1>3, <1>4, <1>5 DEF Data
<1>7. CASE z.r = Throw(x, "fatal")
  BY <1>7, ThrowInside DEF Dumps
<1>8. CASE z.r = y /\ z.todo = <<Left>> \o u
  BY <1>3, <1>6, <1>8 DEF Dumps
<1>9. QED
  BY <1>2, <1>7, <1>8

\* A container is left by an exception.
LEMMA LeaveThrown ==
    ASSUME NEW s, NEW lo, NEW hi, NEW id, Bounds(s, lo, hi), NEW x, Inside(s, x, lo, hi, id), Ok(x),
           x.goal = NoGoal, NEW u, Loose(u, id), NEW err \in {"recoverable", "fatal"},
           NEW e, EntryOk(e, id), e.op = "leave", NEW w,
           NEW z, z = LeaveContainer(x, w, e, <<Rethrow(err)>> \o u)
    PROVE  Dumps(s, z, lo, hi, id)
<1> DEFINE y == EndScope(x, e.type, e.id)
           v == <<Rethrow(err)>> \o u
<1>1. e.id # id
  BY DEF EntryOk, Holds
<1>2. \/ z.r = Throw(x, "fatal")
      \/ z.r = y /\ z.todo = <<Left>> \o v
  BY DEF LeaveContainer
<1>3. Inside(s, y, lo, hi, id) /\ (Ok(y) => \E i \in 2 .. Len(x.scopes) : Ends(x, y, i))
  BY <1>1, EndInside
<1> HIDE DEF y
<1>4. ASSUME Ok(y) PROVE Cleanup(y, <<Left>> \o v, id)
  <2>1. PICK i \in 2 .. Len(x.scopes) : Ends(x, y, i)
    BY <1>3, <1>4
  <2>2. x \in ReaderType /\ i - 1 \in Int
    BY DEF Inside
  <2>3. y.goal = i - 1 /\ y.scopes = x.scopes
    BY <2>1, <2>2 DEF ReaderType, Ends
  <2>4. Len(x.scopes) \in Nat
    BY InsideAsked, TopIs
  <2>5. y.goal \in 1 .. Len(y.scopes) - 1
    BY <2>3, <2>4
  <2>6. Left.op \in {"leave", "left"} /\ EntryOk(Left, id)
    BY LeftIs
  <2>7. QED
    BY <2>5, <2>6 DEF Cleanup
<1>5. CASE z.r = Throw(x, "fatal")
  BY <1>5, ThrowInside DEF Dumps
<1>6. CASE z.r = y /\ z.todo = <<Left>> \o v
  BY <1>3, <1>4, <1>6 DEF Dumps
<1>7. QED
  BY <1>2, <1>5, <1>6

\* A step of dumping an object keeps the handler in the message and its call stack in order.
LEMMA DumpStepIs ==
    ASSUME NEW s, NEW lo, NEW hi, NEW id, Bounds(s, lo, hi), NEW x, Inside(s, x, lo, hi, id), Ok(x),
           x.goal = NoGoal, NEW t, Ready(x, t, id) \/ Cleanup(x, t, id), Head(t).op \in DumpOps, NEW w,
           NEW z, z = DumpStep(s, x, w, t)
    PROVE  Dumps(s, z, lo, hi, id)
<1> DEFINE n == Len(x.scopes)
           e == Head(t)
           u == Tail(t)
<1>1. Asked(s, x)
  BY InsideAsked
<1>2. ASSUME Ready(x, t, id) PROVE Dumps(s, z, lo, hi, id)
  <2>1. ASSUME e.op # "dump" PROVE Framed(t, x.scopes, n, id) /\ EntryOk(e, id)
    <3>1. ~Reads(e)
      BY <2>1 DEF Reads, DumpOps
    <3>2. Framed(t, x.scopes, n, id)
      BY <1>2, <3>1, ReadyOther
    <3>3. QED
      BY <3>2, FramedHead
  <2>2. CASE e.op = "dump"
    <3>1. Reads(e)
      BY <2>2 DEF Reads
    <3>2. KeyReady(x) /\ Rest(x, u, id)
      BY <1>1, <1>2, <3>1, ReadyReads
    <3>3. z = DumpOnce(s, x, w, u)
      BY <2>2 DEF DumpStep
    <3>4. QED
      BY <3>2, <3>3, DumpOnceIs
  <2>3. CASE e.op = "dumping"
    <3>1. z = DumpTurn(x, w, e, u)
      BY <2>3 DEF DumpStep
    <3>2. QED
      BY <2>1, <2>3, <3>1, DumpTurnIs
  <2>4. CASE e.op = "leave"
    <3>1. z = LeaveContainer(x, w, e, u)
      BY <2>4 DEF DumpStep
    <3>2. QED
      BY <2>1, <2>4, <3>1, LeaveIs
  <2>5. CASE e.op = "left"
    <3>1. z.r = x /\ z.todo = u
      BY <2>5 DEF DumpStep
    <3>2. ~Holds(e) /\ ~Bottom(e)
      BY <2>5 DEF Holds, Bottom
    <3>3. Framed(u, x.scopes, n, id)
      BY <2>1, <2>5, <3>2, FramedTail
    <3>4. Data(x, u, id)
      BY <3>3 DEF Data, Ready
    <3>5. QED
      BY <3>1, <3>4 DEF Dumps
  <2>6. CASE e.op = "rethrow"
    BY <2>1, <2>6 DEF EntryOk, Ops
  <2>7. QED
    BY <2>2, <2>3, <2>4, <2>5, <2>6 DEF DumpOps
<1>3. ASSUME Cleanup(x, t, id) PROVE Dumps(s, z, lo, hi, id)
  <2>1. PICK v, err : /\ Loose(v, id) /\ err \in {"recoverable", "fatal"}
                      /\ \/ t = <<Rethrow(err)>> \o v
                         \/ \E f : /\ f.op \in {"leave", "left"} /\ EntryOk(f, id)
                                   /\ t = <<f>> \o (<<Rethrow(err)>> \o v)
    BY <1>3 DEF Cleanup
  <2> DEFINE k == <<Rethrow(err)>> \o v
  <2>2. IsList(v) /\ IsList(k)
    BY <2>1, PushIs DEF Loose
  <2>3. CASE t = <<Rethrow(err)>> \o v
    <3>1. e = Rethrow(err) /\ u = v
      BY <2>2, <2>3, PushIs
    <3>2. e.op = "rethrow" /\ e.err = err
      BY <3>1 DEF Rethrow
    <3>3. z = Unwind(x, w, err, v)
      BY <3>1, <3>2 DEF DumpStep
    <3>4. QED
      BY <2>1, <3>3, UnwindIs
  <2>4. CASE \E f : f.op \in {"leave", "left"} /\ EntryOk(f, id) /\ t = <<f>> \o k
    <3>1. PICK f : f.op \in {"leave", "left"} /\ EntryOk(f, id) /\ t = <<f>> \o k
      BY <2>4
    <3> HIDE DEF k
    <3>2. e = f /\ u = k
      BY <2>2, <3>1, PushIs
    <3>3. CASE f.op = "leave"
      <4>1. z = LeaveContainer(x, w, f, k)
        BY <3>2, <3>3 DEF DumpStep
      <4>2. QED
        BY <2>1, <3>1, <3>3, <4>1, LeaveThrown DEF k
    <3>4. CASE f.op = "left"
      <4>1. z.r = x /\ z.todo = k
        BY <3>2, <3>4 DEF DumpStep
      <4>2. Cleanup(x, k, id)
        BY <2>1 DEF Cleanup, k
      <4>3. QED
        BY <4>1, <4>2 DEF Dumps
    <3>5. QED
      BY <3>1, <3>3, <3>4
  <2>5. QED
    BY <2>1, <2>3, <2>4
<1>4. QED
  BY <1>2, <1>3

-----------------------------------------------------------------------------
(* Leaving scopes                                                           *)

\* The loop that leaves scopes stays inside of the message until it leaves the message, at
\* its end: a reader that is astray does not get there.
LEMMA BreakInside ==
    ASSUME NEW s, NEW lo, NEW hi, NEW id, Bounds(s, lo, hi), NEW x, Inside(s, x, lo, hi, id), Ok(x),
           x.goal \in 0 .. Len(x.scopes) - 1, NEW y, y = BreakTurn(s, x)
    PROVE  /\ Alike(x.scopes, y.scopes, x.goal)
           /\ ~Ok(y) => Inside(s, y, lo, hi, id)
           /\ Ok(y) /\ y.goal = NoGoal => Len(y.scopes) = x.goal
           /\ Ok(y) /\ y.goal # NoGoal => y.goal = x.goal /\ y.goal \in 0 .. Len(y.scopes) - 1
           /\ Ok(y) /\ (x.goal # 0 \/ y.goal # NoGoal) => Inside(s, y, lo, hi, id)
           /\ Ok(y) /\ x.goal = 0 /\ y.goal = NoGoal =>
                 y \in ReaderType /\ y.scopes = <<>> /\ Right(s, y, lo, hi)
<1> DEFINE n == Len(x.scopes)
           l == Top(x).left
<1>1. Asked(s, x) /\ Nested(x) /\ x \in ReaderType /\ s \in Seq(ElementType(Values))
  BY InsideAsked DEF Bounds
<1>2. n \in Nat /\ n # 0 /\ n \in 1 .. n /\ x.goal \in 0 .. n - 1 /\ x.goal # NoGoal
  BY <1>1, TopIs DEF NoGoal
<1>3. InStep(s, x) => ReaderInv(s, x)
  BY <1>1 DEF Inside, ReaderInv, Placed, Leaving
<1>4. InStep(s, x) /\ Ok(y) => InStep(s, y)
  <2>1. InStep(s, x) => ReaderInv(s, y)
    BY <1>1, <1>2, <1>3, BreakTurnKeeps
  <2>2. QED
    BY <2>1 DEF ReaderInv, Placed
<1>5. CASE l # 0
  <2>1. Moved(s, x, y) /\ Halted(x, y)
    BY <1>1, <1>5, BreakMoves
  <2>2. Inside(s, y, lo, hi, id)
    BY <1>4, <2>1, InsideMoves
  <2>3. Alike(x.scopes, y.scopes, x.goal)
    BY <1>2, <2>1 DEF Moved, Alike
  <2>4. Ok(y) => y.goal = x.goal
    BY <2>1 DEF Halted
  <2>5. Len(y.scopes) = n \/ Len(y.scopes) = n + 1
    BY <2>1 DEF Moved, Scoped
  <2>6. x.goal \in 0 .. Len(y.scopes) - 1
    BY <1>2, <2>5
  <2>7. QED
    BY <1>2, <2>2, <2>3, <2>4, <2>6
<1>6. CASE l = 0
  <2>1. /\ y \in ReaderType /\ Ok(y) /\ y.pos = x.pos /\ Nested(y)
        /\ y.goal = IF n - 1 = x.goal THEN NoGoal ELSE x.goal
        /\ Len(y.scopes) = n - 1
        /\ \A i \in 1 .. Len(y.scopes) : y.scopes[i] = x.scopes[i]
        /\ Astray(s, x) => Astray(s, y)
    BY <1>1, <1>6, BreakLeaves
  <2>2. Right(s, x, lo, hi) => Right(s, y, lo, hi)
    BY <1>4, <2>1 DEF Right
  <2>3. Right(s, y, lo, hi) \/ Astray(s, y)
    BY <2>1, <2>2 DEF Inside
  <2>4. Alike(x.scopes, y.scopes, x.goal)
    <3>1. \A i \in 1 .. x.goal : i \in 1 .. Len(y.scopes)
      BY <1>2, <2>1
    <3>2. QED
      BY <2>1, <3>1 DEF Alike
  <2>5. CASE n = 1
    <3>1. y.scopes = <<>> /\ ~Astray(s, y)
      <4>1. y.scopes \in Seq(ScopeType) /\ Len(y.scopes) = 0
        BY <2>1, <2>5 DEF ReaderType
      <4>2. QED
        BY <4>1, EmptySeq DEF Astray
    <3>2. x.goal = 0 /\ y.goal = NoGoal /\ Len(y.scopes) = 0
      BY <1>2, <2>1, <2>5
    <3>3. QED
      BY <2>1, <2>3, <2>4, <3>1, <3>2
  <2>6. CASE n # 1
    <3> HIDE DEF n
    <3>0. n - 1 # 0 /\ n - 1 \in Nat /\ 1 \in 1 .. n - 1
      BY <1>2, <2>6
    <3>1. 1 \in 1 .. Len(y.scopes) /\ Len(y.scopes) # 0 /\ y.scopes \in Seq(ScopeType)
      BY <2>1, <3>0 DEF ReaderType
    <3>2. y.scopes # <<>> /\ y.scopes[1] = x.scopes[1]
      BY <2>1, <3>1, EmptySeq
    <3>3. Inside(s, y, lo, hi, id)
      BY <2>1, <2>3, <3>2 DEF Inside
    <3>4. n - 1 = x.goal => x.goal # 0
      BY <3>0
    <3>5. CASE n - 1 = x.goal
      BY <2>1, <2>4, <3>3, <3>4, <3>5
    <3>6. CASE n - 1 # x.goal
      <4>1. y.goal = x.goal /\ y.goal # NoGoal /\ x.goal \in 0 .. Len(y.scopes) - 1
        BY <1>2, <2>1, <3>6
      <4>2. QED
        BY <2>1, <2>4, <3>3, <4>1
    <3>7. QED
      BY <3>5, <3>6 DEF n
  <2>7. QED
    BY <2>5, <2>6
<1>7. QED
  BY <1>5, <1>6

\* The last entry of the handler stands alone.
LEMMA FramedLast ==
    ASSUME NEW s, NEW k \in 1 .. Len(s), Len(s) \in Nat, NEW id, NEW e, EntryOk(e, id), Bottom(e),
           Holds(e) => s[k].id = e.id /\ s[k].type = ScopeOf(e)
    PROVE  Framed(<<e>>, s, k, id)
<1> DEFINE t == <<e>>
           d == [j \in 1 .. 1 |-> k]
<1>1. IsList(t) /\ Len(t) = 1 /\ t[1] = e /\ t # <<>>
  <2>1. IsList(t) /\ Len(t) = 1 /\ t[1] = e
    BY OneIs
  <2>2. t # <<>>
    BY <2>1
  <2>3. QED
    BY <2>1, <2>2
<1> HIDE DEF t
<1>2. Loose(t, id)
  BY <1>1 DEF Loose
<1>3. ~Reads(e)
  BY DEF Reads, Bottom
<1>4. d[1] = k
  OBVIOUS
<1> HIDE DEF d
<1>5. k \in 1 .. k
  OBVIOUS
<1>6. Depths(t, s, k, d)
  BY <1>1, <1>3, <1>4, <1>5 DEF Depths
<1>7. QED
  BY <1>2, <1>6 DEF Framed, t

-----------------------------------------------------------------------------
(* The state of handle_single_message                                       *)

\* Message i asks for something.  What is known of it when its id was read:
Asks(m, i) == m[i].elements[2].k = "num" /\ m[i].elements[2].v = 0
Identified(m, g, h) == g.type = "request" => Asks(m, h) /\ g.id = h

\* The header is read in the array of the message, element by element.
HeaderOps == {"type", "msgid", "method", "result", "params"}
Heading(m, s, x, t, g, h) ==
    /\ x.goal = NoGoal /\ Len(x.scopes) = 1 /\ Right(s, x, Bound(m, h - 1), Bound(m, h))
    /\ \/ t = <<Do("type")>> /\ x.pos = Bound(m, h - 1) + 2
       \/ /\ t \in {<<Do("msgid"), Do("method")>>, <<Do("msgid"), Do("result")>>}
          /\ x.pos = Bound(m, h - 1) + 3 /\ (g.type = "request" => Asks(m, h))
       \/ t \in {<<Do("method")>>, <<Do("result")>>} /\ Identified(m, g, h)
       \/ t = <<Do("params")>> /\ Identified(m, g, h) /\ g.method \in DOMAIN Methods
\* Then the call stack is in order, or an exception passes through the frames of a dump.
InBody(m, x, t, g, h) == Identified(m, g, h) /\ (Data(x, t, g.scope) \/ Cleanup(x, t, g.scope))
InBounds(m, s, x, g, h) == Inside(s, x, Bound(m, h - 1), Bound(m, h), g.scope)
Handles(m, s, x, t, g, h) ==
    /\ Ok(x) /\ InBounds(m, s, x, g, h) /\ ~g.ok
    /\ Heading(m, s, x, t, g, h) \/ InBody(m, x, t, g, h)
\* All scopes are left.
Leaves(m, s, x, t, g, h) ==
    /\ Ok(x) /\ t = <<>> /\ (g.ok => Identified(m, g, h))
    /\ \/ InBounds(m, s, x, g, h) /\ x.goal = 0
       \/ /\ x \in ReaderType /\ x.scopes = <<>> /\ x.goal = NoGoal
          /\ Right(s, x, Bound(m, h - 1), Bound(m, h))
\* The reader is behind the messages handled.
Waits(m, s, x, h) == /\ x \in ReaderType /\ Ok(x) /\ x.goal = NoGoal /\ x.scopes = <<>>
                     /\ InStep(s, x) /\ x.pos - 1 = Bound(m, h)
Course(m, s, st, x, t, g, h) ==
    /\ h \in 0 .. Len(m)
    /\ g = [scope |-> g.scope, type |-> g.type, id |-> g.id, method |-> g.method, ok |-> g.ok]
    /\ st = "waiting" => Waits(m, s, x, h)
    /\ st = "handling" => h # 0 /\ Handles(m, s, x, t, g, h)
    /\ st \in {"closing", "recovering"} => h # 0 /\ Leaves(m, s, x, t, g, h)

\* No reply is written twice, and none that is still to be written by a handler.
InHand(st) == st \in {"handling", "closing", "recovering"}
StillOpen(st, g) == st = "handling" \/ (st \in {"closing", "recovering"} /\ g.ok)
Unanswered(a, i) == \A j \in 1 .. Len(a) : a[j] # i
Replied(m, st, g, h, ps, a) ==
    /\ a \in Seq(Nat)
    /\ \A i, j \in 1 .. Len(a) : a[i] = a[j] => i = j
    /\ \A i \in 1 .. Len(a) : a[i] \in 1 .. h /\ Asks(m, a[i])
    /\ StillOpen(st, g) => Unanswered(a, h)
    /\ \A p \in ps : /\ p.i \in 1 .. h /\ (InHand(st) => p.i # h)
                     /\ p.type = "request" => Asks(m, p.i) /\ Unanswered(a, p.i)
    /\ \A p, q \in ps : p.i = q.i => p = q

\* The bytes of the messages of a connection
Stream(m, s) == Connection(m) /\ s = Bytes(m)

\* The message that is handled has its bytes in the stream.
LEMMA StreamIs ==
    ASSUME NEW m, NEW s, Stream(m, s), NEW h \in 1 .. Len(m)
    PROVE  /\ Bounds(s, Bound(m, h - 1), Bound(m, h))
           /\ Bound(m, h - 1) \in Nat /\ Bound(m, h) = Bound(m, h - 1) + Len(m[h].elements)
           /\ Len(m[h].elements) \in Nat \ {0} /\ Bound(m, h) <= Len(s)
           /\ \A j \in 1 .. Len(m[h].elements) :
                 LET e == m[h].elements[j]
                     f == s[Bound(m, h - 1) + j]
                 IN  /\ f.k = e.k
                     /\ f.v = IF e.k = "num" /\ e.v = OwnNumber THEN h ELSE e.v
                     /\ e.k = "num" => e.v \in Int
<1>1. Connection(m) /\ s = Bytes(m)
  BY DEF Stream
<1>2. /\ s \in Seq(ElementType(Values)) /\ Len(s) \in Nat
      /\ Bound(m, h - 1) \in Nat /\ Bound(m, h) = Bound(m, h - 1) + Len(m[h].elements)
      /\ Len(m[h].elements) \in Nat \ {0} /\ Bound(m, h) <= Len(s)
      /\ \A j \in 1 .. Len(m[h].elements) :
            s[Behind(m, h, j)] = Part(m, h)[j] /\ Behind(m, h, j) \in 1 .. Len(s)
  BY <1>1, BytesAre
<1>3. Len(m) \in Nat /\ h \in 0 .. Len(m) /\ h \in Int /\ IsStream(m[h].elements)
  BY <1>1, MessageIs, BoundsAssumption
<1>4. \A j \in 1 .. Len(m[h].elements) :
         LET e == m[h].elements[j]
             f == Part(m, h)[j]
         IN  /\ f.k = e.k /\ f.n = e.n /\ e.n \in Nat
             /\ f.v = IF e.k = "num" /\ e.v = OwnNumber THEN h ELSE e.v
             /\ e.k = "num" => e.v \in Int
  BY <1>3, PartIs
<1>5. Bounds(s, Bound(m, h - 1), Bound(m, h))
  <2>1. Len(s) < Wrapped
    BY <1>1, BytesShort
  <2>2. Remaining(SubSeq(s, 1, Bound(m, h))) = <<>>
    BY <1>1, <1>3, BoundaryIs
  <2>3. \A q \in Nat : Bound(m, h - 1) < q /\ q < Bound(m, h) => Remaining(SubSeq(s, 1, q)) # <<>>
    BY <1>1, InsideIs
  <2>4. Bound(m, h) \in Nat
    BY <1>2
  <2>5. QED
    BY <1>2, <2>1, <2>2, <2>3, <2>4 DEF Bounds
<1>6. \A j \in 1 .. Len(m[h].elements) : s[Bound(m, h - 1) + j] = Part(m, h)[j]
  BY <1>2 DEF Behind
<1>7. QED
  BY <1>2, <1>4, <1>5, <1>6

\* The loop does not run while the header is read, and no parameters are.
LEMMA HeadingIs ==
    ASSUME NEW m, NEW s, NEW x, NEW t, NEW g, NEW h, Heading(m, s, x, t, g, h)
    PROVE  /\ x.goal = NoGoal /\ Head(t).op \in HeaderOps
           /\ ~\E i \in DOMAIN t : t[i].op = "close"
           /\ Head(t).op = "type" => t = <<Do("type")>>
           /\ Head(t).op = "msgid" => t \in {<<Do("msgid"), Do("method")>>, <<Do("msgid"), Do("result")>>}
           /\ Head(t).op = "method" => t = <<Do("method")>>
           /\ Head(t).op = "result" => t = <<Do("result")>>
           /\ Head(t).op = "params" => t = <<Do("params")>>
<1>1. CASE t = <<Do("type")>>
  BY <1>1 DEF Heading, Do, HeaderOps
<1>2. CASE t = <<Do("msgid"), Do("method")>>
  BY <1>2 DEF Heading, Do, HeaderOps
<1>3. CASE t = <<Do("msgid"), Do("result")>>
  BY <1>3 DEF Heading, Do, HeaderOps
<1>4. CASE t = <<Do("method")>>
  BY <1>4 DEF Heading, Do, HeaderOps
<1>5. CASE t = <<Do("result")>>
  BY <1>5 DEF Heading, Do, HeaderOps
<1>6. CASE t = <<Do("params")>>
  BY <1>6 DEF Heading, Do, HeaderOps
<1>7. QED
  BY <1>1, <1>2, <1>3, <1>4, <1>5, <1>6 DEF Heading

\* What an exception does next
LEMMA CleanupHead ==
    ASSUME NEW x, NEW t, NEW id, Cleanup(x, t, id)
    PROVE  /\ Head(t).op \in {"rethrow", "leave", "left"}
           /\ Head(t).op = "rethrow" => Head(t).err \in {"recoverable", "fatal"}
<1>1. PICK v, err : /\ Loose(v, id) /\ err \in {"recoverable", "fatal"}
                    /\ \/ t = <<Rethrow(err)>> \o v
                       \/ \E f : /\ f.op \in {"leave", "left"} /\ EntryOk(f, id)
                                 /\ t = <<f>> \o (<<Rethrow(err)>> \o v)
  BY DEF Cleanup
<1> DEFINE e == Rethrow(err)
           k == <<e>> \o v
<1>2. IsList(v) /\ IsList(k) /\ e.op = "rethrow" /\ e.err \in {"recoverable", "fatal"}
  <2>1. IsList(v) /\ e.op = "rethrow" /\ e.err \in {"recoverable", "fatal"}
    BY <1>1 DEF Loose, Rethrow
  <2> HIDE DEF e
  <2>2. IsList(k)
    BY <2>1, PushIs
  <2>3. QED
    BY <2>1, <2>2
<1>3. CASE t = k
  <2> HIDE DEF e
  <2>1. Head(t) = e
    BY <1>2, <1>3, PushIs
  <2>2. QED
    BY <1>2, <2>1
<1>4. CASE \E f : f.op \in {"leave", "left"} /\ EntryOk(f, id) /\ t = <<f>> \o k
  <2>1. PICK f : f.op \in {"leave", "left"} /\ EntryOk(f, id) /\ t = <<f>> \o k
    BY <1>4
  <2> HIDE DEF k
  <2>2. Head(t) = f
    BY <1>2, <2>1, PushIs
  <2>3. QED
    BY <2>1, <2>2
<1>5. QED
  BY <1>1, <1>3, <1>4

\* Behind the header none of its steps is next.
LEMMA BodyIs ==
    ASSUME NEW s, NEW lo, NEW hi, NEW id, NEW x, Inside(s, x, lo, hi, id), Ok(x), x.goal = NoGoal,
           NEW t, Data(x, t, id) \/ Cleanup(x, t, id)
    PROVE  /\ Head(t).op \notin HeaderOps
           /\ Head(t).op \notin DumpOps => Ready(x, t, id)
           /\ Ready(x, t, id) \/ Cleanup(x, t, id)
<1>1. ASSUME Ready(x, t, id) PROVE Head(t).op \notin HeaderOps
  <2>1. CASE Reads(Head(t))
    BY <2>1 DEF Reads, HeaderOps
  <2>2. CASE ~Reads(Head(t))
    <3>1. EntryOk(Head(t), id)
      BY <1>1, <2>2, ReadyOther, FramedHead
    <3>2. QED
      BY <3>1 DEF EntryOk, Ops, HeaderOps
  <2>3. QED
    BY <2>1, <2>2
<1>2. ASSUME Cleanup(x, t, id) PROVE Head(t).op \in {"rethrow", "leave", "left"}
  BY <1>2, CleanupHead
<1>3. Data(x, t, id) => Ready(x, t, id)
  BY DEF Data
<1>4. QED
  BY <1>1, <1>2, <1>3 DEF HeaderOps, DumpOps

\* The function was left by an exception: by its handler of reader_recoverable_exception,
\* which is to leave all scopes, or for good.
Threw(m, s, st, y, t, g, h) ==
    \/ st \in {"expired", "terminated", "undefined"}
    \/ st = "recovering" /\ t = <<>> /\ Ok(y) /\ y.goal = 0 /\ InBounds(m, s, y, g, h)

\* end_array of the message leads there.
LEMMA RecoverIs ==
    ASSUME NEW x, InBounds(ms, in, x, msg, handled)
    PROVE  /\ Ok(Ending(x)) /\ Ending(x).goal = 0 /\ InBounds(ms, in, Ending(x), msg, handled)
           /\ Recover(x) => Threw(ms, in, state', r', todo', msg, handled)
<1> DEFINE y == Ending(x)
           lo == Bound(ms, handled - 1)
           hi == Bound(ms, handled)
           id == msg.scope
<1>1. y = EndScope([x EXCEPT !.err = "ok", !.goal = NoGoal], "array", id)
  BY DEF Ending
<1>2. Inside(in, x, lo, hi, id)
  BY DEF InBounds
<1> HIDE DEF y, lo, hi, id
<1>3. Inside(in, y, lo, hi, id) /\ Ok(y) /\ y.goal = 0
  BY <1>1, <1>2, EndingIs
<1>4. InBounds(ms, in, y, msg, handled)
  BY <1>3 DEF InBounds, lo, hi, id
<1>5. Recover(x) => state' = "recovering" /\ r' = y /\ todo' = <<>>
  BY DEF Recover, y
<1>6. QED
  BY <1>3, <1>4, <1>5 DEF Threw, y

\* A step of the function goes on, or throws.
LEMMA ProceedIs ==
    ASSUME NEW x, InBounds(ms, in, x, msg, handled), NEW u, Proceed(x, u)
    PROVE  \/ Ok(x) /\ r' = x /\ todo' = u /\ state' = state /\ replies' = replies
           \/ /\ Threw(ms, in, state', r', todo', msg, handled)
              /\ replies' = replies \/ (InParams /\ RepErr)
<1>1. CASE Ok(x) /\ r' = x /\ todo' = u /\ UNCHANGED <<state, replies>>
  BY <1>1
<1>2. CASE /\ ~Ok(x)
           /\ IF AfterThrow(x) = "recovering" THEN Recover(x)
              ELSE state' = AfterThrow(x) /\ r' = x /\ todo' = <<>>
           /\ IF InParams /\ x.err = "recoverable" THEN RepErr ELSE UNCHANGED replies
  <2>1. AfterThrow(x) \in {"expired", "terminated", "undefined", "recovering"}
    BY DEF AfterThrow
  <2>2. Threw(ms, in, state', r', todo', msg, handled)
    <3>1. CASE AfterThrow(x) = "recovering"
      BY <1>2, <3>1, RecoverIs
    <3>2. CASE AfterThrow(x) # "recovering"
      BY <1>2, <2>1, <3>2 DEF Threw
    <3>3. QED
      BY <3>1, <3>2
  <2>3. QED
    BY <1>2, <2>2
<1>3. QED
  BY <1>1, <1>2 DEF Proceed

\* What is known of the message is known after an exception.
LEMMA ThrewCourse ==
    ASSUME NEW m, NEW s, NEW st, NEW y, NEW t, NEW g, NEW h \in 1 .. Len(m), Threw(m, s, st, y, t, g, h),
           g.ok => Identified(m, g, h),
           g = [scope |-> g.scope, type |-> g.type, id |-> g.id, method |-> g.method, ok |-> g.ok]
    PROVE  Course(m, s, st, y, t, g, h) /\ st # "handling" /\ st # "waiting" /\ st # "closing"
<1>1. h # 0 /\ h \in 0 .. Len(m)
  OBVIOUS
<1>2. CASE st \in {"expired", "terminated", "undefined"}
  BY <1>1, <1>2 DEF Course
<1>3. CASE st = "recovering" /\ t = <<>> /\ Ok(y) /\ y.goal = 0 /\ InBounds(m, s, y, g, h)
  <2>1. Leaves(m, s, y, t, g, h)
    BY <1>3 DEF Leaves
  <2>2. QED
    BY <1>1, <1>3, <2>1 DEF Course
<1>4. QED
  BY <1>2, <1>3 DEF Threw

\* The replies written stay as they are.
LEMMA RepliedKept ==
    ASSUME NEW m, NEW st, NEW g, NEW h, NEW ps, NEW a, Replied(m, st, g, h, ps, a), NEW v, NEW f,
           StillOpen(v, f) => StillOpen(st, g), InHand(v) => InHand(st)
    PROVE  Replied(m, v, f, h, ps, a)
  BY DEF Replied

\* A number is appended to those that do not have it.
LEMMA AnsweredIs ==
    ASSUME NEW a \in Seq(Nat), NEW i \in Nat, Unanswered(a, i), NEW b, b = Append(a, i),
           \A j, k \in 1 .. Len(a) : a[j] = a[k] => j = k
    PROVE  /\ b \in Seq(Nat) /\ Len(a) \in Nat /\ Len(b) = Len(a) + 1
           /\ \A j, k \in 1 .. Len(b) : b[j] = b[k] => j = k
           /\ \A j \in 1 .. Len(b) : b[j] = i \/ (j \in 1 .. Len(a) /\ b[j] = a[j])
           /\ \A k : Unanswered(a, k) /\ k # i => Unanswered(b, k)
<1>1. /\ b \in Seq(Nat) /\ Len(a) \in Nat /\ Len(b) = Len(a) + 1 /\ b[Len(a) + 1] = i
      /\ \A j \in 1 .. Len(a) : b[j] = a[j]
  OBVIOUS
<1>2. \A j \in 1 .. Len(b) : j = Len(a) + 1 \/ j \in 1 .. Len(a)
  BY <1>1
<1>3. \A j \in 1 .. Len(b) : b[j] = i \/ (j \in 1 .. Len(a) /\ b[j] = a[j])
  BY <1>1, <1>2
<1>4. ASSUME NEW j \in 1 .. Len(b), NEW k \in 1 .. Len(b), b[j] = b[k] PROVE j = k
  <2>1. CASE j \in 1 .. Len(a) /\ k \in 1 .. Len(a)
    BY <1>1, <1>4, <2>1
  <2>2. CASE j = Len(a) + 1 /\ k \in 1 .. Len(a)
    BY <1>1, <1>4, <2>2 DEF Unanswered
  <2>3. CASE j \in 1 .. Len(a) /\ k = Len(a) + 1
    BY <1>1, <1>4, <2>3 DEF Unanswered
  <2>4. QED
    BY <1>2, <1>4, <2>1, <2>2, <2>3
<1>5. \A k : Unanswered(a, k) /\ k # i => Unanswered(b, k)
  BY <1>3 DEF Unanswered
<1>6. QED
  BY <1>1, <1>3, <1>4, <1>5

\* A request is answered with an error by the function itself; its handler is not called.
LEMMA RepErrIs ==
    ASSUME NEW m, NEW g, NEW h \in Nat \ {0}, NEW ps, NEW a, Replied(m, "handling", g, h, ps, a),
           Identified(m, g, h), NEW b,
           b = IF g.type = "request" THEN Append(a, g.id) ELSE a, NEW v, NEW f, ~StillOpen(v, f)
    PROVE  Replied(m, v, f, h, ps, b)
<1>1. InHand("handling") /\ StillOpen("handling", g)
  BY DEF InHand, StillOpen
<1>2. CASE g.type # "request"
  <2>1. b = a
    BY <1>2
  <2>2. QED
    BY <1>1, <2>1, RepliedKept
<1>3. CASE g.type = "request"
  <2>1. b = Append(a, h) /\ Asks(m, h)
    BY <1>3 DEF Identified
  <2>2. /\ a \in Seq(Nat) /\ Unanswered(a, h) /\ h \in Nat
        /\ \A j, k \in 1 .. Len(a) : a[j] = a[k] => j = k
    BY <1>1 DEF Replied
  <2>3. /\ b \in Seq(Nat) /\ Len(a) \in Nat /\ Len(b) = Len(a) + 1
        /\ \A j, k \in 1 .. Len(b) : b[j] = b[k] => j = k
        /\ \A j \in 1 .. Len(b) : b[j] = h \/ (j \in 1 .. Len(a) /\ b[j] = a[j])
        /\ \A k : Unanswered(a, k) /\ k # h => Unanswered(b, k)
    BY <2>1, <2>2, AnsweredIs, Zenon
  <2>4. \A i \in 1 .. Len(b) : b[i] \in 1 .. h /\ Asks(m, b[i])
    <3>1. \A i \in 1 .. Len(a) : a[i] \in 1 .. h /\ Asks(m, a[i])
      BY DEF Replied
    <3>2. h \in 1 .. h
      OBVIOUS
    <3>3. QED
      BY <2>1, <2>3, <3>1, <3>2
  <2>5. \A p \in ps : /\ p.i \in 1 .. h /\ p.i # h
                      /\ p.type = "request" => Asks(m, p.i) /\ Unanswered(b, p.i)
    BY <1>1, <2>3 DEF Replied
  <2>6. \A p, q \in ps : p.i = q.i => p = q
    BY DEF Replied
  <2>7. QED
    BY <2>3, <2>4, <2>5, <2>6 DEF Replied
<1>4. QED
  BY <1>2, <1>3

-----------------------------------------------------------------------------
(* The invariant and the steps of handle_single_message                     *)

RpcInv == /\ Stream(ms, in)
          /\ Course(ms, in, state, r, todo, msg, handled)
          /\ Replied(ms, state, msg, handled, posted, replies)

Formed(g) == g = [scope |-> g.scope, type |-> g.type, id |-> g.id, method |-> g.method, ok |-> g.ok]

\* While a message is handled the reader is inside of it.
LEMMA HandlingIs ==
    ASSUME RpcInv, state = "handling"
    PROVE  /\ handled \in 1 .. Len(ms) /\ Len(ms) \in Nat /\ handled \in Nat \ {0} /\ Formed(msg) /\ ~msg.ok
           /\ Ok(r) /\ InBounds(ms, in, r, msg, handled)
           /\ Heading(ms, in, r, todo, msg, handled) \/ InBody(ms, r, todo, msg, handled)
           /\ Inside(in, r, Bound(ms, handled - 1), Bound(ms, handled), msg.scope)
           /\ Bounds(in, Bound(ms, handled - 1), Bound(ms, handled))
<1>1. Len(ms) \in Nat
  <2>1. Connection(ms)
    BY DEF RpcInv, Stream
  <2>2. QED
    BY <2>1, MessageIs, BoundsAssumption
<1>2. /\ handled \in 0 .. Len(ms) /\ handled # 0 /\ Formed(msg)
      /\ Handles(ms, in, r, todo, msg, handled)
  BY DEF RpcInv, Course, Formed
<1>3. handled \in 1 .. Len(ms) /\ handled \in Nat \ {0}
  BY <1>1, <1>2
<1>4. Bounds(in, Bound(ms, handled - 1), Bound(ms, handled))
  BY <1>3, StreamIs DEF RpcInv
<1>5. QED
  BY <1>1, <1>2, <1>3, <1>4 DEF Handles, InBounds

\* An exception is as good as any other, as long as the message is not one to be passed on.
LEMMA ThrewKeeps ==
    ASSUME RpcInv, state = "handling", UNCHANGED <<ms, in, posted, handled>>, Formed(msg'),
           msg'.scope = msg.scope, ~msg'.ok, Threw(ms, in, state', r', todo', msg, handled),
           replies' = replies \/ (RepErr /\ Identified(ms, msg, handled))
    PROVE  RpcInv'
<1>1. handled \in 1 .. Len(ms) /\ handled \in Nat \ {0}
  BY HandlingIs
<1>2. Threw(ms, in, state', r', todo', msg', handled)
  BY DEF Threw, InBounds
<1>3. /\ Course(ms, in, state', r', todo', msg', handled)
      /\ state' # "handling"
  BY <1>1, <1>2, ThrewCourse DEF Formed
<1>4. ~StillOpen(state', msg') /\ InHand(state)
  BY <1>3 DEF StillOpen, InHand
<1>5. Replied(ms, state, msg, handled, posted, replies)
  BY DEF RpcInv
<1>6. Replied(ms, state', msg', handled, posted, replies')
  <2>1. CASE replies' = replies
    BY <1>4, <1>5, <2>1, RepliedKept
  <2>2. CASE RepErr /\ Identified(ms, msg, handled)
    <3>1. replies' = IF msg.type = "request" THEN Append(replies, msg.id) ELSE replies
      BY <2>2 DEF RepErr
    <3>2. /\ handled \in Nat \ {0} /\ ~StillOpen(state', msg')
          /\ Replied(ms, "handling", msg, handled, posted, replies)
      BY <1>1, <1>4, <1>5
    <3>3. QED
      BY <2>2, <3>1, <3>2, RepErrIs
  <2>3. QED
    BY <2>1, <2>2
<1>7. Stream(ms, in)
  BY DEF RpcInv
<1>8. QED
  BY <1>3, <1>6, <1>7 DEF RpcInv

\* A step of the function, which goes on to u
LEMMA StepKeeps ==
    ASSUME RpcInv, state = "handling", UNCHANGED <<ms, in, posted, handled>>, Formed(msg'),
           msg'.scope = msg.scope, ~msg'.ok, NEW x, InBounds(ms, in, x, msg, handled), NEW u, Proceed(x, u),
           InParams => Identified(ms, msg, handled),
           Ok(x) => Heading(ms, in, x, u, msg', handled) \/ InBody(ms, x, u, msg', handled)
    PROVE  RpcInv'
<1>1. handled \in 1 .. Len(ms) /\ handled \in Nat \ {0}
  BY HandlingIs
<1>2. \/ Ok(x) /\ r' = x /\ todo' = u /\ state' = state /\ replies' = replies
      \/ /\ Threw(ms, in, state', r', todo', msg, handled)
         /\ replies' = replies \/ (InParams /\ RepErr)
  BY ProceedIs
<1>3. CASE Ok(x) /\ r' = x /\ todo' = u /\ state' = state /\ replies' = replies
  <2>1. InBounds(ms, in, x, msg', handled)
    BY DEF InBounds
  <2>2. Handles(ms, in, x, u, msg', handled)
    BY <1>3, <2>1 DEF Handles
  <2>3. Course(ms, in, state, x, u, msg', handled)
    BY <1>1, <2>2 DEF Course, Formed
  <2>4. Replied(ms, state, msg, handled, posted, replies) /\ Stream(ms, in)
    BY DEF RpcInv
  <2>5. StillOpen(state, msg') => StillOpen(state, msg)
    BY DEF StillOpen
  <2>6. Replied(ms, state, msg', handled, posted, replies)
    BY <2>4, <2>5, RepliedKept
  <2>7. QED
    BY <1>3, <2>3, <2>4, <2>6 DEF RpcInv
<1>4. CASE /\ Threw(ms, in, state', r', todo', msg, handled)
           /\ replies' = replies \/ (InParams /\ RepErr)
  BY <1>4, ThrewKeeps
<1>5. QED
  BY <1>2, <1>3, <1>4

\* The array of the message is an array, whose elements are read where they are.
LEMMA HeadReady ==
    ASSUME NEW s, NEW lo, NEW hi, NEW id, NEW x, Inside(s, x, lo, hi, id), Ok(x), Len(x.scopes) = 1
    PROVE  /\ KeyReady(x) /\ Asked(s, x) /\ x.scopes[Len(x.scopes)].type = "array"
           /\ x.pos \in Nat \ {0} /\ Top(x) = x.scopes[1]
<1>1. Asked(s, x) /\ x \in ReaderType
  BY InsideAsked
<1>2. x.scopes[Len(x.scopes)].type = "array"
  BY DEF Inside
<1>3. KeyReady(x) /\ Top(x) = x.scopes[1]
  BY <1>1, <1>2, ArrayReady, TopIs
<1>4. QED
  BY <1>1, <1>2, <1>3 DEF ReaderType

\* What kind of message it is
LEMMA TypeKeeps == ASSUME RpcInv, ReadType PROVE RpcInv'
<1> DEFINE x == ReadNumber(in, r)
           type == TypeOf(Value)
           lo == Bound(ms, handled - 1)
           hi == Bound(ms, handled)
           id == msg.scope
           h == handled
<1>1. /\ h \in 1 .. Len(ms) /\ Formed(msg) /\ ~msg.ok /\ Ok(r) /\ Inside(in, r, lo, hi, id)
      /\ Bounds(in, lo, hi) /\ r.goal = NoGoal /\ state = "handling" /\ Head(todo).op = "type"
  BY HandlingIs DEF ReadType, Handling
<1>2. Heading(ms, in, r, todo, msg, h)
  <2>1. Head(todo).op \in HeaderOps
    BY <1>1 DEF HeaderOps
  <2>2. Heading(ms, in, r, todo, msg, h) \/ InBody(ms, r, todo, msg, h)
    BY <1>1, HandlingIs
  <2>3. QED
    BY <1>1, <2>1, <2>2, BodyIs DEF InBody
<1>3. todo = <<Do("type")>> /\ Len(r.scopes) = 1 /\ Right(in, r, lo, hi) /\ ~InParams
  BY <1>1, <1>2, HeadingIs DEF Heading, InParams
<1>4. r.pos = lo + 2
  BY <1>2, <1>3 DEF Heading, Do
<1>5. KeyReady(r)
  BY <1>1, <1>3, HeadReady
<1>6. /\ Inside(in, x, lo, hi, id) /\ Kept(r, x)
      /\ Ok(x) => WasRead(in, r, x) /\ in[r.pos].k = "num" /\ Right(in, x, lo, hi)
  BY <1>1, <1>3, <1>5, NumberInside
<1>7. InBounds(ms, in, x, msg, h)
  BY <1>6 DEF InBounds
<1>8. UNCHANGED <<ms, in, posted, handled>>
  BY DEF ReadType, InMessage
<1>9. ASSUME Ok(x) PROVE x.pos = lo + 3 /\ (type = "request" => Asks(ms, h))
  <2>1. x.pos = lo + 3
    <3>1. x.pos = r.pos + 1 /\ lo \in Nat
      BY <1>1, <1>6, <1>9 DEF WasRead, Bounds
    <3>2. QED
      BY <1>4, <3>1
  <2>2. ASSUME type = "request" PROVE Asks(ms, h)
    <3>1. /\ lo \in Nat /\ hi = lo + Len(ms[h].elements) /\ Len(ms[h].elements) \in Nat \ {0}
          /\ \A j \in 1 .. Len(ms[h].elements) :
                LET e == ms[h].elements[j]
                    f == in[lo + j]
                IN  /\ f.k = e.k
                    /\ f.v = IF e.k = "num" /\ e.v = OwnNumber THEN h ELSE e.v
                    /\ e.k = "num" => e.v \in Int
      BY <1>1, StreamIs DEF RpcInv
    <3>2. 2 \in 1 .. Len(ms[h].elements)
      <4>1. x.pos - 1 <= hi
        BY <1>6, <1>9 DEF Right
      <4>2. QED
        BY <2>1, <3>1, <4>1
    <3>3. in[lo + 2].k = "num" /\ in[lo + 2].v = 0
      <4>1. Value = 0
        BY <2>2 DEF TypeOf
      <4>2. QED
        BY <1>4, <1>6, <1>9, <4>1 DEF Value
    <3>4. h # 0
      BY <1>1
    <3> DEFINE e == ms[h].elements[2]
    <3>5. e.k = "num" /\ 0 = IF e.v = OwnNumber THEN h ELSE e.v
      BY <3>1, <3>2, <3>3
    <3>6. QED
      BY <3>4, <3>5 DEF Asks
  <2>3. QED
    BY <2>1, <2>2
<1> HIDE DEF x, type
<1>10. CASE /\ Ok(x) /\ (type = "invalid" \/ ElemLeft(x) # Expect[type])
            /\ Recover(x) /\ UNCHANGED <<msg, replies>>
  <2>1. Threw(ms, in, state', r', todo', msg, handled)
    BY <1>7, <1>10, RecoverIs
  <2>2. QED
    BY <1>1, <1>8, <1>10, <2>1, ThrewKeeps
<1>11. CASE /\ ~(Ok(x) /\ (type = "invalid" \/ ElemLeft(x) # Expect[type]))
            /\ Proceed(x, IF Ok(x) THEN Header[type] ELSE <<>>)
            /\ msg' = IF Ok(x) THEN [msg EXCEPT !.type = type] ELSE msg
  <2> DEFINE u == IF Ok(x) THEN Header[type] ELSE <<>>
  <2>1. Formed(msg') /\ msg'.scope = msg.scope /\ ~msg'.ok /\ (Ok(x) => msg'.type = type)
    <3>1. CASE Ok(x)
      BY <1>1, <1>11, <3>1 DEF Formed
    <3>2. CASE ~Ok(x)
      BY <1>1, <1>11, <3>2
    <3>3. QED
      BY <3>1, <3>2
  <2>2. ASSUME Ok(x) PROVE Heading(ms, in, x, u, msg', h)
    <3>1. x.goal = NoGoal /\ Len(x.scopes) = 1
      BY <1>3, <1>6 DEF Kept
    <3>2. type \in {"request", "reply", "notify"}
      BY <1>11, <2>2 DEF TypeOf, type
    <3>3. CASE type \in {"request", "reply"}
      <4>1. u \in {<<Do("msgid"), Do("method")>>, <<Do("msgid"), Do("result")>>}
        BY <2>2, <3>3 DEF Header
      <4>2. QED
        BY <1>6, <1>9, <2>1, <2>2, <3>1, <4>1 DEF Heading
    <3>4. CASE type = "notify"
      <4>1. u = <<Do("method")>>
        BY <2>2, <3>4 DEF Header
      <4>2. Identified(ms, msg', h)
        BY <2>1, <2>2, <3>4 DEF Identified
      <4>3. QED
        BY <1>6, <2>2, <3>1, <4>1, <4>2 DEF Heading
    <3>5. QED
      BY <3>2, <3>3, <3>4
  <2> HIDE DEF u
  <2>3. Proceed(x, u)
    BY <1>11 DEF u
  <2>4. QED
    BY <1>1, <1>3, <1>7, <1>8, <2>1, <2>2, <2>3, StepKeeps
<1>12. QED
  BY <1>10, <1>11 DEF ReadType, x, type

\* A step of the header
LEMMA HeaderIs ==
    ASSUME RpcInv, NEW op \in HeaderOps, Handling(op)
    PROVE  /\ Heading(ms, in, r, todo, msg, handled) /\ Head(todo).op = op /\ r.goal = NoGoal
           /\ Len(r.scopes) = 1 /\ r.scopes[1].type = "array"
           /\ Right(in, r, Bound(ms, handled - 1), Bound(ms, handled)) /\ ~InParams
           /\ KeyReady(r) /\ state = "handling"
<1>1. /\ Ok(r) /\ Inside(in, r, Bound(ms, handled - 1), Bound(ms, handled), msg.scope)
      /\ r.goal = NoGoal /\ state = "handling" /\ Head(todo).op = op
      /\ Heading(ms, in, r, todo, msg, handled) \/ InBody(ms, r, todo, msg, handled)
  BY HandlingIs DEF Handling
<1>2. Heading(ms, in, r, todo, msg, handled)
  BY <1>1, BodyIs DEF InBody
<1>3. Len(r.scopes) = 1 /\ Right(in, r, Bound(ms, handled - 1), Bound(ms, handled)) /\ ~InParams
  BY <1>2, HeadingIs DEF Heading, InParams
<1>4. KeyReady(r) /\ r.scopes[1].type = "array"
  BY <1>1, <1>3, HeadReady DEF Inside
<1>5. QED
  BY <1>1, <1>2, <1>3, <1>4

\* The id: requests are numbered by their place.
LEMMA MsgidKeeps == ASSUME RpcInv, ReadMsgid PROVE RpcInv'
<1> DEFINE x == ReadNumber(in, r)
           lo == Bound(ms, handled - 1)
           hi == Bound(ms, handled)
           id == msg.scope
           h == handled
           u == Tail(todo)
<1>1. /\ h \in 1 .. Len(ms) /\ Formed(msg) /\ ~msg.ok /\ Ok(r) /\ Inside(in, r, lo, hi, id)
      /\ Bounds(in, lo, hi)
  BY HandlingIs DEF ReadMsgid, Handling
<1>2. /\ Heading(ms, in, r, todo, msg, h) /\ Head(todo).op = "msgid" /\ r.goal = NoGoal
      /\ Len(r.scopes) = 1 /\ Right(in, r, lo, hi) /\ ~InParams /\ KeyReady(r) /\ state = "handling"
  <2>1. "msgid" \in HeaderOps /\ Handling("msgid")
    BY DEF HeaderOps, ReadMsgid
  <2>2. QED
    BY <2>1, HeaderIs
<1>3. todo \in {<<Do("msgid"), Do("method")>>, <<Do("msgid"), Do("result")>>}
  BY <1>2, HeadingIs
<1>4. r.pos = lo + 3 /\ (msg.type = "request" => Asks(ms, h)) /\ u \in {<<Do("method")>>, <<Do("result")>>}
  <2>1. u \in {<<Do("method")>>, <<Do("result")>>}
    <3>1. CASE todo = <<Do("msgid"), Do("method")>>
      BY <3>1
    <3>2. CASE todo = <<Do("msgid"), Do("result")>>
      BY <3>2
    <3>3. QED
      BY <1>3, <3>1, <3>2
  <2>2. Head(todo).op = "msgid"
    BY <1>2
  <2>3. /\ Head(<<Do("type")>>).op # "msgid" /\ Head(<<Do("method")>>).op # "msgid"
        /\ Head(<<Do("result")>>).op # "msgid" /\ Head(<<Do("params")>>).op # "msgid"
    BY DEF Do
  <2>4. r.pos = lo + 3 /\ (msg.type = "request" => Asks(ms, h))
    BY <1>2, <2>2, <2>3 DEF Heading
  <2>5. QED
    BY <2>1, <2>4
<1>5. /\ Inside(in, x, lo, hi, id) /\ Kept(r, x)
      /\ Ok(x) => WasRead(in, r, x) /\ in[r.pos].k = "num" /\ Right(in, x, lo, hi)
  BY <1>1, <1>2, NumberInside
<1>6. InBounds(ms, in, x, msg, h)
  BY <1>5 DEF InBounds
<1>7. UNCHANGED <<ms, in, posted, handled>>
  BY DEF ReadMsgid, InMessage
<1>8. ASSUME Ok(x), msg.type = "request" PROVE Value = h
  <2>1. Asks(ms, h)
    BY <1>4, <1>8
  <2>2. /\ lo \in Nat /\ hi = lo + Len(ms[h].elements) /\ Len(ms[h].elements) \in Nat \ {0}
        /\ \A j \in 1 .. Len(ms[h].elements) :
              LET e == ms[h].elements[j]
                  f == in[lo + j]
              IN  /\ f.k = e.k
                  /\ f.v = IF e.k = "num" /\ e.v = OwnNumber THEN h ELSE e.v
                  /\ e.k = "num" => e.v \in Int
    BY <1>1, StreamIs DEF RpcInv
  <2>3. 3 \in 1 .. Len(ms[h].elements) /\ Len(ms[h].elements) >= 3
    <3>1. x.pos - 1 <= hi /\ x.pos = r.pos + 1
      BY <1>5, <1>8 DEF Right, WasRead
    <3>2. QED
      BY <1>4, <2>2, <3>1
  <2>4. ms[h].elements[3].k = "num"
    BY <1>4, <1>5, <1>8, <2>2, <2>3
  <2>5. ms[h].elements[3].v = OwnNumber
    <3>1. Connection(ms)
      BY DEF RpcInv, Stream
    <3>2. ms[h] \in Messages
      BY <1>1, <3>1, MessageIs
    <3>3. QED
      BY <2>1, <2>3, <2>4, <3>2, RequestsAssumption DEF Asks
  <2>6. in[lo + 3].v = h
    BY <2>2, <2>3, <2>4, <2>5
  <2>7. QED
    BY <1>4, <2>6 DEF Value
<1> HIDE DEF x, u
<1>9. Proceed(x, u) /\ msg' = IF Ok(x) THEN [msg EXCEPT !.id = Value] ELSE msg
  BY DEF ReadMsgid, x, u
<1>10. /\ Formed(msg') /\ msg'.scope = msg.scope /\ ~msg'.ok
       /\ Ok(x) => msg'.type = msg.type /\ msg'.id = Value
  <2>1. CASE Ok(x)
    BY <1>1, <1>9, <2>1 DEF Formed
  <2>2. CASE ~Ok(x)
    BY <1>1, <1>9, <2>2
  <2>3. QED
    BY <2>1, <2>2
<1>11. ASSUME Ok(x) PROVE Heading(ms, in, x, u, msg', h)
  <2>1. x.goal = NoGoal /\ Len(x.scopes) = 1
    BY <1>2, <1>5 DEF Kept
  <2>2. Identified(ms, msg', h)
    BY <1>4, <1>8, <1>10, <1>11 DEF Identified
  <2>3. QED
    BY <1>4, <1>5, <1>11, <2>1, <2>2 DEF Heading
<1>12. QED
  BY <1>1, <1>2, <1>6, <1>7, <1>9, <1>10, <1>11, StepKeeps

\* The method, which may not be served
LEMMA MethodKeeps == ASSUME RpcInv, ReadMethod PROVE RpcInv'
<1> DEFINE x == ReadString(in, r)
           known == Ok(x) /\ Value \in DOMAIN Methods
           lo == Bound(ms, handled - 1)
           hi == Bound(ms, handled)
           id == msg.scope
           h == handled
           u == <<Do("params")>>
<1>1. /\ h \in 1 .. Len(ms) /\ Formed(msg) /\ ~msg.ok /\ Ok(r) /\ Inside(in, r, lo, hi, id)
      /\ Bounds(in, lo, hi) /\ h \in Nat \ {0}
  BY HandlingIs DEF ReadMethod, Handling
<1>2. /\ Heading(ms, in, r, todo, msg, h) /\ Head(todo).op = "method" /\ r.goal = NoGoal
      /\ Len(r.scopes) = 1 /\ Right(in, r, lo, hi) /\ ~InParams /\ KeyReady(r) /\ state = "handling"
  <2>1. "method" \in HeaderOps /\ Handling("method")
    BY DEF HeaderOps, ReadMethod
  <2>2. QED
    BY <2>1, HeaderIs
<1>3. todo = <<Do("method")>>
  BY <1>2, HeadingIs
<1>4. Identified(ms, msg, h)
  BY <1>2, <1>3 DEF Heading, Do
<1>5. /\ Inside(in, x, lo, hi, id) /\ Kept(r, x)
      /\ Ok(x) => Right(in, x, lo, hi)
  BY <1>1, <1>2, StringInside
<1>6. InBounds(ms, in, x, msg, h)
  BY <1>5 DEF InBounds
<1>7. UNCHANGED <<ms, in, posted, handled>>
  BY DEF ReadMethod, InMessage
<1> HIDE DEF x
<1>8. CASE Ok(x) /\ ~known /\ state' = "closing" /\ r' = Ending(x) /\ todo' = <<>> /\ msg' = msg /\ RepErr
  <2>1. Ok(Ending(x)) /\ Ending(x).goal = 0 /\ InBounds(ms, in, Ending(x), msg, h)
    BY <1>6, RecoverIs
  <2>2. Leaves(ms, in, r', todo', msg, h)
    BY <1>1, <1>8, <2>1 DEF Leaves
  <2>3. Course(ms, in, state', r', todo', msg, h)
    <3>1. h # 0 /\ h \in 0 .. Len(ms)
      BY <1>1
    <3>2. QED
      BY <1>1, <1>8, <2>2, <3>1 DEF Course, Formed
  <2>4. Replied(ms, state', msg, h, posted, replies')
    <3>1. ~StillOpen(state', msg)
      BY <1>1, <1>8 DEF StillOpen
    <3>2. replies' = IF msg.type = "request" THEN Append(replies, msg.id) ELSE replies
      BY <1>8 DEF RepErr
    <3>3. Replied(ms, "handling", msg, h, posted, replies) /\ h \in Nat \ {0}
      BY <1>1, <1>2 DEF RpcInv
    <3>4. QED
      BY <1>4, <3>1, <3>2, <3>3, RepErrIs
  <2>5. Stream(ms, in)
    BY DEF RpcInv
  <2>6. QED
    BY <1>7, <1>8, <2>3, <2>4, <2>5 DEF RpcInv
<1>9. CASE /\ ~(Ok(x) /\ ~known) /\ Proceed(x, u)
           /\ msg' = IF known THEN [msg EXCEPT !.method = Value] ELSE msg
  <2>1. /\ Formed(msg') /\ msg'.scope = msg.scope /\ ~msg'.ok
        /\ Ok(x) => msg'.type = msg.type /\ msg'.id = msg.id /\ msg'.method \in DOMAIN Methods
    <3>1. CASE known
      BY <1>1, <1>9, <3>1 DEF Formed
    <3>2. CASE ~known
      BY <1>1, <1>9, <3>2
    <3>3. QED
      BY <3>1, <3>2
  <2>2. ASSUME Ok(x) PROVE Heading(ms, in, x, u, msg', h)
    <3>1. x.goal = NoGoal /\ Len(x.scopes) = 1
      BY <1>2, <1>5 DEF Kept
    <3>2. Identified(ms, msg', h)
      BY <1>4, <2>1, <2>2 DEF Identified
    <3>3. QED
      BY <1>5, <2>1, <2>2, <3>1, <3>2 DEF Heading
  <2> HIDE DEF u
  <2>3. QED
    BY <1>1, <1>2, <1>6, <1>7, <1>9, <2>1, <2>2, StepKeeps
<1>10. QED
  BY <1>8, <1>9 DEF ReadMethod, x

\* The parameters that a method takes
LEMMA ParametersAre ==
    ASSUME NEW f \in Seq(Types), NEW id, NEW s, NEW k, s[k].type = "array", NEW p,
           p = [i \in DOMAIN f |-> Restore(f[i], <<i>>)]
    PROVE  Parts(p, s, k, id) /\ IsList(p)
<1> DEFINE n == Len(f)
           e(i) == Restore(f[i], <<i>>)
<1>1. n \in Nat /\ DOMAIN f = 1 .. n /\ \A i \in 1 .. n : f[i] \in Types
  BY LenProperties, ElementOfSeq
<1>2. p = [i \in 1 .. n |-> e(i)]
  BY <1>1
<1>3. ASSUME NEW i \in 1 .. n PROVE EntryOk(e(i), id) /\ ~Holds(e(i))
  BY <1>1, <1>3 DEF EntryOk, Holds, Ops, Restore
<1> HIDE DEF e, n
<1>4. p \in Seq({e(i) : i \in 1 .. n}) /\ Len(p) = n
  <2> DEFINE F == {e(i) : i \in 1 .. n}
  <2>1. \A i \in 1 .. n : e(i) \in F /\ p[i] = e(i)
    BY <1>2
  <2>2. Listed(p, n)
    BY <1>2 DEF Listed
  <2> HIDE DEF F
  <2>3. p \in Seq(F) /\ Len(p) = n
    BY <1>1, <2>1, <2>2, ListedSeq
  <2>4. QED
    BY <2>3 DEF F
<1>5. IsList(p)
  BY <1>4, SeqIsList
<1>6. \A i \in 1 .. n : p[i] = e(i)
  BY <1>2
<1>7. QED
  BY <1>3, <1>4, <1>5, <1>6 DEF Parts

\* The parameters are entered.
LEMMA ParamsKeeps == ASSUME RpcInv, ReadParams PROVE RpcInv'
<1> DEFINE x == BeginArray(in, r)
           types == Methods[msg.method]
           p == [i \in DOMAIN types |-> Restore(types[i], <<i>>)]
           e == [op |-> "close", id |-> x.gen]
           u == p \o <<e>>
           lo == Bound(ms, handled - 1)
           hi == Bound(ms, handled)
           id == msg.scope
           h == handled
<1>1. /\ h \in 1 .. Len(ms) /\ Formed(msg) /\ ~msg.ok /\ Ok(r) /\ Inside(in, r, lo, hi, id)
      /\ Bounds(in, lo, hi) /\ h \in Nat \ {0}
  BY HandlingIs DEF ReadParams, Handling
<1>2. /\ Heading(ms, in, r, todo, msg, h) /\ Head(todo).op = "params" /\ r.goal = NoGoal
      /\ Len(r.scopes) = 1 /\ Right(in, r, lo, hi) /\ ~InParams /\ KeyReady(r) /\ state = "handling"
  <2>1. "params" \in HeaderOps /\ Handling("params")
    BY DEF HeaderOps, ReadParams
  <2>2. QED
    BY <2>1, HeaderIs
<1>3. todo = <<Do("params")>>
  BY <1>2, HeadingIs
<1>4. Identified(ms, msg, h) /\ msg.method \in DOMAIN Methods
  BY <1>2, <1>3 DEF Heading, Do
<1>5. /\ Inside(in, x, lo, hi, id)
      /\ Ok(x) => Deeper(r, x, "array") /\ x.gen # id
  BY <1>1, <1>2, ArrayInside
<1>6. InBounds(ms, in, x, msg, h)
  BY <1>5 DEF InBounds
<1>7. UNCHANGED <<ms, in, posted, handled>> /\ msg' = msg
  BY DEF ReadParams, InMessage
<1>8. types \in Seq(Types)
  BY <1>4, TypesAssumption
<1> HIDE DEF x
<1>9. ASSUME Ok(x) PROVE InBody(ms, x, u, msg, h)
  <2>1. /\ Len(x.scopes) = 2 /\ x.goal = NoGoal /\ 2 \in 1 .. Len(x.scopes) /\ Len(x.scopes) \in Nat
        /\ x.scopes[2].id = x.gen /\ x.scopes[2].type = "array"
    BY <1>2, <1>5, <1>9 DEF Deeper
  <2>2. EntryOk(e, id) /\ Bottom(e) /\ Holds(e) /\ ScopeOf(e) = "array" /\ e.id = x.gen
    BY <1>5, <1>9 DEF EntryOk, Bottom, Holds, ScopeOf
  <2> HIDE DEF e
  <2>3. Framed(<<e>>, x.scopes, 2, id)
    BY <2>1, <2>2, FramedLast
  <2>4. Parts(p, x.scopes, 2, id)
    BY <1>8, <2>1, ParametersAre
  <2> HIDE DEF p
  <2>5. Framed(p \o <<e>>, x.scopes, 2, id)
    BY <2>3, <2>4, FramedParts
  <2>6. Data(x, u, id)
    BY <2>1, <2>5 DEF Data, Ready
  <2>7. QED
    BY <1>4, <2>6 DEF InBody
<1>10. CASE Recover(x) /\ RepErr
  <2>1. Threw(ms, in, state', r', todo', msg, h)
    BY <1>6, <1>10, RecoverIs
  <2>2. QED
    BY <1>1, <1>2, <1>4, <1>7, <1>10, <2>1, ThrewKeeps
<1>11. CASE Proceed(x, u)
  <2> HIDE DEF u
  <2>1. QED
    BY <1>1, <1>2, <1>6, <1>7, <1>9, <1>11, StepKeeps
<1>12. QED
  BY <1>10, <1>11 DEF ReadParams, x

\* A step behind the header
LEMMA BodyStep ==
    ASSUME RpcInv, state = "handling", r.goal = NoGoal, Head(todo).op \notin HeaderOps
    PROVE  /\ InBody(ms, r, todo, msg, handled) /\ Identified(ms, msg, handled)
           /\ Head(todo).op \notin DumpOps => Ready(r, todo, msg.scope)
           /\ Ready(r, todo, msg.scope) \/ Cleanup(r, todo, msg.scope)
<1>1. /\ Ok(r) /\ Inside(in, r, Bound(ms, handled - 1), Bound(ms, handled), msg.scope)
      /\ Heading(ms, in, r, todo, msg, handled) \/ InBody(ms, r, todo, msg, handled)
  BY HandlingIs
<1>2. InBody(ms, r, todo, msg, handled)
  BY <1>1, HeadingIs
<1>3. QED
  BY <1>1, <1>2, BodyIs DEF InBody

\* A call of the reader by the restoring of a value
LEMMA RestoreKeeps == ASSUME RpcInv, RestoreValue PROVE RpcInv'
<1> DEFINE z == RestoreStep(in, r, buffer, todo)
           lo == Bound(ms, handled - 1)
           hi == Bound(ms, handled)
           id == msg.scope
<1>1. /\ Formed(msg) /\ ~msg.ok /\ Ok(r) /\ Inside(in, r, lo, hi, id) /\ Bounds(in, lo, hi)
      /\ r.goal = NoGoal /\ state = "handling" /\ Head(todo).op \in Ops
  BY HandlingIs DEF RestoreValue
<1>2. Ready(r, todo, id) /\ Identified(ms, msg, handled)
  <2>1. Head(todo).op \notin HeaderOps /\ Head(todo).op \notin DumpOps
    BY <1>1 DEF Ops, HeaderOps, DumpOps
  <2>2. QED
    BY <1>1, <2>1, BodyStep
<1>3. UNCHANGED <<ms, in, posted, handled>> /\ msg' = msg /\ Proceed(z.r, z.todo)
  BY DEF RestoreValue, InMessage
<1>4. Restores(in, z, lo, hi, id)
  BY <1>1, <1>2, RestoreStepIs
<1> HIDE DEF z
<1> DEFINE x == z.r
           u == z.todo
<1>5. InBounds(ms, in, x, msg, handled)
  BY <1>4 DEF Restores, InBounds
<1>6. Ok(x) => InBody(ms, x, u, msg', handled)
  BY <1>2, <1>3, <1>4 DEF Restores, InBody
<1>7. Proceed(x, u)
  BY <1>3
<1> HIDE DEF x, u
<1>8. QED
  BY <1>1, <1>2, <1>3, <1>5, <1>6, <1>7, StepKeeps

\* A call of the reader by the dump of an error
LEMMA DumpKeeps == ASSUME RpcInv, DumpError PROVE RpcInv'
<1> DEFINE z == DumpStep(in, r, buffer[<<>>], todo)
           lo == Bound(ms, handled - 1)
           hi == Bound(ms, handled)
           id == msg.scope
<1>1. /\ Formed(msg) /\ ~msg.ok /\ Ok(r) /\ Inside(in, r, lo, hi, id) /\ Bounds(in, lo, hi)
      /\ r.goal = NoGoal /\ state = "handling" /\ Head(todo).op \in DumpOps
  BY HandlingIs DEF DumpError
<1>2. (Ready(r, todo, id) \/ Cleanup(r, todo, id)) /\ Identified(ms, msg, handled)
  <2>1. Head(todo).op \notin HeaderOps
    BY <1>1 DEF HeaderOps, DumpOps
  <2>2. QED
    BY <1>1, <2>1, BodyStep
<1>3. UNCHANGED <<ms, in, posted, handled>> /\ msg' = msg /\ Proceed(z.r, z.todo)
  BY DEF DumpError, InMessage
<1>4. Dumps(in, z, lo, hi, id)
  BY <1>1, <1>2, DumpStepIs
<1> HIDE DEF z
<1> DEFINE x == z.r
           u == z.todo
<1>5. InBounds(ms, in, x, msg, handled)
  BY <1>4 DEF Dumps, InBounds
<1>6. Ok(x) => InBody(ms, x, u, msg', handled)
  BY <1>2, <1>3, <1>4 DEF Dumps, InBody
<1>7. Proceed(x, u)
  BY <1>3
<1> HIDE DEF x, u
<1>8. QED
  BY <1>1, <1>2, <1>3, <1>5, <1>6, <1>7, StepKeeps

\* The entry that leaves the message
LEMMA DoneIs == \A id : EntryOk(Do("done"), id) /\ Bottom(Do("done")) /\ ~Holds(Do("done"))
  BY DEF EntryOk, Bottom, Holds, Do

\* The parameters are left.
LEMMA CloseKeeps == ASSUME RpcInv, CloseParams PROVE RpcInv'
<1> DEFINE e == Head(todo)
           x == EndScope(r, "array", e.id)
           n == Len(r.scopes)
           c == Do("done")
           u == <<c>>
           lo == Bound(ms, handled - 1)
           hi == Bound(ms, handled)
           id == msg.scope
<1>1. /\ Formed(msg) /\ ~msg.ok /\ Ok(r) /\ Inside(in, r, lo, hi, id) /\ Bounds(in, lo, hi)
      /\ r.goal = NoGoal /\ state = "handling" /\ e.op = "close"
  BY HandlingIs DEF CloseParams, Handling
<1>2. Ready(r, todo, id) /\ Identified(ms, msg, handled)
  <2>1. Head(todo).op \notin HeaderOps /\ Head(todo).op \notin DumpOps
    BY <1>1 DEF HeaderOps, DumpOps
  <2>2. QED
    BY <1>1, <2>1, BodyStep
<1>3. UNCHANGED <<ms, in, posted, handled>> /\ msg' = msg /\ Proceed(x, u)
  BY DEF CloseParams, InMessage
<1>4. ~Reads(e) /\ Holds(e) /\ ScopeOf(e) = "array"
  BY <1>1 DEF Reads, Holds, ScopeOf
<1>5. Framed(todo, r.scopes, n, id)
  BY <1>2, <1>4, ReadyOther
<1>6. EntryOk(e, id) /\ n \in Nat /\ n \in 1 .. n /\ r.scopes[n].id = e.id /\ r.scopes[n].type = "array"
  BY <1>4, <1>5, FramedHead
<1>7. e.id # id
  BY <1>4, <1>6 DEF EntryOk
<1>8. Inside(in, x, lo, hi, id) /\ n \in 2 .. n /\ Ends(r, x, n) /\ Ok(x)
  <2> DEFINE g == e.id
             type == "array"
  <2>1. g # id /\ x = EndScope(r, type, g)
    BY <1>7
  <2>2. r.scopes[n].id = g /\ r.scopes[n].type = type
    BY <1>6
  <2> HIDE DEF g, x, type
  <2>3. /\ Inside(in, x, lo, hi, id)
        /\ \A i \in 1 .. Len(r.scopes) :
              r.scopes[i].id = g /\ r.scopes[i].type = type =>
                 i \in 2 .. Len(r.scopes) /\ Ends(r, x, i) /\ Ok(x)
    BY <1>1, <2>1, EndInside
  <2>4. QED
    BY <1>6, <2>2, <2>3
<1>9. r \in ReaderType /\ n - 1 \in Int
  BY <1>1, <1>6 DEF Inside
<1> HIDE DEF x
<1>10. x.goal = n - 1 /\ x.scopes = r.scopes
  BY <1>8, <1>9 DEF ReaderType, Ends
<1>11. InBody(ms, x, u, msg, handled)
  <2>1. n - 1 \in 1 .. Len(r.scopes) - 1 /\ n - 1 \in 1 .. Len(r.scopes) /\ n - 1 # NoGoal
    BY <1>6, <1>8 DEF NoGoal
  <2>2. EntryOk(c, id) /\ Bottom(c) /\ ~Holds(c)
    BY DoneIs
  <2> HIDE DEF c
  <2>3. Framed(<<c>>, x.scopes, n - 1, id)
    BY <1>6, <1>10, <2>1, <2>2, FramedLast
  <2>4. Data(x, u, id)
    BY <1>10, <2>1, <2>3 DEF Data
  <2>5. QED
    BY <1>2, <2>4 DEF InBody
<1>12. InBounds(ms, in, x, msg, handled)
  BY <1>8 DEF InBounds
<1> HIDE DEF u
<1>13. QED
  BY <1>1, <1>2, <1>3, <1>11, <1>12, StepKeeps

\* The array of the message is left at its end.
LEMMA DoneKeeps == ASSUME RpcInv, Done PROVE RpcInv'
<1>1. /\ handled \in 1 .. Len(ms) /\ Formed(msg) /\ ~msg.ok /\ Ok(r) /\ InBounds(ms, in, r, msg, handled)
      /\ r.goal = NoGoal /\ state = "handling" /\ Head(todo).op = "done"
  BY HandlingIs DEF Done, Handling
<1>2. Identified(ms, msg, handled)
  <2>1. Head(todo).op \notin HeaderOps
    BY <1>1 DEF HeaderOps
  <2>2. QED
    BY <1>1, <2>1, BodyStep
<1>3. /\ state' = "closing" /\ r' = Ending(r) /\ todo' = <<>> /\ msg' = [msg EXCEPT !.ok = TRUE]
      /\ UNCHANGED <<ms, in, posted, handled, replies>>
  BY DEF Done, InMessage
<1>4. Ok(Ending(r)) /\ Ending(r).goal = 0 /\ InBounds(ms, in, Ending(r), msg, handled)
  BY <1>1, RecoverIs
<1>5. Formed(msg') /\ msg'.scope = msg.scope /\ msg'.type = msg.type /\ msg'.id = msg.id
  BY <1>1, <1>3 DEF Formed
<1>6. Identified(ms, msg', handled) /\ InBounds(ms, in, Ending(r), msg', handled)
  BY <1>2, <1>4, <1>5 DEF Identified, InBounds
<1>7. Leaves(ms, in, r', todo', msg', handled)
  BY <1>3, <1>4, <1>6 DEF Leaves
<1>8. Course(ms, in, state', r', todo', msg', handled)
  <2>1. handled # 0 /\ handled \in 0 .. Len(ms)
    BY <1>1
  <2>2. QED
    BY <1>3, <1>5, <1>7, <2>1 DEF Course, Formed
<1>9. Replied(ms, state', msg', handled, posted, replies)
  <2>1. StillOpen(state, msg) /\ InHand(state)
    BY <1>1 DEF StillOpen, InHand
  <2>2. Replied(ms, state, msg, handled, posted, replies)
    BY DEF RpcInv
  <2>3. QED
    BY <2>1, <2>2, RepliedKept
<1>10. Stream(ms, in)
  BY DEF RpcInv
<1>11. QED
  BY <1>3, <1>8, <1>9, <1>10 DEF RpcInv

\* A request that waits for a reply is one of those that waited at first.
Requested == requests \subseteq DOMAIN Waiting

\* The result of a request, or the object of an error
LEMMA ResultKeeps == ASSUME RpcInv, Requested, ReadResult PROVE RpcInv'
<1> DEFINE waits  == msg.id \in requests
           result == IF waits /\ Waiting[msg.id].t # "void" THEN Restore(Waiting[msg.id], <<>>) ELSE SkipValue
           error  == IF waits THEN Dump ELSE SkipValue
           d == Do("done")
           k == SkipValue
           lo == Bound(ms, handled - 1)
           hi == Bound(ms, handled)
           id == msg.scope
           h == handled
<1>1. /\ h \in 1 .. Len(ms) /\ Formed(msg) /\ ~msg.ok /\ Ok(r) /\ Inside(in, r, lo, hi, id)
      /\ Bounds(in, lo, hi)
  BY HandlingIs DEF ReadResult, Handling
<1>2. /\ Heading(ms, in, r, todo, msg, h) /\ Head(todo).op = "result" /\ r.goal = NoGoal
      /\ Len(r.scopes) = 1 /\ r.scopes[1].type = "array" /\ ~InParams /\ state = "handling"
  <2>1. "result" \in HeaderOps /\ Handling("result")
    BY DEF HeaderOps, ReadResult
  <2>2. QED
    BY <2>1, HeaderIs
<1>3. todo = <<Do("result")>>
  BY <1>2, HeadingIs
<1>5. UNCHANGED <<ms, in, posted, handled>> /\ Formed(msg') /\ msg'.scope = msg.scope /\ ~msg'.ok
  <2>1. UNCHANGED <<ms, in, posted, handled>> /\ (msg' = msg \/ msg' = [msg EXCEPT !.type = "expired"])
    BY DEF ReadResult, InMessage
  <2>2. QED
    BY <1>1, <2>1 DEF Formed
<1>4. Identified(ms, msg, h) /\ Identified(ms, msg', h)
  <2>1. Identified(ms, msg, h)
    BY <1>2, <1>3 DEF Heading, Do
  <2>2. msg' = msg \/ msg' = [msg EXCEPT !.type = "expired"]
    BY DEF ReadResult
  <2>3. msg' = msg \/ msg'.type = "expired"
    BY <1>1, <2>2 DEF Formed
  <2>4. QED
    BY <2>1, <2>3 DEF Identified
<1>6. EntryOk(d, id) /\ Bottom(d) /\ ~Holds(d)
  BY DoneIs
<1>7. EntryOk(k, id) /\ ~Holds(k) /\ ~Reads(k)
  BY DEF EntryOk, Holds, Reads, SkipValue, Ops
<1>8. EntryOk(result, id) /\ ~Holds(result)
  <2>1. CASE waits /\ Waiting[msg.id].t # "void"
    <3>1. Waiting[msg.id] \in Types
      BY <2>1, TypesAssumption DEF Requested
    <3>2. QED
      BY <2>1, <3>1 DEF EntryOk, Holds, Restore, Ops
  <2>2. CASE ~(waits /\ Waiting[msg.id].t # "void")
    BY <1>7, <2>2
  <2>3. QED
    BY <2>1, <2>2
<1>9. EntryOk(error, id) /\ ~Holds(error)
  BY <1>7, DumpIs
<1>10. \/ Proceed(Skip(in, r), <<result, d>>)
       \/ Proceed(r, <<error, k, d>>)
  BY DEF ReadResult
<1> HIDE DEF result, error, d, k
<1>11. Framed(<<d>>, r.scopes, 1, id) /\ IsList(<<d>>)
  <2>1. 1 \in 1 .. Len(r.scopes) /\ Len(r.scopes) \in Nat
    BY <1>2
  <2>2. Framed(<<d>>, r.scopes, 1, id)
    BY <1>6, <2>1, FramedLast
  <2>3. QED
    BY <2>2, FramedLoose
<1>12. CASE Proceed(Skip(in, r), <<result, d>>)
  <2> DEFINE x == Skip(in, r)
             u == <<result, d>>
             v == <<result>> \o <<d>>
  <2>1. u = v
    BY TwoTuple
  <2> HIDE DEF u
  <2>2. Framed(v, r.scopes, Len(r.scopes), id)
    BY <1>2, <1>8, <1>11, FramedOne
  <2>3. Inside(in, x, lo, hi, id) /\ (Ok(x) => Data(x, u, id))
    BY <1>1, <1>2, <2>1, <2>2, SkipDone
  <2>4. InBounds(ms, in, x, msg, h) /\ (Ok(x) => InBody(ms, x, u, msg', h))
    BY <1>4, <1>5, <2>3 DEF InBounds, InBody
  <2>5. Proceed(x, u)
    BY <1>12 DEF u
  <2> HIDE DEF x
  <2>6. QED
    BY <1>1, <1>2, <1>5, <2>4, <2>5, StepKeeps
<1>13. CASE Proceed(r, <<error, k, d>>)
  <2> DEFINE u == <<error, k, d>>
             v == <<k>> \o <<d>>
  <2>1. u = <<error>> \o v
    BY <1>11, ThreeTuple
  <2> HIDE DEF u
  <2>2. Framed(v, r.scopes, 1, id)
    BY <1>7, <1>11, FramedOne
  <2>3. Framed(<<error>> \o v, r.scopes, 1, id)
    BY <1>2, <1>9, <2>2, FramedOne
  <2>4. Data(r, u, id)
    BY <1>2, <2>1, <2>3 DEF Data, Ready
  <2>5. InBounds(ms, in, r, msg, h) /\ InBody(ms, r, u, msg', h)
    BY <1>1, <1>4, <1>5, <2>4 DEF InBounds, InBody
  <2>6. Proceed(r, u)
    BY <1>13 DEF u
  <2>7. QED
    BY <1>1, <1>2, <1>5, <2>5, <2>6, StepKeeps
<1>14. QED
  BY <1>10, <1>12, <1>13

\* Behind the header the reader is asked for something, or scopes are left.
LEMMA DataIs ==
    ASSUME NEW x, NEW t, NEW id
    PROVE  /\ x.goal = NoGoal /\ Ready(x, t, id) => Data(x, t, id)
           /\ (/\ x.goal # NoGoal /\ x.goal \in 1 .. Len(x.scopes) - 1
               /\ Framed(t, x.scopes, x.goal, id)) => Data(x, t, id)
<1>1. CASE x.goal = NoGoal
  BY <1>1, Zenon DEF Data
<1>2. CASE x.goal # NoGoal
  BY <1>2, Zenon DEF Data
<1>3. QED
  BY <1>1, <1>2

\* Where the loop leaves scopes, the entries behind it are at the depth that it leads to.
LEMMA BodyBreaks ==
    ASSUME NEW m, NEW x, NEW t, NEW g, NEW h, InBody(m, x, t, g, h), x.goal # NoGoal,
           NEW y, Alike(x.scopes, y.scopes, x.goal), Len(y.scopes) \in Nat, Len(x.scopes) \in Nat,
           \/ y.goal = NoGoal /\ Len(y.scopes) = x.goal
           \/ y.goal = x.goal /\ y.goal \in 0 .. Len(y.scopes) - 1
    PROVE  InBody(m, y, t, g, h) /\ x.goal \in 1 .. Len(x.scopes) - 1
<1> DEFINE id == g.scope
<1>1. Identified(m, g, h) /\ (Data(x, t, id) \/ Cleanup(x, t, id))
  BY DEF InBody
<1>2. x.goal \in 1 .. Len(x.scopes) - 1
  BY <1>1 DEF Data, Cleanup
<1>3. x.goal <= Len(y.scopes) /\ (y.goal # NoGoal => y.goal \in 1 .. Len(y.scopes) - 1)
  BY <1>2
<1>4. CASE Data(x, t, id)
  <2>1. Framed(t, x.scopes, x.goal, id)
    BY <1>4 DEF Data
  <2>2. Framed(t, y.scopes, x.goal, id)
    BY <1>3, <2>1, FramedScopes
  <2>3. ASSUME y.goal = NoGoal PROVE Data(y, t, id)
    <3>1. Ready(y, t, id)
      BY <2>2, <2>3 DEF Ready, NoGoal
    <3>2. QED
      BY <2>3, <3>1, DataIs
  <2>4. ASSUME y.goal # NoGoal PROVE Data(y, t, id)
    <3>1. y.goal \in 1 .. Len(y.scopes) - 1 /\ Framed(t, y.scopes, y.goal, id)
      BY <1>3, <2>2, <2>4
    <3>2. QED
      BY <2>4, <3>1, DataIs
  <2>5. Data(y, t, id)
    BY <2>3, <2>4
  <2>6. QED
    BY <1>1, <1>2, <2>5 DEF InBody
<1>5. CASE Cleanup(x, t, id)
  <2>1. Cleanup(y, t, id)
    BY <1>3, <1>5 DEF Cleanup
  <2>2. QED
    BY <1>1, <1>2, <2>1 DEF InBody
<1>6. QED
  BY <1>1, <1>4, <1>5

\* A turn of the loop inside of the message
LEMMA BreakIn == ASSUME RpcInv, Break, ~Dangles(r), state = "handling" PROVE RpcInv'
<1> DEFINE y == BreakTurn(in, r)
           lo == Bound(ms, handled - 1)
           hi == Bound(ms, handled)
           id == msg.scope
<1>1. /\ Formed(msg) /\ ~msg.ok /\ Ok(r) /\ Inside(in, r, lo, hi, id) /\ Bounds(in, lo, hi)
      /\ Heading(ms, in, r, todo, msg, handled) \/ InBody(ms, r, todo, msg, handled)
  BY HandlingIs
<1>2. r.goal # NoGoal /\ Proceed(y, todo) /\ msg' = msg /\ UNCHANGED <<ms, in, posted, handled>>
  BY DEF Break, InMessage, BreakStep
<1>3. InBody(ms, r, todo, msg, handled)
  BY <1>1, <1>2 DEF Heading
<1>4. Identified(ms, msg, handled) /\ r.goal \in 1 .. Len(r.scopes) - 1
  BY <1>2, <1>3 DEF InBody, Data, Cleanup
<1>5. Len(r.scopes) \in Nat /\ r.goal \in 0 .. Len(r.scopes) - 1 /\ r.goal # 0
  <2>1. Asked(in, r)
    BY <1>1, InsideAsked
  <2>2. Len(r.scopes) \in Nat
    BY <2>1, TopIs
  <2>3. QED
    BY <1>4, <2>2
<1> HIDE DEF y
<1>6. /\ Alike(r.scopes, y.scopes, r.goal)
      /\ ~Ok(y) => Inside(in, y, lo, hi, id)
      /\ Ok(y) /\ y.goal = NoGoal => Len(y.scopes) = r.goal
      /\ Ok(y) /\ y.goal # NoGoal => y.goal = r.goal /\ y.goal \in 0 .. Len(y.scopes) - 1
      /\ Ok(y) /\ (r.goal # 0 \/ y.goal # NoGoal) => Inside(in, y, lo, hi, id)
  BY <1>1, <1>5, BreakInside DEF y
<1>7. Inside(in, y, lo, hi, id)
  BY <1>5, <1>6
<1>8. InBounds(ms, in, y, msg, handled)
  BY <1>7 DEF InBounds
<1>9. ASSUME Ok(y) PROVE InBody(ms, y, todo, msg', handled)
  <2>1. Len(y.scopes) \in Nat
    <3>1. Asked(in, y)
      BY <1>7, <1>9, InsideAsked
    <3>2. QED
      BY <3>1, TopIs
  <2>2. \/ y.goal = NoGoal /\ Len(y.scopes) = r.goal
        \/ y.goal = r.goal /\ y.goal \in 0 .. Len(y.scopes) - 1
    BY <1>6, <1>9
  <2>3. InBody(ms, y, todo, msg, handled)
    BY <1>2, <1>3, <1>5, <1>6, <2>1, <2>2, BodyBreaks
  <2>4. QED
    BY <1>2, <2>3
<1>10. state = "handling"
  OBVIOUS
<1>11. QED
  BY <1>1, <1>2, <1>4, <1>8, <1>9, <1>10, StepKeeps

\* A message whose array is left
LEMMA LeavingIs ==
    ASSUME RpcInv, state \in {"closing", "recovering"}
    PROVE  /\ handled \in 1 .. Len(ms) /\ handled \in 0 .. Len(ms) /\ handled \in Nat \ {0} /\ Formed(msg)
           /\ Leaves(ms, in, r, todo, msg, handled) /\ Ok(r) /\ todo = <<>>
           /\ Bounds(in, Bound(ms, handled - 1), Bound(ms, handled))
<1>1. Len(ms) \in Nat
  <2>1. Connection(ms)
    BY DEF RpcInv, Stream
  <2>2. QED
    BY <2>1, MessageIs, BoundsAssumption
<1>2. /\ handled \in 0 .. Len(ms) /\ handled # 0 /\ Formed(msg)
      /\ Leaves(ms, in, r, todo, msg, handled)
  BY DEF RpcInv, Course, Formed
<1>3. handled \in 1 .. Len(ms) /\ handled \in Nat \ {0}
  BY <1>1, <1>2
<1>4. Bounds(in, Bound(ms, handled - 1), Bound(ms, handled))
  BY <1>3, StreamIs DEF RpcInv
<1>5. QED
  BY <1>2, <1>3, <1>4 DEF Leaves

\* A turn of the loop that leaves the message
LEMMA BreakOut ==
    ASSUME RpcInv, Break, ~Dangles(r), state \in {"closing", "recovering"} PROVE RpcInv'
<1> DEFINE y == BreakTurn(in, r)
           lo == Bound(ms, handled - 1)
           hi == Bound(ms, handled)
           id == msg.scope
<1>1. /\ handled \in 1 .. Len(ms) /\ handled \in 0 .. Len(ms) /\ handled # 0 /\ Formed(msg)
      /\ Leaves(ms, in, r, todo, msg, handled) /\ Ok(r) /\ todo = <<>> /\ Bounds(in, lo, hi)
  BY LeavingIs
<1>2. r.goal # NoGoal /\ Proceed(y, todo) /\ msg' = msg /\ UNCHANGED <<ms, in, posted, handled>>
  BY DEF Break, InMessage, BreakStep
<1>3. Inside(in, r, lo, hi, id) /\ r.goal = 0
  BY <1>1, <1>2 DEF Leaves, InBounds
<1>4. r.goal \in 0 .. Len(r.scopes) - 1
  <2>1. Asked(in, r)
    BY <1>1, <1>3, InsideAsked
  <2>2. Len(r.scopes) \in Nat /\ Len(r.scopes) # 0
    BY <2>1, TopIs
  <2>3. QED
    BY <1>3, <2>2
<1>5. msg.ok => Identified(ms, msg, handled)
  BY <1>1 DEF Leaves
<1> HIDE DEF y
<1>6. /\ ~Ok(y) => Inside(in, y, lo, hi, id)
      /\ Ok(y) /\ y.goal # NoGoal => y.goal = r.goal /\ y.goal \in 0 .. Len(y.scopes) - 1
      /\ Ok(y) /\ (r.goal # 0 \/ y.goal # NoGoal) => Inside(in, y, lo, hi, id)
      /\ Ok(y) /\ r.goal = 0 /\ y.goal = NoGoal =>
            y \in ReaderType /\ y.scopes = <<>> /\ Right(in, y, lo, hi)
  BY <1>1, <1>3, <1>4, BreakInside DEF y
<1>7. Replied(ms, state, msg, handled, posted, replies) /\ Stream(ms, in)
  BY DEF RpcInv
<1>8. CASE Ok(y)
  <2>1. r' = y /\ todo' = todo /\ UNCHANGED <<state, replies>>
    BY <1>2, <1>8 DEF Proceed
  <2>2. Leaves(ms, in, y, todo, msg, handled)
    <3>1. CASE y.goal = NoGoal
      BY <1>1, <1>3, <1>5, <1>6, <1>8, <3>1 DEF Leaves
    <3>2. CASE y.goal # NoGoal
      <4>1. InBounds(ms, in, y, msg, handled) /\ y.goal = 0
        BY <1>3, <1>6, <1>8, <3>2 DEF InBounds
      <4>2. QED
        BY <1>1, <1>5, <1>8, <4>1 DEF Leaves
    <3>3. QED
      BY <3>1, <3>2
  <2>3. Course(ms, in, state, y, todo, msg, handled)
    BY <1>1, <2>2 DEF Course, Formed
  <2>4. QED
    BY <1>2, <1>7, <2>1, <2>3 DEF RpcInv
<1>9. CASE ~Ok(y)
  <2>1. InBounds(ms, in, y, msg, handled)
    BY <1>6, <1>9 DEF InBounds
  <2>2. ~InParams
    BY <1>1 DEF InParams
  <2>3. Threw(ms, in, state', r', todo', msg, handled) /\ replies' = replies
    BY <1>2, <1>9, <2>1, <2>2, ProceedIs
  <2>4. Course(ms, in, state', r', todo', msg, handled) /\ state' # "handling"
    BY <1>1, <1>5, <2>3, ThrewCourse DEF Formed
  <2>5. (StillOpen(state', msg) => StillOpen(state, msg)) /\ InHand(state)
    BY <2>4 DEF StillOpen, InHand
  <2>6. Replied(ms, state', msg, handled, posted, replies)
    BY <1>7, <2>5, RepliedKept
  <2>7. QED
    BY <1>2, <1>7, <2>3, <2>4, <2>6 DEF RpcInv
<1>10. QED
  BY <1>8, <1>9

\* A turn of the loop through a pointer that dangles is the last.
LEMMA BreakUndefined == ASSUME RpcInv, Break, Dangles(r) PROVE RpcInv'
<1> DEFINE y == BreakStep(in, r)
<1>1. r \in ReaderType /\ Ok(r) /\ handled \in 0 .. Len(ms) /\ Formed(msg)
  <2>1. CASE state = "handling"
    <3>1. /\ handled \in Nat /\ Len(ms) \in Nat /\ handled \in 1 .. Len(ms) /\ Formed(msg) /\ Ok(r)
          /\ InBounds(ms, in, r, msg, handled)
      BY <2>1, HandlingIs
    <3>2. r \in ReaderType
      BY <3>1 DEF InBounds, Inside
    <3>3. QED
      BY <3>1, <3>2
  <2>2. CASE state \in {"closing", "recovering"}
    <3>1. /\ handled \in 0 .. Len(ms) /\ Formed(msg) /\ Ok(r)
          /\ Leaves(ms, in, r, todo, msg, handled)
      BY <2>2, LeavingIs
    <3>2. r \in ReaderType
      BY <3>1 DEF Leaves, InBounds, Inside
    <3>3. QED
      BY <3>1, <3>2
  <2>3. QED
    BY <2>1, <2>2 DEF Break
<1>2. y.err = "undefined" /\ y.scopes = r.scopes
  BY <1>1, DanglingIs
<1>3. Proceed(y, todo) /\ msg' = msg /\ UNCHANGED <<ms, in, posted, handled>>
  BY DEF Break, InMessage
<1> HIDE DEF y
<1>4. state' = "undefined" /\ r' = y /\ replies' = replies
  BY <1>2, <1>3 DEF Proceed, AfterThrow, Ok
<1>5. Course(ms, in, state', r', todo', msg, handled)
  BY <1>1, <1>4 DEF Course, Formed
<1>6. Replied(ms, state', msg, handled, posted, replies)
  <2>1. ~StillOpen(state', msg) /\ ~InHand(state')
    BY <1>4 DEF StillOpen, InHand
  <2>2. QED
    BY <2>1, RepliedKept DEF RpcInv
<1>7. QED
  BY <1>3, <1>4, <1>5, <1>6 DEF RpcInv

\* A turn of a loop
LEMMA BreakKeeps == ASSUME RpcInv, Break PROVE RpcInv'
  BY BreakIn, BreakOut, BreakUndefined DEF Break

\* The function returns, and the reader is where the next message begins.
LEMMA ReturnKeeps == ASSUME RpcInv, Return PROVE RpcInv'
<1> DEFINE lo == Bound(ms, handled - 1)
           hi == Bound(ms, handled)
           h == handled
           new == [i |-> handled, type |-> msg.type, id |-> msg.id, method |-> msg.method, buffer |-> buffer]
<1>1. /\ h \in 1 .. Len(ms) /\ h \in 0 .. Len(ms) /\ h \in Nat \ {0} /\ Formed(msg)
      /\ Leaves(ms, in, r, todo, msg, h) /\ Ok(r) /\ Bounds(in, lo, hi)
  BY LeavingIs DEF Return
<1>2. r.goal = NoGoal /\ state \in {"closing", "recovering"}
  BY DEF Return
<1>3. r \in ReaderType /\ r.scopes = <<>> /\ Right(in, r, lo, hi)
  BY <1>1, <1>2 DEF Leaves, NoGoal
<1>4. r.pos - 1 = hi
  <2> DEFINE q == r.pos - 1
  <2>1. InStep(in, r) /\ lo < q /\ q <= hi /\ q \in Nat
    BY <1>3 DEF Right, ReaderType
  <2>2. Remaining(SubSeq(in, 1, q)) = <<>>
    BY <1>3, <2>1, Between
  <2>3. lo \in Nat /\ hi \in Nat /\ \A p \in Nat : lo < p /\ p < hi => Remaining(SubSeq(in, 1, p)) # <<>>
    BY <1>1 DEF Bounds
  <2> HIDE DEF q
  <2>4. q = hi
    BY <2>1, <2>2, <2>3
  <2>5. QED
    BY <2>4 DEF q
<1>5. Waits(ms, in, r, h)
  BY <1>1, <1>2, <1>3, <1>4 DEF Waits, Right
<1>6. /\ state' = "waiting" /\ msg' = NoMsg
      /\ UNCHANGED <<ms, in, r, todo, handled, replies>>
  BY <1>1 DEF Return
<1>7. Course(ms, in, state', r, todo, msg', h)
  BY <1>1, <1>5, <1>6 DEF Course, NoMsg
<1>8. Replied(ms, state, msg, h, posted, replies) /\ Stream(ms, in)
  BY DEF RpcInv
<1>9. /\ replies \in Seq(Nat)
      /\ \A i, j \in 1 .. Len(replies) : replies[i] = replies[j] => i = j
      /\ \A i \in 1 .. Len(replies) : replies[i] \in 1 .. h /\ Asks(ms, replies[i])
      /\ StillOpen(state, msg) => Unanswered(replies, h)
      /\ \A p \in posted : /\ p.i \in 1 .. h /\ (InHand(state) => p.i # h)
                           /\ p.type = "request" => Asks(ms, p.i) /\ Unanswered(replies, p.i)
      /\ \A p, q \in posted : p.i = q.i => p = q
  BY <1>8 DEF Replied
<1>10. InHand(state) /\ ~InHand(state') /\ ~StillOpen(state', msg')
  BY <1>2, <1>6 DEF InHand, StillOpen
<1>11. CASE posted' = posted
  BY <1>6, <1>7, <1>8, <1>9, <1>10, <1>11 DEF RpcInv, Replied
<1>12. CASE Posts /\ posted' = posted \union {new}
  <2>1. msg.ok
    BY <1>12 DEF Posts
  <2>2. Identified(ms, msg, h) /\ Unanswered(replies, h)
    BY <1>1, <1>2, <1>9, <2>1 DEF Leaves, StillOpen
  <2>3. new.i = h /\ new.type = msg.type /\ h \in 1 .. h
    BY <1>1
  <2>4. new.type = "request" => Asks(ms, new.i) /\ Unanswered(replies, new.i)
    BY <2>2, <2>3 DEF Identified
  <2> HIDE DEF new
  <2>5. \A p \in posted' : /\ p.i \in 1 .. h
                           /\ p.type = "request" => Asks(ms, p.i) /\ Unanswered(replies, p.i)
    BY <1>9, <1>12, <2>3, <2>4
  <2>6. \A p, q \in posted' : p.i = q.i => p = q
    BY <1>9, <1>10, <1>12, <2>3
  <2>7. Replied(ms, state', msg', h, posted', replies)
    BY <1>9, <1>10, <2>5, <2>6 DEF Replied
  <2>8. QED
    BY <1>6, <1>7, <1>8, <2>7 DEF RpcInv
<1>13. QED
  BY <1>11, <1>12 DEF Return

\* The array of a message is the only scope when it is entered.
LEMMA FirstScope ==
    ASSUME NEW s \in Seq(ElementType(Values)), NEW x \in ReaderType, Ok(x), x.scopes = <<>>, InStep(s, x),
           x.goal = NoGoal, x.pos <= Len(s) + 1, NEW z, z = BeginArray(s, x), Ok(z)
    PROVE  /\ z \in ReaderType /\ z.goal = NoGoal /\ Len(z.scopes) = 1 /\ z.pos = x.pos + 1
           /\ z.pos <= Len(s) + 1 /\ InStep(s, z) /\ Nested(z) /\ z.scopes # <<>>
           /\ z.scopes[1].id = z.gen /\ z.scopes[1].type = "array"
<1>1. ReaderInv(s, x)
  BY DEF ReaderInv, Placed, Leaving
<1>2. ReaderInv(s, z)
  BY <1>1, BeginArrayKeeps
<1>3. z \in ReaderType /\ z.pos <= Len(s) + 1 /\ InStep(s, z)
  BY <1>2 DEF ReaderInv, Placed
<1> DEFINE t == Take(s, x, {"arr"})
           y == StepContext(t)
           n == s[x.pos].n
           scope == [type |-> "array", key |-> FALSE, id |-> y.gen + 1, left |-> n]
<1>4. VerifyNotKey(x) = x
  BY DEF VerifyNotKey, InScope
<1>5. z = IF Ok(y) THEN NewScope(y, "array", n) ELSE y
  BY <1>4 DEF BeginArray, Opened
<1>6. Ok(y) /\ z = NewScope(y, "array", n)
  BY <1>5
<1>7. Ok(t) /\ t = Advance(x)
  <2>1. Ok(t)
    BY <1>6, StepContextThrows
  <2>2. ~Ok(Throw(x, "fatal")) /\ ~Ok(Throw(x, "recoverable"))
    BY Throws
  <2>3. QED
    BY <2>1, <2>2 DEF Take
<1>8. t = [x EXCEPT !.pos = @ + 1]
  BY <1>7 DEF Advance
<1> HIDE DEF t
<1>9. t \in ReaderType /\ t.scopes = <<>> /\ t.pos = x.pos + 1 /\ t.goal = NoGoal
  BY <1>8 DEF ReaderType
<1>10. y = t
  BY <1>9 DEF StepContext
<1> HIDE DEF y
<1> DEFINE h == Grown(y)
<1>18. h \in ReaderType /\ h.pos = y.pos /\ h.scopes = <<>> /\ h.gen = y.gen /\ h.goal = y.goal
  BY <1>9, <1>10, GrownIs
<1>11. z = [h EXCEPT !.gen = @ + 1, !.scopes = Append(@, scope)]
  BY <1>6 DEF NewScope
<1> HIDE DEF h
<1>12. /\ z.gen = y.gen + 1 /\ z.pos = y.pos /\ z.goal = y.goal /\ z.scopes = Append(<<>>, scope)
  <2> DEFINE c == scope
  <2>2. z = [h EXCEPT !.gen = @ + 1, !.scopes = Append(@, c)]
    BY <1>11
  <2> HIDE DEF c
  <2>3. /\ z.gen = y.gen + 1 /\ z.pos = y.pos /\ z.goal = y.goal
        /\ z.scopes = Append(<<>>, c)
    BY <1>18, <2>2 DEF ReaderType
  <2>4. QED
    BY <2>3 DEF c
<1>13. Len(z.scopes) = 1 /\ z.scopes[1] = scope
  BY <1>12
<1>14. scope.id = z.gen /\ scope.type = "array"
  BY <1>12
<1> HIDE DEF scope
<1>15. z.scopes # <<>> /\ z.gen \in Nat
  BY <1>3, <1>13 DEF ReaderType
<1>16. Nested(z)
  BY <1>13, <1>14, <1>15 DEF Nested
<1>17. QED
  BY <1>3, <1>9, <1>10, <1>12, <1>13, <1>14, <1>15, <1>16

\* The next message is begun.
LEMMA BeginKeeps == ASSUME RpcInv, Begin PROVE RpcInv'
<1> DEFINE x == BeginArray(in, r)
           h == handled
           k == handled + 1
           lo == Bound(ms, k - 1)
           hi == Bound(ms, k)
<1>1. /\ state = "waiting" /\ r.pos <= Len(in) /\ r' = x /\ todo' = <<Do("type")>>
      /\ state' = (IF Ok(x) THEN "handling" ELSE "expired")
      /\ msg' = [NoMsg EXCEPT !.scope = x.gen] /\ handled' = k
      /\ UNCHANGED <<ms, in, posted, replies>>
  BY DEF Begin, buffers
<1>2. Connection(ms) /\ in = Bytes(ms) /\ Stream(ms, in)
  BY DEF RpcInv, Stream
<1>3. Len(ms) \in Nat /\ h \in 0 .. Len(ms) /\ Waits(ms, in, r, h)
  <2>1. Len(ms) \in Nat
    BY <1>2, MessageIs, BoundsAssumption
  <2>2. QED
    BY <1>1, <2>1 DEF RpcInv, Course
<1>4. /\ r \in ReaderType /\ Ok(r) /\ r.goal = NoGoal /\ r.scopes = <<>> /\ InStep(in, r)
      /\ r.pos - 1 = Bound(ms, h)
  BY <1>3 DEF Waits
<1>5. Bound(ms, Len(ms)) = Len(in)
  BY <1>2 DEF Bytes, Bound
<1>6. k \in 1 .. Len(ms) /\ k \in 0 .. Len(ms) /\ k \in Nat /\ k # 0 /\ k - 1 = h /\ h \in Nat
  <2>1. r.pos \in Nat
    BY <1>4 DEF ReaderType
  <2>2. Len(in) \in Nat
    BY <1>2, <1>3, PrefixIs DEF Bytes, Bound
  <2>3. h # Len(ms)
    BY <1>1, <1>4, <1>5, <2>1, <2>2
  <2>4. QED
    BY <1>3, <2>3
<1> HIDE DEF k
<1>7. /\ Bounds(in, lo, hi) /\ lo \in Nat /\ hi = lo + Len(ms[k].elements)
      /\ Len(ms[k].elements) \in Nat \ {0} /\ hi <= Len(in)
  BY <1>2, <1>6, StreamIs
<1>8. Formed(msg') /\ msg'.scope = x.gen /\ ~msg'.ok
  BY <1>1 DEF Formed, NoMsg
<1> HIDE DEF x
<1>9. ASSUME Ok(x) PROVE Handles(ms, in, x, <<Do("type")>>, msg', k)
  <2>1. in \in Seq(ElementType(Values)) /\ Len(in) \in Nat
    BY <1>7 DEF Bounds
  <2>2. r.pos \in Nat /\ r.pos <= Len(in) + 1
    BY <1>1, <1>4, <2>1 DEF ReaderType
  <2>3. /\ x \in ReaderType /\ x.goal = NoGoal /\ Len(x.scopes) = 1 /\ x.pos = r.pos + 1
        /\ x.pos <= Len(in) + 1 /\ InStep(in, x) /\ Nested(x) /\ x.scopes # <<>>
        /\ x.scopes[1].id = x.gen /\ x.scopes[1].type = "array"
    BY <1>4, <1>9, <2>1, <2>2, FirstScope DEF x
  <2>4. r.pos = lo + 1
    BY <1>4, <1>6, <1>7, <2>2
  <2>5. x.pos = lo + 2 /\ Right(in, x, lo, hi)
    <3> HIDE DEF lo, hi
    <3> DEFINE n == Len(ms[k].elements)
    <3>1. n \in Nat \ {0} /\ hi = lo + n /\ lo \in Nat
      BY <1>7
    <3> HIDE DEF n
    <3>2. x.pos = lo + 2
      BY <2>3, <2>4, <3>1
    <3>3. lo < x.pos - 1 /\ x.pos - 1 <= hi
      BY <3>1, <3>2
    <3>4. QED
      BY <2>3, <3>2, <3>3 DEF Right
  <2>6. Inside(in, x, lo, hi, x.gen)
    BY <2>3, <2>5 DEF Inside
  <2>7. InBounds(ms, in, x, msg', k)
    BY <1>8, <2>6 DEF InBounds
  <2>8. Heading(ms, in, x, <<Do("type")>>, msg', k)
    BY <2>3, <2>5 DEF Heading
  <2>9. QED
    BY <1>8, <1>9, <2>7, <2>8 DEF Handles
<1>10. Course(ms, in, state', x, <<Do("type")>>, msg', k)
  <2>1. CASE Ok(x)
    <3>1. state' = "handling"
      BY <1>1, <2>1
    <3>2. QED
      BY <1>6, <1>8, <1>9, <2>1, <3>1 DEF Course, Formed
  <2>2. CASE ~Ok(x)
    <3>1. state' = "expired"
      BY <1>1, <2>2
    <3>2. QED
      BY <1>6, <1>8, <3>1 DEF Course, Formed
  <2>3. QED
    BY <2>1, <2>2
<1>11. Replied(ms, state', msg', k, posted, replies)
  <2>1. /\ replies \in Seq(Nat)
        /\ \A i, j \in 1 .. Len(replies) : replies[i] = replies[j] => i = j
        /\ \A i \in 1 .. Len(replies) : replies[i] \in 1 .. h /\ Asks(ms, replies[i])
        /\ \A p \in posted : /\ p.i \in 1 .. h
                             /\ p.type = "request" => Asks(ms, p.i) /\ Unanswered(replies, p.i)
        /\ \A p, q \in posted : p.i = q.i => p = q
    BY DEF RpcInv, Replied
  <2>2. \A i \in 1 .. h : i \in 1 .. k /\ i # k
    BY <1>6 DEF k
  <2>3. Unanswered(replies, k)
    BY <2>1, <2>2 DEF Unanswered
  <2>4. \A p \in posted : /\ p.i \in 1 .. k /\ p.i # k
                          /\ p.type = "request" => Asks(ms, p.i) /\ Unanswered(replies, p.i)
    BY <2>1, <2>2
  <2>5. \A i \in 1 .. Len(replies) : replies[i] \in 1 .. k /\ Asks(ms, replies[i])
    BY <2>1, <2>2
  <2>6. QED
    BY <2>1, <2>3, <2>4, <2>5 DEF Replied
<1>12. QED
  BY <1>1, <1>2, <1>10, <1>11 DEF RpcInv

\* The reply of a handler is the first to its request.
LEMMA HandlerReply ==
    ASSUME NEW m, NEW st, st = "waiting", NEW g, NEW h \in Nat, NEW ps, NEW a, Replied(m, st, g, h, ps, a),
           NEW p \in ps, p.type = "request", NEW b, b = Append(a, p.i)
    PROVE  Replied(m, st, g, h, ps \ {p}, b)
<1> DEFINE i == p.i
<1>1. /\ a \in Seq(Nat)
      /\ \A j, k \in 1 .. Len(a) : a[j] = a[k] => j = k
      /\ \A j \in 1 .. Len(a) : a[j] \in 1 .. h /\ Asks(m, a[j])
      /\ \A q \in ps : /\ q.i \in 1 .. h
                       /\ q.type = "request" => Asks(m, q.i) /\ Unanswered(a, q.i)
      /\ \A q, o \in ps : q.i = o.i => q = o
  BY DEF Replied
<1>2. \A q \in ps \ {p} : q \in ps /\ q.i # i
  BY <1>1
<1>3. Asks(m, i) /\ Unanswered(a, i) /\ i \in 1 .. h
  BY <1>1
<1>4. i \in Nat /\ b = Append(a, i)
  BY <1>3
<1> HIDE DEF i
<1>5. /\ b \in Seq(Nat) /\ Len(a) \in Nat /\ Len(b) = Len(a) + 1
      /\ \A j, k \in 1 .. Len(b) : b[j] = b[k] => j = k
      /\ \A j \in 1 .. Len(b) : b[j] = i \/ (j \in 1 .. Len(a) /\ b[j] = a[j])
      /\ \A k : Unanswered(a, k) /\ k # i => Unanswered(b, k)
  BY <1>1, <1>3, <1>4, AnsweredIs, Zenon
<1>6. \A j \in 1 .. Len(b) : b[j] \in 1 .. h /\ Asks(m, b[j])
  BY <1>1, <1>3, <1>5
<1>7. \A q \in ps \ {p} : /\ q.i \in 1 .. h
                          /\ q.type = "request" => Asks(m, q.i) /\ Unanswered(b, q.i)
  BY <1>1, <1>2, <1>5
<1>8. ~StillOpen(st, g) /\ ~InHand(st)
  BY DEF StillOpen, InHand
<1>9. \A q, o \in ps \ {p} : q.i = o.i => q = o
  BY <1>1
<1>10. QED
  BY <1>5, <1>6, <1>7, <1>8, <1>9 DEF Replied

\* A handler or a completion has run.
LEMMA AnswerKeeps == ASSUME RpcInv, Answer PROVE RpcInv'
<1>1. PICK p \in posted :
         /\ p.type = "request" => state \in {"waiting", "expired"}
         /\ posted' = posted \ {p}
         /\ replies' = IF p.type = "request" /\ state = "waiting" THEN Append(replies, p.i) ELSE replies
         /\ pool' = IF p.type # "reply" THEN [pool EXCEPT ![p.method] = <<p.buffer>> \o @] ELSE pool
  BY DEF Answer
<1>2. UNCHANGED <<ms, in, r, state, todo, msg, handled>>
  BY DEF Answer
<1>3. Replied(ms, state, msg, handled, posted, replies)
  BY DEF RpcInv
<1>4. CASE p.type = "request" /\ state = "waiting"
  <2>1. handled \in Nat
    <3>1. Connection(ms) /\ handled \in 0 .. Len(ms)
      BY DEF RpcInv, Stream, Course
    <3>2. Len(ms) \in Nat
      BY <3>1, MessageIs, BoundsAssumption
    <3>3. QED
      BY <3>1, <3>2
  <2>2. replies' = Append(replies, p.i)
    BY <1>1, <1>4
  <2>3. Replied(ms, state, msg, handled, posted \ {p}, replies')
    BY <1>3, <1>4, <2>1, <2>2, HandlerReply
  <2>4. QED
    BY <1>1, <1>2, <2>3 DEF RpcInv
<1>5. CASE ~(p.type = "request" /\ state = "waiting")
  <2>1. replies' = replies
    BY <1>1, <1>5
  <2>2. Replied(ms, state, msg, handled, posted', replies)
    BY <1>1, <1>3 DEF Replied
  <2>3. QED
    BY <1>2, <2>1, <2>2 DEF RpcInv
<1>6. QED
  BY <1>4, <1>5

-----------------------------------------------------------------------------
(* The invariant                                                            *)

\* The depth that handle_single_message's reader reserves
LEMMA ReservedIs == ReservedDepth \in Nat
  BY DEF ReservedDepth

\* Nothing was read.
LEMMA InitInv == Init => RpcInv
<1> SUFFICES ASSUME Init PROVE RpcInv
  OBVIOUS
<1>1. Connection(ms)
  BY DEF Init, Connection
<1>2. DOMAIN ms = 1 .. Len(ms) /\ Len(ms) \in Nat
  BY <1>1, MessageIs, BoundsAssumption
<1>3. in = Bytes(ms)
  BY <1>2 DEF Init, Bytes, Prefix, Part
<1>4. Stream(ms, in)
  BY <1>1, <1>3 DEF Stream
<1>5. /\ r = Start(ReservedDepth) /\ state = "waiting" /\ msg = NoMsg /\ posted = {} /\ handled = 0 /\ replies = <<>>
  BY DEF Init
<1>6. Waits(ms, in, r, handled)
  <2> DEFINE x == Start(ReservedDepth)
  <2>1. in \in Seq(ElementType(Values))
    BY <1>2, <1>3, <1>1, PrefixIs DEF Bytes
  <2>2. ReaderInv(in, x) /\ x \in ReaderType /\ Ok(x)
    BY <2>1, ReservedIs, StartKeeps
  <2>3. InStep(in, x)
    BY <2>2 DEF ReaderInv, Placed
  <2>4. x.pos = 1 /\ x.scopes = <<>> /\ x.goal = NoGoal
    BY DEF Start
  <2>5. Bound(ms, 0) = 0
    BY PrefixEmpty DEF Bound
  <2>6. QED
    BY <1>5, <2>2, <2>3, <2>4, <2>5 DEF Waits
<1>7. Course(ms, in, state, r, todo, msg, handled)
  <2>1. 0 \in 0 .. Len(ms) /\ Formed(NoMsg)
    BY <1>2 DEF NoMsg, Formed
  <2>2. handled \in 0 .. Len(ms) /\ Formed(msg) /\ state = "waiting"
    BY <1>5, <2>1
  <2>3. QED
    BY <1>6, <2>2 DEF Course, Formed
<1>8. Replied(ms, state, msg, handled, posted, replies)
  <2>1. <<>> \in Seq(Nat) /\ Len(<<>>) = 0 /\ 1 .. 0 = {}
    OBVIOUS
  <2>2. QED
    BY <1>5, <2>1 DEF Replied, StillOpen
<1>9. QED
  BY <1>4, <1>7, <1>8 DEF RpcInv

\* Every step of handle_single_message, of a handler and of a completion keeps it.
LEMMA NextInv == RpcInv /\ Requested /\ [Next]_vars => RpcInv'
<1> SUFFICES ASSUME RpcInv, Requested, [Next]_vars PROVE RpcInv'
  OBVIOUS
<1>1. CASE Begin
  BY <1>1, BeginKeeps
<1>2. CASE ReadType
  BY <1>2, TypeKeeps
<1>3. CASE ReadMsgid
  BY <1>3, MsgidKeeps
<1>4. CASE ReadMethod
  BY <1>4, MethodKeeps
<1>5. CASE ReadParams
  BY <1>5, ParamsKeeps
<1>6. CASE RestoreValue
  BY <1>6, RestoreKeeps
<1>7. CASE CloseParams
  BY <1>7, CloseKeeps
<1>8. CASE ReadResult
  BY <1>8, ResultKeeps
<1>9. CASE DumpError
  BY <1>9, DumpKeeps
<1>10. CASE Done
  BY <1>10, DoneKeeps
<1>11. CASE Break
  BY <1>11, BreakKeeps
<1>12. CASE Return
  BY <1>12, ReturnKeeps
<1>13. CASE Answer
  BY <1>13, AnswerKeeps
<1>14. CASE UNCHANGED vars
  BY <1>14 DEF RpcInv, vars, buffers
<1>15. QED
  BY <1>1, <1>2, <1>3, <1>4, <1>5, <1>6, <1>7, <1>8, <1>9, <1>10, <1>11, <1>12, <1>13, <1>14 DEF Next

-----------------------------------------------------------------------------
(* The vector of the scopes                                                 *)

\* The vector is sound until a loop reads freed memory, in a scope beyond those reserved.
Vector == IF state = "undefined" THEN r.scopes # <<>> /\ Len(r.scopes) >= ReservedDepth
          ELSE Sound(ReservedDepth, r)

\* One element in a handler that restores a value
LEMMA RestoreTypeSound ==
    ASSUME NEW depth \in Nat, NEW s, NEW x, Sound(depth, x), NEW type \in Types, NEW b, NEW at, NEW u
    PROVE  Sound(depth, RestoreType(s, x, b, type, at, u).r)
<1> DEFINE z == RestoreType(s, x, b, type, at, u)
<1>1. type.t \in {"int", "text", "optional", "list", "dict", "tuple", "variant", "record", "object"}
  BY TypesAssumption
<1>2. z.r \in {ReadNumber(s, x), ReadString(s, x), x, BeginArray(s, x), BeginObject(s, x), Throw(x, "fatal")}
  <2>1. CASE type.t \in {"int", "text", "optional"}
    BY <2>1, Zenon DEF RestoreType, Scalar, Result
  <2>2. CASE type.t \in {"tuple", "variant", "record", "list", "dict"}
    BY <2>2, Zenon DEF RestoreType, Result
  <2>3. CASE type.t = "object"
    BY <2>3, Zenon DEF RestoreType, Result
  <2>4. QED
    BY <1>1, <2>1, <2>2, <2>3
<1> HIDE DEF z
<1>3. Sound(depth, z.r)
  BY <1>2, SoundReads, SoundBegins, SoundThrow
<1>4. QED
  BY <1>3 DEF z

\* A step of a handler that restores a value
LEMMA RestoreStepSound ==
    ASSUME NEW depth \in Nat, NEW V, NEW s \in Seq(ElementType(V)), NEW x, Sound(depth, x),
           x.pos \in Nat \ {0}, NEW id, NEW t, EntryOk(Head(t), id), Head(t).op \in Ops, NEW b
    PROVE  Sound(depth, RestoreStep(s, x, b, t).r)
<1> DEFINE e == Head(t)
           u == Tail(t)
           z == RestoreStep(s, x, b, t)
           key == ReadString(s, ReadKeyNext(x))
           y == ReadNumber(s, x)
<1>1. Sound(depth, Skip(s, x)) /\ Sound(depth, y) /\ \A type, k : Sound(depth, EndScope(x, type, k))
  BY SoundSkips, SoundReads, SoundEnds
<1>2. Sound(depth, key)
  BY SoundEnds, SoundReads
<1>3. Sound(depth, Throw(y, "fatal"))
  BY <1>1, SoundThrow
<1> HIDE DEF key, y
<1>4. CASE e.op \in {"restore", "field"}
  <2>1. e.type \in Types
    BY <1>4 DEF EntryOk
  <2>2. z = RestoreType(s, x, b, e.type, e.at, u) \/ z = Result(Skip(s, x), b, u)
    BY <1>4 DEF RestoreStep
  <2>3. Sound(depth, RestoreType(s, x, b, e.type, e.at, u).r)
    BY <2>1, RestoreTypeSound
  <2>4. Result(Skip(s, x), b, u).r = Skip(s, x)
    BY DEF Result
  <2>5. QED
    BY <1>1, <2>2, <2>3, <2>4
<1>5. CASE e.op = "select"
  <2>1. z = RestoreIndex(s, x, b, e.types, e.at, u)
    BY <1>5 DEF RestoreStep
  <2>2. z.r = y \/ z.r = Throw(y, "fatal")
    BY <2>1 DEF RestoreIndex, Result, y
  <2>3. QED
    BY <1>1, <1>3, <2>2
<1>6. CASE e.op \in {"list", "dict", "object"}
  <2>1. z = Turn(s, x, b, e, u)
    BY <1>6 DEF RestoreStep
  <2> DEFINE scope == IF e.op = "list" THEN "array" ELSE "object"
  <2>2. CASE ShouldBreak(x, e.id)
    <3>1. z = Result(EndScope(x, scope, e.id), b, u)
      BY <2>1, <2>2 DEF Turn
    <3>2. QED
      BY <1>1, <3>1 DEF Result
  <2>3. CASE ~ShouldBreak(x, e.id) /\ e.op = "list"
    <3>1. z.r = x
      BY <2>1, <2>3 DEF Turn, Result
    <3>2. QED
      BY <3>1
  <2>4. CASE ~ShouldBreak(x, e.id) /\ e.op # "list"
    <3>1. \E c, v : z = Result(key, c, v)
      BY <2>1, <2>4, Zenon DEF Turn, key
    <3>2. z.r = key
      BY <3>1 DEF Result
    <3>3. QED
      BY <1>2, <3>2
  <2>5. QED
    BY <2>2, <2>3, <2>4
<1>7. CASE e.op \in {"emplace", "skip", "end"}
  <2>1. z.r \in {x, Skip(s, x), EndScope(x, e.scope, e.id)}
    BY <1>7 DEF RestoreStep, Result
  <2>2. QED
    BY <1>1, <2>1
<1>8. QED
  BY <1>4, <1>5, <1>6, <1>7 DEF Ops

\* An exception that unwinds, or is thrown on
LEMMA UnwindSound ==
    ASSUME NEW depth \in Nat, NEW x, Sound(depth, x), NEW err \in {"recoverable", "fatal"}, NEW w, NEW t
    PROVE  Sound(depth, Unwind(x, w, err, t).r)
<1>1. Unwind(x, w, err, t).r \in {x, Throw(x, err)}
  BY DEF Unwind
<1>2. QED
  BY <1>1, SoundThrow

\* A call of a dump
LEMMA DumpedSound ==
    ASSUME NEW depth \in Nat, NEW x, Sound(depth, x), NEW w, NEW t
    PROVE  Sound(depth, Dumped(x, w, t).r)
<1> DEFINE y == [x EXCEPT !.err = "ok", !.goal = NoGoal]
           c == [w EXCEPT !.err = FALSE]
           err == IF Ok(x) THEN "fatal" ELSE x.err
<1>1. Sound(depth, y)
  BY SoundAgain
<1>2. err \in {"recoverable", "fatal"}
  BY DEF Sound, Ok
<1>3. Dumped(x, w, t).r = x \/ Dumped(x, w, t) = Unwind(y, c, err, t)
  BY DEF Dumped
<1> HIDE DEF y, c, err
<1>4. QED
  BY <1>1, <1>2, <1>3, UnwindSound

\* One element of an object that is dumped
LEMMA DumpOnceSound ==
    ASSUME NEW depth \in Nat, NEW V, NEW s \in Seq(ElementType(V)), NEW x, Sound(depth, x),
           x.pos \in Nat \ {0}, NEW w, NEW t
    PROVE  Sound(depth, DumpOnce(s, x, w, t).r)
<1> DEFINE z == DumpOnce(s, x, w, t)
           y == BeginBinary(s, x)
           f == EndBinary(y)
<1>1. Sound(depth, y) /\ Sound(depth, BeginArray(s, x)) /\ Sound(depth, BeginObject(s, x))
  BY SoundBegins
<1>2. Sound(depth, f)
  BY <1>1, SoundEnds
<1>3. Sound(depth, ReadNumber(s, x)) /\ Sound(depth, ReadString(s, x)) /\ Sound(depth, Throw(x, "fatal"))
  BY SoundReads, SoundThrow
<1>4. Sound(depth, Throw(f, "recoverable"))
  BY <1>2, SoundThrow
<1>5. \A v, c, q : Sound(depth, q) => Sound(depth, Dumped(q, v, c).r)
  BY DumpedSound
<1> HIDE DEF f
<1>6. CASE x.pos > Len(s)
  <2>1. z = Dumped(Throw(x, "fatal"), w, t)
    BY <1>6 DEF DumpOnce
  <2>2. QED
    BY <1>3, <1>5, <2>1
<1>7. CASE ~(x.pos > Len(s))
  <2>1. x.pos \in 1 .. Len(s)
    BY <1>7, LenProperties
  <2>2. s[x.pos] \in ElementType(V)
    BY <2>1, ElementOfSeq
  <2>3. s[x.pos].k \in {"num", "nil", "str", "bin", "ext", "arr", "map"}
    BY <2>2 DEF ElementType, Kinds, Flat
  <2>4. CASE s[x.pos].k \in {"arr", "map"}
    <3>1. \E v, c : z = Dumped(BeginArray(s, x), v, c) \/ z = Dumped(BeginObject(s, x), v, c)
      BY <1>7, <2>4 DEF DumpOnce
    <3>2. QED
      BY <1>1, <1>5, <3>1
  <2>5. CASE s[x.pos].k = "bin"
    <3>1. z = DumpBinary(y, w, t)
      BY <1>7, <2>5 DEF DumpOnce
    <3>2. \E v, c : z = Dumped(y, v, c) \/ z = Dumped(Throw(f, "recoverable"), v, c) \/ z = Dumped(f, v, c)
      BY <3>1 DEF DumpBinary, f
    <3>3. QED
      BY <1>1, <1>2, <1>4, <1>5, <3>2
  <2>6. CASE s[x.pos].k \in {"num", "str", "nil", "ext"}
    <3>1. \E v, c : \/ z = Dumped(ReadNumber(s, x), v, c) \/ z = Dumped(ReadString(s, x), v, c)
                    \/ z = Dumped(x, v, c) \/ z = Dumped(Throw(x, "fatal"), v, c)
      BY <1>7, <2>6 DEF DumpOnce
    <3>2. QED
      BY <1>3, <1>5, <3>1
  <2>7. QED
    BY <2>3, <2>4, <2>5, <2>6
<1>8. QED
  BY <1>6, <1>7

\* A step of a handler that dumps an object, or of the exception that leaves it
LEMMA DumpStepSound ==
    ASSUME NEW depth \in Nat, NEW V, NEW s \in Seq(ElementType(V)), NEW x, Sound(depth, x),
           x.pos \in Nat \ {0}, NEW t, Head(t).op \in DumpOps,
           Head(t).op = "rethrow" => Head(t).err \in {"recoverable", "fatal"}, NEW w
    PROVE  Sound(depth, DumpStep(s, x, w, t).r)
<1> DEFINE e == Head(t)
           u == Tail(t)
           z == DumpStep(s, x, w, t)
<1>1. CASE e.op = "dump"
  <2>1. z = DumpOnce(s, x, w, u)
    BY <1>1 DEF DumpStep
  <2>2. QED
    BY <2>1, DumpOnceSound
<1>2. CASE e.op = "dumping"
  <2>1. z = DumpTurn(x, w, e, u)
    BY <1>2 DEF DumpStep
  <2>2. \E v, c : z = Dumped(x, v, c) \/ z = Dumped(ReadKeyNext(x), v, c)
    BY <2>1 DEF DumpTurn
  <2>3. Sound(depth, ReadKeyNext(x))
    BY SoundEnds
  <2>4. QED
    BY <2>2, <2>3, DumpedSound
<1>3. CASE e.op = "leave"
  <2>1. z = LeaveContainer(x, w, e, u)
    BY <1>3 DEF DumpStep
  <2>2. z.r = Throw(x, "fatal") \/ z.r = EndScope(x, e.type, e.id)
    BY <2>1 DEF LeaveContainer
  <2>3. QED
    BY <2>2, SoundThrow, SoundEnds
<1>4. CASE e.op = "left"
  BY <1>4 DEF DumpStep
<1>5. CASE e.op = "rethrow"
  <2>1. z = Unwind(x, w, e.err, u)
    BY <1>5 DEF DumpStep
  <2>2. QED
    BY <1>5, <2>1, UnwindSound
<1>6. QED
  BY <1>1, <1>2, <1>3, <1>4, <1>5 DEF DumpOps

\* end_array of the message, on the reader as the exception left it
LEMMA EndingSound ==
    ASSUME NEW x, Sound(ReservedDepth, x)
    PROVE  Sound(ReservedDepth, Ending(x))
  BY ReservedIs, SoundAgain, SoundEnds DEF Ending

\* A call that keeps the vector sound, and what is made of its exception
LEMMA ProceedSound ==
    ASSUME Vector, state # "undefined", NEW x, Sound(ReservedDepth, x), NEW u, Proceed(x, u) \/ Recover(x)
    PROVE  Vector'
<1>1. x.err # "undefined"
  BY DEF Sound
<1>2. state' # "undefined" /\ (r' = x \/ r' = Ending(x))
  BY <1>1 DEF Proceed, Recover, AfterThrow
<1>3. Sound(ReservedDepth, r')
  BY <1>2, EndingSound
<1>4. QED
  BY <1>2, <1>3 DEF Vector

\* The steps that read the header, enter the parameters or leave what was entered
LEMMA HeaderSound ==
    ASSUME Vector, Begin \/ ReadType \/ ReadMsgid \/ ReadMethod \/ ReadParams \/ CloseParams \/ Done
    PROVE  Vector'
<1> DEFINE D == ReservedDepth
<1>1. state \in {"waiting", "handling"}
  BY DEF Begin, ReadType, ReadMsgid, ReadMethod, ReadParams, CloseParams, Done, Handling
<1>2. Sound(D, r) /\ D \in Nat
  BY <1>1, ReservedIs DEF Vector
<1>3. Sound(D, BeginArray(in, r)) /\ Sound(D, ReadNumber(in, r)) /\ Sound(D, ReadString(in, r))
  BY <1>2, SoundBegins, SoundReads
<1>4. \A type, k : Sound(D, EndScope(r, type, k))
  BY <1>2, SoundEnds
<1> HIDE DEF D
<1>5. ASSUME NEW x, Sound(D, x), \E u : Proceed(x, u) \/ Recover(x) PROVE Vector'
  BY <1>1, <1>5, ProceedSound DEF D
<1>6. ASSUME NEW x, Sound(D, x), state' # "undefined", r' = x \/ r' = Ending(x) PROVE Vector'
  BY <1>6, EndingSound DEF Vector, D
<1>7. CASE Begin
  <2>1. state' # "undefined" /\ r' = BeginArray(in, r)
    BY <1>7 DEF Begin
  <2>2. QED
    BY <1>3, <1>6, <2>1
<1>8. CASE ReadType \/ ReadMsgid
  <2>1. \E u : Proceed(ReadNumber(in, r), u) \/ Recover(ReadNumber(in, r))
    BY <1>8 DEF ReadType, ReadMsgid
  <2>2. QED
    BY <1>3, <1>5, <2>1
<1>9. CASE ReadMethod
  <2> DEFINE x == ReadString(in, r)
  <2>1. (state' = "closing" /\ r' = Ending(x)) \/ Proceed(x, <<Do("params")>>)
    BY <1>9 DEF ReadMethod
  <2>2. Sound(D, x)
    BY <1>3
  <2> HIDE DEF x
  <2>3. QED
    BY <1>5, <1>6, <2>1, <2>2
<1>10. CASE ReadParams
  <2>1. \E u : Proceed(BeginArray(in, r), u) \/ Recover(BeginArray(in, r))
    BY <1>10 DEF ReadParams
  <2>2. QED
    BY <1>3, <1>5, <2>1
<1>11. CASE CloseParams
  <2>1. Proceed(EndScope(r, "array", Head(todo).id), <<Do("done")>>)
    BY <1>11 DEF CloseParams
  <2>2. QED
    BY <1>4, <1>5, <2>1
<1>12. CASE Done
  <2>1. state' = "closing" /\ r' = Ending(r)
    BY <1>12 DEF Done
  <2>2. QED
    BY <1>2, <1>6, <2>1
<1>13. QED
  BY <1>7, <1>8, <1>9, <1>10, <1>11, <1>12

\* The steps that restore, dump or skip a value
LEMMA BodySound ==
    ASSUME RpcInv, Vector, RestoreValue \/ ReadResult \/ DumpError
    PROVE  Vector'
<1> DEFINE D == ReservedDepth
           id == msg.scope
<1>1. state = "handling" /\ r.goal = NoGoal
  BY DEF RestoreValue, ReadResult, DumpError, Handling
<1>2. Sound(D, r) /\ D \in Nat
  BY <1>1, ReservedIs DEF Vector
<1>3. in \in Seq(ElementType(Values)) /\ Asked(in, r) /\ r.pos \in Nat \ {0}
  <2>1. in \in Seq(ElementType(Values)) /\ Asked(in, r) /\ r \in ReaderType
    BY <1>1, HandlingIs, InsideAsked DEF Bounds
  <2>2. QED
    BY <2>1 DEF ReaderType
<1> HIDE DEF D
<1>4. ASSUME NEW x, Sound(D, x), NEW u, Proceed(x, u) PROVE Vector'
  BY <1>1, <1>4, ProceedSound DEF D
<1>5. ASSUME Head(todo).op \notin HeaderOps, Ready(r, todo, id) PROVE EntryOk(Head(todo), id)
  <2>1. CASE Reads(Head(todo))
    BY <1>3, <1>5, <2>1, ReadyReads
  <2>2. CASE ~Reads(Head(todo))
    BY <1>5, <2>2, ReadyOther, FramedHead
  <2>3. QED
    BY <2>1, <2>2
<1>6. CASE RestoreValue
  <2>1. Head(todo).op \in Ops
    BY <1>6 DEF RestoreValue
  <2>2. Head(todo).op \notin HeaderOps /\ Head(todo).op \notin DumpOps
    BY <2>1 DEF Ops, HeaderOps, DumpOps
  <2>3. EntryOk(Head(todo), id)
    BY <1>1, <1>5, <2>2, BodyStep
  <2> DEFINE z == RestoreStep(in, r, buffer, todo)
  <2>4. Sound(D, z.r)
    BY <1>2, <1>3, <2>1, <2>3, RestoreStepSound
  <2>5. Proceed(z.r, z.todo)
    BY <1>6 DEF RestoreValue
  <2> HIDE DEF z
  <2>6. QED
    BY <1>4, <2>4, <2>5
<1>7. CASE ReadResult
  <2>1. Sound(D, Skip(in, r))
    BY <1>2, <1>3, SoundSkips
  <2>2. \E u : Proceed(Skip(in, r), u) \/ Proceed(r, u)
    BY <1>7 DEF ReadResult
  <2>3. QED
    BY <1>2, <1>4, <2>1, <2>2
<1>8. CASE DumpError
  <2>1. Head(todo).op \in DumpOps
    BY <1>8 DEF DumpError
  <2>2. Head(todo).op \notin HeaderOps
    BY <2>1 DEF HeaderOps, DumpOps
  <2>3. Head(todo).op = "rethrow" => Head(todo).err \in {"recoverable", "fatal"}
    <3>1. Ready(r, todo, id) => Head(todo).op # "rethrow"
      BY <1>5, <2>2 DEF EntryOk, Ops
    <3>2. Ready(r, todo, id) \/ Cleanup(r, todo, id)
      BY <1>1, <2>2, BodyStep
    <3>3. QED
      BY <3>1, <3>2, CleanupHead
  <2> DEFINE z == DumpStep(in, r, buffer[<<>>], todo)
  <2>4. Sound(D, z.r)
    BY <1>2, <1>3, <2>1, <2>3, DumpStepSound
  <2>5. Proceed(z.r, z.todo)
    BY <1>8 DEF DumpError
  <2> HIDE DEF z
  <2>6. QED
    BY <1>4, <2>4, <2>5
<1>9. QED
  BY <1>6, <1>7, <1>8

\* A turn of a loop
LEMMA BreakSound == ASSUME RpcInv, Vector, Break PROVE Vector'
<1> DEFINE D == ReservedDepth
           y == BreakStep(in, r)
<1>1. r \in ReaderType /\ Ok(r) /\ in \in Seq(ElementType(Values))
  <2>1. CASE state = "handling"
    BY <2>1, HandlingIs, InsideAsked DEF Bounds
  <2>2. CASE state \in {"closing", "recovering"}
    <3>1. Leaves(ms, in, r, todo, msg, handled) /\ Ok(r) /\ in \in Seq(ElementType(Values))
      BY <2>2, LeavingIs DEF Bounds
    <3>2. QED
      BY <3>1 DEF Leaves, InBounds, Inside
  <2>3. QED
    BY <2>1, <2>2 DEF Break
<1>2. Proceed(y, todo) /\ state # "undefined"
  BY DEF Break
<1>3. Sound(D, r) /\ D \in Nat
  BY <1>2, ReservedIs DEF Vector
<1>4. /\ Dangles(r) => r.scopes # <<>> /\ Len(r.scopes) >= D
      /\ ~Dangles(r) => Sound(D, y)
  BY <1>1, <1>3, SoundBreakStep
<1>5. CASE Dangles(r)
  <2>1. y.err = "undefined" /\ y.scopes = r.scopes
    BY <1>1, <1>5, DanglingIs
  <2> HIDE DEF y
  <2>2. state' = "undefined" /\ r' = y
    BY <1>2, <2>1 DEF Proceed, AfterThrow, Ok
  <2>3. QED
    BY <1>4, <1>5, <2>1, <2>2 DEF Vector
<1>6. CASE ~Dangles(r)
  BY <1>2, <1>4, <1>6, ProceedSound
<1>7. QED
  BY <1>5, <1>6

\* The function returns, or a handler or a completion has run.
LEMMA ReturnSound == ASSUME RpcInv, Vector, Return \/ Answer PROVE Vector'
<1>1. CASE Return
  <2>1. Ok(r) /\ state # "undefined"
    BY <1>1, LeavingIs DEF Return
  <2>2. r' = r /\ state' = "waiting"
    BY <1>1, <2>1 DEF Return
  <2>3. QED
    BY <2>1, <2>2 DEF Vector
<1>2. CASE Answer
  <2>1. r' = r /\ state' = state
    BY <1>2 DEF Answer
  <2>2. QED
    BY <2>1 DEF Vector
<1>3. QED
  BY <1>1, <1>2

\* A request that is completed waits no more, and none begins to wait.
LEMMA RequestedKeeps == Requested /\ [Next]_vars => Requested'
<1> SUFFICES ASSUME Requested, [Next]_vars PROVE Requested'
  OBVIOUS
<1>1. requests' = requests \/ \E p : requests' = requests \ {p}
  BY DEF Next, vars, Begin, ReadType, ReadMsgid, ReadMethod, ReadParams, RestoreValue, CloseParams,
         ReadResult, DumpError, Done, Break, Return, Answer, InMessage
<1>2. QED
  BY <1>1 DEF Requested

\* Every step keeps the vector sound, but for the one that reads freed memory.
LEMMA VectorKeeps == RpcInv /\ Vector /\ [Next]_vars => Vector'
<1> SUFFICES ASSUME RpcInv, Vector, [Next]_vars PROVE Vector'
  OBVIOUS
<1>1. CASE Begin \/ ReadType \/ ReadMsgid \/ ReadMethod \/ ReadParams \/ CloseParams \/ Done
  BY <1>1, HeaderSound
<1>2. CASE RestoreValue \/ ReadResult \/ DumpError
  BY <1>2, BodySound
<1>3. CASE Break
  BY <1>3, BreakSound
<1>4. CASE Return \/ Answer
  BY <1>4, ReturnSound
<1>5. CASE UNCHANGED vars
  BY <1>5 DEF vars, Vector
<1>6. QED
  BY <1>1, <1>2, <1>3, <1>4, <1>5 DEF Next

\* In every state the handling of a message, its scopes and the replies to it are where
\* the messages of the connection have them, until a loop of _break_scope reads freed
\* memory: and that is only in a scope as deep as those that _read has reserved, or deeper.
THEOREM Reachable == Spec => [](RpcInv /\ Requested /\ Vector)
<1>1. Init => RpcInv /\ Requested /\ Vector
  <2>1. Init => Vector
    BY ReservedIs, SoundStart DEF Init, Vector
  <2>2. Init => Requested
    BY DEF Init, Requested
  <2>3. QED
    BY <2>1, <2>2, InitInv
<1>2. RpcInv /\ Requested /\ Vector /\ [Next]_vars => (RpcInv /\ Requested /\ Vector)'
  BY NextInv, RequestedKeeps, VectorKeeps
<1>3. QED
  BY <1>1, <1>2, PTL DEF Spec

\* Whatever a message held and wherever its handling was left, the reader waits for the
\* next message outside of all scopes and at the first byte of it: handle_single_message.
\* Only a message that nests as deep as _read has reserved, or deeper, may lead elsewhere:
\* to the undefined behaviour of _break_scope.
THEOREM AtBoundary == Spec => []BoundaryKept
<1>1. RpcInv /\ Vector => BoundaryKept
  <2> SUFFICES ASSUME RpcInv, Vector PROVE BoundaryKept
    OBVIOUS
  <2>1. ASSUME state = "waiting"
        PROVE  /\ r.scopes = <<>> /\ ~r.torn
               /\ SubSeq(in, 1, r.pos - 1)
                    = FlattenSeq([i \in 1..handled |-> Numbered(ms[i].elements, i)])
    <3>1. Connection(ms) /\ in = Bytes(ms) /\ handled \in 0 .. Len(ms) /\ Waits(ms, in, r, handled)
      BY <2>1 DEF RpcInv, Stream, Course
    <3>2. r.scopes = <<>> /\ InStep(in, r) /\ r.pos - 1 = Bound(ms, handled)
      BY <3>1 DEF Waits
    <3>3. ~r.torn
      BY <3>2 DEF InStep
    <3>4. SubSeq(in, 1, r.pos - 1) = Prefix(ms, handled)
      BY <3>1, <3>2, ReadSoFar
    <3>5. QED
      BY <3>2, <3>3, <3>4 DEF Prefix, Part
  <2>2. state = "undefined" => Len(r.scopes) >= ReservedDepth
    BY DEF Vector
  <2>3. QED
    BY <2>1, <2>2 DEF BoundaryKept
<1>2. QED
  BY <1>1, Reachable, PTL

\* A request is answered at most once, with an error while it is read or by its handler
\* later, and what is no request is not answered: fn_rep_err, send_reply_result and
\* send_reply_error.
THEOREM AnsweredAtMostOnce == Spec => []AnsweredOnce
<1>1. RpcInv => AnsweredOnce
  <2> SUFFICES ASSUME RpcInv PROVE AnsweredOnce
    OBVIOUS
  <2>1. /\ replies \in Seq(Nat)
        /\ \A i, j \in 1 .. Len(replies) : replies[i] = replies[j] => i = j
        /\ \A i \in 1 .. Len(replies) : replies[i] \in 1 .. handled /\ Asks(ms, replies[i])
    BY DEF RpcInv, Replied
  <2>2. DOMAIN replies = 1 .. Len(replies)
    BY <2>1
  <2>3. \A i : Asks(ms, i) => IsRequest(i)
    BY DEF Asks, IsRequest
  <2>4. QED
    BY <2>1, <2>2, <2>3 DEF AnsweredOnce
<1>2. QED
  BY <1>1, Reachable, PTL
=============================================================================
