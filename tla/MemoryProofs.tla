------------------------ MODULE MemoryProofs ------------------------
(***************************************************************************)
(* Theorems about the two components that hand out memory.                 *)
(*                                                                         *)
(* RingAllocator, for every capacity and every set of requests: the types, *)
(* and the invariants of its run.  They follow from one inductive          *)
(* invariant: the nodes between tail and head are laid out in order and    *)
(* without gaps or overlaps (Laid), and the blocks in use are exactly the  *)
(* nodes not marked, in ring order (Kept).                                 *)
(*                                                                         *)
(* Pool, for any number of nodes, pools and threads, in the second half.   *)
(* The inductive invariant says where nodes are: in the pool_ptrs, check-  *)
(* ins, lists of idle nodes and lists to delete, which have no node in     *)
(* common, none twice, and together those that are allocated; and in which *)
(* of these a thread may have something at each of its steps.              *)
(***************************************************************************)
EXTENDS RingAllocator, PoolNodes, SequenceTheorems, FiniteSetTheorems, TLAPS

End(mem, s) == s + 1 + mem[s].extent

\* Position of a node in the ring that starts at tl.
Pos(tl, s) == IF s >= tl THEN s ELSE s + Capacity

Laid(mem, hd, tl, ch) ==
    /\ hd \in Cells /\ tl \in ch
    /\ \A s \in ch : mem[s] \in Headers /\ End(mem, s) <= Capacity
    /\ \A s, t \in ch : s < t => End(mem, s) <= t
    /\ hd > tl => \A s \in ch : tl <= s /\ End(mem, s) <= hd
    /\ hd <= tl => \A s \in ch : s >= tl \/ End(mem, s) <= hd
    /\ \A s \in ch : Wrap(End(mem, s)) \in ch \union {hd}

Kept(mem, tl, ch, bs) ==
    /\ \A k \in DOMAIN bs : /\ bs[k].at \in ch
                            /\ mem[bs[k].at].kill = FALSE
                            /\ bs[k].bytes <= NodeSize * mem[bs[k].at].extent
    /\ \A k \in DOMAIN bs, i \in Cells :
         bs[k].at < i /\ i < End(mem, bs[k].at) => mem[i] = Junk
    /\ \A j, k \in DOMAIN bs : j < k => Pos(tl, bs[j].at) < Pos(tl, bs[k].at)
    /\ \A s \in ch : mem[s].kill = FALSE => \E k \in DOMAIN bs : bs[k].at = s

IInv ==
    /\ TypeOK
    /\ head = Null => tail = Null /\ chain = {} /\ blocks = <<>>
    /\ head # Null => Laid(memory, head, tail, chain) /\ Kept(memory, tail, chain, blocks)
    /\ ~flushing /\ tail # Null => memory[tail].kill = FALSE
Buffers == [Cells -> Headers \union {Junk}]

\* There is room for a header and n cells at hd.
Room(hd, tl, n) ==
    /\ hd # tl
    /\ IF hd > tl THEN hd + 1 + n <= Capacity ELSE hd + 1 + n <= tl

\* Rounding up: a request gets as many cells as it has bytes for.
LEMMA CeilBounds ==
    ASSUME NEW b \in Nat
    PROVE  NodeSizeCeil(b) \in Nat /\ b <= NodeSize * NodeSizeCeil(b)
BY SMT DEF NodeSizeCeil, NodeSize

\* Headers and what users write are told apart.
LEMMA Kinds ==
    /\ Junk \notin Headers
    /\ \A h \in Headers : h.extent \in Nat /\ h.kill \in BOOLEAN
BY JunkAssumption, CapacityAssumption DEF Headers

\* A node written where there is room extends the layout, be it a block or the dummy.
LEMMA PlaceLaid ==
    ASSUME NEW mem \in Buffers, NEW new \in Buffers, NEW hd \in Cells, NEW tl \in Cells,
           NEW ch \in SUBSET Cells, NEW n \in Nat,
           Laid(mem, hd, tl, ch), Room(hd, tl, n),
           new[hd] \in Headers, new[hd].extent = n,
           \A s \in ch : new[s] = mem[s]
    PROVE  Laid(new, Wrap(hd + 1 + n), tl, ch \union {hd}) /\ hd \notin ch
<1> USE CapacityAssumption, Kinds DEF Cells
<1> DEFINE at == Wrap(hd + 1 + n)
<1>1. \A s \in ch : mem[s].extent \in Nat /\ new[s] = mem[s] /\ s \in Int
  BY DEF Laid
<1>2. at \in Cells /\ hd + 1 + n <= Capacity
  BY DEF Room, Wrap
<1>3. \A s \in ch : End(new, s) = End(mem, s) /\ End(mem, s) \in Int /\ End(mem, s) > s
  BY <1>1 DEF End
<1>4. End(new, hd) = hd + 1 + n
  BY DEF End
<1>5. \A s \in ch : End(mem, s) <= hd \/ s >= hd + 1 + n
  BY <1>1, <1>3 DEF Laid, Room
<1>6. hd \notin ch
  BY <1>3, <1>5
<1>7. \A s \in ch \union {hd} : new[s] \in Headers /\ End(new, s) <= Capacity
  BY <1>1, <1>2, <1>3, <1>4 DEF Laid
<1>8. \A s, t \in ch \union {hd} : s < t => End(new, s) <= t
  BY <1>3, <1>4, <1>5 DEF Laid
<1>9. at > tl => \A s \in ch \union {hd} : tl <= s /\ End(new, s) <= at
  BY <1>2, <1>3, <1>4 DEF Laid, Room, Wrap
<1>10. at <= tl => \A s \in ch \union {hd} : s >= tl \/ End(new, s) <= at
  BY <1>2, <1>3, <1>4 DEF Laid, Room, Wrap
<1>11. \A s \in ch \union {hd} : Wrap(End(new, s)) \in ch \union {hd, at}
  BY <1>3, <1>4 DEF Laid
<1> QED
  BY <1>2, <1>6, <1>7, <1>8, <1>9, <1>10, <1>11 DEF Laid
\* The headers of the other nodes are where a new node does not write.
LEMMA PlaceApart ==
    ASSUME NEW mem \in Buffers, NEW hd \in Cells, NEW tl \in Cells,
           NEW ch \in SUBSET Cells, NEW n \in Nat,
           Laid(mem, hd, tl, ch), Room(hd, tl, n)
    PROVE  \A s \in ch : End(mem, s) \in Int /\ s < End(mem, s)
                           /\ (End(mem, s) <= hd \/ s > hd + n)
<1> USE CapacityAssumption, Kinds DEF Cells
<1>1. \A s \in ch : mem[s].extent \in Nat /\ s \in Int
  BY DEF Laid
<1>2. \A s \in ch : End(mem, s) \in Int /\ End(mem, s) > s
  BY <1>1 DEF End
<1> QED
  BY <1>2 DEF Laid, Room

\* The newest node comes last in ring order.
LEMMA PlaceLast ==
    ASSUME NEW mem \in Buffers, NEW hd \in Cells, NEW tl \in Cells,
           NEW ch \in SUBSET Cells, NEW n \in Nat,
           Laid(mem, hd, tl, ch), Room(hd, tl, n)
    PROVE  \A s \in ch : Pos(tl, s) < Pos(tl, hd)
<1> USE CapacityAssumption DEF Cells
<1>1. \A s \in ch : End(mem, s) \in Int /\ s < End(mem, s) /\ (End(mem, s) <= hd \/ s > hd + n)
  BY PlaceApart
<1>2. CASE hd > tl
  BY <1>1, <1>2 DEF Laid, Pos
<1>3. CASE hd < tl
  BY <1>1, <1>3 DEF Laid, Pos
<1> QED
  BY <1>2, <1>3 DEF Room

\* A granted block joins the blocks in use and disturbs none of them.
LEMMA GrantKept ==
    ASSUME NEW mem \in Buffers, NEW new \in Buffers, NEW hd \in Cells, NEW tl \in Cells,
           NEW ch \in SUBSET Cells, NEW n \in Nat,
           NEW bs \in Seq([at : Cells, bytes : Nat]), NEW b \in Nat,
           Laid(mem, hd, tl, ch), Kept(mem, tl, ch, bs), Room(hd, tl, n),
           b <= NodeSize * n,
           new[hd].extent = n, new[hd].kill = FALSE,
           \A i \in Cells : hd < i /\ i <= hd + n => new[i] = Junk,
           \A i \in Cells : i < hd \/ i > hd + n => new[i] = mem[i]
    PROVE  Kept(new, tl, ch \union {hd}, Append(bs, [at |-> hd, bytes |-> b]))
<1> USE CapacityAssumption, Kinds DEF Cells
<1> DEFINE block == [at |-> hd, bytes |-> b]
           more  == Append(bs, block)
<1>1. /\ DOMAIN more = DOMAIN bs \union {Len(bs) + 1}
      /\ \A k \in DOMAIN bs : more[k] = bs[k] /\ k \in 1..Len(bs)
      /\ more[Len(bs) + 1] = block
      /\ Len(bs) \in Nat /\ Len(bs) + 1 \notin DOMAIN bs
  OBVIOUS
<1> HIDE DEF more
<1>2. \A s \in ch : End(mem, s) \in Int /\ s < End(mem, s) /\ (End(mem, s) <= hd \/ s > hd + n)
  BY PlaceApart
<1>3. \A s \in ch : new[s] = mem[s] /\ End(new, s) = End(mem, s)
  BY <1>2 DEF End
<1>4. \A k \in DOMAIN bs : bs[k].at \in ch
  BY DEF Kept
<1>5. \A k \in DOMAIN more : /\ more[k].at \in ch \union {hd}
                             /\ new[more[k].at].kill = FALSE
                             /\ more[k].bytes <= NodeSize * new[more[k].at].extent
  <2>1. \A k \in DOMAIN bs : /\ more[k].at \in ch
                             /\ new[more[k].at].kill = FALSE
                             /\ more[k].bytes <= NodeSize * new[more[k].at].extent
    <3> SUFFICES ASSUME NEW k \in DOMAIN bs
                 PROVE  /\ more[k].at \in ch
                        /\ new[more[k].at].kill = FALSE
                        /\ more[k].bytes <= NodeSize * new[more[k].at].extent
      OBVIOUS
    <3>1. more[k] = bs[k] /\ bs[k].at \in ch /\ new[bs[k].at] = mem[bs[k].at]
      BY <1>1, <1>3, <1>4
    <3>2. mem[bs[k].at].kill = FALSE /\ bs[k].bytes <= NodeSize * mem[bs[k].at].extent
      BY DEF Kept
    <3> QED
      BY <3>1, <3>2
  <2>2. block.at = hd /\ block.bytes = b
    OBVIOUS
  <2> QED
    BY <1>1, <2>1, <2>2
<1>6. ASSUME NEW k \in DOMAIN more, NEW i \in Cells,
             more[k].at < i, i < End(new, more[k].at)
      PROVE  new[i] = Junk
  <2>1. CASE k \in DOMAIN bs
    <3>1. bs[k].at \in ch /\ bs[k].at < i /\ i < End(mem, bs[k].at)
      BY <1>1, <1>3, <1>4, <1>6, <2>1
    <3>2. mem[i] = Junk
      BY <2>1, <3>1 DEF Kept
    <3>3. PICK t \in ch : t = bs[k].at
      BY <3>1
    <3>4. t < i /\ i < End(mem, t)
      BY <3>1, <3>3
    <3>5. i < hd \/ i > hd + n
      BY <1>2, <3>4
    <3> QED
      BY <3>2, <3>5
  <2>2. CASE k = Len(bs) + 1
    BY <1>1, <1>6, <2>2 DEF End
  <2> QED
    BY <1>1, <2>1, <2>2
<1>7. \A j, k \in DOMAIN more : j < k => Pos(tl, more[j].at) < Pos(tl, more[k].at)
  <2>1. \A s \in ch : Pos(tl, s) < Pos(tl, hd)
    BY PlaceLast
  <2>2. \A j, k \in DOMAIN bs : j < k => Pos(tl, more[j].at) < Pos(tl, more[k].at)
    BY <1>1 DEF Kept
  <2>3. \A j \in DOMAIN bs : Pos(tl, more[j].at) < Pos(tl, more[Len(bs) + 1].at)
    <3>1. more[Len(bs) + 1].at = hd
      BY <1>1
    <3>2. \A j \in DOMAIN bs : more[j].at \in ch
      BY <1>1, <1>4
    <3> QED
      BY <2>1, <3>1, <3>2
  <2>4. \A k \in DOMAIN bs : ~(Len(bs) + 1 < k)
    BY <1>1
  <2> QED
    BY <1>1, <2>2, <2>3, <2>4
<1>8. \A s \in ch \union {hd} : new[s].kill = FALSE => \E k \in DOMAIN more : more[k].at = s
  <2>1. \A s \in ch : new[s].kill = FALSE => \E k \in DOMAIN bs : more[k].at = s
    <3> SUFFICES ASSUME NEW s \in ch, new[s].kill = FALSE
                 PROVE  \E k \in DOMAIN bs : more[k].at = s
      OBVIOUS
    <3>1. mem[s].kill = FALSE
      BY <1>3
    <3>2. PICK k \in DOMAIN bs : bs[k].at = s
      BY <3>1 DEF Kept
    <3> QED
      BY <1>1, <3>2
  <2>2. more[Len(bs) + 1].at = hd
    BY <1>1
  <2> QED
    BY <1>1, <2>1, <2>2
<1> QED
  BY <1>5, <1>6, <1>7, <1>8 DEF Kept, more

\* The dummy node disturbs no block either.
LEMMA FillKept ==
    ASSUME NEW mem \in Buffers, NEW new \in Buffers, NEW hd \in Cells, NEW tl \in Cells,
           NEW ch \in SUBSET Cells, NEW bs \in Seq([at : Cells, bytes : Nat]),
           Laid(mem, hd, tl, ch), Kept(mem, tl, ch, bs), Room(hd, tl, 0),
           new[hd].kill = TRUE,
           \A i \in Cells : i # hd => new[i] = mem[i]
    PROVE  Kept(new, tl, ch \union {hd}, bs)
<1> USE CapacityAssumption, Kinds DEF Cells
<1>1. \A s \in ch : End(mem, s) \in Int /\ s < End(mem, s) /\ (End(mem, s) <= hd \/ s > hd + 0)
  BY PlaceApart
<1>2. \A s \in ch : new[s] = mem[s] /\ End(new, s) = End(mem, s)
  BY <1>1 DEF End
<1>3. ASSUME NEW k \in DOMAIN bs, NEW i \in Cells, bs[k].at < i, i < End(new, bs[k].at)
      PROVE  new[i] = Junk
  <2>1. bs[k].at \in ch
    BY DEF Kept
  <2>2. i < End(mem, bs[k].at)
    BY <1>2, <1>3, <2>1
  <2>3. mem[i] = Junk
    BY <1>3, <2>2 DEF Kept
  <2>4. i # hd
    <3>1. PICK t \in ch : t = bs[k].at
      BY <2>1
    <3>2. t < i /\ i < End(mem, t)
      BY <1>3, <2>2, <3>1
    <3> QED
      BY <1>1, <3>2
  <2> QED
    BY <2>3, <2>4
<1>4. \A k \in DOMAIN bs : /\ bs[k].at \in ch \union {hd}
                           /\ new[bs[k].at].kill = FALSE
                           /\ bs[k].bytes <= NodeSize * new[bs[k].at].extent
  BY <1>2 DEF Kept
<1>5. \A s \in ch \union {hd} : new[s].kill = FALSE => \E k \in DOMAIN bs : bs[k].at = s
  BY <1>2 DEF Kept
<1> QED
  BY <1>3, <1>4, <1>5 DEF Kept
\* Taking the k-th element out of a sequence.
Without(bs, k) == SubSeq(bs, 1, k - 1) \o SubSeq(bs, k + 1, Len(bs))
Skip(k, j) == IF j < k THEN j ELSE j + 1

\* The others keep their order.
LEMMA WithoutElements ==
    ASSUME NEW S, NEW bs \in Seq(S), NEW k \in DOMAIN bs
    PROVE  /\ Without(bs, k) \in Seq(S)
           /\ DOMAIN Without(bs, k) = 1..(Len(bs) - 1)
           /\ \A j \in 1..(Len(bs) - 1) : /\ Skip(k, j) \in DOMAIN bs \ {k}
                                          /\ Without(bs, k)[j] = bs[Skip(k, j)]
           /\ \A i \in DOMAIN bs \ {k} : \E j \in 1..(Len(bs) - 1) : i = Skip(k, j)
<1> DEFINE a == SubSeq(bs, 1, k - 1)
           b == SubSeq(bs, k + 1, Len(bs))
<1>1. k \in 1..Len(bs) /\ Len(bs) \in Nat
  OBVIOUS
<1>2. a \in Seq(S) /\ Len(a) = k - 1 /\ \A j \in 1..(k - 1) : a[j] = bs[j]
  BY <1>1
<1>3. b \in Seq(S) /\ Len(b) = Len(bs) - k /\ \A j \in 1..(Len(bs) - k) : b[j] = bs[k + j]
  BY <1>1
<1> HIDE DEF a, b
<1>4. /\ a \o b \in Seq(S) /\ Len(a \o b) = Len(bs) - 1
      /\ \A j \in 1..(Len(bs) - 1) : (a \o b)[j] = IF j <= k - 1 THEN a[j] ELSE b[j - (k - 1)]
  <2>1. a \in Seq(S) /\ b \in Seq(S)
    BY <1>2, <1>3
  <2>2. /\ a \o b \in Seq(S) /\ Len(a \o b) = Len(a) + Len(b)
        /\ \A j \in 1..(Len(a) + Len(b)) :
             (a \o b)[j] = IF j <= Len(a) THEN a[j] ELSE b[j - Len(a)]
    BY <2>1, ConcatProperties
  <2>3. Len(a) + Len(b) = Len(bs) - 1
    BY <1>1, <1>2, <1>3
  <2> QED
    BY <1>2, <2>2, <2>3
<1>5. Without(bs, k) = a \o b
  BY DEF Without, a, b
<1>6. DOMAIN (a \o b) = 1..(Len(bs) - 1)
  BY <1>4
<1>7. \A j \in 1..(Len(bs) - 1) : Skip(k, j) \in DOMAIN bs \ {k}
  BY <1>1 DEF Skip
<1>8. \A j \in 1..(Len(bs) - 1) : (a \o b)[j] = bs[Skip(k, j)]
  <2> SUFFICES ASSUME NEW j \in 1..(Len(bs) - 1)
               PROVE  (a \o b)[j] = bs[Skip(k, j)]
    OBVIOUS
  <2>1. CASE j < k
    BY <1>1, <1>2, <1>4, <2>1 DEF Skip
  <2>2. CASE ~(j < k)
    <3>1. j - (k - 1) \in 1..(Len(bs) - k) /\ k + (j - (k - 1)) = j + 1
      BY <1>1, <2>2
    <3>2. b[j - (k - 1)] = bs[j + 1]
      BY <1>3, <3>1
    <3> QED
      BY <1>1, <1>4, <2>2, <3>2 DEF Skip
  <2> QED
    BY <2>1, <2>2
<1>9. ASSUME NEW i \in DOMAIN bs \ {k}
      PROVE  \E j \in 1..(Len(bs) - 1) : i = Skip(k, j)
  <2>1. CASE i < k
    <3>1. i \in 1..(Len(bs) - 1) /\ Skip(k, i) = i
      BY <1>1, <2>1 DEF Skip
    <3> QED
      BY <3>1
  <2>2. CASE i > k
    <3>1. i - 1 \in 1..(Len(bs) - 1) /\ Skip(k, i - 1) = i
      BY <1>1, <2>2 DEF Skip
    <3> QED
      BY <3>1
  <2> QED
    BY <1>1, <2>1, <2>2
<1> QED
  BY <1>4, <1>5, <1>6, <1>7, <1>8, <1>9

\* Marking a block takes it, and it alone, out of the blocks in use.
LEMMA MarkKept ==
    ASSUME NEW mem \in Buffers, NEW hd \in Cells, NEW tl \in Cells, NEW ch \in SUBSET Cells,
           NEW bs \in Seq([at : Cells, bytes : Nat]), NEW k \in DOMAIN bs,
           Laid(mem, hd, tl, ch), Kept(mem, tl, ch, bs),
           NEW new, new = [mem EXCEPT ![bs[k].at].kill = TRUE]
    PROVE  /\ new \in Buffers
           /\ Laid(new, hd, tl, ch)
           /\ Kept(new, tl, ch, Without(bs, k))
<1> DEFINE left == Without(bs, k)
           at   == bs[k].at
<1>5. /\ DOMAIN left = 1..(Len(bs) - 1)
      /\ \A j \in DOMAIN left : Skip(k, j) \in DOMAIN bs \ {k} /\ left[j] = bs[Skip(k, j)]
      /\ \A i \in DOMAIN bs \ {k} : \E j \in DOMAIN left : i = Skip(k, j)
  <2> HIDE DEF left
  <2>1. /\ DOMAIN left = 1..(Len(bs) - 1)
        /\ \A j \in 1..(Len(bs) - 1) : Skip(k, j) \in DOMAIN bs \ {k} /\ left[j] = bs[Skip(k, j)]
        /\ \A i \in DOMAIN bs \ {k} : \E j \in 1..(Len(bs) - 1) : i = Skip(k, j)
    BY WithoutElements DEF left
  <2> QED
    BY <2>1
<1> HIDE DEF left
<1>6. \A i, j \in DOMAIN left : i < j => Skip(k, i) < Skip(k, j)
  <2>1. k \in Int /\ Len(bs) \in Nat
    OBVIOUS
  <2>2. \A i, j \in 1..(Len(bs) - 1) : i < j => Skip(k, i) < Skip(k, j)
    BY <2>1 DEF Skip
  <2> QED
    BY <1>5, <2>2
<1> USE CapacityAssumption, Kinds DEF Cells
<1>1. at \in ch /\ mem[at] \in Headers /\ at \in Cells
  BY DEF Kept, Laid
<1>2. /\ new \in Buffers
      /\ new[at] \in Headers /\ new[at].extent = mem[at].extent /\ new[at].kill = TRUE
      /\ \A i \in Cells : i # at => new[i] = mem[i]
  BY <1>1 DEF Buffers, Headers
<1>3. \A s \in ch : End(new, s) = End(mem, s) /\ new[s] \in Headers
  BY <1>1, <1>2 DEF End, Laid
<1>4. Laid(new, hd, tl, ch)
  BY <1>3 DEF Laid
<1>7. \A j \in DOMAIN bs \ {k} : bs[j].at # at /\ new[bs[j].at] = mem[bs[j].at]
  <2> SUFFICES ASSUME NEW j \in DOMAIN bs \ {k}
               PROVE  bs[j].at # at
    BY <1>2
  <2>1. j < k \/ k < j
    OBVIOUS
  <2>2. Pos(tl, bs[j].at) < Pos(tl, at) \/ Pos(tl, at) < Pos(tl, bs[j].at)
    BY <2>1 DEF Kept
  <2>3. Pos(tl, at) \in Int
    BY <1>1 DEF Pos
  <2> QED
    BY <2>2, <2>3
<1>8. \A j \in DOMAIN bs \ {k} : /\ bs[j].at \in ch
                                 /\ new[bs[j].at].kill = FALSE
                                 /\ bs[j].bytes <= NodeSize * new[bs[j].at].extent
  BY <1>7 DEF Kept
<1>9. ASSUME NEW j \in DOMAIN bs \ {k}, NEW i \in Cells, bs[j].at < i, i < End(new, bs[j].at)
      PROVE  new[i] = Junk
  <2>1. bs[j].at \in ch /\ i < End(mem, bs[j].at)
    BY <1>3, <1>8, <1>9
  <2>2. mem[i] = Junk
    BY <1>9, <2>1 DEF Kept
  <2>3. i # at
    BY <1>1, <2>2
  <2> QED
    BY <1>2, <2>2, <2>3
<1>10. \A i, j \in DOMAIN bs \ {k} : i < j => Pos(tl, bs[i].at) < Pos(tl, bs[j].at)
  BY DEF Kept
<1>11. ASSUME NEW s \in ch, new[s].kill = FALSE
       PROVE  \E j \in DOMAIN bs \ {k} : bs[j].at = s
  <2>1. s # at /\ mem[s].kill = FALSE
    BY <1>2, <1>11
  <2> QED
    BY <2>1 DEF Kept
<1>12. \A j \in DOMAIN left : /\ left[j].at \in ch
                              /\ new[left[j].at].kill = FALSE
                              /\ left[j].bytes <= NodeSize * new[left[j].at].extent
  BY <1>5, <1>8
<1>13. \A j \in DOMAIN left, i \in Cells :
         left[j].at < i /\ i < End(new, left[j].at) => new[i] = Junk
  BY <1>5, <1>9
<1>14. \A i, j \in DOMAIN left : i < j => Pos(tl, left[i].at) < Pos(tl, left[j].at)
  BY <1>5, <1>6, <1>10
<1>15. \A s \in ch : new[s].kill = FALSE => \E j \in DOMAIN left : left[j].at = s
  <2> SUFFICES ASSUME NEW s \in ch, new[s].kill = FALSE
               PROVE  \E j \in DOMAIN left : left[j].at = s
    OBVIOUS
  <2>1. PICK i \in DOMAIN bs \ {k} : bs[i].at = s
    BY <1>11
  <2>2. PICK j \in DOMAIN left : i = Skip(k, j)
    BY <1>5
  <2> QED
    BY <1>5, <2>1, <2>2
<1>16. Kept(new, tl, ch, left)
  BY <1>12, <1>13, <1>14, <1>15 DEF Kept
<1> QED
  BY <1>2, <1>4, <1>16 DEF left
\* When the node after the oldest one is head, the oldest node is the only one.
LEMMA PopLast ==
    ASSUME NEW mem \in Buffers, NEW hd \in Cells, NEW tl \in Cells, NEW ch \in SUBSET Cells,
           Laid(mem, hd, tl, ch), Wrap(End(mem, tl)) = hd
    PROVE  ch = {tl}
<1> USE CapacityAssumption, Kinds DEF Cells
<1>1. \A s \in ch : End(mem, s) \in Int /\ s < End(mem, s)
  BY DEF Laid, End
<1> SUFFICES ASSUME NEW s \in ch, s # tl PROVE FALSE
  BY DEF Laid
<1>2. CASE s < tl
  BY <1>1, <1>2 DEF Laid, Wrap
<1>3. CASE s > tl
  BY <1>1, <1>3 DEF Laid, Wrap
<1> QED
  BY <1>2, <1>3

\* Otherwise the rest of the ring is laid out from the next node on, in the same order.
LEMMA PopLaid ==
    ASSUME NEW mem \in Buffers, NEW hd \in Cells, NEW tl \in Cells, NEW ch \in SUBSET Cells,
           Laid(mem, hd, tl, ch), Wrap(End(mem, tl)) # hd
    PROVE  LET next == Wrap(End(mem, tl)) IN
             /\ Laid(mem, hd, next, ch \ {tl})
             /\ \A s, t \in ch \ {tl} : Pos(tl, s) < Pos(tl, t) => Pos(next, s) < Pos(next, t)
<1> USE CapacityAssumption, Kinds DEF Cells
<1> DEFINE next == Wrap(End(mem, tl))
<1>1. \A s \in ch : /\ End(mem, s) \in Int /\ s < End(mem, s) /\ End(mem, s) <= Capacity
                    /\ mem[s] \in Headers /\ s \in Int /\ 0 <= s /\ s < Capacity
  BY DEF Laid, End
<1>0. tl \in ch /\ hd \in Int /\ 0 <= hd /\ hd < Capacity
  BY DEF Laid
<1>2. next \in ch /\ next \in Cells /\ next # tl
  BY <1>1 DEF Laid, Wrap
<1>3. \A s \in ch \ {tl} : s < tl \/ s >= End(mem, tl)
  BY <1>0, <1>1 DEF Laid
<1>4. ASSUME End(mem, tl) < Capacity
      PROVE  /\ hd > next => \A s \in ch \ {tl} : next <= s /\ End(mem, s) <= hd
             /\ hd <= next => \A s \in ch \ {tl} : s >= next \/ End(mem, s) <= hd
             /\ \A s, t \in ch \ {tl} : Pos(tl, s) < Pos(tl, t) => Pos(next, s) < Pos(next, t)
  <2>1. next = End(mem, tl)
    BY <1>1, <1>4 DEF Wrap
  <2> HIDE DEF next
  <2>2. hd > next => \A s \in ch \ {tl} : next <= s /\ End(mem, s) <= hd
    BY <1>0, <1>1, <1>2, <1>3, <2>1 DEF Laid
  <2>3. hd <= next => \A s \in ch \ {tl} : s >= next \/ End(mem, s) <= hd
    BY <1>0, <1>1, <1>2, <1>3, <2>1 DEF Laid
  <2>4. \A s \in ch \ {tl} : Pos(next, s) = Pos(tl, s)
    BY <1>0, <1>1, <1>2, <1>3, <2>1 DEF Pos
  <2> QED
    BY <2>2, <2>3, <2>4
<1>5. ASSUME End(mem, tl) = Capacity
      PROVE  /\ hd > next => \A s \in ch \ {tl} : next <= s /\ End(mem, s) <= hd
             /\ hd <= next => \A s \in ch \ {tl} : s >= next \/ End(mem, s) <= hd
             /\ \A s, t \in ch \ {tl} : Pos(tl, s) < Pos(tl, t) => Pos(next, s) < Pos(next, t)
  <2>1. next = 0
    BY <1>5 DEF Wrap
  <2> HIDE DEF next
  <2>2. \A s \in ch \ {tl} : s < tl
    BY <1>0, <1>1, <1>3, <1>5
  <2>3. hd > next => \A s \in ch \ {tl} : next <= s /\ End(mem, s) <= hd
    BY <1>1, <1>2, <2>1, <2>2 DEF Laid
  <2>4. hd <= next => \A s \in ch \ {tl} : s >= next \/ End(mem, s) <= hd
    BY <2>1
  <2>5. \A s, t \in ch \ {tl} : Pos(tl, s) < Pos(tl, t) => Pos(next, s) < Pos(next, t)
    BY <2>1, <2>2 DEF Pos
  <2> QED
    BY <2>3, <2>4, <2>5
<1>6. /\ hd > next => \A s \in ch \ {tl} : next <= s /\ End(mem, s) <= hd
      /\ hd <= next => \A s \in ch \ {tl} : s >= next \/ End(mem, s) <= hd
      /\ \A s, t \in ch \ {tl} : Pos(tl, s) < Pos(tl, t) => Pos(next, s) < Pos(next, t)
  BY <1>0, <1>1, <1>4, <1>5
<1>7. \A s \in ch \ {tl} : Wrap(End(mem, s)) \in (ch \ {tl}) \union {hd}
  <2> SUFFICES ASSUME NEW s \in ch \ {tl}, Wrap(End(mem, s)) = tl
               PROVE  tl = hd
    BY DEF Laid
  <2>1. CASE End(mem, s) = Capacity
    BY <1>0, <1>1, <2>1 DEF Laid, Wrap
  <2>2. CASE End(mem, s) = tl
    BY <1>0, <1>1, <2>2 DEF Laid
  <2> QED
    BY <2>1, <2>2 DEF Wrap
<1>8. Laid(mem, hd, next, ch \ {tl})
  BY <1>1, <1>2, <1>6, <1>7 DEF Laid
<1> QED
  BY <1>6, <1>8
-----------------------------------------------------------------------------
(* The steps *)

BlockType == [at : Cells, bytes : Nat]

\* What Grant does to the buffer and to the blocks.
LEMMA GrantEffect ==
    ASSUME NEW mem \in Buffers, NEW s \in Cells, NEW n \in 0..Capacity, NEW b \in Nat,
           blocks \in Seq(BlockType), s + 1 + n <= Capacity, Grant(mem, s, n, b)
    PROVE  /\ memory' \in Buffers
           /\ memory'[s] \in Headers /\ memory'[s].extent = n /\ memory'[s].kill = FALSE
           /\ \A i \in Cells : s < i /\ i <= s + n => memory'[i] = Junk
           /\ \A i \in Cells : i < s \/ i > s + n => memory'[i] = mem[i]
           /\ head' = Wrap(s + 1 + n) /\ head' \in Cells
           /\ blocks' = Append(blocks, [at |-> s, bytes |-> b])
           /\ blocks' \in Seq(BlockType)
           /\ flushing' = flushing
<1> USE CapacityAssumption DEF Cells
<1>1. [extent |-> n, kill |-> FALSE] \in Headers
  BY DEF Headers
<1>2. memory' = [i \in Cells |-> IF i = s THEN [extent |-> n, kill |-> FALSE]
                                 ELSE IF s < i /\ i <= s + n THEN Junk ELSE mem[i]]
  BY DEF Grant
<1>3. memory' \in Buffers
  BY <1>1, <1>2 DEF Buffers
<1>4. \A i \in Cells : /\ i # s /\ s < i /\ i <= s + n => memory'[i] = Junk
                       /\ i < s \/ i > s + n => memory'[i] = mem[i]
  BY <1>2
<1>5. memory'[s] = [extent |-> n, kill |-> FALSE]
  BY <1>2
<1>6. head' = Wrap(s + 1 + n) /\ head' \in Cells
  BY DEF Grant, Wrap
<1>7. [at |-> s, bytes |-> b] \in BlockType
  BY DEF BlockType
<1>8. blocks' = Append(blocks, [at |-> s, bytes |-> b]) /\ blocks' \in Seq(BlockType)
  BY <1>7, AppendProperties DEF Grant
<1> QED
  BY <1>1, <1>3, <1>4, <1>5, <1>6, <1>8 DEF Grant

\* A grant where there is room in a ring that is laid out keeps the invariant.
LEMMA GrantStep ==
    ASSUME NEW mem \in Buffers, NEW hd \in Cells, NEW tl \in Cells, NEW ch \in SUBSET Cells,
           NEW n \in 0..Capacity, NEW b \in Nat, b <= NodeSize * n,
           blocks \in Seq(BlockType), flushing = FALSE,
           Laid(mem, hd, tl, ch), Kept(mem, tl, ch, blocks), Room(hd, tl, n),
           mem[tl].kill = FALSE,
           Grant(mem, hd, n, b), tail' = tl, chain' = ch \union {hd}
    PROVE  IInv'
<1>1. hd + 1 + n <= Capacity
  BY CapacityAssumption DEF Room, Cells
<1>2. /\ memory' \in Buffers
      /\ memory'[hd] \in Headers /\ memory'[hd].extent = n /\ memory'[hd].kill = FALSE
      /\ \A i \in Cells : hd < i /\ i <= hd + n => memory'[i] = Junk
      /\ \A i \in Cells : i < hd \/ i > hd + n => memory'[i] = mem[i]
      /\ head' = Wrap(hd + 1 + n) /\ head' \in Cells
      /\ blocks' = Append(blocks, [at |-> hd, bytes |-> b])
      /\ blocks' \in Seq(BlockType)
      /\ flushing' = flushing
  BY <1>1, GrantEffect
<1>3. \A s \in ch : End(mem, s) \in Int /\ s < End(mem, s) /\ (End(mem, s) <= hd \/ s > hd + n)
  BY PlaceApart
<1>4. \A s \in ch : memory'[s] = mem[s]
  <2> SUFFICES ASSUME NEW s \in ch PROVE s < hd \/ s > hd + n
    BY <1>2
  <2> QED
    BY <1>3, CapacityAssumption DEF Cells
<1>5. Laid(memory', head', tl, ch \union {hd}) /\ hd \notin ch
  BY <1>2, <1>4, PlaceLaid
<1>6. Kept(memory', tl, ch \union {hd}, blocks')
  <2>1. n \in Nat /\ blocks \in Seq([at : Cells, bytes : Nat])
    BY CapacityAssumption DEF BlockType
  <2>2. Kept(memory', tl, ch \union {hd}, Append(blocks, [at |-> hd, bytes |-> b]))
    BY <1>2, <2>1, GrantKept
  <2> QED
    BY <1>2, <2>2
<1>7. tl \in ch /\ memory'[tl].kill = FALSE
  BY <1>4 DEF Laid
<1>8. TypeOK'
  BY <1>2 DEF TypeOK, Buffers, BlockType
<1>9. head' # Null
  BY <1>2, NullAssumption DEF Cells
<1> QED
  BY <1>5, <1>6, <1>7, <1>8, <1>9 DEF IInv

\* The types of IInv, as the lemmas need them.
LEMMA Types ==
    ASSUME IInv
    PROVE  /\ memory \in Buffers /\ chain \in SUBSET Cells /\ blocks \in Seq(BlockType)
           /\ flushing \in BOOLEAN
           /\ head # Null => /\ head \in Cells /\ tail \in Cells
                             /\ Laid(memory, head, tail, chain)
                             /\ Kept(memory, tail, chain, blocks)
           /\ head = Null => tail = Null /\ chain = {} /\ blocks = <<>>
           /\ tail \in Cells \union {Null}
           /\ ~flushing /\ head # Null => memory[tail].kill = FALSE
<1>1. /\ memory \in Buffers /\ chain \in SUBSET Cells /\ blocks \in Seq(BlockType)
      /\ flushing \in BOOLEAN /\ head \in Cells \union {Null} /\ tail \in Cells \union {Null}
  BY DEF IInv, TypeOK, Buffers, BlockType
<1>2. Null \notin Cells
  BY NullAssumption DEF Cells
<1>3. head # Null => tail \in chain /\ tail \in Cells
  BY <1>1 DEF IInv, Laid
<1> QED
  BY <1>1, <1>2, <1>3 DEF IInv

\* allocate in an empty ring
LEMMA FirstStep ==
    ASSUME IInv, NEW bytes \in Nat, ~flushing, AllocateFirst(bytes)
    PROVE  IInv'
<1> DEFINE n == NodeSizeCeil(bytes)
<1>1. n \in 0..Capacity /\ 0 + 1 + n <= Capacity /\ bytes <= NodeSize * n
  BY CapacityAssumption, CeilBounds DEF AllocateFirst
<1> HIDE DEF n
<1>2. Grant(memory, 0, n, bytes) /\ tail' = 0 /\ chain' = {0}
  BY DEF AllocateFirst, n
<1>3. memory \in Buffers /\ blocks \in Seq(BlockType) /\ 0 \in Cells
  BY CapacityAssumption, Types DEF AllocateFirst, Cells
<1>11. blocks = <<>>
  BY Types DEF AllocateFirst
<1>4. /\ memory' \in Buffers
      /\ memory'[0] \in Headers /\ memory'[0].extent = n /\ memory'[0].kill = FALSE
      /\ \A i \in Cells : 0 < i /\ i <= 0 + n => memory'[i] = Junk
      /\ head' = Wrap(0 + 1 + n) /\ head' \in Cells
      /\ blocks' = Append(blocks, [at |-> 0, bytes |-> bytes])
      /\ blocks' \in Seq(BlockType)
      /\ flushing' = flushing
  <2>1. PICK s \in Cells, mem \in Buffers : s = 0 /\ mem = memory
    BY <1>3
  <2>2. Grant(mem, s, n, bytes) /\ s + 1 + n <= Capacity
    BY <1>1, <1>2, <2>1 DEF Grant
  <2>3. /\ memory' \in Buffers
        /\ memory'[s] \in Headers /\ memory'[s].extent = n /\ memory'[s].kill = FALSE
        /\ \A i \in Cells : s < i /\ i <= s + n => memory'[i] = Junk
        /\ \A i \in Cells : i < s \/ i > s + n => memory'[i] = mem[i]
        /\ head' = Wrap(s + 1 + n) /\ head' \in Cells
        /\ blocks' = Append(blocks, [at |-> s, bytes |-> bytes])
        /\ blocks' \in Seq(BlockType)
        /\ flushing' = flushing
    <3>1. n \in 0..Capacity
      BY <1>1
    <3>2. blocks \in Seq(BlockType)
      BY <1>3
    <3> QED
      BY <2>2, <3>1, <3>2, GrantEffect
  <2> QED
    BY <2>1, <2>3
<1> USE CapacityAssumption, Kinds DEF Cells
<1>5. End(memory', 0) = 1 + n
  BY <1>1, <1>4 DEF End
<1>6. Laid(memory', head', 0, {0})
  BY <1>1, <1>4, <1>5 DEF Laid, Wrap
<1>7. DOMAIN blocks' = {1} /\ blocks'[1] = [at |-> 0, bytes |-> bytes]
  BY <1>11, <1>4
<1>8. Kept(memory', 0, {0}, blocks')
  <2>1. \A k \in DOMAIN blocks' : blocks'[k].at = 0 /\ blocks'[k].bytes = bytes
    BY <1>7
  <2>2. \A j, k \in DOMAIN blocks' : ~(j < k)
    BY <1>7
  <2>3. \A i \in Cells : 0 < i /\ i < End(memory', 0) => memory'[i] = Junk
    BY <1>1, <1>4, <1>5
  <2>4. 1 \in DOMAIN blocks'
    BY <1>7
  <2> QED
    BY <1>1, <1>4, <2>1, <2>2, <2>3, <2>4 DEF Kept
<1>9. TypeOK'
  BY <1>2, <1>3, <1>4, Types DEF TypeOK, Buffers, BlockType
<1>10. head' # Null
  BY <1>4, NullAssumption
<1> QED
  BY <1>2, <1>4, <1>6, <1>8, <1>9, <1>10 DEF IInv

\* allocate behind head, at the end of the buffer
LEMMA AtEndStep ==
    ASSUME IInv, NEW bytes \in Nat, ~flushing, AllocateAtEnd(bytes)
    PROVE  IInv'
<1> DEFINE n == NodeSizeCeil(bytes)
<1>1. /\ memory \in Buffers /\ head \in Cells /\ tail \in Cells /\ chain \in SUBSET Cells
      /\ blocks \in Seq(BlockType) /\ flushing = FALSE /\ memory[tail].kill = FALSE
      /\ Laid(memory, head, tail, chain) /\ Kept(memory, tail, chain, blocks)
  BY Types DEF AllocateAtEnd
<1>2. n \in Nat /\ bytes <= NodeSize * n
  BY CeilBounds
<1> HIDE DEF n
<1>3. /\ Grant(memory, head, n, bytes) /\ tail' = tail /\ chain' = chain \union {head}
      /\ head > tail /\ n <= Capacity - head - 1
  BY DEF AllocateAtEnd, EndSpace, n
<1>4. Room(head, tail, n) /\ n \in 0..Capacity
  BY <1>1, <1>2, <1>3, CapacityAssumption DEF Room, Cells
<1> QED
  BY <1>1, <1>2, <1>3, <1>4, GrantStep

\* allocate between head and tail
LEMMA BetweenStep ==
    ASSUME IInv, NEW bytes \in Nat, ~flushing, AllocateBetween(bytes)
    PROVE  IInv'
<1> DEFINE n == NodeSizeCeil(bytes)
<1>1. /\ memory \in Buffers /\ head \in Cells /\ tail \in Cells /\ chain \in SUBSET Cells
      /\ blocks \in Seq(BlockType) /\ flushing = FALSE /\ memory[tail].kill = FALSE
      /\ Laid(memory, head, tail, chain) /\ Kept(memory, tail, chain, blocks)
  BY Types DEF AllocateBetween
<1>2. n \in Nat /\ bytes <= NodeSize * n
  BY CeilBounds
<1> HIDE DEF n
<1>3. /\ Grant(memory, head, n, bytes) /\ tail' = tail /\ chain' = chain \union {head}
      /\ head < tail /\ n <= tail - head - 1
  BY DEF AllocateBetween, FrontSpace, n
<1>4. Room(head, tail, n) /\ n \in 0..Capacity
  BY <1>1, <1>2, <1>3, CapacityAssumption DEF Room, Cells
<1> QED
  BY <1>1, <1>2, <1>3, <1>4, GrantStep

\* The dummy closes the end of the buffer; the block, if any, goes to the front.
LEMMA AroundStep ==
    ASSUME IInv, NEW bytes \in Nat, ~flushing, AllocateAround(bytes)
    PROVE  IInv'
<1> DEFINE n      == NodeSizeCeil(bytes)
           filled == [memory EXCEPT ![head] = Dummy(EndSpace)]
<1>1. /\ memory \in Buffers /\ head \in Cells /\ tail \in Cells /\ chain \in SUBSET Cells
      /\ blocks \in Seq(BlockType) /\ flushing = FALSE /\ memory[tail].kill = FALSE
      /\ Laid(memory, head, tail, chain) /\ Kept(memory, tail, chain, blocks)
  BY Types DEF AllocateAround
<1>2. n \in Nat /\ bytes <= NodeSize * n
  BY CeilBounds
<1>3. head > tail /\ tail # 0 /\ tail' = tail
  BY DEF AllocateAround
<1>4. EndSpace \in 0..Capacity /\ Dummy(EndSpace) \in Headers
  BY <1>1, CapacityAssumption DEF EndSpace, Dummy, Headers, Cells
<1>5. /\ filled \in Buffers
      /\ filled[head] = Dummy(EndSpace)
      /\ \A i \in Cells : i # head => filled[i] = memory[i]
  BY <1>1, <1>4 DEF Buffers
<1>6. filled[head] \in Headers /\ filled[head].extent = EndSpace /\ filled[head].kill = TRUE
  BY <1>4, <1>5 DEF Dummy
<1>7. \/ n <= FrontSpace(0) /\ Grant(filled, 0, n, bytes) /\ chain' = chain \union {head, 0}
      \/ /\ memory' = filled /\ head' = 0 /\ chain' = chain \union {head}
         /\ UNCHANGED <<flushing, blocks>>
  BY DEF AllocateAround
<1> HIDE DEF n, filled
<1>8. Room(head, tail, EndSpace) /\ Room(head, tail, 0) /\ Wrap(head + 1 + EndSpace) = 0
  BY <1>1, <1>3, CapacityAssumption DEF Room, EndSpace, Wrap, Cells
<1>9. \A s \in chain : filled[s] = memory[s]
  <2>1. \A s \in chain : End(memory, s) \in Int /\ s < End(memory, s)
                           /\ (End(memory, s) <= head \/ s > head + 0)
    BY <1>1, <1>8, PlaceApart
  <2> QED
    BY <1>1, <1>5, <2>1 DEF Cells
<1>10. Laid(filled, 0, tail, chain \union {head})
  <2>1. EndSpace \in Nat
    BY <1>4, CapacityAssumption
  <2>2. Laid(filled, Wrap(head + 1 + EndSpace), tail, chain \union {head})
    BY <1>1, <1>5, <1>6, <1>8, <1>9, <2>1, PlaceLaid
  <2> QED
    BY <1>8, <2>2
<1>11. Kept(filled, tail, chain \union {head}, blocks)
  <2>1. blocks \in Seq([at : Cells, bytes : Nat])
    BY <1>1 DEF BlockType
  <2> QED
    BY <1>1, <1>5, <1>6, <1>8, <2>1, FillKept
<1>12. filled[tail].kill = FALSE /\ chain \union {head} \in SUBSET Cells
  BY <1>1, <1>9 DEF Laid
<1>13. CASE /\ n <= FrontSpace(0) /\ Grant(filled, 0, n, bytes)
            /\ chain' = chain \union {head, 0}
  <2>1. PICK f \in Cells : f = 0
    BY CapacityAssumption DEF Cells
  <2>2. /\ Laid(filled, f, tail, chain \union {head}) /\ Grant(filled, f, n, bytes)
        /\ chain' = (chain \union {head}) \union {f}
    BY <1>10, <1>13, <2>1
  <2>3. Room(f, tail, n) /\ n \in 0..Capacity
    BY <1>1, <1>2, <1>3, <1>13, <2>1, CapacityAssumption DEF Room, FrontSpace, Cells
  <2>4. tail' = tail /\ n \in 0..Capacity /\ bytes <= NodeSize * n
    BY <1>2, <1>3, <2>3
  <2> QED
    BY <1>1, <1>5, <1>11, <1>12, <2>2, <2>3, <2>4, GrantStep
<1>14. CASE /\ memory' = filled /\ head' = 0 /\ chain' = chain \union {head}
            /\ UNCHANGED <<flushing, blocks>>
  <2>1. 0 \in Cells /\ 0 # Null /\ 0 \in Int
    BY CapacityAssumption, NullAssumption DEF Cells
  <2>2. TypeOK'
    BY <1>1, <1>3, <1>5, <1>12, <1>14, <2>1 DEF TypeOK, Buffers, BlockType
  <2>3. Laid(memory', head', tail', chain') /\ Kept(memory', tail', chain', blocks')
    BY <1>3, <1>10, <1>11, <1>14
  <2>4. memory'[tail'].kill = FALSE
    BY <1>3, <1>12, <1>14
  <2> QED
    BY <1>14, <2>1, <2>2, <2>3, <2>4 DEF IInv
<1> QED
  BY <1>7, <1>13, <1>14

\* deallocate, of any block
LEMMA DeallocateStep ==
    ASSUME IInv, NEW k \in DOMAIN blocks, Deallocate(k)
    PROVE  IInv'
<1>1. /\ memory \in Buffers /\ chain \in SUBSET Cells /\ blocks \in Seq(BlockType)
      /\ head # Null => /\ head \in Cells /\ tail \in Cells
                        /\ Laid(memory, head, tail, chain)
                        /\ Kept(memory, tail, chain, blocks)
      /\ head = Null => blocks = <<>>
  BY Types
<1>2. head # Null
  BY <1>1
<1>3. /\ memory' = [memory EXCEPT ![blocks[k].at].kill = TRUE]
      /\ blocks' = Without(blocks, k)
      /\ flushing' = TRUE /\ head' = head /\ tail' = tail /\ chain' = chain
  BY DEF Deallocate, Without
<1>4. blocks \in Seq([at : Cells, bytes : Nat])
  BY <1>1 DEF BlockType
<1>5. memory' \in Buffers /\ Laid(memory', head, tail, chain) /\ Kept(memory', tail, chain, Without(blocks, k))
  BY <1>1, <1>2, <1>3, <1>4, MarkKept
<1>6. Without(blocks, k) \in Seq([at : Cells, bytes : Nat])
  BY <1>4, WithoutElements
<1>7. TypeOK'
  BY <1>1, <1>2, <1>3, <1>5, <1>6 DEF TypeOK, Buffers
<1> QED
  BY <1>2, <1>3, <1>5, <1>7 DEF IInv

\* The loop of deallocate over the nodes that are marked
LEMMA FlushStep ==
    ASSUME IInv, FlushRing
    PROVE  IInv'
<1>1. /\ memory \in Buffers /\ chain \in SUBSET Cells /\ blocks \in Seq(BlockType)
      /\ head # Null => /\ head \in Cells /\ tail \in Cells
                        /\ Laid(memory, head, tail, chain)
                        /\ Kept(memory, tail, chain, blocks)
      /\ head = Null => tail = Null /\ chain = {} /\ blocks = <<>>
      /\ tail \in Cells \union {Null}
  BY Types
<1>2. memory' = memory /\ blocks' = blocks
  BY DEF FlushRing
<1>3. CASE tail # Null /\ memory[tail].kill
  <2> DEFINE next == Wrap(End(memory, tail))
  <2>1. /\ tail' = IF next = head THEN Null ELSE next
        /\ head' = IF next = head THEN Null ELSE head
        /\ chain' = chain \ {tail} /\ flushing' = TRUE
    BY <1>3 DEF FlushRing, KeepFlushing, End, After
  <2>2. /\ head # Null /\ head \in Cells /\ tail \in Cells
        /\ Laid(memory, head, tail, chain) /\ Kept(memory, tail, chain, blocks)
    BY <1>1, <1>3
  <2>3. CASE next = head
    <3>1. chain = {tail}
      BY <1>1, <2>2, <2>3, PopLast
    <3>2. blocks = <<>>
      <4>1. \A k \in DOMAIN blocks : blocks[k].at \in chain /\ memory[blocks[k].at].kill = FALSE
        BY <2>2 DEF Kept
      <4>2. DOMAIN blocks = {}
        BY <1>3, <3>1, <4>1
      <4> QED
        BY <1>1, <4>2
    <3>3. TypeOK'
      BY <1>1, <1>2, <2>1, <2>3 DEF TypeOK, Buffers, BlockType
    <3> QED
      BY <1>2, <2>1, <2>3, <3>1, <3>2, <3>3 DEF IInv
  <2>4. CASE next # head
    <3>1. /\ Laid(memory, head, next, chain \ {tail})
          /\ \A s, t \in chain \ {tail} : Pos(tail, s) < Pos(tail, t) => Pos(next, s) < Pos(next, t)
      BY <1>1, <2>2, <2>4, PopLaid
    <3> HIDE DEF next
    <3>2. \A k \in DOMAIN blocks : blocks[k].at \in chain \ {tail}
      BY <1>3, <2>2 DEF Kept
    <3>3. \A j, k \in DOMAIN blocks : j < k => Pos(next, blocks[j].at) < Pos(next, blocks[k].at)
      BY <2>2, <3>1, <3>2 DEF Kept
    <3>4. Kept(memory, next, chain \ {tail}, blocks)
      BY <2>2, <3>2, <3>3 DEF Kept
    <3>5. next \in chain
      BY <3>1 DEF Laid
    <3>6. TypeOK'
      BY <1>1, <1>2, <2>1, <2>2, <2>4, <3>5 DEF TypeOK, Buffers, BlockType
    <3> QED
      BY <1>2, <2>1, <2>2, <2>4, <3>1, <3>4, <3>6 DEF IInv
  <2> QED
    BY <2>3, <2>4
<1>4. CASE ~(tail # Null /\ memory[tail].kill)
  <2>1. flushing' = FALSE /\ head' = head /\ tail' = tail /\ chain' = chain
    BY <1>4 DEF FlushRing
  <2>2. tail # Null => memory[tail].kill = FALSE
    <3>1. tail # Null => tail \in chain /\ memory[tail] \in Headers
      BY <1>1 DEF Laid
    <3> QED
      BY <1>4, <3>1, Kinds
  <2> QED
    BY <1>2, <2>1, <2>2 DEF IInv, TypeOK
<1> QED
  BY <1>3, <1>4

-----------------------------------------------------------------------------
(* The theorems *)

\* The inductive invariant holds in every reachable state.
THEOREM Invariance == Spec => []IInv
<1>1. Init => IInv
  <2> SUFFICES ASSUME Init PROVE IInv
    OBVIOUS
  <2>1. [extent |-> 0, kill |-> FALSE] \in Headers
    BY CapacityAssumption DEF Headers
  <2>2. memory \in [Cells -> Headers \union {Junk}]
    BY <2>1 DEF Init
  <2>3. blocks \in Seq([at : Cells, bytes : Nat])
    BY DEF Init
  <2>4. TypeOK
    BY <2>2, <2>3 DEF Init, TypeOK
  <2> QED
    BY <2>4 DEF Init, IInv
<1>2. IInv /\ [Next]_vars => IInv'
  <2> SUFFICES ASSUME IInv, [Next]_vars PROVE IInv'
    OBVIOUS
  <2>1. ASSUME NEW bytes \in Requests, Allocate(bytes) PROVE IInv'
    <3>1. bytes \in Nat
      BY RequestsAssumption
    <3> QED
      BY <2>1, <3>1, FirstStep, AtEndStep, AroundStep, BetweenStep DEF Allocate
  <2>2. ASSUME NEW k \in DOMAIN blocks, Deallocate(k) PROVE IInv'
    BY <2>2, DeallocateStep
  <2>3. CASE FlushRing
    BY <2>3, FlushStep
  <2>4. CASE UNCHANGED vars
    BY <2>4 DEF vars, IInv, TypeOK, Laid, Kept, End, Pos
  <2> QED
    BY <2>1, <2>2, <2>3, <2>4 DEF Next
<1> QED
  BY <1>1, <1>2, PTL DEF Spec

\* Every variable of the allocator keeps its type: in particular head and tail never
\* leave the buffer and no header in use claims more cells than the buffer has.
THEOREM TypeCorrect == Spec => []TypeOK
<1>1. IInv => TypeOK
  BY DEF IInv
<1> QED
  BY <1>1, Invariance, PTL

\* The blocks in use are whole and disjoint, whatever was asked for and returned.
THEOREM BlocksStayIntact == Spec => []BlocksIntact
<1>1. IInv => BlocksIntact
  <2> SUFFICES ASSUME IInv, NEW k \in DOMAIN blocks PROVE BlockIntact(k)
    BY DEF BlocksIntact
  <2>1. /\ memory \in Buffers /\ chain \in SUBSET Cells
        /\ Laid(memory, head, tail, chain) /\ Kept(memory, tail, chain, blocks)
    BY Types
  <2>2. \A j \in DOMAIN blocks : /\ Node(j) \in chain
                                 /\ blocks[j].bytes <= NodeSize * memory[Node(j)].extent
                                 /\ \A i \in Cells : Node(j) < i /\ i < End(memory, Node(j))
                                                       => memory[i] = Junk
    BY <2>1 DEF Kept, Node
  <2>3. \A s \in chain : /\ memory[s] \in Headers /\ memory[s].extent \in Nat
                         /\ s \in Int /\ 0 <= s /\ s + 1 + memory[s].extent <= Capacity
                         /\ End(memory, s) = s + 1 + memory[s].extent
    BY <2>1, Kinds, CapacityAssumption DEF Laid, End, Cells
  <2>4. \A s, t \in chain : s < t => s + 1 + memory[s].extent <= t
    BY <2>1 DEF Laid, End
  <2>5. ASSUME NEW i \in DataCells(k)
        PROVE  i \in Cells /\ memory[i] = Junk /\ i \notin chain
    <3>1. PICK s \in chain : s = Node(k)
      BY <2>2
    <3>2. i \in Int /\ s < i /\ i < s + 1 + memory[s].extent
      BY <2>3, <2>5, <3>1 DEF DataCells
    <3>3. i \in Cells
      BY <2>3, <3>2, CapacityAssumption DEF Cells
    <3>4. memory[i] = Junk
      BY <2>2, <2>3, <3>1, <3>2, <3>3
    <3>5. i \notin chain
      BY <2>3, <2>4, <3>2
    <3> QED
      BY <3>3, <3>4, <3>5
  <2>6. ASSUME NEW j \in DOMAIN blocks \ {k}
        PROVE  Node(j) # Node(k) /\ DataCells(j) \intersect DataCells(k) = {}
    <3>1. Node(j) # Node(k)
      <4>1. j < k \/ k < j
        BY <2>1, Types
      <4>2. Pos(tail, Node(j)) < Pos(tail, Node(k)) \/ Pos(tail, Node(k)) < Pos(tail, Node(j))
        BY <2>1, <4>1 DEF Kept, Node
      <4>3. PICK s \in chain : s = Node(k)
        BY <2>2
      <4>4. Pos(tail, s) \in Int
        BY <2>1, <2>3, CapacityAssumption DEF Pos, Cells
      <4> QED
        BY <4>2, <4>3, <4>4
    <3>2. PICK s \in chain, t \in chain : s = Node(j) /\ t = Node(k)
      BY <2>2
    <3>3. s + 1 + memory[s].extent <= t \/ t + 1 + memory[t].extent <= s
      BY <2>3, <2>4, <3>1, <3>2
    <3>4. (s + 1)..(s + memory[s].extent) \intersect (t + 1)..(t + memory[t].extent) = {}
      BY <2>3, <3>3
    <3> QED
      BY <3>1, <3>2, <3>4 DEF DataCells
  <2>7. memory[Node(k)] \in Headers
    BY <2>2, <2>3
  <2> QED
    BY <2>2, <2>5, <2>6, <2>7 DEF BlockIntact
<1> QED
  BY <1>1, Invariance, PTL

\* front() is the oldest block in use.
THEOREM FrontStaysOldest == Spec => []FrontIsOldest
<1>1. IInv => FrontIsOldest
  <2> SUFFICES ASSUME IInv, ~flushing, tail # Null
               PROVE  blocks # <<>> /\ tail = Node(1)
    BY DEF FrontIsOldest
  <2>1. /\ chain \in SUBSET Cells /\ blocks \in Seq(BlockType)
        /\ Laid(memory, head, tail, chain) /\ Kept(memory, tail, chain, blocks)
        /\ memory[tail].kill = FALSE /\ tail \in chain
    BY Types DEF Laid
  <2>2. PICK k \in DOMAIN blocks : blocks[k].at = tail
    BY <2>1 DEF Kept
  <2>3. k \in 1..Len(blocks) /\ 1 \in DOMAIN blocks /\ blocks # <<>>
    BY <2>1, <2>2
  <2>4. CASE k = 1
    BY <2>2, <2>3, <2>4 DEF Node
  <2>5. CASE 1 < k
    <3>1. Pos(tail, blocks[1].at) < Pos(tail, tail)
      BY <2>1, <2>2, <2>3, <2>5 DEF Kept
    <3>2. PICK s \in chain : s = blocks[1].at
      BY <2>1, <2>3 DEF Kept
    <3>3. Pos(tail, s) < Pos(tail, tail)
      BY <3>1, <3>2
    <3> QED
      BY <2>1, <3>3, CapacityAssumption DEF Pos, Cells
  <2> QED
    BY <2>3, <2>4, <2>5
<1> QED
  BY <1>1, Invariance, PTL

\* When every block was returned, nothing of the ring is left in use.
THEOREM NothingIsLost == Spec => []EmptiesWhenReturned
<1>1. IInv => EmptiesWhenReturned
  <2> SUFFICES ASSUME IInv, ~flushing, blocks = <<>>
               PROVE  head = Null /\ tail = Null
    BY DEF EmptiesWhenReturned
  <2> SUFFICES ASSUME head # Null PROVE FALSE
    BY DEF IInv
  <2>1. Kept(memory, tail, chain, blocks) /\ memory[tail].kill = FALSE /\ tail \in chain
    BY Types DEF Laid
  <2>2. \E k \in DOMAIN blocks : blocks[k].at = tail
    BY <2>1 DEF Kept
  <2> QED
    BY <2>2
<1> QED
  BY <1>1, Invariance, PTL
\* The nodes follow each other from tail to head without a gap.
THEOREM StaysTiled == Spec => []Tiled
<1>1. IInv => Tiled
  <2> SUFFICES ASSUME IInv PROVE Tiled
    OBVIOUS
  <2>1. CASE head = Null
    BY <2>1 DEF IInv, Tiled
  <2>2. CASE head # Null
    <3>1. Laid(memory, head, tail, chain)
      BY <2>2, Types
    <3> QED
      BY <2>2, <3>1 DEF Tiled, Laid, End, After
  <2> QED
    BY <2>1, <2>2
<1> QED
  BY <1>1, Invariance, PTL

-----------------------------------------------------------------------------
(* Pool                                                                     *)

P == INSTANCE Pool

-----------------------------------------------------------------------------
(* Lists of nodes                                                           *)

\* Taking the first node of a list leaves the others, each as often as before.
LEMMA TailKeeps ==
    ASSUME NEW s \in Seq(Nodes), s # <<>>, IsInjective(s)
    PROVE  /\ Head(s) \in Nodes /\ Tail(s) \in Seq(Nodes) /\ Head(s) \in ToSet(s)
           /\ IsInjective(Tail(s))
           /\ ToSet(Tail(s)) = ToSet(s) \ {Head(s)}
<1>1. /\ Head(s) \in Nodes /\ Tail(s) \in Seq(Nodes)
      /\ Len(Tail(s)) = Len(s) - 1
      /\ \A i \in 1 .. Len(Tail(s)) : Tail(s)[i] = s[i + 1]
  BY HeadTailProperties
<1>2. Len(s) \in Nat /\ Len(s) > 0 /\ DOMAIN s = 1 .. Len(s)
  BY EmptySeq, LenProperties
<1>3. DOMAIN Tail(s) = 1 .. Len(s) - 1
  BY <1>1, LenProperties
<1>4. Head(s) = s[1]
  BY <1>2
<1>5. IsInjective(Tail(s))
  BY <1>1, <1>2, <1>3 DEF IsInjective
<1>6. ToSet(Tail(s)) \subseteq ToSet(s) \ {Head(s)}
  BY <1>1, <1>2, <1>3, <1>4 DEF ToSet, IsInjective
<1>7. ASSUME NEW n \in ToSet(s) \ {Head(s)} PROVE n \in ToSet(Tail(s))
  <2>1. PICK i \in 1 .. Len(s) : s[i] = n /\ i # 1
    BY <1>2, <1>4 DEF ToSet
  <2>2. i - 1 \in DOMAIN Tail(s) /\ Tail(s)[i - 1] = n
    BY <1>1, <1>2, <1>3, <2>1
  <2>3. QED
    BY <2>2 DEF ToSet
<1>8. QED
  BY <1>1, <1>2, <1>4, <1>5, <1>6, <1>7 DEF ToSet

\* A node put before a list that does not have it.
LEMMA ConsKeeps ==
    ASSUME NEW s \in Seq(Nodes), IsInjective(s), NEW n \in Nodes, n \notin ToSet(s)
    PROVE  /\ <<n>> \o s \in Seq(Nodes)
           /\ <<n>> \o s # <<>>
           /\ IsInjective(<<n>> \o s)
           /\ ToSet(<<n>> \o s) = ToSet(s) \union {n}
<1> DEFINE c == <<n>> \o s
<1>1. <<n>> \in Seq(Nodes) /\ Len(<<n>>) = 1 /\ <<n>>[1] = n
  OBVIOUS
<1>2. /\ c \in Seq(Nodes) /\ Len(c) = 1 + Len(s)
      /\ \A i \in 1 .. 1 + Len(s) : c[i] = IF i <= 1 THEN n ELSE s[i - 1]
  <2>1. /\ c \in Seq(Nodes) /\ Len(c) = Len(<<n>>) + Len(s)
        /\ \A i \in 1 .. Len(<<n>>) + Len(s) :
              c[i] = IF i <= Len(<<n>>) THEN <<n>>[i] ELSE s[i - Len(<<n>>)]
    BY <1>1, ConcatProperties
  <2>2. \A i \in 1 .. 1 + Len(s) : i <= 1 => i = 1
    BY LenProperties
  <2>3. QED
    BY <1>1, <2>1, <2>2
<1>3. Len(s) \in Nat /\ DOMAIN s = 1 .. Len(s) /\ DOMAIN c = 1 .. 1 + Len(s)
  BY <1>2, LenProperties
<1> HIDE DEF c
<1>4. c # <<>>
  BY <1>2, <1>3
<1>5. IsInjective(c)
  <2>1. SUFFICES ASSUME NEW i \in 1 .. 1 + Len(s), NEW j \in 1 .. 1 + Len(s), c[i] = c[j]
                 PROVE  i = j
    BY <1>3 DEF IsInjective
  <2>2. \A k \in 1 .. 1 + Len(s) : k > 1 => k - 1 \in DOMAIN s /\ c[k] = s[k - 1] /\ c[k] # n
    BY <1>2, <1>3 DEF ToSet
  <2>3. c[1] = n
    BY <1>2, <1>3
  <2>4. CASE i = 1 \/ j = 1
    BY <1>3, <2>1, <2>2, <2>3, <2>4
  <2>5. CASE i > 1 /\ j > 1
    BY <1>3, <2>1, <2>2, <2>5 DEF IsInjective
  <2>6. QED
    BY <1>3, <2>4, <2>5
<1>6. ToSet(c) = ToSet(s) \union {n}
  <2>1. ASSUME NEW m \in ToSet(c) PROVE m \in ToSet(s) \union {n}
    BY <1>2, <1>3, <2>1 DEF ToSet
  <2>2. n \in ToSet(c)
    BY <1>2, <1>3 DEF ToSet
  <2>3. ASSUME NEW i \in DOMAIN s PROVE s[i] \in ToSet(c)
    <3>1. i + 1 \in DOMAIN c /\ c[i + 1] = s[i]
      BY <1>2, <1>3
    <3>2. QED
      BY <3>1 DEF ToSet
  <2>4. QED
    BY <2>1, <2>2, <2>3 DEF ToSet
<1>7. QED
  BY <1>2, <1>4, <1>5, <1>6 DEF c

\* The empty list
LEMMA NoNodes == <<>> \in Seq(Nodes) /\ IsInjective(<<>>) /\ ToSet(<<>>) = {}
BY EmptySeq DEF IsInjective, ToSet

-----------------------------------------------------------------------------
(* The inductive invariant                                                  *)

PoolTypes ==
    /\ None \notin Nodes \union Pools
    /\ alive \subseteq Pools /\ idle \in [Pools -> Seq(Nodes)]
    /\ owner \in [Nodes -> Pools \union {None}]
    /\ made \subseteq Nodes /\ freed \subseteq made
    /\ held \in [Threads -> SUBSET Nodes]
    /\ pc \in [Threads -> {"idle", "push", "unpin", "clear"}]
    /\ pin \in [Threads -> Pools \union {None}]
    /\ node \in [Threads -> Nodes \union {None}]
    /\ list \in [Threads -> Seq(Nodes)]

\* What a thread has at each step of checkin and of clear_all_idle.
InOrder == \A t \in Threads :
    /\ pin[t] # None <=> pc[t] \in {"push", "unpin"}
    /\ node[t] # None <=> pc[t] = "push"
    /\ pc[t] = "push" => owner[node[t]] = pin[t]
    /\ list[t] # <<>> => pc[t] = "clear"

\* No two of the places have a node in common.
HeldApart == \A t, u \in Threads :
    /\ t # u => held[t] \intersect held[u] = {}
    /\ node[t] \notin held[u]
    /\ node[t] = node[u] /\ node[t] # None => t = u
    /\ ToSet(list[t]) \intersect held[u] = {}
    /\ node[u] \notin ToSet(list[t])
    /\ t # u => ToSet(list[t]) \intersect ToSet(list[u]) = {}
IdleApart == \A p \in Pools :
    /\ \A q \in Pools : p # q => ToSet(idle[p]) \intersect ToSet(idle[q]) = {}
    /\ \A t \in Threads : /\ ToSet(idle[p]) \intersect held[t] = {}
                          /\ ToSet(idle[p]) \intersect ToSet(list[t]) = {}
                          /\ node[t] \notin ToSet(idle[p])
NoneTwice == (\A p \in Pools : IsInjective(idle[p])) /\ (\A t \in Threads : IsInjective(list[t]))

\* The allocated nodes are those that are somewhere.
Somewhere(n) ==
    \/ \E t \in Threads : n \in held[t] \/ node[t] = n \/ n \in ToSet(list[t])
    \/ \E p \in Pools : n \in ToSet(idle[p])
NoneLost == \A n \in Nodes : n \in made \ freed <=> Somewhere(n)

PoolInv == PoolTypes /\ InOrder /\ HeldApart /\ IdleApart /\ NoneTwice /\ NoneLost /\ NoneForgotten

\* checkout of an idle node moves it from the list of its base to a pool_ptr.
LEMMA CheckoutIdle ==
    ASSUME PoolInv, NEW t \in Threads, NEW p \in Pools, P!Checkout(t, p), idle[p] # <<>>
    PROVE  PoolInv'
<1> USE DEF PoolInv, PoolTypes, InOrder
<1>1. /\ held' = [held EXCEPT ![t] = @ \union {Head(idle[p])}]
      /\ idle' = [idle EXCEPT ![p] = Tail(@)]
      /\ UNCHANGED <<alive, owner, made, freed, pc, pin, node, list>>
  BY DEF P!Checkout, P!Hold
<1>2. /\ Head(idle[p]) \in ToSet(idle[p]) /\ Head(idle[p]) \in Nodes /\ Tail(idle[p]) \in Seq(Nodes)
      /\ IsInjective(Tail(idle[p])) /\ ToSet(Tail(idle[p])) = ToSet(idle[p]) \ {Head(idle[p])}
  BY TailKeeps DEF NoneTwice
<1>3. \A q \in Pools : ToSet(idle'[q]) = IF q = p THEN ToSet(idle[q]) \ {Head(idle[p])}
                                                 ELSE ToSet(idle[q])
  BY <1>1, <1>2
<1>4. p \in alive
  BY DEF P!Checkout
<1>5. PoolTypes'
  BY <1>1, <1>2, <1>3, <1>4
<1>6. InOrder'
  BY <1>1, <1>2, <1>3, <1>4
<1>7. HeldApart'
  BY <1>1, <1>2, <1>3, <1>4 DEF HeldApart, IdleApart
<1>8. IdleApart'
  BY <1>1, <1>2, <1>3, <1>4 DEF HeldApart, IdleApart
<1>9. NoneTwice'
  BY <1>1, <1>2, <1>3, <1>4 DEF NoneTwice
<1>10. NoneLost'
  <2>1. ASSUME NEW m \in Nodes, Somewhere(m) PROVE Somewhere(m)'
    BY <1>1, <1>2, <1>3, <2>1 DEF Somewhere
  <2>2. ASSUME NEW m \in Nodes, Somewhere(m)' PROVE Somewhere(m)
    BY <1>1, <1>2, <1>3, <2>2 DEF Somewhere
  <2>3. QED
    BY <1>1, <1>2, <1>3, <2>1, <2>2 DEF NoneLost
<1>11. NoneForgotten'
  BY <1>1, <1>2, <1>3, <1>4 DEF NoneForgotten, Base, Pinned, IdleApart
<1>12. QED
  BY <1>5, <1>6, <1>7, <1>8, <1>9, <1>10, <1>11

\* checkout constructs a node when none is idle.
LEMMA CheckoutNew ==
    ASSUME PoolInv, NEW t \in Threads, NEW p \in Pools, P!Checkout(t, p), idle[p] = <<>>
    PROVE  PoolInv'
<1> USE DEF PoolInv, PoolTypes, InOrder
<1>1. PICK n \in Nodes \ made :
        /\ held' = [held EXCEPT ![t] = @ \union {n}]
        /\ made' = made \union {n} /\ owner' = [owner EXCEPT ![n] = p]
        /\ UNCHANGED <<alive, idle, freed, pc, pin, node, list>>
  BY DEF P!Checkout, P!Hold
<1>2. p \in alive /\ ~Somewhere(n)
  BY <1>1 DEF P!Checkout, NoneLost
<1>3. Somewhere(n)' /\ n \notin freed
  BY <1>1 DEF Somewhere
<1>4. PoolTypes'
  BY <1>1, <1>2, <1>3
<1>5. InOrder'
  BY <1>1, <1>2 DEF Somewhere
<1>6. HeldApart'
  BY <1>1, <1>2 DEF HeldApart, Somewhere
<1>7. IdleApart'
  BY <1>1, <1>2 DEF IdleApart, Somewhere
<1>8. NoneTwice'
  BY <1>1, <1>2, <1>3 DEF NoneTwice
<1>9. NoneLost'
  <2>1. ASSUME NEW m \in Nodes, Somewhere(m) PROVE Somewhere(m)'
    BY <1>1, <1>2, <1>3, <2>1 DEF Somewhere
  <2>2. ASSUME NEW m \in Nodes, Somewhere(m)' PROVE Somewhere(m) \/ m = n
    BY <1>1, <1>2, <1>3, <2>2 DEF Somewhere
  <2>3. QED
    BY <1>1, <1>2, <1>3, <2>1, <2>2 DEF NoneLost
<1>10. NoneForgotten'
  BY <1>1, <1>2 DEF NoneForgotten, Base, Pinned, Somewhere
<1>11. QED
  BY <1>4, <1>5, <1>6, <1>7, <1>8, <1>9, <1>10

\* take_ownership gives a node that is held to another pool.
LEMMA Adopt ==
    ASSUME PoolInv, NEW t \in Threads, NEW p \in Pools, NEW n \in Nodes, P!TakeOwnership(t, p, n)
    PROVE  PoolInv'
<1> USE DEF PoolInv, PoolTypes, InOrder
<1>1. /\ owner' = [owner EXCEPT ![n] = p] /\ n \in held[t]
      /\ UNCHANGED <<alive, idle, made, freed, held, pc, pin, node, list>>
  BY DEF P!TakeOwnership
<1>2. PoolTypes'
  BY <1>1
<1>3. InOrder'
  BY <1>1 DEF HeldApart
<1>4. HeldApart'
  BY <1>1 DEF HeldApart, IdleApart
<1>5. IdleApart'
  BY <1>1 DEF HeldApart, IdleApart
<1>6. NoneTwice'
  BY <1>1 DEF NoneTwice
<1>7. NoneLost'
  BY <1>1 DEF NoneLost, Somewhere, HeldApart, IdleApart
<1>8. NoneForgotten'
  BY <1>1 DEF NoneForgotten, Base, Pinned, IdleApart
<1>9. QED
  BY <1>2, <1>3, <1>4, <1>5, <1>6, <1>7, <1>8

\* detach gives it to none.
LEMMA Detached ==
    ASSUME PoolInv, NEW t \in Threads, NEW n \in Nodes, P!DetachNode(t, n)
    PROVE  PoolInv'
<1> USE DEF PoolInv, PoolTypes, InOrder
<1>1. /\ owner' = [owner EXCEPT ![n] = None] /\ n \in held[t]
      /\ UNCHANGED <<alive, idle, made, freed, held, pc, pin, node, list>>
  BY DEF P!DetachNode
<1>2. PoolTypes'
  BY <1>1
<1>3. InOrder'
  BY <1>1 DEF HeldApart
<1>4. HeldApart'
  BY <1>1 DEF HeldApart, IdleApart
<1>5. IdleApart'
  BY <1>1 DEF HeldApart, IdleApart
<1>6. NoneTwice'
  BY <1>1 DEF NoneTwice
<1>7. NoneLost'
  BY <1>1 DEF NoneLost, Somewhere, HeldApart, IdleApart
<1>8. NoneForgotten'
  BY <1>1 DEF NoneForgotten, Base, Pinned, IdleApart
<1>9. QED
  BY <1>2, <1>3, <1>4, <1>5, <1>6, <1>7, <1>8

\* A node that is given away is held by the other thread.
LEMMA Given ==
    ASSUME PoolInv, NEW t \in Threads, NEW u \in Threads, NEW n \in Nodes, P!Give(t, u, n)
    PROVE  PoolInv'
<1> USE DEF PoolInv, PoolTypes, InOrder
<1>1. /\ held' = [held EXCEPT ![t] = @ \ {n}, ![u] = @ \union {n}] /\ n \in held[t] /\ u # t
      /\ UNCHANGED <<alive, idle, owner, made, freed, pc, pin, node, list>>
  BY DEF P!Give
<1>2. \A v \in Threads : held'[v] = IF v = u THEN held[v] \union {n}
                                     ELSE IF v = t THEN held[v] \ {n} ELSE held[v]
  BY <1>1
<1>3. PoolTypes'
  BY <1>1, <1>2
<1>4. InOrder'
  BY <1>1, <1>2
<1>5. HeldApart'
  <2> SUFFICES ASSUME NEW v \in Threads, NEW w \in Threads
               PROVE  /\ v # w => held'[v] \intersect held'[w] = {}
                      /\ node'[v] \notin held'[w]
                      /\ node'[v] = node'[w] /\ node'[v] # None => v = w
                      /\ ToSet(list'[v]) \intersect held'[w] = {}
                      /\ node'[w] \notin ToSet(list'[v])
                      /\ v # w => ToSet(list'[v]) \intersect ToSet(list'[w]) = {}
    BY DEF HeldApart
  <2>1. v # w => held'[v] \intersect held'[w] = {}
    <3>1. /\ v # w => held[v] \intersect held[w] = {}
          /\ v # t => n \notin held[v]
          /\ w # t => n \notin held[w]
      BY <1>1 DEF HeldApart
    <3> HIDE DEF PoolInv
    <3>2. QED
      BY <1>2, <3>1
  <2>2. node'[v] \notin held'[w]
    BY <1>1, <1>2 DEF HeldApart
  <2>3. node'[v] = node'[w] /\ node'[v] # None => v = w
    BY <1>1, <1>2 DEF HeldApart
  <2>4. ToSet(list'[v]) \intersect held'[w] = {}
    BY <1>1, <1>2 DEF HeldApart
  <2>5. node'[w] \notin ToSet(list'[v])
    BY <1>1, <1>2 DEF HeldApart
  <2>6. v # w => ToSet(list'[v]) \intersect ToSet(list'[w]) = {}
    BY <1>1, <1>2 DEF HeldApart
  <2>7. QED
    BY <2>1, <2>2, <2>3, <2>4, <2>5, <2>6
<1>6. IdleApart'
  <2>1. \A q, r \in Pools : q # r => ToSet(idle'[q]) \intersect ToSet(idle'[r]) = {}
    BY <1>1, <1>2 DEF IdleApart
  <2> SUFFICES ASSUME NEW v \in Threads
               PROVE  /\ \A q \in Pools : ToSet(idle'[q]) \intersect held'[v] = {}
                      /\ \A q \in Pools : ToSet(idle'[q]) \intersect ToSet(list'[v]) = {}
                      /\ \A q \in Pools : node'[v] \notin ToSet(idle'[q])
    BY <2>1 DEF IdleApart
  <2>2. \A q \in Pools : ToSet(idle'[q]) \intersect held'[v] = {}
    BY <1>1, <1>2 DEF IdleApart
  <2>3. \A q \in Pools : ToSet(idle'[q]) \intersect ToSet(list'[v]) = {}
    BY <1>1, <1>2 DEF IdleApart
  <2>4. \A q \in Pools : node'[v] \notin ToSet(idle'[q])
    BY <1>1, <1>2 DEF IdleApart
  <2>5. QED
    BY <2>2, <2>3, <2>4
<1>7. NoneTwice'
  BY <1>1, <1>2 DEF NoneTwice
<1>8. NoneLost'
  <2>1. ASSUME NEW m \in Nodes, Somewhere(m) PROVE Somewhere(m)'
    BY <1>1, <1>2, <2>1 DEF Somewhere
  <2>2. ASSUME NEW m \in Nodes, Somewhere(m)' PROVE Somewhere(m)
    BY <1>1, <1>2, <2>2 DEF Somewhere
  <2>3. QED
    BY <1>1, <1>2, <2>1, <2>2 DEF NoneLost
<1>9. NoneForgotten'
  BY <1>1, <1>2 DEF NoneForgotten, Base, Pinned, IdleApart
<1>10. QED
  BY <1>3, <1>4, <1>5, <1>6, <1>7, <1>8, <1>9

\* checkin shares the base and still has the node.
LEMMA CheckinPins ==
    ASSUME PoolInv, NEW t \in Threads, NEW n \in Nodes, P!Checkin(t, n), P!Locked(owner[n])
    PROVE  PoolInv'
<1> USE DEF PoolInv, PoolTypes, InOrder
<1>1. /\ held' = [held EXCEPT ![t] = @ \ {n}] /\ n \in held[t] /\ pc[t] = "idle"
  BY DEF P!Checkin, P!Release, P!Ready
<1>2. /\ pin' = [pin EXCEPT ![t] = owner[n]] /\ node' = [node EXCEPT ![t] = n]
      /\ pc' = [pc EXCEPT ![t] = "push"]
      /\ UNCHANGED <<alive, idle, owner, made, freed, list>>
  BY DEF P!Checkin
<1>3. owner[n] \in Pools /\ pin[t] = None /\ node[t] = None
  BY <1>1 DEF P!Locked, P!Base, P!Pinned, Base, Pinned
<1>4. PoolTypes'
  BY <1>1, <1>2, <1>3
<1>5. InOrder'
  BY <1>1, <1>2, <1>3
<1>6. HeldApart'
  BY <1>1, <1>2, <1>3 DEF HeldApart, IdleApart
<1>7. IdleApart'
  BY <1>1, <1>2, <1>3 DEF HeldApart, IdleApart
<1>8. NoneTwice'
  BY <1>1, <1>2, <1>3 DEF NoneTwice
<1>9. NoneLost'
  <2>1. ASSUME NEW m \in Nodes, Somewhere(m) PROVE Somewhere(m)'
    BY <1>1, <1>2, <1>3, <2>1 DEF Somewhere
  <2>2. ASSUME NEW m \in Nodes, Somewhere(m)' PROVE Somewhere(m)
    BY <1>1, <1>2, <1>3, <2>2 DEF Somewhere
  <2>3. QED
    BY <1>1, <1>2, <1>3, <2>1, <2>2 DEF NoneLost
<1>10. NoneForgotten'
  BY <1>1, <1>2, <1>3 DEF NoneForgotten, Base, Pinned, IdleApart
<1>11. QED
  BY <1>4, <1>5, <1>6, <1>7, <1>8, <1>9, <1>10

\* checkin of a node that has no base any more deallocates it.
LEMMA CheckinFrees ==
    ASSUME PoolInv, NEW t \in Threads, NEW n \in Nodes, P!Checkin(t, n), ~P!Locked(owner[n])
    PROVE  PoolInv'
<1> USE DEF PoolInv, PoolTypes, InOrder
<1>1. /\ held' = [held EXCEPT ![t] = @ \ {n}] /\ n \in held[t] /\ freed' = freed \union {n}
      /\ UNCHANGED <<alive, idle, owner, made, pc, pin, node, list>>
  BY DEF P!Checkin, P!Release
<1>2. n \in made /\ n \notin freed
  BY <1>1 DEF NoneLost, Somewhere
<1>3. PoolTypes'
  BY <1>1, <1>2
<1>4. InOrder'
  BY <1>1, <1>2
<1>5. HeldApart'
  BY <1>1, <1>2 DEF HeldApart, IdleApart
<1>6. IdleApart'
  BY <1>1, <1>2 DEF HeldApart, IdleApart
<1>7. NoneTwice'
  BY <1>1, <1>2 DEF NoneTwice
<1>8. NoneLost'
  <2>1. ASSUME NEW m \in Nodes, Somewhere(m) PROVE Somewhere(m)' \/ m = n
    BY <1>1, <1>2, <2>1 DEF Somewhere
  <2>2. ASSUME NEW m \in Nodes, Somewhere(m)' PROVE Somewhere(m)
    BY <1>1, <1>2, <2>2 DEF Somewhere
  <2>3. ~Somewhere(n)'
    BY <1>1, <1>2 DEF Somewhere, HeldApart, IdleApart
  <2>4. QED
    BY <1>1, <1>2, <2>1, <2>2, <2>3 DEF NoneLost
<1>9. NoneForgotten'
  BY <1>1, <1>2 DEF NoneForgotten, Base, Pinned, IdleApart
<1>10. QED
  BY <1>3, <1>4, <1>5, <1>6, <1>7, <1>8, <1>9

\* checkin of the base puts the node in its list.
LEMMA Pushed ==
    ASSUME PoolInv, NEW t \in Threads, P!Push(t)
    PROVE  PoolInv'
<1> USE DEF PoolInv, PoolTypes, InOrder
<1>1. PICK n \in Nodes, p \in Pools : node[t] = n /\ pin[t] = p /\ owner[n] = p
  BY DEF P!Push
<1>2. /\ idle' = [idle EXCEPT ![p] = <<n>> \o @] /\ node' = [node EXCEPT ![t] = None]
      /\ pc' = [pc EXCEPT ![t] = "unpin"] /\ pc[t] = "push"
      /\ UNCHANGED <<alive, owner, made, freed, held, pin, list>>
  BY <1>1 DEF P!Push
<1>3. n \notin ToSet(idle[p])
  BY <1>1 DEF IdleApart
<1>4. /\ <<n>> \o idle[p] \in Seq(Nodes) /\ IsInjective(<<n>> \o idle[p])
      /\ ToSet(<<n>> \o idle[p]) = ToSet(idle[p]) \union {n}
  BY <1>3, ConsKeeps DEF NoneTwice
<1>5. \A q \in Pools : \A m : m \in ToSet(idle'[q]) <=> m \in ToSet(idle[q]) \/ (q = p /\ m = n)
  <2>1. \A q \in Pools : ToSet(idle'[q]) = IF q = p THEN ToSet(idle[q]) \union {n} ELSE ToSet(idle[q])
    BY <1>2, <1>4
  <2>2. QED
    BY <2>1
<1>6. \A u \in Threads : node'[u] = IF u = t THEN None ELSE node[u]
  BY <1>2
<1>7. /\ \A u \in Threads : /\ n \notin held[u] /\ n \notin ToSet(list[u])
                            /\ u # t => node[u] # n
      /\ \A q \in Pools : n \notin ToSet(idle[q])
  BY <1>1 DEF HeldApart, IdleApart
<1>8. UNCHANGED <<alive, owner, made, freed, held, pin, list>>
  BY <1>2
<1>9. /\ \A q \in Pools : None \notin ToSet(idle[q])
      /\ \A u \in Threads : None \notin ToSet(list[u])
  BY DEF ToSet
<1>10. PoolTypes'
  BY <1>1, <1>2, <1>3, <1>4, <1>5, <1>6, <1>7, <1>8, <1>9
<1>11. InOrder'
  BY <1>1, <1>2, <1>3, <1>4, <1>5, <1>6, <1>7, <1>8, <1>9
<1>12. HeldApart'
  <2> SUFFICES ASSUME NEW v \in Threads, NEW w \in Threads
               PROVE  /\ v # w => held'[v] \intersect held'[w] = {}
                      /\ node'[v] \notin held'[w]
                      /\ node'[v] = node'[w] /\ node'[v] # None => v = w
                      /\ ToSet(list'[v]) \intersect held'[w] = {}
                      /\ node'[w] \notin ToSet(list'[v])
                      /\ v # w => ToSet(list'[v]) \intersect ToSet(list'[w]) = {}
    BY DEF HeldApart
  <2>1. v # w => held'[v] \intersect held'[w] = {}
    BY <1>6, <1>8, <1>9 DEF HeldApart
  <2>2. node'[v] \notin held'[w]
    BY <1>6, <1>8, <1>9 DEF HeldApart
  <2>3. node'[v] = node'[w] /\ node'[v] # None => v = w
    BY <1>6, <1>8, <1>9 DEF HeldApart
  <2>4. ToSet(list'[v]) \intersect held'[w] = {}
    BY <1>6, <1>8, <1>9 DEF HeldApart
  <2>5. node'[w] \notin ToSet(list'[v])
    BY <1>6, <1>8, <1>9, ZenonT(30) DEF HeldApart
  <2>6. v # w => ToSet(list'[v]) \intersect ToSet(list'[w]) = {}
    BY <1>6, <1>8, <1>9 DEF HeldApart
  <2>7. QED
    BY <2>1, <2>2, <2>3, <2>4, <2>5, <2>6
<1>13. IdleApart'
  <2>1. \A q, r \in Pools : q # r => ToSet(idle'[q]) \intersect ToSet(idle'[r]) = {}
    <3>1. ASSUME NEW q \in Pools, NEW r \in Pools, q # r, NEW m,
                 m \in ToSet(idle'[q]), m \in ToSet(idle'[r])
          PROVE  FALSE
      <4>1. /\ m \in ToSet(idle[q]) \/ (q = p /\ m = n)
            /\ m \in ToSet(idle[r]) \/ (r = p /\ m = n)
        BY <1>5, <3>1
      <4>2. ~(m \in ToSet(idle[q]) /\ m \in ToSet(idle[r]))
        BY <3>1 DEF IdleApart
      <4>3. QED
        BY <1>7, <3>1, <4>1, <4>2
    <3>2. QED
      BY <3>1
  <2> SUFFICES ASSUME NEW v \in Threads
               PROVE  /\ \A q \in Pools : ToSet(idle'[q]) \intersect held'[v] = {}
                      /\ \A q \in Pools : ToSet(idle'[q]) \intersect ToSet(list'[v]) = {}
                      /\ \A q \in Pools : node'[v] \notin ToSet(idle'[q])
    BY <2>1 DEF IdleApart
  <2>2. \A q \in Pools : ToSet(idle'[q]) \intersect held'[v] = {}
    BY <1>5, <1>6, <1>7, <1>8, <1>9 DEF IdleApart
  <2>3. \A q \in Pools : ToSet(idle'[q]) \intersect ToSet(list'[v]) = {}
    BY <1>5, <1>6, <1>7, <1>8, <1>9 DEF IdleApart
  <2>4. \A q \in Pools : node'[v] \notin ToSet(idle'[q])
    <3>1. CASE v = t
      BY <1>5, <1>6, <1>9, <3>1
    <3>2. CASE v # t
      BY <1>5, <1>6, <1>7, <3>2 DEF IdleApart
    <3>3. QED
      BY <3>1, <3>2
  <2>5. QED
    BY <2>2, <2>3, <2>4
<1>14. NoneTwice'
  BY <1>1, <1>2, <1>3, <1>4, <1>5, <1>6, <1>7, <1>8, <1>9 DEF NoneTwice
<1>15. NoneLost'
  <2>1. ASSUME NEW m \in Nodes, Somewhere(m) PROVE Somewhere(m)'
    BY <1>1, <1>5, <1>6, <1>8, <2>1 DEF Somewhere
  <2>2. ASSUME NEW m \in Nodes, Somewhere(m)' PROVE Somewhere(m)
    BY <1>1, <1>5, <1>6, <1>8, <2>2 DEF Somewhere
  <2>3. QED
    BY <1>1, <1>5, <1>6, <1>8, <2>1, <2>2 DEF NoneLost
<1>16. NoneForgotten'
  <2>1. \A q \in Pools : Base(q)' <=> Base(q)
    BY <1>2 DEF Base, Pinned
  <2>2. Base(p)
    BY <1>1 DEF Base, Pinned
  <2>3. \A q \in Pools \ {p} : idle'[q] = idle[q]
    BY <1>2
  <2>4. QED
    <3>1. ASSUME NEW q \in Pools, idle'[q] # <<>>
          PROVE  Base(q)' /\ \A m \in ToSet(idle'[q]) : owner'[m] = q
      <4>1. CASE q = p
        BY <1>1, <1>5, <1>8, <2>1, <2>2, <4>1, NoNodes DEF NoneForgotten
      <4>2. CASE q # p
        BY <1>8, <2>1, <2>3, <3>1, <4>2 DEF NoneForgotten
      <4>3. QED
        BY <4>1, <4>2
    <3>2. QED
      BY <3>1 DEF NoneForgotten
<1>17. QED
  BY <1>10, <1>11, <1>12, <1>13, <1>14, <1>15, <1>16

\* clear_all_idle takes the list of a base, that goes or stays.
LEMMA Taken ==
    ASSUME PoolInv, NEW t \in Threads, NEW p \in Pools, P!TakeList(t, p),
           pc[t] \in {"idle", "unpin"}, UNCHANGED <<owner, made, freed, held, node>>,
           pin' = [pin EXCEPT ![t] = None], alive' = alive \/ alive' = alive \ {p},
           \A q \in Pools \ {p} : Base(q)' <=> Base(q)
    PROVE  PoolInv'
<1> USE DEF PoolInv, PoolTypes, InOrder
<1>1. /\ list' = [list EXCEPT ![t] = idle[p]] /\ idle' = [idle EXCEPT ![p] = <<>>]
      /\ pc' = [pc EXCEPT ![t] = "clear"] /\ list[t] = <<>> /\ node[t] = None
  BY DEF P!TakeList
<1>2. \A q \in Pools : ToSet(idle'[q]) = IF q = p THEN {} ELSE ToSet(idle[q])
  BY <1>1, NoNodes
<1>3. \A u \in Threads : ToSet(list'[u]) = IF u = t THEN ToSet(idle[p]) ELSE ToSet(list[u])
  BY <1>1
<1>4. ToSet(list[t]) = {}
  BY <1>1, NoNodes
<1>5. <<>> \in Seq(Nodes) /\ IsInjective(<<>>)
  BY NoNodes
<1>6. PoolTypes'
  BY <1>1, <1>2, <1>3, <1>4, <1>5
<1>7. InOrder'
  BY <1>1, <1>2, <1>3, <1>4, <1>5
<1>8. HeldApart'
  BY <1>1, <1>2, <1>3, <1>4, <1>5 DEF HeldApart, IdleApart
<1>9. IdleApart'
  BY <1>1, <1>2, <1>3, <1>4, <1>5 DEF HeldApart, IdleApart
<1>10. NoneTwice'
  BY <1>1, <1>2, <1>3, <1>4, <1>5 DEF NoneTwice
<1>11. NoneLost'
  <2>1. ASSUME NEW m \in Nodes, Somewhere(m) PROVE Somewhere(m)'
    BY <1>1, <1>2, <1>3, <1>4, <2>1 DEF Somewhere
  <2>2. ASSUME NEW m \in Nodes, Somewhere(m)' PROVE Somewhere(m)
    BY <1>1, <1>2, <1>3, <1>4, <2>2 DEF Somewhere
  <2>3. QED
    BY <1>1, <1>2, <1>3, <1>4, <2>1, <2>2 DEF NoneLost
<1>12. NoneForgotten'
  BY <1>1, <1>2 DEF NoneForgotten
<1>13. QED
  BY <1>6, <1>7, <1>8, <1>9, <1>10, <1>11, <1>12

\* checkin lets a base go that others share.
LEMMA UnpinnedOnly ==
    ASSUME PoolInv, NEW t \in Threads, P!Unpin(t), pin[t] \in alive \/ ~P!IsLast(t, pin[t])
    PROVE  PoolInv'
<1> USE DEF PoolInv, PoolTypes, InOrder
<1>1. /\ pin' = [pin EXCEPT ![t] = None] /\ pc' = [pc EXCEPT ![t] = "idle"] /\ pc[t] = "unpin"
      /\ UNCHANGED <<alive, idle, owner, made, freed, held, node, list>>
  BY DEF P!Unpin
<1>2. \A q \in Pools : Base(q)' <=> Base(q)
  BY <1>1 DEF Base, Pinned, P!IsLast
<1>3. PoolTypes'
  BY <1>1, <1>2
<1>4. InOrder'
  BY <1>1, <1>2
<1>5. HeldApart'
  BY <1>1, <1>2 DEF HeldApart, IdleApart
<1>6. IdleApart'
  BY <1>1, <1>2 DEF HeldApart, IdleApart
<1>7. NoneTwice'
  BY <1>1, <1>2 DEF NoneTwice
<1>8. NoneLost'
  BY <1>1, <1>2 DEF NoneLost, Somewhere, HeldApart, IdleApart
<1>9. NoneForgotten'
  BY <1>1, <1>2 DEF NoneForgotten
<1>10. QED
  BY <1>3, <1>4, <1>5, <1>6, <1>7, <1>8, <1>9

\* checkin lets a base go, and destroys it with its idle nodes when it was the last to share it.
LEMMA Unpinned ==
    ASSUME PoolInv, NEW t \in Threads, P!Unpin(t)
    PROVE  PoolInv'
<1>1. CASE pin[t] \in alive \/ ~P!IsLast(t, pin[t])
  BY <1>1, UnpinnedOnly
<1>2. CASE ~(pin[t] \in alive \/ ~P!IsLast(t, pin[t]))
  <2>1. /\ P!TakeList(t, pin[t]) /\ pin' = [pin EXCEPT ![t] = None] /\ pc[t] = "unpin"
        /\ UNCHANGED <<alive, owner, made, freed, held, node>>
    BY <1>2 DEF P!Unpin
  <2>2. pin[t] \in Pools
    BY <2>1 DEF PoolInv, PoolTypes, InOrder
  <2>3. \A q \in Pools \ {pin[t]} : Base(q)' <=> Base(q)
    BY <2>1 DEF PoolInv, PoolTypes, Base, Pinned
  <2>4. QED
    BY <2>1, <2>2, <2>3, Taken
<1>3. QED
  BY <1>1, <1>2

\* The destructor of a pool lets its base go, and with it the idle nodes when nobody shares it.
LEMMA Destroyed ==
    ASSUME PoolInv, NEW t \in Threads, NEW p \in Pools, P!Destroy(t, p)
    PROVE  PoolInv'
<1>1. /\ alive' = alive \ {p} /\ pc[t] = "idle"
      /\ UNCHANGED <<owner, made, freed, held, pin, node>>
  BY DEF P!Destroy, P!Ready
<1>2. \A q \in Pools \ {p} : Base(q)' <=> Base(q)
  BY <1>1 DEF Base, Pinned
<1>3. pin' = [pin EXCEPT ![t] = None]
  BY <1>1 DEF PoolInv, PoolTypes, InOrder
<1>4. CASE P!IsLast(t, p)
  BY <1>1, <1>2, <1>3, <1>4, Taken DEF P!Destroy
<1>5. CASE ~P!IsLast(t, p)
  <2> USE DEF PoolInv, PoolTypes
  <2>1. UNCHANGED <<idle, list, pc>>
    BY <1>5 DEF P!Destroy
  <2>2. Base(p)'
    BY <1>1, <1>5 DEF Base, Pinned, P!IsLast
  <2>3. PoolTypes' /\ InOrder'
    BY <1>1, <2>1 DEF InOrder
  <2>4. HeldApart' /\ IdleApart' /\ NoneTwice'
    BY <1>1, <2>1 DEF HeldApart, IdleApart, NoneTwice
  <2>5. NoneLost'
    BY <1>1, <2>1 DEF NoneLost, Somewhere
  <2>6. NoneForgotten'
    BY <1>1, <1>2, <2>1, <2>2 DEF NoneForgotten
  <2>7. QED
    BY <2>3, <2>4, <2>5, <2>6
<1>6. QED
  BY <1>4, <1>5

\* shrink takes the idle nodes of a pool that goes on.
LEMMA Shrunk ==
    ASSUME PoolInv, NEW t \in Threads, NEW p \in Pools, P!Shrink(t, p)
    PROVE  PoolInv'
<1>1. /\ pc[t] = "idle" /\ P!TakeList(t, p)
      /\ UNCHANGED <<alive, owner, made, freed, held, pin, node>>
  BY DEF P!Shrink, P!Ready
<1>2. \A q \in Pools \ {p} : Base(q)' <=> Base(q)
  BY <1>1 DEF Base, Pinned
<1>3. pin' = [pin EXCEPT ![t] = None]
  BY <1>1 DEF PoolInv, PoolTypes, InOrder
<1>4. QED
  BY <1>1, <1>2, <1>3, Taken

\* clear_all_idle deallocates the first node of the list it took.
LEMMA ClearedOne ==
    ASSUME PoolInv, NEW t \in Threads, P!ClearNext(t), list[t] # <<>>
    PROVE  PoolInv'
<1> USE DEF PoolInv, PoolTypes, InOrder
<1>1. PICK h \in Nodes : h = Head(list[t])
  BY TailKeeps DEF NoneTwice
<1>2. /\ freed' = freed \union {h} /\ list' = [list EXCEPT ![t] = Tail(@)]
      /\ pc[t] = "clear" /\ UNCHANGED <<alive, idle, owner, made, held, pc, pin, node>>
  BY <1>1 DEF P!ClearNext
<1>3. /\ h \in ToSet(list[t]) /\ Tail(list[t]) \in Seq(Nodes)
      /\ IsInjective(Tail(list[t])) /\ ToSet(Tail(list[t])) = ToSet(list[t]) \ {h}
  BY <1>1, TailKeeps DEF NoneTwice
<1>4. \A u \in Threads : \A m : m \in ToSet(list'[u]) <=> m \in ToSet(list[u]) /\ ~(u = t /\ m = h)
  BY <1>2, <1>3
<1>5. h \in made /\ h \notin freed
  BY <1>3 DEF NoneLost, Somewhere
<1>6. /\ \A u \in Threads : /\ h \notin held[u] /\ node[u] # h
                            /\ u # t => h \notin ToSet(list[u])
      /\ \A q \in Pools : h \notin ToSet(idle[q])
  BY <1>3 DEF HeldApart, IdleApart
<1>7. freed' = freed \union {h} /\ UNCHANGED <<alive, idle, owner, made, held, pc, pin, node>>
  BY <1>2
<1>8. PoolTypes'
  BY <1>1, <1>2, <1>3, <1>4, <1>5, <1>6, <1>7
<1>9. InOrder'
  BY <1>1, <1>2, <1>3, <1>4, <1>5, <1>6, <1>7
<1>10. HeldApart'
  BY <1>1, <1>2, <1>3, <1>4, <1>5, <1>6, <1>7 DEF HeldApart, IdleApart
<1>11. IdleApart'
  BY <1>1, <1>2, <1>3, <1>4, <1>5, <1>6, <1>7 DEF HeldApart, IdleApart
<1>12. NoneTwice'
  BY <1>1, <1>2, <1>3, <1>4, <1>5, <1>6, <1>7 DEF NoneTwice
<1>13. NoneLost'
  <2>1. ASSUME NEW m \in Nodes, Somewhere(m) PROVE Somewhere(m)' \/ m = h
    BY <1>4, <1>5, <1>6, <1>7, <2>1 DEF Somewhere
  <2>2. ASSUME NEW m \in Nodes, Somewhere(m)' PROVE Somewhere(m)
    BY <1>4, <1>5, <1>6, <1>7, <2>2 DEF Somewhere
  <2>3. ~Somewhere(h)'
    BY <1>4, <1>5, <1>6, <1>7 DEF Somewhere, HeldApart, IdleApart
  <2>4. QED
    BY <1>4, <1>5, <1>6, <1>7, <2>1, <2>2, <2>3 DEF NoneLost
<1>14. NoneForgotten'
  BY <1>1, <1>2, <1>3, <1>4, <1>5, <1>6, <1>7 DEF NoneForgotten, Base, Pinned, IdleApart
<1>15. QED
  BY <1>8, <1>9, <1>10, <1>11, <1>12, <1>13, <1>14

\* The invariant holds in every state: one step of the proof for each action.
LEMMA Preserved ==
    PoolInv /\ [P!Next]_P!vars => PoolInv'
<1> SUFFICES ASSUME PoolInv, [P!Next]_P!vars PROVE PoolInv'
  OBVIOUS
<1>1. ASSUME NEW t \in Threads, NEW p \in Pools, P!Checkout(t, p) PROVE PoolInv'
  BY <1>1, CheckoutIdle, CheckoutNew
<1>2. ASSUME NEW t \in Threads, P!ClearNext(t) PROVE PoolInv'
  <2>1. CASE list[t] # <<>>
    BY <1>2, <2>1, ClearedOne
  <2>2. CASE list[t] = <<>>
    <3> USE DEF PoolInv, PoolTypes
    <3>1. /\ pc' = [pc EXCEPT ![t] = "idle"] /\ pc[t] = "clear"
          /\ UNCHANGED <<alive, idle, owner, made, freed, held, pin, node, list>>
      BY <1>2, <2>2 DEF P!ClearNext
    <3>2. PoolTypes' /\ InOrder'
      BY <2>2, <3>1 DEF InOrder
    <3>3. HeldApart' /\ IdleApart' /\ NoneTwice'
      BY <3>1 DEF HeldApart, IdleApart, NoneTwice
    <3>4. NoneLost' /\ NoneForgotten'
      BY <3>1 DEF NoneLost, Somewhere, NoneForgotten, Base, Pinned
    <3>5. QED
      BY <3>2, <3>3, <3>4
  <2>3. QED
    BY <2>1, <2>2
<1>3. CASE UNCHANGED P!vars
  <2> USE <1>3 DEF P!vars, PoolInv, PoolTypes
  <2>1. PoolTypes' /\ InOrder'
    BY DEF InOrder
  <2>2. HeldApart' /\ IdleApart' /\ NoneTwice'
    BY DEF HeldApart, IdleApart, NoneTwice
  <2>3. NoneLost' /\ NoneForgotten'
    BY DEF NoneLost, Somewhere, NoneForgotten, Base, Pinned
  <2>4. QED
    BY <2>1, <2>2, <2>3
<1>4. QED
  BY <1>1, <1>2, <1>3, Adopt, Detached, Given, CheckinPins, CheckinFrees, Pushed, Unpinned,
     Destroyed, Shrunk DEF P!Next

\* At the start the pools have no nodes.
LEMMA Begins == P!Init => PoolInv
<1> SUFFICES ASSUME P!Init PROVE PoolInv
  OBVIOUS
<1> USE DEF P!Init
<1>1. <<>> \in Seq(Nodes) /\ IsInjective(<<>>) /\ ToSet(<<>>) = {}
  BY NoNodes
<1>2. PoolTypes /\ InOrder
  BY <1>1, NoneAssumption DEF PoolTypes, InOrder
<1>3. HeldApart /\ IdleApart /\ NoneTwice
  BY <1>1 DEF HeldApart, IdleApart, NoneTwice
<1>4. NoneLost
  BY <1>1, NoneAssumption DEF NoneLost, Somewhere
<1>5. NoneForgotten
  BY DEF NoneForgotten
<1>6. QED
  BY <1>2, <1>3, <1>4, <1>5 DEF PoolInv

\* A node has one place, if it has one.
LEMMA OnePlace ==
    ASSUME PoolInv, NEW n \in Nodes
    PROVE  Cardinality(Holders(n)) = IF n \in made \ freed THEN 1 ELSE 0
<1> USE DEF PoolInv, PoolTypes
<1>1. \A s : s \in Seq(Nodes) => (Positions(n, s) # {} <=> n \in ToSet(s))
  BY DEF Positions, ToSet
<1>2. \A s : s \in Seq(Nodes) /\ IsInjective(s) =>
              \A i, j \in Positions(n, s) : i = j
  BY DEF Positions, IsInjective
<1>3. \A x \in Holders(n) :
        \/ \E t \in Threads : x = <<"held", t, 0>> /\ n \in held[t]
        \/ \E t \in Threads : x = <<"node", t, 0>> /\ node[t] = n
        \/ \E p \in Pools : \E i \in Positions(n, idle[p]) : x = <<"idle", p, i>>
        \/ \E t \in Threads : \E i \in Positions(n, list[t]) : x = <<"list", t, i>>
  BY DEF Holders
<1>4. Holders(n) # {} <=> Somewhere(n)
  <2>1. ASSUME Holders(n) # {} PROVE Somewhere(n)
    BY <1>1, <1>3, <2>1 DEF Somewhere
  <2>2. ASSUME Somewhere(n) PROVE Holders(n) # {}
    <3>1. CASE \E t \in Threads : n \in held[t]
      <4>1. PICK t \in Threads : n \in held[t]
        BY <3>1
      <4>2. <<"held", t, 0>> \in Holders(n)
        BY <4>1 DEF Holders
      <4>3. QED
        BY <4>2
    <3>2. CASE \E t \in Threads : node[t] = n
      <4>1. PICK t \in Threads : node[t] = n
        BY <3>2
      <4>2. <<"node", t, 0>> \in Holders(n)
        BY <4>1 DEF Holders
      <4>3. QED
        BY <4>2
    <3>3. CASE \E t \in Threads : n \in ToSet(list[t])
      <4>1. PICK t \in Threads : n \in ToSet(list[t])
        BY <3>3
      <4>2. PICK i \in Positions(n, list[t]) : TRUE
        BY <1>1, <4>1
      <4>3. <<"list", t, i>> \in Holders(n)
        BY <4>2 DEF Holders
      <4>4. QED
        BY <4>3
    <3>4. CASE \E p \in Pools : n \in ToSet(idle[p])
      <4>1. PICK p \in Pools : n \in ToSet(idle[p])
        BY <3>4
      <4>2. PICK i \in Positions(n, idle[p]) : TRUE
        BY <1>1, <4>1
      <4>3. <<"idle", p, i>> \in Holders(n)
        BY <4>2 DEF Holders
      <4>4. QED
        BY <4>3
    <3>5. QED
      BY <2>2, <3>1, <3>2, <3>3, <3>4 DEF Somewhere
  <2>3. QED
    BY <2>1, <2>2
<1>5. ASSUME NEW x \in Holders(n), NEW y \in Holders(n) PROVE x = y
  <2>1. CASE \E t \in Threads : x = <<"held", t, 0>> /\ n \in held[t]
    BY <1>1, <1>3, <2>1 DEF HeldApart, IdleApart
  <2>2. CASE \E t \in Threads : x = <<"node", t, 0>> /\ node[t] = n
    BY <1>1, <1>3, <2>2 DEF HeldApart, IdleApart
  <2>3. CASE \E p \in Pools : \E i \in Positions(n, idle[p]) : x = <<"idle", p, i>>
    <3>1. PICK p \in Pools : \E i \in Positions(n, idle[p]) : x = <<"idle", p, i>>
      BY <2>3
    <3>2. PICK i \in Positions(n, idle[p]) : x = <<"idle", p, i>>
      BY <3>1
    <3>3. n \in ToSet(idle[p])
      BY <1>1, <3>2
    <3>4. /\ \A t \in Threads : n \notin held[t] /\ node[t] # n /\ n \notin ToSet(list[t])
          /\ \A q \in Pools : n \in ToSet(idle[q]) => q = p
      BY <3>3 DEF IdleApart
    <3>5. \E q \in Pools : \E j \in Positions(n, idle[q]) : y = <<"idle", q, j>>
      BY <1>1, <1>3, <3>4
    <3>6. PICK j \in Positions(n, idle[p]) : y = <<"idle", p, j>>
      BY <1>1, <3>4, <3>5
    <3>7. QED
      BY <1>2, <3>2, <3>6 DEF NoneTwice
  <2>4. CASE \E t \in Threads : \E i \in Positions(n, list[t]) : x = <<"list", t, i>>
    <3>1. PICK t \in Threads : \E i \in Positions(n, list[t]) : x = <<"list", t, i>>
      BY <2>4
    <3>2. PICK i \in Positions(n, list[t]) : x = <<"list", t, i>>
      BY <3>1
    <3>3. n \in ToSet(list[t])
      BY <1>1, <3>2
    <3>4. /\ \A p \in Pools : n \notin ToSet(idle[p])
          /\ \A u \in Threads : n \notin held[u] /\ node[u] # n
          /\ \A u \in Threads : n \in ToSet(list[u]) => u = t
      BY <3>3 DEF HeldApart, IdleApart
    <3>5. \E u \in Threads : \E j \in Positions(n, list[u]) : y = <<"list", u, j>>
      BY <1>1, <1>3, <3>4
    <3>6. PICK j \in Positions(n, list[t]) : y = <<"list", t, j>>
      BY <1>1, <3>4, <3>5
    <3>7. QED
      BY <1>2, <3>2, <3>6 DEF NoneTwice
  <2>5. QED
    BY <1>3, <2>1, <2>2, <2>3, <2>4
<1>6. CASE Somewhere(n)
  <2>1. PICK x \in Holders(n) : TRUE
    BY <1>4, <1>6
  <2>2. Holders(n) = {x}
    BY <1>5, <2>1
  <2>3. QED
    BY <1>6, <2>2, FS_Singleton DEF NoneLost
<1>7. CASE ~Somewhere(n)
  BY <1>4, <1>7, FS_EmptySet DEF NoneLost
<1>8. QED
  BY <1>6, <1>7

-----------------------------------------------------------------------------
(* Theorems                                                                 *)

\* The invariant.
LEMMA Always == P!Spec => []PoolInv
<1>1. P!Init => PoolInv
  BY Begins
<1>2. QED
  BY <1>1, Preserved, PTL DEF P!Spec

\* However nodes are checked out, moved, given to other pools, detached and checked in, while
\* pools are shrunk and destroyed: no node is in two places or deallocated where it is used,
\* and none is lost.
THEOREM OneHolderAlways == P!Spec => []OneHolder
<1>1. PoolInv => OneHolder
  BY OnePlace DEF OneHolder
<1>2. QED
  BY <1>1, Always, PTL

\* No idle node stays behind a pool that was destroyed: the list is destroyed by the last one
\* to share the base, and a node is put in it only by one who does.
THEOREM NoneForgottenAlways == P!Spec => []NoneForgotten
<1>1. PoolInv => NoneForgotten
  BY DEF PoolInv
<1>2. QED
  BY <1>1, Always, PTL
=============================================================================
