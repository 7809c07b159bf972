---------------------------- MODULE CircularQueue ---------------------------
(***************************************************************************)
(* circular_queue (container/circular_queue.hxx): a queue in a circular     *)
(* buffer with one cell more than its capacity, so that head = tail means   *)
(* empty.  It has no locks: its users serialise what they do to one queue.  *)
(*                                                                          *)
(* A cell that holds no element is Junk.  What the asserts demand of the    *)
(* caller is in the guards, and so is one more demand, Usable, that the     *)
(* code does not state: reserve_shrink(0) leaves _head and _tail where they *)
(* were, beyond the buffer that is gone, and from then on is_full is wrong, *)
(* so that only another reserve_shrink, a copy or a swap is legal.          *)
(***************************************************************************)
EXTENDS Integers, Sequences, FiniteSetsExt, SequencesExt

CONSTANTS Queues, Values, MaxCapacity, MaxBulk, Junk

ASSUME JunkAssumption == Junk \notin Values
ASSUME BoundsAssumption == MaxCapacity \in Nat /\ MaxBulk \in Nat

VARIABLES
    cap,        \* _capacity of each queue, one more than capacity()
    data,       \* _data: its cells
    head, tail, \* _head and _tail
    out         \* what the last dequeue gave

vars == <<cap, data, head, tail, out>>

Cells(c) == [i \in 0 .. c - 1 |-> Junk]
Buffer(c) == IF c = 1 THEN Cells(0) ELSE Cells(c)

Init ==
    /\ cap \in [Queues -> 1 .. MaxCapacity + 1]
    /\ data = [q \in Queues |-> Buffer(cap[q])]
    /\ head = [q \in Queues |-> 0] /\ tail = [q \in Queues |-> 0] /\ out = <<>>

-----------------------------------------------------------------------------
NextCell(q, i) == IF i + 1 = cap[q] THEN 0 ELSE i + 1
Jump(q, i, n)  == (i + n) % cap[q]

Size(q)     == IF head[q] >= tail[q] THEN head[q] - tail[q]
                                     ELSE head[q] + cap[q] - tail[q]
Capacity(q) == cap[q] - 1
Usable(q)   == Capacity(q) > 0
IsFull(q)   == NextCell(q, head[q]) = tail[q]
Empty(q)    == head[q] = tail[q]

\* The place of a cell in the order of the elements, for the difference of iterators.
IdxLinear(q, i) ==
    IF head[q] >= tail[q] THEN i
    ELSE IF i >= tail[q] THEN i - tail[q] ELSE i + cap[q] - tail[q]
Distance(q, i, j) == IdxLinear(q, j) - IdxLinear(q, i)

\* n elements from cell i on, as an iterator passes over them.
Walk(q, i, n) == [k \in 1 .. n |-> data[q][Jump(q, i, k - 1)]]

\* The cells after the n oldest elements were destroyed.
Destroy(q, n) == [i \in DOMAIN data[q] |->
    IF \E k \in 0 .. n - 1 : i = Jump(q, tail[q], k) THEN Junk ELSE data[q][i]]

-----------------------------------------------------------------------------
\* push, emplace: asserted not to be full.
Push(q, v) ==
    /\ Usable(q) /\ ~IsFull(q)
    /\ head' = [head EXCEPT ![q] = NextCell(q, @)]
    /\ data' = [data EXCEPT ![q][head[q]] = v]
    /\ UNCHANGED <<cap, tail, out>>

\* rotate, push_back, enqueue: the oldest element makes room.
Rotate(q, v) ==
    /\ Usable(q)
    /\ head' = [head EXCEPT ![q] = NextCell(q, @)]
    /\ data' = [data EXCEPT ![q] =
                  [(IF IsFull(q) THEN Destroy(q, 1) ELSE @) EXCEPT ![head[q]] = v]]
    /\ tail' = [tail EXCEPT ![q] = IF IsFull(q) THEN NextCell(q, @) ELSE @]
    /\ UNCHANGED <<cap, out>>

\* dequeue, pop(dst)
Dequeue(q) ==
    /\ Usable(q) /\ ~Empty(q)
    /\ out' = <<data[q][tail[q]]>>
    /\ data' = [data EXCEPT ![q] = Destroy(q, 1)]
    /\ tail' = [tail EXCEPT ![q] = NextCell(q, @)]
    /\ UNCHANGED <<cap, head>>

\* dequeue_n of trivial elements: at most two pieces.
DequeueN(q, n) ==
    /\ Usable(q) /\ n <= Size(q) /\ UNCHANGED <<cap, head>>
    /\ tail' = [tail EXCEPT ![q] = Jump(q, @, n)]
    /\ LET piece(i, m) == [k \in 1 .. m |-> data[q][i + k - 1]]
           nseq1 == Min({cap[q] - tail[q], n})
       IN out' = IF tail[q] < head[q]
                 THEN piece(tail[q], Min({head[q] - tail[q], n}))
                 ELSE piece(tail[q], nseq1) \o piece(0, n - nseq1)
    /\ data' = [data EXCEPT ![q] = Destroy(q, n)]

Space_slip(q) == cap[q] - Size(q)
Space(q) == Capacity(q) - Size(q)

\* enqueue_n: the newest elements that fit replace the oldest, in two pieces.
EnqueueN(q, s) ==
    LET total == Min({Len(s), Capacity(q)})
        src   == SubSeq(s, Len(s) - total + 1, Len(s))
        drop  == IF Space(q) < total THEN total - Space(q) ELSE 0
        nseq1 == Min({total, cap[q] - head[q]})
        h     == head[q]
    IN /\ Usable(q) /\ UNCHANGED <<cap, out>>
       /\ head' = [head EXCEPT ![q] = Jump(q, @, total)]
       /\ tail' = [tail EXCEPT ![q] = Jump(q, @, drop)]
       /\ data' = [data EXCEPT ![q] = [i \in DOMAIN @ |->
             CASE i \in h .. h + nseq1 - 1 -> src[i - h + 1]
               [] i < total - nseq1        -> src[nseq1 + i + 1]
               [] OTHER                    -> Destroy(q, drop)[i]]]

Clear(q) ==
    /\ data' = [data EXCEPT ![q] = Destroy(q, Size(q))]
    /\ tail' = [tail EXCEPT ![q] = head[q]]
    /\ UNCHANGED <<cap, head, out>>

\* A queue of c - 1 elements at most that was just made and filled with s.
Fill(q, c, cells, s) ==
    /\ cap'  = [cap EXCEPT ![q] = c]
    /\ data' = [data EXCEPT ![q] = [i \in DOMAIN cells |->
                  IF i < Len(s) THEN s[i + 1] ELSE Junk]]
    /\ head' = [head EXCEPT ![q] = Len(s)] /\ tail' = [tail EXCEPT ![q] = 0]
    /\ out' = out

\* reserve_shrink: the oldest elements that fit stay.
ReserveShrink(q, n) ==
    \/ n = Capacity(q) /\ UNCHANGED vars
    \/ /\ n # Capacity(q) /\ n = 0
       /\ cap' = [cap EXCEPT ![q] = 1] /\ data' = [data EXCEPT ![q] = Cells(0)]
       /\ tail' = [tail EXCEPT ![q] = head[q]] /\ UNCHANGED <<head, out>>
    \/ /\ n # Capacity(q) /\ n # 0
       /\ LET last == Jump(q, tail[q], Min({Size(q), n}))
              kept == IF Size(q) = 0 THEN 0 ELSE Distance(q, tail[q], last)
          IN Fill(q, n + 1, Cells(n + 1), Walk(q, tail[q], kept))

\* Assignment of a copy of another queue.
CopyAssign(p, q) ==
    Fill(p, cap[q], Cells(cap[q]), Walk(q, tail[q], Distance(q, tail[q], head[q])))

\* Assignment of an rvalue: the two are exchanged.
MoveAssign(p, q) ==
    LET swapped(f) == [f EXCEPT ![p] = f[q], ![q] = f[p]]
    IN /\ cap' = swapped(cap) /\ data' = swapped(data)
       /\ head' = swapped(head) /\ tail' = swapped(tail) /\ out' = out

Bulks == UNION {[1 .. n -> Values] : n \in 0 .. MaxBulk}

Next == \E q \in Queues :
    \/ \E v \in Values : Push(q, v) \/ Rotate(q, v)
    \/ Dequeue(q)
    \/ \E n \in 0 .. MaxCapacity : DequeueN(q, n)
    \/ \E s \in Bulks : EnqueueN(q, s)
    \/ Clear(q)
    \/ \E n \in 0 .. MaxCapacity : ReserveShrink(q, n)
    \/ \E p \in Queues \ {q} : CopyAssign(p, q) \/ MoveAssign(p, q)

Spec == Init /\ [][Next]_vars

-----------------------------------------------------------------------------
\* for_each: the elements, from _tail to _head.
Contents(q) == Walk(q, tail[q], Size(q))

Promise == INSTANCE BoundedQueue
    WITH items <- [q \in Queues |-> Contents(q)], room <- [q \in Queues |-> Capacity(q)]

(***************************************************************************)
(* Wherever the buffer wraps, each operation does to the elements what      *)
(* BoundedQueue says of it: bulk insertion and removal in two pieces lose,  *)
(* repeat and reorder nothing, rotation drops the oldest only, resizing     *)
(* keeps the oldest, and no cell without an element is read.                *)
(***************************************************************************)
KeepsPromise(q) ==
    /\ \A v \in Values : /\ Push(q, v) => Promise!Push(q, v)
                        /\ Rotate(q, v) => Promise!EnqueueN(q, <<v>>)
    /\ Dequeue(q) => Promise!DequeueN(q, 1)
    /\ \A n \in 0 .. MaxCapacity : /\ DequeueN(q, n) => Promise!DequeueN(q, n)
                                  /\ ReserveShrink(q, n) => Promise!Resize(q, n)
    /\ \A s \in Bulks : EnqueueN(q, s) => Promise!EnqueueN(q, s)
    /\ Clear(q) => Promise!Clear(q)
    /\ \A p \in Queues \ {q} : /\ CopyAssign(p, q) => Promise!Copy(p, q)
                              /\ MoveAssign(p, q) => Promise!Exchange(p, q)
ImplementsBoundedQueue == Promise!Init /\ [][\A q \in Queues : KeepsPromise(q)]_vars
=============================================================================
