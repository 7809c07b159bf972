--------------------------- MODULE RingAllocator ---------------------------
(***************************************************************************)
(* cpph::ring_allocator (memory/ring_allocator.hxx): variable-sized blocks  *)
(* handed out of one buffer in the order of a ring and returned in any      *)
(* order.                                                                   *)
(*                                                                          *)
(* The buffer is an array of cells of node_size bytes.  A node is one cell  *)
(* of header followed by extent cells of user data; the headers live in the *)
(* buffer itself, between the data of the users, who overwrite every byte   *)
(* of the data they were given (Junk).  Offsets stand for pointers into the *)
(* buffer and Null for the null pointer.  The variant with a fallback       *)
(* allocator, which nothing in the library instantiates, is left out.       *)
(***************************************************************************)
EXTENDS Integers, Sequences

CONSTANTS
    Capacity,   \* _capacity: cells of the buffer
    Requests,   \* the numbers of bytes asked for
    Null,
    Junk        \* what users write into their data

ASSUME CapacityAssumption == Capacity \in Nat \ {0}
ASSUME RequestsAssumption == Requests \subseteq Nat
ASSUME NullAssumption == Null \notin Int

NodeSize == 8
Cells    == 0..(Capacity - 1)
Headers  == [extent : 0..Capacity, kill : BOOLEAN]

ASSUME JunkAssumption == Junk \notin Headers

VARIABLES
    memory,     \* the buffer: a header, Junk or anything else in each cell
    head,       \* _head: where the next node goes
    tail,       \* _tail: the oldest node
    flushing,   \* the loop of _flush_ring is running
    \* history
    chain,      \* the nodes from tail up to head
    blocks      \* the blocks in use, in the order they were allocated

vars == <<memory, head, tail, flushing, chain, blocks>>

TypeOK ==
    /\ memory \in [Cells -> Headers \union {Junk}]
    /\ head \in Cells \union {Null}
    /\ tail \in Cells \union {Null}
    /\ flushing \in BOOLEAN
    /\ chain \subseteq Cells
    /\ blocks \in Seq([at : Cells, bytes : Nat])

Init ==
    /\ memory = [i \in Cells |-> [extent |-> 0, kill |-> FALSE]]
    /\ head = Null /\ tail = Null
    /\ flushing = FALSE
    /\ chain = {} /\ blocks = <<>>

-----------------------------------------------------------------------------
\* A definition whose name ends in _slip is the next one with a plausible slip of
\* the programmer.  The specification uses none of them; substituting one shows that
\* the properties notice it.

NodeSizeCeil(n) == (n + (NodeSize - 1)) \div NodeSize

\* next_node, and the jump of head and tail from the end of the buffer to its front.
After(s) == s + 1 + memory[s].extent
Wrap_slip(i) == i
Wrap(i) == IF i = Capacity THEN 0 ELSE i

\* What may follow a header written at head: up to the end of the buffer, or up to
\* the oldest node.
EndSpace == Capacity - head - 1
FrontSpace_slip(from) == tail - from
FrontSpace(from) == tail - from - 1

\* The header that closes the buffer when a block does not fit before its end.
Dummy_slip(n) == [extent |-> n, kill |-> FALSE]
Dummy_slip2(n) == [extent |-> n + 1, kill |-> TRUE]
Dummy(n) == [extent |-> n, kill |-> TRUE]

\* A node of n cells at s is handed out for a request of bytes, and filled.
Grant(mem, s, n, bytes) ==
    /\ memory' = [i \in Cells |-> IF i = s THEN [extent |-> n, kill |-> FALSE]
                                  ELSE IF s < i /\ i <= s + n THEN Junk ELSE mem[i]]
    /\ head' = Wrap(s + 1 + n)
    /\ blocks' = Append(blocks, [at |-> s, bytes |-> bytes])
    /\ UNCHANGED flushing

AllocateFirst(bytes) ==
    /\ head = Null /\ NodeSizeCeil(bytes) < Capacity
    /\ Grant(memory, 0, NodeSizeCeil(bytes), bytes)
    /\ tail' = 0
    /\ chain' = {0}

\* Space remains between the newest node and the end of the buffer ...
AllocateAtEnd(bytes) ==
    /\ head # Null /\ head > tail /\ NodeSizeCeil(bytes) <= EndSpace
    /\ Grant(memory, head, NodeSizeCeil(bytes), bytes)
    /\ chain' = chain \union {head}
    /\ UNCHANGED tail

\* ... or not enough: a dummy node fills it and the allocation is tried again at
\* the front, where it may be refused with the dummy already in place.
AllocateAround(bytes) ==
    /\ head # Null /\ head > tail /\ NodeSizeCeil(bytes) > EndSpace /\ tail # 0
    /\ LET filled == [memory EXCEPT ![head] = Dummy(EndSpace)] IN
         IF NodeSizeCeil(bytes) <= FrontSpace(0)
         THEN /\ Grant(filled, 0, NodeSizeCeil(bytes), bytes)
              /\ chain' = chain \union {head, 0}
         ELSE /\ memory' = filled
              /\ head' = 0
              /\ chain' = chain \union {head}
              /\ UNCHANGED <<flushing, blocks>>
    /\ UNCHANGED tail

\* The newest nodes are in front of the oldest ones.
AllocateBetween(bytes) ==
    /\ head # Null /\ head < tail /\ NodeSizeCeil(bytes) <= FrontSpace(head)
    /\ Grant(memory, head, NodeSizeCeil(bytes), bytes)
    /\ chain' = chain \union {head}
    /\ UNCHANGED tail

Allocate(bytes) ==
    /\ ~flushing
    /\ \/ AllocateFirst(bytes) \/ AllocateAtEnd(bytes)
       \/ AllocateAround(bytes) \/ AllocateBetween(bytes)

\* The k-th block is given back: its node is marked, and _flush_ring runs.
Deallocate(k) ==
    /\ ~flushing
    /\ memory' = [memory EXCEPT ![blocks[k].at].kill = TRUE]
    /\ blocks' = SubSeq(blocks, 1, k - 1) \o SubSeq(blocks, k + 1, Len(blocks))
    /\ flushing' = TRUE
    /\ UNCHANGED <<head, tail, chain>>

\* One round of the loop: the oldest node is gone when it is marked, and with the
\* last one the ring starts afresh.
KeepFlushing_slip == FALSE
KeepFlushing == TRUE

FlushRing ==
    /\ flushing
    /\ IF tail # Null /\ memory[tail].kill
       THEN LET next == Wrap(After(tail)) IN
              /\ tail' = IF next = head THEN Null ELSE next
              /\ head' = IF next = head THEN Null ELSE head
              /\ chain' = chain \ {tail}
              /\ flushing' = KeepFlushing
       ELSE flushing' = FALSE /\ UNCHANGED <<head, tail, chain>>
    /\ UNCHANGED <<memory, blocks>>

Next ==
    \/ \E bytes \in Requests : Allocate(bytes)
    \/ \E k \in DOMAIN blocks : Deallocate(k)
    \/ FlushRing

Spec == Init /\ [][Next]_vars

-----------------------------------------------------------------------------
(* Properties                                                               *)

Node(k)      == blocks[k].at
DataCells(k) == (Node(k) + 1)..(Node(k) + memory[Node(k)].extent)

\* A block has room for the bytes asked for, lies in the buffer, holds nothing but
\* what its user wrote, and shares no cell with another block or with the header of
\* any node, also after the ring wrapped around and with blocks returned in any order.
BlockIntact(k) ==
    /\ memory[Node(k)] \in Headers
    /\ blocks[k].bytes <= NodeSize * memory[Node(k)].extent
    /\ \A i \in DataCells(k) : i \in Cells /\ memory[i] = Junk /\ i \notin chain
    /\ \A j \in DOMAIN blocks \ {k} : Node(j) # Node(k) /\ DataCells(j) \intersect DataCells(k) = {}

BlocksIntact == \A k \in DOMAIN blocks : BlockIntact(k)

\* front(): between two calls the oldest node of the ring is the oldest block in use,
\* whatever was returned before it and wherever the ring wrapped.
FrontIsOldest ==
    ~flushing /\ tail # Null => blocks # <<>> /\ tail = Node(1)

\* Nothing is lost: when every block was returned, in whatever order, the ring is
\* empty again and takes the largest block from the start of the buffer.
EmptiesWhenReturned == ~flushing /\ blocks = <<>> => head = Null /\ tail = Null

\* The nodes tile the ring from tail to head: each is followed by another one or
\* by head, so that no cell is lost between them.
Tiled ==
    /\ head = Null <=> chain = {}
    /\ \A s \in chain : memory[s] \in Headers /\ Wrap(After(s)) \in chain \union {head}
=============================================================================
