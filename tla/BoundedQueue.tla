---------------------------- MODULE BoundedQueue ----------------------------
(***************************************************************************)
(* What circular_queue promises: a first-in first-out sequence of at most   *)
(* room elements, of which rotating and bulk insertion drop the oldest.     *)
(***************************************************************************)
EXTENDS Integers, Sequences, FiniteSetsExt

CONSTANTS Queues, Values, MaxCapacity, MaxBulk

VARIABLES
    items,      \* of each queue, its elements, oldest first
    room,       \* and how many it may have
    out         \* what the last dequeue gave

Newest(s, n) == IF Len(s) > n THEN SubSeq(s, Len(s) - n + 1, Len(s)) ELSE s
Bulks == UNION {[1 .. n -> Values] : n \in 0 .. MaxBulk}

Init ==
    /\ items = [q \in Queues |-> <<>>]
    /\ room \in [Queues -> 0 .. MaxCapacity] /\ out = <<>>

Push(q, v) ==
    /\ Len(items[q]) < room[q]
    /\ items' = [items EXCEPT ![q] = Append(@, v)] /\ UNCHANGED <<room, out>>

EnqueueN(q, s) ==
    /\ room[q] > 0
    /\ items' = [items EXCEPT ![q] = Newest(@ \o s, room[q])]
    /\ UNCHANGED <<room, out>>

DequeueN(q, n) ==
    /\ out' = SubSeq(items[q], 1, n)
    /\ items' = [items EXCEPT ![q] = SubSeq(@, n + 1, Len(@))] /\ room' = room

Clear(q) == items' = [items EXCEPT ![q] = <<>>] /\ UNCHANGED <<room, out>>

Resize(q, c) ==
    /\ items' = [items EXCEPT ![q] = SubSeq(@, 1, Min({Len(@), c}))]
    /\ room' = [room EXCEPT ![q] = c] /\ out' = out

Copy(p, q) ==
    /\ items' = [items EXCEPT ![p] = items[q]]
    /\ room' = [room EXCEPT ![p] = room[q]] /\ out' = out

Exchange(p, q) ==
    /\ items' = [items EXCEPT ![p] = items[q], ![q] = items[p]]
    /\ room' = [room EXCEPT ![p] = room[q], ![q] = room[p]] /\ out' = out

Next == \E q \in Queues :
    \/ \E v \in Values : Push(q, v)
    \/ \E s \in Bulks : EnqueueN(q, s)
    \/ \E n \in 0 .. Len(items[q]) : DequeueN(q, n)
    \/ Clear(q)
    \/ \E c \in 0 .. MaxCapacity : Resize(q, c)
    \/ \E p \in Queues \ {q} : Copy(p, q) \/ Exchange(p, q)

Spec == Init /\ [][Next]_<<items, room, out>>
=============================================================================
