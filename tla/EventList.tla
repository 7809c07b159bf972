------------------------------ MODULE EventList ------------------------------
(***************************************************************************)
(* basic_event (utility/event.hxx): handlers with priorities, the threads   *)
(* that invoke them, and handles that remove them at any time, also while   *)
(* they are invoked and by a handler.                                       *)
(*                                                                          *)
(* Nodes are shared pointers: those appended wait in a list of new nodes    *)
(* until an invocation begins, which sorts them into the list of handlers.  *)
(* What is done under mtx_ is one step.  The invocation takes the node      *)
(* after the one it calls without it; the step takes the pointer that is    *)
(* there (a race on the shared pointer itself is left out).                 *)
(*                                                                          *)
(* The destructor of a node takes mtx_.  An invocation that drops the last  *)
(* reference to the node it called does so under mtx_, and is stuck with    *)
(* it: mtx_ is a spinlock.  size_ is left out.                              *)
(***************************************************************************)
EXTENDS Integers, FiniteSets

CONSTANTS
    Handlers,       \* the nodes, each appended once
    Priority,       \* of each
    Threads,        \* that invoke the event
    MaxInvocations, \* bound: of each thread
    Null

ASSUME HandlersAssumption == IsFiniteSet(Handlers)
ASSUME PriorityAssumption == Priority \in [Handlers -> Int]
ASSUME NullAssumption     == Null \notin Handlers
ASSUME BoundAssumption    == MaxInvocations \in Nat

VARIABLES
    front,          \* node_front_
    newFront,       \* new_node_front_
    next, prev,     \* p_next and p_prev of each node
    appended,       \* the nodes that were appended
    detached,       \* the nodes that were detached
    pc,             \* of each thread: "idle", "head", "take", "call", "expire", "relock", "stuck"
    head, node,     \* its p_head and p_node
    consumed,       \* its handler said consume
    invocations,    \* the number of its invocations
    \* history of its current or last invocation
    due,            \* the handlers in the list when it began
    gone,           \* the handlers detached when it began
    called,         \* the handlers called, with the number of calls
    cut             \* the node it was about to take was detached

links == <<front, newFront, next, prev>>
local == <<head, node, consumed, invocations>>
ghost == <<due, gone, called, cut>>
vars  == <<links, appended, detached, pc, local, ghost>>

NoLink == [h \in Handlers |-> Null]

Init ==
    /\ front = Null /\ newFront = Null /\ next = NoLink /\ prev = NoLink
    /\ appended = {} /\ detached = {}
    /\ pc = [t \in Threads |-> "idle"]
    /\ head = [t \in Threads |-> Null] /\ node = [t \in Threads |-> Null]
    /\ consumed = [t \in Threads |-> FALSE] /\ invocations = [t \in Threads |-> 0]
    /\ due = [t \in Threads |-> {}] /\ gone = [t \in Threads |-> {}]
    /\ called = [t \in Threads |-> [h \in Handlers |-> 0]]
    /\ cut = [t \in Threads |-> FALSE]

\* mtx_ can be taken.
Free == \A t \in Threads : pc[t] # "stuck"

-----------------------------------------------------------------------------
L == [front |-> front, newFront |-> newFront, next |-> next, prev |-> prev]
SetLinks(l) == /\ front' = l.front /\ newFront' = l.newFront
               /\ next' = l.next /\ prev' = l.prev

\* append
Append(h) ==
    /\ Free /\ h \notin appended
    /\ SetLinks([front |-> front, newFront |-> h, next |-> [next EXCEPT ![h] = newFront],
                 prev |-> [n \in Handlers |-> IF n = newFront THEN h ELSE prev[n]]])
    /\ appended' = appended \union {h}
    /\ UNCHANGED <<detached, pc, local, ghost>>

\* if_entity::detach
Unlinked_slip(l, h) ==
    [front    |-> IF l.newFront # h /\ l.front = h THEN l.next[h] ELSE l.front,
     newFront |-> IF l.newFront = h THEN l.next[h] ELSE l.newFront,
     next     |-> [n \in Handlers |-> IF n = h THEN Null
                                      ELSE IF n = l.prev[h] THEN l.next[h] ELSE l.next[n]],
     prev     |-> [l.prev EXCEPT ![h] = Null]]
Unlinked(l, h) ==
    [front    |-> IF l.newFront # h /\ l.front = h THEN l.next[h] ELSE l.front,
     newFront |-> IF l.newFront = h THEN l.next[h] ELSE l.newFront,
     next     |-> [n \in Handlers |-> IF n = h THEN Null
                                      ELSE IF n = l.prev[h] THEN l.next[h] ELSE l.next[n]],
     prev     |-> [n \in Handlers |-> IF n = h THEN Null
                                      ELSE IF n = l.next[h] THEN l.prev[h] ELSE l.prev[n]]]

Detach(h) ==
    /\ SetLinks(Unlinked(L, h))
    /\ detached' = detached \union {h}
    /\ cut' = [t \in Threads |-> cut[t] \/ (h \notin detached /\ head[t] = h)]

\* remove, or expire of a handle, whose node is still alive.
Alive(h) == h \in {front, newFront} \/ \E n \in Handlers : next[n] = h
Held(h)  == \E t \in Threads : h \in {head[t], node[t]}
Remove(h) ==
    /\ Free /\ h \in appended /\ (Alive(h) \/ Held(h))
    /\ Detach(h)
    /\ UNCHANGED <<appended, pc, local, due, gone, called>>

-----------------------------------------------------------------------------
\* The place of a new node: after the first handler whose priority is not higher, or last.
At(l, p) ==
    LET place[n \in Handlers] ==
            IF Priority[n] > p /\ l.next[n] # Null THEN place[l.next[n]] ELSE n
    IN  place[l.front]
LinkedAfter_slip(l, n, h) == [l EXCEPT !.next[n] = h, !.prev[h] = n]
LinkedAfter(l, n, h) ==
    [l EXCEPT !.next = [l.next EXCEPT ![n] = h, ![h] = l.next[n]],
              !.prev = [m \in Handlers |-> IF m = h THEN n
                                           ELSE IF m = l.next[n] THEN h ELSE l.prev[m]]]

\* One turn of the loop of flush, and the loop.
Flushed1(l) ==
    LET h == l.newFront
        popped == [l EXCEPT !.newFront = l.next[h], !.prev[h] = Null, !.next[h] = Null]
    IN  IF l.front = Null THEN [popped EXCEPT !.front = h]
        ELSE LinkedAfter(popped, At(popped, Priority[h]), h)
Flushed(l) ==
    LET after[i \in 0..Cardinality(Handlers)] ==
            IF i = 0 THEN l
            ELSE IF after[i - 1].newFront = Null THEN after[i - 1] ELSE Flushed1(after[i - 1])
    IN  after[Cardinality(Handlers)]

\* The handlers of a list, from f on
Chain(f) ==
    LET from[i \in 0..Cardinality(Handlers)] ==
            IF i = 0 THEN {f} \ {Null} ELSE from[i - 1] \union ({next[n] : n \in from[i - 1]} \ {Null})
    IN  from[Cardinality(Handlers)]

\* invoke begins with flush.
Invoke(t) ==
    /\ Free /\ pc[t] = "idle" /\ invocations[t] < MaxInvocations
    /\ SetLinks(Flushed(L))
    /\ pc' = [pc EXCEPT ![t] = "head"]
    /\ invocations' = [invocations EXCEPT ![t] = @ + 1]
    /\ gone' = [gone EXCEPT ![t] = detached]
    /\ due' = [due EXCEPT ![t] = {}]
    /\ called' = [called EXCEPT ![t] = [h \in Handlers |-> 0]]
    /\ cut' = [cut EXCEPT ![t] = FALSE]
    /\ UNCHANGED <<appended, detached, head, node, consumed>>

\* Reads node_front_.
ReadFront(t) ==
    /\ Free /\ pc[t] = "head"
    /\ head' = [head EXCEPT ![t] = front]
    /\ pc' = [pc EXCEPT ![t] = IF front = Null THEN "idle" ELSE "take"]
    /\ due' = [due EXCEPT ![t] = Chain(front)]
    /\ UNCHANGED <<links, appended, detached, node, consumed, invocations, gone, called, cut>>

\* p_node and the new p_head, without mtx_
Take(t) ==
    /\ pc[t] = "take"
    /\ node' = [node EXCEPT ![t] = head[t]]
    /\ head' = [head EXCEPT ![t] = next[head[t]]]
    /\ pc' = [pc EXCEPT ![t] = "call"]
    /\ UNCHANGED <<links, appended, detached, consumed, invocations, ghost>>

\* The handler returns any combination of expire and consume.  What it does itself is done
\* by the other actions.
Call(t) ==
    /\ pc[t] = "call"
    /\ called' = [called EXCEPT ![t][node[t]] = @ + 1]
    /\ \E expire, consume \in BOOLEAN :
         /\ pc' = [pc EXCEPT ![t] = IF expire THEN "expire" ELSE "relock"]
         /\ consumed' = [consumed EXCEPT ![t] = consume]
    /\ UNCHANGED <<links, appended, detached, head, node, invocations, due, gone, cut>>

\* The node is detached and dropped without mtx_.
Expire(t) ==
    /\ Free /\ pc[t] = "expire"
    /\ Detach(node[t])
    /\ node' = [node EXCEPT ![t] = Null]
    /\ pc' = [pc EXCEPT ![t] = "relock"]
    /\ UNCHANGED <<appended, head, consumed, invocations, due, gone, called>>

\* mtx_ is taken and p_node is dropped; then the next turn, or the end.
LastReference(t) ==
    node[t] # Null /\ ~Alive(node[t])
        /\ \A u \in Threads : node[t] # head[u] /\ (u # t => node[t] # node[u])
Relock(t) ==
    LET done == consumed[t] \/ head[t] = Null IN
    /\ Free /\ pc[t] = "relock"
    /\ pc' = [pc EXCEPT ![t] = IF LastReference(t) THEN "stuck"
                               ELSE IF done THEN "idle" ELSE "take"]
    /\ node' = [node EXCEPT ![t] = Null]
    /\ head' = [head EXCEPT ![t] = IF done THEN Null ELSE @]
    /\ UNCHANGED <<links, appended, detached, consumed, invocations, ghost>>

Step(t) == Invoke(t) \/ ReadFront(t) \/ Take(t) \/ Call(t) \/ Expire(t) \/ Relock(t)

Next == \/ \E h \in Handlers : Append(h) \/ Remove(h)
        \/ \E t \in Threads : Step(t)

Spec == Init /\ [][Next]_vars

-----------------------------------------------------------------------------
\* The two lists hold each node that was appended and not detached, once, with p_prev the
\* inverse of p_next; a detached node is linked to nothing.
Linked ==
    /\ Chain(front) \union Chain(newFront) = appended \ detached
    /\ Chain(front) \intersect Chain(newFront) = {}
    /\ \A h \in appended \ detached :
         prev[h] = IF h \in {front, newFront} THEN Null ELSE CHOOSE n \in Handlers : next[n] = h
    /\ \A m, n \in Handlers : next[m] = next[n] /\ next[m] # Null => m = n
    /\ \A h \in Handlers \ (appended \ detached) : next[h] = Null /\ prev[h] = Null

\* An invocation calls no handler twice, none that was removed before it began, and each
\* that was in the list and not removed before its turn, unless a handler consumed the
\* event or the node it was about to take was removed.
Invoked ==
    \A t \in Threads :
        /\ \A h \in Handlers : called[t][h] <= 1 /\ (h \in gone[t] => called[t][h] = 0)
        /\ pc[t] = "idle" /\ ~consumed[t] /\ ~cut[t] =>
              \A h \in due[t] \ detached : called[t][h] = 1
=============================================================================
