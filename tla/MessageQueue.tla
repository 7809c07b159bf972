---------------------------- MODULE MessageQueue ----------------------------
(***************************************************************************)
(* What cpph::event_queue promises those who post to it, without its list  *)
(* of nodes, locks and threads: messages wait in the order they were       *)
(* posted, and each leaves the queue once, from its front to be executed   *)
(* or with all the others to be discarded.  EventQueue implements it.      *)
(***************************************************************************)
EXTENDS Sequences

CONSTANT Messages

VARIABLES
    queue,      \* the messages that wait
    fate        \* what became of each message

vars == <<queue, fate>>

Init ==
    /\ queue = <<>>
    /\ fate = [m \in Messages |-> "new"]

Post(m) ==
    /\ fate[m] = "new"
    /\ queue' = Append(queue, m)
    /\ fate' = [fate EXCEPT ![m] = "posted"]

Take ==
    /\ queue # <<>>
    /\ queue' = Tail(queue)
    /\ fate' = [fate EXCEPT ![Head(queue)] = "taken"]

DiscardAll ==
    /\ queue' = <<>>
    /\ fate' = [m \in Messages |-> IF fate[m] = "posted" THEN "discarded" ELSE fate[m]]

\* dispatch from within a message of the same queue: executed on the spot.
RunInline(m) ==
    /\ fate[m] = "new"
    /\ fate' = [fate EXCEPT ![m] = "taken"]
    /\ UNCHANGED queue

Next == (\E m \in Messages : Post(m) \/ RunInline(m)) \/ Take \/ DiscardAll

Spec == Init /\ [][Next]_vars
=============================================================================
