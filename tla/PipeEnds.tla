------------------------------ MODULE PipeEnds ------------------------------
(***************************************************************************)
(* The two ends of an in-memory pipe (rpc/connection/inmemory_pipe.hxx) with *)
(* their sessions, and when a session is told that there are bytes: the     *)
(* state of InmemoryPipe and its invariants.                                *)
(***************************************************************************)
EXTENDS Integers, Sequences, FiniteSets

CONSTANTS
    a, b,           \* the two ends
    Lengths,        \* the lengths of messages
    MaxMessages,    \* bound: the messages sent by each end
    ObufSize,       \* sizeof _obuf
    IbufSize,       \* sizeof _ibuf
    Capacity        \* the capacity that the queue of a pipe starts with

Ends == {a, b}
Peer(e) == IF e = a THEN b ELSE a

ASSUME EndsAssumption  == a # b
ASSUME SizesAssumption == /\ Lengths \subseteq Nat \ {0} /\ MaxMessages \in [Ends -> Nat]
                          /\ {ObufSize, IbufSize, Capacity} \subseteq Nat \ {0}

VARIABLES
    manual,     \* the sessions do not flush after each message (_manual_flush)
    \* the pipe that an end reads, its _in
    strm,       \* the number of bytes in it
    capacity,   \* of its queue
    receiver,   \* it has a receiver
    \* the end
    obuf,       \* the bytes between pbase and pptr
    avail,      \* the bytes between gptr and egptr
    noSignal,   \* _no_signal
    \* the session and its threads
    valid,      \* _valid
    waiting,    \* _waiting
    sender,     \* "idle", "write", "signal", "failed"
    left,       \* the bytes of the message still to be put by the sender
    flushing,   \* the sender will flush
    handler,    \* "idle", "posted", "read", "rearm", "ended"
    coming,     \* the lengths of the messages to this end that are not read, the first one's rest
    sent        \* the number of messages sent

-----------------------------------------------------------------------------
Signalled(e) == sender[Peer(e)] = "signal"

\* No byte waits unnoticed: a session whose handler is idle has none, or the sender that
\* put it there is about to tell it.
NoLostSignal ==
    \A e \in Ends : handler[e] = "idle" => (strm[e] = 0 /\ avail[e] = 0) \/ Signalled(e)

\* on_data_receive is called of a session that waits for it, once per start_data_receive
\* (the assertions on _waiting, session.hxx:417 and 457), and only when there is data.
OneSignal ==
    \A e \in Ends :
        /\ Signalled(e) => handler[e] = "idle" /\ waiting[e] /\ strm[e] > 0
        /\ ~noSignal[e] => handler[e] = "idle" /\ ~Signalled(e)
        /\ handler[e] = "posted" => ~waiting[e] /\ strm[e] + avail[e] > 0
=============================================================================
