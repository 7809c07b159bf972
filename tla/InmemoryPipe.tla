---------------------------- MODULE InmemoryPipe ----------------------------
(***************************************************************************)
(* rpc::conn::inmemory_pipe (rpc/connection/inmemory_pipe.hxx): two         *)
(* connections in one process, each the streambuf of an rpc session that    *)
(* writes messages and, when on_data_receive tells it that there are bytes, *)
(* reads one message (rpc/detail/session.hxx:418-459).                      *)
(*                                                                          *)
(* Per session there are a thread that sends, a worker that handles what    *)
(* arrived and one that closes.  A session holds _mtx_protocol while it     *)
(* sends and while it handles a message; close() closes the connection      *)
(* before it takes it.  The callback of on_data_receive only posts.         *)
(*                                                                          *)
(* Bytes are counted.  What one thread does under the mutex of a pipe is    *)
(* one step.  The destruction of the connections is left out.               *)
(***************************************************************************)
EXTENDS PipeEnds

pipes    == <<strm, capacity, receiver>>
buffers  == <<obuf, avail, noSignal>>
sending  == <<sender, left, flushing, sent>>
session  == <<valid, waiting, handler, coming>>
vars     == <<manual, pipes, buffers, sending, session>>

\* create, initialize and the first start_data_receive of both sessions
Init ==
    /\ manual \in BOOLEAN
    /\ strm = [e \in Ends |-> 0] /\ capacity = [e \in Ends |-> Capacity]
    /\ receiver = [e \in Ends |-> TRUE]
    /\ obuf = [e \in Ends |-> 0] /\ avail = [e \in Ends |-> 0]
    /\ noSignal = [e \in Ends |-> TRUE]
    /\ valid = [e \in Ends |-> TRUE] /\ waiting = [e \in Ends |-> TRUE]
    /\ sender = [e \in Ends |-> "idle"] /\ left = [e \in Ends |-> 0]
    /\ flushing = [e \in Ends |-> FALSE]
    /\ handler = [e \in Ends |-> "rearm"] /\ coming = [e \in Ends |-> <<>>]
    /\ sent = [e \in Ends |-> 0]

-----------------------------------------------------------------------------
\* _mtx_protocol
Free(e) == sender[e] = "idle" /\ handler[e] # "read"

\* The message of a notify or a request
Send(e) ==
    /\ Free(e) /\ valid[e] /\ sent[e] < MaxMessages[e]
    /\ \E n \in Lengths :
         /\ left' = [left EXCEPT ![e] = n]
         /\ coming' = [coming EXCEPT ![Peer(e)] = Append(@, n)]
    /\ sent' = [sent EXCEPT ![e] = @ + 1]
    /\ sender' = [sender EXCEPT ![e] = "write"]
    /\ flushing' = [flushing EXCEPT ![e] = ~manual]
    /\ UNCHANGED <<manual, pipes, buffers, valid, waiting, handler>>

\* session::flush, when there is something to flush
Flush(e) ==
    /\ manual /\ Free(e) /\ obuf[e] > 0
    /\ sender' = [sender EXCEPT ![e] = "write"]
    /\ flushing' = [flushing EXCEPT ![e] = TRUE]
    /\ UNCHANGED <<manual, pipes, buffers, left, sent, session>>

\* sputc until the buffer is full
Put(e) ==
    /\ sender[e] = "write" /\ left[e] > 0 /\ obuf[e] < ObufSize
    /\ LET n == IF left[e] < ObufSize - obuf[e] THEN left[e] ELSE ObufSize - obuf[e]
       IN  /\ obuf' = [obuf EXCEPT ![e] = @ + n]
           /\ left' = [left EXCEPT ![e] = @ - n]
    /\ UNCHANGED <<manual, pipes, avail, noSignal, sender, flushing, sent, session>>

Grown(size, cap, n) == IF cap - size < n
                       THEN IF 2 * cap > cap + n THEN 2 * cap ELSE cap + n
                       ELSE cap

\* test_and_set of the receiver's _no_signal, under the mutex of the pipe
Raise_slip(e) ==
    /\ noSignal' = noSignal
    /\ sender' = [sender EXCEPT ![e] = IF noSignal[Peer(e)] THEN "write" ELSE "signal"]
Raise(e) ==
    /\ noSignal' = [noSignal EXCEPT ![Peer(e)] = TRUE]
    /\ sender' = [sender EXCEPT ![e] = IF noSignal[Peer(e)] THEN "write" ELSE "signal"]

\* The part of _do_sync under the mutex of the pipe, for overflow or for sync
Sync(e) ==
    LET p == Peer(e) IN
    /\ sender[e] = "write" /\ obuf[e] > 0
    /\ IF left[e] > 0 THEN obuf[e] = ObufSize ELSE flushing[e]
    /\ IF receiver[p]
       THEN /\ strm' = [strm EXCEPT ![p] = @ + obuf[e]]
            /\ capacity' = [capacity EXCEPT ![p] = Grown(strm[p], @, obuf[e])]
            /\ obuf' = [obuf EXCEPT ![e] = 0]
            /\ Raise(e)
       ELSE sender' = [sender EXCEPT ![e] = "failed"] /\ UNCHANGED <<strm, capacity, obuf, noSignal>>
    /\ UNCHANGED <<manual, receiver, avail, left, flushing, sent, session>>

\* on_data_receive, whose session posts the handling of a message
Posted(e) ==
    /\ handler' = [handler EXCEPT ![e] = "posted"]
    /\ waiting' = [waiting EXCEPT ![e] = FALSE]

\* recv->on_data_receive() by the sender, with no mutex of a pipe held
Signal(e) ==
    /\ sender[e] = "signal"
    /\ sender' = [sender EXCEPT ![e] = "write"]
    /\ Posted(Peer(e))
    /\ UNCHANGED <<manual, pipes, buffers, left, flushing, sent, valid, coming>>

\* The sender is done, or wrote in vain.  What a failed sync did not take stays in _obuf.
EndSend(e) ==
    /\ \/ sender[e] = "failed"
       \/ sender[e] = "write" /\ left[e] = 0 /\ (flushing[e] => obuf[e] = 0)
    /\ sender' = [sender EXCEPT ![e] = "idle"]
    /\ left' = [left EXCEPT ![e] = 0]
    /\ UNCHANGED <<manual, pipes, buffers, flushing, sent, session>>

-----------------------------------------------------------------------------
\* _impl_on_data_wait_complete takes _mtx_protocol
Handle(e) ==
    /\ handler[e] = "posted" /\ Free(e)
    /\ handler' = [handler EXCEPT ![e] = IF valid[e] THEN "read" ELSE "ended"]
    /\ UNCHANGED <<manual, pipes, buffers, sending, valid, waiting, coming>>

\* sgetc and sbumpc of what is in _ibuf
Get(e) ==
    LET n == IF avail[e] < Head(coming[e]) THEN avail[e] ELSE Head(coming[e]) IN
    /\ handler[e] = "read" /\ Head(coming[e]) > 0 /\ avail[e] > 0
    /\ avail' = [avail EXCEPT ![e] = @ - n]
    /\ coming' = [coming EXCEPT ![e] = <<Head(@) - n>> \o Tail(@)]
    /\ UNCHANGED <<manual, pipes, obuf, noSignal, sending, valid, waiting, handler>>

\* underflow, when its wait is over
Underflow(e) ==
    LET n == IF strm[e] < IbufSize THEN strm[e] ELSE IbufSize IN
    /\ handler[e] = "read" /\ Head(coming[e]) > 0 /\ avail[e] = 0
    /\ receiver[e] /\ strm[e] > 0
    /\ strm' = [strm EXCEPT ![e] = @ - n]
    /\ avail' = [avail EXCEPT ![e] = n]
    /\ UNCHANGED <<manual, capacity, receiver, obuf, noSignal, sending, session>>

\* underflow returns eof, and the session expires, which closes the connection.
Eof_slip(e) == ~receiver[e] /\ strm[e] > 0
Eof(e) == ~receiver[e]
UnderflowEof(e) ==
    /\ handler[e] = "read" /\ Head(coming[e]) > 0 /\ avail[e] = 0
    /\ Eof(e)
    /\ handler' = [handler EXCEPT ![e] = "ended"]
    /\ valid' = [valid EXCEPT ![e] = FALSE]
    /\ UNCHANGED <<manual, pipes, buffers, sending, waiting, coming>>

\* The message is handled.
EndRead(e) ==
    /\ handler[e] = "read" /\ Head(coming[e]) = 0
    /\ handler' = [handler EXCEPT ![e] = "rearm"]
    /\ waiting' = [waiting EXCEPT ![e] = TRUE]
    /\ coming' = [coming EXCEPT ![e] = Tail(@)]
    /\ UNCHANGED <<manual, pipes, buffers, sending, valid>>

\* start_data_receive: there are bytes in the pipe or in _ibuf, or the next ones are signalled.
Ready_slip(e) == strm[e] > 0
Ready_slip2(e) == avail[e] > 0
Ready(e) == strm[e] > 0 \/ avail[e] > 0
StartDataReceive(e) ==
    /\ handler[e] = "rearm"
    /\ \/ Ready(e) /\ Posted(e) /\ noSignal' = noSignal
       \/ /\ ~Ready(e)
          /\ noSignal' = [noSignal EXCEPT ![e] = FALSE]
          /\ handler' = [handler EXCEPT ![e] = "idle"] /\ waiting' = waiting
    /\ UNCHANGED <<manual, pipes, obuf, avail, sending, valid, coming>>

\* close() of the connection by the session's close, which clears the receiver of its own
\* pipe, twice.
CloseConnection(e) ==
    /\ valid[e] /\ receiver[e]
    /\ receiver' = [receiver EXCEPT ![e] = FALSE]
    /\ UNCHANGED <<manual, strm, capacity, buffers, sending, session>>

\* The rest of the session's close, under _mtx_protocol
CloseSession(e) ==
    /\ ~receiver[e] /\ valid[e] /\ Free(e)
    /\ valid' = [valid EXCEPT ![e] = FALSE]
    /\ UNCHANGED <<manual, pipes, buffers, sending, waiting, handler, coming>>

SenderStep(e)  == Put(e) \/ Sync(e) \/ Signal(e) \/ EndSend(e)
HandlerStep(e) == \/ Handle(e) \/ Get(e) \/ Underflow(e) \/ UnderflowEof(e) \/ EndRead(e)
                  \/ StartDataReceive(e)

Next == \E e \in Ends : \/ Send(e) \/ Flush(e) \/ SenderStep(e) \/ HandlerStep(e)
                        \/ CloseConnection(e) \/ CloseSession(e)

Spec == Init /\ [][Next]_vars

\* Threads that can go on do; nobody has to send, to flush or to close.
Fairness == \A e \in Ends : /\ WF_vars(SenderStep(e)) /\ WF_vars(HandlerStep(e))
                            /\ SF_vars(CloseSession(e))
FairSpec == Spec /\ Fairness

-----------------------------------------------------------------------------
\* When every message is flushed, what is put into a pipe is read, or its end is closed.
AllRead ==
    \A e \in Ends : ~manual /\ strm[e] > 0 ~> strm[e] = 0 \/ ~receiver[e]

\* close() returns, also while a handler that holds _mtx_protocol waits for the rest of a
\* message that the peer does not flush.
CloseReturns ==
    \A e \in Ends : ~receiver[e] ~> ~valid[e]
=============================================================================
