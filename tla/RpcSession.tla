----------------------------- MODULE RpcSession -----------------------------
(***************************************************************************)
(* The requesting side of an RPC session: rpc::session of                  *)
(* refl/rpc/detail/session.hxx, driven by                                   *)
(*                                                                          *)
(*   - callers, each on its own thread, that issue one request              *)
(*     (async_request), may wait for it (wait, wait_for) and, when the wait *)
(*     times out, abort it (signature_t::request_with, abort_request);      *)
(*   - notifiers, that send one notification (notify);                      *)
(*   - closers, that close the session (close);                             *)
(*   - the workers of the event procedure, that run what the session posts  *)
(*     to it: receive cycles, reply completions, abort completions and the  *)
(*     message that tells the monitor of the expiry;                        *)
(*   - the peer and the network, which deliver replies whole or in parts    *)
(*     and may hang up.                                                     *)
(*                                                                          *)
(* Two locks are modelled: _mtx_protocol (mtx), which serialises the        *)
(* protocol stream, and the mutex of _rq->lock (rqm), which protects the    *)
(* table of requests and is kept by the reader while it parses the body of  *)
(* a reply.  Both are acquired where the code acquires them; a short        *)
(* critical section of one lock is one action.                              *)
(***************************************************************************)
EXTENDS Integers, FiniteSets

CONSTANTS
    Calls,      \* requests issued on the session, each by its own thread
    Sync,       \* the calls whose thread waits for the completion
    Timed,      \* the waiting calls that were given a timeout
    Workers,    \* threads of the event procedure
    Notifiers,  \* threads that send a notification
    Closers,    \* threads that close the session
    MaxMsgId,   \* std::numeric_limits<int>::max()
    None,       \* no thread, no call, no entry
    Moved       \* a table entry whose node was moved out: an empty pool_ptr

Threads == Calls \union Workers \union Notifiers \union Closers
MsgIds  == 1..MaxMsgId

ASSUME ThreadsAssumption ==
    /\ Sync \subseteq Calls
    /\ Timed \subseteq Sync
    /\ Calls \intersect (Workers \union Notifiers \union Closers) = {}
    /\ Workers \intersect (Notifiers \union Closers) = {}
    /\ Notifiers \intersect Closers = {}

ASSUME SentinelsAssumption ==
    /\ None # Moved
    /\ None \notin Threads
    /\ Moved \notin Threads

ASSUME MaxMsgIdAssumption == MaxMsgId \in Nat \ {0}

VARIABLES
    \* the session
    valid,      \* _valid
    closed,     \* _conn->close() was called (_flag_conn_close)
    mtx,        \* owner of _mtx_protocol
    rqm,        \* owner of _rq->lock's mutex across steps
    idgen,      \* _rq->idgen
    requests,   \* _rq->requests: the node under each id, None or Moved
    \* what was posted to the event procedure and has not run
    receives,   \* number of receive cycles (on_data_wait_complete)
    replies,    \* calls whose reply was parsed (_handle_reply)
    aborts,     \* nodes of fn_abort_request closures
    notices,    \* number of on_session_expired messages
    told,       \* number of times on_session_expired was called
    \* the threads
    pc,
    node,       \* the request node, or its handler, held in a local variable
    job,        \* the call whose reply a worker handles
    waiters,    \* calls asleep in the condition variable of _rq->lock
    \* the calls
    msgid,      \* request_handle::_msgid, 0 in an empty handle
    fired,      \* number of invocations of the completion handler
    outcome,    \* the error code the handler was given
    result,     \* the result of request_with
    \* the peer and the connection
    sent,       \* calls whose request reached the peer
    answer,     \* the peer's reply to each call
    wire,       \* the call answered by the message being received
    whole,      \* the message being received has arrived to its last byte
    eof,        \* the peer hung up
    armed,      \* start_data_receive waits for data
    crashed     \* an empty pool_ptr was dereferenced: undefined behaviour

sessionVars == <<valid, closed, idgen, requests>>
postedVars  == <<receives, replies, aborts, notices, told>>
callVars    == <<msgid, fired, outcome, result>>
peerVars    == <<sent, answer, wire, whole, eof, armed>>
vars == <<sessionVars, mtx, rqm, postedVars, pc, node, job, waiters,
          callVars, peerVars, crashed>>

PcValues == {"idle", "send", "check", "wait", "blocked", "abort",
             "abort_call", "abort_notify", "abort_release",
             "close_lock", "close_conn", "flip", "sweep",
             "read", "head", "find", "body", "post",
             "reply", "handler", "reply_erase", "done"}
Answers  == {"none", "value", "error", "misfit"}
Outcomes == {"none", "okay", "exception_returned", "aborted"}
Results  == Outcomes \union {"timeout", "invalid_connection"}

SessionTypeOK ==
    /\ valid \in BOOLEAN /\ closed \in BOOLEAN
    /\ mtx \in Threads \union {None}
    /\ rqm \in Workers \union {None}
    /\ idgen \in 0..(MaxMsgId - 1)
    /\ requests \in [MsgIds -> Calls \union {None, Moved}]

PostedTypeOK ==
    /\ receives \in Nat /\ notices \in Nat /\ told \in Nat
    /\ replies \subseteq Calls
    /\ aborts \subseteq Calls \union {Moved}

ThreadsTypeOK ==
    /\ pc \in [Threads -> PcValues]
    /\ node \in [Threads -> Calls \union {None}]
    /\ job \in [Workers -> Calls \union {None}]
    /\ waiters \subseteq Calls

CallsTypeOK ==
    /\ msgid \in [Calls -> 0..MaxMsgId]
    /\ fired \in [Calls -> Nat]
    /\ outcome \in [Calls -> Outcomes]
    /\ result \in [Calls -> Results]

PeerTypeOK ==
    /\ sent \subseteq Calls
    /\ answer \in [Calls -> Answers]
    /\ wire \in Calls \union {None}
    /\ whole \in BOOLEAN /\ eof \in BOOLEAN /\ armed \in BOOLEAN
    /\ crashed \in BOOLEAN

TypeOK == SessionTypeOK /\ PostedTypeOK /\ ThreadsTypeOK /\ CallsTypeOK /\ PeerTypeOK

-----------------------------------------------------------------------------
(* A session as _initialize leaves it: valid, its first receive cycle       *)
(* started, no request issued yet.                                          *)

Init ==
    /\ valid = TRUE /\ closed = FALSE
    /\ mtx = None /\ rqm = None
    /\ idgen = 0
    /\ requests = [i \in MsgIds |-> None]
    /\ receives = 0 /\ replies = {} /\ aborts = {} /\ notices = 0 /\ told = 0
    /\ pc = [t \in Threads |-> "idle"]
    /\ node = [t \in Threads |-> None]
    /\ job = [w \in Workers |-> None]
    /\ waiters = {}
    /\ msgid = [c \in Calls |-> 0]
    /\ fired = [c \in Calls |-> 0]
    /\ outcome = [c \in Calls |-> "none"]
    /\ result = [c \in Calls |-> "none"]
    /\ sent = {} /\ answer = [c \in Calls |-> "none"]
    /\ wire = None /\ whole = FALSE /\ eof = FALSE /\ armed = TRUE
    /\ crashed = FALSE

Goto(t, label) == pc' = [pc EXCEPT ![t] = label]

\* A few definitions are preceded by a variant whose name ends in _slip: the same
\* step with one plausible slip of the programmer.  The specification uses none of
\* them; substituting one shows that the properties notice it.

\* The entry of an id: none for the id of an empty handle.
Entry(i) == IF i \in MsgIds THEN requests[i] ELSE None

EraseEntry_slip(i)  == UNCHANGED requests
EraseEntry_slip2(i) == requests' = [j \in MsgIds |-> None]

\* _rq->requests.erase(msgid): does nothing when the id is not there.
EraseEntry(i) == requests' = [j \in MsgIds |-> IF j = i THEN None ELSE requests[j]]

\* Thread t moves the node of entry i into a local variable, which leaves an empty
\* pool_ptr or, when the entry is erased, nothing.
TakeEntry_slip(t, i, left) ==
    node' = [node EXCEPT ![t] = requests[i]] /\ UNCHANGED requests

TakeEntry(t, i, left) ==
    /\ node' = [node EXCEPT ![t] = requests[i]]
    /\ requests' = [requests EXCEPT ![i] = left]

\* The completion handler of call c runs with error code e.  The handler of
\* request_with stores the code in the caller's result.
Invoke(c, e) ==
    /\ fired' = [fired EXCEPT ![c] = @ + 1]
    /\ outcome' = [outcome EXCEPT ![c] = e]
    /\ result' = [result EXCEPT ![c] = e]

-----------------------------------------------------------------------------
(* async_request                                                            *)

\* The id under which the next request is filed, and the generator after it.
NextId == idgen + 1
IdgenAfter_slip(i) == i
IdgenAfter(i) == IF i = MaxMsgId THEN 0 ELSE i

\* A node is checked out and filed under a fresh id.  try_emplace leaves the
\* table alone when the id is taken: the node then dies with the local variable.
Emplace(c) ==
    /\ pc[c] = "idle" /\ rqm = None
    /\ msgid' = [msgid EXCEPT ![c] = NextId]
    /\ idgen' = IdgenAfter(NextId)
    /\ requests' = IF requests[NextId] = None
                   THEN [requests EXCEPT ![NextId] = c] ELSE requests
    /\ Goto(c, "send")
    /\ UNCHANGED <<valid, closed, mtx, rqm, postedVars, node, job, waiters, fired,
                   outcome, result, peerVars, crashed>>

\* The protocol lock is taken and, on a valid session, the request is written
\* to the stream buffer; a failed write expires the session from here.
Send(c) ==
    /\ pc[c] = "send" /\ mtx = None
    /\ mtx' = c
    /\ \/ Goto(c, "check")
       \/ valid /\ Goto(c, "close_conn")
    /\ UNCHANGED <<sessionVars, rqm, postedVars, node, job, waiters, callVars,
                   peerVars, crashed>>

\* The second look at expired(): the request is flushed to the peer, unless
\* the connection is already gone, and the handle is returned to the caller.
Flush(c) ==
    /\ pc[c] = "check" /\ valid
    /\ sent' = IF closed \/ eof THEN sent ELSE sent \union {c}
    /\ mtx' = None
    /\ Goto(c, IF c \in Sync THEN "wait" ELSE "done")
    /\ UNCHANGED <<sessionVars, rqm, postedVars, node, job, waiters, callVars,
                   answer, wire, whole, eof, armed, crashed>>

\* ... or the session is expired: the entry is erased and an empty handle is
\* returned, which request_with reports as invalid_connection.
Withdraw(c) ==
    /\ pc[c] = "check" /\ ~valid /\ rqm = None
    /\ EraseEntry(msgid[c])
    /\ msgid' = [msgid EXCEPT ![c] = 0]
    /\ result' = [result EXCEPT ![c] = "invalid_connection"]
    /\ mtx' = None
    /\ Goto(c, "done")
    /\ UNCHANGED <<valid, closed, idgen, rqm, postedVars, node, job, waiters, fired,
                   outcome, peerVars, crashed>>

-----------------------------------------------------------------------------
(* wait, wait_for and abort_request, as request_with calls them             *)

Gone(c) == Entry(msgid[c]) = None

\* The predicate is evaluated under the request lock before going to sleep.
Wait(c) ==
    /\ pc[c] = "wait" /\ rqm = None
    /\ IF Gone(c) THEN Goto(c, "done") /\ UNCHANGED waiters
       ELSE Goto(c, "blocked") /\ waiters' = waiters \union {c}
    /\ UNCHANGED <<sessionVars, mtx, rqm, postedVars, node, job, callVars, peerVars,
                   crashed>>

\* A notified, or spuriously woken, waiter evaluates the predicate again.
Wake(c) ==
    /\ pc[c] = "blocked" /\ rqm = None
    /\ IF Gone(c) THEN Goto(c, "done") /\ waiters' = waiters \ {c}
       ELSE UNCHANGED pc /\ waiters' = waiters \union {c}
    /\ UNCHANGED <<sessionVars, mtx, rqm, postedVars, node, job, callVars, peerVars,
                   crashed>>

\* The time of wait_for is up: the predicate decides, and request_with aborts a
\* request that is still in the table.
Timeout(c) ==
    /\ pc[c] = "blocked" /\ rqm = None /\ c \in Timed
    /\ waiters' = waiters \ {c}
    /\ IF Gone(c)
       THEN Goto(c, "done") /\ UNCHANGED result
       ELSE /\ result' = [result EXCEPT ![c] = "timeout"]
            /\ Goto(c, "abort")
    /\ UNCHANGED <<sessionVars, mtx, rqm, postedVars, node, job, msgid, fired,
                   outcome, peerVars, crashed>>

\* abort_request takes the handler out of the table, unless the request is
\* finished or already under invocation.
AbortTake(c) ==
    /\ pc[c] = "abort" /\ rqm = None
    /\ IF Entry(msgid[c]) \in {None, Moved}
       THEN Goto(c, "done") /\ UNCHANGED <<node, requests>>
       ELSE TakeEntry(c, msgid[c], None) /\ Goto(c, "abort_call")
    /\ UNCHANGED <<valid, closed, idgen, mtx, rqm, postedVars, job, waiters, callVars,
                   peerVars, crashed>>

AbortCall(c) ==
    /\ pc[c] = "abort_call"
    /\ Invoke(node[c], "aborted")
    /\ node' = [node EXCEPT ![c] = None]
    /\ Goto(c, "abort_notify")
    /\ UNCHANGED <<sessionVars, mtx, rqm, postedVars, job, waiters, msgid,
                   peerVars, crashed>>

\* notify_all without the lock.
AbortNotify(c) ==
    /\ pc[c] = "abort_notify"
    /\ waiters' = {}
    /\ Goto(c, "abort_release")
    /\ UNCHANGED <<sessionVars, mtx, rqm, postedVars, node, job, callVars, peerVars,
                   crashed>>

\* The protocol lock is taken to release the protocol's key mapping.
AbortRelease(c) ==
    /\ pc[c] = "abort_release" /\ mtx = None
    /\ Goto(c, "done")
    /\ UNCHANGED <<sessionVars, mtx, rqm, postedVars, node, job, waiters, callVars,
                   peerVars, crashed>>

-----------------------------------------------------------------------------
(* _set_expired, run by the thread t that came to pc "close_conn".          *)

\* Where its caller goes on.  notify and close return, a worker ends its
\* receive cycle; async_request still holds the protocol lock.
AfterExpire_slip(t) ==
    \/ t \in Calls /\ Goto(t, "check") /\ UNCHANGED mtx
    \/ t \in Workers /\ Goto(t, "idle") /\ UNCHANGED mtx
    \/ t \in Notifiers \union Closers /\ Goto(t, "done") /\ UNCHANGED mtx

AfterExpire(t) ==
    \/ t \in Calls /\ Goto(t, "check") /\ UNCHANGED mtx
    \/ t \in Workers /\ Goto(t, "idle") /\ UNCHANGED mtx
    \/ t \in Notifiers \union Closers /\ Goto(t, "done") /\ mtx' = None

CloseConn(t) ==
    /\ pc[t] = "close_conn"
    /\ closed' = TRUE
    /\ Goto(t, "flip")
    /\ UNCHANGED <<valid, idgen, requests, mtx, rqm, postedVars, node, job, waiters,
                   callVars, peerVars, crashed>>

\* _valid.exchange(false): one thread finds it set.
Flip(t) ==
    /\ pc[t] = "flip"
    /\ valid' = FALSE
    /\ IF valid THEN Goto(t, "sweep") /\ UNCHANGED mtx ELSE AfterExpire(t)
    /\ UNCHANGED <<closed, idgen, requests, rqm, postedVars, node, job, waiters,
                   callVars, peerVars, crashed>>

\* The nodes of the abort completions: of every entry, moved out or not.
Abandoned_slip == {requests[i] : i \in MsgIds \ {1}} \ {None}
Abandoned == {requests[i] : i \in MsgIds} \ {None}

ClearTable_slip == UNCHANGED requests
ClearTable == requests' = [i \in MsgIds |-> None]

\* An abort completion is posted for every entry, the table is cleared, and the
\* message for the monitor is posted.  Nobody is notified.
Sweep(t) ==
    /\ pc[t] = "sweep" /\ rqm = None
    /\ aborts' = aborts \union Abandoned
    /\ ClearTable
    /\ notices' = notices + 1
    /\ AfterExpire(t)
    /\ UNCHANGED <<valid, closed, idgen, rqm, receives, replies, told, node, job,
                   waiters, callVars, peerVars, crashed>>

-----------------------------------------------------------------------------
(* close and notify                                                         *)

\* The connection is closed before the lock is taken.
Close_slip(t) ==
    /\ t \in Closers /\ pc[t] = "idle"
    /\ Goto(t, "close_lock")
    /\ UNCHANGED <<sessionVars, mtx, rqm, postedVars, node, job, waiters, callVars,
                   peerVars, crashed>>

Close(t) ==
    /\ t \in Closers /\ pc[t] = "idle"
    /\ closed' = TRUE
    /\ Goto(t, "close_lock")
    /\ UNCHANGED <<valid, idgen, requests, mtx, rqm, postedVars, node, job, waiters,
                   callVars, peerVars, crashed>>

CloseLock(t) ==
    /\ pc[t] = "close_lock" /\ mtx = None
    /\ IF valid THEN Goto(t, "close_conn") /\ mtx' = t
       ELSE Goto(t, "done") /\ UNCHANGED mtx
    /\ UNCHANGED <<sessionVars, rqm, postedVars, node, job, waiters, callVars,
                   peerVars, crashed>>

\* notify returns at once on an expired session and after a successful write.
Notify(t) ==
    /\ t \in Notifiers /\ pc[t] = "idle" /\ mtx = None
    /\ \/ Goto(t, "done") /\ UNCHANGED mtx
       \/ valid /\ Goto(t, "close_conn") /\ mtx' = t
    /\ UNCHANGED <<sessionVars, rqm, postedVars, node, job, waiters, callVars,
                   peerVars, crashed>>

-----------------------------------------------------------------------------
(* The receive cycle: _impl_on_data_wait_complete, with the protocol's      *)
(* handle_single_message and the proxy's reply_result and reply_error.      *)

TakeReceive(w) ==
    /\ pc[w] = "idle" /\ receives > 0
    /\ receives' = receives - 1
    /\ Goto(w, "read")
    /\ UNCHANGED <<sessionVars, mtx, rqm, replies, aborts, notices, told, node, job,
                   waiters, callVars, peerVars, crashed>>

\* The cycle ends on an expired session.
ReadLock(w) ==
    /\ pc[w] = "read" /\ mtx = None
    /\ IF valid THEN Goto(w, "head") /\ mtx' = w
       ELSE Goto(w, "idle") /\ UNCHANGED mtx
    /\ UNCHANGED <<sessionVars, rqm, postedVars, node, job, waiters, callVars,
                   peerVars, crashed>>

\* The envelope of a message: the reader blocks, with the protocol lock, until
\* it arrives; or the stream ends, which expires the session without the lock.
ReadHead(w) ==
    /\ pc[w] = "head"
    /\ \/ wire # None /\ Goto(w, "find") /\ UNCHANGED mtx
       \/ closed /\ Goto(w, "close_conn") /\ mtx' = None
       \/ eof /\ wire = None /\ Goto(w, "close_conn") /\ mtx' = None
    /\ UNCHANGED <<sessionVars, rqm, postedVars, node, job, waiters, callVars,
                   peerVars, crashed>>

\* find_reply_result_buffer: the request lock is kept until the body is read.
ReadFind(w) ==
    /\ pc[w] = "find" /\ rqm = None
    /\ rqm' = w
    /\ crashed' = (Entry(msgid[wire]) = Moved)
    /\ Goto(w, "body")
    /\ UNCHANGED <<sessionVars, mtx, postedVars, node, job, waiters, callVars,
                   peerVars>>

\* The payload is parsed into the return buffer, into the error buffer, or
\* skipped when the request is gone.  A payload that does not fit is only
\* a warning: nothing is posted.
ReadBody(w) ==
    /\ pc[w] = "body" /\ whole
    /\ job' = [job EXCEPT ![w] =
                 IF Entry(msgid[wire]) # None /\ answer[wire] # "misfit"
                 THEN wire ELSE None]
    /\ wire' = None /\ whole' = FALSE
    /\ rqm' = None /\ mtx' = None
    /\ Goto(w, "post")
    /\ UNCHANGED <<sessionVars, postedVars, node, waiters, callVars, sent, answer,
                   eof, armed, crashed>>

\* The stream ends in the middle of a message: the peer hung up, or the connection was closed
\* here, which is taken to end a read that is blocked in it.
ReadCut(w) ==
    /\ pc[w] = "body"
    /\ closed \/ (eof /\ ~whole)
    /\ rqm' = None /\ mtx' = None
    /\ Goto(w, "close_conn")
    /\ UNCHANGED <<sessionVars, postedVars, node, job, waiters, callVars, peerVars,
                   crashed>>

\* start_data_receive: reports at once what is there to be read.
StartReceive_slip == armed' = TRUE /\ UNCHANGED receives

StartReceive ==
    IF wire # None \/ (eof /\ ~closed)
    THEN receives' = receives + 1 /\ UNCHANGED armed
    ELSE armed' = TRUE /\ UNCHANGED receives

\* The completion of the reply is posted (_handle_receive_result) and the next
\* receive cycle started.
Rearm(w) ==
    /\ pc[w] = "post"
    /\ replies' = IF job[w] = None THEN replies ELSE replies \union {job[w]}
    /\ job' = [job EXCEPT ![w] = None]
    /\ StartReceive
    /\ Goto(w, "idle")
    /\ UNCHANGED <<sessionVars, mtx, rqm, aborts, notices, told, node, waiters,
                   callVars, sent, answer, wire, whole, eof, crashed>>

-----------------------------------------------------------------------------
(* The other messages of the event procedure                                *)

TakeReply(w) ==
    /\ pc[w] = "idle"
    /\ \E c \in replies :
         /\ replies' = replies \ {c}
         /\ job' = [job EXCEPT ![w] = c]
    /\ Goto(w, "reply")
    /\ UNCHANGED <<sessionVars, mtx, rqm, receives, aborts, notices, told, node,
                   waiters, callVars, peerVars, crashed>>

\* _handle_reply moves the node out of the table and leaves an empty entry.
ReplyTake(w) ==
    /\ pc[w] = "reply" /\ rqm = None
    /\ LET i == msgid[job[w]] IN
         IF Entry(i) \in {None, Moved}
         THEN /\ Goto(w, "idle")
              /\ job' = [job EXCEPT ![w] = None]
              /\ UNCHANGED <<node, requests>>
         ELSE TakeEntry(w, i, Moved) /\ Goto(w, "handler") /\ UNCHANGED job
    /\ UNCHANGED <<valid, closed, idgen, mtx, rqm, postedVars, waiters, callVars,
                   peerVars, crashed>>

\* The handler runs outside every lock and the node returns to its pool.
ReplyCall(w) ==
    /\ pc[w] = "handler"
    /\ Invoke(node[w], IF answer[job[w]] = "value" THEN "okay"
                       ELSE "exception_returned")
    /\ node' = [node EXCEPT ![w] = None]
    /\ Goto(w, "reply_erase")
    /\ UNCHANGED <<sessionVars, mtx, rqm, postedVars, job, waiters, msgid,
                   peerVars, crashed>>

ReplyErase(w) ==
    /\ pc[w] = "reply_erase" /\ rqm = None
    /\ EraseEntry(msgid[job[w]])
    /\ waiters' = {}
    /\ job' = [job EXCEPT ![w] = None]
    /\ Goto(w, "idle")
    /\ UNCHANGED <<valid, closed, idgen, mtx, rqm, postedVars, node, callVars,
                   peerVars, crashed>>

\* A fn_abort_request closure runs its node's handler; the closure of an entry
\* that was moved out has no node.
RunAbort(w) ==
    /\ pc[w] = "idle"
    /\ \E n \in aborts :
         /\ aborts' = aborts \ {n}
         /\ IF n = Moved
            THEN crashed' = TRUE /\ UNCHANGED <<fired, outcome, result>>
            ELSE Invoke(n, "aborted") /\ UNCHANGED crashed
    /\ UNCHANGED <<sessionVars, mtx, rqm, receives, replies, notices, told, pc, node,
                   job, waiters, msgid, peerVars>>

TellMonitor(w) ==
    /\ pc[w] = "idle" /\ notices > 0
    /\ notices' = notices - 1
    /\ told' = told + 1
    /\ UNCHANGED <<sessionVars, mtx, rqm, receives, replies, aborts, pc, node, job,
                   waiters, callVars, peerVars, crashed>>

-----------------------------------------------------------------------------
(* The peer and the connection                                              *)

\* on_data_receive reports data, or the end of the stream, to an armed session.
Signal_slip == UNCHANGED armed /\ receives' = IF armed THEN receives + 1 ELSE receives

Signal ==
    /\ armed' = FALSE
    /\ receives' = IF armed THEN receives + 1 ELSE receives

\* The peer answers each request once.  Its reply may arrive in two parts.
Deliver(c, a, all) ==
    /\ ~closed /\ ~eof /\ wire = None
    /\ c \in sent /\ answer[c] = "none"
    /\ answer' = [answer EXCEPT ![c] = a]
    /\ wire' = c /\ whole' = all
    /\ Signal
    /\ UNCHANGED <<sessionVars, mtx, rqm, replies, aborts, notices, told, pc, node,
                   job, waiters, callVars, sent, eof, crashed>>

DeliverRest ==
    /\ ~closed /\ ~eof /\ wire # None /\ ~whole
    /\ whole' = TRUE
    /\ UNCHANGED <<sessionVars, mtx, rqm, postedVars, pc, node, job, waiters,
                   callVars, sent, answer, wire, eof, armed, crashed>>

HangUp ==
    /\ ~closed /\ ~eof
    /\ eof' = TRUE
    /\ Signal
    /\ UNCHANGED <<sessionVars, mtx, rqm, replies, aborts, notices, told, pc, node,
                   job, waiters, callVars, sent, answer, wire, whole, crashed>>

-----------------------------------------------------------------------------
Expire(t) == CloseConn(t) \/ Flip(t) \/ Sweep(t)

\* What a caller does of its own accord once it has issued its request.
CallerStep(c) ==
    \/ Send(c) \/ Flush(c) \/ Withdraw(c)
    \/ Wait(c) \/ (c \notin waiters /\ Wake(c))
    \/ AbortTake(c) \/ AbortCall(c) \/ AbortNotify(c) \/ AbortRelease(c)
    \/ Expire(c)

WorkerStep(w) ==
    \/ TakeReceive(w) \/ ReadLock(w) \/ ReadHead(w) \/ ReadFind(w) \/ ReadBody(w)
    \/ ReadCut(w) \/ Rearm(w)
    \/ TakeReply(w) \/ ReplyTake(w) \/ ReplyCall(w) \/ ReplyErase(w)
    \/ RunAbort(w) \/ TellMonitor(w)
    \/ Expire(w)

CloserStep(t) == CloseLock(t) \/ Expire(t)

Caller(c) == Emplace(c) \/ CallerStep(c) \/ Wake(c) \/ Timeout(c)

Peer ==
    \/ \E c \in Calls, a \in Answers \ {"none"}, all \in BOOLEAN : Deliver(c, a, all)
    \/ DeliverRest
    \/ HangUp

Next ==
    /\ ~crashed
    /\ \/ \E c \in Calls : Caller(c)
       \/ \E w \in Workers : WorkerStep(w)
       \/ \E t \in Notifiers : Notify(t) \/ Expire(t)
       \/ \E t \in Closers : Close(t) \/ CloserStep(t)
       \/ Peer

Spec == Init /\ [][Next]_vars

\* The threads are scheduled: a thread that can go on does.  Nothing is assumed
\* of the peer, of timeouts, or of who starts to call, notify or close.
Fairness ==
    /\ \A c \in Calls : WF_vars(~crashed /\ CallerStep(c))
    /\ \A w \in Workers : WF_vars(~crashed /\ WorkerStep(w))
    /\ \A t \in Notifiers : WF_vars(~crashed /\ Expire(t))
    /\ \A t \in Closers : WF_vars(~crashed /\ CloserStep(t))

FairSpec == Spec /\ Fairness

\* A peer that sends the rest of what it began to send.
PeerFair == WF_vars(~crashed /\ DeliverRest)

-----------------------------------------------------------------------------
(* Properties                                                               *)

InTable(c) == \E i \in MsgIds : requests[i] = c
Held(c)    == \E t \in Threads : node[t] = c

\* A request node is in one place only: under one id of the table, in one
\* thread's local variable or in one abort completion; and nowhere before its
\* call begins and after its handler ran.  This is what the moves of pool_ptr in
\* async_request, abort_request, _set_expired and _handle_reply must maintain.
OneEntry  == \A i, j \in MsgIds : requests[i] \in Calls /\ requests[i] = requests[j] => i = j
OneHolder == \A t, u \in Threads : node[t] \in Calls /\ node[t] = node[u] => t = u
OnePlace  ==
    \A c \in Calls :
      /\ ~(InTable(c) /\ c \in aborts)
      /\ ~(Held(c) /\ (InTable(c) \/ c \in aborts))
      /\ pc[c] = "idle" \/ fired[c] # 0 => ~InTable(c) /\ ~Held(c) /\ c \notin aborts
      /\ pc[c] = "idle" => fired[c] = 0

OneOwner == OneEntry /\ OneHolder /\ OnePlace

\* No completion handler is ever invoked twice, whatever the race between the
\* reply, the timeout, abort_request and the expiry of the session.
AtMostOnce == \A c \in Calls : fired[c] <= 1

\* Who owns the two locks follows from where the threads are; in particular the
\* protocol stream has one user, and _set_expired keeps its caller's lock.
Owns(t) ==
    \/ pc[t] \in {"head", "find", "body"}
    \/ t \in Calls /\ pc[t] = "check"
    \/ t \notin Workers /\ pc[t] \in {"close_conn", "flip", "sweep"}

LocksFollowThreads ==
    /\ \A t \in Threads : Owns(t) <=> mtx = t
    /\ \A w \in Workers : pc[w] = "body" <=> rqm = w

\* The session's assertion on _waiting: one receive cycle at a time is waiting
\* for data, posted or running, so that two workers never read one stream.
Reading(w) == pc[w] \in {"read", "head", "find", "body", "post"}
OneReceiveCycle ==
    /\ armed => receives = 0
    /\ receives <= 1
    /\ \A w \in Workers : Reading(w) => ~armed /\ receives = 0
    /\ \A v, w \in Workers : Reading(v) /\ Reading(w) => v = w

\* Once the session expired and its table was swept, a request can only be in
\* the table while its own async_request is still running, which withdraws it:
\* no request issued during the expiry is left behind.
NoStrayRequest ==
    ~valid /\ (\A t \in Threads : pc[t] # "sweep")
      => \A c \in Calls : InTable(c) =>
           pc[c] \in {"send", "check", "close_conn", "flip"}

\* What a caller may rely on: once async_request returned a handle, the request
\* is completed, or still in a place from which it will be.
Accepted(c) ==
    \/ pc[c] \in {"wait", "blocked", "abort", "abort_call", "abort_notify",
                  "abort_release"}
    \/ pc[c] = "done" /\ msgid[c] # 0
Located(c) == InTable(c) \/ Held(c) \/ c \in aborts

\* The contract of one request, RpcCompletion, is implemented: a request is
\* completed once, with okay only when the peer answered it, with aborted only
\* when the session expired or its caller gave up, and never after it was
\* dropped; a request whose handle was returned is not dropped.
Status(c) ==
    CASE fired[c] > 0   -> IF outcome[c] = "aborted" THEN "aborted" ELSE "answered"
      [] pc[c] = "idle" -> "idle"
      [] fired[c] = 0 /\ pc[c] # "idle" /\ ~Located(c) -> "dropped"
      [] OTHER          -> IF Accepted(c) THEN "accepted" ELSE "issued"

Contract == INSTANCE RpcCompletion WITH
    status  <- [c \in Calls |-> Status(c)],
    replied <- {c \in Calls : answer[c] # "none"},
    expired <- ~valid

ImplementsContract == Contract!Spec

-----------------------------------------------------------------------------
(* Liveness, under FairSpec                                                 *)

\* close() always returns, also when a worker holds the protocol lock and waits
\* for the rest of a message: the connection is closed before the lock is taken, and
\* that ends the read (see ReadCut).
CloseReturns ==
    \A t \in Closers : pc[t] = "close_lock" ~> pc[t] = "done" \/ crashed

\* Every request that was accepted by a session that expires is completed.
ExpiryCompletesAll ==
    \A c \in Calls : ~valid /\ Accepted(c) ~> fired[c] = 1 \/ crashed

\* If the peer ends the messages it begins, a reply that arrived and fits its return
\* buffer completes its request or finds it completed already.
ReplyCompletes ==
    PeerFair => \A c \in Calls : answer[c] \in {"value", "error"} /\ whole
                                    ~> fired[c] = 1 \/ crashed

-----------------------------------------------------------------------------
(* What the code's own check says, and the code does not                    *)

\* session.hxx:335: a wait is over when the id is not in the table any more.
WaitEnds ==
    \A c \in Calls : pc[c] = "blocked" /\ Gone(c) ~> pc[c] = "done" \/ crashed
=============================================================================
