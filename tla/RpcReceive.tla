----------------------------- MODULE RpcReceive -----------------------------
(***************************************************************************)
(* rpc::protocol::msgpack::handle_single_message (rpc/protocol/             *)
(* msgpack-rpc.hxx) on a stream of messages of the peer, with the message   *)
(* proxy it fills (rpc/detail/remote_procedure_message_proxy.hxx) and what  *)
(* the session does with what was received (rpc/detail/session.hxx:583-707).*)
(*                                                                          *)
(* A message is an array: <<0, id, method, params>> asks, <<1, id, error,   *)
(* result>> replies, <<2, method, params>> notifies.  The stream is a       *)
(* sequence of elements as in MsgpackReader with their values v.  The       *)
(* function is noexcept: an exception that leaves one of its handlers       *)
(* terminates the process.                                                  *)
(*                                                                          *)
(* A method's parameters are restored into a buffer from a pool, which gets *)
(* it back when the message's handler is done or the message does not fit;  *)
(* the result of a request that waits here into the buffer of its caller.   *)
(* Handlers do not change their parameters.  An error object is dumped as   *)
(* JSON.  Threads are left out: the session runs all of this under          *)
(* _mtx_protocol (RpcSession), but for the handlers.                        *)
(***************************************************************************)
EXTENDS ObjectRestore, ObjectDump

CONSTANTS
    Messages,   \* the messages of the peer: their elements, the value that was sent, and
                \* whether they fit what is expected
    MaxMessages,\* bound: the number of messages received
    Types,      \* the types that refl has metadata of
    Methods,    \* the parameter types of each method served
    Waiting     \* the result type of each request that waits for a reply at first; "void"
                \* for none

OwnNumber == -1  \* the id of a message that is numbered by its place in the stream
ReservedDepth == 8  \* of _read

\* The peer keeps to MessagePack: a message is one element, as every document completed by
\* the writers is (Archive).  It numbers its requests.  The messages of a connection have
\* fewer elements than elems_left can count.
IsElement(e) == e \in [k : Kinds, n : Nat, v : IF e.k = "num" THEN Int ELSE STRING]
IsStream(s)  == /\ Len(s) \in Nat /\ s = [i \in 1..Len(s) |-> s[i]]
                /\ \A i \in 1..Len(s) : IsElement(s[i])
ASSUME BoundsAssumption   == MaxMessages \in Nat \ {0}
ASSUME MessagesAssumption ==
    \A m \in Messages :
        /\ IsStream(m.elements) /\ m.elements # <<>> /\ Remaining(m.elements) = <<>>
        /\ \A i \in 1..(Len(m.elements) - 1) : Remaining(SubSeq(m.elements, 1, i)) # <<>>
        /\ Len(m.elements) * MaxMessages < Wrapped
ASSUME RequestsAssumption ==
    \A m \in Messages :
        (/\ Len(m.elements) >= 3 /\ m.elements[2].k = "num" /\ m.elements[3].k = "num"
         /\ m.elements[2].v = 0) => m.elements[3].v = OwnNumber
\* A request that waits for a result gets one reply, as a peer that uses this library sends
\* (AnsweredOnce): a second one would be read into the buffer of the first.  One that waits
\* for none may get more.
ASSUME RepliesAssumption ==
    \A m \in Messages :
        (/\ Len(m.elements) >= 4 /\ m.elements[2].k = "num" /\ m.elements[3].k = "num"
         /\ m.elements[2].v = 1 /\ m.elements[3].v \in DOMAIN Waiting)
            => Waiting[m.elements[3].v].t = "void" /\ m.elements[4].k = "nil"
\* With a type refl has metadata of its parts.
ASSUME TypesAssumption ==
    /\ \A type \in Types :
          \/ type.t \in {"int", "text"}
          \/ type.t \in {"optional", "list", "dict"} /\ type.of \in Types
          \/ type.t \in {"tuple", "variant", "record"} /\ type.of \in Seq(Types)
          \/ type.t = "object" /\ \A key \in DOMAIN type.of : type.of[key] \in Types
    /\ \A method \in DOMAIN Methods : Methods[method] \in Seq(Types)
    /\ \A id \in DOMAIN Waiting : Waiting[id].t = "void" \/ Waiting[id] \in Types

VARIABLES
    ms,         \* the messages of the connection
    in,         \* their bytes
    r,          \* _read
    state,      \* "waiting" for a message, "handling" it, "closing" or "recovering" after it,
                \* and the ends "expired", "terminated" and "undefined"
    todo,       \* what handle_single_message does next
    msg,        \* its variables: scope, type, msgid and method, and whether it is all read
    buffer,     \* the parameter or result buffer of the message
    pool,       \* the idle parameter buffers of each method
    posted,     \* the handlers and completions posted: the message and its buffer
    requests,   \* the ids of the requests that wait for a reply
    handled,    \* the number of messages begun
    accepted,   \* the messages given to _handle_receive_result, in that order
    replies     \* the ids of the replies written, in that order

buffers == <<pool, posted>>
vars == <<ms, in, r, state, todo, msg, buffer, buffers, requests, handled, accepted, replies>>

NoMsg == [scope |-> 0, type |-> "", id |-> 0, method |-> "", ok |-> FALSE]

\* Message i of the stream, with its own number as its id.
Numbered(m, i) == [j \in DOMAIN m |-> IF m[j].k = "num" /\ m[j].v = OwnNumber
                                      THEN [m[j] EXCEPT !.v = i] ELSE m[j]]

Init ==
    /\ \E n \in 1..MaxMessages : ms \in [1..n -> Messages]
    /\ in = FlattenSeq([i \in DOMAIN ms |-> Numbered(ms[i].elements, i)])
    /\ r = Start(ReservedDepth)
    /\ state = "waiting" /\ todo = <<>> /\ msg = NoMsg
    /\ buffer = NoValue /\ pool = [m \in DOMAIN Methods |-> <<>>] /\ posted = {}
    /\ requests = DOMAIN Waiting
    /\ handled = 0 /\ accepted = <<>> /\ replies = <<>>

-----------------------------------------------------------------------------
Do(op) == [op |-> op]

\* end_array of the message's scope, on the reader as the exception left it.
Ending(x)    == EndScope([x EXCEPT !.err = "ok", !.goal = NoGoal], "array", msg.scope)
\* What the catch handlers make of a reader that threw.  Between the header and the bytes
\* of an element the reader parses garbage until it throws again.
AfterThrow(x) == IF x.err = "undefined" THEN "undefined"
                 ELSE IF \/ state = "recovering" \/ InCleanup(todo)
                         \/ x.torn /\ x.err = "recoverable" THEN "terminated"
                 ELSE IF x.err = "fatal" THEN "expired" ELSE "recovering"

\* fn_rep_err, for a request; it does not flush.
RepErr_slip == replies' = Append(replies, msg.id)
RepErr == replies' = IF msg.type = "request" THEN Append(replies, msg.id) ELSE replies

\* The inner try of a request, around the parameters.
InParams == \E i \in DOMAIN todo : todo[i].op = "close"

\* An internal_trivial_exception, or a reader_recoverable_exception
Recover(x) == state' = "recovering" /\ r' = Ending(x) /\ todo' = <<>>
\* A step of the function, which goes on with next unless it threw.
Proceed(x, next) ==
    \/ /\ Ok(x)
       /\ r' = x /\ todo' = next
       /\ UNCHANGED <<state, replies>>
    \/ /\ ~Ok(x)
       /\ IF AfterThrow(x) = "recovering" THEN Recover(x)
          ELSE state' = AfterThrow(x) /\ r' = x /\ todo' = <<>>
       /\ IF InParams /\ x.err = "recoverable" THEN RepErr ELSE UNCHANGED replies

\* The start of handle_single_message.
Begin ==
    LET x == BeginArray(in, r)
    IN  /\ state = "waiting" /\ r.pos <= Len(in)
        /\ state' = IF Ok(x) THEN "handling" ELSE "expired"
        /\ r' = x
        /\ todo' = <<Do("type")>>
        /\ msg' = [NoMsg EXCEPT !.scope = x.gen]
        /\ handled' = handled + 1
        /\ UNCHANGED <<ms, in, buffer, buffers, requests, accepted, replies>>

InMessage == UNCHANGED <<ms, in, posted, requests, handled, accepted>>
SameBuffer == UNCHANGED <<buffer, pool>>
Handling(op) == state = "handling" /\ r.goal = NoGoal /\ Head(todo).op = op
Value == in[r.pos].v

Expect == [request |-> 3, reply |-> 3, notify |-> 2]
TypeOf(v) == CASE v = 0 -> "request" [] v = 1 -> "reply" [] v = 2 -> "notify" [] OTHER -> "invalid"
Header == [request |-> <<Do("msgid"), Do("method")>>, reply |-> <<Do("msgid"), Do("result")>>,
           notify |-> <<Do("method")>>]

ReadType ==
    LET x == ReadNumber(in, r)
        type == TypeOf(Value)
    IN  /\ Handling("type")
        /\ IF Ok(x) /\ (type = "invalid" \/ ElemLeft(x) # Expect[type])
           THEN Recover(x) /\ UNCHANGED <<msg, replies>>
           ELSE /\ Proceed(x, IF Ok(x) THEN Header[type] ELSE <<>>)
                /\ msg' = IF Ok(x) THEN [msg EXCEPT !.type = type] ELSE msg
        /\ SameBuffer /\ InMessage

ReadMsgid ==
    LET x == ReadNumber(in, r)
    IN  /\ Handling("msgid")
        /\ Proceed(x, Tail(todo))
        /\ msg' = IF Ok(x) THEN [msg EXCEPT !.id = Value] ELSE msg
        /\ SameBuffer /\ InMessage

\* checkout_parameter_buffer
Checkout(method) ==
    /\ buffer' = IF pool[method] = <<>> THEN NoValue ELSE Head(pool[method])
    /\ pool' = IF pool[method] = <<>> THEN pool ELSE [pool EXCEPT ![method] = Tail(@)]

\* A method that is not served is answered, and the message is left by end_array.
ReadMethod ==
    LET x == ReadString(in, r)
        known == Ok(x) /\ Value \in DOMAIN Methods
    IN  /\ Handling("method")
        /\ IF Ok(x) /\ ~known
           THEN state' = "closing" /\ r' = Ending(x) /\ todo' = <<>> /\ msg' = msg /\ RepErr
           ELSE /\ Proceed(x, <<Do("params")>>)
                /\ msg' = IF known THEN [msg EXCEPT !.method = Value] ELSE msg
        /\ IF known THEN Checkout(Value) ELSE SameBuffer
        /\ InMessage

\* The parameters are entered and counted before the inner try.
ReadParams ==
    LET x == BeginArray(in, r)
        types == Methods[msg.method]
    IN  /\ Handling("params")
        /\ IF Ok(x) /\ ElemLeft(x) # Len(types)
           THEN Recover(x) /\ RepErr
           ELSE Proceed(x, [i \in DOMAIN types |-> Restore(types[i], <<i>>)]
                               \o <<[op |-> "close", id |-> x.gen]>>)
        /\ msg' = msg /\ SameBuffer /\ InMessage

\* _read >> param and what the proxy reads, one call of the reader.
RestoreValue ==
    /\ state = "handling" /\ r.goal = NoGoal
    /\ Head(todo).op \in Ops
    /\ LET x == RestoreStep(in, r, buffer, todo)
       IN  Proceed(x.r, x.todo) /\ buffer' = x.b
    /\ pool' = pool /\ msg' = msg /\ InMessage

\* end_array of the parameters
CloseParams ==
    /\ Handling("close")
    /\ Proceed(EndScope(r, "array", Head(todo).id), <<Do("done")>>)
    /\ msg' = msg /\ SameBuffer /\ InMessage

\* is_null_next, and the proxy's reply_result and reply_error.  The buffer of an error is
\* the text of a JSON writer.  The reply to a request that waits no more is expired.
ReadResult ==
    LET waits  == msg.id \in requests
        result == IF waits /\ Waiting[msg.id].t # "void" THEN Restore(Waiting[msg.id], <<>>) ELSE SkipValue
        error  == IF waits THEN Dump ELSE SkipValue
    IN  /\ Handling("result")
        /\ IF IsNull(in, r)
           THEN Proceed(Skip(in, r), <<result, Do("done")>>) /\ buffer' = buffer
           ELSE Proceed(r, <<error, SkipValue, Do("done")>>) /\ buffer' = Put(NoValue, <<>>, T!Blank)
        /\ msg' = IF waits THEN msg ELSE [msg EXCEPT !.type = "expired"]
        /\ pool' = pool /\ InMessage

\* dump_single_object, one call of the reader
DumpError ==
    /\ state = "handling" /\ r.goal = NoGoal
    /\ Head(todo).op \in DumpOps
    /\ LET x == DumpStep(in, r, buffer[<<>>], todo)
       IN  Proceed(x.r, x.todo) /\ buffer' = Put(NoValue, <<>>, x.w)
    /\ pool' = pool /\ msg' = msg /\ InMessage

\* The last end_array of a message that was understood.
Done ==
    /\ Handling("done")
    /\ state' = "closing" /\ r' = Ending(r) /\ todo' = <<>>
    /\ msg' = [msg EXCEPT !.ok = TRUE]
    /\ replies' = replies /\ SameBuffer /\ InMessage

\* One turn of the loop of an end_array or of a skip, inside or at the end of a message.
Break ==
    /\ state \in {"handling", "closing", "recovering"} /\ r.goal # NoGoal
    /\ Proceed(BreakStep(in, r), todo)
    /\ msg' = msg /\ SameBuffer /\ InMessage

\* The function returns.  A request, a notification or a reply that was understood is
\* posted by _handle_receive_result, but for an expired reply; a parameter buffer that is
\* not goes back to its pool.  Then the next message is awaited.
Posts == Ok(r) /\ msg.ok /\ msg.type # "expired"
Return ==
    /\ state \in {"closing", "recovering"} /\ r.goal = NoGoal
    /\ state' = IF Ok(r) THEN "waiting" ELSE AfterThrow(r)
    /\ accepted' = IF Posts THEN Append(accepted, handled) ELSE accepted
    /\ posted' = IF Posts THEN posted \union {[i |-> handled, type |-> msg.type, id |-> msg.id,
                                              method |-> msg.method, buffer |-> buffer]}
                 ELSE posted
    /\ pool' = IF ~Posts /\ msg.method # "" THEN [pool EXCEPT ![msg.method] = <<buffer>> \o @] ELSE pool
    /\ buffer' = NoValue /\ msg' = NoMsg
    /\ UNCHANGED <<ms, in, r, todo, requests, handled, replies>>

\* A handler has returned or thrown, or a completion has run, while other messages are
\* handled: the parameter buffer goes back.  send_reply_result or send_reply_error, which
\* flush, wait for _mtx_protocol, and an expired session sends nothing.  The completion of
\* a reply (_handle_reply) erases the request, if it is still there.
Answer ==
    /\ state \notin {"terminated", "undefined"}
    /\ \E p \in posted :
         /\ p.type = "request" => state \in {"waiting", "expired"}
         /\ posted' = posted \ {p}
         /\ replies' = IF p.type = "request" /\ state = "waiting" THEN Append(replies, p.i) ELSE replies
         /\ pool' = IF p.type # "reply" THEN [pool EXCEPT ![p.method] = <<p.buffer>> \o @] ELSE pool
         /\ requests' = IF p.type = "reply" THEN requests \ {p.id} ELSE requests
    /\ UNCHANGED <<ms, in, r, state, todo, msg, buffer, handled, accepted>>

Next == \/ Begin \/ ReadType \/ ReadMsgid \/ ReadMethod \/ ReadParams \/ RestoreValue \/ CloseParams
        \/ ReadResult \/ DumpError \/ Done \/ Break \/ Return \/ Answer

Spec == Init /\ [][Next]_vars

-----------------------------------------------------------------------------
\* Whatever a message held and wherever its handling was left, the reader waits for the
\* next one outside of all scopes and at the first byte of it.  A loop reads freed memory
\* only in a message that nests deeper than the reader has reserved.
BoundaryKept ==
    /\ state = "waiting" =>
        /\ r.scopes = <<>> /\ ~r.torn
        /\ SubSeq(in, 1, r.pos - 1)
             = FlattenSeq([i \in 1..handled |-> Numbered(ms[i].elements, i)])
    /\ state = "undefined" => Len(r.scopes) >= ReservedDepth

Id(i) == Numbered(ms[i].elements, i)[3].v
\* Message i is a reply to a request that another reply has completed before.
Late(i) == /\ ms[i].elements[2].v = 1 /\ Id(i) \notin requests
           /\ \E j \in ToSet(accepted) : j < i /\ ms[j].elements[2].v = 1 /\ Id(j) = Id(i)

\* A message is passed on if and only if it fits, but for a late reply, in the order of the
\* connection, and its handler or caller finds in the buffer what the peer sent: of other
\* messages it finds at most the properties that its own message leaves out.  An error is
\* the text of the object sent.  A request with a parameter list that does not fit is
\* answered.
BufferType(p) == IF p.type # "reply" THEN [t |-> "tuple", of |-> Methods[p.method]] ELSE Waiting[p.id]
Delivered ==
    /\ state = "waiting" =>
         /\ handled <= Len(ms)
         /\ LET late == {i \in 1..handled : Late(i)} \ ToSet(accepted)
            IN  accepted = SelectSeq([i \in 1..handled |-> i],
                                     LAMBDA i : ms[i].fits /\ i \notin late)
         /\ \A i \in 1..handled : ms[i].refused => i \in ToSet(replies)
    /\ \A p \in posted :
         IF ms[p.i].error THEN p.buffer[<<>>].ctx = <<>> /\ p.buffer[<<>>].doc = ms[p.i].sent
         ELSE AsSent(BufferType(p), ms[p.i].sent, p.buffer)

IsRequest(i) == ms[i].elements[2].v = 0
\* A request is answered at most once, with an error while it is read or by its handler
\* later, and what is no request is not answered.
AnsweredOnce ==
    /\ \A i, j \in DOMAIN replies : replies[i] = replies[j] => i = j
    /\ \A i \in DOMAIN replies : replies[i] \in 1..handled /\ IsRequest(replies[i])

\* A message that cannot be handled is left by end_array, which breaks the current context
\* "regardless if there's any remaining object" (if_archive.hxx:413): it ends neither the
\* process nor, as the peer keeps to MessagePack, the connection.
NotTerminated == state # "terminated"
=============================================================================
