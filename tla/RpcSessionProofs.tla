-------------------------- MODULE RpcSessionProofs --------------------------
(***************************************************************************)
(* Theorems about RpcSession, for any number of callers, workers, notifiers *)
(* and closers and any range of message ids; and, in the second half, that  *)
(* it implements RpcCompletion as long as a session issues no more requests *)
(* than there are message ids.  Beyond that the generator comes round, and  *)
(* a stale id may name another request's entry.                             *)
(***************************************************************************)
EXTENDS RpcSession, FiniteSetTheorems, SequenceTheorems, TLAPS

\* The abbreviations used by nearly every action.
USE DEF Threads, MsgIds, Goto, Invoke, Entry, EraseEntry, TakeEntry, ClearTable,
        Abandoned, StartReceive, Signal, sessionVars, postedVars, callVars, peerVars

\* Counting an invocation keeps the counters natural, whatever was invoked.
LEMMA CountInvocation ==
    ASSUME NEW f \in [Calls -> Nat], NEW x
    PROVE  [f EXCEPT ![x] = @ + 1] \in [Calls -> Nat]
<1>1. ASSUME NEW c \in Calls PROVE [f EXCEPT ![x] = @ + 1][c] \in Nat
  <2>1. CASE c = x
    BY <2>1
  <2>2. CASE c # x
    BY <2>2
  <2>3. QED
    BY <2>1, <2>2
<1>2. QED
  BY <1>1

(* Every variable keeps its type.  The parts of TypeOK are proved one by one  *)
(* for each action.                                                           *)
THEOREM TypeCorrect == Spec => []TypeOK
<1> USE MaxMsgIdAssumption
<1>1. Init => TypeOK
  <2> SUFFICES ASSUME Init PROVE TypeOK
    BY DEF TypeOK
  <2>1. SessionTypeOK
    <3>1. idgen \in 0..(MaxMsgId - 1)
      BY DEF Init
    <3>2. QED
      BY <3>1 DEF Init, SessionTypeOK
  <2>2. PostedTypeOK
    BY DEF Init, PostedTypeOK
  <2>3. ThreadsTypeOK
    BY DEF Init, ThreadsTypeOK, PcValues
  <2>4. CallsTypeOK
    BY DEF Init, CallsTypeOK, Outcomes, Results
  <2>5. PeerTypeOK
    BY DEF Init, PeerTypeOK, Answers
  <2>6. QED
    BY <2>1, <2>2, <2>3, <2>4, <2>5 DEF TypeOK
<1>2. TypeOK /\ [Next]_vars => TypeOK'
  <2> SUFFICES ASSUME TypeOK, [Next]_vars PROVE TypeOK'
    OBVIOUS
  <2> USE DEF TypeOK, SessionTypeOK, PostedTypeOK, ThreadsTypeOK, CallsTypeOK, PeerTypeOK
  <2>1. ASSUME NEW c \in Calls, Emplace(c) PROVE TypeOK'
    BY <2>1 DEF Emplace, NextId, IdgenAfter, PcValues, Outcomes, Results, Answers
  <2>2. ASSUME NEW c \in Calls, Send(c) PROVE TypeOK'
    BY <2>2 DEF Send, PcValues, Outcomes, Results, Answers
  <2>3. ASSUME NEW c \in Calls, Flush(c) PROVE TypeOK'
    BY <2>3 DEF Flush, PcValues, Outcomes, Results, Answers
  <2>4. ASSUME NEW c \in Calls, Withdraw(c) PROVE TypeOK'
    BY <2>4 DEF Withdraw, PcValues, Outcomes, Results, Answers
  <2>5. ASSUME NEW c \in Calls, Wait(c) PROVE TypeOK'
    <3>1. SessionTypeOK'
      BY <2>5 DEF Wait
    <3>2. PostedTypeOK'
      BY <2>5 DEF Wait
    <3>3. ThreadsTypeOK'
      BY <2>5 DEF Wait, PcValues
    <3>4. CallsTypeOK'
      BY <2>5 DEF Wait, Outcomes, Results
    <3>5. PeerTypeOK'
      BY <2>5 DEF Wait, Answers
    <3>6. QED
      BY <3>1, <3>2, <3>3, <3>4, <3>5
  <2>6. ASSUME NEW c \in Calls, Wake(c) PROVE TypeOK'
    <3>1. SessionTypeOK'
      BY <2>6 DEF Wake
    <3>2. PostedTypeOK'
      BY <2>6 DEF Wake
    <3>3. ThreadsTypeOK'
      BY <2>6 DEF Wake, PcValues
    <3>4. CallsTypeOK'
      BY <2>6 DEF Wake, Outcomes, Results
    <3>5. PeerTypeOK'
      BY <2>6 DEF Wake, Answers
    <3>6. QED
      BY <3>1, <3>2, <3>3, <3>4, <3>5
  <2>7. ASSUME NEW c \in Calls, Timeout(c) PROVE TypeOK'
    <3>1. SessionTypeOK'
      BY <2>7 DEF Timeout
    <3>2. PostedTypeOK'
      BY <2>7 DEF Timeout
    <3>3. ThreadsTypeOK'
      BY <2>7 DEF Timeout, PcValues
    <3>4. CallsTypeOK'
      <4>1. msgid' \in [Calls -> 0..MaxMsgId]
        BY <2>7 DEF Timeout
      <4>2. fired' \in [Calls -> Nat]
        BY <2>7 DEF Timeout
      <4>3. outcome' \in [Calls -> Outcomes]
        BY <2>7 DEF Timeout, Outcomes
      <4>4. result' \in [Calls -> Results]
        BY <2>7 DEF Timeout, Outcomes, Results
      <4>5. QED
        BY <4>1, <4>2, <4>3, <4>4
    <3>5. PeerTypeOK'
      BY <2>7 DEF Timeout, Answers
    <3>6. QED
      BY <3>1, <3>2, <3>3, <3>4, <3>5
  <2>8. ASSUME NEW c \in Calls, AbortTake(c) PROVE TypeOK'
    <3>1. SessionTypeOK'
      BY <2>8 DEF AbortTake
    <3>2. PostedTypeOK'
      BY <2>8 DEF AbortTake
    <3>3. ThreadsTypeOK'
      BY <2>8 DEF AbortTake, PcValues
    <3>4. CallsTypeOK'
      BY <2>8 DEF AbortTake, Outcomes, Results
    <3>5. PeerTypeOK'
      BY <2>8 DEF AbortTake, Answers
    <3>6. QED
      BY <3>1, <3>2, <3>3, <3>4, <3>5
  <2>9. ASSUME NEW c \in Calls, AbortCall(c) PROVE TypeOK'
    <3>1. SessionTypeOK'
      BY <2>9 DEF AbortCall
    <3>2. PostedTypeOK'
      BY <2>9 DEF AbortCall
    <3>3. ThreadsTypeOK'
      BY <2>9 DEF AbortCall, PcValues
    <3>4. CallsTypeOK'
      <4>1. msgid' \in [Calls -> 0..MaxMsgId]
        BY <2>9 DEF AbortCall
      <4>2. fired' \in [Calls -> Nat]
        BY <2>9, CountInvocation DEF AbortCall
      <4>3. outcome' \in [Calls -> Outcomes]
        BY <2>9 DEF AbortCall, Outcomes
      <4>4. result' \in [Calls -> Results]
        BY <2>9 DEF AbortCall, Outcomes, Results
      <4>5. QED
        BY <4>1, <4>2, <4>3, <4>4
    <3>5. PeerTypeOK'
      BY <2>9 DEF AbortCall, Answers
    <3>6. QED
      BY <3>1, <3>2, <3>3, <3>4, <3>5
  <2>10. ASSUME NEW c \in Calls, AbortNotify(c) PROVE TypeOK'
    BY <2>10 DEF AbortNotify, PcValues, Outcomes, Results, Answers
  <2>11. ASSUME NEW c \in Calls, AbortRelease(c) PROVE TypeOK'
    BY <2>11 DEF AbortRelease, PcValues, Outcomes, Results, Answers
  <2>12. ASSUME NEW t \in Threads, CloseConn(t) PROVE TypeOK'
    BY <2>12 DEF CloseConn, PcValues, Outcomes, Results, Answers
  <2>13. ASSUME NEW t \in Threads, Flip(t) PROVE TypeOK'
    BY <2>13, ZenonT(30) DEF Flip, AfterExpire, PcValues, Outcomes, Results, Answers
  <2>14. ASSUME NEW t \in Threads, Sweep(t) PROVE TypeOK'
    <3>1. SessionTypeOK'
      BY <2>14 DEF Sweep, AfterExpire
    <3>2. PostedTypeOK'
      BY <2>14 DEF Sweep, AfterExpire
    <3>3. ThreadsTypeOK'
      BY <2>14 DEF Sweep, AfterExpire, PcValues
    <3>4. CallsTypeOK'
      BY <2>14 DEF Sweep, AfterExpire, Outcomes, Results
    <3>5. PeerTypeOK'
      BY <2>14 DEF Sweep, AfterExpire, Answers
    <3>6. QED
      BY <3>1, <3>2, <3>3, <3>4, <3>5
  <2>15. ASSUME NEW t \in Closers, Close(t) PROVE TypeOK'
    BY <2>15 DEF Close, PcValues, Outcomes, Results, Answers
  <2>16. ASSUME NEW t \in Closers, CloseLock(t) PROVE TypeOK'
    BY <2>16 DEF CloseLock, PcValues, Outcomes, Results, Answers
  <2>17. ASSUME NEW t \in Notifiers, Notify(t) PROVE TypeOK'
    <3>1. SessionTypeOK'
      BY <2>17 DEF Notify
    <3>2. PostedTypeOK'
      BY <2>17 DEF Notify
    <3>3. ThreadsTypeOK'
      BY <2>17 DEF Notify, PcValues
    <3>4. CallsTypeOK'
      BY <2>17 DEF Notify, Outcomes, Results
    <3>5. PeerTypeOK'
      BY <2>17 DEF Notify, Answers
    <3>6. QED
      BY <3>1, <3>2, <3>3, <3>4, <3>5
  <2>18. ASSUME NEW w \in Workers, TakeReceive(w) PROVE TypeOK'
    BY <2>18 DEF TakeReceive, PcValues, Outcomes, Results, Answers
  <2>19. ASSUME NEW w \in Workers, ReadLock(w) PROVE TypeOK'
    BY <2>19 DEF ReadLock, PcValues, Outcomes, Results, Answers
  <2>20. ASSUME NEW w \in Workers, ReadHead(w) PROVE TypeOK'
    BY <2>20 DEF ReadHead, PcValues, Outcomes, Results, Answers
  <2>21. ASSUME NEW w \in Workers, ReadFind(w) PROVE TypeOK'
    BY <2>21 DEF ReadFind, PcValues, Outcomes, Results, Answers
  <2>22. ASSUME NEW w \in Workers, ReadBody(w) PROVE TypeOK'
    BY <2>22 DEF ReadBody, PcValues, Outcomes, Results, Answers
  <2>23. ASSUME NEW w \in Workers, ReadCut(w) PROVE TypeOK'
    BY <2>23 DEF ReadCut, PcValues, Outcomes, Results, Answers
  <2>24. ASSUME NEW w \in Workers, Rearm(w) PROVE TypeOK'
    <3>1. SessionTypeOK'
      BY <2>24 DEF Rearm
    <3>2. PostedTypeOK'
      BY <2>24 DEF Rearm
    <3>3. ThreadsTypeOK'
      BY <2>24 DEF Rearm, PcValues
    <3>4. CallsTypeOK'
      BY <2>24 DEF Rearm, Outcomes, Results
    <3>5. PeerTypeOK'
      BY <2>24 DEF Rearm, Answers
    <3>6. QED
      BY <3>1, <3>2, <3>3, <3>4, <3>5
  <2>25. ASSUME NEW w \in Workers, TakeReply(w) PROVE TypeOK'
    BY <2>25 DEF TakeReply, PcValues, Outcomes, Results, Answers
  <2>26. ASSUME NEW w \in Workers, ReplyTake(w) PROVE TypeOK'
    <3>1. SessionTypeOK'
      BY <2>26 DEF ReplyTake
    <3>2. PostedTypeOK'
      BY <2>26 DEF ReplyTake
    <3>3. ThreadsTypeOK'
      BY <2>26 DEF ReplyTake, PcValues
    <3>4. CallsTypeOK'
      BY <2>26 DEF ReplyTake, Outcomes, Results
    <3>5. PeerTypeOK'
      BY <2>26 DEF ReplyTake, Answers
    <3>6. QED
      BY <3>1, <3>2, <3>3, <3>4, <3>5
  <2>27. ASSUME NEW w \in Workers, ReplyCall(w) PROVE TypeOK'
    <3>1. SessionTypeOK'
      BY <2>27 DEF ReplyCall
    <3>2. PostedTypeOK'
      BY <2>27 DEF ReplyCall
    <3>3. ThreadsTypeOK'
      BY <2>27 DEF ReplyCall, PcValues
    <3>4. CallsTypeOK'
      <4>1. msgid' \in [Calls -> 0..MaxMsgId]
        BY <2>27 DEF ReplyCall
      <4>2. fired' \in [Calls -> Nat]
        BY <2>27, CountInvocation DEF ReplyCall
      <4>3. outcome' \in [Calls -> Outcomes]
        BY <2>27 DEF ReplyCall, Outcomes
      <4>4. result' \in [Calls -> Results]
        BY <2>27 DEF ReplyCall, Outcomes, Results
      <4>5. QED
        BY <4>1, <4>2, <4>3, <4>4
    <3>5. PeerTypeOK'
      BY <2>27 DEF ReplyCall, Answers
    <3>6. QED
      BY <3>1, <3>2, <3>3, <3>4, <3>5
  <2>28. ASSUME NEW w \in Workers, ReplyErase(w) PROVE TypeOK'
    BY <2>28 DEF ReplyErase, PcValues, Outcomes, Results, Answers
  <2>29. ASSUME NEW w \in Workers, RunAbort(w) PROVE TypeOK'
    <3>1. SessionTypeOK'
      BY <2>29 DEF RunAbort
    <3>2. PostedTypeOK'
      BY <2>29 DEF RunAbort
    <3>3. ThreadsTypeOK'
      BY <2>29 DEF RunAbort, PcValues
    <3>4. CallsTypeOK'
      <4>1. msgid' \in [Calls -> 0..MaxMsgId]
        BY <2>29 DEF RunAbort
      <4>2. fired' \in [Calls -> Nat]
        BY <2>29 DEF RunAbort
      <4>3. outcome' \in [Calls -> Outcomes]
        BY <2>29 DEF RunAbort, Outcomes
      <4>4. result' \in [Calls -> Results]
        BY <2>29 DEF RunAbort, Outcomes, Results
      <4>5. QED
        BY <4>1, <4>2, <4>3, <4>4
    <3>5. PeerTypeOK'
      BY <2>29 DEF RunAbort, Answers
    <3>6. QED
      BY <3>1, <3>2, <3>3, <3>4, <3>5
  <2>30. ASSUME NEW w \in Workers, TellMonitor(w) PROVE TypeOK'
    BY <2>30 DEF TellMonitor, PcValues, Outcomes, Results, Answers
  <2>31. ASSUME Peer PROVE TypeOK'
    <3>1. SessionTypeOK'
      BY <2>31 DEF Peer, Deliver, DeliverRest, HangUp
    <3>2. PostedTypeOK'
      BY <2>31 DEF Peer, Deliver, DeliverRest, HangUp
    <3>3. ThreadsTypeOK'
      BY <2>31 DEF Peer, Deliver, DeliverRest, HangUp, PcValues
    <3>4. CallsTypeOK'
      BY <2>31 DEF Peer, Deliver, DeliverRest, HangUp, Outcomes, Results
    <3>5. PeerTypeOK'
      <4>1. ASSUME NEW c \in Calls, NEW a \in Answers \ {"none"}, NEW all \in BOOLEAN,
                   Deliver(c, a, all)
            PROVE PeerTypeOK'
        BY <4>1 DEF Deliver, Signal
      <4>2. CASE DeliverRest \/ HangUp
        BY <4>2 DEF DeliverRest, HangUp
      <4>3. QED
        BY <2>31, <4>1, <4>2 DEF Peer
    <3>6. QED
      BY <3>1, <3>2, <3>3, <3>4, <3>5
  <2>32. CASE UNCHANGED vars
    BY <2>32 DEF vars
  <2>33. QED
    BY <2>1, <2>2, <2>3, <2>4, <2>5, <2>6, <2>7, <2>8, <2>9, <2>10, <2>11,
       <2>12, <2>13, <2>14, <2>15, <2>16, <2>17, <2>18, <2>19, <2>20, <2>21,
       <2>22, <2>23, <2>24, <2>25, <2>26, <2>27, <2>28, <2>29, <2>30, <2>31,
       <2>32
    DEF Next, Caller, CallerStep, WorkerStep, CloserStep, Expire
<1>3. QED
  BY <1>1, <1>2, PTL DEF Spec

-----------------------------------------------------------------------------
(* At most one completion.  The invariant is about where request nodes are:  *)
(* a handler is only invoked from a place that holds its node, a node is in  *)
(* at most one place, and it leaves that place when the handler runs.        *)

Ownership == OneOwner /\ AtMostOnce

\* Steps that move no node and invoke no handler keep the invariant.
LEMMA OwnershipFrame ==
    ASSUME TypeOK, Ownership, UNCHANGED <<requests, node, aborts, fired>>,
           \A c \in Calls : pc'[c] = "idle" => pc[c] = "idle"
    PROVE  Ownership'
BY DEF Ownership, OneOwner, OneEntry, OneHolder, OnePlace, AtMostOnce, InTable, Held

\* These are the steps that do so.
LEMMA QuietSteps ==
    ASSUME TypeOK, Ownership,
           \/ UNCHANGED vars
           \/ Peer
           \/ \E c \in Calls : \/ Send(c) \/ Flush(c) \/ Wait(c) \/ Wake(c) \/ Timeout(c)
                               \/ AbortNotify(c) \/ AbortRelease(c)
           \/ \E t \in Threads : CloseConn(t) \/ Flip(t)
           \/ \E t \in Closers : Close(t) \/ CloseLock(t)
           \/ \E t \in Notifiers : Notify(t)
           \/ \E w \in Workers : \/ TakeReceive(w) \/ ReadLock(w) \/ ReadHead(w)
                                 \/ ReadFind(w) \/ ReadBody(w) \/ ReadCut(w) \/ Rearm(w)
                                 \/ TakeReply(w) \/ TellMonitor(w)
    PROVE  Ownership'
<1> USE ThreadsAssumption DEF TypeOK, ThreadsTypeOK
<1>1. CASE UNCHANGED vars
  BY <1>1, OwnershipFrame DEF vars
<1>2. CASE Peer
  BY <1>2, OwnershipFrame DEF Peer, Deliver, DeliverRest, HangUp
<1>3. ASSUME NEW c \in Calls, Send(c) PROVE Ownership'
  BY <1>3, OwnershipFrame DEF Send
<1>4. ASSUME NEW c \in Calls, Flush(c) PROVE Ownership'
  BY <1>4, OwnershipFrame DEF Flush
<1>5. ASSUME NEW c \in Calls, Wait(c) PROVE Ownership'
  BY <1>5, OwnershipFrame DEF Wait
<1>6. ASSUME NEW c \in Calls, Wake(c) PROVE Ownership'
  BY <1>6, OwnershipFrame DEF Wake
<1>7. ASSUME NEW c \in Calls, Timeout(c) PROVE Ownership'
  BY <1>7, OwnershipFrame DEF Timeout
<1>8. ASSUME NEW c \in Calls, AbortNotify(c) PROVE Ownership'
  BY <1>8, OwnershipFrame DEF AbortNotify
<1>9. ASSUME NEW c \in Calls, AbortRelease(c) PROVE Ownership'
  BY <1>9, OwnershipFrame DEF AbortRelease
<1>10. ASSUME NEW t \in Threads, CloseConn(t) PROVE Ownership'
  BY <1>10, OwnershipFrame DEF CloseConn
<1>11. ASSUME NEW t \in Threads, Flip(t) PROVE Ownership'
  BY <1>11, OwnershipFrame DEF Flip, AfterExpire
<1>12. ASSUME NEW t \in Closers, Close(t) PROVE Ownership'
  BY <1>12, OwnershipFrame DEF Close
<1>13. ASSUME NEW t \in Closers, CloseLock(t) PROVE Ownership'
  BY <1>13, OwnershipFrame DEF CloseLock
<1>14. ASSUME NEW t \in Notifiers, Notify(t) PROVE Ownership'
  BY <1>14, OwnershipFrame DEF Notify
<1>15. ASSUME NEW w \in Workers, TakeReceive(w) PROVE Ownership'
  BY <1>15, OwnershipFrame DEF TakeReceive
<1>16. ASSUME NEW w \in Workers, ReadLock(w) PROVE Ownership'
  BY <1>16, OwnershipFrame DEF ReadLock
<1>17. ASSUME NEW w \in Workers, ReadHead(w) PROVE Ownership'
  BY <1>17, OwnershipFrame DEF ReadHead
<1>18. ASSUME NEW w \in Workers, ReadFind(w) PROVE Ownership'
  BY <1>18, OwnershipFrame DEF ReadFind
<1>19. ASSUME NEW w \in Workers, ReadBody(w) PROVE Ownership'
  BY <1>19, OwnershipFrame DEF ReadBody
<1>20. ASSUME NEW w \in Workers, ReadCut(w) PROVE Ownership'
  BY <1>20, OwnershipFrame DEF ReadCut
<1>21. ASSUME NEW w \in Workers, Rearm(w) PROVE Ownership'
  BY <1>21, OwnershipFrame DEF Rearm
<1>22. ASSUME NEW w \in Workers, TakeReply(w) PROVE Ownership'
  BY <1>22, OwnershipFrame DEF TakeReply
<1>23. ASSUME NEW w \in Workers, TellMonitor(w) PROVE Ownership'
  BY <1>23, OwnershipFrame DEF TellMonitor
<1>24. QED
  BY <1>1, <1>2, <1>3, <1>4, <1>5, <1>6, <1>7, <1>8, <1>9, <1>10, <1>11, <1>12,
     <1>13, <1>14, <1>15, <1>16, <1>17, <1>18, <1>19, <1>20, <1>21, <1>22, <1>23

\* async_request files a node that was nowhere under an id that was free.
LEMMA EmplaceStep ==
    ASSUME TypeOK, Ownership, NEW c \in Calls, Emplace(c)
    PROVE  Ownership'
<1> USE ThreadsAssumption, MaxMsgIdAssumption
    DEF TypeOK, SessionTypeOK, ThreadsTypeOK, CallsTypeOK, Ownership, OneOwner
<1>1. NextId \in MsgIds
  BY DEF NextId
<1>2. /\ UNCHANGED <<node, aborts, fired>>
      /\ pc' = [pc EXCEPT ![c] = "send"]
      /\ ~InTable(c) /\ ~Held(c) /\ c \notin aborts
  BY DEF Emplace, OnePlace
<1>3. \A i \in MsgIds : requests'[i] = requests[i]
                        \/ (i = NextId /\ requests'[i] = c)
  BY <1>1 DEF Emplace
<1>4. fired[c] = 0
  BY DEF OnePlace, Emplace
<1>5. OneEntry'
  BY <1>2, <1>3 DEF OneEntry, InTable
<1>6. OneHolder'
  BY <1>2 DEF OneHolder
<1>7. OnePlace'
  BY <1>2, <1>3, <1>4 DEF OnePlace, InTable, Held
<1>8. QED
  BY <1>2, <1>5, <1>6, <1>7 DEF AtMostOnce

\* Erasing entries of the table loses nodes but duplicates none.
LEMMA EraseSteps ==
    ASSUME TypeOK, Ownership,
           (\E c \in Calls : Withdraw(c)) \/ (\E w \in Workers : ReplyErase(w))
    PROVE  Ownership'
<1> USE ThreadsAssumption
    DEF TypeOK, SessionTypeOK, ThreadsTypeOK, CallsTypeOK, Ownership, OneOwner
<1>1. /\ UNCHANGED <<node, aborts, fired>>
      /\ \A c \in Calls : pc'[c] = "idle" => pc[c] = "idle"
  BY DEF Withdraw, ReplyErase
<1>2. \A i \in MsgIds : requests'[i] = requests[i] \/ requests'[i] = None
  <2>1. ASSUME NEW c \in Calls, Withdraw(c)
        PROVE  \A i \in MsgIds : requests'[i] = requests[i] \/ requests'[i] = None
    BY <2>1 DEF Withdraw
  <2>2. ASSUME NEW w \in Workers, ReplyErase(w)
        PROVE  \A i \in MsgIds : requests'[i] = requests[i] \/ requests'[i] = None
    BY <2>2 DEF ReplyErase
  <2>3. QED
    BY <2>1, <2>2
<1>3. None \notin Calls
  BY SentinelsAssumption
<1>4. OneEntry'
  BY <1>2, <1>3 DEF OneEntry
<1>5. OneHolder'
  BY <1>1 DEF OneHolder
<1>6. OnePlace'
  BY <1>1, <1>2, <1>3 DEF OnePlace, InTable, Held
<1>7. QED
  BY <1>1, <1>4, <1>5, <1>6 DEF AtMostOnce

\* abort_request and _handle_reply move a node from the table to a thread.
LEMMA TakeSteps ==
    ASSUME TypeOK, Ownership,
           (\E c \in Calls : AbortTake(c)) \/ (\E w \in Workers : ReplyTake(w))
    PROVE  Ownership'
<1> USE ThreadsAssumption
    DEF TypeOK, SessionTypeOK, ThreadsTypeOK, CallsTypeOK, Ownership, OneOwner
<1>1. /\ UNCHANGED <<aborts, fired>>
      /\ \A c \in Calls : pc'[c] = "idle" => pc[c] = "idle"
  BY DEF AbortTake, ReplyTake
<1>2. None \notin Calls /\ Moved \notin Calls
  BY SentinelsAssumption
<1>3. CASE UNCHANGED <<requests, node>>
  BY <1>1, <1>3, OwnershipFrame
<1>4. ASSUME NEW t \in Threads, NEW i \in MsgIds, NEW left \in {None, Moved},
             requests[i] \in Calls,
             node' = [node EXCEPT ![t] = requests[i]],
             requests' = [requests EXCEPT ![i] = left]
      PROVE  Ownership'
  <2>1. OneEntry'
    BY <1>2, <1>4 DEF OneEntry
  <2>2. OneHolder'
    BY <1>4 DEF OneHolder, OnePlace, InTable, Held
  <2>3. \A c \in Calls : Held(c)' => Held(c) \/ c = requests[i]
    BY <1>4 DEF Held
  <2>4. \A c \in Calls : InTable(c)' => InTable(c) /\ c # requests[i]
    BY <1>2, <1>4 DEF InTable, OneEntry
  <2>5. InTable(requests[i])
    BY DEF InTable
  <2>6. OnePlace'
    BY <1>1, <1>4, <2>3, <2>4, <2>5 DEF OnePlace
  <2>7. QED
    BY <1>1, <2>1, <2>2, <2>6 DEF AtMostOnce
<1>5. ASSUME NEW c \in Calls, AbortTake(c) PROVE Ownership'
  <2>1. CASE Entry(msgid[c]) \in {None, Moved}
    BY <1>3, <1>5, <2>1 DEF AbortTake
  <2>2. CASE Entry(msgid[c]) \notin {None, Moved}
    <3>1. msgid[c] \in MsgIds /\ requests[msgid[c]] \in Calls
      BY <2>2
    <3>2. /\ node' = [node EXCEPT ![c] = requests[msgid[c]]]
          /\ requests' = [requests EXCEPT ![msgid[c]] = None]
      BY <1>5, <2>2, <3>1 DEF AbortTake
    <3>3. QED
      BY <1>4, <3>1, <3>2
  <2>3. QED
    BY <2>1, <2>2
<1>6. ASSUME NEW w \in Workers, ReplyTake(w) PROVE Ownership'
  <2> DEFINE i == msgid[job[w]]
  <2>1. CASE Entry(i) \in {None, Moved}
    BY <1>3, <1>6, <2>1 DEF ReplyTake
  <2>2. CASE Entry(i) \notin {None, Moved}
    <3>1. i \in MsgIds /\ requests[i] \in Calls
      BY <2>2
    <3>2. /\ node' = [node EXCEPT ![w] = requests[i]]
          /\ requests' = [requests EXCEPT ![i] = Moved]
      BY <1>6, <2>2, <3>1 DEF ReplyTake
    <3>3. QED
      BY <1>4, <3>1, <3>2
  <2>3. QED
    BY <2>1, <2>2
<1>7. QED
  BY <1>5, <1>6

\* _set_expired moves every node of the table to an abort completion.
LEMMA SweepStep ==
    ASSUME TypeOK, Ownership, NEW t \in Threads, Sweep(t)
    PROVE  Ownership'
<1> USE ThreadsAssumption
    DEF TypeOK, SessionTypeOK, ThreadsTypeOK, Ownership, OneOwner
<1>1. /\ UNCHANGED <<node, fired>>
      /\ \A c \in Calls : pc'[c] = "idle" => pc[c] = "idle"
  BY DEF Sweep, AfterExpire
<1>2. None \notin Calls
  BY SentinelsAssumption
<1>3. \A i \in MsgIds : requests'[i] = None
  BY DEF Sweep
<1>4. \A c \in Calls : c \in aborts' => c \in aborts \/ InTable(c)
  BY DEF Sweep, InTable
<1>5. OneEntry' /\ OneHolder'
  BY <1>1, <1>2, <1>3 DEF OneEntry, OneHolder
<1>6. OnePlace'
  BY <1>1, <1>2, <1>3, <1>4 DEF OnePlace, InTable, Held
<1>7. QED
  BY <1>1, <1>5, <1>6 DEF AtMostOnce

\* The handler of a node that a thread holds was not invoked before; the thread
\* gives the node up.
LEMMA CallSteps ==
    ASSUME TypeOK, Ownership,
           (\E c \in Calls : AbortCall(c)) \/ (\E w \in Workers : ReplyCall(w))
    PROVE  Ownership'
<1> USE ThreadsAssumption
    DEF TypeOK, SessionTypeOK, ThreadsTypeOK, CallsTypeOK, Ownership, OneOwner
<1>1. None \notin Calls
  BY SentinelsAssumption
<1>2. /\ UNCHANGED <<requests, aborts>>
      /\ \A c \in Calls : pc'[c] = "idle" => pc[c] = "idle"
  BY DEF AbortCall, ReplyCall
<1>3. PICK t \in Threads :
        /\ node' = [node EXCEPT ![t] = None]
        /\ fired' = [fired EXCEPT ![node[t]] = @ + 1]
  BY DEF AbortCall, ReplyCall
<1>4. \A c \in Calls : c # node[t] => fired'[c] = fired[c]
  BY <1>3
<1>5. node[t] \in Calls => fired[node[t]] = 0 /\ fired'[node[t]] = 1
  BY <1>3 DEF OnePlace, Held
<1>6. \A c \in Calls : Held(c)' => Held(c) /\ c # node[t]
  BY <1>1, <1>3 DEF Held, OneHolder
<1>7. OneEntry' /\ OneHolder'
  BY <1>1, <1>2, <1>3 DEF OneEntry, OneHolder
<1>8. node[t] \in Calls => Held(node[t])
  BY DEF Held
<1>9. \A c \in Calls : InTable(c)' <=> InTable(c)
  BY <1>2 DEF InTable
<1>10. OnePlace'
  BY <1>2, <1>4, <1>5, <1>6, <1>8, <1>9 DEF OnePlace
<1>11. ASSUME NEW c \in Calls PROVE fired'[c] <= 1
  <2>1. CASE c = node[t]
    BY <1>5, <2>1
  <2>2. CASE c # node[t]
    BY <1>4, <2>2 DEF AtMostOnce
  <2>3. QED
    BY <2>1, <2>2
<1>12. QED
  BY <1>7, <1>10, <1>11 DEF AtMostOnce

\* An abort completion runs once, and nothing else holds its node.
LEMMA AbortCompletionStep ==
    ASSUME TypeOK, Ownership, NEW w \in Workers, RunAbort(w)
    PROVE  Ownership'
<1> USE ThreadsAssumption
    DEF TypeOK, SessionTypeOK, PostedTypeOK, ThreadsTypeOK, CallsTypeOK, Ownership,
        OneOwner
<1>1. UNCHANGED <<requests, node, pc>>
  BY DEF RunAbort
<1>2. PICK n \in aborts :
        /\ aborts' = aborts \ {n}
        /\ IF n = Moved THEN UNCHANGED fired
           ELSE fired' = [fired EXCEPT ![n] = @ + 1]
  BY DEF RunAbort
<1>3. \A c \in Calls : c # n => fired'[c] = fired[c]
  BY <1>2
<1>4. n \in Calls => fired[n] = 0 /\ fired'[n] = 1 /\ ~InTable(n) /\ ~Held(n)
                     /\ pc[n] # "idle"
  BY <1>2, SentinelsAssumption DEF OnePlace
<1>5. OneEntry' /\ OneHolder'
  BY <1>1 DEF OneEntry, OneHolder
<1>6. \A c \in Calls : (InTable(c)' <=> InTable(c)) /\ (Held(c)' <=> Held(c))
  BY <1>1 DEF InTable, Held
<1>7. OnePlace'
  BY <1>1, <1>2, <1>3, <1>4, <1>6 DEF OnePlace
<1>8. ASSUME NEW c \in Calls PROVE fired'[c] <= 1
  <2>1. CASE c = n
    BY <1>4, <2>1
  <2>2. CASE c # n
    BY <1>3, <2>2 DEF AtMostOnce
  <2>3. QED
    BY <2>1, <2>2
<1>9. QED
  BY <1>5, <1>7, <1>8 DEF AtMostOnce

\* The ownership of request nodes is an invariant ...
LEMMA OwnershipInvariant == Spec => []Ownership
<1>1. Init => Ownership
  BY SentinelsAssumption DEF Init, Ownership, OneOwner, OneEntry, OneHolder, OnePlace,
     AtMostOnce, InTable, Held
<1>2. TypeOK /\ Ownership /\ [Next]_vars => Ownership'
  BY QuietSteps, EmplaceStep, EraseSteps, TakeSteps, SweepStep, CallSteps,
     AbortCompletionStep
  DEF Next, Caller, CallerStep, WorkerStep, CloserStep, Expire
<1>3. QED
  BY <1>1, <1>2, TypeCorrect, PTL DEF Spec

(* ... so a request node is never in two places: _set_expired, abort_request   *)
(* and _handle_reply never hand one request to two completions.                *)
THEOREM SingleOwner == Spec => []OneOwner
<1>1. Ownership => OneOwner
  BY DEF Ownership
<1>2. QED
  BY <1>1, OwnershipInvariant, PTL

(* No completion handler is invoked twice, for any number of callers, workers, *)
(* notifiers and closers, also when the message ids wrap around.               *)
THEOREM CompletedAtMostOnce == Spec => []AtMostOnce
<1>1. Ownership => AtMostOnce
  BY DEF Ownership
<1>2. QED
  BY <1>1, OwnershipInvariant, PTL
-----------------------------------------------------------------------------
(* The locks.  LocksFollowThreads is inductive as it stands: each step that  *)
(* takes or lets go a lock moves its thread across the edge of Owns.         *)

\* Every step keeps who owns _mtx_protocol and the request lock in step with where the
\* threads are; the branches of _set_expired differ in what they do with the lock.
LEMMA LocksKept == TypeOK /\ LocksFollowThreads /\ [Next]_vars => LocksFollowThreads'
<1> USE ThreadsAssumption, SentinelsAssumption DEF TypeOK, SessionTypeOK, ThreadsTypeOK
<1> SUFFICES ASSUME TypeOK, LocksFollowThreads, [Next]_vars PROVE LocksFollowThreads'
  OBVIOUS
<1>1. ASSUME NEW c \in Calls, Emplace(c) PROVE LocksFollowThreads'
  BY <1>1 DEF Emplace, LocksFollowThreads, Owns
<1>2. ASSUME NEW c \in Calls, Send(c) PROVE LocksFollowThreads'
  BY <1>2 DEF Send, LocksFollowThreads, Owns
<1>3. ASSUME NEW c \in Calls, Flush(c) PROVE LocksFollowThreads'
  BY <1>3 DEF Flush, LocksFollowThreads, Owns
<1>4. ASSUME NEW c \in Calls, Withdraw(c) PROVE LocksFollowThreads'
  BY <1>4 DEF Withdraw, LocksFollowThreads, Owns
<1>5. ASSUME NEW c \in Calls, Wait(c) PROVE LocksFollowThreads'
  BY <1>5 DEF Wait, LocksFollowThreads, Owns
<1>6. ASSUME NEW c \in Calls, Wake(c) PROVE LocksFollowThreads'
  BY <1>6 DEF Wake, LocksFollowThreads, Owns
<1>7. ASSUME NEW c \in Calls, Timeout(c) PROVE LocksFollowThreads'
  BY <1>7 DEF Timeout, LocksFollowThreads, Owns
<1>8. ASSUME NEW c \in Calls, AbortTake(c) PROVE LocksFollowThreads'
  BY <1>8 DEF AbortTake, LocksFollowThreads, Owns
<1>9. ASSUME NEW c \in Calls, AbortCall(c) PROVE LocksFollowThreads'
  BY <1>9 DEF AbortCall, LocksFollowThreads, Owns
<1>10. ASSUME NEW c \in Calls, AbortNotify(c) PROVE LocksFollowThreads'
  BY <1>10 DEF AbortNotify, LocksFollowThreads, Owns
<1>11. ASSUME NEW c \in Calls, AbortRelease(c) PROVE LocksFollowThreads'
  BY <1>11 DEF AbortRelease, LocksFollowThreads, Owns
<1>12. ASSUME NEW t \in Threads, CloseConn(t) PROVE LocksFollowThreads'
  BY <1>12 DEF CloseConn, LocksFollowThreads, Owns
<1>13. ASSUME NEW t \in Threads, Flip(t) PROVE LocksFollowThreads'
  BY <1>13 DEF Flip, AfterExpire, LocksFollowThreads, Owns
<1>14. ASSUME NEW t \in Threads, Sweep(t) PROVE LocksFollowThreads'
  BY <1>14 DEF Sweep, AfterExpire, LocksFollowThreads, Owns
<1>15. ASSUME NEW t \in Closers, Close(t) PROVE LocksFollowThreads'
  BY <1>15 DEF Close, LocksFollowThreads, Owns
<1>16. ASSUME NEW t \in Closers, CloseLock(t) PROVE LocksFollowThreads'
  BY <1>16 DEF CloseLock, LocksFollowThreads, Owns
<1>17. ASSUME NEW t \in Notifiers, Notify(t) PROVE LocksFollowThreads'
  BY <1>17 DEF Notify, LocksFollowThreads, Owns
<1>18. ASSUME NEW w \in Workers, TakeReceive(w) PROVE LocksFollowThreads'
  BY <1>18 DEF TakeReceive, LocksFollowThreads, Owns
<1>19. ASSUME NEW w \in Workers, ReadLock(w) PROVE LocksFollowThreads'
  BY <1>19 DEF ReadLock, LocksFollowThreads, Owns
<1>20. ASSUME NEW w \in Workers, ReadHead(w) PROVE LocksFollowThreads'
  BY <1>20 DEF ReadHead, LocksFollowThreads, Owns
<1>21. ASSUME NEW w \in Workers, ReadFind(w) PROVE LocksFollowThreads'
  BY <1>21 DEF ReadFind, LocksFollowThreads, Owns
<1>22. ASSUME NEW w \in Workers, ReadBody(w) PROVE LocksFollowThreads'
  BY <1>22 DEF ReadBody, LocksFollowThreads, Owns
<1>23. ASSUME NEW w \in Workers, ReadCut(w) PROVE LocksFollowThreads'
  BY <1>23 DEF ReadCut, LocksFollowThreads, Owns
<1>24. ASSUME NEW w \in Workers, Rearm(w) PROVE LocksFollowThreads'
  BY <1>24 DEF Rearm, LocksFollowThreads, Owns
<1>25. ASSUME NEW w \in Workers, TakeReply(w) PROVE LocksFollowThreads'
  BY <1>25 DEF TakeReply, LocksFollowThreads, Owns
<1>26. ASSUME NEW w \in Workers, ReplyTake(w) PROVE LocksFollowThreads'
  BY <1>26 DEF ReplyTake, LocksFollowThreads, Owns
<1>27. ASSUME NEW w \in Workers, ReplyCall(w) PROVE LocksFollowThreads'
  BY <1>27 DEF ReplyCall, LocksFollowThreads, Owns
<1>28. ASSUME NEW w \in Workers, ReplyErase(w) PROVE LocksFollowThreads'
  BY <1>28 DEF ReplyErase, LocksFollowThreads, Owns
<1>29. ASSUME NEW w \in Workers, RunAbort(w) PROVE LocksFollowThreads'
  BY <1>29 DEF RunAbort, LocksFollowThreads, Owns
<1>30. ASSUME NEW w \in Workers, TellMonitor(w) PROVE LocksFollowThreads'
  BY <1>30 DEF TellMonitor, LocksFollowThreads, Owns
<1>31. CASE Peer
  BY <1>31 DEF Peer, Deliver, DeliverRest, HangUp, LocksFollowThreads, Owns
<1>32. CASE UNCHANGED vars
  BY <1>32 DEF vars, LocksFollowThreads, Owns
<1>33. QED
  BY <1>1, <1>2, <1>3, <1>4, <1>5, <1>6, <1>7, <1>8, <1>9, <1>10, <1>11,
     <1>12, <1>13, <1>14, <1>15, <1>16, <1>17, <1>18, <1>19, <1>20, <1>21,
     <1>22, <1>23, <1>24, <1>25, <1>26, <1>27, <1>28, <1>29, <1>30, <1>31,
     <1>32
  DEF Next, Caller, CallerStep, WorkerStep, CloserStep, Expire

(* The protocol stream has one user at a time, and _set_expired leaves the   *)
(* lock with the async_request that called it and lets it go for notify and  *)
(* close, whatever the number of threads.                                    *)
THEOREM LocksFollow == Spec => []LocksFollowThreads
<1>1. Init => LocksFollowThreads
  BY SentinelsAssumption DEF Init, LocksFollowThreads, Owns
<1>2. TypeOK /\ LocksFollowThreads /\ [Next]_vars => LocksFollowThreads'
  BY LocksKept
<1>3. QED
  BY <1>1, <1>2, TypeCorrect, PTL DEF Spec

-----------------------------------------------------------------------------
(* The receive cycles.  OneReceiveCycle is inductive: the cycle is a token   *)
(* that is armed, posted or carried by the one worker that reads.            *)

\* Every step keeps the cycle single: start_data_receive gives the token away only after
\* its worker stopped reading, and a signal takes it from the armed connection only.
LEMMA CycleKept == TypeOK /\ OneReceiveCycle /\ [Next]_vars => OneReceiveCycle'
<1> USE ThreadsAssumption DEF TypeOK, PostedTypeOK, ThreadsTypeOK
<1> SUFFICES ASSUME TypeOK, OneReceiveCycle, [Next]_vars PROVE OneReceiveCycle'
  OBVIOUS
<1>1. ASSUME NEW c \in Calls, Emplace(c) PROVE OneReceiveCycle'
  BY <1>1 DEF Emplace, OneReceiveCycle, Reading
<1>2. ASSUME NEW c \in Calls, Send(c) PROVE OneReceiveCycle'
  BY <1>2 DEF Send, OneReceiveCycle, Reading
<1>3. ASSUME NEW c \in Calls, Flush(c) PROVE OneReceiveCycle'
  BY <1>3 DEF Flush, OneReceiveCycle, Reading
<1>4. ASSUME NEW c \in Calls, Withdraw(c) PROVE OneReceiveCycle'
  BY <1>4 DEF Withdraw, OneReceiveCycle, Reading
<1>5. ASSUME NEW c \in Calls, Wait(c) PROVE OneReceiveCycle'
  BY <1>5 DEF Wait, OneReceiveCycle, Reading
<1>6. ASSUME NEW c \in Calls, Wake(c) PROVE OneReceiveCycle'
  BY <1>6 DEF Wake, OneReceiveCycle, Reading
<1>7. ASSUME NEW c \in Calls, Timeout(c) PROVE OneReceiveCycle'
  BY <1>7 DEF Timeout, OneReceiveCycle, Reading
<1>8. ASSUME NEW c \in Calls, AbortTake(c) PROVE OneReceiveCycle'
  BY <1>8 DEF AbortTake, OneReceiveCycle, Reading
<1>9. ASSUME NEW c \in Calls, AbortCall(c) PROVE OneReceiveCycle'
  BY <1>9 DEF AbortCall, OneReceiveCycle, Reading
<1>10. ASSUME NEW c \in Calls, AbortNotify(c) PROVE OneReceiveCycle'
  BY <1>10 DEF AbortNotify, OneReceiveCycle, Reading
<1>11. ASSUME NEW c \in Calls, AbortRelease(c) PROVE OneReceiveCycle'
  BY <1>11 DEF AbortRelease, OneReceiveCycle, Reading
<1>12. ASSUME NEW t \in Threads, CloseConn(t) PROVE OneReceiveCycle'
  BY <1>12 DEF CloseConn, OneReceiveCycle, Reading
<1>13. ASSUME NEW t \in Threads, Flip(t) PROVE OneReceiveCycle'
  BY <1>13 DEF Flip, AfterExpire, OneReceiveCycle, Reading
<1>14. ASSUME NEW t \in Threads, Sweep(t) PROVE OneReceiveCycle'
  BY <1>14 DEF Sweep, AfterExpire, OneReceiveCycle, Reading
<1>15. ASSUME NEW t \in Closers, Close(t) PROVE OneReceiveCycle'
  BY <1>15 DEF Close, OneReceiveCycle, Reading
<1>16. ASSUME NEW t \in Closers, CloseLock(t) PROVE OneReceiveCycle'
  BY <1>16 DEF CloseLock, OneReceiveCycle, Reading
<1>17. ASSUME NEW t \in Notifiers, Notify(t) PROVE OneReceiveCycle'
  BY <1>17 DEF Notify, OneReceiveCycle, Reading
<1>18. ASSUME NEW w \in Workers, TakeReceive(w) PROVE OneReceiveCycle'
  BY <1>18 DEF TakeReceive, OneReceiveCycle, Reading
<1>19. ASSUME NEW w \in Workers, ReadLock(w) PROVE OneReceiveCycle'
  BY <1>19 DEF ReadLock, OneReceiveCycle, Reading
<1>20. ASSUME NEW w \in Workers, ReadHead(w) PROVE OneReceiveCycle'
  BY <1>20 DEF ReadHead, OneReceiveCycle, Reading
<1>21. ASSUME NEW w \in Workers, ReadFind(w) PROVE OneReceiveCycle'
  BY <1>21 DEF ReadFind, OneReceiveCycle, Reading
<1>22. ASSUME NEW w \in Workers, ReadBody(w) PROVE OneReceiveCycle'
  BY <1>22 DEF ReadBody, OneReceiveCycle, Reading
<1>23. ASSUME NEW w \in Workers, ReadCut(w) PROVE OneReceiveCycle'
  BY <1>23 DEF ReadCut, OneReceiveCycle, Reading
<1>24. ASSUME NEW w \in Workers, Rearm(w) PROVE OneReceiveCycle'
  BY <1>24 DEF Rearm, OneReceiveCycle, Reading
<1>25. ASSUME NEW w \in Workers, TakeReply(w) PROVE OneReceiveCycle'
  BY <1>25 DEF TakeReply, OneReceiveCycle, Reading
<1>26. ASSUME NEW w \in Workers, ReplyTake(w) PROVE OneReceiveCycle'
  BY <1>26 DEF ReplyTake, OneReceiveCycle, Reading
<1>27. ASSUME NEW w \in Workers, ReplyCall(w) PROVE OneReceiveCycle'
  BY <1>27 DEF ReplyCall, OneReceiveCycle, Reading
<1>28. ASSUME NEW w \in Workers, ReplyErase(w) PROVE OneReceiveCycle'
  BY <1>28 DEF ReplyErase, OneReceiveCycle, Reading
<1>29. ASSUME NEW w \in Workers, RunAbort(w) PROVE OneReceiveCycle'
  BY <1>29 DEF RunAbort, OneReceiveCycle, Reading
<1>30. ASSUME NEW w \in Workers, TellMonitor(w) PROVE OneReceiveCycle'
  BY <1>30 DEF TellMonitor, OneReceiveCycle, Reading
<1>31. CASE Peer
  BY <1>31 DEF Peer, Deliver, DeliverRest, HangUp, OneReceiveCycle, Reading
<1>32. CASE UNCHANGED vars
  BY <1>32 DEF vars, OneReceiveCycle, Reading
<1>33. QED
  BY <1>1, <1>2, <1>3, <1>4, <1>5, <1>6, <1>7, <1>8, <1>9, <1>10, <1>11,
     <1>12, <1>13, <1>14, <1>15, <1>16, <1>17, <1>18, <1>19, <1>20, <1>21,
     <1>22, <1>23, <1>24, <1>25, <1>26, <1>27, <1>28, <1>29, <1>30, <1>31,
     <1>32
  DEF Next, Caller, CallerStep, WorkerStep, CloserStep, Expire

(* Two workers never read one stream, and start_data_receive never finds the *)
(* session waiting already (the assertion on _waiting).                      *)
THEOREM ReceivesOnce == Spec => []OneReceiveCycle
<1>1. Init => OneReceiveCycle
  BY DEF Init, OneReceiveCycle, Reading
<1>2. TypeOK /\ OneReceiveCycle /\ [Next]_vars => OneReceiveCycle'
  BY CycleKept
<1>3. QED
  BY <1>1, <1>2, TypeCorrect, PTL DEF Spec

-----------------------------------------------------------------------------
(* No request is left behind by the expiry.  The invariant needs to know     *)
(* that a request is filed under the id its handle has: the withdrawal at    *)
(* the end of async_request erases that id.                                  *)

Filed == \A i \in MsgIds : requests[i] \in Calls => msgid[requests[i]] = i

\* abort_request and _handle_reply file nothing: an entry stays or gives its node up.
LEMMA TakeFilesNothing ==
    ASSUME TypeOK, (\E c \in Calls : AbortTake(c)) \/ (\E w \in Workers : ReplyTake(w))
    PROVE  \A i \in MsgIds : requests'[i] \in Calls => requests'[i] = requests[i]
<1> USE SentinelsAssumption DEF TypeOK, SessionTypeOK, ThreadsTypeOK, CallsTypeOK
<1>1. ASSUME NEW j, NEW left \in {None, Moved},
             requests' = [requests EXCEPT ![j] = left]
      PROVE  \A i \in MsgIds : requests'[i] \in Calls => requests'[i] = requests[i]
  <2>1. \A i \in MsgIds : requests'[i] = IF i = j THEN left ELSE requests[i]
    BY <1>1
  <2>2. QED
    BY <2>1
<1>2. ASSUME NEW c \in Calls, AbortTake(c)
      PROVE  requests' = requests \/ requests' = [requests EXCEPT ![msgid[c]] = None]
  BY <1>2 DEF AbortTake
<1>3. ASSUME NEW w \in Workers, ReplyTake(w)
      PROVE  \/ requests' = requests
             \/ requests' = [requests EXCEPT ![msgid[job[w]]] = Moved]
  BY <1>3 DEF ReplyTake
<1>4. QED
  BY <1>1, <1>2, <1>3

\* A request stays filed under the id of its handle: ids are only given to calls that are
\* in no entry, and the id is only given up together with the entry.
LEMMA FiledKept == TypeOK /\ Ownership /\ Filed /\ [Next]_vars => Filed'
<1> USE ThreadsAssumption, SentinelsAssumption
    DEF TypeOK, SessionTypeOK, ThreadsTypeOK, CallsTypeOK
<1> SUFFICES ASSUME TypeOK, Ownership, Filed, [Next]_vars PROVE Filed'
  OBVIOUS
<1>1. ASSUME NEW c \in Calls, Emplace(c) PROVE Filed'
  <2>1. ~InTable(c)
    BY <1>1 DEF Emplace, Ownership, OneOwner, OnePlace
  <2>2. QED
    BY <1>1, <2>1 DEF Emplace, InTable, Filed, NextId
<1>2. ASSUME NEW c \in Calls, Send(c) PROVE Filed'
  BY <1>2 DEF Send, Filed
<1>3. ASSUME NEW c \in Calls, Flush(c) PROVE Filed'
  BY <1>3 DEF Flush, Filed
<1>4. ASSUME NEW c \in Calls, Withdraw(c) PROVE Filed'
  BY <1>4 DEF Withdraw, Filed
<1>5. ASSUME NEW c \in Calls, Wait(c) PROVE Filed'
  BY <1>5 DEF Wait, Filed
<1>6. ASSUME NEW c \in Calls, Wake(c) PROVE Filed'
  BY <1>6 DEF Wake, Filed
<1>7. ASSUME NEW c \in Calls, Timeout(c) PROVE Filed'
  BY <1>7 DEF Timeout, Filed
<1>8. ASSUME NEW c \in Calls, AbortTake(c) PROVE Filed'
  BY <1>8, TakeFilesNothing DEF AbortTake, Filed
<1>9. ASSUME NEW c \in Calls, AbortCall(c) PROVE Filed'
  BY <1>9 DEF AbortCall, Filed
<1>10. ASSUME NEW c \in Calls, AbortNotify(c) PROVE Filed'
  BY <1>10 DEF AbortNotify, Filed
<1>11. ASSUME NEW c \in Calls, AbortRelease(c) PROVE Filed'
  BY <1>11 DEF AbortRelease, Filed
<1>12. ASSUME NEW t \in Threads, CloseConn(t) PROVE Filed'
  BY <1>12 DEF CloseConn, Filed
<1>13. ASSUME NEW t \in Threads, Flip(t) PROVE Filed'
  BY <1>13 DEF Flip, AfterExpire, Filed
<1>14. ASSUME NEW t \in Threads, Sweep(t) PROVE Filed'
  BY <1>14 DEF Sweep, AfterExpire, Filed
<1>15. ASSUME NEW t \in Closers, Close(t) PROVE Filed'
  BY <1>15 DEF Close, Filed
<1>16. ASSUME NEW t \in Closers, CloseLock(t) PROVE Filed'
  BY <1>16 DEF CloseLock, Filed
<1>17. ASSUME NEW t \in Notifiers, Notify(t) PROVE Filed'
  BY <1>17 DEF Notify, Filed
<1>18. ASSUME NEW w \in Workers, TakeReceive(w) PROVE Filed'
  BY <1>18 DEF TakeReceive, Filed
<1>19. ASSUME NEW w \in Workers, ReadLock(w) PROVE Filed'
  BY <1>19 DEF ReadLock, Filed
<1>20. ASSUME NEW w \in Workers, ReadHead(w) PROVE Filed'
  BY <1>20 DEF ReadHead, Filed
<1>21. ASSUME NEW w \in Workers, ReadFind(w) PROVE Filed'
  BY <1>21 DEF ReadFind, Filed
<1>22. ASSUME NEW w \in Workers, ReadBody(w) PROVE Filed'
  BY <1>22 DEF ReadBody, Filed
<1>23. ASSUME NEW w \in Workers, ReadCut(w) PROVE Filed'
  BY <1>23 DEF ReadCut, Filed
<1>24. ASSUME NEW w \in Workers, Rearm(w) PROVE Filed'
  BY <1>24 DEF Rearm, Filed
<1>25. ASSUME NEW w \in Workers, TakeReply(w) PROVE Filed'
  BY <1>25 DEF TakeReply, Filed
<1>26. ASSUME NEW w \in Workers, ReplyTake(w) PROVE Filed'
  BY <1>26, TakeFilesNothing DEF ReplyTake, Filed
<1>27. ASSUME NEW w \in Workers, ReplyCall(w) PROVE Filed'
  BY <1>27 DEF ReplyCall, Filed
<1>28. ASSUME NEW w \in Workers, ReplyErase(w) PROVE Filed'
  BY <1>28 DEF ReplyErase, Filed
<1>29. ASSUME NEW w \in Workers, RunAbort(w) PROVE Filed'
  BY <1>29 DEF RunAbort, Filed
<1>30. ASSUME NEW w \in Workers, TellMonitor(w) PROVE Filed'
  BY <1>30 DEF TellMonitor, Filed
<1>31. CASE Peer
  BY <1>31 DEF Peer, Deliver, DeliverRest, HangUp, Filed
<1>32. CASE UNCHANGED vars
  BY <1>32 DEF vars, Filed
<1>33. QED
  BY <1>1, <1>2, <1>3, <1>4, <1>5, <1>6, <1>7, <1>8, <1>9, <1>10, <1>11,
     <1>12, <1>13, <1>14, <1>15, <1>16, <1>17, <1>18, <1>19, <1>20, <1>21,
     <1>22, <1>23, <1>24, <1>25, <1>26, <1>27, <1>28, <1>29, <1>30, <1>31,
     <1>32
  DEF Next, Caller, CallerStep, WorkerStep, CloserStep, Expire

\* Where async_request is when it has not yet decided to return a handle.
Issuing == {"send", "check", "close_conn", "flip"}

\* A thread that goes on, while no request enters the table, leaves none behind.
LEMMA StrayFrame ==
    ASSUME TypeOK, NoStrayRequest, valid' = valid,
           \A c \in Calls : InTable(c)' => InTable(c),
           NEW t \in Threads, NEW to,
           pc' = [pc EXCEPT ![t] = to],
           pc[t] # "sweep",
           t \in Calls /\ InTable(t)' /\ pc[t] \in Issuing => to \in Issuing
    PROVE  NoStrayRequest'
<1> USE DEF TypeOK, ThreadsTypeOK, Issuing
<1>1. SUFFICES ASSUME ~valid, \A u \in Threads : pc'[u] # "sweep",
                      NEW c \in Calls, InTable(c)'
               PROVE  pc'[c] \in Issuing
  BY DEF NoStrayRequest
<1>2. \A u \in Threads : pc[u] # "sweep"
  BY <1>1
<1>3. pc[c] \in Issuing
  BY <1>1, <1>2 DEF NoStrayRequest
<1>4. QED
  BY <1>1, <1>3

\* Every step leaves no request behind: after the sweep only async_request files one,
\* and it withdraws it.
LEMMA StrayKept == TypeOK /\ Filed /\ NoStrayRequest /\ [Next]_vars => NoStrayRequest'
<1> USE ThreadsAssumption, SentinelsAssumption
    DEF TypeOK, SessionTypeOK, ThreadsTypeOK, CallsTypeOK
<1> SUFFICES ASSUME TypeOK, Filed, NoStrayRequest, [Next]_vars PROVE NoStrayRequest'
  OBVIOUS
<1>1. ASSUME NEW c \in Calls, Emplace(c) PROVE NoStrayRequest'
  BY <1>1 DEF Emplace, NoStrayRequest, InTable
<1>2. ASSUME NEW c \in Calls, Send(c) PROVE NoStrayRequest'
  BY <1>2 DEF Send, NoStrayRequest, InTable
<1>3. ASSUME NEW c \in Calls, Flush(c) PROVE NoStrayRequest'
  BY <1>3 DEF Flush, NoStrayRequest, InTable
<1>4. ASSUME NEW c \in Calls, Withdraw(c) PROVE NoStrayRequest'
  <2>1. \A d \in Calls : InTable(d)' => InTable(d) /\ d # c
    BY <1>4 DEF Withdraw, InTable, Filed
  <2>2. valid' = valid /\ pc[c] = "check" /\ pc' = [pc EXCEPT ![c] = "done"]
    BY <1>4 DEF Withdraw
  <2>3. QED
    BY <2>1, <2>2, StrayFrame
<1>5. ASSUME NEW c \in Calls, Wait(c) PROVE NoStrayRequest'
  <2>1. UNCHANGED <<valid, requests>> /\ pc[c] = "wait"
    BY <1>5 DEF Wait
  <2>2. pc' = [pc EXCEPT ![c] = "done"] \/ pc' = [pc EXCEPT ![c] = "blocked"]
    BY <1>5 DEF Wait
  <2>3. QED
    BY <2>1, <2>2, StrayFrame DEF InTable, Issuing
<1>6. ASSUME NEW c \in Calls, Wake(c) PROVE NoStrayRequest'
  BY <1>6, ZenonT(30) DEF Wake, NoStrayRequest, InTable
<1>7. ASSUME NEW c \in Calls, Timeout(c) PROVE NoStrayRequest'
  <2>1. UNCHANGED <<valid, requests>> /\ pc[c] = "blocked"
    BY <1>7 DEF Timeout
  <2>2. pc' = [pc EXCEPT ![c] = "done"] \/ pc' = [pc EXCEPT ![c] = "abort"]
    BY <1>7 DEF Timeout
  <2>3. QED
    BY <2>1, <2>2, StrayFrame DEF InTable, Issuing
<1>8. ASSUME NEW c \in Calls, AbortTake(c) PROVE NoStrayRequest'
  <2>1. \A d \in Calls : InTable(d)' => InTable(d)
    BY <1>8, TakeFilesNothing DEF InTable
  <2>2. /\ valid' = valid /\ pc[c] = "abort"
        /\ pc' = [pc EXCEPT ![c] = "done"] \/ pc' = [pc EXCEPT ![c] = "abort_call"]
    BY <1>8 DEF AbortTake
  <2>3. QED
    BY <2>1, <2>2 DEF NoStrayRequest
<1>9. ASSUME NEW c \in Calls, AbortCall(c) PROVE NoStrayRequest'
  BY <1>9 DEF AbortCall, NoStrayRequest, InTable
<1>10. ASSUME NEW c \in Calls, AbortNotify(c) PROVE NoStrayRequest'
  BY <1>10 DEF AbortNotify, NoStrayRequest, InTable
<1>11. ASSUME NEW c \in Calls, AbortRelease(c) PROVE NoStrayRequest'
  BY <1>11 DEF AbortRelease, NoStrayRequest, InTable
<1>12. ASSUME NEW t \in Threads, CloseConn(t) PROVE NoStrayRequest'
  BY <1>12 DEF CloseConn, NoStrayRequest, InTable
<1>13. ASSUME NEW t \in Threads, Flip(t) PROVE NoStrayRequest'
  <2>1. CASE valid
    <3>1. t \in Threads /\ pc'[t] = "sweep"
      BY <1>13, <2>1 DEF Flip
    <3>2. QED
      BY <3>1 DEF NoStrayRequest
  <2>2. CASE ~valid
    <3>1. UNCHANGED <<valid, requests>> /\ pc[t] = "flip" /\ AfterExpire(t)
      BY <1>13, <2>2 DEF Flip
    <3>2. PICK to \in {"check", "idle", "done"} :
            pc' = [pc EXCEPT ![t] = to] /\ (t \in Calls => to = "check")
      BY <3>1 DEF AfterExpire
    <3>3. QED
      BY <3>1, <3>2, StrayFrame DEF InTable, Issuing
  <2>3. QED
    BY <2>1, <2>2
<1>14. ASSUME NEW t \in Threads, Sweep(t) PROVE NoStrayRequest'
  BY <1>14 DEF Sweep, AfterExpire, NoStrayRequest, InTable
<1>15. ASSUME NEW t \in Closers, Close(t) PROVE NoStrayRequest'
  BY <1>15 DEF Close, NoStrayRequest, InTable
<1>16. ASSUME NEW t \in Closers, CloseLock(t) PROVE NoStrayRequest'
  BY <1>16, ZenonT(30) DEF CloseLock, NoStrayRequest, InTable
<1>17. ASSUME NEW t \in Notifiers, Notify(t) PROVE NoStrayRequest'
  BY <1>17 DEF Notify, NoStrayRequest, InTable
<1>18. ASSUME NEW w \in Workers, TakeReceive(w) PROVE NoStrayRequest'
  BY <1>18 DEF TakeReceive, NoStrayRequest, InTable
<1>19. ASSUME NEW w \in Workers, ReadLock(w) PROVE NoStrayRequest'
  BY <1>19, ZenonT(30) DEF ReadLock, NoStrayRequest, InTable
<1>20. ASSUME NEW w \in Workers, ReadHead(w) PROVE NoStrayRequest'
  BY <1>20 DEF ReadHead, NoStrayRequest, InTable
<1>21. ASSUME NEW w \in Workers, ReadFind(w) PROVE NoStrayRequest'
  BY <1>21 DEF ReadFind, NoStrayRequest, InTable
<1>22. ASSUME NEW w \in Workers, ReadBody(w) PROVE NoStrayRequest'
  BY <1>22 DEF ReadBody, NoStrayRequest, InTable
<1>23. ASSUME NEW w \in Workers, ReadCut(w) PROVE NoStrayRequest'
  BY <1>23 DEF ReadCut, NoStrayRequest, InTable
<1>24. ASSUME NEW w \in Workers, Rearm(w) PROVE NoStrayRequest'
  BY <1>24 DEF Rearm, NoStrayRequest, InTable
<1>25. ASSUME NEW w \in Workers, TakeReply(w) PROVE NoStrayRequest'
  BY <1>25 DEF TakeReply, NoStrayRequest, InTable
<1>26. ASSUME NEW w \in Workers, ReplyTake(w) PROVE NoStrayRequest'
  <2>1. \A d \in Calls : InTable(d)' => InTable(d)
    BY <1>26, TakeFilesNothing DEF InTable
  <2>2. /\ valid' = valid /\ pc[w] = "reply"
        /\ pc' = [pc EXCEPT ![w] = "idle"] \/ pc' = [pc EXCEPT ![w] = "handler"]
    BY <1>26 DEF ReplyTake
  <2>3. QED
    BY <2>1, <2>2 DEF NoStrayRequest
<1>27. ASSUME NEW w \in Workers, ReplyCall(w) PROVE NoStrayRequest'
  BY <1>27 DEF ReplyCall, NoStrayRequest, InTable
<1>28. ASSUME NEW w \in Workers, ReplyErase(w) PROVE NoStrayRequest'
  BY <1>28 DEF ReplyErase, NoStrayRequest, InTable
<1>29. ASSUME NEW w \in Workers, RunAbort(w) PROVE NoStrayRequest'
  BY <1>29 DEF RunAbort, NoStrayRequest, InTable
<1>30. ASSUME NEW w \in Workers, TellMonitor(w) PROVE NoStrayRequest'
  BY <1>30 DEF TellMonitor, NoStrayRequest, InTable
<1>31. CASE Peer
  BY <1>31 DEF Peer, Deliver, DeliverRest, HangUp, NoStrayRequest, InTable
<1>32. CASE UNCHANGED vars
  BY <1>32 DEF vars, NoStrayRequest, InTable
<1>33. QED
  BY <1>1, <1>2, <1>3, <1>4, <1>5, <1>6, <1>7, <1>8, <1>9, <1>10, <1>11,
     <1>12, <1>13, <1>14, <1>15, <1>16, <1>17, <1>18, <1>19, <1>20, <1>21,
     <1>22, <1>23, <1>24, <1>25, <1>26, <1>27, <1>28, <1>29, <1>30, <1>31,
     <1>32
  DEF Next, Caller, CallerStep, WorkerStep, CloserStep, Expire

\* Each request of the table is filed under the id of its handle, always.
LEMMA FiledInvariant == Spec => []Filed
<1>1. Init => Filed
  BY SentinelsAssumption DEF Init, Filed
<1>2. TypeOK /\ Ownership /\ Filed /\ [Next]_vars => Filed'
  BY FiledKept
<1>3. QED
  BY <1>1, <1>2, TypeCorrect, OwnershipInvariant, PTL DEF Spec

(* A request that is issued while the session expires is swept, or withdrawn *)
(* by its own async_request: none stays in the table for ever, also when ids *)
(* come round to those of outstanding requests.                              *)
THEOREM NoneLeftBehind == Spec => []NoStrayRequest
<1>1. Init => NoStrayRequest
  BY DEF Init, NoStrayRequest
<1>2. TypeOK /\ Filed /\ NoStrayRequest /\ [Next]_vars => NoStrayRequest'
  BY StrayKept
<1>3. QED
  BY <1>1, <1>2, TypeCorrect, FiledInvariant, PTL DEF Spec

-----------------------------------------------------------------------------
(* RpcSession implements RpcCompletion                                       *)

\* A session is given up before its ids are.
FewCalls == IsFiniteSet(Calls) /\ Cardinality(Calls) <= MaxMsgId

-----------------------------------------------------------------------------
(* Message ids are not used twice: idgen counts the requests issued.         *)

Issued    == {c \in Calls : pc[c] # "idle"}
UniqueIds == \A c, d \in Calls : msgid[c] = msgid[d] /\ msgid[c] # 0 => c = d

IdsInOrder ==
    /\ \A c \in Calls : pc[c] = "idle" => msgid[c] = 0
    /\ \A c \in Calls : msgid[c] <= Cardinality(Issued)
    /\ Cardinality(Issued) < MaxMsgId => idgen = Cardinality(Issued)
    /\ UniqueIds

IssuesNothing ==
    /\ UNCHANGED idgen
    /\ \A c \in Calls : /\ pc'[c] = "idle" <=> pc[c] = "idle"
                        /\ msgid'[c] = msgid[c] \/ msgid'[c] = 0

\* Only the beginning of async_request advances the generator and begins a call.
LEMMA OnlyEmplaceIssues ==
    ASSUME TypeOK, [Next]_vars
    PROVE  IssuesNothing \/ \E c \in Calls : Emplace(c)
<1> USE ThreadsAssumption DEF TypeOK, SessionTypeOK, ThreadsTypeOK, CallsTypeOK
<1>2. ASSUME NEW c \in Calls, Send(c) PROVE IssuesNothing
  BY <1>2 DEF Send, IssuesNothing
<1>3. ASSUME NEW c \in Calls, Flush(c) PROVE IssuesNothing
  BY <1>3 DEF Flush, IssuesNothing
<1>4. ASSUME NEW c \in Calls, Withdraw(c) PROVE IssuesNothing
  BY <1>4 DEF Withdraw, IssuesNothing
<1>5. ASSUME NEW c \in Calls, Wait(c) PROVE IssuesNothing
  BY <1>5 DEF Wait, IssuesNothing
<1>6. ASSUME NEW c \in Calls, Wake(c) PROVE IssuesNothing
  BY <1>6 DEF Wake, IssuesNothing
<1>7. ASSUME NEW c \in Calls, Timeout(c) PROVE IssuesNothing
  BY <1>7 DEF Timeout, IssuesNothing
<1>8. ASSUME NEW c \in Calls, AbortTake(c) PROVE IssuesNothing
  BY <1>8 DEF AbortTake, IssuesNothing
<1>9. ASSUME NEW c \in Calls, AbortCall(c) PROVE IssuesNothing
  BY <1>9 DEF AbortCall, IssuesNothing
<1>10. ASSUME NEW c \in Calls, AbortNotify(c) PROVE IssuesNothing
  BY <1>10 DEF AbortNotify, IssuesNothing
<1>11. ASSUME NEW c \in Calls, AbortRelease(c) PROVE IssuesNothing
  BY <1>11 DEF AbortRelease, IssuesNothing
<1>12. ASSUME NEW t \in Threads, CloseConn(t) PROVE IssuesNothing
  BY <1>12 DEF CloseConn, IssuesNothing
<1>13. ASSUME NEW t \in Threads, Flip(t) PROVE IssuesNothing
  BY <1>13 DEF Flip, AfterExpire, IssuesNothing
<1>14. ASSUME NEW t \in Threads, Sweep(t) PROVE IssuesNothing
  BY <1>14 DEF Sweep, AfterExpire, IssuesNothing
<1>15. ASSUME NEW t \in Closers, Close(t) PROVE IssuesNothing
  BY <1>15 DEF Close, IssuesNothing
<1>16. ASSUME NEW t \in Closers, CloseLock(t) PROVE IssuesNothing
  BY <1>16 DEF CloseLock, IssuesNothing
<1>17. ASSUME NEW t \in Notifiers, Notify(t) PROVE IssuesNothing
  BY <1>17 DEF Notify, IssuesNothing
<1>18. ASSUME NEW w \in Workers, TakeReceive(w) PROVE IssuesNothing
  BY <1>18 DEF TakeReceive, IssuesNothing
<1>19. ASSUME NEW w \in Workers, ReadLock(w) PROVE IssuesNothing
  BY <1>19 DEF ReadLock, IssuesNothing
<1>20. ASSUME NEW w \in Workers, ReadHead(w) PROVE IssuesNothing
  BY <1>20 DEF ReadHead, IssuesNothing
<1>21. ASSUME NEW w \in Workers, ReadFind(w) PROVE IssuesNothing
  BY <1>21 DEF ReadFind, IssuesNothing
<1>22. ASSUME NEW w \in Workers, ReadBody(w) PROVE IssuesNothing
  BY <1>22 DEF ReadBody, IssuesNothing
<1>23. ASSUME NEW w \in Workers, ReadCut(w) PROVE IssuesNothing
  BY <1>23 DEF ReadCut, IssuesNothing
<1>24. ASSUME NEW w \in Workers, Rearm(w) PROVE IssuesNothing
  BY <1>24 DEF Rearm, IssuesNothing
<1>25. ASSUME NEW w \in Workers, TakeReply(w) PROVE IssuesNothing
  BY <1>25 DEF TakeReply, IssuesNothing
<1>26. ASSUME NEW w \in Workers, ReplyTake(w) PROVE IssuesNothing
  BY <1>26 DEF ReplyTake, IssuesNothing
<1>27. ASSUME NEW w \in Workers, ReplyCall(w) PROVE IssuesNothing
  BY <1>27 DEF ReplyCall, IssuesNothing
<1>28. ASSUME NEW w \in Workers, ReplyErase(w) PROVE IssuesNothing
  BY <1>28 DEF ReplyErase, IssuesNothing
<1>29. ASSUME NEW w \in Workers, RunAbort(w) PROVE IssuesNothing
  BY <1>29 DEF RunAbort, IssuesNothing
<1>30. ASSUME NEW w \in Workers, TellMonitor(w) PROVE IssuesNothing
  BY <1>30 DEF TellMonitor, IssuesNothing
<1>31. CASE Peer
  BY <1>31 DEF Peer, Deliver, DeliverRest, HangUp, IssuesNothing
<1>32. CASE UNCHANGED vars
  BY <1>32 DEF vars, IssuesNothing
<1>33. QED
  BY <1>2, <1>3, <1>4, <1>5, <1>6, <1>7, <1>8, <1>9, <1>10, <1>11,
     <1>12, <1>13, <1>14, <1>15, <1>16, <1>17, <1>18, <1>19, <1>20, <1>21,
     <1>22, <1>23, <1>24, <1>25, <1>26, <1>27, <1>28, <1>29, <1>30, <1>31,
     <1>32
  DEF Next, Caller, CallerStep, WorkerStep, CloserStep, Expire

\* async_request gives a call an id that no other call has had.
LEMMA EmplaceTakesNewId ==
    ASSUME TypeOK, FewCalls, IdsInOrder, NEW c \in Calls, Emplace(c)
    PROVE  IdsInOrder' /\ \A d \in Calls : msgid[d] # NextId
<1> USE ThreadsAssumption, MaxMsgIdAssumption
    DEF TypeOK, SessionTypeOK, ThreadsTypeOK, CallsTypeOK, FewCalls, IdsInOrder
<1> DEFINE k == Cardinality(Issued)
<1>1. IsFiniteSet(Issued) /\ k \in Nat /\ k < Cardinality(Calls) /\ Cardinality(Calls) \in Nat
  <2>1. Issued \subseteq Calls /\ c \notin Issued
    BY DEF Emplace, Issued
  <2>2. IsFiniteSet(Issued) /\ k <= Cardinality(Calls)
        /\ (Cardinality(Calls) = k => Calls = Issued)
    BY <2>1, FS_Subset
  <2>3. k \in Nat /\ Cardinality(Calls) \in Nat
    BY <2>2, FS_CardinalityType
  <2>4. QED
    BY <2>1, <2>2, <2>3
<1>2. idgen = k /\ NextId = k + 1 /\ NextId <= MaxMsgId
  BY <1>1 DEF NextId
<1>3. Issued' = Issued \union {c}
  BY DEF Emplace, Issued
<1>4. Cardinality(Issued)' = k + 1
  <2>1. c \notin Issued
    BY DEF Emplace, Issued
  <2>2. QED
    BY <1>1, <1>3, <2>1, FS_AddElement
<1>5. /\ msgid' = [msgid EXCEPT ![c] = NextId]
      /\ pc' = [pc EXCEPT ![c] = "send"]
      /\ idgen' = IdgenAfter(NextId)
  BY DEF Emplace
<1>6. \A d \in Calls : msgid[d] # NextId
  BY <1>1, <1>2
<1>7. \A d \in Calls : msgid'[d] <= k + 1
  BY <1>1, <1>2, <1>5
<1>8. k + 1 < MaxMsgId => idgen' = k + 1
  BY <1>1, <1>2, <1>5 DEF IdgenAfter
<1>9. UniqueIds'
  BY <1>5, <1>6 DEF UniqueIds
<1>10. \A d \in Calls : pc'[d] = "idle" => msgid'[d] = 0
  BY <1>5
<1>11. QED
  BY <1>4, <1>6, <1>7, <1>8, <1>9, <1>10

\* Every step keeps the generator in step with the number of requests issued.
LEMMA IdsKept ==
    ASSUME TypeOK, FewCalls, IdsInOrder, [Next]_vars
    PROVE  IdsInOrder'
<1>1. CASE IssuesNothing
  <2>1. Issued' = Issued
    BY <1>1 DEF IssuesNothing, Issued
  <2>2. IsFiniteSet(Issued)
    BY FS_Subset DEF Issued, FewCalls
  <2>3. Cardinality(Issued) \in Nat
    BY <2>2, FS_CardinalityType
  <2>4. UniqueIds'
    BY <1>1 DEF IssuesNothing, IdsInOrder, UniqueIds
  <2>5. QED
    BY <1>1, <2>1, <2>3, <2>4 DEF IssuesNothing, IdsInOrder
<1>2. QED
  BY <1>1, OnlyEmplaceIssues, EmplaceTakesNewId

-----------------------------------------------------------------------------
(* What the steps rely on when ids are unique: entries, local variables and  *)
(* posted completions belong to the calls that they are taken to belong to.  *)

KnownIds == \A i \in MsgIds : requests[i] # None => \E c \in Calls : msgid[c] = i

CallsInOrder == \A c \in Calls :
    /\ pc[c] \notin {"idle", "done"} => msgid[c] # 0
    /\ node[c] \in {None, c}
    /\ c \in sent => pc[c] # "idle"

AnswersKnown ==
    /\ wire # None => answer[wire] # "none"
    /\ \A c \in replies : answer[c] # "none"
    /\ \A w \in Workers : job[w] # None => answer[job[w]] # "none"

WorkersInOrder == \A w \in Workers :
    /\ pc[w] \in {"reply", "handler", "reply_erase"} => job[w] # None
    /\ node[w] = IF pc[w] = "handler" THEN job[w] ELSE None
    /\ pc[w] = "reply_erase" => fired[job[w]] > 0

AbortsAfterExpiry ==
    /\ aborts # {} => ~valid
    /\ \A t \in Threads : pc[t] = "sweep" => ~valid

\* Every entry of the table, moved out or not, is under an id that a call has.
LEMMA KnownIdsKept == TypeOK /\ IdsInOrder /\ KnownIds /\ [Next]_vars => KnownIds'
<1> USE ThreadsAssumption, SentinelsAssumption, MaxMsgIdAssumption
    DEF TypeOK, SessionTypeOK, PostedTypeOK, ThreadsTypeOK, CallsTypeOK, PeerTypeOK
<1> SUFFICES ASSUME TypeOK, IdsInOrder, KnownIds, [Next]_vars PROVE KnownIds'
  OBVIOUS
<1>1. ASSUME NEW c \in Calls, Emplace(c) PROVE KnownIds'
  <2>1. msgid[c] = 0 /\ msgid' = [msgid EXCEPT ![c] = NextId]
    BY <1>1 DEF Emplace, IdsInOrder
  <2>2. \A i \in MsgIds : (\E d \in Calls : msgid[d] = i) => \E d \in Calls : msgid'[d] = i
    BY <2>1
  <2>3. \A i \in MsgIds : i = NextId \/ requests'[i] = requests[i]
    BY <1>1 DEF Emplace, NextId
  <2>4. msgid'[c] = NextId
    BY <2>1
  <2>5. QED
    BY <2>2, <2>3, <2>4 DEF KnownIds
<1>2. ASSUME NEW c \in Calls, Send(c) PROVE KnownIds'
  BY <1>2 DEF Send, KnownIds, NextId
<1>3. ASSUME NEW c \in Calls, Flush(c) PROVE KnownIds'
  BY <1>3 DEF Flush, KnownIds, NextId
<1>4. ASSUME NEW c \in Calls, Withdraw(c) PROVE KnownIds'
  BY <1>4 DEF Withdraw, KnownIds, NextId
<1>5. ASSUME NEW c \in Calls, Wait(c) PROVE KnownIds'
  BY <1>5 DEF Wait, KnownIds, NextId
<1>6. ASSUME NEW c \in Calls, Wake(c) PROVE KnownIds'
  BY <1>6 DEF Wake, KnownIds, NextId
<1>7. ASSUME NEW c \in Calls, Timeout(c) PROVE KnownIds'
  BY <1>7 DEF Timeout, KnownIds, NextId
<1>8. ASSUME NEW c \in Calls, AbortTake(c) PROVE KnownIds'
  BY <1>8 DEF AbortTake, KnownIds, NextId
<1>9. ASSUME NEW c \in Calls, AbortCall(c) PROVE KnownIds'
  BY <1>9 DEF AbortCall, KnownIds, NextId
<1>10. ASSUME NEW c \in Calls, AbortNotify(c) PROVE KnownIds'
  BY <1>10 DEF AbortNotify, KnownIds, NextId
<1>11. ASSUME NEW c \in Calls, AbortRelease(c) PROVE KnownIds'
  BY <1>11 DEF AbortRelease, KnownIds, NextId
<1>12. ASSUME NEW t \in Threads, CloseConn(t) PROVE KnownIds'
  BY <1>12 DEF CloseConn, KnownIds, NextId
<1>13. ASSUME NEW t \in Threads, Flip(t) PROVE KnownIds'
  BY <1>13 DEF Flip, AfterExpire, KnownIds, NextId
<1>14. ASSUME NEW t \in Threads, Sweep(t) PROVE KnownIds'
  BY <1>14 DEF Sweep, AfterExpire, KnownIds, NextId
<1>15. ASSUME NEW t \in Closers, Close(t) PROVE KnownIds'
  BY <1>15 DEF Close, KnownIds, NextId
<1>16. ASSUME NEW t \in Closers, CloseLock(t) PROVE KnownIds'
  BY <1>16 DEF CloseLock, KnownIds, NextId
<1>17. ASSUME NEW t \in Notifiers, Notify(t) PROVE KnownIds'
  BY <1>17 DEF Notify, KnownIds, NextId
<1>18. ASSUME NEW w \in Workers, TakeReceive(w) PROVE KnownIds'
  BY <1>18 DEF TakeReceive, KnownIds, NextId
<1>19. ASSUME NEW w \in Workers, ReadLock(w) PROVE KnownIds'
  BY <1>19 DEF ReadLock, KnownIds, NextId
<1>20. ASSUME NEW w \in Workers, ReadHead(w) PROVE KnownIds'
  BY <1>20 DEF ReadHead, KnownIds, NextId
<1>21. ASSUME NEW w \in Workers, ReadFind(w) PROVE KnownIds'
  BY <1>21 DEF ReadFind, KnownIds, NextId
<1>22. ASSUME NEW w \in Workers, ReadBody(w) PROVE KnownIds'
  BY <1>22 DEF ReadBody, KnownIds, NextId
<1>23. ASSUME NEW w \in Workers, ReadCut(w) PROVE KnownIds'
  BY <1>23 DEF ReadCut, KnownIds, NextId
<1>24. ASSUME NEW w \in Workers, Rearm(w) PROVE KnownIds'
  BY <1>24 DEF Rearm, KnownIds, NextId
<1>25. ASSUME NEW w \in Workers, TakeReply(w) PROVE KnownIds'
  BY <1>25 DEF TakeReply, KnownIds, NextId
<1>26. ASSUME NEW w \in Workers, ReplyTake(w) PROVE KnownIds'
  BY <1>26 DEF ReplyTake, KnownIds, NextId
<1>27. ASSUME NEW w \in Workers, ReplyCall(w) PROVE KnownIds'
  BY <1>27 DEF ReplyCall, KnownIds, NextId
<1>28. ASSUME NEW w \in Workers, ReplyErase(w) PROVE KnownIds'
  BY <1>28 DEF ReplyErase, KnownIds, NextId
<1>29. ASSUME NEW w \in Workers, RunAbort(w) PROVE KnownIds'
  BY <1>29 DEF RunAbort, KnownIds, NextId
<1>30. ASSUME NEW w \in Workers, TellMonitor(w) PROVE KnownIds'
  BY <1>30 DEF TellMonitor, KnownIds, NextId
<1>31. CASE Peer
  BY <1>31 DEF Peer, Deliver, DeliverRest, HangUp, KnownIds, NextId
<1>32. CASE UNCHANGED vars
  BY <1>32 DEF vars, KnownIds, NextId
<1>33. QED
  BY <1>1, <1>2, <1>3, <1>4, <1>5, <1>6, <1>7, <1>8, <1>9, <1>10, <1>11,
     <1>12, <1>13, <1>14, <1>15, <1>16, <1>17, <1>18, <1>19, <1>20, <1>21,
     <1>22, <1>23, <1>24, <1>25, <1>26, <1>27, <1>28, <1>29, <1>30, <1>31,
     <1>32
  DEF Next, Caller, CallerStep, WorkerStep, CloserStep, Expire

\* abort_request takes the node of its own call, under an id other than zero.
LEMMA CallsInOrderKept ==
    TypeOK /\ IdsInOrder /\ Filed /\ CallsInOrder /\ [Next]_vars => CallsInOrder'
<1> USE ThreadsAssumption, SentinelsAssumption, MaxMsgIdAssumption
    DEF TypeOK, SessionTypeOK, PostedTypeOK, ThreadsTypeOK, CallsTypeOK, PeerTypeOK
<1> SUFFICES ASSUME TypeOK, IdsInOrder, Filed, CallsInOrder, [Next]_vars PROVE CallsInOrder'
  OBVIOUS
<1>1. ASSUME NEW c \in Calls, Emplace(c) PROVE CallsInOrder'
  BY <1>1 DEF Emplace, CallsInOrder, NextId
<1>2. ASSUME NEW c \in Calls, Send(c) PROVE CallsInOrder'
  BY <1>2 DEF Send, CallsInOrder, NextId
<1>3. ASSUME NEW c \in Calls, Flush(c) PROVE CallsInOrder'
  BY <1>3 DEF Flush, CallsInOrder, NextId
<1>4. ASSUME NEW c \in Calls, Withdraw(c) PROVE CallsInOrder'
  BY <1>4 DEF Withdraw, CallsInOrder, NextId
<1>5. ASSUME NEW c \in Calls, Wait(c) PROVE CallsInOrder'
  BY <1>5 DEF Wait, CallsInOrder, NextId
<1>6. ASSUME NEW c \in Calls, Wake(c) PROVE CallsInOrder'
  BY <1>6 DEF Wake, CallsInOrder, NextId
<1>7. ASSUME NEW c \in Calls, Timeout(c) PROVE CallsInOrder'
  BY <1>7 DEF Timeout, CallsInOrder, NextId
<1>8. ASSUME NEW c \in Calls, AbortTake(c) PROVE CallsInOrder'
  <2>1. node' = node \/ node' = [node EXCEPT ![c] = c]
    <3>1. CASE Entry(msgid[c]) \in {None, Moved}
      BY <1>8, <3>1 DEF AbortTake
    <3>2. CASE Entry(msgid[c]) \notin {None, Moved}
      <4>1. msgid[c] \in MsgIds /\ requests[msgid[c]] \in Calls
        BY <3>2
      <4>2. requests[msgid[c]] = c
        BY <4>1 DEF Filed, IdsInOrder, UniqueIds
      <4>3. QED
        BY <1>8, <3>2, <4>2 DEF AbortTake
    <3>3. QED
      BY <3>1, <3>2
  <2>2. pc[c] = "abort" /\ UNCHANGED <<msgid, sent>>
    BY <1>8 DEF AbortTake
  <2>3. pc' = [pc EXCEPT ![c] = "done"] \/ pc' = [pc EXCEPT ![c] = "abort_call"]
    BY <1>8 DEF AbortTake
  <2>4. QED
    BY <2>1, <2>2, <2>3 DEF CallsInOrder
<1>9. ASSUME NEW c \in Calls, AbortCall(c) PROVE CallsInOrder'
  BY <1>9 DEF AbortCall, CallsInOrder, NextId
<1>10. ASSUME NEW c \in Calls, AbortNotify(c) PROVE CallsInOrder'
  BY <1>10 DEF AbortNotify, CallsInOrder, NextId
<1>11. ASSUME NEW c \in Calls, AbortRelease(c) PROVE CallsInOrder'
  BY <1>11 DEF AbortRelease, CallsInOrder, NextId
<1>12. ASSUME NEW t \in Threads, CloseConn(t) PROVE CallsInOrder'
  BY <1>12 DEF CloseConn, CallsInOrder, NextId
<1>13. ASSUME NEW t \in Threads, Flip(t) PROVE CallsInOrder'
  BY <1>13 DEF Flip, AfterExpire, CallsInOrder, NextId
<1>14. ASSUME NEW t \in Threads, Sweep(t) PROVE CallsInOrder'
  BY <1>14 DEF Sweep, AfterExpire, CallsInOrder, NextId
<1>15. ASSUME NEW t \in Closers, Close(t) PROVE CallsInOrder'
  BY <1>15 DEF Close, CallsInOrder, NextId
<1>16. ASSUME NEW t \in Closers, CloseLock(t) PROVE CallsInOrder'
  BY <1>16 DEF CloseLock, CallsInOrder, NextId
<1>17. ASSUME NEW t \in Notifiers, Notify(t) PROVE CallsInOrder'
  BY <1>17 DEF Notify, CallsInOrder, NextId
<1>18. ASSUME NEW w \in Workers, TakeReceive(w) PROVE CallsInOrder'
  BY <1>18 DEF TakeReceive, CallsInOrder, NextId
<1>19. ASSUME NEW w \in Workers, ReadLock(w) PROVE CallsInOrder'
  BY <1>19 DEF ReadLock, CallsInOrder, NextId
<1>20. ASSUME NEW w \in Workers, ReadHead(w) PROVE CallsInOrder'
  BY <1>20 DEF ReadHead, CallsInOrder, NextId
<1>21. ASSUME NEW w \in Workers, ReadFind(w) PROVE CallsInOrder'
  BY <1>21 DEF ReadFind, CallsInOrder, NextId
<1>22. ASSUME NEW w \in Workers, ReadBody(w) PROVE CallsInOrder'
  BY <1>22 DEF ReadBody, CallsInOrder, NextId
<1>23. ASSUME NEW w \in Workers, ReadCut(w) PROVE CallsInOrder'
  BY <1>23 DEF ReadCut, CallsInOrder, NextId
<1>24. ASSUME NEW w \in Workers, Rearm(w) PROVE CallsInOrder'
  BY <1>24 DEF Rearm, CallsInOrder, NextId
<1>25. ASSUME NEW w \in Workers, TakeReply(w) PROVE CallsInOrder'
  BY <1>25 DEF TakeReply, CallsInOrder, NextId
<1>26. ASSUME NEW w \in Workers, ReplyTake(w) PROVE CallsInOrder'
  BY <1>26 DEF ReplyTake, CallsInOrder, NextId
<1>27. ASSUME NEW w \in Workers, ReplyCall(w) PROVE CallsInOrder'
  BY <1>27 DEF ReplyCall, CallsInOrder, NextId
<1>28. ASSUME NEW w \in Workers, ReplyErase(w) PROVE CallsInOrder'
  BY <1>28 DEF ReplyErase, CallsInOrder, NextId
<1>29. ASSUME NEW w \in Workers, RunAbort(w) PROVE CallsInOrder'
  BY <1>29 DEF RunAbort, CallsInOrder, NextId
<1>30. ASSUME NEW w \in Workers, TellMonitor(w) PROVE CallsInOrder'
  BY <1>30 DEF TellMonitor, CallsInOrder, NextId
<1>31. CASE Peer
  BY <1>31 DEF Peer, Deliver, DeliverRest, HangUp, CallsInOrder, NextId
<1>32. CASE UNCHANGED vars
  BY <1>32 DEF vars, CallsInOrder, NextId
<1>33. QED
  BY <1>1, <1>2, <1>3, <1>4, <1>5, <1>6, <1>7, <1>8, <1>9, <1>10, <1>11,
     <1>12, <1>13, <1>14, <1>15, <1>16, <1>17, <1>18, <1>19, <1>20, <1>21,
     <1>22, <1>23, <1>24, <1>25, <1>26, <1>27, <1>28, <1>29, <1>30, <1>31,
     <1>32
  DEF Next, Caller, CallerStep, WorkerStep, CloserStep, Expire

\* What is read, posted and handled are replies that the peer sent.
LEMMA AnswersKnownKept == TypeOK /\ AnswersKnown /\ [Next]_vars => AnswersKnown'
<1> USE ThreadsAssumption, SentinelsAssumption, MaxMsgIdAssumption
    DEF TypeOK, SessionTypeOK, PostedTypeOK, ThreadsTypeOK, CallsTypeOK, PeerTypeOK
<1> SUFFICES ASSUME TypeOK, AnswersKnown, [Next]_vars PROVE AnswersKnown'
  OBVIOUS
<1>1. ASSUME NEW c \in Calls, Emplace(c) PROVE AnswersKnown'
  BY <1>1 DEF Emplace, AnswersKnown
<1>2. ASSUME NEW c \in Calls, Send(c) PROVE AnswersKnown'
  BY <1>2 DEF Send, AnswersKnown
<1>3. ASSUME NEW c \in Calls, Flush(c) PROVE AnswersKnown'
  BY <1>3 DEF Flush, AnswersKnown
<1>4. ASSUME NEW c \in Calls, Withdraw(c) PROVE AnswersKnown'
  BY <1>4 DEF Withdraw, AnswersKnown
<1>5. ASSUME NEW c \in Calls, Wait(c) PROVE AnswersKnown'
  BY <1>5 DEF Wait, AnswersKnown
<1>6. ASSUME NEW c \in Calls, Wake(c) PROVE AnswersKnown'
  BY <1>6 DEF Wake, AnswersKnown
<1>7. ASSUME NEW c \in Calls, Timeout(c) PROVE AnswersKnown'
  BY <1>7 DEF Timeout, AnswersKnown
<1>8. ASSUME NEW c \in Calls, AbortTake(c) PROVE AnswersKnown'
  BY <1>8 DEF AbortTake, AnswersKnown
<1>9. ASSUME NEW c \in Calls, AbortCall(c) PROVE AnswersKnown'
  BY <1>9 DEF AbortCall, AnswersKnown
<1>10. ASSUME NEW c \in Calls, AbortNotify(c) PROVE AnswersKnown'
  BY <1>10 DEF AbortNotify, AnswersKnown
<1>11. ASSUME NEW c \in Calls, AbortRelease(c) PROVE AnswersKnown'
  BY <1>11 DEF AbortRelease, AnswersKnown
<1>12. ASSUME NEW t \in Threads, CloseConn(t) PROVE AnswersKnown'
  BY <1>12 DEF CloseConn, AnswersKnown
<1>13. ASSUME NEW t \in Threads, Flip(t) PROVE AnswersKnown'
  BY <1>13 DEF Flip, AfterExpire, AnswersKnown
<1>14. ASSUME NEW t \in Threads, Sweep(t) PROVE AnswersKnown'
  BY <1>14 DEF Sweep, AfterExpire, AnswersKnown
<1>15. ASSUME NEW t \in Closers, Close(t) PROVE AnswersKnown'
  BY <1>15 DEF Close, AnswersKnown
<1>16. ASSUME NEW t \in Closers, CloseLock(t) PROVE AnswersKnown'
  BY <1>16 DEF CloseLock, AnswersKnown
<1>17. ASSUME NEW t \in Notifiers, Notify(t) PROVE AnswersKnown'
  BY <1>17 DEF Notify, AnswersKnown
<1>18. ASSUME NEW w \in Workers, TakeReceive(w) PROVE AnswersKnown'
  BY <1>18 DEF TakeReceive, AnswersKnown
<1>19. ASSUME NEW w \in Workers, ReadLock(w) PROVE AnswersKnown'
  BY <1>19 DEF ReadLock, AnswersKnown
<1>20. ASSUME NEW w \in Workers, ReadHead(w) PROVE AnswersKnown'
  BY <1>20 DEF ReadHead, AnswersKnown
<1>21. ASSUME NEW w \in Workers, ReadFind(w) PROVE AnswersKnown'
  BY <1>21 DEF ReadFind, AnswersKnown
<1>22. ASSUME NEW w \in Workers, ReadBody(w) PROVE AnswersKnown'
  BY <1>22 DEF ReadBody, AnswersKnown
<1>23. ASSUME NEW w \in Workers, ReadCut(w) PROVE AnswersKnown'
  BY <1>23 DEF ReadCut, AnswersKnown
<1>24. ASSUME NEW w \in Workers, Rearm(w) PROVE AnswersKnown'
  BY <1>24 DEF Rearm, AnswersKnown
<1>25. ASSUME NEW w \in Workers, TakeReply(w) PROVE AnswersKnown'
  BY <1>25 DEF TakeReply, AnswersKnown
<1>26. ASSUME NEW w \in Workers, ReplyTake(w) PROVE AnswersKnown'
  BY <1>26 DEF ReplyTake, AnswersKnown
<1>27. ASSUME NEW w \in Workers, ReplyCall(w) PROVE AnswersKnown'
  BY <1>27 DEF ReplyCall, AnswersKnown
<1>28. ASSUME NEW w \in Workers, ReplyErase(w) PROVE AnswersKnown'
  BY <1>28 DEF ReplyErase, AnswersKnown
<1>29. ASSUME NEW w \in Workers, RunAbort(w) PROVE AnswersKnown'
  BY <1>29 DEF RunAbort, AnswersKnown
<1>30. ASSUME NEW w \in Workers, TellMonitor(w) PROVE AnswersKnown'
  BY <1>30 DEF TellMonitor, AnswersKnown
<1>31. CASE Peer
  BY <1>31 DEF Peer, Deliver, DeliverRest, HangUp, AnswersKnown
<1>32. CASE UNCHANGED vars
  BY <1>32 DEF vars, AnswersKnown
<1>33. QED
  BY <1>1, <1>2, <1>3, <1>4, <1>5, <1>6, <1>7, <1>8, <1>9, <1>10, <1>11,
     <1>12, <1>13, <1>14, <1>15, <1>16, <1>17, <1>18, <1>19, <1>20, <1>21,
     <1>22, <1>23, <1>24, <1>25, <1>26, <1>27, <1>28, <1>29, <1>30, <1>31,
     <1>32
  DEF Next, Caller, CallerStep, WorkerStep, CloserStep, Expire

\* _handle_reply invokes the handler of the call whose reply was read.
LEMMA WorkersInOrderKept ==
    TypeOK /\ IdsInOrder /\ Filed /\ WorkersInOrder /\ [Next]_vars => WorkersInOrder'
<1> USE ThreadsAssumption, SentinelsAssumption, MaxMsgIdAssumption
    DEF TypeOK, SessionTypeOK, PostedTypeOK, ThreadsTypeOK, CallsTypeOK, PeerTypeOK
<1> SUFFICES ASSUME TypeOK, IdsInOrder, Filed, WorkersInOrder, [Next]_vars
             PROVE  WorkersInOrder'
  OBVIOUS
<1>1. ASSUME NEW c \in Calls, Emplace(c) PROVE WorkersInOrder'
  BY <1>1 DEF Emplace, WorkersInOrder
<1>2. ASSUME NEW c \in Calls, Send(c) PROVE WorkersInOrder'
  BY <1>2 DEF Send, WorkersInOrder
<1>3. ASSUME NEW c \in Calls, Flush(c) PROVE WorkersInOrder'
  BY <1>3 DEF Flush, WorkersInOrder
<1>4. ASSUME NEW c \in Calls, Withdraw(c) PROVE WorkersInOrder'
  BY <1>4 DEF Withdraw, WorkersInOrder
<1>5. ASSUME NEW c \in Calls, Wait(c) PROVE WorkersInOrder'
  BY <1>5 DEF Wait, WorkersInOrder
<1>6. ASSUME NEW c \in Calls, Wake(c) PROVE WorkersInOrder'
  BY <1>6 DEF Wake, WorkersInOrder
<1>7. ASSUME NEW c \in Calls, Timeout(c) PROVE WorkersInOrder'
  BY <1>7 DEF Timeout, WorkersInOrder
<1>8. ASSUME NEW c \in Calls, AbortTake(c) PROVE WorkersInOrder'
  BY <1>8 DEF AbortTake, WorkersInOrder
<1>9. ASSUME NEW c \in Calls, AbortCall(c) PROVE WorkersInOrder'
  BY <1>9 DEF AbortCall, WorkersInOrder
<1>10. ASSUME NEW c \in Calls, AbortNotify(c) PROVE WorkersInOrder'
  BY <1>10 DEF AbortNotify, WorkersInOrder
<1>11. ASSUME NEW c \in Calls, AbortRelease(c) PROVE WorkersInOrder'
  BY <1>11 DEF AbortRelease, WorkersInOrder
<1>12. ASSUME NEW t \in Threads, CloseConn(t) PROVE WorkersInOrder'
  BY <1>12 DEF CloseConn, WorkersInOrder
<1>13. ASSUME NEW t \in Threads, Flip(t) PROVE WorkersInOrder'
  BY <1>13 DEF Flip, AfterExpire, WorkersInOrder
<1>14. ASSUME NEW t \in Threads, Sweep(t) PROVE WorkersInOrder'
  BY <1>14 DEF Sweep, AfterExpire, WorkersInOrder
<1>15. ASSUME NEW t \in Closers, Close(t) PROVE WorkersInOrder'
  BY <1>15 DEF Close, WorkersInOrder
<1>16. ASSUME NEW t \in Closers, CloseLock(t) PROVE WorkersInOrder'
  BY <1>16 DEF CloseLock, WorkersInOrder
<1>17. ASSUME NEW t \in Notifiers, Notify(t) PROVE WorkersInOrder'
  BY <1>17 DEF Notify, WorkersInOrder
<1>18. ASSUME NEW w \in Workers, TakeReceive(w) PROVE WorkersInOrder'
  BY <1>18 DEF TakeReceive, WorkersInOrder
<1>19. ASSUME NEW w \in Workers, ReadLock(w) PROVE WorkersInOrder'
  BY <1>19 DEF ReadLock, WorkersInOrder
<1>20. ASSUME NEW w \in Workers, ReadHead(w) PROVE WorkersInOrder'
  BY <1>20 DEF ReadHead, WorkersInOrder
<1>21. ASSUME NEW w \in Workers, ReadFind(w) PROVE WorkersInOrder'
  BY <1>21 DEF ReadFind, WorkersInOrder
<1>22. ASSUME NEW w \in Workers, ReadBody(w) PROVE WorkersInOrder'
  BY <1>22 DEF ReadBody, WorkersInOrder
<1>23. ASSUME NEW w \in Workers, ReadCut(w) PROVE WorkersInOrder'
  BY <1>23 DEF ReadCut, WorkersInOrder
<1>24. ASSUME NEW w \in Workers, Rearm(w) PROVE WorkersInOrder'
  BY <1>24 DEF Rearm, WorkersInOrder
<1>25. ASSUME NEW w \in Workers, TakeReply(w) PROVE WorkersInOrder'
  BY <1>25 DEF TakeReply, WorkersInOrder
<1>26. ASSUME NEW w \in Workers, ReplyTake(w) PROVE WorkersInOrder'
  <2> DEFINE i == msgid[job[w]]
  <2>1. pc[w] = "reply" /\ job[w] \in Calls /\ UNCHANGED fired
    BY <1>26 DEF ReplyTake, WorkersInOrder
  <2>2. CASE Entry(i) \in {None, Moved}
    BY <1>26, <2>1, <2>2 DEF ReplyTake, WorkersInOrder
  <2>3. CASE Entry(i) \notin {None, Moved}
    <3>1. i \in MsgIds /\ requests[i] \in Calls
      BY <2>3
    <3>2. requests[i] = job[w]
      BY <2>1, <3>1 DEF Filed, IdsInOrder, UniqueIds
    <3>3. /\ node' = [node EXCEPT ![w] = job[w]] /\ UNCHANGED job
          /\ pc' = [pc EXCEPT ![w] = "handler"]
      BY <1>26, <2>3, <3>2 DEF ReplyTake
    <3>4. QED
      BY <2>1, <3>3 DEF WorkersInOrder
  <2>4. QED
    BY <2>2, <2>3
<1>27. ASSUME NEW w \in Workers, ReplyCall(w) PROVE WorkersInOrder'
  BY <1>27 DEF ReplyCall, WorkersInOrder
<1>28. ASSUME NEW w \in Workers, ReplyErase(w) PROVE WorkersInOrder'
  BY <1>28 DEF ReplyErase, WorkersInOrder
<1>29. ASSUME NEW w \in Workers, RunAbort(w) PROVE WorkersInOrder'
  <2>1. UNCHANGED <<pc, node, job>>
    BY <1>29 DEF RunAbort
  <2>2. PICK n \in Calls \union {Moved} :
          IF n = Moved THEN UNCHANGED fired ELSE fired' = [fired EXCEPT ![n] = fired[n] + 1]
    BY <1>29 DEF RunAbort
  <2>3. ASSUME NEW c \in Calls, fired[c] > 0 PROVE fired'[c] > 0
    <3>1. CASE c = n
      BY <2>2, <2>3, <3>1
    <3>2. CASE c # n
      BY <2>2, <2>3, <3>2
    <3>3. QED
      BY <3>1, <3>2
  <2>4. QED
    BY <2>1, <2>3 DEF WorkersInOrder
<1>30. ASSUME NEW w \in Workers, TellMonitor(w) PROVE WorkersInOrder'
  BY <1>30 DEF TellMonitor, WorkersInOrder
<1>31. CASE Peer
  BY <1>31 DEF Peer, Deliver, DeliverRest, HangUp, WorkersInOrder
<1>32. CASE UNCHANGED vars
  BY <1>32 DEF vars, WorkersInOrder
<1>33. QED
  BY <1>1, <1>2, <1>3, <1>4, <1>5, <1>6, <1>7, <1>8, <1>9, <1>10, <1>11,
     <1>12, <1>13, <1>14, <1>15, <1>16, <1>17, <1>18, <1>19, <1>20, <1>21,
     <1>22, <1>23, <1>24, <1>25, <1>26, <1>27, <1>28, <1>29, <1>30, <1>31,
     <1>32
  DEF Next, Caller, CallerStep, WorkerStep, CloserStep, Expire

\* Only an expired session has abort completions.
LEMMA AbortsAfterExpiryKept ==
    TypeOK /\ AbortsAfterExpiry /\ [Next]_vars => AbortsAfterExpiry'
<1> USE ThreadsAssumption, SentinelsAssumption, MaxMsgIdAssumption
    DEF TypeOK, SessionTypeOK, PostedTypeOK, ThreadsTypeOK, CallsTypeOK, PeerTypeOK
<1> SUFFICES ASSUME TypeOK, AbortsAfterExpiry, [Next]_vars PROVE AbortsAfterExpiry'
  OBVIOUS
<1>1. ASSUME NEW c \in Calls, Emplace(c) PROVE AbortsAfterExpiry'
  BY <1>1 DEF Emplace, AbortsAfterExpiry
<1>2. ASSUME NEW c \in Calls, Send(c) PROVE AbortsAfterExpiry'
  BY <1>2 DEF Send, AbortsAfterExpiry
<1>3. ASSUME NEW c \in Calls, Flush(c) PROVE AbortsAfterExpiry'
  BY <1>3 DEF Flush, AbortsAfterExpiry
<1>4. ASSUME NEW c \in Calls, Withdraw(c) PROVE AbortsAfterExpiry'
  BY <1>4 DEF Withdraw, AbortsAfterExpiry
<1>5. ASSUME NEW c \in Calls, Wait(c) PROVE AbortsAfterExpiry'
  BY <1>5 DEF Wait, AbortsAfterExpiry
<1>6. ASSUME NEW c \in Calls, Wake(c) PROVE AbortsAfterExpiry'
  BY <1>6 DEF Wake, AbortsAfterExpiry
<1>7. ASSUME NEW c \in Calls, Timeout(c) PROVE AbortsAfterExpiry'
  BY <1>7 DEF Timeout, AbortsAfterExpiry
<1>8. ASSUME NEW c \in Calls, AbortTake(c) PROVE AbortsAfterExpiry'
  BY <1>8 DEF AbortTake, AbortsAfterExpiry
<1>9. ASSUME NEW c \in Calls, AbortCall(c) PROVE AbortsAfterExpiry'
  BY <1>9 DEF AbortCall, AbortsAfterExpiry
<1>10. ASSUME NEW c \in Calls, AbortNotify(c) PROVE AbortsAfterExpiry'
  BY <1>10 DEF AbortNotify, AbortsAfterExpiry
<1>11. ASSUME NEW c \in Calls, AbortRelease(c) PROVE AbortsAfterExpiry'
  BY <1>11 DEF AbortRelease, AbortsAfterExpiry
<1>12. ASSUME NEW t \in Threads, CloseConn(t) PROVE AbortsAfterExpiry'
  BY <1>12 DEF CloseConn, AbortsAfterExpiry
<1>13. ASSUME NEW t \in Threads, Flip(t) PROVE AbortsAfterExpiry'
  BY <1>13 DEF Flip, AfterExpire, AbortsAfterExpiry
<1>14. ASSUME NEW t \in Threads, Sweep(t) PROVE AbortsAfterExpiry'
  BY <1>14 DEF Sweep, AfterExpire, AbortsAfterExpiry
<1>15. ASSUME NEW t \in Closers, Close(t) PROVE AbortsAfterExpiry'
  BY <1>15 DEF Close, AbortsAfterExpiry
<1>16. ASSUME NEW t \in Closers, CloseLock(t) PROVE AbortsAfterExpiry'
  BY <1>16 DEF CloseLock, AbortsAfterExpiry
<1>17. ASSUME NEW t \in Notifiers, Notify(t) PROVE AbortsAfterExpiry'
  BY <1>17 DEF Notify, AbortsAfterExpiry
<1>18. ASSUME NEW w \in Workers, TakeReceive(w) PROVE AbortsAfterExpiry'
  BY <1>18 DEF TakeReceive, AbortsAfterExpiry
<1>19. ASSUME NEW w \in Workers, ReadLock(w) PROVE AbortsAfterExpiry'
  BY <1>19 DEF ReadLock, AbortsAfterExpiry
<1>20. ASSUME NEW w \in Workers, ReadHead(w) PROVE AbortsAfterExpiry'
  BY <1>20 DEF ReadHead, AbortsAfterExpiry
<1>21. ASSUME NEW w \in Workers, ReadFind(w) PROVE AbortsAfterExpiry'
  BY <1>21 DEF ReadFind, AbortsAfterExpiry
<1>22. ASSUME NEW w \in Workers, ReadBody(w) PROVE AbortsAfterExpiry'
  BY <1>22 DEF ReadBody, AbortsAfterExpiry
<1>23. ASSUME NEW w \in Workers, ReadCut(w) PROVE AbortsAfterExpiry'
  BY <1>23 DEF ReadCut, AbortsAfterExpiry
<1>24. ASSUME NEW w \in Workers, Rearm(w) PROVE AbortsAfterExpiry'
  BY <1>24 DEF Rearm, AbortsAfterExpiry
<1>25. ASSUME NEW w \in Workers, TakeReply(w) PROVE AbortsAfterExpiry'
  BY <1>25 DEF TakeReply, AbortsAfterExpiry
<1>26. ASSUME NEW w \in Workers, ReplyTake(w) PROVE AbortsAfterExpiry'
  BY <1>26 DEF ReplyTake, AbortsAfterExpiry
<1>27. ASSUME NEW w \in Workers, ReplyCall(w) PROVE AbortsAfterExpiry'
  BY <1>27 DEF ReplyCall, AbortsAfterExpiry
<1>28. ASSUME NEW w \in Workers, ReplyErase(w) PROVE AbortsAfterExpiry'
  BY <1>28 DEF ReplyErase, AbortsAfterExpiry
<1>29. ASSUME NEW w \in Workers, RunAbort(w) PROVE AbortsAfterExpiry'
  BY <1>29 DEF RunAbort, AbortsAfterExpiry
<1>30. ASSUME NEW w \in Workers, TellMonitor(w) PROVE AbortsAfterExpiry'
  BY <1>30 DEF TellMonitor, AbortsAfterExpiry
<1>31. CASE Peer
  BY <1>31 DEF Peer, Deliver, DeliverRest, HangUp, AbortsAfterExpiry
<1>32. CASE UNCHANGED vars
  BY <1>32 DEF vars, AbortsAfterExpiry
<1>33. QED
  BY <1>1, <1>2, <1>3, <1>4, <1>5, <1>6, <1>7, <1>8, <1>9, <1>10, <1>11,
     <1>12, <1>13, <1>14, <1>15, <1>16, <1>17, <1>18, <1>19, <1>20, <1>21,
     <1>22, <1>23, <1>24, <1>25, <1>26, <1>27, <1>28, <1>29, <1>30, <1>31,
     <1>32
  DEF Next, Caller, CallerStep, WorkerStep, CloserStep, Expire

Bookkeeping ==
    IdsInOrder /\ KnownIds /\ CallsInOrder /\ AnswersKnown /\ WorkersInOrder
        /\ AbortsAfterExpiry

\* All of this holds always, when ids are not used twice.
LEMMA BookkeepingInvariant == FewCalls => (Spec => []Bookkeeping)
<1> SUFFICES ASSUME FewCalls PROVE Spec => []Bookkeeping
  OBVIOUS
<1>1. Init => Bookkeeping
  <2>1. Init => Issued = {}
    BY DEF Init, Issued
  <2>2. Cardinality({}) = 0
    BY FS_EmptySet
  <2>3. Init => IdsInOrder
    <3>1. SUFFICES ASSUME Init PROVE IdsInOrder
      OBVIOUS
    <3>2. Cardinality(Issued) = 0
      BY <2>1, <2>2, <3>1
    <3>3. idgen = 0 /\ \A c \in Calls : msgid[c] = 0
      BY <3>1 DEF Init
    <3>4. QED
      BY <3>2, <3>3 DEF IdsInOrder, UniqueIds
  <2>4. QED
    BY <2>3, SentinelsAssumption DEF Init, Bookkeeping, KnownIds, CallsInOrder,
       AnswersKnown, WorkersInOrder, AbortsAfterExpiry
<1>2. TypeOK /\ Filed /\ Bookkeeping /\ [Next]_vars => Bookkeeping'
  BY IdsKept, KnownIdsKept, CallsInOrderKept, AnswersKnownKept, WorkersInOrderKept,
     AbortsAfterExpiryKept
  DEF Bookkeeping
<1>3. QED
  BY <1>1, <1>2, TypeCorrect, FiledInvariant, PTL DEF Spec

-----------------------------------------------------------------------------
(* Refinement.  Most steps leave the status of every call alone; the others  *)
(* change the status of one call as RpcCompletion allows.                    *)

Related == TypeOK /\ Ownership /\ Filed /\ Bookkeeping

SameStatus(c) == Status(c)' = Status(c)

\* The status of a call follows from its completion and from what the model says of it.
LEMMA StatusFrame ==
    ASSUME NEW c \in Calls, fired'[c] = fired[c], outcome'[c] = outcome[c],
           pc'[c] = "idle" <=> pc[c] = "idle",
           Located(c)' <=> Located(c),
           Accepted(c)' <=> Accepted(c)
    PROVE  SameStatus(c)
BY DEF SameStatus, Status

\* A step after which all calls are as before is a stutter of the contract.
LEMMA Stutters ==
    ASSUME \A c \in Calls : SameStatus(c), UNCHANGED <<answer, valid>>
    PROVE  UNCHANGED Contract!vars
BY DEF SameStatus, Contract!vars

\* A step that changes the status of one call moves that call.
LEMMA Moves ==
    ASSUME NEW c \in Calls, NEW from, NEW to, Status(c) \in from, Status(c)' = to,
           \A d \in Calls \ {c} : SameStatus(d), UNCHANGED <<answer, valid>>
    PROVE  Contract!Move(c, from, to)
<1>1. [d \in Calls |-> Status(d)]' = [[d \in Calls |-> Status(d)] EXCEPT ![c] = to]
  BY DEF SameStatus
<1>2. QED
  BY <1>1 DEF Contract!Move

\* Steps that move no node, complete nothing and accept nothing.
LEMMA QuietFrame ==
    ASSUME Related, UNCHANGED <<requests, node, aborts, fired, outcome, answer, valid, msgid>>,
           \A c \in Calls : /\ pc'[c] = "idle" <=> pc[c] = "idle"
                            /\ Accepted(c)' <=> Accepted(c)
    PROVE  UNCHANGED Contract!vars
<1>1. \A c \in Calls : Located(c)' <=> Located(c)
  BY DEF Located, InTable, Held
<1>2. \A c \in Calls : SameStatus(c)
  BY <1>1, StatusFrame
<1>3. QED
  BY <1>2, Stutters

\* Most of what threads and the network do is no step of the contract.
LEMMA QuietStepsStutter ==
    ASSUME Related,
           \/ DeliverRest \/ HangUp \/ UNCHANGED vars
           \/ \E c \in Calls : \/ Send(c) \/ Wait(c) \/ Wake(c) \/ Timeout(c)
                               \/ AbortNotify(c) \/ AbortRelease(c)
           \/ \E t \in Threads : CloseConn(t)
           \/ \E t \in Closers : Close(t) \/ CloseLock(t)
           \/ \E t \in Notifiers : Notify(t)
           \/ \E w \in Workers : \/ TakeReceive(w) \/ ReadLock(w) \/ ReadHead(w)
                                 \/ ReadFind(w) \/ ReadBody(w) \/ ReadCut(w) \/ Rearm(w)
                                 \/ TakeReply(w) \/ TellMonitor(w)
    PROVE  UNCHANGED Contract!vars
<1> USE ThreadsAssumption, QuietFrame
    DEF Related, TypeOK, ThreadsTypeOK, CallsTypeOK, Bookkeeping, CallsInOrder, Accepted
<1>1. ASSUME NEW c \in Calls, Send(c) PROVE UNCHANGED Contract!vars
  BY <1>1 DEF Send
<1>2. ASSUME NEW c \in Calls, Wait(c) PROVE UNCHANGED Contract!vars
  BY <1>2 DEF Wait
<1>3. ASSUME NEW c \in Calls, Wake(c) PROVE UNCHANGED Contract!vars
  BY <1>3 DEF Wake
<1>4. ASSUME NEW c \in Calls, Timeout(c) PROVE UNCHANGED Contract!vars
  BY <1>4 DEF Timeout
<1>5. ASSUME NEW c \in Calls, AbortNotify(c) PROVE UNCHANGED Contract!vars
  BY <1>5 DEF AbortNotify
<1>6. ASSUME NEW c \in Calls, AbortRelease(c) PROVE UNCHANGED Contract!vars
  BY <1>6 DEF AbortRelease
<1>7. ASSUME NEW t \in Threads, CloseConn(t) PROVE UNCHANGED Contract!vars
  BY <1>7 DEF CloseConn
<1>8. ASSUME NEW t \in Closers, Close(t) PROVE UNCHANGED Contract!vars
  BY <1>8 DEF Close
<1>9. ASSUME NEW t \in Closers, CloseLock(t) PROVE UNCHANGED Contract!vars
  BY <1>9 DEF CloseLock
<1>10. ASSUME NEW t \in Notifiers, Notify(t) PROVE UNCHANGED Contract!vars
  BY <1>10 DEF Notify
<1>11. ASSUME NEW w \in Workers, TakeReceive(w) PROVE UNCHANGED Contract!vars
  BY <1>11 DEF TakeReceive
<1>12. ASSUME NEW w \in Workers, ReadLock(w) PROVE UNCHANGED Contract!vars
  BY <1>12 DEF ReadLock
<1>13. ASSUME NEW w \in Workers, ReadHead(w) PROVE UNCHANGED Contract!vars
  BY <1>13 DEF ReadHead
<1>14. ASSUME NEW w \in Workers, ReadFind(w) PROVE UNCHANGED Contract!vars
  BY <1>14 DEF ReadFind
<1>15. ASSUME NEW w \in Workers, ReadBody(w) PROVE UNCHANGED Contract!vars
  BY <1>15 DEF ReadBody
<1>16. ASSUME NEW w \in Workers, ReadCut(w) PROVE UNCHANGED Contract!vars
  BY <1>16 DEF ReadCut
<1>17. ASSUME NEW w \in Workers, Rearm(w) PROVE UNCHANGED Contract!vars
  BY <1>17 DEF Rearm
<1>18. ASSUME NEW w \in Workers, TakeReply(w) PROVE UNCHANGED Contract!vars
  BY <1>18 DEF TakeReply
<1>19. ASSUME NEW w \in Workers, TellMonitor(w) PROVE UNCHANGED Contract!vars
  BY <1>19 DEF TellMonitor
<1>20. CASE DeliverRest \/ HangUp
  BY <1>20 DEF DeliverRest, HangUp
<1>21. CASE UNCHANGED vars
  BY <1>21 DEF vars
<1>22. QED
  BY <1>1, <1>2, <1>3, <1>4, <1>5, <1>6, <1>7, <1>8, <1>9, <1>10, <1>11, <1>12, <1>13,
     <1>14, <1>15, <1>16, <1>17, <1>18, <1>19, <1>20, <1>21

-----------------------------------------------------------------------------
(* The steps that move nodes or complete requests, one by one.               *)

\* async_request files the node of an idle call: the request is issued.
LEMMA EmplaceIssues ==
    ASSUME Related, FewCalls, NEW c \in Calls, Emplace(c)
    PROVE  Contract!Issue(c)
<1> USE ThreadsAssumption, MaxMsgIdAssumption, SentinelsAssumption
    DEF Related, TypeOK, SessionTypeOK, ThreadsTypeOK, CallsTypeOK
<1>1. NextId \in MsgIds
  BY DEF NextId
<1>2. requests[NextId] = None
  BY <1>1, EmplaceTakesNewId DEF Bookkeeping, KnownIds
<1>3. /\ UNCHANGED <<node, aborts, fired, outcome, answer, valid>>
      /\ pc' = [pc EXCEPT ![c] = "send"] /\ pc[c] = "idle"
      /\ msgid' = [msgid EXCEPT ![c] = NextId]
      /\ requests' = [requests EXCEPT ![NextId] = c]
  BY <1>2 DEF Emplace
<1>4. fired[c] = 0
  BY <1>3 DEF Ownership, OneOwner, OnePlace
<1>5. Status(c) = "idle"
  BY <1>3, <1>4 DEF Status
<1>6. InTable(c)'
  BY <1>1, <1>3 DEF InTable
<1>7. Status(c)' = "issued"
  BY <1>3, <1>4, <1>6 DEF Status, Located, Accepted
<1>8. ASSUME NEW d \in Calls \ {c} PROVE SameStatus(d)
  <2>1. InTable(d)' <=> InTable(d)
    BY <1>1, <1>2, <1>3 DEF InTable
  <2>2. Located(d)' <=> Located(d)
    BY <1>3, <2>1 DEF Located, Held
  <2>3. Accepted(d)' <=> Accepted(d)
    BY <1>3 DEF Accepted
  <2>4. QED
    BY <1>3, <2>2, <2>3, StatusFrame
<1>9. QED
  BY <1>3, <1>5, <1>7, <1>8, Moves DEF Contract!Issue

\* The handle is returned: a request that is not lost is accepted.
LEMMA FlushAccepts ==
    ASSUME Related, NEW c \in Calls, Flush(c)
    PROVE  Contract!Accept(c) \/ UNCHANGED Contract!vars
<1> USE ThreadsAssumption DEF Related, TypeOK, ThreadsTypeOK, CallsTypeOK
<1>1. /\ UNCHANGED <<requests, node, aborts, fired, outcome, answer, valid, msgid>>
      /\ pc[c] = "check"
      /\ pc' = [pc EXCEPT ![c] = "wait"] \/ pc' = [pc EXCEPT ![c] = "done"]
  BY DEF Flush
<1>2. \A d \in Calls : Located(d)' <=> Located(d)
  BY <1>1 DEF Located, InTable, Held
<1>3. \A d \in Calls \ {c} : SameStatus(d)
  BY <1>1, <1>2, StatusFrame DEF Accepted
<1>4. ~Accepted(c) /\ Accepted(c)'
  BY <1>1 DEF Accepted, Bookkeeping, CallsInOrder
<1>5. CASE fired[c] = 0 /\ Located(c)
  <2>1. Status(c) = "issued" /\ Status(c)' = "accepted"
    BY <1>1, <1>2, <1>4, <1>5 DEF Status
  <2>2. QED
    BY <1>1, <1>3, <2>1, Moves DEF Contract!Accept
<1>6. CASE ~(fired[c] = 0 /\ Located(c))
  <2>1. SameStatus(c)
    BY <1>1, <1>2, <1>6 DEF SameStatus, Status
  <2>2. QED
    BY <1>1, <1>3, <2>1, Stutters
<1>7. QED
  BY <1>5, <1>6

\* An empty handle is returned: the entry of this call, and no other, is dropped.
LEMMA WithdrawDrops ==
    ASSUME Related, NEW c \in Calls, Withdraw(c)
    PROVE  Contract!Drop(c) \/ UNCHANGED Contract!vars
<1> USE ThreadsAssumption, SentinelsAssumption
    DEF Related, TypeOK, SessionTypeOK, ThreadsTypeOK, CallsTypeOK
<1>1. /\ UNCHANGED <<node, aborts, fired, outcome, answer, valid>>
      /\ pc[c] = "check" /\ ~valid
      /\ pc' = [pc EXCEPT ![c] = "done"] /\ msgid' = [msgid EXCEPT ![c] = 0]
      /\ requests' = [j \in MsgIds |-> IF j = msgid[c] THEN None ELSE requests[j]]
  BY DEF Withdraw
<1>2. \A i \in MsgIds : requests[i] \in Calls /\ i = msgid[c] => requests[i] = c
  BY DEF Filed, Bookkeeping, IdsInOrder, UniqueIds
<1>3. ASSUME NEW d \in Calls \ {c} PROVE SameStatus(d)
  <2>1. InTable(d)' <=> InTable(d)
    BY <1>1, <1>2 DEF InTable
  <2>2. Located(d)' <=> Located(d)
    BY <1>1, <2>1 DEF Located, Held
  <2>3. Accepted(d)' <=> Accepted(d)
    BY <1>1 DEF Accepted
  <2>4. QED
    BY <1>1, <2>2, <2>3, StatusFrame
<1>4. ~Accepted(c) /\ ~Accepted(c)'
  BY <1>1 DEF Accepted
<1>5. Located(c)' => Located(c)
  BY <1>1 DEF Located, InTable, Held
<1>6. CASE fired[c] = 0 /\ Located(c) /\ ~Located(c)'
  <2>1. Status(c) = "issued" /\ Status(c)' = "dropped"
    BY <1>1, <1>4, <1>6 DEF Status
  <2>2. QED
    BY <1>1, <1>3, <2>1, Moves DEF Contract!Drop
<1>7. CASE ~(fired[c] = 0 /\ Located(c) /\ ~Located(c)')
  <2>1. SameStatus(c)
    BY <1>1, <1>4, <1>5, <1>7 DEF SameStatus, Status
  <2>2. QED
    BY <1>1, <1>3, <2>1, Stutters
<1>8. QED
  BY <1>6, <1>7

\* abort_request and _handle_reply move the node of the call itself, so that it stays
\* located.
LEMMA TakeStutters ==
    ASSUME Related,
           (\E c \in Calls : AbortTake(c)) \/ (\E w \in Workers : ReplyTake(w))
    PROVE  UNCHANGED Contract!vars
<1> USE ThreadsAssumption, SentinelsAssumption
    DEF Related, TypeOK, SessionTypeOK, ThreadsTypeOK, CallsTypeOK
<1>1. /\ UNCHANGED <<aborts, fired, outcome, answer, valid, msgid>>
      /\ \A d \in Calls : pc'[d] = "idle" <=> pc[d] = "idle"
      /\ \A d \in Calls : Accepted(d)' <=> Accepted(d)
  BY DEF AbortTake, ReplyTake, Accepted, Bookkeeping, CallsInOrder
<1>2. ASSUME NEW t \in Threads, NEW i \in MsgIds, NEW left \in {None, Moved},
             requests[i] \in Calls, node[t] = None,
             node' = [node EXCEPT ![t] = requests[i]],
             requests' = [requests EXCEPT ![i] = left]
      PROVE  \A d \in Calls : Located(d)' <=> Located(d)
  <2>1. SUFFICES ASSUME NEW d \in Calls PROVE Located(d)' <=> Located(d)
    OBVIOUS
  <2>2. CASE d = requests[i]
    <3>1. InTable(d) /\ Held(d)'
      BY <1>2, <2>2 DEF InTable, Held
    <3>2. QED
      BY <3>1 DEF Located
  <2>3. CASE d # requests[i]
    <3>1. InTable(d)' <=> InTable(d)
      BY <1>2, <2>3 DEF InTable
    <3>2. Held(d)' <=> Held(d)
      BY <1>2, <2>3 DEF Held
    <3>3. QED
      BY <1>1, <3>1, <3>2 DEF Located
  <2>4. QED
    BY <2>2, <2>3
<1>3. \A d \in Calls : Located(d)' <=> Located(d)
  <2>1. CASE UNCHANGED <<requests, node>>
    BY <1>1, <2>1 DEF Located, InTable, Held
  <2>2. ASSUME NEW c \in Calls, AbortTake(c), Entry(msgid[c]) \notin {None, Moved}
        PROVE  \A d \in Calls : Located(d)' <=> Located(d)
    <3>1. msgid[c] \in MsgIds /\ requests[msgid[c]] \in Calls
      BY <2>2
    <3>2. requests[msgid[c]] = c
      BY <3>1 DEF Filed, Bookkeeping, IdsInOrder, UniqueIds
    <3>3. node[c] = None
      BY <3>1, <3>2 DEF Bookkeeping, CallsInOrder, Ownership, OneOwner, OnePlace,
         InTable, Held
    <3>4. /\ node' = [node EXCEPT ![c] = requests[msgid[c]]]
          /\ requests' = [requests EXCEPT ![msgid[c]] = None]
      BY <2>2, <3>1 DEF AbortTake
    <3>5. QED
      BY <1>2, <3>1, <3>3, <3>4
  <2>3. ASSUME NEW w \in Workers, ReplyTake(w), Entry(msgid[job[w]]) \notin {None, Moved}
        PROVE  \A d \in Calls : Located(d)' <=> Located(d)
    <3>1. msgid[job[w]] \in MsgIds /\ requests[msgid[job[w]]] \in Calls
      BY <2>3
    <3>2. node[w] = None
      BY <2>3 DEF ReplyTake, Bookkeeping, WorkersInOrder
    <3>3. /\ node' = [node EXCEPT ![w] = requests[msgid[job[w]]]]
          /\ requests' = [requests EXCEPT ![msgid[job[w]]] = Moved]
      BY <2>3, <3>1 DEF ReplyTake
    <3>4. QED
      BY <1>2, <3>1, <3>2, <3>3
  <2>4. ASSUME NEW c \in Calls, AbortTake(c), Entry(msgid[c]) \in {None, Moved}
        PROVE  UNCHANGED <<requests, node>>
    BY <2>4 DEF AbortTake
  <2>5. ASSUME NEW w \in Workers, ReplyTake(w), Entry(msgid[job[w]]) \in {None, Moved}
        PROVE  UNCHANGED <<requests, node>>
    BY <2>5 DEF ReplyTake
  <2>6. QED
    BY <2>1, <2>2, <2>3, <2>4, <2>5
<1>4. QED
  BY <1>1, <1>3, StatusFrame, Stutters

\* A handler that runs where its node is completes its own call and no other.
LEMMA CallCompletes ==
    ASSUME Related, NEW c \in Calls, NEW e, Held(c) \/ c \in aborts,
           fired' = [fired EXCEPT ![c] = @ + 1],
           outcome' = [outcome EXCEPT ![c] = e],
           UNCHANGED <<requests, msgid>>,
           \A d \in Calls : /\ pc'[d] = "idle" <=> pc[d] = "idle"
                            /\ Accepted(d)' <=> Accepted(d),
           \A d \in Calls \ {c} : (Held(d)' <=> Held(d)) /\ (d \in aborts' <=> d \in aborts)
    PROVE  /\ Status(c) = IF Accepted(c) THEN "accepted" ELSE "issued"
           /\ Status(c)' = IF e = "aborted" THEN "aborted" ELSE "answered"
           /\ \A d \in Calls \ {c} : SameStatus(d)
<1> USE DEF Related, TypeOK, CallsTypeOK
<1>1. fired[c] = 0 /\ pc[c] # "idle"
  BY DEF Ownership, OneOwner, OnePlace
<1>2. Status(c) = IF Accepted(c) THEN "accepted" ELSE "issued"
  BY <1>1 DEF Status, Located
<1>3. fired'[c] > 0 /\ outcome'[c] = e /\ pc'[c] # "idle"
  BY <1>1
<1>4. Status(c)' = IF e = "aborted" THEN "aborted" ELSE "answered"
  BY <1>3 DEF Status
<1>5. ASSUME NEW d \in Calls \ {c} PROVE SameStatus(d)
  <2>1. Located(d)' <=> Located(d)
    BY DEF Located, InTable
  <2>2. fired'[d] = fired[d] /\ outcome'[d] = outcome[d]
    OBVIOUS
  <2>3. QED
    BY <2>1, <2>2, StatusFrame
<1>6. QED
  BY <1>2, <1>4, <1>5

\* The caller that gave up completes its own request.
LEMMA AbortCallAborts ==
    ASSUME Related, NEW c \in Calls, AbortCall(c)
    PROVE  Contract!Abort(c) \/ UNCHANGED Contract!vars
<1> USE ThreadsAssumption, SentinelsAssumption
    DEF Related, TypeOK, ThreadsTypeOK, CallsTypeOK
<1>1. /\ UNCHANGED <<requests, aborts, answer, valid, msgid>>
      /\ pc[c] = "abort_call" /\ pc' = [pc EXCEPT ![c] = "abort_notify"]
      /\ node' = [node EXCEPT ![c] = None]
      /\ fired' = [fired EXCEPT ![node[c]] = @ + 1]
      /\ outcome' = [outcome EXCEPT ![node[c]] = "aborted"]
  BY DEF AbortCall
<1>2. \A d \in Calls : /\ pc'[d] = "idle" <=> pc[d] = "idle"
                       /\ Accepted(d)' <=> Accepted(d)
  BY <1>1 DEF Accepted
<1>3. CASE node[c] = None
  <2>1. fired' = fired /\ outcome' = outcome /\ node' = node
    BY <1>1, <1>3
  <2>2. QED
    BY <1>1, <1>2, <2>1, QuietFrame
<1>4. CASE node[c] = c
  <2>1. Held(c) /\ Accepted(c)
    BY <1>1, <1>4 DEF Held, Accepted
  <2>2. \A d \in Calls \ {c} : (Held(d)' <=> Held(d)) /\ (d \in aborts' <=> d \in aborts)
    BY <1>1, <1>4 DEF Held
  <2>3. /\ Status(c) = "accepted" /\ Status(c)' = "aborted"
        /\ \A d \in Calls \ {c} : SameStatus(d)
    BY <1>1, <1>2, <1>4, <2>1, <2>2, CallCompletes
  <2>4. QED
    BY <1>1, <2>3, Moves DEF Contract!Abort
<1>5. QED
  BY <1>3, <1>4 DEF Bookkeeping, CallsInOrder

\* The completion of a reply completes a request that the peer answered.
LEMMA ReplyCallCompletes ==
    ASSUME Related, NEW w \in Workers, ReplyCall(w)
    PROVE  \E c \in Calls : Contract!Complete(c)
<1> USE ThreadsAssumption, SentinelsAssumption
    DEF Related, TypeOK, ThreadsTypeOK, CallsTypeOK
<1>1. PICK c \in Calls : job[w] = c /\ node[w] = c /\ answer[c] # "none"
  BY DEF ReplyCall, Bookkeeping, WorkersInOrder, AnswersKnown
<1>2. PICK e \in {"okay", "exception_returned"} :
        /\ UNCHANGED <<requests, aborts, answer, valid, msgid>>
        /\ pc' = [pc EXCEPT ![w] = "reply_erase"]
        /\ node' = [node EXCEPT ![w] = None]
        /\ fired' = [fired EXCEPT ![c] = @ + 1]
        /\ outcome' = [outcome EXCEPT ![c] = e]
  BY <1>1 DEF ReplyCall
<1>3. \A d \in Calls : /\ pc'[d] = "idle" <=> pc[d] = "idle"
                       /\ Accepted(d)' <=> Accepted(d)
  BY <1>2 DEF Accepted
<1>4. Held(c)
  BY <1>1 DEF Held
<1>5. \A d \in Calls \ {c} : (Held(d)' <=> Held(d)) /\ (d \in aborts' <=> d \in aborts)
  BY <1>1, <1>2 DEF Held
<1>6. /\ Status(c) = IF Accepted(c) THEN "accepted" ELSE "issued"
      /\ Status(c)' = IF e = "aborted" THEN "aborted" ELSE "answered"
      /\ \A d \in Calls \ {c} : SameStatus(d)
  BY <1>1, <1>2, <1>3, <1>4, <1>5, CallCompletes
<1>7. Status(c) \in {"issued", "accepted"} /\ Status(c)' = "answered"
  BY <1>2, <1>6
<1>8. Contract!Move(c, {"issued", "accepted"}, "answered")
  BY <1>1, <1>2, <1>6, <1>7, Moves
<1>9. QED
  BY <1>1, <1>8 DEF Contract!Complete

\* An abort completion runs on an expired session only.
LEMMA RunAbortAborts ==
    ASSUME Related, NEW w \in Workers, RunAbort(w)
    PROVE  (\E c \in Calls : Contract!Abort(c)) \/ UNCHANGED Contract!vars
<1> USE SentinelsAssumption DEF Related, TypeOK, PostedTypeOK, CallsTypeOK
<1>1. PICK n \in aborts :
        /\ aborts' = aborts \ {n}
        /\ IF n = Moved THEN UNCHANGED <<fired, outcome>>
           ELSE /\ fired' = [fired EXCEPT ![n] = @ + 1]
                /\ outcome' = [outcome EXCEPT ![n] = "aborted"]
  BY DEF RunAbort
<1>2. UNCHANGED <<requests, node, pc, answer, valid, msgid>>
  BY DEF RunAbort
<1>3. /\ \A d \in Calls : (Held(d)' <=> Held(d)) /\ (Accepted(d)' <=> Accepted(d))
      /\ \A d \in Calls \ {n} : d \in aborts' <=> d \in aborts
  BY <1>1, <1>2 DEF Held, Accepted
<1>4. CASE n = Moved
  <2>1. \A d \in Calls : Located(d)' <=> Located(d)
    BY <1>2, <1>3, <1>4 DEF Located, InTable
  <2>2. QED
    BY <1>1, <1>2, <1>3, <1>4, <2>1, StatusFrame, Stutters
<1>5. CASE n \in Calls
  <2>1. /\ Status(n) = IF Accepted(n) THEN "accepted" ELSE "issued"
        /\ Status(n)' = "aborted"
        /\ \A d \in Calls \ {n} : SameStatus(d)
    BY <1>1, <1>2, <1>3, <1>5, CallCompletes
  <2>2. Contract!Move(n, {"issued", "accepted"}, "aborted")
    BY <1>2, <1>5, <2>1, Moves
  <2>3. ~valid
    BY <1>1 DEF Bookkeeping, AbortsAfterExpiry
  <2>4. QED
    BY <1>5, <2>2, <2>3 DEF Contract!Abort
<1>6. QED
  BY <1>4, <1>5

\* _valid.exchange(false): the session is over, no request changes.
LEMMA FlipExpires ==
    ASSUME Related, NEW t \in Threads, Flip(t)
    PROVE  Contract!Expire \/ UNCHANGED Contract!vars
<1> USE ThreadsAssumption DEF Related, TypeOK, ThreadsTypeOK
<1>1. /\ UNCHANGED <<requests, node, aborts, fired, outcome, answer, msgid>>
      /\ valid' = FALSE
  BY DEF Flip
<1>2. pc[t] = "flip" /\ \E to \in {"sweep", "check", "idle", "done"} :
        pc' = [pc EXCEPT ![t] = to] /\ (t \in Calls => to \in {"sweep", "check"})
  BY DEF Flip, AfterExpire
<1>3. \A d \in Calls : /\ pc'[d] = "idle" <=> pc[d] = "idle"
                       /\ Accepted(d)' <=> Accepted(d)
                       /\ Located(d)' <=> Located(d)
  BY <1>1, <1>2 DEF Accepted, Located, InTable, Held
<1>4. \A d \in Calls : SameStatus(d)
  BY <1>1, <1>3, StatusFrame
<1>5. QED
  BY <1>1, <1>4 DEF SameStatus, Contract!Expire

\* _set_expired posts an abort completion for each request it takes from the table.
LEMMA SweepStutters ==
    ASSUME Related, NEW t \in Threads, Sweep(t)
    PROVE  UNCHANGED Contract!vars
<1> USE ThreadsAssumption, SentinelsAssumption
    DEF Related, TypeOK, SessionTypeOK, ThreadsTypeOK
<1>1. /\ UNCHANGED <<node, fired, outcome, answer, valid, msgid>>
      /\ requests' = [i \in MsgIds |-> None]
      /\ aborts' = aborts \union ({requests[i] : i \in MsgIds} \ {None})
  BY DEF Sweep
<1>2. pc[t] = "sweep" /\ \E to \in {"check", "idle", "done"} :
        pc' = [pc EXCEPT ![t] = to] /\ (t \in Calls => to = "check")
  BY DEF Sweep, AfterExpire
<1>3. \A d \in Calls : /\ pc'[d] = "idle" <=> pc[d] = "idle"
                       /\ Accepted(d)' <=> Accepted(d)
  BY <1>1, <1>2 DEF Accepted
<1>4. \A d \in Calls : d \in aborts' <=> d \in aborts \/ InTable(d)
  BY <1>1 DEF InTable
<1>5. \A d \in Calls : ~InTable(d)'
  BY <1>1 DEF InTable
<1>6. \A d \in Calls : Located(d)' <=> Located(d)
  BY <1>1, <1>4, <1>5 DEF Located, Held
<1>7. QED
  BY <1>1, <1>3, <1>6, StatusFrame, Stutters

\* The entry that _handle_reply erases has lost its node, or is gone.
LEMMA ReplyEraseStutters ==
    ASSUME Related, NEW w \in Workers, ReplyErase(w)
    PROVE  UNCHANGED Contract!vars
<1> USE ThreadsAssumption, SentinelsAssumption
    DEF Related, TypeOK, SessionTypeOK, ThreadsTypeOK, CallsTypeOK
<1> DEFINE c == job[w]
<1>1. c \in Calls /\ fired[c] > 0
  BY DEF ReplyErase, Bookkeeping, WorkersInOrder
<1>2. /\ UNCHANGED <<node, aborts, fired, outcome, answer, valid, msgid>>
      /\ pc' = [pc EXCEPT ![w] = "idle"]
      /\ requests' = [j \in MsgIds |-> IF j = msgid[c] THEN None ELSE requests[j]]
  BY DEF ReplyErase
<1>3. ~InTable(c)
  BY <1>1 DEF Ownership, OneOwner, OnePlace
<1>4. \A i \in MsgIds : i = msgid[c] => requests[i] \notin Calls
  BY <1>1, <1>3 DEF Filed, Bookkeeping, IdsInOrder, UniqueIds, InTable
<1>5. \A d \in Calls : InTable(d)' <=> InTable(d)
  BY <1>2, <1>4 DEF InTable
<1>6. \A d \in Calls : /\ pc'[d] = "idle" <=> pc[d] = "idle"
                       /\ Accepted(d)' <=> Accepted(d)
                       /\ Located(d)' <=> Located(d)
  BY <1>2, <1>5 DEF Accepted, Located, Held
<1>7. QED
  BY <1>2, <1>6, StatusFrame, Stutters

\* The peer answers requests that were issued.
LEMMA DeliverReplies ==
    ASSUME Related, NEW c \in Calls, NEW a \in Answers \ {"none"}, NEW all \in BOOLEAN,
           Deliver(c, a, all)
    PROVE  Contract!Reply(c)
<1> USE DEF Related, TypeOK, CallsTypeOK, PeerTypeOK
<1>1. /\ UNCHANGED <<requests, node, aborts, fired, outcome, valid, msgid, pc>>
      /\ answer' = [answer EXCEPT ![c] = a] /\ c \in sent
  BY DEF Deliver
<1>2. \A d \in Calls : SameStatus(d)
  BY <1>1, StatusFrame DEF Accepted, Located, InTable, Held
<1>3. {d \in Calls : answer'[d] # "none"} = {d \in Calls : answer[d] # "none"} \union {c}
  BY <1>1
<1>4. Status(c) # "idle"
  BY <1>1 DEF Status, Bookkeeping, CallsInOrder
<1>5. QED
  BY <1>1, <1>2, <1>3, <1>4 DEF SameStatus, Contract!Reply

\* Every step of the session is a step of the contract or leaves it alone.
LEMMA RefinesNext ==
    ASSUME Related, FewCalls, [Next]_vars
    PROVE  [Contract!Next]_(Contract!vars)
<1>1. ASSUME NEW c \in Calls, Caller(c) PROVE [Contract!Next]_(Contract!vars)
  <2>1. c \in Threads
    OBVIOUS
  <2>2. QED
    BY <1>1, <2>1, EmplaceIssues, FlushAccepts, WithdrawDrops, TakeStutters, AbortCallAborts,
       FlipExpires, SweepStutters, QuietStepsStutter
    DEF Caller, CallerStep, Expire, Contract!Next
<1>2. ASSUME NEW w \in Workers, WorkerStep(w) PROVE [Contract!Next]_(Contract!vars)
  <2>1. w \in Threads
    OBVIOUS
  <2>2. QED
    BY <1>2, <2>1, TakeStutters, ReplyCallCompletes, ReplyEraseStutters, RunAbortAborts,
       FlipExpires, SweepStutters, QuietStepsStutter
    DEF WorkerStep, Expire, Contract!Next
<1>3. ASSUME NEW t \in Notifiers, Notify(t) \/ Expire(t) PROVE [Contract!Next]_(Contract!vars)
  <2>1. t \in Threads
    OBVIOUS
  <2>2. QED
    BY <1>3, <2>1, FlipExpires, SweepStutters, QuietStepsStutter DEF Expire, Contract!Next
<1>4. ASSUME NEW t \in Closers, Close(t) \/ CloserStep(t)
      PROVE  [Contract!Next]_(Contract!vars)
  <2>1. t \in Threads
    OBVIOUS
  <2>2. QED
    BY <1>4, <2>1, FlipExpires, SweepStutters, QuietStepsStutter
    DEF CloserStep, Expire, Contract!Next
<1>5. CASE Peer
  <2>1. ASSUME NEW c \in Calls, NEW a \in Answers \ {"none"}, NEW all \in BOOLEAN,
               Deliver(c, a, all)
        PROVE  Contract!Next
    BY <2>1, DeliverReplies DEF Contract!Next
  <2>2. QED
    BY <1>5, <2>1, QuietStepsStutter DEF Peer
<1>6. CASE UNCHANGED vars
  BY <1>6, QuietStepsStutter
<1>7. QED
  BY <1>1, <1>2, <1>3, <1>4, <1>5, <1>6 DEF Next

(* The session keeps the contract RpcCompletion with those who issue requests: *)
(* for any number of threads, each request is completed once, with okay only   *)
(* when the peer answered it, with aborted only when the session expired or    *)
(* its caller gave up; and a request whose handle async_request returned is    *)
(* never dropped.                                                              *)
THEOREM ImplementsRpcCompletion == FewCalls => (Spec => ImplementsContract)
<1> SUFFICES ASSUME FewCalls PROVE Spec => ImplementsContract
  OBVIOUS
<1>1. Init => Contract!Init
  BY SentinelsAssumption DEF Init, Contract!Init, Status
<1>2. Related /\ [Next]_vars => [Contract!Next]_(Contract!vars)
  BY RefinesNext
<1>3. Spec => []Related
  <2>1. Spec => []Bookkeeping
    BY BookkeepingInvariant
  <2>2. TypeOK /\ Ownership /\ Filed /\ Bookkeeping => Related
    BY DEF Related
  <2>3. QED
    BY <2>1, <2>2, TypeCorrect, OwnershipInvariant, FiledInvariant, PTL
<1>4. QED
  BY <1>1, <1>2, <1>3, PTL DEF Spec, ImplementsContract, Contract!Spec
=============================================================================
