----------------------------- MODULE EventQueue -----------------------------
(***************************************************************************)
(* cpph::event_queue (thread/event_queue.hxx): messages posted by any      *)
(* thread are kept in a list of nodes and executed by the threads that     *)
(* call exec, run_for or flush.                                            *)
(*                                                                          *)
(*   - a runner calls exec: it sleeps while there is no message, and        *)
(*     returns when the queue is stopped;                                   *)
(*   - a timed runner calls run_for: it also returns when its time is up;   *)
(*   - a flusher calls flush: it returns as soon as there is no message;    *)
(*   - a cleaner calls clear: it takes the whole list and destroys it;      *)
(*   - anyone posts, stops and restarts.                                    *)
(*                                                                          *)
(* ewait_ is a mutex and a condition variable: its predicate, post and      *)
(* stop each run in one critical section, that is in one action.  msg_lock_ *)
(* is taken inside, and alone by clear.  Where nodes come from              *)
(* (alloc_lock_, alloc_ or the heap) is left to RingAllocator; here a node  *)
(* is live from post to _release, and its message stands for its address.   *)
(***************************************************************************)
EXTENDS Sequences, FiniteSets, Integers, Functions

CONSTANTS
    Messages,   \* the messages posted, each once
    Runners,    \* threads that call exec
    Timed,      \* threads that call run_for or run_until
    Flushers,   \* threads that call flush
    Cleaners,   \* threads that call clear
    Null        \* the null pointer, no message

Executors == Runners \union Timed \union Flushers

ASSUME ThreadsAssumption ==
    /\ Runners \intersect (Timed \union Flushers) = {}
    /\ Timed \intersect Flushers = {}
    /\ Cleaners \intersect Executors = {}
    /\ "list" \notin Executors \union Cleaners
    /\ IsFiniteSet(Executors)
ASSUME NullAssumption == Null \notin Messages

VARIABLES
    front, back,    \* front_ and back_
    next,           \* next_ of each node
    stopped,        \* stopped_
    pc,             \* where each executor is
    running,        \* the message an executor retrieved
    asleep,         \* executors asleep in ewait_
    taken,          \* the rest of the list a cleaner took, by its first node
    live,           \* the messages whose node is allocated
    \* history
    queue,          \* the messages that wait, in the order they were posted
    batch,          \* the messages a cleaner took and has not released
    fate            \* what became of each message

nodeVars == <<front, back, next>>
messageVars == <<live, queue, batch, fate>>
vars == <<nodeVars, stopped, pc, running, asleep, taken, messageVars>>

PcValues == {"out", "loop", "wait", "run", "release"}
Fates    == {"new", "posted", "taken", "discarded"}
Pointers == Messages \union {Null}

TypeOK ==
    /\ front \in Pointers /\ back \in Pointers
    /\ next \in [Messages -> Pointers]
    /\ stopped \in BOOLEAN
    /\ pc \in [Executors -> PcValues]
    /\ running \in [Executors -> Pointers]
    /\ asleep \subseteq Executors \ Flushers
    /\ taken \in [Cleaners -> Pointers]
    /\ live \subseteq Messages
    /\ queue \in Seq(Messages)
    /\ batch \in [Cleaners -> Seq(Messages)]
    /\ fate \in [Messages -> Fates]

Init ==
    /\ front = Null /\ back = Null
    /\ next = [m \in Messages |-> Null]
    /\ stopped = FALSE
    /\ pc = [e \in Executors |-> "out"]
    /\ running = [e \in Executors |-> Null]
    /\ asleep = {}
    /\ taken = [c \in Cleaners |-> Null]
    /\ live = {}
    /\ queue = <<>>
    /\ batch = [c \in Cleaners |-> <<>>]
    /\ fate = [m \in Messages |-> "new"]

Goto(e, label) == pc' = [pc EXCEPT ![e] = label]

-----------------------------------------------------------------------------
(* The list of nodes, under msg_lock_                                       *)

\* A definition whose name ends in _slip is the next one with a plausible slip of
\* the programmer.  The specification uses none of them; substituting one shows that
\* the properties notice it.

NextAfterPush_slip(m) == [next EXCEPT ![m] = Null]
NextAfterPush(m) ==
    [n \in Messages |-> IF n = back THEN m ELSE IF n = m THEN Null ELSE next[n]]

PushEvent(m) ==
    /\ next' = NextAfterPush(m)
    /\ back' = m
    /\ front' = IF front = Null THEN m ELSE front

BackAfterPop_slip == back
BackAfterPop == IF front = back THEN Null ELSE back

PopEvent ==
    /\ front # Null
    /\ front' = next[front]
    /\ back' = BackAfterPop
    /\ UNCHANGED next

-----------------------------------------------------------------------------
(* post, dispatch, stop, restart                                            *)

\* notify_one: a sleeper, if there is one, is woken.
NotifyOne_slip == UNCHANGED asleep
NotifyOne ==
    IF asleep = {} THEN UNCHANGED asleep
    ELSE \E e \in asleep : asleep' = asleep \ {e}

\* post, by a thread of its own, by a message being executed or, through dispatch,
\* by any thread that is not executing one.
Post(m) ==
    /\ fate[m] = "new"
    /\ PushEvent(m)
    /\ NotifyOne
    /\ queue' = Append(queue, m)
    /\ fate' = [fate EXCEPT ![m] = "posted"]
    /\ live' = live \union {m}
    /\ UNCHANGED <<stopped, pc, running, taken, batch>>

\* dispatch by the message that executor e is executing: run on the spot.
Dispatch(e, m) ==
    /\ pc[e] = "run" /\ fate[m] = "new"
    /\ fate' = [fate EXCEPT ![m] = "taken"]
    /\ UNCHANGED <<nodeVars, stopped, pc, running, asleep, taken, live, queue, batch>>

StopWakes_slip == asleep' = asleep
StopWakes == asleep' = {}

Stop ==
    /\ stopped' = TRUE
    /\ StopWakes
    /\ UNCHANGED <<nodeVars, pc, running, taken, messageVars>>

Restart ==
    /\ stopped' = FALSE
    /\ UNCHANGED <<nodeVars, pc, running, asleep, taken, messageVars>>

-----------------------------------------------------------------------------
(* exec, run_for, flush                                                     *)

Enter(e) ==
    /\ pc[e] = "out"
    /\ Goto(e, "loop")
    /\ UNCHANGED <<nodeVars, stopped, running, asleep, taken, messageVars>>

\* The loop is left when the queue is stopped.
Loop(e) ==
    /\ pc[e] = "loop"
    /\ Goto(e, IF stopped THEN "out" ELSE "wait")
    /\ UNCHANGED <<nodeVars, stopped, running, asleep, taken, messageVars>>

\* The predicate of exec and run_for holds with a message, that of flush always.
MaySleep_slip(e) == TRUE
MaySleep(e) == e \notin Flushers

\* The predicate of ewait_ has three outcomes.  It retrieves a message ...
Retrieve(e) ==
    /\ pc[e] = "wait" /\ e \notin asleep
    /\ ~stopped
    /\ PopEvent
    /\ running' = [running EXCEPT ![e] = front]
    /\ Goto(e, "run")
    /\ queue' = Tail(queue)
    /\ fate' = [fate EXCEPT ![front] = "taken"]
    /\ UNCHANGED <<stopped, asleep, taken, live, batch>>

\* ... or holds without one, and the executor returns; flush never waits ...
Return(e) ==
    /\ pc[e] = "wait" /\ e \notin asleep
    /\ stopped \/ (~MaySleep(e) /\ front = Null)
    /\ Goto(e, "out")
    /\ UNCHANGED <<nodeVars, stopped, running, asleep, taken, messageVars>>

\* ... or does not hold, and the executor sleeps until it is woken.
Sleep(e) ==
    /\ pc[e] = "wait" /\ e \notin asleep
    /\ MaySleep(e) /\ ~stopped /\ front = Null
    /\ asleep' = asleep \union {e}
    /\ UNCHANGED <<nodeVars, stopped, pc, running, taken, messageVars>>

\* A condition variable may wake a sleeper for no reason.
WakeUp(e) ==
    /\ e \in asleep
    /\ asleep' = asleep \ {e}
    /\ UNCHANGED <<nodeVars, stopped, pc, running, taken, messageVars>>

\* When the time is up the predicate decides once more: this, or WakeUp and Retrieve.
Timeout(e) ==
    /\ e \in Timed /\ pc[e] = "wait"
    /\ stopped \/ front = Null
    /\ Goto(e, "out")
    /\ asleep' = asleep \ {e}
    /\ UNCHANGED <<nodeVars, stopped, running, taken, messageVars>>

\* The message returns; what it posts and dispatches are steps of their own.
Run(e) ==
    /\ pc[e] = "run"
    /\ Goto(e, "release")
    /\ UNCHANGED <<nodeVars, stopped, running, asleep, taken, messageVars>>

Release(e) ==
    /\ pc[e] = "release"
    /\ running' = [running EXCEPT ![e] = Null]
    /\ live' = live \ {running[e]}
    /\ Goto(e, "loop")
    /\ UNCHANGED <<nodeVars, stopped, asleep, taken, queue, batch, fate>>

-----------------------------------------------------------------------------
(* clear                                                                    *)

\* The whole list is taken under msg_lock_ ...
BackAfterClear == Null

Clear(c) ==
    /\ taken[c] = Null /\ front # Null
    /\ taken' = [taken EXCEPT ![c] = front]
    /\ front' = Null
    /\ back' = BackAfterClear
    /\ queue' = <<>>
    /\ batch' = [batch EXCEPT ![c] = queue]
    /\ fate' = [m \in Messages |-> IF fate[m] = "posted" THEN "discarded" ELSE fate[m]]
    /\ UNCHANGED <<next, stopped, pc, running, asleep, live>>

\* ... and its nodes are released one by one without it.
Rest_slip(c) == Null
Rest(c) == next[taken[c]]

ReleaseNext(c) ==
    /\ taken[c] # Null
    /\ taken' = [taken EXCEPT ![c] = Rest(c)]
    /\ live' = live \ {taken[c]}
    /\ batch' = [batch EXCEPT ![c] = Tail(batch[c])]
    /\ UNCHANGED <<nodeVars, stopped, pc, running, asleep, queue, fate>>

-----------------------------------------------------------------------------
Executor(e) == Loop(e) \/ Retrieve(e) \/ Return(e) \/ Sleep(e) \/ Run(e) \/ Release(e)

Next ==
    \/ \E m \in Messages : Post(m) \/ (\E e \in Executors : Dispatch(e, m))
    \/ \E e \in Executors : Enter(e) \/ Executor(e) \/ WakeUp(e) \/ Timeout(e)
    \/ \E c \in Cleaners : Clear(c) \/ ReleaseNext(c)
    \/ Stop \/ Restart

Spec == Init /\ [][Next]_vars

\* Threads that can run do, and messages return.  Nothing is asked of those who post,
\* stop and restart, of time, or of the condition variable's good will.
FairSpec ==
    /\ Spec
    /\ \A e \in Executors : WF_vars(Executor(e))
    /\ \A c \in Cleaners : WF_vars(ReleaseNext(c))

-----------------------------------------------------------------------------
(* Properties                                                               *)

\* The nodes of the messages of s, in their order, are the list that begins at n.
LinkedFrom(n, s) ==
    /\ n = IF s = <<>> THEN Null ELSE Head(s)
    /\ \A i \in DOMAIN s : next[s[i]] = IF i = Len(s) THEN Null ELSE s[i + 1]

\* The list is the queue: front_, back_ and next_ hold exactly the messages posted and
\* neither retrieved nor cleared, in the order of the posts, across every interleaving
\* of post, retrieval and clear; and so do the lists that cleaners took.
Linked ==
    /\ LinkedFrom(front, queue)
    /\ back = IF queue = <<>> THEN Null ELSE queue[Len(queue)]
    /\ \A c \in Cleaners : LinkedFrom(taken[c], batch[c])

\* A node that is allocated belongs to the list, to the executor that retrieved its
\* message or to the cleaner that took it, and to one of them only: none is lost, none
\* is released twice, and none is used after its release.
Holds(h, m) ==
    \/ h = "list" /\ m \in Range(queue)
    \/ h \in Executors /\ m = running[h]
    \/ h \in Cleaners /\ m \in Range(batch[h])

Holders == {"list"} \union Executors \union Cleaners

OneHolder ==
    /\ \A m \in Messages : m \in live <=> \E h \in Holders : Holds(h, m)
    /\ \A m \in Messages, g, h \in Holders : Holds(g, m) /\ Holds(h, m) => g = h

\* A message that waits while executors sleep has one that is awake and will look for
\* it: no wake-up is lost, whatever clear, time and other executors do in between.
NoLostWakeUp ==
    asleep # {} => Len(queue) <= Cardinality({e \in Executors \ asleep : pc[e] = "wait"})

\* stop leaves nobody asleep, also those who were about to sleep.
StopWakesAll == stopped => asleep = {}

\* While a runner is in exec, what is posted is retrieved, cleared or stopped.
PostedRuns ==
    \A r \in Runners, m \in Messages :
        fate[m] = "posted" /\ pc[r] # "out" ~> fate[m] # "posted" \/ stopped

\* stop ends every exec, run_for and flush, unless the queue is restarted first.
StopEndsExec == \A e \in Executors : stopped /\ pc[e] # "out" ~> pc[e] = "out" \/ ~stopped

\* Every node comes to be released: an executor or a cleaner that holds one lets it go.
AllReleased ==
    \A m \in Messages : m \in live /\ fate[m] # "posted" ~> m \notin live

Abstract == INSTANCE MessageQueue

\* The queue, its threads and its list implement the promise of MessageQueue: messages
\* leave in the order they came, each once.
ImplementsQueue == Abstract!Spec
=============================================================================
