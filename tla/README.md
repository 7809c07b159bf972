# Verification of cpph

TLA+ models, TLC runs and TLAPS proofs for the concurrent and stateful parts of the
header library under `src/include/cpph`.

## 1. Inventory

The library is a set of C++17 headers. Most of it is value types and templates; the
parts below keep state that several threads, callbacks or messages change.

| component | state | operations | interacts with | hard parts |
|---|---|---|---|---|
| rpc session, requesting side (`refl/rpc/detail/session.hxx`) | `_valid`, the table `_rq->requests`, the id generator, two mutexes | `async_request`, `notify`, `wait`, `wait_for`, `abort_request`, `close`, receive cycle, `_handle_reply`, `_set_expired` | protocol, connection, event procedure, monitor, object pool | reply, timeout, abort and expiry race for one node; locks kept over blocking reads |
| rpc session, answering side (`session.hxx`, `service*.hxx`, `msgpack-rpc.hxx`) | parameter buffers, posted handlers | request, notify, reply, error reply | as above, user handlers | replies written outside a flush, expiry between handler and reply |
| connections (`rpc/connection/*.hxx`) | stream buffers, armed flag, peer link | `start_data_receive`, `close`, read, write | session | lost wake-ups, close against the peer |
| session group (`rpc/detail/group.hxx`) | set of sessions, byte totals | add, remove, notify_all, totals | sessions | totals of sessions that go away |
| event queue, thread pool (`thread/event_queue.hxx`, `thread_pool.hxx`) | message list, stop flag, ring allocator | post, dispatch, exec, flush, stop, restart, clear | workers, allocator, rpc | lost messages, stop against post, order |
| waiting primitives (`thread/event_wait.hxx`, `notify_queue.hxx`, `spinlock.hxx`, `locked.hxx`) | mutex, condition variable | notify, wait, push, pop, lock | everything above | lost notification, capacity, exclusion |
| `worker`, `pipeline`, `local_async`, `dispose_guard` | thread, stop flags, shared result | start, stop, commit, set, wait | waiting primitives | stop and restart, result after disposal |
| allocators (`memory/ring_allocator.hxx`, ...) | block list in a ring | allocate, deallocate | event queue | wrap-around, out-of-order release |
| object pools (`memory/pool.hxx`, `list_pool.hxx`) | idle list | checkout, checkin | rpc | checkin after the pool died |
| event broadcaster (`utility/event.hxx`) | priority list of handlers | add, remove, invoke | user callbacks | removal and insertion during invocation |
| containers (`container/*.hxx`) | sequences, maps | insert, erase | everything | index arithmetic at the limits |
| archives (`refl/archive/*`, `algorithm/base64.hxx`, `streambuf/*`) | context stack, buffers | begin/end of arrays and objects | protocol | nesting, partial input |

What makes each correct: a request is completed once, and every accepted request is; locks
are released by their owners; an expired session leaves nobody waiting; a message is run
or disposed of once and in order; live allocations are disjoint and the ring empties; a
pool node has one owner; an event handler runs at most once per event, and not in one that
began after its removal.

## 2. The modules

| module | models | composed with, or implements | proofs |
|---|---|---|---|
| `RpcSession` | requesting side of `session.hxx` | implements `RpcCompletion` | `RpcSessionProofs`: types, locks, one owner, one completion, one receive cycle, no stray request, refinement |
| `RingAllocator` | `ring_allocator.hxx` | - | `MemoryProofs`: all five properties |
| `EventQueue` | `event_queue.hxx` with the part of `event_wait.hxx` it uses | implements `MessageQueue` | `SignalProofs`: types, list, holders, wake-ups, refinement |
| `RpcReceive` | the message handler of `msgpack-rpc.hxx`, its proxy and the pooled parameter buffers | uses `ObjectRestore`, `ObjectDump` and `MsgpackReader`; the instance sends with `ObjectArchive` | `RpcReceiveProofs`: `BoundaryKept`, `AnsweredOnce` |
| `ObjectRestore` | how `refl` restores values (`object_core.hxx`, `primitives.hxx`, `types/tuple.hxx`, `types/variant.hxx`) | `MsgpackReader` | `RpcReceiveProofs`: its call stack fits the reader's scopes |
| `ObjectDump` | how a reader copies an object of an unknown type to a writer (`if_archive.hxx`) | `MsgpackReader`, `ArchiveWriter` | `RpcReceiveProofs`: the same |
| `ObjectArchive` | how `refl` archives them, and the send functions of `msgpack-rpc.hxx` | `ArchiveWriter` | - |
| `Archive` | a document written and read (`refl/archive`) | `ArchiveWriter`, `MsgpackReader`, `JsonReader` | `MsgpackProofs`: the calls of the reader; `ArchiveProofs`: `WellFormed`, `MsgpackInStep` |
| `InmemoryPipe`, on the state and invariants of `PipeEnds` | the two ends of `inmemory_pipe.hxx` and the sessions above them | - | `SignalProofs`, second part: both invariants |
| `Pool`, on the state and invariants of `PoolNodes` | `memory/pool.hxx` | - | `MemoryProofs`, second part: both invariants |
| `EventList` | `utility/event.hxx` | - | `EventListProofs`: both invariants |
| `CircularQueue` | `container/circular_queue.hxx` | implements `BoundedQueue` | `CircularQueueProofs`: refinement |

Each module takes its threads and data as CONSTANTS with named assumptions, and has one
action per critical section or call. `ObjectArchive` is a recursive operator over types, which
puts it out of reach of the prover; it is used by `MCRpcReceive` only, and no other module has
a RECURSIVE operator. The proofs of a module `M` are in `MProofs`, with these exceptions:
`MemoryProofs` is about `RingAllocator` and `Pool`; `SignalProofs` is about `EventQueue` and
`InmemoryPipe`, which both wake a thread that waits for data; `MsgpackProofs` has what `ArchiveProofs` and
`RpcReceiveProofs` both need to know of `MsgpackReader`. A module that is about two components
extends the first, and of the second the state and the invariants (`PoolNodes`, `PipeEnds`);
it instantiates the second's actions as `P`, since both define `Init` and `Next`. The constants
are the components' own, with the assumptions stated there. The TLC instance of `M` is in `MCM`, its
configurations in `M.cfg` or `M_<run>.cfg`.

One remark on the proofs that are about sequences. The prover's translation to SMT states `0 <= Len(x)`
and `DOMAIN x = 1..Len(x)` of everything, also of functions that are no sequences, which
is false where a buffer with the domain `0..c - 1` stands beside a sequence. All obligations in which `Len`
occurs were therefore tried once more with Z3 after the first of these statements had been
taken out of them, and all hold; where one did not, the step was restated.

The suite stays small enough to be run after every change: a dozen runs, about one per
component, and forty properties. Where the code and its own comments disagree in more
places than there are runs for, the disagreement is told in the text.

Definitions whose names end in `_slip` are not part of any specification: each is the
definition after it with one plausible slip, kept so that a reader can substitute it and
see which property notices.

## 3. The requesting side of a session: `RpcSession`, `RpcCompletion`

Variables carry the code's names: `valid` is `_valid`, `requests` the table
`_rq->requests`, `idgen` its generator, `mtx` the owner of `_mtx_protocol`, `rqm` the
owner of the mutex of `_rq->lock` where the code keeps it over a blocking read. Each
thread (caller, notifier, closer, worker of the event procedure) has a `pc`, and `node`
is the request node or handler it holds in a local variable. What is posted to the event
procedure is counted (`receives`, `notices`) or collected (`replies`, `aborts`). The peer
answers a request once, in one or two parts, with a value, an error or a payload that
does not fit, and may hang up.

| code | actions |
|---|---|
| `async_request` | `Emplace`, `Send`, `Flush`, `Withdraw` |
| `wait`, `wait_for`, `request_with` | `Wait`, `Wake`, `Timeout` |
| `abort_request` | `AbortTake`, `AbortCall`, `AbortNotify`, `AbortRelease` |
| `close`, `notify`, `_set_expired` | `Close`, `Notify` and the steps of `Expire` |
| receive cycle, `_handle_reply` | the steps of `WorkerStep` |
| peer and connection | the steps of `Peer` |

A critical section of one lock that does not block is one action. `crashed` marks the
dereference of an empty `pool_ptr`: the behaviour of the program is undefined from there,
so the model stops; that is why the runs have no deadlock check. They need none for
another reason too: callers and closers act once, so the system stops when they are done.

`RpcCompletion` is the contract of one request: issued, accepted, then answered or
aborted once, or dropped. `RpcSession` implements it under the mapping `Contract`.

| run | asks | bounds |
|---|---|---|
| `session_core` | types, ownership of nodes and locks, the receive cycle, stray requests, the contract | 2 calls (one waits, with a timeout), 2 workers, 1 closer |
| `session_close` | `CloseReturns`, `ExpiryCompletesAll` and `ReplyCompletes` under `FairSpec` | 2 calls, 1 worker, 1 notifier, 1 closer |
| `session_hang` | violated: `WaitEnds` | 1 waiting call, 1 worker, 1 closer |

Two calls suffice for every pairwise race over an entry, and with `MaxMsgId` 2 the id
generator wraps; two workers let an
abort completion or a reply handler run beside the receive cycle; the closer is the
third party that expires the session. One message is in transit at a time, because the
session reads one at a time from a stream.

Fairness: `FairSpec` asks weak fairness of each thread that can go on, since each is an
operating-system thread and its locks are given up by others; nothing is asked of the
peer, of timeouts, or of who calls, notifies or closes. `ReplyCompletes` is an
implication: it assumes in addition a peer that ends the messages it begins (`PeerFair`).

`CloseReturns` rests on one assumption about the platform: that closing the connection ends a read
in which another thread is blocked (`ReadCut`). The code relies on it when it closes the
connection before it asks for the lock (311-314). The in-memory pipe does so (section 8). The asio
connection shuts down the sending side and closes the descriptor (`asio.hxx:75-80`); whether
a `receive` of another thread then returns is up to the operating system, and where it
does not, `close` waits until the peer hangs up.

Where the code and its own comments disagree:

- `session_hang` shows that the expiry clears the table without waking the threads that
  wait for it.
- `async_request` rejects a request that failed to be written (`session.hxx:234-237`), but
  when the session expires at the same moment the request's handler is invoked as well.
- `wait` may return before the handler of the request was invoked: the table is cleared
  at 557, the abort completions run later (609).
- An abort completion can be posted for an entry whose node `_handle_reply` has moved out
  (545, 549), and then dereferences nothing. The model stops there (`crashed`).
- A request that timed out reports `aborted`, not `timeout` (`signature.hxx:106`,
  `defs.hxx:90`): the abort's handler runs in the same thread, later.
- The request lock is kept while the body of a reply is read
  (`remote_procedure_message_proxy.hxx:106`): `wait_for` outlives its timeout.
- The receive cycle calls `_set_expired` after it released the protocol lock
  (`session.hxx:451`), though the comment at 563 says the lock is always taken: see the
  worker's steps in `Owns`.
- An id generator that wrapped onto a request in progress gives two handles one id, and
  `try_emplace` (221) drops the node of the later request, whose handler is never invoked
  (`NextId`, `Emplace`). None of the properties checked here is about such a run: `OneOwner` allows a
  node to be gone, and the contract supposes that the generator does not come round (below).
- A request is answered once by a peer with this library. A second reply that is read while
  the completion of the first runs would find an entry whose node was moved out (592), and
  `find_reply_result_buffer` (479) dereferences it. The peer of the model does not do this.

Proved, for any sets of threads and any `MaxMsgId` (`RpcSessionProofs`): types, `OneOwner`,
`AtMostOnce`, `LocksFollowThreads`, `OneReceiveCycle` and `NoStrayRequest`. `OneOwner` is
not inductive alone: that a handler is invoked once follows from the node being in one
place before and in none after, so the inductive invariant also ties each place to the
`pc` of the thread that holds the node and to `fired`. `NoStrayRequest` rests on the locks:
a caller that files its request beside an expiry is, until it withdraws it, in one of
four places, because `_valid` was read under the lock that the sweep takes.

Proved when no more than `MaxMsgId` calls are made (second half of `RpcSessionProofs`): `Spec` implements
`RpcCompletion`. The hypothesis is about the code: the generator does not come round, so
that an id names one request. Without it the promise is broken, by the last item above
(with one id and two calls TLC shows it in a few steps); the runs have two calls and two ids, and
keep to it. The invariant of this proof (`Bookkeeping`) counts the calls that
have begun, which is what the generator is at, and says that an id in the table, in a
handle or with the peer is that of the call it belongs to.

Only model-checked: liveness. Not modelled: byte totals and the destructor. Manual flush is
part of `InmemoryPipe`, and what the session answers to the peer part of `RpcReceive`.

## 4. The ring allocator: `RingAllocator`

`memory` is the buffer as cells of `node_size` (8) bytes, `head` and `tail` are `_head`
and `_tail` as offsets. Headers live in the buffer; users overwrite every cell of the
data they were given with `Junk`, so an allocator that confuses data and header is
caught. `Allocate` is one call of `allocate_nt`, with one disjunct for each way the code
finds room (`AllocateFirst`, `AllocateAtEnd`, `AllocateAround`, `AllocateBetween`); the
failing call that leaves a dummy behind is part of it. `Deallocate` marks a node;
`FlushRing` is one round of the loop of `_flush_ring`, which nothing interrupts
(`flushing`). The allocator has no lock of its own: its users hold theirs for the call.

Run `ring`: a buffer of 7 cells and requests of 0, 1, 8, 9, 24, 48 and 56 bytes: nothing,
less than a cell, one, just above one, three cells, the whole buffer, and too much. Seven
cells hold up to seven empty blocks, wrap after three ordinary ones, and let the last node end
exactly with the buffer; every order of returns is explored.

Proved for every capacity and every set of requests (`MemoryProofs`): the five
invariants of the run. The inductive invariant adds to `TypeOK` that the nodes from tail
to head are laid out in ring order without gaps or overlaps (`Laid`) and that the blocks
in use are exactly the unmarked ones, in that order, with their data untouched (`Kept`).
Without `Laid` a step that wraps could not be shown to stay clear of the oldest header;
without `Kept` an out-of-order return could not be shown to lose nothing. Assumed: the
capacity is positive, requests are natural numbers, and users write within their blocks.

Not modelled: the fallback allocator (instantiated nowhere), the move operations, sizes
near `SIZE_MAX`.

## 5. The event queue: `EventQueue`, `MessageQueue`

`front`, `back` and `next` are the list of nodes, `stopped` the flag, `asleep` the
threads in the condition variable of `ewait_`, `taken` the rest of a list that `clear`
took. `queue`, `batch` and `fate` are history. The predicate of `ewait_`, `post`'s push
with its notification, and `stop` run under the mutex of `ewait_`, so each is an action;
`clear` takes `msg_lock_` alone, and `restart` no lock.

| code | actions |
|---|---|
| `post`, `dispatch` | `Post`, `Dispatch` (when called by a message of this queue) |
| `stop`, `restart` | `Stop`, `Restart` |
| `exec`, `run_for`, `run_until`, `flush` | `Enter`, `Loop`, then the outcomes of the predicate: `Retrieve`, `Return`, `Sleep`; `WakeUp` (spurious), `Timeout` |
| `_exec_single`, `_release` | `Run`, `Release` |
| `clear` | `Clear`, `ReleaseNext` |

Run `queue`: three messages, a thread in `exec`, one in `run_for`, one in `flush`, two in
`clear`. Three messages give a list with a first, a middle and a last node; with three
executors there is one to take a wake-up meant for another, and two cleaners hold two
lists at once. Fairness is weak fairness of each executor and of a cleaner that has
begun: they are threads that can run, and messages are taken to return. Nobody need ever post, stop or restart, time need not pass,
and the condition variable need not wake anybody without a notification.

`restart` does not wait for a `stop` to be noticed: threads woken by `stop` that look
again after `restart` go back to sleep. `StopEndsExec` therefore speaks of a stop that is
not taken back.

Proved for every set of messages and threads, the executors being finitely many
(`SignalProofs`): types, `Linked`, `OneHolder`, `NoLostWakeUp`, `StopWakesAll`, and
`ImplementsQueue`, the refinement of `MessageQueue`. The inductive invariant adds that no
list holds a message twice, that a message is in the queue exactly when its fate is
`posted`, and that an executor holds one exactly from retrieval to release: without the
first, popping the last node could not be told from popping another; without the second,
`clear` could not be shown to discard what the abstract queue discards. `NoLostWakeUp`
is proved on top of it with `StopWakesAll`, by counting who is awake. Liveness is only
model-checked.

Not modelled: the arguments and results of messages, `allocate_temporary_payload`, loops
that a message starts on its own queue, and whether a node comes from the ring allocator
or the heap. `thread_pool` and `event_queue_worker` add threads in `exec`, which the
model has, and a `clear` after them.

## 6. Archives: `Archive`, `ArchiveWriter`, `MsgpackReader`, `JsonReader`

Writers and readers are objects that one client calls, so their calls are operators from
the state before a call to the state after it, and an error is part of the state. An
element of a document is the header of a number, string, nil, binary, array or map; a
MessagePack stream is the sequence of these, a JSON text that of its brackets, commas,
colons and scalars.

`ArchiveWriter` is `write_context_helper`, which counts keys and values in a stack of
scopes, with what the two writers do around it. `MsgpackReader` keeps a stack of scopes
with the elements left in each; leaving or skipping a container runs two mutually
recursive functions, whose scopes are on the same stack, so that one operator
(`BreakStep`) is one turn of whichever loop runs. An exception is recoverable or not,
as its class says, and may leave the stream between the header and the bytes of an
element (`torn`). `JsonReader` is `jsmn` as a fold over the text, and the reader's cursor
over the tokens; a string knows where it starts and ends, and an empty one ends where it starts.

The stack of scopes of `msgpack::reader` is a vector that was told to reserve some depth
(`Reserved`; by default 0, and 8 in `msgpack-rpc.hxx:53`). `_break_scope` keeps a pointer to its scope
while `_skip_once` opens scopes (372-377, 477). `room` is how many scopes the vector holds before it
grows, and `stale` the scope to which a loop has a dangling pointer since it grew. The next
turn of that loop reads freed memory (`Dangles`): the program may do anything then, and the
model says nothing further of the reader (`err = "undefined"`).

`Archive` composes them: a client writes one element and another one reads it. Both may
try every call in any order, within the restrictions that the module's comment states,
which the code leaves to its callers.

Run `archive`: up to five elements and announced sizes 0, 1 and 2, hence three levels of
nesting, an object with two keys, an empty container in a non-empty one, and every wrong
announcement by one. `MaxEntered` bounds the scopes that a client of the JSON reader
enters, because `goto_key` can go back for ever. `Reserved` is 2, so that a loop in the first scope is
within what was reserved, and one in the second is not. Strings of a JSON text are empty or not.
The library is taken to be built without assertions (`NDEBUG`), which decides only what happens
in `goto_key` after it went astray.

- `WellFormed`: whatever calls the writing client tried, what the writer lets it complete
  is one element with the number of members it announced everywhere.
- `JsonParsed`: the commas and colons are where the parser needs them, so that it finds every
  element, unless the text is a lone number or null.
- `MsgpackInStep`, `JsonInStep`: after any reading, skipping, leaving and `goto_key`, the
  reader's scopes are the containers that are open at its position, with the number of
  elements that are still to come, or it has thrown. The reference is what the document
  itself says (`Remaining`, `Elements`). `MsgpackInStep` says besides where freed memory is read: only in
  a loop over a scope as deep as was reserved, or deeper. `JsonInStep` says besides where the reader
  is lost: only in an object that has an empty string or binary, by `goto_key`, and not after it left
  that object.

Seen in the model and without a run, each a statement of the properties above:

- With a reader that reserves nothing, which is the default, `end_array` of `[[..]]` before its
  end enters the inner array, the vector grows, and the loop of the outer one goes on with a pointer
  to where its scope was (`msgpack-reader.hxx:372-377`).
- `jsmn` is strict: a number or `null` needs something after it (`jsmn.h:157-161`). `_prepare`
  feeds it one character after the other until a token is complete
  (`json-reader.hxx:381-393`), so a lone number or `null` at the end of a stream, which
  `json::writer` writes, is never read: the reader throws "unexpected end of file". When
  white space follows, it is read.
- An empty string or binary has no extent (`jsmn.h:207`). `step_over` (186-194) then
  returns the same token, and `goto_key` takes values for keys from the first empty value on
  (472-489). With assertions the process ends there; without them `goto_key` finds a value of
  the name it looks for and reads on from there, or finds nothing.
- `read(int64_t&)` and `read(double&)` also read strings, and an empty string is a number: nothing of it
  is left unread (229-262).

What the model shows beside: skipping an object one of whose values is a container throws
in `msgpack::reader`, because `_skip_once` enters the container with the function for
readers, which insists on `read_key_next` (487-498, 527-534). This is what ends the
process in `rpc_receive_terminate`. `_break_scope` of an open binary reads its bytes as
elements; the client is assumed to end binaries itself. JSON's `end_object` of a scope
whose key was announced throws.

Proved for documents of any length with any announced counts and any `Reserved` (`ArchiveProofs`):
`MsgpackInStep` and `WellFormed`. `Remaining` is a fold; that one element more of the stream
is one `Count` more (`FoldStep`, in `MsgpackProofs`) is proved by an induction over the positions, with sets of
positions (`SetInduction`), because the library's theorems on induction take operators.
The invariant of the reader (`ReaderInv`, in `ArchiveProofs`) adds to `MsgpackInStep` that a binary can only be
the last scope, and that a loop of `_break_scope` which runs has a scope to leave. Each call
then takes an element where something is left (`Took`), enters or leaves a scope, or throws.
That a dangling pointer leads beyond what was reserved is a statement of its own (`Sound`, in the last
section of `MsgpackProofs`): the vector has at least that room, and a pointer is lost
only when the vector is full, to the last scope in it. It speaks of `room` and `stale` alone, so
that most calls keep it because they leave both.
Of the writer little can be said directly, since `WellFormed` is about the document alone
and the writer only counts. Its invariant (`WriterInv`) says that a reader which had read
along would be at the end of the document, in scopes of the same types, with
as many elements left in each as the writer has yet to count (`Follows`, `Due`). So a writer
that has popped all scopes has a reader outside of all scopes, which is what `WellFormed`
says; and what a writer does is shown with the lemmas about the reader.

Only model-checked: `JsonParsed` and `JsonInStep`. The parser of the JSON text is a fold
over symbols that writes back into tokens it made earlier, and the reader walks over them;
an induction would need the geometry of the tokens of every prefix of a text, which has
not been worked out.

## 7. Values and messages: `ObjectArchive`, `ObjectRestore`, `ObjectDump`, `RpcReceive`

`ObjectArchive` archives a value of a known type and `ObjectRestore` restores one:
numbers, strings, optionals, lists, dictionaries, tuples, variants, objects, and objects
archived as tuples. A value is a function from the paths of its parts to what is there,
so that what a restoration leaves behind, from an earlier value or from an exception in
the middle, is visible. The restoring code recurses over the type; `todo` is its call
stack, and one step of it makes at most one call of the reader. `ObjectDump` is
`dump_single_object`, which copies the error object of a reply to a JSON writer, with the
cleanups that leave its containers, at the end or when an exception passes: an exception
goes through the frames one at a time (`Unwind`), and in each the cleanup leaves the
container that this frame has entered.

`RpcReceive` is `handle_single_message` on a stream of messages: the type, the id and the
method are read, parameters or a result are restored by the type of the method or of the
waiting request, and the message is left by `end_array`, from the normal end or from one
of the handlers. `pool` holds the idle parameter buffers of each method, `buffer` the one
in use, `posted` the handlers that have been posted with theirs. `requests` are the requests that
wait for a reply: the completion of a reply erases its request (`Answer`, from `_handle_reply`), and a
reply to a request that is not there, or no longer, is read to its end and dropped (`expired`).

| code | actions |
|---|---|
| `handle_single_message`, header | `Begin`, `ReadType`, `ReadMsgid`, `ReadMethod` (with `checkout_parameter_buffer`) |
| parameters, results, errors | `ReadParams`, `RestoreValue`, `CloseParams`, `ReadResult`, `DumpError`, `Done` |
| `end_array` and skipping | `Break` |
| `_handle_receive_result`, handlers and replies | `Return`, `Answer` |

Run `rpc_receive`: every sequence of up to three of thirty-one kinds of messages, 30783
streams. Most are written by `ObjectArchive`, so that the sending and the receiving half
of the library meet, with the sender's types at times older or newer than the receiver's:
requests, notifications and replies that fit; unknown properties, missing properties,
too many parameters; wrong types at the top and deep inside nested containers; empty
optionals where there is no room for them; error objects with containers, nulls and
bytes; unknown methods and ids; a second reply to the same request, before and after the completion
of the first; messages that nest as deep as the reader has reserved, and deeper; no message at all.
Three messages put a message that does not fit between two that must not notice, and let
a buffer be used, returned and used again, with one handler still running or none.

- `BoundaryKept`: whatever happened in a message, the next one is read from its first byte
  and outside of all scopes; and freed memory is read (`undefined`, section 6) only in a loop over a
  scope as deep as the eight that are reserved, or deeper.
- `Delivered`: exactly the messages that fit reach the session, in order, but for a reply to a
  request that an earlier reply completed (`Late`), and each handler
  and each caller finds in its buffer what the peer sent, whatever was in the buffer before
  and wherever an earlier restoration into it stopped; the text of an error is the object
  that was sent. The one exception is part of the
  statement: a property, or an optional of an object archived as a tuple, of which nothing
  was sent, keeps what it had. A request with an unknown method or a parameter list that does
  not fit is answered.
- `AnsweredOnce`: no request is answered twice, be it with an error while it is read or by its
  handler later, and what is no request is not answered.

One restriction on the peer is stated as `RepliesAssumption`: a request that waits for a result
gets one reply in a stream. The first reply is restored into the caller's buffer and a second one before its completion
would be restored into the same buffer; one that is read while the completion runs
finds an entry without a node (section 3). A peer with this library sends one, which is
`AnsweredOnce`. Requests that wait for no result get several.

`rpc_receive_terminate` is violated: `handle_single_message` is `noexcept`, and a second
exception in one of its handlers ends the process. A well-formed request for an unknown
method, with an object that holds a container, has this effect.

Seen in the model and without a run:

- A message that nests deeper than eight and is left or skipped reads freed memory in
  `_break_scope`: a result of eight arrays in one another for a request that is not there
  is enough (`Nested(8)` of the run): the array of the message makes it nine scopes.
- The exception in `Delivered` is real: parameter buffers are not reset when they are
  checked out again (`service_builder.hxx:103-112`) and missing properties are allowed by
  default, so a handler may see the property of an earlier request, and an optional that
  was sent empty as the value of an earlier one.
- An empty optional that is a parameter, an element of a list or a member of a
  `std::tuple` is archived as null (`primitives.hxx:439-447`) and cannot be restored: the
  optional is filled and its value read from the null (449-463). Only objects look
  for the null (`object_core.hxx:755`).
- The index of a variant that is out of range throws `std::out_of_range`
  (`variant.hxx:96`), which is not an exception of the reader: the session expires, where
  any other misfit only costs the message.
- Error replies are written and not flushed (`msgpack-rpc.hxx:160-170`), so the caller gets
  them with the next message that happens to be sent.
- A request whose parameters are not an array, or that has no parameters at all, gets no
  reply; a reply of the wrong type leaves its request in the table.

- `dump_single_object` writes a null without reading it (`if_archive.hxx:494`), so a reply
  whose error object holds one ends the session if the null is the last value of an
  object, and otherwise the process: it writes the null again, the writer refuses, and the
  cleanups, which "MAY NOT THROW" (`cleanup.hxx:34`), pop a scope that is not complete.
  A binary in an error object is written into a scope that was not pushed for it. After
  a floating-point number the code falls through and reads a string (528-534); the model
  has no such numbers.

Proved (`RpcReceiveProofs`): `BoundaryKept` and `AnsweredOnce`, for any number of messages of any
content, any methods, any requests that wait, and parameter types of any depth, recursive ones
among them. What is assumed is stated in `RpcReceive`, and TLC evaluates it on the run:

- `MessagesAssumption`: a message is one element. This is what `WellFormed` says of all that the
  writers complete. Only so is there a boundary to keep. All messages of a connection have
  together fewer elements than `elems_left` can count. Without that, a scope whose `uint32_t` came
  round (`msgpack-reader.hxx:523`, `532`) could be left after all, 2^32 elements later.
- `RequestsAssumption`: the peer numbers its requests, so that an id names one.
- `RepliesAssumption`, as above.
- `TypesAssumption`: a type that can be restored has parts that can be restored. `refl` builds
  the metadata so.

`BoundaryKept` speaks of the moments between two messages, and nothing about such a moment
implies the next. The inductive invariant `RpcInv` says what holds in the middle:

- `Stream`: what is read is the messages, one after the other. Up to its last element, each is
  incomplete (`Bounds`), because each is one element.
- `Course`: while a message is handled, its array is the first scope of the reader, and the reader
  is in step with the stream and within the message (`Right`), or is astray (`Astray`): after a
  refused call, a scope counts more elements than the stream still has. Nothing leaves
  such a scope but an exception, so a reader that is astray does not come to a boundary
  unnoticed. It is the part that was hard to find: `_step_context` lowers
  `elems_left` also when it is zero and the call is refused.
- `Framed`, within `Course`: the call stack of the restoration fits the scopes. Each entry that will
  call `end_array` or `end_object` has a scope with its id and of its type, in the order of the stack, and
  what is restored next stands where a value may. Otherwise an `end_array` could leave a container
  of a caller. `Cleanup` is the same for the frames of a dump through which an exception
  passes, and `Heading` for the elements of the header.
- Until a loop has read freed memory, that is: in `undefined` nothing is left to say of the reader.
- `Replied`: of each request whether it is answered, posted to a handler, or still being read.
  `Identified` ties the id in hand to the message it was read from.

One lemma says this of each call of the reader (`InsideMoves`, `BreakInside` and those between),
one of each step of a restoration and of a dump, whatever the type (`RestoreStepIs`,
`DumpStepIs`), and one of each action. That a message whose parameters were refused is left
where it ends is then no longer a matter of types: it follows from the scopes alone.

Two statements stand beside `RpcInv` (`Reachable`). `Requested`: what waits for a reply is among what waited at
first. `Vector`: a loop has a dangling pointer only to a scope beyond those reserved, or at
their end; it is `Sound` of section 6, kept by each step of a restoration and of a dump because each makes at most
one call of the reader. So the theorems speak of messages of any depth, and what they say of one that
nests deeper than eight is: it is left at its boundary, or it is thrown out of, or it has led
to undefined behaviour, which no other message does.

Only model-checked: `Delivered`. It says what a restoration leaves in a buffer and which messages
fit; to prove it one would have to define the effect of a restoration on a value of any
type, a recursion over types, and compare it with the steps by induction over the type. The
library's induction theorems take operators as parameters, which the provers cannot
instantiate, and the messages of the run are made by `ObjectArchive`, which is RECURSIVE. Assumed in the model:
handlers do not change their parameters.

The session runs all of this under `_mtx_protocol`, so there is one thread here; what
other threads do meanwhile is in `RpcSession`.

## 8. The in-memory pipe: `InmemoryPipe`

Per end there are a sender, a handler and a closer. `strm`, `capacity` and `receiver` are
the fields of the pipe that an end reads; `obuf` and `avail` the bytes in its stream
buffer; `noSignal` its `_no_signal`. Bytes are counted. `Sync` is what `_do_sync` does
under the mutex of the pipe; the signal it then gives is a step of its own (`Signal`),
with no lock held, and the handler reads, re-arms and closes in between.

Run `pipe`: messages of one and three bytes, buffers of two and an initial capacity of
one, so that a message fits into a buffer, overflows it, and the queue grows; one end sends
up to two messages and the other answers one; the sessions flush after each message or by
hand; either end closes at any time. Fairness: senders and handlers that can go on do;
nobody has to send, flush by hand or close; a closer that waits for `_mtx_protocol` gets it
when it is free again and again (strong fairness of `CloseSession`, the only assumption on
a lock).

- `NoLostSignal`: a session whose handler is idle has no byte, or is about to be told.
- `OneSignal`: it is told once, while it waits, and only when there is data.
- `AllRead`, `CloseReturns`: what is flushed is read unless the end is closed, and close
  returns although a handler may hold `_mtx_protocol` and wait for the rest of a message.

Proved for all lengths and numbers of messages and all sizes of the buffers (`SignalProofs`): `NoLostSignal`
and `OneSignal`. Neither is inductive: the invariant adds, of each end,
the flags that go with each state of its handler (`Receiving`), and that the bytes under way
to it are no more than what is unread of the messages it was sent (`Backed`): otherwise a handler
could be told of a byte that belongs to no message.

Seen and without a property: `close` means to clear the receivers of both pipes and clears
that of its own pipe twice (`inmemory_pipe.hxx:104-105`), so the peer that reads waits for
ever. The sender uses the receiver after the lock was released (193): when that end is
destroyed in between, the pointer dangles. The destruction is left out of the model.

## 9. Object pools: `Pool`

A pool and each thread that checks a node in share the `pool_base`; `pin` is that share,
`idle` its list, `owner` a node's weak reference. Run `pool`: three threads, two pools and
three nodes, all symmetric: a node moves between threads and pools while one thread shrinks
or destroys. `OneHolder` counts the places where a node
is (in the hands of a thread, once or more in an idle list, in a list that is being deleted) and says that
this is one place from its making to its deletion, and none before and after. `NoneForgotten`
says that no idle node is left in a base that nobody will destroy. The
comment in `~session` that it waits for the pool's nodes (`session.hxx:158`) describes
something that does not happen and is not needed: a node that outlives its pool is
disposed of by the `pool_ptr`.

Proved for any threads, pools and nodes (`MemoryProofs`): both. Counting cannot be done one
step at a time, so the proof is about four statements that together say the same: what two
threads hold is apart, what is idle is held by nobody, no list has a node twice
(`HeldApart`, `IdleApart`, `NoneTwice`), and what was made and not freed is somewhere
(`NoneLost`).

## 10. The event broadcaster: `EventList`

Two linked lists of shared pointers; an invocation first sorts the new handlers in and
then walks, following `p_next` without the lock. `Append`, `Remove`, and per thread
`Invoke`, `ReadFront`, `Take`, `Call`, `Expire`, `Relock`. Run `events`: three handlers, two of
the same priority, two threads that invoke once each, removals and expiry at any time.
`Linked`: the lists hold exactly the handlers that are appended and not detached, and
`p_prev` is the inverse of `p_next`. `Invoked`: no handler twice, none that was removed
before, and all others, unless one consumed the event or the node about to be taken was
removed.

Proved for any finite set of handlers, any priorities and any threads (`EventListProofs`):
both. Neither says how a list is linked, so the inductive invariant does: a list is the
set of its nodes, of which no part is closed under `p_next`, forwards or backwards (`List`).
There is then no ring, and what `p_next` leads to from the first node is the set (`ChainOfList`).
`Two` says this of both lists, and each operation, `flush` with its loops among them, is
shown to keep it. What an invocation has yet to come by is a list too, within that of the
handlers (`Walks`), disjoint from what it called; `detach` takes the node out of it, and a `flush` of another
thread may add to it. The loops of the code are recursive functions over numbers. The
induction over them is done with sets (`SetInduction`), from the well-foundedness
of the numbers, because the library's theorems on induction take operators.

Seen and without a property: a handler that removes itself through its handle, rather than
by its return value, makes the invocation drop the last reference to its node while it
holds `mtx_`; the node's destructor takes `mtx_`, a spinlock, again (`event.hxx:133`), and
the thread stays there: `pc = "stuck"`. A new handler is never put in front of the first
one, whatever its priority (298-317). A removed handler whose successor was about to be taken
cuts the rest of the list off from that invocation (`cut`).

## 11. The circular queue: `CircularQueue`, `BoundedQueue`

`CircularQueue` has the buffer, head and tail of each queue, with one cell more than its
capacity, and one action per operation: single and bulk insertion and removal, rotation,
resizing, copying and moving between two queues. `BoundedQueue` says what each does to a
sequence, and `ImplementsBoundedQueue` that every step does that. Run `circular_queue`: two
queues of up to three elements, two values, bulks of up to three: every position of head and
tail, full, empty and wrapped. Two values that are symmetric tell an element from its
neighbour.

Proved for any queues, values, capacities and bulk lengths (`CircularQueueProofs`):
`ImplementsBoundedQueue`. The inductive invariant is small: the indices of a usable queue
are in its buffer, and an unusable queue is empty. The work is in the indices: while none
passes the buffer twice the modulus is a distinction of two cases, and each
operation is compared with its promise element by element, on a buffer, a head and a
tail that are not yet those of a state.

Assumed of the caller: a capacity above zero. `reserve_shrink(0)` leaves head and tail as
they are, and `is_full` is wrong afterwards (`circular_queue.hxx:162-187`).

## 12. Not modelled

- Session group, session builder, event procedure: a set under a mutex, and setters.
  Between `insert` and the totals of a new session the group's totals are off
  (`group.hxx:109-124`).
- `notify_queue`, `shared_spinlock`, `worker`, `pipeline`, `local_async`, `dispose_guard`: nothing
  in the library uses them. What is wrong in them is in plain sight: `shared_spinlock::lock` exchanges `false` and excludes nobody
  (`spinlock.hxx:77`); `future::wait_until` waits while the state is not busy
  (`local_async.hxx:91`); `pipe_mono::commit` sets `_busy` after the lock under
  which it was found clear, and assumes a single committer (`pipeline.hxx:67-75`). A model
  would restate that.
- `stack_allocator`, `queue_allocator`, `list_pool`, `event_registry`: a moving pointer, an
  unfinished declaration, a list that splices, a map under a lock.
- The other containers, utilities, algorithms and math: values without behaviour over time.
- Number formats, escapes, base64 and the stream buffers: conversions, which the models of
  the archives stand above.
- The asio connection beyond its signals: its socket and timers belong to asio. After a
  partial send it sends the buffer from its beginning again (`asio.hxx:185`), which a
  blocking socket does not provoke.
- The metadata of reflection: built from templates, constant at run time.
- Vendored code and tests.
