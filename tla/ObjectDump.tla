----------------------------- MODULE ObjectDump -----------------------------
(***************************************************************************)
(* if_reader::dump_single_object (refl/detail/if_archive.hxx:437-540) from  *)
(* the reader of MessagePack to the writer of JSON: how the session keeps   *)
(* the error object of a reply, whose type it does not know.                *)
(*                                                                          *)
(* It recurses over the object; todo is its call stack, as in               *)
(* ObjectRestore.  A container that was entered is left by two cleanups:    *)
(* the writer pops its scope, then the reader ends its own.  An exception   *)
(* runs them for every container on its way, and one that is thrown by them *)
(* meanwhile terminates the process.  Numbers are integers.                 *)
(***************************************************************************)
EXTENDS MsgpackReader

T == INSTANCE ArchiveWriter

Dump               == [op |-> "dump"]
Dumping(type, id)  == [op |-> "dumping", type |-> type, id |-> id]
Leave(type, id)    == [op |-> "leave", type |-> type, id |-> id]
Left               == [op |-> "left"]
Rethrow(err)       == [op |-> "rethrow", err |-> err]

\* An exception passes through the frames of todo, one at a time.
Unwind(r, w, err, todo) ==
    CASE Head(todo).op = "dump"    -> [r |-> r, w |-> w, todo |-> <<Rethrow(err)>> \o Tail(todo)]
      [] Head(todo).op = "dumping" -> [r |-> r, w |-> w, todo |-> <<Leave(Head(todo).type, Head(todo).id), Rethrow(err)>>
                                                                    \o Tail(todo)]
      [] OTHER                     -> [r |-> Throw(r, err), w |-> w, todo |-> todo]

\* What is left to do after a call, unless the reader or the writer threw.  A
\* writer_exception is not a reader_recoverable_exception.
Dumped(r, w, todo) ==
    IF Ok(r) /\ ~w.err THEN [r |-> r, w |-> w, todo |-> todo]
    ELSE Unwind([r EXCEPT !.err = "ok", !.goal = NoGoal], [w EXCEPT !.err = FALSE],
                IF Ok(r) THEN "fatal" ELSE r.err, todo)

\* A binary is pushed nowhere: its bytes are counted as elements of the scope that is open
\* until there are too many.
DumpBinary(x, w, todo) ==
    IF ~Ok(x) THEN Dumped(x, w, todo)
    ELSE IF ElemLeft(x) = 0 THEN Dumped(Throw(EndBinary(x), "recoverable"), w, todo)
    ELSE Dumped(EndBinary(x), T!Refuse(IF w.ctx = <<>> THEN w
                                       ELSE T!SetScope(w, [T!Scope(w) EXCEPT !.size = T!Scope(w).capacity + 1])),
                todo)

\* _dump_once_impl up to the loop over the elements.  A null is written and not read.
DumpOnce(in, r, w, todo) ==
    LET e      == in[r.pos]
        array  == BeginArray(in, r)
        object == BeginObject(in, r)
        write  == T!Write("json", w, e.k, e.v)
        enter(x, type, n) ==
            IF ~Ok(x) THEN Dumped(x, w, todo)
            ELSE Dumped(x, T!Push("json", w, type, n), <<Dumping(type, x.gen)>> \o todo)
    IN  IF r.pos > Len(in) THEN Dumped(Throw(r, "fatal"), w, todo)
        ELSE CASE e.k = "map" -> enter(object, "object", e.n)
               [] e.k = "arr" -> enter(array, "array", e.n)
               [] e.k = "bin" -> DumpBinary(BeginBinary(in, r), w, todo)
               [] e.k = "nil" -> Dumped(r, write, todo)
               [] e.k = "num" -> LET x == ReadNumber(in, r) IN Dumped(x, IF Ok(x) THEN write ELSE w, todo)
               [] e.k = "str" -> LET x == ReadString(in, r) IN Dumped(x, IF Ok(x) THEN write ELSE w, todo)
               [] e.k = "ext" -> Dumped(Throw(r, "fatal"), w, todo)

\* One turn of the loop over the elements of a container.
DumpTurn(r, w, loop, todo) ==
    LET again == <<loop>> \o todo
        key   == ReadKeyNext(r)
    IN  IF ShouldBreak(r, loop.id) THEN Dumped(r, w, <<Leave(loop.type, loop.id)>> \o todo)
        ELSE IF loop.type = "array" THEN Dumped(r, w, <<Dump>> \o again)
        ELSE Dumped(key, IF Ok(key) THEN T!WriteKeyNext(w) ELSE w, <<Dump, Dump>> \o again)

\* The cleanups of a container: what they throw is thrown by the reader here.
LeaveContainer(r, w, loop, todo) ==
    LET popped == T!Pop("json", w)
    IN  IF popped.err \/ r.torn THEN [r |-> Throw(r, "fatal"), w |-> w, todo |-> <<Left>>]
        ELSE [r |-> EndScope(r, loop.type, loop.id), w |-> popped, todo |-> <<Left>> \o todo]

DumpOps == {"dump", "dumping", "leave", "left", "rethrow"}
DumpStep(in, r, w, todo) ==
    LET next == Head(todo)
        rest == Tail(todo)
    IN  CASE next.op = "dump"    -> DumpOnce(in, r, w, rest)
          [] next.op = "dumping" -> DumpTurn(r, w, next, rest)
          [] next.op = "leave"   -> LeaveContainer(r, w, next, rest)
          [] next.op = "left"    -> [r |-> r, w |-> w, todo |-> rest]
          [] next.op = "rethrow" -> Unwind(r, w, next.err, rest)

\* In a cleanup, where an exception is one too many.
InCleanup(todo) == todo # <<>> /\ Head(todo).op \in {"leave", "left"}
=============================================================================
