--------------------------- MODULE MsgpackReader ---------------------------
(***************************************************************************)
(* cpph::archive::msgpack::reader (refl/archive/msgpack-reader.hxx): the    *)
(* calls of a client that walks through a stream of MessagePack elements,   *)
(* as functions from the state of the reader to its state after the call.   *)
(*                                                                          *)
(* The stream is a sequence of elements [k, n]: the header of a number, a   *)
(* string, nil, an extension, a binary of n bytes, an array of n elements   *)
(* or a map of n pairs, with the bytes of a number, a string or a binary.   *)
(* Which of the 8, 16 or 32 bit forms encodes it makes no difference here.  *)
(*                                                                          *)
(* A call that throws records the class of its exception: "recoverable" for *)
(* a reader_recoverable_exception, "fatal" for any other.  An exception     *)
(* passes through the functions called after it.  The stream is torn when a *)
(* call left it between the header and the bytes of an element: what is     *)
(* read next is then no element.                                            *)
(*                                                                          *)
(* _skip_once and _break_scope call each other; the scopes they open are on *)
(* the reader's own stack, so one BreakStep is one turn of the loop of      *)
(* whichever _break_scope runs, and goal is the depth at which the          *)
(* outermost one returns.                                                   *)
(*                                                                          *)
(* The stack is a vector, and _break_scope keeps a pointer into it while    *)
(* _skip_once opens scopes: once the vector has grown in between, the loop  *)
(* reads freed memory.  That is undefined behaviour, and nothing is said of *)
(* a reader after it (err = "undefined").  room is what the vector holds    *)
(* before it grows, stale the deepest scope whose loop is left with such a  *)
(* pointer, or 0.                                                           *)
(***************************************************************************)
EXTENDS Integers, Sequences, SequencesExt, FiniteSetsExt

Flat    == {"num", "str", "nil", "ext", "bin"}   \* elements without elements
Kinds   == Flat \union {"arr", "map"}

\* elems_left is a uint32_t.  This stands for 2^32 - 1: odd, and more than is left in
\* any stream here.
Wrapped == 2^30 - 1
NoGoal  == -1

\* A reader whose constructor was given the depth to reserve
Start(depth) == [pos |-> 1, scopes |-> <<>>, room |-> depth, gen |-> 0, goal |-> NoGoal,
                 stale |-> 0, err |-> "ok", torn |-> FALSE]

Ok(r)        == r.err = "ok"
Throw(r, e)  == IF Ok(r) THEN [r EXCEPT !.err = e, !.goal = NoGoal, !.stale = 0] ELSE r
Advance(r)   == IF Ok(r) THEN [r EXCEPT !.pos = @ + 1] ELSE r
\* Header is read and step throws: the bytes of the element are still to come.
TornBy(r, s) == IF Ok(r) /\ ~Ok(s) THEN [s EXCEPT !.torn = TRUE] ELSE s

Top(r)       == Last(r.scopes)
SetTop(r, s) == [r EXCEPT !.scopes[Len(r.scopes)] = s]
InScope(r, type) == r.scopes # <<>> /\ Top(r).type = type
KeyOrder(s)  == s.type = "object" /\ s.left % 2 = 0
Less(s)      == IF s.left = 0 THEN Wrapped ELSE s.left - 1

\* _step_context: one element of the scope is about to be read.
StepContext(r) ==
    IF ~Ok(r) \/ r.scopes = <<>> THEN r
    ELSE LET s == Top(r)
             key == IF KeyOrder(s) THEN FALSE ELSE s.key
             next == SetTop(r, [s EXCEPT !.left = Less(s), !.key = key])
         IN  IF s.type = "binary" \/ (KeyOrder(s) /\ ~s.key) THEN Throw(r, "recoverable")
             ELSE IF s.left = 0 THEN Throw(next, "recoverable") ELSE next

\* _step_context_on_skip: as above, without validating the order of keys and values.
StepOnSkip_slip(r) == r
StepOnSkip(r) ==
    IF ~Ok(r) \/ r.scopes = <<>> THEN r
    ELSE LET next == SetTop(r, [Top(r) EXCEPT !.left = Less(Top(r))])
         IN  IF Top(r).left = 0 THEN Throw(next, "recoverable") ELSE next

\* _verify_not_key_type
VerifyNotKey(r) ==
    IF InScope(r, "object") /\ (KeyOrder(Top(r)) \/ Top(r).key) THEN Throw(r, "recoverable") ELSE r

\* _verify_eof of the next header, and the type error of _read_number and
\* _read_elem_count, both before the header is consumed.
Take(in, r, kinds) ==
    IF r.pos > Len(in) THEN Throw(r, "fatal")
    ELSE IF in[r.pos].k \notin kinds THEN Throw(r, "recoverable")
    ELSE Advance(r)

\* emplace_back moves the scopes of a full vector, which grows to twice its size (libstdc++).
\* The scope of a loop that runs is then the last of as many as there was room for.
Grown(r) == IF Len(r.scopes) < r.room THEN r
            ELSE [r EXCEPT !.room = IF @ = 0 THEN 1 ELSE 2 * @,
                           !.stale = IF r.goal = NoGoal THEN @ ELSE r.room]
NewScope(r, type, n) ==
    IF ~Ok(r) THEN r
    ELSE [Grown(r) EXCEPT !.gen = @ + 1,
                   !.scopes = Append(@, [type |-> type, key |-> FALSE, id |-> r.gen + 1,
                                         left |-> IF type = "object" THEN 2 * n ELSE n])]

Opened(in, r, kind, type) ==
    LET header == Take(in, r, {kind})
        step   == StepContext(header)
    IN  IF Ok(step) THEN NewScope(step, type, in[r.pos].n)
        ELSE IF kind = "bin" THEN TornBy(header, step) ELSE step

BeginArray(in, r)  == Opened(in, VerifyNotKey(r), "arr", "array")
BeginObject(in, r) == Opened(in, VerifyNotKey(r), "map", "object")
BeginBinary(in, r) == Opened(in, r, "bin", "binary")

ReadNumber(in, r) == StepContext(Take(in, r, {"num"}))
ReadString(in, r) == LET header == Take(in, r, {"str"}) IN TornBy(header, StepContext(header))

\* binary_read_some with room for n bytes
ReadBinary(r, n) ==
    IF ~InScope(r, "binary") THEN Throw(r, "recoverable")
    ELSE SetTop(r, [Top(r) EXCEPT !.left = @ - Min({n, @})])

EndBinary(r) ==
    IF ~InScope(r, "binary") THEN Throw(r, "recoverable")
    ELSE [r EXCEPT !.scopes = Front(@)]

ReadKeyNext(r) ==
    IF ~InScope(r, "object") THEN Throw(r, "recoverable")
    ELSE IF ~KeyOrder(Top(r)) \/ Top(r).key THEN Throw(r, "fatal")
    ELSE SetTop(r, [Top(r) EXCEPT !.key = TRUE])

ShouldBreak(r, id) == r.scopes # <<>> /\ Top(r).id = id /\ Top(r).left = 0
ElemLeft(r)        == Top(r).left

\* _skip_once
SkipOnce(in, r) ==
    IF r.pos > Len(in) THEN Throw(r, "fatal")
    ELSE CASE in[r.pos].k = "num" -> StepOnSkip(Advance(r))
           [] in[r.pos].k = "nil" -> Advance(StepOnSkip(r))
           [] in[r.pos].k \in {"str", "bin", "ext"} -> TornBy(r, StepOnSkip(Advance(r)))
           [] in[r.pos].k = "arr" -> BeginArray(in, r)
           [] in[r.pos].k = "map" -> BeginObject(in, r)

\* read(nullptr): a container is skipped by ending what was begun.
Skip(in, r) ==
    LET s == SkipOnce(in, r)
    IN  IF Ok(s) /\ in[r.pos].k \notin Flat THEN [s EXCEPT !.goal = Len(r.scopes)] ELSE s

\* One turn of the loop of _break_scope, or its return.  The rest of an open binary is
\* read as if it held elements.
BreakTurn(in, r) ==
    IF Top(r).left = 0
    THEN [r EXCEPT !.scopes = Front(@), !.goal = IF Len(r.scopes) - 1 = @ THEN NoGoal ELSE @]
    ELSE IF Top(r).type = "binary" THEN [Throw(r, "fatal") EXCEPT !.torn = TRUE]
    ELSE SkipOnce(in, SetTop(r, [Top(r) EXCEPT !.key = @ \/ KeyOrder(Top(r))]))
\* The loop finds its scope through the pointer that it keeps.
Dangles(r) == r.stale # 0 /\ r.stale = Len(r.scopes)
BreakStep_slip(in, r) ==
    IF Top(r).left > 0 THEN SkipOnce(in, SetTop(r, [Top(r) EXCEPT !.key = @ \/ KeyOrder(Top(r))]))
    ELSE [r EXCEPT !.scopes = Front(@), !.goal = NoGoal]
BreakStep(in, r) == IF Dangles(r) THEN Throw(r, "undefined") ELSE BreakTurn(in, r)

\* end_array and end_object: _calc_num_break_scope, then the loop over _break_scope.
EndScope(r, type, id) ==
    LET at == {i \in DOMAIN r.scopes : r.scopes[i].id = id}
    IN  IF at = {} THEN Throw(r, "fatal")
        ELSE IF \E i \in at : r.scopes[i].type # type THEN Throw(r, "recoverable")
        ELSE [r EXCEPT !.goal = Max(at) - 1]

-----------------------------------------------------------------------------
\* What the stream says: how many elements are still to come in each container that
\* is open after the first elements of it.
Open(left)   == LET some == {i \in DOMAIN left : left[i] # 0}
                IN  SubSeq(left, 1, IF some = {} THEN 0 ELSE Max(some))
Count(left, e) ==
    LET rest == Open(left)
        less == IF rest = <<>> THEN rest ELSE Front(rest) \o <<Last(rest) - 1>>
    IN  CASE e.k = "arr" -> Append(less, e.n)
          [] e.k = "map" -> Append(less, 2 * e.n)
          [] OTHER -> less
Remaining(in) == Open(FoldLeft(Count, <<>>, in))

\* The containers of elements that are open: a binary is no such container, and nothing is
\* entered in one.
Containers(r) == IF InScope(r, "binary") THEN Front(r.scopes) ELSE r.scopes
Lefts(scopes) == [i \in DOMAIN scopes |-> scopes[i].left]

\* The reader is where it believes to be: its scopes are the containers open at its
\* position, each with as many elements left as the stream has for it.
InStep(in, r) ==
    /\ ~r.torn
    /\ \A i \in DOMAIN Containers(r) : r.scopes[i].type # "binary"
    /\ Open(Lefts(Containers(r))) = Remaining(SubSeq(in, 1, r.pos - 1))
=============================================================================
