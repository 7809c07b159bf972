--------------------------- MODULE ObjectRestore ---------------------------
(***************************************************************************)
(* How refl restores a value of a known type from an archive reader         *)
(* (object_core.hxx, primitives.hxx, types/tuple.hxx, types/variant.hxx),   *)
(* here from the reader of MessagePack, with archive_config's defaults:     *)
(* missing and unknown properties are ignored.                              *)
(*                                                                          *)
(* A type is a record with a field t: "int" and "text", "optional", "list"  *)
(* and "dict" of a type, "tuple", "variant" and "record" (an object that is *)
(* archived as a tuple) of a sequence of types, and "object" of a function  *)
(* from the keys of its properties to their types.  Optionals are of int or *)
(* text.                                                                    *)
(*                                                                          *)
(* A value is a function from the paths of its parts, sequences of indices  *)
(* and keys, to what is there: a number or a text, the length of a list,    *)
(* the keys of a dictionary, the index of a variant.  A part that is not in *)
(* its domain is as its constructor left it, or an empty optional.          *)
(*                                                                          *)
(* The code recurses over the type.  todo is its call stack: a sequence of  *)
(* what is still to be done, the first entry being next.                    *)
(***************************************************************************)
EXTENDS MsgpackReader

Restore(type, at)        == [op |-> "restore", type |-> type, at |-> at]
Loop(op, type, at, id)   == [op |-> op, type |-> type, at |-> at, id |-> id]
End(scope, id)           == [op |-> "end", scope |-> scope, id |-> id]
SkipValue                == [op |-> "skip"]
Select(types, at)        == [op |-> "select", types |-> types, at |-> at]
Emplace(at, key)         == [op |-> "emplace", at |-> at, key |-> key]

-----------------------------------------------------------------------------
NoValue == [p \in {} |-> 0]
Put(b, at, x)  == (at :> x) @@ b
Below(b, at)   == {p \in DOMAIN b : IsStrictPrefix(at, p)}
\* What clear() and emplace() leave of a container or variant at a path
Cleared_slip(b, at) == b
Cleared(b, at) == Restrict(b, DOMAIN b \ Below(b, at))

\* The pair that is restored before it is emplaced in a dictionary; an exception drops it.
NewPair == "the new pair"
Without(b, at) == Restrict(b, {p \in DOMAIN b : ~IsPrefix(at, p)})
Unwound(b, todo) ==
    FoldLeft(LAMBDA c, e : IF e.op = "emplace" THEN Without(c, Append(e.at, NewPair)) ELSE c, b, todo)
\* emplace does nothing when the key is there.
Emplaced(b, at, key) ==
    LET temp  == Append(at, NewPair)
        moved == {p \in DOMAIN b : IsPrefix(temp, p)}
        place(p) == at \o <<key>> \o SubSeq(p, Len(temp) + 1, Len(p))
        pair  == [q \in {place(p) : p \in moved} |-> b[CHOOSE p \in moved : place(p) = q]]
    IN  IF key \in b[at] THEN Without(b, temp)
        ELSE Put(pair @@ Without(b, temp), at, b[at] \union {key})

-----------------------------------------------------------------------------
\* What is left to do with the reader and the value restored so far.
Result(r, b, todo) == [r |-> r, b |-> IF Ok(r) THEN b ELSE Unwound(b, todo), todo |-> todo]

Scalar(in, x, r, b, at, todo) == Result(x, IF Ok(x) THEN Put(b, at, in[r.pos].v) ELSE b, todo)
IsNull(in, r) == r.pos <= Len(in) /\ in[r.pos].k = "nil"

\* The restore functions of tuples, variants, records and objects enter a container and go
\* through its elements.  A list is cleared before it is entered, a dictionary after that.
\* An object verifies the type of the next element and throws an exception of its own.
RestoreType(in, r, b, type, at, todo) ==
    LET array  == BeginArray(in, r)
        object == BeginObject(in, r)
        parts  == [i \in DOMAIN type.of |->
                      [op |-> IF type.t = "record" THEN "field" ELSE "restore",
                       type |-> type.of[i], at |-> Append(at, i)]]
    IN  CASE type.t = "int"  -> Scalar(in, ReadNumber(in, r), r, b, at, todo)
          [] type.t = "text" -> Scalar(in, ReadString(in, r), r, b, at, todo)
          [] type.t = "optional" ->
                Result(r, IF at \in DOMAIN b THEN b ELSE Put(b, at, 0), <<Restore(type.of, at)>> \o todo)
          [] type.t \in {"tuple", "record"} ->
                Result(array, b, parts \o <<End("array", array.gen)>> \o todo)
          [] type.t = "variant" ->
                Result(array, b, <<Select(type.of, at), End("array", array.gen)>> \o todo)
          [] type.t = "list" ->
                Result(array, Put(Cleared(b, at), at, 0), <<Loop("list", type.of, at, array.gen)>> \o todo)
          [] type.t = "dict" ->
                Result(object, IF Ok(object) THEN Put(Cleared(b, at), at, {}) ELSE b,
                       <<Loop("dict", type.of, at, object.gen)>> \o todo)
          [] type.t = "object" ->
                IF r.pos > Len(in) THEN Result(Throw(r, "fatal"), b, todo)
                ELSE IF in[r.pos].k # "map" THEN Result(Throw(r, "fatal"), b, todo)
                ELSE Result(object, b, <<Loop("object", type.of, at, object.gen)>> \o todo)

\* The index of a variant, whose std::out_of_range is no reader_exception
RestoreIndex(in, r, b, types, at, todo) ==
    LET x == ReadNumber(in, r)
        index == in[r.pos].v
    IN  IF ~Ok(x) THEN Result(x, b, todo)
        ELSE IF index \notin 0..(Len(types) - 1) THEN Result(Throw(x, "fatal"), b, todo)
        ELSE Result(x, Put(Cleared(b, at), at, index),
                    <<Restore(types[index + 1], Append(at, index + 1))>> \o todo)

\* The loops over the elements of a list, a dictionary or an object.
Turn(in, r, b, loop, todo) ==
    LET scope == IF loop.op = "list" THEN "array" ELSE "object"
        key   == ReadString(in, ReadKeyNext(r))
        name  == in[r.pos].v
        at    == loop.at
        again == <<loop>> \o todo
    IN  IF ShouldBreak(r, loop.id) THEN Result(EndScope(r, scope, loop.id), b, todo)
        ELSE IF loop.op = "list"
             THEN Result(r, Put(b, at, b[at] + 1), <<Restore(loop.type, Append(at, b[at] + 1))>> \o again)
        ELSE IF ~Ok(key) THEN Result(key, b, again)
        ELSE IF loop.op = "dict"
             THEN Result(key, b, <<Restore(loop.type, Append(at, NewPair)), Emplace(at, name)>> \o again)
        ELSE IF name \in DOMAIN loop.type
             THEN Result(key, b, <<Restore(loop.type[name], Append(at, name))>> \o again)
        ELSE Result(key, b, <<SkipValue>> \o again)

Ops == {"restore", "field", "select", "emplace", "list", "dict", "object", "skip", "end"}

RestoreStep(in, r, b, todo) ==
    LET next == Head(todo)
        rest == Tail(todo)
    IN  CASE next.op = "restore" -> RestoreType(in, r, b, next.type, next.at, rest)
          [] next.op = "field"   -> IF next.type.t = "optional" /\ IsNull(in, r)
                                    THEN Result(Skip(in, r), b, rest)
                                    ELSE RestoreType(in, r, b, next.type, next.at, rest)
          [] next.op = "select"  -> RestoreIndex(in, r, b, next.types, next.at, rest)
          [] next.op = "emplace" -> Result(r, Emplaced(b, next.at, next.key), rest)
          [] next.op \in {"list", "dict", "object"} -> Turn(in, r, b, next, rest)
          [] next.op = "skip"    -> Result(Skip(in, r), b, rest)
          [] next.op = "end"     -> Result(EndScope(r, next.scope, next.id), b, rest)

-----------------------------------------------------------------------------
\* The type of a part, or Unknown.
Unknown == [t |-> "unknown"]
TypeAt(type, path) ==
    FoldLeft(LAMBDA t, k :
                 CASE t.t \in {"tuple", "record", "variant"} -> t.of[k]
                   [] t.t \in {"list", "dict"} -> t.of
                   [] t.t = "object" -> IF k \in DOMAIN t.of THEN t.of[k] ELSE Unknown
                   [] OTHER -> Unknown,
             type, path)

\* b is the value sent, of another version of the type perhaps: what is sent and known is
\* there, and what else is there belongs to a property, or an optional of a record, of which
\* nothing was sent.
IsOmittable(type, q) == q # <<>> /\ TypeAt(type, Front(q)).t \in {"object", "record"}
Sent(sent, q)        == \E p \in DOMAIN sent : IsPrefix(q, p)
AsSent(type, sent, b) ==
    /\ \A p \in DOMAIN sent : TypeAt(type, p) # Unknown => p \in DOMAIN b /\ b[p] = sent[p]
    /\ \A p \in DOMAIN b \ DOMAIN sent :
         \E i \in 1..Len(p) : IsOmittable(type, SubSeq(p, 1, i)) /\ ~Sent(sent, SubSeq(p, 1, i))
=============================================================================
