--------------------------- MODULE ArchiveWriter ---------------------------
(***************************************************************************)
(* The writers of refl/archive: write_context_helper, which counts keys and *)
(* values (detail/context_helper.hxx), and what msgpack::writer and         *)
(* json::writer do with it.  Each call is a function from the state of the  *)
(* writer to its state after the call.                                      *)
(*                                                                          *)
(* doc is the sequence of elements written, each with the number it         *)
(* announces or its value; it is all that a MessagePack stream holds. text  *)
(* is the JSON text: brackets, commas and colons, "p" for a primitive, "e"  *)
(* for an empty string and "s" for any other. The bytes of the elements,    *)
(* number formats, escapes and the indentation are left out. err is set by  *)
(* a call that throws.                                                      *)
(***************************************************************************)
EXTENDS Integers, Sequences, SequencesExt

Blank == [ctx |-> <<>>, doc |-> <<>>, text |-> <<>>, err |-> FALSE]

Scope(w)       == Last(w.ctx)
SetScope(w, s) == [w EXCEPT !.ctx[Len(w.ctx)] = s]
Refuse(w)    == [w EXCEPT !.err = TRUE]
\* _assert_scope_size_valid
Sized(w)     == IF Scope(w).size > Scope(w).capacity THEN Refuse(w) ELSE w

InObject(w)     == w.ctx # <<>> /\ Scope(w).type = "object"
IsKeyNext(w)    == InObject(w) /\ Scope(w).size % 2 = 0
IsKeyCurrent(w) == InObject(w) /\ Scope(w).size % 2 = 1
\* The members of write_directive.
IsKey(w)        == IsKeyCurrent(w) /\ Scope(w).ready
NeedComma_slip(w) == /\ w.ctx # <<>>
                     /\ IF InObject(w) THEN IsKey(w) /\ Scope(w).size > 3 ELSE Scope(w).size > 0
NeedComma(w)    == /\ w.ctx # <<>>
                   /\ IF InObject(w) THEN IsKey(w) /\ Scope(w).size > 2 ELSE Scope(w).size > 0

\* write_key_next
WriteKeyNext(w) ==
    IF ~IsKeyNext(w) THEN Refuse(w)
    ELSE Sized(SetScope(w, [Scope(w) EXCEPT !.size = @ + 1, !.ready = TRUE]))

\* write_next: a key was counted by write_key_next, a value is counted here.
WriteNext(w) ==
    IF w.ctx = <<>> THEN w
    ELSE IF IsKey(w) THEN SetScope(w, [Scope(w) EXCEPT !.ready = FALSE])
    ELSE IF IsKeyNext(w) THEN Refuse(w)
    ELSE Sized(SetScope(w, [Scope(w) EXCEPT !.size = @ + 1]))

\* push_object, push_array and push_binary
PushScope_slip(w, type, n) ==
    IF w.err \/ (type # "binary" /\ IsKeyCurrent(w)) THEN Refuse(w)
    ELSE [w EXCEPT !.ctx = Append(@, [type |-> type, size |-> 0, ready |-> FALSE, capacity |-> n])]
PushScope(w, type, n) ==
    IF w.err \/ (type # "binary" /\ IsKeyCurrent(w)) THEN Refuse(w)
    ELSE [w EXCEPT !.ctx = Append(@, [type |-> type, size |-> 0, ready |-> FALSE,
                                      capacity |-> IF type = "object" THEN 2 * n ELSE n])]

\* pop_object, pop_array and pop_binary: _assert_top_scope_finished ignores the type.
PopScope(w) ==
    IF w.ctx = <<>> \/ Scope(w).size # Scope(w).capacity THEN Refuse(w)
    ELSE [w EXCEPT !.ctx = Front(@)]

Put(w, e, symbols) ==
    IF w.err THEN w ELSE [w EXCEPT !.doc = @ \o e, !.text = @ \o symbols]

-----------------------------------------------------------------------------
Element(k, n, v) == <<[k |-> k, n |-> n, v |-> v]>>
Comma(w)      == IF NeedComma(w) THEN <<",">> ELSE <<>>
Colon(w)      == IF IsKey(w) THEN <<":">> ELSE <<>>
StringOf(k, v) == IF k = "str" /\ v = "" THEN <<"e">> ELSE <<"s">>

\* The write functions.  A JSON key is a string, also when it is written as an integer,
\* and nothing else (_on_write_value_only).
Write(format, w, k, v) ==
    IF format = "msgpack" THEN Put(WriteNext(w), Element(k, 0, v), <<>>)
    ELSE IF IsKey(w) /\ k = "nil" THEN Refuse(WriteNext(w))
    ELSE IF IsKey(w) \/ k = "str"
         THEN Put(WriteNext(w), Element("str", 0, v), Comma(w) \o StringOf(k, v) \o Colon(w))
    ELSE Put(WriteNext(w), Element(k, 0, v), Comma(w) \o <<"p">>)

\* object_push and array_push
Push(format, w, type, n) ==
    LET k == IF type = "object" THEN "map" ELSE "arr"
        bracket == IF type = "object" THEN <<"{">> ELSE <<"[">>
    IN  IF format = "json" /\ IsKey(w) THEN Refuse(WriteNext(w))
        ELSE Put(PushScope(WriteNext(w), type, n), Element(k, n, ""),
                 IF format = "json" THEN Comma(w) \o bracket ELSE <<>>)

BinaryPush(format, w, n) ==
    Put(PushScope(WriteNext(w), "binary", n), Element("bin", n, ""),
        IF format = "json" THEN Comma(w) ELSE <<>>)

BinaryWriteSome(w, n) == Sized(SetScope(w, [Scope(w) EXCEPT !.size = @ + n]))

\* object_pop, array_pop and binary_pop, which closes the string begun by binary_push
Pop(format, w) ==
    LET type == Scope(w).type
        symbols == CASE type = "object" -> <<"}">>
                     [] type = "array"  -> <<"]">>
                     [] type = "binary" -> (IF Scope(w).capacity = 0 THEN <<"e">> ELSE <<"s">>)
                                           \o (IF IsKeyCurrent(PopScope(w)) THEN <<":">> ELSE <<>>)
    IN  Put(PopScope(w), <<>>, IF format = "json" THEN symbols ELSE <<>>)
=============================================================================
