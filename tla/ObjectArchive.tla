--------------------------- MODULE ObjectArchive ---------------------------
(***************************************************************************)
(* How refl archives a value of a known type (object_core.hxx,              *)
(* primitives.hxx, types/tuple.hxx, types/variant.hxx) and how the msgpack  *)
(* protocol of rpc sends requests, notifications and replies with it        *)
(* (rpc/protocol/msgpack-rpc.hxx:234-328), as functions of a writer of      *)
(* MessagePack.  Types and values are those of ObjectRestore.               *)
(***************************************************************************)
EXTENDS ArchiveWriter, FiniteSetsExt

\* An optional at a path has a value.  There is no other way to be absent.
HasValue(value, at) == at \in DOMAIN value

PutScalar(w, k, x) == Write("msgpack", w, k, x)
PutNull(w)      == PutScalar(w, "nil", "")
PutKey(w, key)  == PutScalar(WriteKeyNext(w), "str", key)
PushArray(w, n)  == Push("msgpack", w, "array", n)
PushObject(w, n) == Push("msgpack", w, "object", n)
PopTop(w)        == Pop("msgpack", w)

\* The properties of an object that are not empty optionals.
Filled(value, at, types) ==
    {key \in DOMAIN types : types[key].t = "optional" => HasValue(value, Append(at, key))}

RECURSIVE ArchiveTo(_, _, _, _)
ArchiveTo(w, value, type, at) ==
    LET part(x, t, k) == ArchiveTo(x, value, t, Append(at, k))
        keyed(x, t, key) == part(PutKey(x, key), t, key)
        field(x, i) == IF type.of[i].t = "optional" /\ ~HasValue(value, Append(at, i))
                       THEN PutNull(x) ELSE part(x, type.of[i], i)
        to(n) == [i \in 1..n |-> i]
    IN  CASE type.t = "int"  -> PutScalar(w, "num", value[at])
          [] type.t = "text" -> PutScalar(w, "str", value[at])
          [] type.t = "optional" ->
                IF HasValue(value, at) THEN ArchiveTo(w, value, type.of, at) ELSE PutNull(w)
          [] type.t = "tuple" ->
                PopTop(FoldLeft(LAMBDA x, i : part(x, type.of[i], i),
                                PushArray(w, Len(type.of)), to(Len(type.of))))
          [] type.t = "record" ->
                PopTop(FoldLeft(field, PushArray(w, Len(type.of)), to(Len(type.of))))
          [] type.t = "variant" ->
                PopTop(part(PutScalar(PushArray(w, 2), "num", value[at]),
                            type.of[value[at] + 1], value[at] + 1))
          [] type.t = "list" ->
                PopTop(FoldLeft(LAMBDA x, i : part(x, type.of, i),
                                PushArray(w, value[at]), to(value[at])))
          [] type.t = "dict" ->
                PopTop(FoldLeft(LAMBDA x, key : keyed(x, type.of, key),
                                PushObject(w, Cardinality(value[at])), SetToSeq(value[at])))
          [] type.t = "object" ->
                LET filled == Filled(value, at, type.of)
                IN  PopTop(FoldLeft(LAMBDA x, key : keyed(x, type.of[key], key),
                                    PushObject(w, Cardinality(filled)), SetToSeq(filled)))

-----------------------------------------------------------------------------
\* send_request and send_notify: the parameters are the parts of value.
PutParams(w, types, value) == ArchiveTo(w, value, [t |-> "tuple", of |-> types], <<>>)
SendRequest(w, id, method, types, value) ==
    LET head == PutScalar(PutScalar(PutScalar(PushArray(w, 4), "num", 0), "num", id), "str", method)
    IN  PopTop(PutParams(head, types, value))
SendNotify(w, method, types, value) ==
    PopTop(PutParams(PutScalar(PutScalar(PushArray(w, 3), "num", 2), "str", method), types, value))

\* send_reply_result and send_reply_error
ReplyHead(w, id) == PutScalar(PutScalar(PushArray(w, 4), "num", 1), "num", id)
SendReplyResult(w, id, type, value) == PopTop(ArchiveTo(PutNull(ReplyHead(w, id)), value, type, <<>>))
SendReplyError(w, id, type, value) ==
    PopTop(PutNull(ArchiveTo(ReplyHead(w, id), value, type, <<>>)))
=============================================================================
