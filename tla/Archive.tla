------------------------------ MODULE Archive ------------------------------
(***************************************************************************)
(* A document goes through an archive (refl/archive): a client writes one   *)
(* element with msgpack::writer or json::writer, and another client reads   *)
(* it with the reader of that format.                                       *)
(*                                                                          *)
(* The writing client pops the scope it pushed last and puts nothing but    *)
(* bytes into a binary, which the writers leave to it (if_archive.hxx:306   *)
(* and the ignored argument of _assert_top_scope_finished); everything else *)
(* it may try in any order, and stops when a call throws.  The reading      *)
(* client of MessagePack may try every call, but skips nothing in a binary  *)
(* and ends it before what contains it.  That of JSON, whose reader checks  *)
(* little, reads an element only where there is one, and a key only after   *)
(* read_key_next.  It is built without assertions: with them, goto_key ends *)
(* the process where it comes to a value.                                   *)
(***************************************************************************)
EXTENDS MsgpackReader

CONSTANTS
    Formats,    \* "msgpack", "json"
    Reserved,   \* the depth that msgpack::reader is told to reserve
    MaxDoc,     \* bound: the number of elements of a document
    Counts,     \* bound: the numbers announced by pushes
    MaxEntered  \* bound: the scopes entered in a JSON text, in which goto_key goes back

ASSUME FormatsAssumption == Formats \subseteq {"msgpack", "json"}
ASSUME ReservedAssumption == Reserved \in Nat
ASSUME BoundsAssumption  == MaxDoc \in Nat /\ Counts \subseteq Nat /\ MaxEntered \in Nat

W == INSTANCE ArchiveWriter
J == INSTANCE JsonReader

VARIABLES
    format,
    phase,      \* "write" or "read"
    w,          \* the writer
    r           \* the reader, while phase = "read"

vars == <<format, phase, w, r>>

Init ==
    /\ format \in Formats
    /\ phase = "write"
    /\ w = W!Blank
    /\ r = Start(Reserved)

-----------------------------------------------------------------------------
InBinary == w.ctx # <<>> /\ Last(w.ctx).type = "binary"

\* One call of the writing client.
Call(next) ==
    /\ phase = "write" /\ ~w.err
    /\ w' = next
    /\ UNCHANGED <<format, phase, r>>
\* Room for an element, of which there is one outside of all scopes.
Room == ~InBinary /\ Len(w.doc) < MaxDoc /\ (w.ctx # <<>> \/ w.doc = <<>>)

KeyNext     == ~InBinary /\ w.ctx # <<>> /\ Call(W!WriteKeyNext(w))
\* Strings are empty or not, which makes no difference in MessagePack.
Texts(k)    == IF format = "json" /\ k = "str" THEN {"", "text"} ELSE {"text"}
Write       == Room /\ \E k \in {"num", "str", "nil"} : \E v \in Texts(k) : Call(W!Write(format, w, k, v))
PushArray   == Room /\ \E n \in Counts : Call(W!Push(format, w, "array", n))
PushObject  == Room /\ \E n \in Counts : Call(W!Push(format, w, "object", n))
PushBinary  == Room /\ \E n \in Counts : Call(W!BinaryPush(format, w, n))
WriteBinary == InBinary /\ \E n \in Counts \ {0} : Call(W!BinaryWriteSome(w, n))
PopScope    == w.ctx # <<>> /\ Call(W!Pop(format, w))

Complete == w.ctx = <<>> /\ w.doc # <<>> /\ ~w.err
Deliver ==
    /\ phase = "write" /\ Complete
    /\ phase' = "read"
    /\ r' = IF format = "json" THEN J!Loaded(w.text) ELSE Start(Reserved)
    /\ UNCHANGED <<format, w>>

-----------------------------------------------------------------------------
\* One call of the client of msgpack::reader, or one turn of a loop within a call.
Msgpack == phase = "read" /\ format = "msgpack"
MsgpackStep(next) ==
    /\ Ok(r)
    /\ r' = next
    /\ UNCHANGED <<format, phase, w>>
MsgpackCall(next) == Msgpack /\ r.goal = NoGoal /\ MsgpackStep(next)

MReadNumber  == MsgpackCall(ReadNumber(w.doc, r))
MReadString  == MsgpackCall(ReadString(w.doc, r))
MSkip        == Msgpack /\ ~InScope(r, "binary") /\ MsgpackCall(Skip(w.doc, r))
MReadKeyNext == MsgpackCall(ReadKeyNext(r))
MBeginArray  == MsgpackCall(BeginArray(w.doc, r))
MBeginObject == MsgpackCall(BeginObject(w.doc, r))
MBeginBinary == MsgpackCall(BeginBinary(w.doc, r))
MReadBinary  == \E n \in Counts \ {0} : MsgpackCall(ReadBinary(r, n))
MEndBinary   == MsgpackCall(EndBinary(r))
MEndScope    == /\ Msgpack /\ ~InScope(r, "binary")
                /\ \E type \in {"array", "object"}, id \in 1..r.gen : MsgpackCall(EndScope(r, type, id))
MBreakStep   == Msgpack /\ r.goal # NoGoal /\ MsgpackStep(BreakStep(w.doc, r))

-----------------------------------------------------------------------------
\* One call of the client of json::reader.
Json     == phase = "read" /\ format = "json"
JsonCall(next) ==
    /\ Json /\ J!Ok(r)
    /\ r' = next
    /\ UNCHANGED <<format, phase, w>>
JTop     == Last(r.scopes)
JInside  == Json /\ r.scopes # <<>>
\* There is an element, and it is asked for as the key or the value that it is.
JElement == \/ JInside /\ JTop.left > 0 /\ (JTop.type = "object" => (JTop.left % 2 = 0) = JTop.key)
            \/ Json /\ r.scopes = <<>> /\ r.gen = 0

JReadNumber  == JElement /\ \E numeral \in BOOLEAN : JsonCall(J!ReadNumber(r, numeral))
JReadString  == JElement /\ JsonCall(J!ReadString(r))
JSkip        == JElement /\ JsonCall(J!Skip(r))
JReadKeyNext == /\ JInside /\ JTop.left > 0 /\ JTop.left % 2 = 0
                /\ JsonCall(J!ReadKeyNext(r))
JBeginArray  == JElement /\ r.gen < MaxEntered /\ JsonCall(J!StepIn(r, "array"))
JBeginObject == JElement /\ r.gen < MaxEntered /\ JsonCall(J!StepIn(r, "object"))
JGotoKey     == /\ JInside /\ JTop.type = "object"
                /\ \E i \in 1..r.toks[JTop.tok].size : JsonCall(J!GotoKey(r, i))
JEndScope    == JInside /\ \E id \in 1..r.gen : JsonCall(J!StepOut(r, id))

-----------------------------------------------------------------------------
Next ==
    \/ KeyNext \/ Write \/ PushArray \/ PushObject \/ PushBinary \/ WriteBinary \/ PopScope
    \/ Deliver
    \/ MReadNumber \/ MReadString \/ MSkip \/ MReadKeyNext \/ MBeginArray \/ MBeginObject
    \/ MBeginBinary \/ MReadBinary \/ MEndBinary \/ MEndScope \/ MBreakStep
    \/ JReadNumber \/ JReadString \/ JSkip \/ JReadKeyNext \/ JBeginArray \/ JBeginObject
    \/ JGotoKey \/ JEndScope

Spec == Init /\ [][Next]_vars

-----------------------------------------------------------------------------
\* What the writers let a client complete is one element: every container holds exactly
\* the elements it announced, whatever calls the client tried (write_context_helper).
WellFormed ==
    Complete => /\ Remaining(w.doc) = <<>>
                /\ \A i \in 1..(Len(w.doc) - 1) : Remaining(SubSeq(w.doc, 1, i)) # <<>>

\* The commas and colons of json::writer are where the parser of json::reader needs them:
\* it finds the elements that were written, each container with its number of members.  A
\* lone number or null, which nothing follows, is all that it does not find.
JsonType(e) == CASE e.k = "map" -> "object" [] e.k = "arr" -> "array"
                 [] e.k \in {"str", "bin"} -> "string" [] OTHER -> "primitive"
JsonParsed ==
    Json =>
        LET p == J!Parse(w.text)
        IN  /\ p.err <=> JsonType(w.doc[1]) = "primitive"
            /\ ~p.err => Len(p.toks) = Len(w.doc)
            /\ ~p.err => \A i \in DOMAIN w.doc :
                 /\ p.toks[i].type = JsonType(w.doc[i])
                 /\ JsonType(w.doc[i]) \in {"array", "object"} => p.toks[i].size = w.doc[i].n

\* Whatever a client read, skipped or left early, msgpack::reader knows what is left in
\* each scope, or has thrown.  Within the depth that was reserved nothing reads freed memory:
\* a loop has a dangling pointer only to a scope that is as deep, or deeper.
MsgpackInStep ==
    Msgpack => /\ Ok(r) => InStep(w.doc, r)
               /\ r.err = "undefined" => r.scopes # <<>> /\ Len(r.scopes) >= Reserved

\* The same of json::reader, which may also be sent to a key by goto_key: it is lost only in
\* an object with an empty value, and in step again when the client leaves that object.
JsonInStep == (Json /\ J!Ok(r)) => J!InStep(r)
=============================================================================
