---------------------------- MODULE MCRpcReceive ----------------------------
\* RpcReceive for TLC: the methods of a small service and the messages of its peer, which
\* uses this library too, but not always the same version of the types.
EXTENDS RpcReceive

P == INSTANCE ObjectArchive

IntT  == [t |-> "int"]
TextT == [t |-> "text"]
List(type)      == [t |-> "list", of |-> type]
Dict(type)      == [t |-> "dict", of |-> type]
Optional(type)  == [t |-> "optional", of |-> type]
Tuple(types)    == [t |-> "tuple", of |-> types]
Record(types)   == [t |-> "record", of |-> types]
Variant(types)  == [t |-> "variant", of |-> types]
Object(types)   == [t |-> "object", of |-> types]

\* put takes an object with a list and an optional, log a text and a dictionary of records,
\* set a variant.
PutTypes == <<Object("x" :> List(IntT) @@ "o" :> Optional(IntT))>>
RowT     == Record(<<IntT, Optional(TextT)>>)
LogTypes == <<Tuple(<<TextT, Dict(RowT)>>)>>
SetTypes == <<Variant(<<IntT, List(TextT)>>)>>
AddTypes == <<IntT, IntT>>
MCMethods == "add" :> AddTypes @@ "put" :> PutTypes @@ "log" :> LogTypes @@ "set" :> SetTypes

ResultT  == Tuple(<<IntT>>)
MCTypes == {IntT, TextT, List(IntT), List(TextT), Optional(IntT), Optional(TextT), RowT, Dict(RowT),
            Tuple(<<TextT, Dict(RowT)>>), Variant(<<IntT, List(TextT)>>), ResultT} \union ToSet(PutTypes)

MCWaiting == [i \in 1..3 |-> ResultT] @@ 8 :> [t |-> "void"]

-----------------------------------------------------------------------------
\* What the peer sends by the library, and what of it is expected to fit.
Message(elements, sent, fits, refused, error) ==
    [elements |-> elements, sent |-> sent, fits |-> fits, refused |-> refused, error |-> error]
Fits(w, sent)    == Message(w.doc, sent, TRUE, FALSE, FALSE)
Refused(w)       == Message(w.doc, NoValue, FALSE, TRUE, FALSE)
Ignored(w)       == Message(w.doc, NoValue, FALSE, FALSE, FALSE)
Error(w, sent)   == Message(w.doc, sent, TRUE, FALSE, TRUE)   \* sent: the elements of the text

Request(method, types, value) == P!SendRequest(P!Blank, OwnNumber, method, types, value)
Notify(method, types, value)  == P!SendNotify(P!Blank, method, types, value)
Reply(id, type, value)        == P!SendReplyResult(P!Blank, id, type, value)
ReplyError(type, value)       == P!SendReplyError(P!Blank, OwnNumber, type, value)
\* What it sends by other means
Raw(elements) == [doc |-> elements]

Num(v)  == [k |-> "num", n |-> 0, v |-> v]
Str(v)  == [k |-> "str", n |-> 0, v |-> v]
Arr(n)  == [k |-> "arr", n |-> n, v |-> ""]
Map(n)  == [k |-> "map", n |-> n, v |-> ""]
Bin(n)  == [k |-> "bin", n |-> n, v |-> ""]
Nil     == [k |-> "nil", n |-> 0, v |-> ""]
\* A reply to no request, with a result of depth arrays in one another
Nested(depth) == Raw(<<Arr(4), Num(1), Num(9), Nil>> \o [i \in 1..depth |-> Arr(IF i < depth THEN 1 ELSE 0)])

AddValue  == <<1>> :> 1 @@ <<2>> :> 2
PutAll    == <<1, "x">> :> 2 @@ <<1, "x", 1>> :> 1 @@ <<1, "x", 2>> :> 2 @@ <<1, "o">> :> 3
\* of a newer version of the object, which has a list of tuples y and lost o
PutNewer  == <<1, "x">> :> 1 @@ <<1, "x", 1>> :> 5 @@ <<1, "y">> :> 1 @@ <<1, "y", 1, 1>> :> 1
\* of an older version, without x
PutOlder  == <<1, "o">> :> 4
LogBoth   == <<1, 1>> :> "a" @@ <<1, 2>> :> {"k", "l"}
                @@ <<1, 2, "k", 1>> :> 1 @@ <<1, 2, "k", 2>> :> "t" @@ <<1, 2, "l", 1>> :> 2
LogOne    == <<1, 1>> :> "b" @@ <<1, 2>> :> {"k"} @@ <<1, 2, "k", 1>> :> 3
SetInt    == <<1>> :> 0 @@ <<1, 1>> :> 7
SetList   == <<1>> :> 1 @@ <<1, 2>> :> 2 @@ <<1, 2, 1>> :> "a" @@ <<1, 2, 2>> :> "b"
ErrorBoth == <<>> :> 2 @@ <<1>> :> {"k"} @@ <<1, "k">> :> 1 @@ <<2>> :> {}

MCMessages == {
    Fits(Request("add", AddTypes, AddValue), AddValue),
    Refused(Request("add", <<TextT, List(IntT)>>, <<1>> :> "a" @@ <<2>> :> 1 @@ <<2, 1>> :> 2)),
    Refused(Request("add", <<IntT, IntT, IntT>>, AddValue @@ <<3>> :> 3)),
    Refused(Request("add", <<IntT, Optional(IntT)>>, <<1>> :> 9)),
    Ignored(Raw(<<Arr(4), Num(0), Num(OwnNumber), Str("add"), Num(1)>>)),
    Refused(Request("sub", <<List(Dict(IntT))>>, <<1>> :> 1 @@ <<1, 1>> :> {"k"} @@ <<1, 1, "k">> :> 1)),
    Refused(Request("sub", <<Dict(List(IntT))>>, <<1>> :> {"k"} @@ <<1, "k">> :> 1 @@ <<1, "k", 1>> :> 1)),
    Fits(Request("put", PutTypes, PutAll), PutAll),
    Fits(Request("put", <<Object("x" :> List(IntT) @@ "y" :> List(Tuple(<<IntT>>)))>>, PutNewer), PutNewer),
    Fits(Notify("put", <<Object("o" :> Optional(IntT))>>, PutOlder), PutOlder),
    Refused(Request("put", <<Object("x" :> List(Optional(IntT)))>>,
                    <<1, "x">> :> 2 @@ <<1, "x", 1>> :> 1)),
    Ignored(Notify("put", <<>>, NoValue)),
    Fits(Notify("log", LogTypes, LogBoth), LogBoth),
    Fits(Request("log", LogTypes, LogOne), LogOne),
    Ignored(Notify("log", <<Tuple(<<TextT>>)>>, <<1, 1>> :> "a")),
    Fits(Request("set", SetTypes, SetInt), SetInt),
    Fits(Request("set", SetTypes, SetList), SetList),
    Ignored(Notify("nop", <<Dict(IntT)>>, <<1>> :> {"k"} @@ <<1, "k">> :> 1)),
    Ignored(Raw(<<Arr(3), Num(1), Num(OwnNumber), Str("a")>>)),
    Ignored(Raw(<<Arr(2), Num(7), Str("a")>>)),
    Fits(Reply(OwnNumber, Tuple(<<IntT, IntT>>), AddValue), <<1>> :> 1),
    Error(ReplyError(TextT, <<>> :> "e"), <<Str("e")>>),
    Error(ReplyError(List(Dict(IntT)), ErrorBoth), <<Arr(2), Map(1), Str("k"), Num(1), Map(0)>>),
    Ignored(ReplyError(Dict(Optional(IntT)), <<>> :> {"k"})),
    Ignored(ReplyError(List(Optional(IntT)), <<>> :> 1)),
    Ignored(Raw(<<Arr(4), Num(1), Num(OwnNumber), Bin(2), Nil>>)),
    Fits(Reply(8, List(IntT), <<>> :> 1 @@ <<1>> :> 1), NoValue),
    Ignored(Reply(OwnNumber, Tuple(<<TextT>>), <<1>> :> "a")),
    Ignored(Reply(9, List(List(IntT)), <<>> :> 1 @@ <<1>> :> 1 @@ <<1, 1>> :> 1)),
    Ignored(Nested(7)),
    Ignored(Nested(8)) }
=============================================================================
