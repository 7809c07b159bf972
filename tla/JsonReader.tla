----------------------------- MODULE JsonReader -----------------------------
(***************************************************************************)
(* cpph::archive::json::reader (refl/archive/json-reader.hxx): the calls of *)
(* a client that walks through a JSON text, as functions from the state of  *)
(* the reader to its state after the call.                                  *)
(*                                                                          *)
(* The reader parses the text of one document into tokens (third/jsmn.h, in *)
(* its strict form with links to the parents) and moves a position over the *)
(* tokens.  None is the position ~size_t{}: the next call reads the next    *)
(* document.  Here there is none, so it runs into the end of the stream.    *)
(* err is set by a call that throws.                                        *)
(***************************************************************************)
EXTENDS Integers, Sequences, SequencesExt, FiniteSetsExt

None == 0

-----------------------------------------------------------------------------
\* jsmn_parse.  end = 0 is the -1 of a bracket that is still open; super and parent are 0
\* for -1.  Positions count the symbols of the text; a string ends where it starts if it is
\* empty.
Parser == [toks |-> <<>>, super |-> 0, at |-> 1, err |-> FALSE]

Token(p, type, end) == [type |-> type, start |-> p.at, end |-> end, size |-> 0, parent |-> p.super]
Counted(p)  == IF p.super = 0 THEN p.toks ELSE [p.toks EXCEPT ![p.super].size = @ + 1]
SuperIs(p, type) == p.super # 0 /\ p.toks[p.super].type = type
\* A primitive or a bracket is no key, and a key has one value.
BadValue(p, c) == \/ SuperIs(p, "object")
                  \/ c = "p" /\ SuperIs(p, "string") /\ p.toks[p.super].size # 0

ParseSymbol(p, c) ==
    LET toks == Counted(p)
        open == {i \in DOMAIN p.toks : p.toks[i].end = 0}
        type == IF c \in {"{", "}"} THEN "object" ELSE "array"
        next ==
            CASE c \in {"{", "["} ->
                    [p EXCEPT !.toks = Append(toks, Token(p, type, 0)), !.super = Len(toks) + 1,
                              !.err = BadValue(p, c)]
              [] c \in {"}", "]"} ->
                    IF open = {} \/ p.toks[Max(open)].type # type THEN [p EXCEPT !.err = TRUE]
                    ELSE [p EXCEPT !.toks[Max(open)].end = p.at + 1,
                                   !.super = p.toks[Max(open)].parent]
              [] c = "s" -> [p EXCEPT !.toks = Append(toks, Token(p, "string", p.at + 1))]
              [] c = "e" -> [p EXCEPT !.toks = Append(toks, Token(p, "string", p.at))]
              [] c = "p" -> [p EXCEPT !.toks = Append(toks, Token(p, "primitive", p.at + 1)),
                                      !.err = BadValue(p, c)]
              [] c = ":" -> [p EXCEPT !.super = Len(toks)]
              [] c = "," -> IF SuperIs(p, "string") \/ SuperIs(p, "primitive")
                            THEN [p EXCEPT !.super = p.toks[p.super].parent] ELSE p
    IN  IF p.err THEN p ELSE [next EXCEPT !.at = @ + 1]

\* A primitive is one when a comma, a bracket or a space follows it.  The text of a lone
\* one just ends, and _prepare waits for more of it until the end of the stream.
Cut(text)   == text # <<>> /\ Last(text) = "p"
Parse(text) == IF Cut(text) THEN [Parser EXCEPT !.err = TRUE]
               ELSE FoldLeft(ParseSymbol, Parser, text)

-----------------------------------------------------------------------------
\* After _prepare has read the document.
Loaded(text) ==
    [toks |-> Parse(text).toks, pos |-> 1, scopes |-> <<>>, gen |-> 0,
     err |-> IF Parse(text).err THEN "fatal" ELSE "ok"]

Ok(r)    == r.err = "ok"
Throw(r) == [r EXCEPT !.err = "fatal"]
Top(r)       == Last(r.scopes)
SetTop(r, s) == [r EXCEPT !.scopes[Len(r.scopes)] = s]
Next(r)  == r.toks[r.pos]                                        \* next()
AtEnd(r) == r.pos \notin DOMAIN r.toks                           \* _prepare or tokens.at throws

\* step_over and step_out: the first token, from i on, that starts where token i has ended
\* or later, which for an empty string is the string itself.
StepOver(toks, i) ==
    Min({j \in i..Len(toks) : toks[j].start >= toks[i].end} \union {Len(toks) + 1})

\* step
Step(r) ==
    IF r.scopes = <<>> THEN r
    ELSE LET s == Top(r)
             over == IF Next(r).type \in {"object", "array"} THEN StepOver(r.toks, r.pos)
                     ELSE r.pos + 1
             moved == [r EXCEPT !.pos = IF over = Len(r.toks) + 1 THEN None ELSE over]
         IN  IF s.key /\ Next(r).type # "string" THEN Throw(r)
             ELSE IF s.left <= 0 THEN Throw(SetTop(moved, [s EXCEPT !.left = @ - 1]))
             ELSE SetTop(moved, [s EXCEPT !.left = @ - 1, !.key = FALSE])

\* step_in
StepIn(r, type) ==
    IF AtEnd(r) \/ Next(r).type # type THEN Throw(r)
    ELSE [r EXCEPT !.gen = @ + 1, !.pos = @ + 1,
                   !.scopes = Append(@, [type |-> type, id |-> r.gen + 1, tok |-> r.pos, key |-> FALSE,
                       lost |-> FALSE,
                       left |-> IF type = "object" THEN 2 * Next(r).size ELSE Next(r).size])]

\* end_object and end_array: step_out leaves all scopes down to the one of the key.
StepOut_slip(r, id) ==
    LET at == {i \in DOMAIN r.scopes : r.scopes[i].id = id}
        i == Max(at)
    IN  IF at = {} \/ r.scopes[i].key THEN Throw(r)
        ELSE [r EXCEPT !.scopes = SubSeq(@, 1, i - 1),
                       !.pos = IF i = 1 THEN None ELSE StepOver(r.toks, r.scopes[i].tok)]
StepOut(r, id) ==
    LET at == {i \in DOMAIN r.scopes : r.scopes[i].id = id}
        i == Max(at)
        left == [r EXCEPT !.scopes = SubSeq(@, 1, i - 1),
                          !.pos = StepOver(r.toks, r.scopes[i].tok)]
    IN  IF at = {} THEN Throw(r)
        ELSE IF r.scopes[i].key THEN Throw(r)
        ELSE IF i = 1 THEN [left EXCEPT !.pos = None]
        ELSE SetTop(left, [Top(left) EXCEPT !.left = @ - 1, !.key = FALSE])

\* The read functions, end_binary (begin_binary does not move) and read(nullptr).  What is
\* read as a number may be a string; numeral says that all of the token's text is one, as
\* from_chars and strtod find of an empty text.
ReadToken(r, types) == IF AtEnd(r) THEN Throw(r)
                       ELSE IF Next(r).type \notin types THEN Throw(r) ELSE Step(r)
ReadNumber(r, numeral) ==
    IF ~AtEnd(r) /\ ~numeral /\ Next(r).start # Next(r).end THEN Throw(r)
    ELSE ReadToken(r, {"primitive", "string"})
ReadString(r) == ReadToken(r, {"string"})
Skip(r)       == ReadToken(r, {"primitive", "string", "object", "array"})

ReadKeyNext(r) == IF Top(r).key \/ Top(r).type # "object" THEN Throw(r)
                  ELSE SetTop(r, [Top(r) EXCEPT !.key = TRUE])

ShouldBreak(r, id) == Top(r).id = id /\ Top(r).left = 0

\* goto_key looks for its key at as many tokens as the object has keys, and takes the i-th
\* of them for it.  Where an empty string is a value, it does not leave it: it goes on with
\* the value, then with other values.  lost marks a scope in which it did.
Visited(r, i) ==
    LET tok == Top(r).tok
        visited[k \in 1..i] == IF k = 1 THEN tok + 1 ELSE StepOver(r.toks, visited[k - 1] + 1)
    IN  visited[i]
GotoKey(r, i) ==
    LET tok == Top(r).tok
        key == Visited(r, i)
    IN  [SetTop(r, [Top(r) EXCEPT !.left = 2 * (r.toks[tok].size - i) + 1, !.key = FALSE,
                                  !.lost = \E k \in 1..i : r.toks[Visited(r, k)].parent # tok])
            EXCEPT !.pos = key + 1]

-----------------------------------------------------------------------------
\* The elements of a container: the keys and the values of an object, whose parents are
\* the keys.
Elements(toks, c) ==
    {t \in DOMAIN toks : \/ toks[t].parent = c
                         \/ /\ toks[t].parent # 0 /\ toks[c].type = "object"
                            /\ toks[toks[t].parent].parent = c}

\* The reader is where it believes to be: each scope has as many elements left as the
\* text has from the scope's cursor on.  It was lost only in an object that has an empty
\* value.  The cursor of a scope that is not the last is the container entered in it.
InStep(r) ==
    \A i \in DOMAIN r.scopes :
        LET cursor == IF i < Len(r.scopes) THEN r.scopes[i + 1].tok
                      ELSE IF r.pos = None THEN Len(r.toks) + 1 ELSE r.pos
            elements == Elements(r.toks, r.scopes[i].tok)
        IN  IF r.scopes[i].lost THEN \E t \in elements : r.toks[t].start = r.toks[t].end
            ELSE r.scopes[i].left = Cardinality({t \in elements : t >= cursor})
=============================================================================
