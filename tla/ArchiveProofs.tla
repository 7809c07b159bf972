---------------------------- MODULE ArchiveProofs ----------------------------
(***************************************************************************)
(* A document that the writers of Archive let a client complete is one      *)
(* element, and msgpack::reader never loses its place in it, for documents  *)
(* of any length with any counts.                                           *)
(*                                                                          *)
(* Of the reader the invariant is ReaderInv of MsgpackProofs, which each of *)
(* its calls keeps.                                                         *)
(*                                                                          *)
(* Of the writer the invariant says that a reader which had read along      *)
(* would now be at the end of the document, in scopes of the same types,    *)
(* with as many elements left in each as its write_context_helper has yet   *)
(* to count.  So the proof about the reader also serves the writer.         *)
(***************************************************************************)
EXTENDS Archive, MsgpackProofs

-----------------------------------------------------------------------------
(* The writers                                                              *)

\* Of the values of elements only those of strings differ.
Blanks == {"", "text"}
ContextType == [type : {"array", "object", "binary"}, size : Nat, ready : BOOLEAN, capacity : Nat]

WriterType(v) ==
    /\ v = [ctx |-> v.ctx, doc |-> v.doc, text |-> v.text, err |-> v.err]
    /\ v.ctx \in Seq(ContextType) /\ v.doc \in Seq(ElementType(Blanks))

\* A scope is never overfull, and a key that is announced is counted.
Fits(c) == /\ c.size <= c.capacity
           /\ c.ready => c.type = "object" /\ c.size % 2 = 1
           /\ c.type = "object" => c.capacity % 2 = 0
\* The elements that are still to be written: of an announced key, the key is.
Due(c)  == c.capacity - c.size + (IF c.ready THEN 1 ELSE 0)

\* A reader that read along would be at the end, with the elements left that are due.
Follows(x, v) ==
    /\ x \in ReaderType /\ x.pos = Len(v.doc) + 1 /\ x.goal = NoGoal /\ Ok(x)
    /\ Len(x.scopes) = Len(v.ctx)
    /\ \A i \in 1 .. Len(v.ctx) : x.scopes[i].type = v.ctx[i].type /\ x.scopes[i].left = Due(v.ctx[i])
\* No beginning of the document is a document.
OneElement(doc) == \A i \in 1 .. Len(doc) - 1 : Remaining(SubSeq(doc, 1, i)) # <<>>

WriterInv(v) ==
    /\ v.err \in BOOLEAN
    /\ ~v.err => /\ WriterType(v) /\ OneElement(v.doc)
                 /\ \A i \in 1 .. Len(v.ctx) : Fits(v.ctx[i])
                 /\ \E x : ReaderInv(v.doc, x) /\ Follows(x, v)

\* The scopes of a writer
LEMMA ContextIs ==
    ASSUME NEW s \in Seq(ContextType)
    PROVE  /\ Len(s) \in Nat /\ DOMAIN s = 1 .. Len(s) /\ \A i \in 1 .. Len(s) : s[i] \in ContextType
           /\ s # <<>> => Len(s) # 0 /\ Len(s) \in 1 .. Len(s) /\ s[Len(s)] \in ContextType
           /\ Len(s) = 0 => s = <<>>
           /\ W!Last(s) = s[Len(s)]
<1>1. Len(s) \in Nat /\ DOMAIN s = 1 .. Len(s) /\ \A i \in 1 .. Len(s) : s[i] \in ContextType
  BY LenProperties, ElementOfSeq
<1>2. s # <<>> => Len(s) # 0
  BY EmptySeq
<1>3. QED
  BY <1>1, <1>2, EmptySeq DEF W!Last

\* The document goes on behind the reader's position.
LEMMA DocumentGrows ==
    ASSUME NEW d \in Seq(ElementType(Blanks)), NEW e \in ElementType(Blanks), NEW x \in ReaderType,
           ReaderInv(d, x), Ok(x), x.pos = Len(d) + 1
    PROVE  /\ d \o <<e>> \in Seq(ElementType(Blanks)) /\ Len(d \o <<e>>) = Len(d) + 1
           /\ (d \o <<e>>)[Len(d) + 1] = e
           /\ \A i \in 0 .. Len(d) : SubSeq(d \o <<e>>, 1, i) = SubSeq(d, 1, i)
           /\ SubSeq(d, 1, Len(d)) = d
           /\ ReaderInv(d \o <<e>>, x)
<1> DEFINE f == <<e>>
           n == Len(d)
           t == d \o f
<1>1. n \in Nat /\ \A i \in 1 .. n : d[i] \in ElementType(Blanks)
  BY LenProperties, ElementOfSeq
<1>2. f \in Seq(ElementType(Blanks)) /\ Len(f) = 1 /\ f[1] = e
  OBVIOUS
<1> HIDE DEF f
<1>3. /\ t \in Seq(ElementType(Blanks)) /\ Len(t) = n + 1
      /\ \A i \in 1 .. n + 1 : t[i] = IF i <= n THEN d[i] ELSE f[i - n]
  <2>1. /\ t \in Seq(ElementType(Blanks)) /\ Len(t) = Len(d) + Len(f)
        /\ \A i \in 1 .. Len(d) + Len(f) : t[i] = IF i <= Len(d) THEN d[i] ELSE f[i - Len(d)]
    BY <1>2, ConcatProperties
  <2>2. QED
    BY <1>2, <2>1
<1>4. t[n + 1] = e
  <2>1. n + 1 \in 1 .. n + 1 /\ ~(n + 1 <= n) /\ (n + 1) - n = 1
    BY <1>1
  <2>2. QED
    BY <1>2, <1>3, <2>1
<1> HIDE DEF t
<1>5. ASSUME NEW i \in 0 .. n PROVE SubSeq(t, 1, i) = SubSeq(d, 1, i)
  <2>1. \A j \in 1 .. i : t[j] = d[j] /\ t[j] \in ElementType(Blanks) /\ d[j] \in ElementType(Blanks)
    BY <1>1, <1>3
  <2>2. /\ SubSeq(t, 1, i) \in Seq(ElementType(Blanks))
        /\ Len(SubSeq(t, 1, i)) = IF 1 <= i THEN i - 1 + 1 ELSE 0
        /\ \A j \in 1 .. i - 1 + 1 : SubSeq(t, 1, i)[j] = t[1 + j - 1]
    BY <2>1, SubSeqProperties
  <2>3. /\ SubSeq(d, 1, i) \in Seq(ElementType(Blanks))
        /\ Len(SubSeq(d, 1, i)) = IF 1 <= i THEN i - 1 + 1 ELSE 0
        /\ \A j \in 1 .. i - 1 + 1 : SubSeq(d, 1, i)[j] = d[1 + j - 1]
    BY <2>1, SubSeqProperties
  <2>4. Len(SubSeq(t, 1, i)) = i
    BY <2>2
  <2>5. ASSUME NEW j \in 1 .. i PROVE SubSeq(t, 1, i)[j] = SubSeq(d, 1, i)[j]
    <3>1. j \in 1 .. i - 1 + 1 /\ 1 + j - 1 = j
      OBVIOUS
    <3>2. QED
      BY <2>1, <2>2, <2>3, <3>1
  <2>6. QED
    BY <2>2, <2>3, <2>4, <2>5, SeqEqual
<1>6. SubSeq(d, 1, n) = d
  BY SubSeqFull
<1>7. ReaderInv(t, x)
  <2>1. x.pos <= n + 1 /\ InStep(d, x) /\ Leaving(x)
    BY DEF ReaderInv, Placed
  <2>2. x.pos - 1 \in 0 .. n
    BY <1>1
  <2>3. SubSeq(t, 1, x.pos - 1) = SubSeq(d, 1, x.pos - 1)
    BY <1>5, <2>2
  <2>4. InStep(t, x)
    BY <2>1, <2>3 DEF InStep
  <2>5. x.pos <= Len(t) + 1
    BY <1>1, <1>3
  <2>6. QED
    BY <2>1, <2>4, <2>5 DEF ReaderInv, Placed
<1>8. QED
  BY <1>3, <1>4, <1>5, <1>6, <1>7 DEF t, f

\* The writer knows what is left of its last scope.
LEMMA FollowsTop ==
    ASSUME NEW v, WriterType(v), NEW x, Follows(x, v), v.ctx # <<>>, NEW c, c = v.ctx[Len(v.ctx)]
    PROVE  /\ x.scopes \in Seq(ScopeType) /\ x.scopes # <<>> /\ Len(x.scopes) = Len(v.ctx)
           /\ Top(x) = x.scopes[Len(v.ctx)] /\ Top(x) \in ScopeType
           /\ Top(x).type = c.type /\ Top(x).left = Due(c)
           /\ c \in ContextType /\ W!Scope(v) = c /\ Len(v.ctx) \in Nat /\ Len(v.ctx) # 0
<1> DEFINE n == Len(v.ctx)
<1>1. n \in Nat /\ n # 0 /\ n \in 1 .. n /\ c \in ContextType /\ W!Last(v.ctx) = c
  BY ContextIs DEF WriterType
<1>2. x.scopes \in Seq(ScopeType) /\ Len(x.scopes) = n /\ x.scopes[n].type = c.type /\ x.scopes[n].left = Due(c)
  BY <1>1 DEF Follows, ReaderType
<1>3. x.scopes # <<>>
  BY <1>1, <1>2, EmptySeq
<1>4. Top(x) = x.scopes[n] /\ x.scopes[n] \in ScopeType
  BY <1>1, <1>2, ScopesAre DEF Top, Last
<1>5. QED
  BY <1>1, <1>2, <1>3, <1>4 DEF W!Scope

\* The last scope of the writer is replaced.
Replaced(v, u, c) == u = [v EXCEPT !.ctx = [v.ctx EXCEPT ![Len(v.ctx)] = c]]

\* What replacing the last scope changes and what it leaves
LEMMA ReplacedIs ==
    ASSUME NEW v, WriterType(v), v.ctx # <<>>, NEW c \in ContextType, NEW u, Replaced(v, u, c)
    PROVE  /\ WriterType(u) /\ u.doc = v.doc /\ u.err = v.err /\ Len(u.ctx) = Len(v.ctx)
           /\ \A i \in 1 .. Len(v.ctx) : u.ctx[i] = IF i = Len(v.ctx) THEN c ELSE v.ctx[i]
<1> DEFINE t == [v.ctx EXCEPT ![Len(v.ctx)] = c]
<1>1. v.ctx \in Seq(ContextType) /\ Len(v.ctx) \in 1 .. Len(v.ctx)
  BY ContextIs DEF WriterType
<1>2. /\ t \in Seq(ContextType) /\ Len(t) = Len(v.ctx)
      /\ \A i \in 1 .. Len(v.ctx) : t[i] = IF i = Len(v.ctx) THEN c ELSE v.ctx[i]
  BY <1>1, ExceptSeq
<1>3. u = [v EXCEPT !.ctx = t]
  BY DEF Replaced
<1> HIDE DEF t
<1>4. /\ u.ctx = t /\ u.doc = v.doc /\ u.err = v.err
      /\ u = [ctx |-> u.ctx, doc |-> u.doc, text |-> u.text, err |-> u.err]
  BY <1>3 DEF WriterType
<1>5. WriterType(u)
  BY <1>2, <1>4 DEF WriterType
<1>6. QED
  BY <1>2, <1>4, <1>5

\* write_next, when it does not throw: an element is due, and is counted.
Written(v, u) ==
    \/ v.ctx = <<>> /\ u = v
    \/ /\ v.ctx # <<>> /\ Due(v.ctx[Len(v.ctx)]) # 0
       /\ \E c \in ContextType : /\ Replaced(v, u, c) /\ Fits(c) /\ c.type = v.ctx[Len(v.ctx)].type
                                 /\ Due(c) = Due(v.ctx[Len(v.ctx)]) - 1

\* _assert_scope_size_valid, when it does not throw
LEMMA SizedIs ==
    ASSUME NEW v, WriterType(v), v.err = FALSE, ~W!Sized(v).err
    PROVE  W!Sized(v) = v /\ ~(W!Scope(v).size > W!Scope(v).capacity)
<1>1. W!Refuse(v).err = TRUE
  BY DEF W!Refuse, WriterType
<1>2. QED
  BY <1>1 DEF W!Sized

\* write_next, when it does not throw, has counted an element that was due.
LEMMA WriteNextIs ==
    ASSUME NEW v, WriterType(v), v.err = FALSE, \A i \in 1 .. Len(v.ctx) : Fits(v.ctx[i]),
           v.ctx # <<>> => v.ctx[Len(v.ctx)].type # "binary",
           NEW u, u = W!WriteNext(v), ~u.err
    PROVE  Written(v, u)
<1>1. CASE v.ctx = <<>>
  BY <1>1 DEF W!WriteNext, Written
<1>2. CASE v.ctx # <<>>
  <2> DEFINE n == Len(v.ctx)
             c == v.ctx[n]
             k == [c EXCEPT !.ready = FALSE]
             s == [c EXCEPT !.size = c.size + 1]
  <2>1. c \in ContextType /\ W!Scope(v) = c /\ Fits(c) /\ n \in 1 .. n
    BY <1>2, ContextIs DEF WriterType, W!Scope
  <2>2. W!Refuse(v).err = TRUE
    BY DEF W!Refuse, WriterType
  <2>3. u = IF W!IsKey(v) THEN W!SetScope(v, k)
            ELSE IF W!IsKeyNext(v) THEN W!Refuse(v) ELSE W!Sized(W!SetScope(v, s))
    BY <1>2, <2>1 DEF W!WriteNext
  <2>4. c.size \in Nat /\ c.capacity \in Nat /\ c.ready \in BOOLEAN /\ c.size <= c.capacity
    BY <2>1 DEF ContextType, Fits
  <2>5. CASE W!IsKey(v)
    <3>1. c.ready
      BY <2>1, <2>5 DEF W!IsKey
    <3>2. k \in ContextType /\ k.type = c.type /\ k.size = c.size /\ k.capacity = c.capacity /\ k.ready = FALSE
      BY <2>1 DEF ContextType
    <3>3. Replaced(v, u, k)
      BY <2>3, <2>5 DEF W!SetScope, Replaced
    <3> HIDE DEF k
    <3>4. Fits(k)
      BY <2>1, <3>2 DEF Fits
    <3>5. Due(c) # 0 /\ Due(k) = Due(c) - 1
      BY <2>4, <3>1, <3>2 DEF Due
    <3>6. QED
      BY <1>2, <3>2, <3>3, <3>4, <3>5 DEF Written
  <2>6. CASE ~W!IsKey(v)
    <3> DEFINE z == W!SetScope(v, s)
    <3>1. ~W!IsKeyNext(v) /\ u = W!Sized(z)
      BY <2>2, <2>3, <2>6
    <3>2. /\ s \in ContextType /\ s.type = c.type /\ s.size = c.size + 1
          /\ s.capacity = c.capacity /\ s.ready = c.ready
      BY <2>1 DEF ContextType
    <3>3. Replaced(v, z, s)
      BY DEF W!SetScope, Replaced
    <3> HIDE DEF s, z
    <3>4. /\ WriterType(z) /\ z.err = FALSE /\ Len(z.ctx) = n /\ z.ctx[n] = s
      BY <1>2, <2>1, <3>2, <3>3, ReplacedIs
    <3>5. W!Scope(z) = s
      <4>1. z.ctx \in Seq(ContextType)
        BY <3>4 DEF WriterType
      <4>2. QED
        BY <3>4, <4>1, ContextIs DEF W!Scope
    <3>6. u = z /\ ~(s.size > s.capacity)
      BY <3>1, <3>4, <3>5, SizedIs
    <3>7. c.type = "object" => c.size % 2 = 1
      <4>1. c.type = "object" => c.size % 2 # 0
        BY <1>2, <2>1, <3>1 DEF W!IsKeyNext, W!InObject
      <4>2. QED
        BY <2>4, <4>1
    <3>8. ~c.ready
      <4>1. c.ready => c.type = "object"
        BY <2>1 DEF Fits
      <4>2. c.type = "object" => ~c.ready
        BY <1>2, <2>1, <2>6, <3>7 DEF W!IsKey, W!IsKeyCurrent, W!InObject
      <4>3. QED
        BY <4>1, <4>2
    <3>9. Fits(s)
      BY <2>1, <2>4, <3>2, <3>6, <3>8 DEF Fits
    <3>10. Due(c) # 0 /\ Due(s) = Due(c) - 1
      BY <2>4, <3>2, <3>6, <3>8 DEF Due
    <3>11. QED
      BY <1>2, <3>2, <3>3, <3>6, <3>9, <3>10 DEF Written
  <2>7. QED
    BY <2>5, <2>6
<1>3. QED
  BY <1>1, <1>2

\* Where one element more may be written
HasRoom(v) == /\ v.ctx # <<>> => v.ctx[Len(v.ctx)].type # "binary"
              /\ v.ctx # <<>> \/ v.doc = <<>>

\* The reader that follows, x, has taken e and is y when the writer is u and the document d.
Reaches(u, e, d, x, y) ==
    /\ ReaderInv(d, x) /\ Ok(x) /\ Took(d, x, y) /\ d[x.pos] = e
    /\ x.pos = Len(d) /\ x.goal = NoGoal
    /\ Len(y.scopes) = Len(u.ctx)
    /\ \A i \in 1 .. Len(u.ctx) : y.scopes[i].type = u.ctx[i].type /\ y.scopes[i].left = Due(u.ctx[i])
WrittenAlong(v, u, e, d) ==
    /\ d \in Seq(ElementType(Blanks)) /\ Len(d) = Len(v.doc) + 1 /\ OneElement(d)
    /\ WriterType(u) /\ u.doc = v.doc /\ u.err = FALSE /\ Len(u.ctx) = Len(v.ctx)
    /\ \A i \in 1 .. Len(u.ctx) : Fits(u.ctx[i])
    /\ \E x, y : Reaches(u, e, d, x, y)

\* The reader that follows takes the element for which write_next made room.
LEMMA WrittenFollows ==
    ASSUME NEW v, WriterInv(v), v.err = FALSE, HasRoom(v), NEW u, Written(v, u),
           NEW e \in ElementType(Blanks), NEW d, d = v.doc \o <<e>>
    PROVE  WrittenAlong(v, u, e, d)
<1> DEFINE n == Len(v.ctx)
<1>1. WriterType(v) /\ OneElement(v.doc) /\ \A i \in 1 .. n : Fits(v.ctx[i])
  BY DEF WriterInv
<1>2. PICK x : ReaderInv(v.doc, x) /\ Follows(x, v)
  BY DEF WriterInv
<1>3. /\ v.doc \in Seq(ElementType(Blanks)) /\ x \in ReaderType /\ Ok(x) /\ x.pos = Len(v.doc) + 1
      /\ x.goal = NoGoal /\ Len(v.doc) \in Nat
  BY <1>1, <1>2, LenProperties DEF WriterType, Follows
<1>4. /\ d \in Seq(ElementType(Blanks)) /\ Len(d) = Len(v.doc) + 1 /\ d[x.pos] = e /\ ReaderInv(d, x)
      /\ \A i \in 0 .. Len(v.doc) : SubSeq(d, 1, i) = SubSeq(v.doc, 1, i)
      /\ SubSeq(v.doc, 1, Len(v.doc)) = v.doc
  BY <1>2, <1>3, DocumentGrows
<1>5. x.scopes \in Seq(ScopeType) /\ Len(x.scopes) = n /\ n \in Nat
      /\ \A i \in 1 .. n : x.scopes[i].type = v.ctx[i].type /\ x.scopes[i].left = Due(v.ctx[i])
  BY <1>1, <1>2, ContextIs DEF Follows, ReaderType, WriterType
<1>6. /\ WriterType(u) /\ u.doc = v.doc /\ u.err = FALSE /\ Len(u.ctx) = n
      /\ \A i \in 1 .. n : Fits(u.ctx[i])
      /\ \E t : /\ Stepped(x.scopes, t) /\ Len(t) = n
                /\ \A i \in 1 .. n : t[i].type = u.ctx[i].type /\ t[i].left = Due(u.ctx[i])
  <2>1. CASE v.ctx = <<>>
    <3>1. u = v /\ n = 0
      BY <2>1 DEF Written
    <3>2. x.scopes = <<>>
      BY <1>5, <3>1, EmptySeq
    <3>3. Stepped(x.scopes, x.scopes)
      BY <3>2, SteppedOutside
    <3>4. QED
      BY <1>1, <1>5, <3>1, <3>3
  <2>2. CASE v.ctx # <<>>
    <3> DEFINE b == v.ctx[n]
    <3>1. PICK c \in ContextType : Replaced(v, u, c) /\ Fits(c) /\ c.type = b.type /\ Due(c) = Due(b) - 1
      BY <2>2 DEF Written
    <3>2. Due(b) # 0 /\ b.type # "binary"
      BY <2>2 DEF Written, HasRoom
    <3>3. /\ WriterType(u) /\ u.doc = v.doc /\ u.err = v.err /\ Len(u.ctx) = n
          /\ \A i \in 1 .. n : u.ctx[i] = IF i = n THEN c ELSE v.ctx[i]
      BY <1>1, <2>2, <3>1, ReplacedIs
    <3>4. /\ x.scopes # <<>> /\ x.scopes[n] \in ScopeType /\ x.scopes[n].type = b.type
          /\ x.scopes[n].left = Due(b) /\ n # 0
      BY <1>1, <1>2, <2>2, FollowsTop
    <3> DEFINE a == x.scopes[n]
               f == [a EXCEPT !.left = a.left - 1, !.key = a.key]
               t == [x.scopes EXCEPT ![n] = f]
    <3>5. a.key \in BOOLEAN /\ a.left # 0 /\ a.type # "binary" /\ a.left \in Nat
      BY <3>2, <3>4 DEF ScopeType
    <3>6. Stepped(x.scopes, t)
      BY <1>5, <3>4, <3>5, SteppedIs
    <3>7. f \in ScopeType /\ f.left = a.left - 1 /\ f.type = a.type
      <4> DEFINE l == a.left - 1
      <4>1. l \in Nat
        BY <3>5
      <4> HIDE DEF l
      <4>2. [a EXCEPT !.left = l, !.key = a.key] \in ScopeType /\ [a EXCEPT !.left = l, !.key = a.key].left = l
            /\ [a EXCEPT !.left = l, !.key = a.key].type = a.type
        BY <3>4, <4>1 DEF ScopeType
      <4>3. QED
        BY <4>2 DEF l
    <3> HIDE DEF f, b
    <3>8. Len(t) = n /\ \A i \in 1 .. n : t[i] = IF i = n THEN f ELSE x.scopes[i]
      BY <1>5, <3>4, <3>7, ExceptSeq
    <3> HIDE DEF t
    <3>9. ASSUME NEW i \in 1 .. n PROVE t[i].type = u.ctx[i].type /\ t[i].left = Due(u.ctx[i]) /\ Fits(u.ctx[i])
      <4>1. CASE i = n
        BY <3>1, <3>3, <3>4, <3>7, <3>8, <4>1
      <4>2. CASE i # n
        BY <1>1, <1>5, <3>3, <3>8, <4>2
      <4>3. QED
        BY <4>1, <4>2
    <3>10. QED
      BY <3>3, <3>6, <3>8, <3>9
  <2>3. QED
    BY <2>1, <2>2
<1>7. PICK t : /\ Stepped(x.scopes, t) /\ Len(t) = n
               /\ \A i \in 1 .. n : t[i].type = u.ctx[i].type /\ t[i].left = Due(u.ctx[i])
  BY <1>6
<1> DEFINE y == [x EXCEPT !.pos = x.pos + 1, !.scopes = t]
<1>8. y.scopes = t
  BY <1>3 DEF ReaderType
<1>9. Took(d, x, y)
  BY <1>3, <1>4, <1>7, <1>8 DEF Took
<1> HIDE DEF y
<1>10. OneElement(d)
  <2>1. SUFFICES ASSUME NEW i \in 1 .. Len(v.doc) PROVE Remaining(SubSeq(d, 1, i)) # <<>>
    BY <1>3, <1>4 DEF OneElement
  <2>2. SubSeq(d, 1, i) = SubSeq(v.doc, 1, i)
    BY <1>3, <1>4
  <2>3. CASE i # Len(v.doc)
    <3>1. i \in 1 .. Len(v.doc) - 1
      BY <1>3, <2>3
    <3>2. QED
      BY <1>1, <2>2, <3>1 DEF OneElement
  <2>4. CASE i = Len(v.doc)
    <3>1. v.doc # <<>>
      BY <2>4
    <3>2. v.ctx # <<>>
      BY <3>1 DEF HasRoom
    <3>3. n # 0 /\ x.scopes # <<>>
      BY <1>1, <1>2, <3>2, FollowsTop
    <3>4. Takes(x.scopes)
      BY <1>7 DEF Stepped
    <3> DEFINE L == Lefts(x.scopes)
    <3>5. L \in Seq(Nat) /\ Len(L) = n /\ L[n] = x.scopes[n].left
      <4>1. n \in 1 .. n
        BY <1>5, <3>3
      <4>2. QED
        BY <1>5, <4>1, ScopesAre
    <3>6. Full(L)
      BY <1>5, <3>3, <3>4, <3>5 DEF Full, Takes
    <3>7. Open(L) = Remaining(SubSeq(v.doc, 1, x.pos - 1))
      <4>1. Containers(x) = x.scopes
        BY <1>3, <3>4, ContainersAll
      <4>2. QED
        BY <1>2, <1>3, <4>1 DEF ReaderInv, Placed, InStep
    <3>8. x.pos - 1 = i
      BY <1>3, <2>4
    <3> HIDE DEF L
    <3>9. Open(L) = L /\ L # <<>>
      BY <1>5, <3>3, <3>5, <3>6, OpenFull
    <3>10. QED
      BY <2>2, <3>7, <3>8, <3>9
  <2>5. QED
    BY <2>3, <2>4
<1>11. x.pos = Len(d)
  BY <1>3, <1>4
<1>12. Reaches(u, e, d, x, y)
  BY <1>3, <1>4, <1>6, <1>7, <1>8, <1>9, <1>11 DEF Reaches
<1>13. QED
  BY <1>4, <1>6, <1>10, <1>12 DEF WrittenAlong

\* A value or a key has been written.
LEMMA ValueWritten ==
    ASSUME NEW v, WriterInv(v), v.err = FALSE, HasRoom(v), NEW u, Written(v, u),
           NEW e \in ElementType(Blanks), e.k \in Flat, NEW txt,
           NEW z, z = [u EXCEPT !.doc = u.doc \o <<e>>, !.text = txt]
    PROVE  WriterInv(z)
<1> DEFINE d == v.doc \o <<e>>
<1>1. WrittenAlong(v, u, e, d)
  BY WrittenFollows
<1>2. d = v.doc \o <<e>>
  OBVIOUS
<1> HIDE DEF d
<1>3. /\ d \in Seq(ElementType(Blanks)) /\ Len(d) = Len(v.doc) + 1 /\ OneElement(d)
      /\ WriterType(u) /\ u.doc = v.doc /\ u.err = FALSE /\ Len(u.ctx) = Len(v.ctx)
      /\ \A i \in 1 .. Len(u.ctx) : Fits(u.ctx[i])
  BY <1>1 DEF WrittenAlong
<1>4. PICK x, y : Reaches(u, e, d, x, y)
  BY <1>1 DEF WrittenAlong
<1>5. /\ ReaderInv(d, x) /\ Ok(x) /\ Took(d, x, y) /\ d[x.pos] = e
      /\ x.pos = Len(d) /\ x.goal = NoGoal
      /\ Len(y.scopes) = Len(u.ctx)
      /\ \A i \in 1 .. Len(u.ctx) : y.scopes[i].type = u.ctx[i].type /\ y.scopes[i].left = Due(u.ctx[i])
  BY <1>4 DEF Reaches
<1>6. x \in ReaderType
  BY <1>5 DEF ReaderInv
<1>7. z = [u EXCEPT !.doc = d, !.text = txt]
  BY <1>2, <1>3
<1>8. z.ctx = u.ctx /\ z.doc = d /\ z.err = FALSE /\ WriterType(z)
  BY <1>3, <1>7 DEF WriterType
<1>9. ReaderInv(d, y) /\ Ok(y)
  BY <1>3, <1>5, FlatTaken
<1>10. y \in ReaderType /\ y.pos = Len(d) + 1 /\ y.goal = NoGoal
  BY <1>3, <1>5, <1>6, TookIs
<1>11. Follows(y, z)
  <2>1. /\ Len(y.scopes) = Len(z.ctx)
        /\ \A i \in 1 .. Len(z.ctx) : y.scopes[i].type = z.ctx[i].type /\ y.scopes[i].left = Due(z.ctx[i])
    BY <1>5, <1>8, Zenon
  <2>2. y.pos = Len(z.doc) + 1
    BY <1>8, <1>10, Zenon
  <2>3. QED
    BY <1>9, <1>10, <2>1, <2>2 DEF Follows
<1>12. QED
  BY <1>3, <1>8, <1>9, <1>11 DEF WriterInv

\* A container or a binary has been begun.
LEMMA ScopeWritten ==
    ASSUME NEW v, WriterInv(v), v.err = FALSE, HasRoom(v), NEW u, Written(v, u),
           NEW e \in ElementType(Blanks), NEW type, Enters(e.k, type), NEW txt, NEW c,
           c = [type |-> type, size |-> 0, ready |-> FALSE,
                capacity |-> IF type = "object" THEN 2 * e.n ELSE e.n],
           NEW z, z = [u EXCEPT !.ctx = Append(u.ctx, c), !.doc = u.doc \o <<e>>, !.text = txt]
    PROVE  WriterInv(z)
<1> DEFINE d == v.doc \o <<e>>
<1>1. WrittenAlong(v, u, e, d)
  BY WrittenFollows
<1>2. d = v.doc \o <<e>>
  OBVIOUS
<1> HIDE DEF d
<1>3. /\ d \in Seq(ElementType(Blanks)) /\ Len(d) = Len(v.doc) + 1 /\ OneElement(d)
      /\ WriterType(u) /\ u.doc = v.doc /\ u.err = FALSE /\ Len(u.ctx) = Len(v.ctx)
      /\ \A i \in 1 .. Len(u.ctx) : Fits(u.ctx[i])
  BY <1>1 DEF WrittenAlong
<1>4. PICK x, y : Reaches(u, e, d, x, y)
  BY <1>1 DEF WrittenAlong
<1>5. /\ ReaderInv(d, x) /\ Ok(x) /\ Took(d, x, y) /\ d[x.pos] = e
      /\ x.pos = Len(d) /\ x.goal = NoGoal
      /\ Len(y.scopes) = Len(u.ctx)
      /\ \A i \in 1 .. Len(u.ctx) : y.scopes[i].type = u.ctx[i].type /\ y.scopes[i].left = Due(u.ctx[i])
  BY <1>4 DEF Reaches
<1>6. x \in ReaderType
  BY <1>5 DEF ReaderInv
<1> DEFINE n == Len(u.ctx)
           t == Append(u.ctx, c)
           m == IF type = "object" THEN 2 * e.n ELSE e.n
<1>7. m \in Nat /\ (type = "object" => m % 2 = 0) /\ type \in {"array", "object", "binary"}
  <2>1. e.n \in Nat
    BY DEF ElementType, Blanks
  <2>2. (2 * e.n) % 2 = 0
    BY <2>1
  <2>3. QED
    BY <2>1, <2>2 DEF Enters
<1>8. c = [type |-> type, size |-> 0, ready |-> FALSE, capacity |-> m]
  OBVIOUS
<1> HIDE DEF m
<1>9. c \in ContextType /\ c.type = type /\ Fits(c) /\ Due(c) = m
  <2>1. c \in ContextType /\ c.type = type /\ c.size = 0 /\ c.ready = FALSE /\ c.capacity = m
    BY <1>7, <1>8 DEF ContextType
  <2>2. QED
    BY <1>7, <2>1 DEF Fits, Due
<1>10. z = [u EXCEPT !.ctx = t, !.doc = d, !.text = txt]
  BY <1>2, <1>3
<1>11. /\ u.ctx \in Seq(ContextType) /\ n \in Nat
       /\ t \in Seq(ContextType) /\ Len(t) = n + 1 /\ t[n + 1] = c /\ \A i \in 1 .. n : t[i] = u.ctx[i]
  <2>1. u.ctx \in Seq(ContextType) /\ n \in Nat
    BY <1>3, ContextIs DEF WriterType
  <2>2. QED
    BY <1>9, <2>1
<1> HIDE DEF t
<1>12. z.ctx = t /\ z.doc = d /\ z.err = FALSE /\ WriterType(z)
  BY <1>3, <1>10, <1>11 DEF WriterType
<1> DEFINE q == NewScope(y, type, d[x.pos].n)
<1>13. Enters(d[x.pos].k, type)
  BY <1>5
<1>14. /\ q \in ReaderType /\ q.pos = y.pos /\ q.goal = x.goal /\ ReaderInv(d, q) /\ Ok(q)
       /\ Len(q.scopes) = n + 1
  <2>1. d \in Seq(ElementType(Blanks)) /\ ReaderInv(d, x) /\ Ok(x) /\ Took(d, x, y)
    BY <1>3, <1>5
  <2>2. q \in ReaderType /\ q.pos = y.pos /\ q.goal = x.goal /\ ReaderInv(d, q) /\ Ok(q)
    BY <1>13, <2>1, ScopeEntered
  <2>3. Len(q.scopes) = Len(x.scopes) + 1
    BY <1>13, <2>1, ScopeEntered
  <2>4. Len(x.scopes) = n
    BY <1>5, <1>6, <2>1, TookIs
  <2>5. QED
    BY <2>2, <2>3, <2>4
<1>15. y \in ReaderType /\ y.pos = Len(d) + 1 /\ Ok(y) /\ y.scopes \in Seq(ScopeType)
  BY <1>3, <1>5, <1>6, TookIs DEF Ok
<1> DEFINE f == [type |-> type, key |-> FALSE, id |-> y.gen + 1, left |-> m]
<1> DEFINE h == Grown(y)
<1>25. h \in ReaderType /\ h.scopes = y.scopes /\ h.gen = y.gen
  BY <1>15, GrownIs
<1>16. q = [h EXCEPT !.gen = y.gen + 1, !.scopes = Append(y.scopes, f)]
  BY <1>5, <1>15, <1>25 DEF NewScope, m
<1> HIDE DEF h
<1>17. f \in ScopeType /\ f.type = type /\ f.left = m
  <2>1. y.gen + 1 \in Nat
    BY <1>15 DEF ReaderType
  <2>2. QED
    BY <1>7, <2>1 DEF ScopeType
<1> HIDE DEF f
<1>18. q.scopes = Append(y.scopes, f)
  BY <1>16, <1>25 DEF ReaderType
<1> HIDE DEF q
<1>19. q.scopes[n + 1] = f /\ \A i \in 1 .. n : q.scopes[i] = y.scopes[i]
  BY <1>5, <1>11, <1>15, <1>17, <1>18
<1>20. ASSUME NEW i \in 1 .. n + 1
       PROVE  Fits(t[i]) /\ q.scopes[i].type = t[i].type /\ q.scopes[i].left = Due(t[i])
  <2>1. CASE i = n + 1
    BY <1>9, <1>11, <1>17, <1>19, <2>1
  <2>2. CASE i # n + 1
    <3>1. i \in 1 .. n
      BY <1>11, <2>2
    <3>2. QED
      BY <1>3, <1>5, <1>11, <1>19, <3>1
  <2>3. QED
    BY <2>1, <2>2
<1>21. Len(z.ctx) = n + 1
  BY <1>11, <1>12, Zenon
<1>22. \A i \in 1 .. Len(z.ctx) :
          Fits(z.ctx[i]) /\ q.scopes[i].type = z.ctx[i].type /\ q.scopes[i].left = Due(z.ctx[i])
  BY <1>12, <1>20, <1>21, Zenon
<1>23. Follows(q, z)
  <2>1. q.pos = Len(z.doc) + 1 /\ q.goal = NoGoal
    BY <1>5, <1>12, <1>14, <1>15, Zenon
  <2>2. Len(q.scopes) = Len(z.ctx)
    BY <1>14, <1>21, Zenon
  <2>3. QED
    BY <1>14, <1>22, <2>1, <2>2 DEF Follows
<1>24. QED
  BY <1>3, <1>12, <1>14, <1>22, <1>23 DEF WriterInv

-----------------------------------------------------------------------------
(* The calls of the writing client                                          *)

\* It is decided whether the writer has thrown.
Throwing(v) == "err" \in DOMAIN v /\ v.err \in BOOLEAN

\* After an exception the writer is asked nothing more.
LEMMA Refused ==
    ASSUME NEW v, Throwing(v)
    PROVE  Throwing(W!Refuse(v)) /\ W!Refuse(v).err = TRUE /\ WriterInv(W!Refuse(v))
<1>1. DOMAIN W!Refuse(v) = DOMAIN v
  BY DEF W!Refuse
<1>2. W!Refuse(v).err = TRUE
  BY DEF Throwing, W!Refuse
<1>3. QED
  BY <1>1, <1>2 DEF WriterInv, Throwing

\* Nothing is asked of a writer that has thrown.
LEMMA ErrsKeep ==
    ASSUME NEW v, v.err = TRUE
    PROVE  WriterInv(v)
  BY DEF WriterInv

\* write_next leaves a writer that either has thrown or has not.
LEMMA WriteNextThrowing ==
    ASSUME NEW v, Throwing(v)
    PROVE  Throwing(W!WriteNext(v))
<1>1. ASSUME NEW s PROVE Throwing(W!SetScope(v, s))
  <2> DEFINE z == W!SetScope(v, s)
  <2>1. z = [v EXCEPT !.ctx = [v.ctx EXCEPT ![Len(v.ctx)] = s]]
    BY DEF W!SetScope
  <2>2. DOMAIN z = DOMAIN v
    BY <2>1
  <2>3. "err" \in DOMAIN v => z.err = v.err
    BY <2>1
  <2>4. QED
    BY <2>2, <2>3 DEF Throwing
<1>2. ASSUME NEW s PROVE Throwing(W!Sized(W!SetScope(v, s)))
  BY <1>1, Refused DEF W!Sized
<1>3. QED
  BY <1>1, <1>2, Refused DEF W!WriteNext

\* The elements that the writers put into the document
LEMMA ElementIs ==
    ASSUME NEW k \in Kinds, NEW n \in Nat, NEW s \in Blanks
    PROVE  /\ [k |-> k, n |-> n, v |-> s] \in ElementType(Blanks)
           /\ W!Element(k, n, s) = <<[k |-> k, n |-> n, v |-> s]>>
  BY DEF ElementType, Blanks, W!Element

\* write_next in a writer that satisfies the invariant
LEMMA NextWritten ==
    ASSUME NEW v, WriterInv(v), v.err = FALSE, HasRoom(v), NEW u, u = W!WriteNext(v)
    PROVE  /\ Throwing(v) /\ Throwing(u)
           /\ u.err = FALSE => Written(v, u) /\ WriterType(u)
<1>1. WriterType(v) /\ \A i \in 1 .. Len(v.ctx) : Fits(v.ctx[i])
  BY DEF WriterInv
<1>2. Throwing(v)
  <2>1. "err" \in DOMAIN v
    BY <1>1 DEF WriterType
  <2>2. QED
    BY <2>1 DEF Throwing
<1>3. Throwing(u)
  BY <1>2, WriteNextThrowing
<1>4. u.err = FALSE => Written(v, u)
  BY <1>1, WriteNextIs DEF HasRoom
<1>5. u.err = FALSE => WriterType(u)
  BY <1>1, <1>4, ReplacedIs DEF Written
<1>6. QED
  BY <1>2, <1>3, <1>4, <1>5

\* What the write functions do when write_next has counted
LEMMA PutValue ==
    ASSUME NEW v, WriterInv(v), v.err = FALSE, HasRoom(v), NEW k \in {"num", "str", "nil"},
           NEW s \in Blanks, NEW symbols
    PROVE  WriterInv(W!Put(W!WriteNext(v), W!Element(k, 0, s), symbols))
<1> DEFINE u == W!WriteNext(v)
           e == [k |-> k, n |-> 0, v |-> s]
           z == W!Put(u, W!Element(k, 0, s), symbols)
<1>1. Throwing(u) /\ (u.err = FALSE => Written(v, u) /\ WriterType(u))
  BY NextWritten
<1>2. e \in ElementType(Blanks) /\ W!Element(k, 0, s) = <<e>> /\ e.k \in Flat
  <2>1. k \in Kinds /\ k \in Flat
    BY DEF Kinds, Flat
  <2>2. QED
    BY <2>1, ElementIs
<1> SUFFICES WriterInv(z)
  OBVIOUS
<1> HIDE DEF u, e
<1>3. z = IF u.err THEN u ELSE [u EXCEPT !.doc = u.doc \o <<e>>, !.text = u.text \o symbols]
  BY <1>2 DEF W!Put
<1>4. CASE u.err = TRUE
  BY <1>3, <1>4, ErrsKeep
<1>5. CASE u.err = FALSE
  <2> DEFINE txt == u.text \o symbols
  <2>1. z = [u EXCEPT !.doc = u.doc \o <<e>>, !.text = txt]
    BY <1>3, <1>5
  <2> HIDE DEF txt, z
  <2>2. WriterInv(z)
    BY <1>1, <1>2, <1>5, <2>1, ValueWritten
  <2>3. QED
    BY <2>2 DEF z
<1>6. QED
  BY <1>1, <1>4, <1>5 DEF Throwing

\* The write functions: a JSON key that is no string is refused (_on_write_value_only).
LEMMA WriteKeeps ==
    ASSUME NEW v, WriterInv(v), v.err = FALSE, HasRoom(v), NEW k \in {"num", "str", "nil"},
           NEW s \in Blanks, NEW form
    PROVE  WriterInv(W!Write(form, v, k, s))
<1> DEFINE u == W!WriteNext(v)
<1>1. WriterInv(W!Refuse(u))
  BY NextWritten, Refused
<1>2. \A symbols : WriterInv(W!Put(u, W!Element(k, 0, s), symbols))
  BY PutValue
<1>3. \A symbols : WriterInv(W!Put(u, W!Element("str", 0, s), symbols))
  BY PutValue
<1>4. QED
  BY <1>1, <1>2, <1>3 DEF W!Write

\* What object_push, array_push and binary_push do when write_next has counted
LEMMA PutScope ==
    ASSUME NEW v, WriterInv(v), v.err = FALSE, HasRoom(v), NEW k, NEW type, Enters(k, type), NEW n \in Nat,
           NEW symbols
    PROVE  WriterInv(W!Put(W!PushScope(W!WriteNext(v), type, n), W!Element(k, n, ""), symbols))
<1> DEFINE u == W!WriteNext(v)
           e == [k |-> k, n |-> n, v |-> ""]
           c == [type |-> type, size |-> 0, ready |-> FALSE, capacity |-> IF type = "object" THEN 2 * n ELSE n]
           p == W!PushScope(u, type, n)
           z == W!Put(p, W!Element(k, n, ""), symbols)
<1>1. Throwing(u) /\ (u.err = FALSE => Written(v, u) /\ WriterType(u))
  BY NextWritten
<1>2. e \in ElementType(Blanks) /\ W!Element(k, n, "") = <<e>> /\ e.k = k /\ e.n = n
  <2>1. k \in Kinds /\ "" \in Blanks
    BY DEF Kinds, Flat, Enters, Blanks
  <2>2. QED
    BY <2>1, ElementIs
<1> SUFFICES WriterInv(z)
  OBVIOUS
<1> HIDE DEF u, e, c
<1>3. p = W!Refuse(u) \/ (u.err = FALSE /\ p = [u EXCEPT !.ctx = Append(u.ctx, c)])
  BY <1>1 DEF W!PushScope, Throwing, c
<1> HIDE DEF p
<1>4. z = IF p.err THEN p ELSE [p EXCEPT !.doc = p.doc \o <<e>>, !.text = p.text \o symbols]
  BY <1>2 DEF W!Put
<1>5. CASE p = W!Refuse(u)
  BY <1>1, <1>4, <1>5, Refused
<1>6. CASE u.err = FALSE /\ p = [u EXCEPT !.ctx = Append(u.ctx, c)]
  <2> DEFINE txt == u.text \o symbols
             t == Append(u.ctx, c)
  <2>1. p.err = FALSE /\ p.doc = u.doc /\ p.text = u.text
    BY <1>1, <1>6 DEF WriterType
  <2>2. z = [u EXCEPT !.ctx = t, !.doc = u.doc \o <<e>>, !.text = txt]
    <3>1. z = [p EXCEPT !.doc = u.doc \o <<e>>, !.text = txt]
      BY <1>4, <2>1
    <3> DEFINE d == u.doc \o <<e>>
    <3> HIDE DEF txt, t, d, z
    <3>2. p = [u EXCEPT !.ctx = t]
      BY <1>6 DEF t
    <3>3. z = [p EXCEPT !.doc = d, !.text = txt]
      BY <3>1 DEF d
    <3>4. z = [u EXCEPT !.ctx = t, !.doc = d, !.text = txt]
      BY <1>1, <1>6, <3>2, <3>3 DEF WriterType
    <3>5. QED
      BY <3>4 DEF d
  <2>3. c = [type |-> type, size |-> 0, ready |-> FALSE, capacity |-> IF type = "object" THEN 2 * e.n ELSE e.n]
    BY <1>2 DEF c
  <2> HIDE DEF txt, z
  <2>4. WriterInv(z)
    BY <1>1, <1>2, <1>6, <2>2, <2>3, ScopeWritten
  <2>5. QED
    BY <2>4 DEF z
<1>7. QED
  BY <1>3, <1>5, <1>6

\* After object_push and array_push the reader that follows is in the same scopes, unless it threw.
LEMMA PushKeeps ==
    ASSUME NEW v, WriterInv(v), v.err = FALSE, HasRoom(v),
           NEW type \in {"array", "object"}, NEW n \in Nat, NEW form
    PROVE  WriterInv(W!Push(form, v, type, n))
<1> DEFINE k == IF type = "object" THEN "map" ELSE "arr"
<1>1. Enters(k, type)
  BY DEF Enters
<1> HIDE DEF k
<1>2. \A symbols : WriterInv(W!Put(W!PushScope(W!WriteNext(v), type, n), W!Element(k, n, ""), symbols))
  BY <1>1, PutScope
<1>3. WriterInv(W!Refuse(W!WriteNext(v)))
  BY NextWritten, Refused
<1>4. QED
  BY <1>2, <1>3 DEF W!Push, k

\* After binary_push the reader that follows is in the same scopes, unless it threw.
LEMMA BinaryPushKeeps ==
    ASSUME NEW v, WriterInv(v), v.err = FALSE, HasRoom(v), NEW n \in Nat, NEW form
    PROVE  WriterInv(W!BinaryPush(form, v, n))
<1>1. Enters("bin", "binary")
  BY DEF Enters
<1>2. \A symbols : WriterInv(W!Put(W!PushScope(W!WriteNext(v), "binary", n), W!Element("bin", n, ""), symbols))
  BY <1>1, PutScope
<1>3. QED
  BY <1>2 DEF W!BinaryPush

\* The last scope is replaced by one of its type, and the reader that follows does the same.
LEMMA TopWritten ==
    ASSUME NEW v, WriterInv(v), v.err = FALSE, v.ctx # <<>>, NEW c \in ContextType,
           c.type = v.ctx[Len(v.ctx)].type, Fits(c),
           c.type # "binary" => Due(c) = Due(v.ctx[Len(v.ctx)]),
           NEW z, Replaced(v, z, c)
    PROVE  WriterInv(z)
<1> DEFINE n == Len(v.ctx)
           b == v.ctx[n]
<1>1. WriterType(v) /\ OneElement(v.doc) /\ \A i \in 1 .. n : Fits(v.ctx[i])
  BY DEF WriterInv
<1>2. PICK x : ReaderInv(v.doc, x) /\ Follows(x, v)
  BY DEF WriterInv
<1>3. /\ WriterType(z) /\ z.doc = v.doc /\ z.err = FALSE /\ Len(z.ctx) = n
      /\ \A i \in 1 .. n : z.ctx[i] = IF i = n THEN c ELSE v.ctx[i]
  BY <1>1, ReplacedIs
<1>4. /\ x.scopes \in Seq(ScopeType) /\ x.scopes # <<>> /\ Len(x.scopes) = n
      /\ Top(x) = x.scopes[n] /\ Top(x) \in ScopeType
      /\ Top(x).type = b.type /\ Top(x).left = Due(b) /\ n \in Nat /\ n # 0
  BY <1>1, <1>2, FollowsTop
<1>5. x \in ReaderType /\ Ok(x) /\ x.pos = Len(v.doc) + 1 /\ x.goal = NoGoal
      /\ \A i \in 1 .. n : x.scopes[i].type = v.ctx[i].type /\ x.scopes[i].left = Due(v.ctx[i])
  BY <1>2 DEF Follows
<1> DEFINE l == Due(c)
           e == [Top(x) EXCEPT !.left = l]
           y == SetTop(x, e)
           t == [x.scopes EXCEPT ![n] = e]
<1>6. l \in Nat
  <2>1. c.size \in Nat /\ c.capacity \in Nat /\ c.size <= c.capacity /\ c.ready \in BOOLEAN
    BY DEF ContextType, Fits
  <2>2. QED
    BY <2>1 DEF Due
<1> HIDE DEF l
<1>7. e \in ScopeType /\ e.type = Top(x).type /\ e.left = l
  BY <1>4, <1>6 DEF ScopeType
<1>8. e.type # "binary" => e.left = Top(x).left
  BY <1>4, <1>7 DEF l
<1> HIDE DEF e
<1>9. ReaderInv(v.doc, y)
  BY <1>2, <1>4, <1>5, <1>7, <1>8, TopChanged
<1>10. t \in Seq(ScopeType) /\ Len(t) = n /\ \A i \in 1 .. n : t[i] = IF i = n THEN e ELSE x.scopes[i]
  BY <1>4, <1>7, ExceptSeq
<1>11. y = [x EXCEPT !.scopes = t]
  BY <1>4 DEF SetTop
<1> HIDE DEF t, y
<1>12. y \in ReaderType /\ y.pos = x.pos /\ y.goal = x.goal /\ y.scopes = t /\ y.err = x.err
  BY <1>5, <1>10, <1>11 DEF ReaderType
<1>13. Ok(y)
  BY <1>5, <1>12 DEF Ok
<1>14. ASSUME NEW i \in 1 .. n
       PROVE  y.scopes[i].type = z.ctx[i].type /\ y.scopes[i].left = Due(z.ctx[i]) /\ Fits(z.ctx[i])
  <2>1. CASE i = n
    <3>1. y.scopes[i] = e /\ z.ctx[i] = c
      BY <1>3, <1>10, <1>12, <2>1
    <3>2. QED
      BY <1>4, <1>7, <3>1 DEF l
  <2>2. CASE i # n
    BY <1>1, <1>3, <1>5, <1>10, <1>12, <2>2
  <2>3. QED
    BY <2>1, <2>2
<1>15. Follows(y, z)
  BY <1>3, <1>5, <1>10, <1>12, <1>13, <1>14 DEF Follows
<1>16. QED
  BY <1>1, <1>3, <1>9, <1>14, <1>15 DEF WriterInv

\* _assert_scope_size_valid after the last scope was counted up
LEMMA SizedTop ==
    ASSUME NEW v, WriterInv(v), v.err = FALSE, v.ctx # <<>>, NEW c \in ContextType,
           c.type = v.ctx[Len(v.ctx)].type,
           c.size <= c.capacity => Fits(c),
           c.type # "binary" => Due(c) = Due(v.ctx[Len(v.ctx)]),
           NEW z, Replaced(v, z, c)
    PROVE  WriterInv(W!Sized(z))
<1>1. WriterType(v)
  BY DEF WriterInv
<1>2. WriterType(z) /\ z.err = FALSE /\ Len(z.ctx) = Len(v.ctx) /\ z.ctx[Len(v.ctx)] = c
  <2>1. Len(v.ctx) \in 1 .. Len(v.ctx)
    BY <1>1, ContextIs DEF WriterType
  <2>2. QED
    BY <1>1, <2>1, ReplacedIs
<1>3. W!Scope(z) = c
  BY <1>2, ContextIs DEF WriterType, W!Scope
<1>4. CASE c.size > c.capacity
  <2>1. Throwing(z)
    <3>1. "err" \in DOMAIN z
      BY <1>2 DEF WriterType
    <3>2. QED
      BY <1>2, <3>1 DEF Throwing
  <2>2. QED
    BY <1>3, <1>4, <2>1, Refused DEF W!Sized
<1>5. CASE ~(c.size > c.capacity)
  <2>1. W!Sized(z) = z
    BY <1>3, <1>5 DEF W!Sized
  <2>2. c.size <= c.capacity
    BY <1>5 DEF ContextType
  <2>3. QED
    BY <2>1, <2>2, TopWritten
<1>6. QED
  BY <1>4, <1>5

\* write_key_next: the key that is counted is still due.
LEMMA KeyNextKeeps ==
    ASSUME NEW v, WriterInv(v), v.err = FALSE, v.ctx # <<>>
    PROVE  WriterInv(W!WriteKeyNext(v))
<1> DEFINE n == Len(v.ctx)
           b == v.ctx[n]
           s == b.size + 1
           c == [b EXCEPT !.size = s, !.ready = TRUE]
<1>1. WriterType(v) /\ \A i \in 1 .. n : Fits(v.ctx[i])
  BY DEF WriterInv
<1>2. n \in 1 .. n /\ b \in ContextType /\ W!Scope(v) = b
  BY <1>1, ContextIs DEF WriterType, W!Scope
<1>3. Throwing(v)
  <2>1. "err" \in DOMAIN v
    BY <1>1 DEF WriterType
  <2>2. QED
    BY <2>1 DEF Throwing
<1>4. CASE ~W!IsKeyNext(v)
  BY <1>3, <1>4, Refused DEF W!WriteKeyNext
<1>5. CASE W!IsKeyNext(v)
  <2>1. b.type = "object" /\ b.size % 2 = 0
    BY <1>2, <1>5 DEF W!IsKeyNext, W!InObject
  <2>2. Fits(b) /\ b.size \in Nat /\ b.capacity \in Nat /\ b.ready \in BOOLEAN
    BY <1>1, <1>2 DEF ContextType
  <2>3. s \in Nat /\ s = b.size + 1
    BY <2>2
  <2>4. W!WriteKeyNext(v) = W!Sized(W!SetScope(v, c))
    BY <1>2, <1>5 DEF W!WriteKeyNext
  <2> HIDE DEF s
  <2>5. c \in ContextType /\ c.type = b.type /\ c.size = s /\ c.ready = TRUE /\ c.capacity = b.capacity
    BY <1>2, <2>3 DEF ContextType
  <2>6. Replaced(v, W!SetScope(v, c), c)
    BY DEF W!SetScope, Replaced
  <2> HIDE DEF c
  <2>7. c.size <= c.capacity => Fits(c)
    BY <2>1, <2>2, <2>3, <2>5 DEF Fits
  <2>8. Due(c) = Due(b)
    <3>1. ~b.ready
      BY <2>1, <2>2 DEF Fits
    <3>2. QED
      BY <2>2, <2>3, <2>5, <3>1 DEF Due
  <2> HIDE DEF b
  <2>9. c.type = v.ctx[Len(v.ctx)].type /\ Due(c) = Due(v.ctx[Len(v.ctx)])
    BY <2>5, <2>8 DEF b
  <2>10. WriterInv(W!Sized(W!SetScope(v, c)))
    BY <2>5, <2>6, <2>7, <2>9, SizedTop
  <2>11. QED
    BY <2>4, <2>10
<1>6. QED
  BY <1>4, <1>5

\* After binary_write_some the reader that follows is in the same scopes, unless it threw.
LEMMA BinaryWriteKeeps ==
    ASSUME NEW v, WriterInv(v), v.err = FALSE, v.ctx # <<>>, v.ctx[Len(v.ctx)].type = "binary", NEW m \in Nat
    PROVE  WriterInv(W!BinaryWriteSome(v, m))
<1> DEFINE n == Len(v.ctx)
           b == v.ctx[n]
           s == b.size + m
           c == [b EXCEPT !.size = s]
<1>1. WriterType(v) /\ \A i \in 1 .. n : Fits(v.ctx[i])
  BY DEF WriterInv
<1>2. n \in 1 .. n /\ b \in ContextType /\ W!Scope(v) = b
  BY <1>1, ContextIs DEF WriterType, W!Scope
<1>3. Fits(b) /\ s \in Nat
  BY <1>1, <1>2 DEF ContextType
<1>4. W!BinaryWriteSome(v, m) = W!Sized(W!SetScope(v, c))
  BY <1>2 DEF W!BinaryWriteSome
<1> HIDE DEF s
<1>5. c \in ContextType /\ c.type = b.type /\ c.ready = b.ready /\ c.capacity = b.capacity
  BY <1>2, <1>3 DEF ContextType
<1>6. Replaced(v, W!SetScope(v, c), c)
  BY DEF W!SetScope, Replaced
<1> HIDE DEF c
<1>7. c.size <= c.capacity => Fits(c)
  BY <1>3, <1>5 DEF Fits
<1>8. WriterInv(W!Sized(W!SetScope(v, c)))
  BY <1>5, <1>6, <1>7, SizedTop
<1>9. QED
  BY <1>4, <1>8

\* object_pop, array_pop and binary_pop: the scope that is left is finished.
LEMMA PopKeeps ==
    ASSUME NEW v, WriterInv(v), v.err = FALSE, v.ctx # <<>>, NEW form
    PROVE  WriterInv(W!Pop(form, v))
<1> DEFINE n == Len(v.ctx)
           b == v.ctx[n]
           p == W!PopScope(v)
           z(symbols) == W!Put(p, <<>>, symbols)
<1>1. WriterType(v) /\ OneElement(v.doc) /\ \A i \in 1 .. n : Fits(v.ctx[i])
  BY DEF WriterInv
<1>2. n \in Nat /\ n \in 1 .. n /\ b \in ContextType /\ W!Scope(v) = b /\ v.ctx \in Seq(ContextType)
  BY <1>1, ContextIs DEF WriterType, W!Scope
<1>3. Throwing(v)
  <2>1. "err" \in DOMAIN v
    BY <1>1 DEF WriterType
  <2>2. QED
    BY <2>1 DEF Throwing
<1>4. SUFFICES ASSUME NEW symbols PROVE WriterInv(z(symbols))
  BY DEF W!Pop
<1>5. CASE b.size # b.capacity
  <2>1. p = W!Refuse(v)
    BY <1>2, <1>5 DEF W!PopScope
  <2>2. WriterInv(p) /\ p.err = TRUE
    BY <1>3, <2>1, Refused
  <2>3. z(symbols) = p
    BY <2>2 DEF W!Put
  <2>4. QED
    BY <2>2, <2>3
<1>6. CASE b.size = b.capacity
  <2> DEFINE t == W!Front(v.ctx)
             txt == v.text \o symbols
             y == z(symbols)
  <2>1. p = [v EXCEPT !.ctx = t]
    BY <1>2, <1>6 DEF W!PopScope
  <2>2. /\ t \in Seq(ContextType) /\ Len(t) = n - 1 /\ \A i \in 1 .. n - 1 : t[i] = v.ctx[i]
    <3>1. t = SubSeq(v.ctx, 1, n - 1)
      BY DEF W!Front
    <3>2. /\ SubSeq(v.ctx, 1, n - 1) \in Seq(ContextType)
          /\ Len(SubSeq(v.ctx, 1, n - 1)) = IF 1 <= n - 1 THEN (n - 1) - 1 + 1 ELSE 0
          /\ \A i \in 1 .. (n - 1) - 1 + 1 : SubSeq(v.ctx, 1, n - 1)[i] = v.ctx[1 + i - 1]
      BY <1>2, ElementOfSeq, SubSeqProperties
    <3>3. Len(t) = n - 1
      BY <1>2, <3>1, <3>2
    <3>4. ASSUME NEW i \in 1 .. n - 1 PROVE t[i] = v.ctx[i]
      <4>1. i \in 1 .. (n - 1) - 1 + 1 /\ 1 + i - 1 = i
        BY <1>2
      <4>2. QED
        BY <3>1, <3>2, <4>1
    <3>5. QED
      BY <3>1, <3>2, <3>3, <3>4
  <2> HIDE DEF t
  <2>3. p.err = FALSE /\ p.doc = v.doc /\ p.text = v.text
    BY <1>1, <2>1 DEF WriterType
  <2>4. v.doc \o <<>> = v.doc
    <3>1. v.doc \in Seq(ElementType(Blanks))
      BY <1>1 DEF WriterType
    <3>2. QED
      BY <3>1
  <2>5. y = [p EXCEPT !.doc = v.doc, !.text = txt]
    <3>1. y = [p EXCEPT !.doc = v.doc \o <<>>, !.text = txt]
      BY <2>3 DEF W!Put
    <3>2. QED
      BY <2>4, <3>1
  <2> HIDE DEF p, txt, y
  <2>6. /\ y.ctx = t /\ y.doc = v.doc /\ y.err = FALSE
        /\ y = [ctx |-> y.ctx, doc |-> y.doc, text |-> y.text, err |-> y.err]
    BY <1>1, <2>1, <2>5 DEF WriterType
  <2>7. WriterType(y)
    BY <1>1, <2>2, <2>6 DEF WriterType
  <2>8. PICK x : ReaderInv(v.doc, x) /\ Follows(x, v)
    BY DEF WriterInv
  <2>9. /\ x.scopes \in Seq(ScopeType) /\ x.scopes # <<>> /\ Len(x.scopes) = n
        /\ Top(x).type = b.type /\ Top(x).left = Due(b)
    BY <1>1, <2>8, FollowsTop
  <2>10. Top(x).left = 0
    <3>1. Fits(b) /\ b.size \in Nat /\ b.capacity \in Nat /\ b.ready \in BOOLEAN
      BY <1>1, <1>2 DEF ContextType
    <3>2. ~b.ready
      BY <1>6, <3>1 DEF Fits
    <3>3. QED
      BY <1>6, <2>9, <3>1, <3>2 DEF Due
  <2>11. x \in ReaderType /\ Ok(x) /\ x.pos = Len(v.doc) + 1 /\ x.goal = NoGoal
         /\ \A i \in 1 .. n : x.scopes[i].type = v.ctx[i].type /\ x.scopes[i].left = Due(v.ctx[i])
    BY <2>8 DEF Follows
  <2> DEFINE f == Front(x.scopes)
             q == [x EXCEPT !.scopes = f, !.goal = NoGoal]
  <2>12. ReaderInv(v.doc, q)
    <3>1. NoGoal \in Int
      BY DEF NoGoal
    <3>2. QED
      BY <2>8, <2>9, <2>10, <2>11, <3>1, ScopeLeft
  <2>13. f \in Seq(ScopeType) /\ Len(f) = n - 1 /\ \A i \in 1 .. n - 1 : f[i] = x.scopes[i]
    BY <2>9, FrontIs
  <2> HIDE DEF f
  <2>14. q \in ReaderType /\ q.pos = x.pos /\ q.goal = NoGoal /\ q.scopes = f /\ q.err = x.err
    BY <2>11, <2>13 DEF ReaderType, NoGoal
  <2> HIDE DEF q
  <2>15. Ok(q)
    BY <2>11, <2>14 DEF Ok
  <2>16. ASSUME NEW i \in 1 .. n - 1
         PROVE  q.scopes[i].type = t[i].type /\ q.scopes[i].left = Due(t[i]) /\ Fits(t[i])
    <3>1. i \in 1 .. n
      BY <1>2
    <3>2. QED
      BY <1>1, <2>2, <2>11, <2>13, <2>14, <3>1
  <2>17. Follows(q, y)
    BY <2>2, <2>6, <2>11, <2>13, <2>14, <2>15, <2>16 DEF Follows
  <2>18. WriterInv(y)
    BY <1>1, <2>2, <2>6, <2>7, <2>12, <2>16, <2>17 DEF WriterInv
  <2>19. QED
    BY <2>18 DEF y, p
<1>7. QED
  BY <1>5, <1>6

-----------------------------------------------------------------------------
(* The inductive invariant                                                  *)

\* A loop that reads freed memory is in a scope beyond those reserved.
Loops(x) == IF x.err = "undefined" THEN x.scopes # <<>> /\ Len(x.scopes) >= Reserved
            ELSE Sound(Reserved, x)

Inductive ==
    /\ phase \in {"write", "read"}
    /\ WriterInv(w)
    /\ phase = "read" => w.err = FALSE
    /\ Msgpack => ReaderInv(w.doc, r) /\ Loops(r)

\* A sound vector is all that is asked of a reader outside of undefined behaviour.
LEMMA SoundLoops ==
    ASSUME NEW x, Sound(Reserved, x)
    PROVE  Loops(x)
  BY DEF Loops, Sound

\* A blank writer is followed by a reader at the beginning of an empty document.
LEMMA Starts == Init => Inductive
<1> SUFFICES ASSUME Init PROVE Inductive
  OBVIOUS
<1>1. W!Blank.ctx = <<>> /\ W!Blank.doc = <<>> /\ W!Blank.err = FALSE
      /\ W!Blank = [ctx |-> W!Blank.ctx, doc |-> W!Blank.doc, text |-> W!Blank.text, err |-> W!Blank.err]
  BY DEF W!Blank
<1>2. <<>> \in Seq(ElementType(Blanks)) /\ <<>> \in Seq(ContextType) /\ Len(<<>>) = 0
  BY EmptySeq
<1>3. WriterType(W!Blank)
  BY <1>1, <1>2 DEF WriterType
<1> DEFINE x == Start(Reserved)
<1>4. ReaderInv(<<>>, x) /\ Follows(x, W!Blank)
  <2>1. ReaderInv(<<>>, x) /\ x \in ReaderType /\ Ok(x)
    BY <1>2, ReservedAssumption, StartKeeps
  <2>2. x.pos = 1 /\ x.scopes = <<>> /\ x.goal = NoGoal
    BY DEF Start
  <2>3. QED
    BY <1>1, <1>2, <2>1, <2>2 DEF Follows
<1>5. OneElement(<<>>)
  BY <1>2 DEF OneElement
<1>6. WriterInv(W!Blank)
  <2>1. \A i \in 1 .. Len(W!Blank.ctx) : Fits(W!Blank.ctx[i])
    BY <1>1, <1>2
  <2>2. OneElement(W!Blank.doc)
    BY <1>1, <1>5
  <2>3. \E y : ReaderInv(W!Blank.doc, y) /\ Follows(y, W!Blank)
    BY <1>1, <1>4
  <2> DEFINE b == W!Blank
  <2>4. b.err = FALSE
    BY <1>1
  <2> HIDE DEF b
  <2>5. WriterInv(b)
    BY <1>3, <2>1, <2>2, <2>3, <2>4 DEF WriterInv, b
  <2>6. QED
    BY <2>5 DEF b
<1>7. QED
  BY <1>6 DEF Init, Inductive, Msgpack

\* A call of the writing client
LEMMA Calls ==
    ASSUME Inductive, NEW z, Call(z), w.err = FALSE => WriterInv(z)
    PROVE  Inductive'
<1>1. w.err = FALSE
  BY DEF Inductive, Call, WriterInv
<1>2. WriterInv(z)
  BY <1>1
<1>3. phase' = "write" /\ w' = z
  BY DEF Call
<1>4. WriterInv(w')
  BY <1>2, <1>3
<1>5. QED
  BY <1>3, <1>4 DEF Inductive, Msgpack

\* A call of the reading client of MessagePack, or a turn of a loop in one
LEMMA Reads ==
    ASSUME Inductive, NEW z, Msgpack, MsgpackStep(z), ReaderInv(w.doc, z), Loops(z)
    PROVE  Inductive'
<1>1. r' = z /\ format' = format /\ phase' = phase /\ w' = w
  BY DEF MsgpackStep
<1>2. ReaderInv(w'.doc, r') /\ Loops(r')
  BY <1>1
<1>3. WriterInv(w')
  BY <1>1 DEF Inductive
<1>4. QED
  BY <1>1, <1>2, <1>3 DEF Inductive, Msgpack

\* What is read is a document whose elements fit their types.
LEMMA Reading ==
    ASSUME Inductive, Msgpack, Ok(r)
    PROVE  /\ w.doc \in Seq(ElementType(Blanks)) /\ ReaderInv(w.doc, r) /\ r \in ReaderType
           /\ Sound(Reserved, r) /\ r.pos \in Nat \ {0}
<1>1. w.err = FALSE /\ WriterInv(w) /\ ReaderInv(w.doc, r) /\ Loops(r)
  BY DEF Inductive, Msgpack
<1>2. w.doc \in Seq(ElementType(Blanks))
  BY <1>1 DEF WriterInv, WriterType
<1>3. r \in ReaderType /\ r.pos \in Nat \ {0}
  BY <1>1 DEF ReaderInv, ReaderType
<1>4. Sound(Reserved, r)
  BY <1>1 DEF Loops, Ok
<1>5. QED
  BY <1>1, <1>2, <1>3, <1>4

\* The writing client writes an element where the model lets it.
LEMMA Rooms ==
    ASSUME Inductive, Room, w.err = FALSE
    PROVE  HasRoom(w)
<1>1. w.ctx # <<>> => W!Last(w.ctx) = w.ctx[Len(w.ctx)]
  BY DEF W!Last
<1>2. w.ctx # <<>> => w.ctx[Len(w.ctx)].type # "binary"
  BY <1>1 DEF Room, InBinary, Last, W!Last
<1>3. QED
  BY <1>2 DEF Room, HasRoom

\* The steps of the writing client
LEMMA WritingKeeps ==
    ASSUME Inductive, \/ KeyNext \/ Write \/ PushArray \/ PushObject \/ PushBinary \/ WriteBinary \/ PopScope
    PROVE  Inductive'
<1>1. WriterInv(w)
  BY DEF Inductive
<1>2. \A n \in Counts : n \in Nat
  BY BoundsAssumption
<1>3. CASE KeyNext
  <2>1. Call(W!WriteKeyNext(w)) /\ w.ctx # <<>>
    BY <1>3 DEF KeyNext
  <2>2. QED
    BY <1>1, <2>1, KeyNextKeeps, Calls
<1>4. CASE Write
  <2>1. PICK k \in {"num", "str", "nil"}, s \in Blanks : Call(W!Write(format, w, k, s))
    BY <1>4 DEF Write, Texts, Blanks
  <2>2. w.err = FALSE => WriterInv(W!Write(format, w, k, s))
    BY <1>1, <1>4, Rooms, WriteKeeps DEF Write
  <2>3. QED
    BY <2>1, <2>2, Calls
<1>5. CASE PushArray
  <2>1. PICK n \in Counts : Call(W!Push(format, w, "array", n))
    BY <1>5 DEF PushArray
  <2>2. w.err = FALSE => WriterInv(W!Push(format, w, "array", n))
    BY <1>1, <1>2, <1>5, Rooms, PushKeeps DEF PushArray
  <2>3. QED
    BY <2>1, <2>2, Calls
<1>6. CASE PushObject
  <2>1. PICK n \in Counts : Call(W!Push(format, w, "object", n))
    BY <1>6 DEF PushObject
  <2>2. w.err = FALSE => WriterInv(W!Push(format, w, "object", n))
    BY <1>1, <1>2, <1>6, Rooms, PushKeeps DEF PushObject
  <2>3. QED
    BY <2>1, <2>2, Calls
<1>7. CASE PushBinary
  <2>1. PICK n \in Counts : Call(W!BinaryPush(format, w, n))
    BY <1>7 DEF PushBinary
  <2>2. w.err = FALSE => WriterInv(W!BinaryPush(format, w, n))
    BY <1>1, <1>2, <1>7, Rooms, BinaryPushKeeps DEF PushBinary
  <2>3. QED
    BY <2>1, <2>2, Calls
<1>8. CASE WriteBinary
  <2>1. PICK n \in Counts \ {0} : Call(W!BinaryWriteSome(w, n))
    BY <1>8 DEF WriteBinary
  <2>2. w.ctx # <<>> /\ w.ctx[Len(w.ctx)].type = "binary"
    BY <1>8 DEF WriteBinary, InBinary, Last
  <2>3. w.err = FALSE => WriterInv(W!BinaryWriteSome(w, n))
    BY <1>1, <1>2, <2>2, BinaryWriteKeeps
  <2>4. QED
    BY <2>1, <2>3, Calls
<1>9. CASE PopScope
  <2>1. Call(W!Pop(format, w)) /\ w.ctx # <<>>
    BY <1>9 DEF PopScope
  <2>2. w.err = FALSE => WriterInv(W!Pop(format, w))
    BY <1>1, <2>1, PopKeeps
  <2>3. QED
    BY <2>1, <2>2, Calls
<1>10. QED
  BY <1>3, <1>4, <1>5, <1>6, <1>7, <1>8, <1>9

\* The document is delivered complete, and msgpack::reader starts at its beginning.
LEMMA DeliverKeeps ==
    ASSUME Inductive, Deliver
    PROVE  Inductive'
<1>1. phase' = "read" /\ w' = w /\ format' = format /\ w.err \in BOOLEAN /\ ~w.err /\ WriterInv(w)
  BY DEF Inductive, Deliver, Complete, WriterInv
<1>2. WriterInv(w') /\ w'.err = FALSE
  BY <1>1
<1>3. Msgpack' => ReaderInv(w'.doc, r') /\ Loops(r')
  <2>1. SUFFICES ASSUME Msgpack' PROVE ReaderInv(w'.doc, r') /\ Loops(r')
    OBVIOUS
  <2>2. format # "json"
    BY <1>1, <2>1 DEF Msgpack
  <2>3. r' = Start(Reserved)
    BY <2>2 DEF Deliver
  <2>4. w.doc \in Seq(ElementType(Blanks))
    BY <1>1 DEF WriterInv, WriterType
  <2>5. ReaderInv(w.doc, Start(Reserved)) /\ Loops(Start(Reserved))
    BY <2>4, ReservedAssumption, StartKeeps, SoundStart, SoundLoops
  <2>6. QED
    BY <1>1, <2>3, <2>5
<1>4. QED
  BY <1>1, <1>2, <1>3 DEF Inductive

\* The steps of the reading client of MessagePack
LEMMA ReadingKeeps ==
    ASSUME Inductive,
           \/ MReadNumber \/ MReadString \/ MSkip \/ MReadKeyNext \/ MBeginArray \/ MBeginObject
           \/ MBeginBinary \/ MReadBinary \/ MEndBinary \/ MEndScope \/ MBreakStep
    PROVE  Inductive'
<1>1. Msgpack /\ Ok(r)
  BY DEF MReadNumber, MReadString, MSkip, MReadKeyNext, MBeginArray, MBeginObject, MBeginBinary,
         MReadBinary, MEndBinary, MEndScope, MBreakStep, MsgpackCall, MsgpackStep
<1>2. /\ w.doc \in Seq(ElementType(Blanks)) /\ ReaderInv(w.doc, r) /\ r \in ReaderType
      /\ Sound(Reserved, r) /\ r.pos \in Nat \ {0} /\ Reserved \in Nat
  BY <1>1, ReservedAssumption, Reading
<1>3. CASE MReadNumber
  <2>1. MsgpackStep(ReadNumber(w.doc, r))
    BY <1>3 DEF MReadNumber, MsgpackCall
  <2>2. ReaderInv(w.doc, ReadNumber(w.doc, r))
    BY <1>1, <1>2, ReadNumberKeeps
  <2>3. Loops(ReadNumber(w.doc, r))
    BY <1>2, SoundReads, SoundLoops
  <2>4. QED
    BY <1>1, <2>1, <2>2, <2>3, Reads
<1>4. CASE MReadString
  <2>1. MsgpackStep(ReadString(w.doc, r))
    BY <1>4 DEF MReadString, MsgpackCall
  <2>2. ReaderInv(w.doc, ReadString(w.doc, r))
    BY <1>1, <1>2, ReadStringKeeps
  <2>3. Loops(ReadString(w.doc, r))
    BY <1>2, SoundReads, SoundLoops
  <2>4. QED
    BY <1>1, <2>1, <2>2, <2>3, Reads
<1>5. CASE MSkip
  <2>1. MsgpackStep(Skip(w.doc, r)) /\ ~InScope(r, "binary")
    BY <1>5 DEF MSkip, MsgpackCall
  <2>2. ReaderInv(w.doc, Skip(w.doc, r))
    BY <1>1, <1>2, <2>1, SkipKeeps
  <2>3. Loops(Skip(w.doc, r))
    BY <1>2, SoundSkips, SoundLoops
  <2>4. QED
    BY <1>1, <2>1, <2>2, <2>3, Reads
<1>6. CASE MReadKeyNext
  <2>1. MsgpackStep(ReadKeyNext(r))
    BY <1>6 DEF MReadKeyNext, MsgpackCall
  <2>2. ReaderInv(w.doc, ReadKeyNext(r))
    BY <1>1, <1>2, ReadKeyNextKeeps
  <2>3. Loops(ReadKeyNext(r))
    BY <1>2, SoundEnds, SoundLoops
  <2>4. QED
    BY <1>1, <2>1, <2>2, <2>3, Reads
<1>7. CASE MBeginArray
  <2>1. MsgpackStep(BeginArray(w.doc, r))
    BY <1>7 DEF MBeginArray, MsgpackCall
  <2>2. ReaderInv(w.doc, BeginArray(w.doc, r))
    BY <1>1, <1>2, BeginArrayKeeps
  <2>3. Loops(BeginArray(w.doc, r))
    BY <1>2, SoundBegins, SoundLoops
  <2>4. QED
    BY <1>1, <2>1, <2>2, <2>3, Reads
<1>8. CASE MBeginObject
  <2>1. MsgpackStep(BeginObject(w.doc, r))
    BY <1>8 DEF MBeginObject, MsgpackCall
  <2>2. ReaderInv(w.doc, BeginObject(w.doc, r))
    BY <1>1, <1>2, BeginObjectKeeps
  <2>3. Loops(BeginObject(w.doc, r))
    BY <1>2, SoundBegins, SoundLoops
  <2>4. QED
    BY <1>1, <2>1, <2>2, <2>3, Reads
<1>9. CASE MBeginBinary
  <2>1. MsgpackStep(BeginBinary(w.doc, r))
    BY <1>9 DEF MBeginBinary, MsgpackCall
  <2>2. ReaderInv(w.doc, BeginBinary(w.doc, r))
    BY <1>1, <1>2, BeginBinaryKeeps
  <2>3. Loops(BeginBinary(w.doc, r))
    BY <1>2, SoundBegins, SoundLoops
  <2>4. QED
    BY <1>1, <2>1, <2>2, <2>3, Reads
<1>10. CASE MReadBinary
  <2>1. PICK n \in Counts \ {0} : MsgpackStep(ReadBinary(r, n))
    BY <1>10 DEF MReadBinary, MsgpackCall
  <2>2. ReaderInv(w.doc, ReadBinary(r, n))
    BY <1>1, <1>2, BoundsAssumption, ReadBinaryKeeps
  <2>3. Loops(ReadBinary(r, n))
    BY <1>2, SoundEnds, SoundLoops
  <2>4. QED
    BY <1>1, <2>1, <2>2, <2>3, Reads
<1>11. CASE MEndBinary
  <2>1. MsgpackStep(EndBinary(r)) /\ r.goal = NoGoal
    BY <1>11 DEF MEndBinary, MsgpackCall
  <2>2. ReaderInv(w.doc, EndBinary(r))
    BY <1>1, <1>2, <2>1, EndBinaryKeeps
  <2>3. Loops(EndBinary(r))
    BY <1>2, SoundEnds, SoundLoops
  <2>4. QED
    BY <1>1, <2>1, <2>2, <2>3, Reads
<1>12. CASE MEndScope
  <2>1. PICK type \in {"array", "object"}, id \in 1 .. r.gen : MsgpackStep(EndScope(r, type, id))
    BY <1>12 DEF MEndScope, MsgpackCall
  <2>2. ReaderInv(w.doc, EndScope(r, type, id))
    BY <1>1, <1>2, EndScopeKeeps
  <2>3. Loops(EndScope(r, type, id))
    BY <1>2, SoundEnds, SoundLoops
  <2>4. QED
    BY <1>1, <2>1, <2>2, <2>3, Reads
<1>13. CASE MBreakStep
  <2>1. MsgpackStep(BreakStep(w.doc, r)) /\ r.goal # NoGoal
    BY <1>13 DEF MBreakStep
  <2>2. ReaderInv(w.doc, BreakStep(w.doc, r))
    BY <1>1, <1>2, <2>1, BreakStepKeeps
  <2>3. Loops(BreakStep(w.doc, r))
    <3>1. CASE Dangles(r)
      BY <1>1, <1>2, <3>1, SoundBreakStep, DanglingIs DEF Loops
    <3>2. CASE ~Dangles(r)
      BY <1>1, <1>2, <3>2, SoundBreakStep, SoundLoops
    <3>3. QED
      BY <3>1, <3>2
  <2>4. QED
    BY <1>1, <2>1, <2>2, <2>3, Reads
<1>14. QED
  BY <1>3, <1>4, <1>5, <1>6, <1>7, <1>8, <1>9, <1>10, <1>11, <1>12, <1>13

\* The reader of JSON leaves the document and the reader of MessagePack alone.
LEMMA JsonKeeps ==
    ASSUME Inductive,
           \/ JReadNumber \/ JReadString \/ JSkip \/ JReadKeyNext \/ JBeginArray \/ JBeginObject
           \/ JGotoKey \/ JEndScope
    PROVE  Inductive'
<1>1. format = "json" /\ format' = format /\ phase' = phase /\ w' = w
  BY DEF JReadNumber, JReadString, JSkip, JReadKeyNext, JBeginArray, JBeginObject, JGotoKey, JEndScope,
         JsonCall, Json
<1>2. WriterInv(w')
  BY <1>1 DEF Inductive
<1>3. QED
  BY <1>1, <1>2 DEF Inductive, Msgpack

\* The invariant holds in every state.
LEMMA InductiveHolds == Spec => []Inductive
<1>1. Inductive /\ [Next]_vars => Inductive'
  <2> SUFFICES ASSUME Inductive, [Next]_vars PROVE Inductive'
    OBVIOUS
  <2>1. CASE KeyNext \/ Write \/ PushArray \/ PushObject \/ PushBinary \/ WriteBinary \/ PopScope
    BY <2>1, WritingKeeps
  <2>2. CASE Deliver
    BY <2>2, DeliverKeeps
  <2>3. CASE \/ MReadNumber \/ MReadString \/ MSkip \/ MReadKeyNext \/ MBeginArray \/ MBeginObject
             \/ MBeginBinary \/ MReadBinary \/ MEndBinary \/ MEndScope \/ MBreakStep
    BY <2>3, ReadingKeeps
  <2>4. CASE \/ JReadNumber \/ JReadString \/ JSkip \/ JReadKeyNext \/ JBeginArray \/ JBeginObject
             \/ JGotoKey \/ JEndScope
    BY <2>4, JsonKeeps
  <2>5. CASE UNCHANGED vars
    <3>1. w' = w /\ r' = r /\ format' = format /\ phase' = phase
      BY <2>5 DEF vars
    <3>2. WriterInv(w') /\ (Msgpack => ReaderInv(w'.doc, r') /\ Loops(r'))
      BY <3>1 DEF Inductive
    <3>3. QED
      BY <3>1, <3>2 DEF Inductive, Msgpack
  <2>6. QED
    BY <2>1, <2>2, <2>3, <2>4, <2>5 DEF Next
<1>2. QED
  BY <1>1, Starts, PTL DEF Spec

\* What the writers let a client complete is one element, for any client that pops what it
\* pushed, with any counts and of any length (write_context_helper).
THEOREM DocumentsWellFormed == Spec => []WellFormed
<1>1. Inductive => WellFormed
  <2>1. SUFFICES ASSUME Inductive, Complete
                 PROVE  Remaining(w.doc) = <<>> /\ OneElement(w.doc)
    BY DEF WellFormed, OneElement
  <2>2. ~w.err /\ w.ctx = <<>> /\ WriterInv(w)
    BY <2>1 DEF Inductive, Complete
  <2>3. WriterType(w) /\ OneElement(w.doc)
    BY <2>2 DEF WriterInv
  <2>4. PICK x : ReaderInv(w.doc, x) /\ Follows(x, w)
    BY <2>2 DEF WriterInv
  <2>5. w.doc \in Seq(ElementType(Blanks)) /\ Len(w.doc) \in Nat /\ Len(w.ctx) = 0
    BY <2>2, <2>3, LenProperties, EmptySeq DEF WriterType
  <2>6. x.scopes = <<>> /\ x \in ReaderType /\ Ok(x) /\ x.pos = Len(w.doc) + 1
    BY <2>4, <2>5, EmptySeq DEF Follows, ReaderType
  <2>7. Open(<<>>) = Remaining(SubSeq(w.doc, 1, x.pos - 1))
    <3>1. Containers(x) = <<>> /\ Lefts(<<>>) = <<>>
      BY <2>6, EmptySeq, ScopesAre DEF Containers, InScope
    <3>2. InStep(w.doc, x)
      BY <2>4, <2>6 DEF ReaderInv, Placed
    <3>3. QED
      BY <3>1, <3>2 DEF InStep
  <2>8. SubSeq(w.doc, 1, x.pos - 1) = w.doc
    <3>1. x.pos - 1 = Len(w.doc)
      BY <2>5, <2>6
    <3>2. QED
      BY <2>5, <3>1, SubSeqFull
  <2>9. Open(<<>>) = <<>>
    <3>1. <<>> \in Seq(Nat) /\ Full(<<>>)
      BY EmptySeq DEF Full
    <3>2. QED
      BY <3>1, OpenFull
  <2>10. QED
    BY <2>3, <2>7, <2>8, <2>9
<1>2. QED
  BY <1>1, InductiveHolds, PTL

\* msgpack::reader knows at every call and in every turn of _break_scope what is left in
\* each scope, or has thrown, for every document that msgpack::writer lets a client complete,
\* until a loop reads freed memory: and that is only in a scope as deep as those reserved, or
\* deeper.
THEOREM ReaderInStep == Spec => []MsgpackInStep
<1>1. Inductive => MsgpackInStep
  <2>1. SUFFICES ASSUME Inductive, Msgpack
                 PROVE  /\ Ok(r) => InStep(w.doc, r)
                        /\ r.err = "undefined" => r.scopes # <<>> /\ Len(r.scopes) >= Reserved
    BY DEF MsgpackInStep
  <2>2. ReaderInv(w.doc, r) /\ Loops(r)
    BY <2>1 DEF Inductive
  <2>3. QED
    BY <2>2 DEF ReaderInv, Placed, Loops
<1>2. QED
  BY <1>1, InductiveHolds, PTL
=============================================================================
