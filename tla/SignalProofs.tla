---------------------------- MODULE SignalProofs ----------------------------
(***************************************************************************)
(* Theorems about the two components that tell a waiting thread that there *)
(* is something to do.                                                     *)
(*                                                                         *)
(* EventQueue, for every set of messages and of threads: the types, the    *)
(* list of nodes, who holds a node, the wake-ups, and that the queue       *)
(* implements MessageQueue.                                                *)
(*                                                                         *)
(* InmemoryPipe, in the second half, for any lengths and any number of     *)
(* messages, sizes of the buffers and capacity of the queues.  Two facts   *)
(* hold each other there: how _no_signal, the handler and the peer's       *)
(* sender stand to each other, and that an end never reads when no message *)
(* is on its way to it, because every byte that was put is of one.         *)
(***************************************************************************)
EXTENDS EventQueue, PipeEnds, SequenceTheorems, FiniteSetTheorems, TLAPS

Distinct(s) == \A i, j \in DOMAIN s : s[i] = s[j] => i = j

\* Nobody holds a message twice.
Once == Distinct(queue) /\ \A c \in Cleaners : Distinct(batch[c])

\* What became of a message, and where it is.
FatesAgree ==
    \A m \in Messages :
        /\ fate[m] = "new" => m \notin live
        /\ fate[m] = "posted" <=> m \in Range(queue)

\* An executor holds a message from its retrieval to its release.
RunningAgrees == \A e \in Executors : running[e] # Null <=> pc[e] \in {"run", "release"}

IInv == TypeOK /\ Linked /\ OneHolder /\ Once /\ FatesAgree /\ RunningAgrees

-----------------------------------------------------------------------------
LEMMA InRange ==
    ASSUME NEW S, NEW s \in Seq(S), NEW x
    PROVE  x \in Range(s) <=> \E i \in DOMAIN s : s[i] = x
BY DEF Range

LEMMA AppendDistinct ==
    ASSUME NEW S, NEW s \in Seq(S), NEW x \in S, Distinct(s), x \notin Range(s)
    PROVE  /\ Distinct(Append(s, x))
           /\ \A y : y \in Range(Append(s, x)) <=> y \in Range(s) \/ y = x
<1> DEFINE t == Append(s, x)
<1>1. /\ t \in Seq(S) /\ Len(t) = Len(s) + 1 /\ Len(s) \in Nat
      /\ DOMAIN t = 1..(Len(s) + 1) /\ DOMAIN s = 1..Len(s)
      /\ \A i \in DOMAIN s : t[i] = s[i]
      /\ t[Len(s) + 1] = x
  BY AppendProperties, LenProperties
<1> HIDE DEF t
<1>2. \A i \in DOMAIN t : i \in DOMAIN s \/ i = Len(s) + 1
  BY <1>1
<1>3. \A i \in DOMAIN s : s[i] # x
  BY InRange
<1>4. Distinct(t)
  BY <1>1, <1>2, <1>3 DEF Distinct
<1>5. \A y : y \in Range(t) <=> y \in Range(s) \/ y = x
  <2> TAKE y
  <2>1. y \in Range(t) <=> \E i \in DOMAIN t : t[i] = y
    BY <1>1, InRange
  <2>2. y \in Range(s) <=> \E i \in DOMAIN s : s[i] = y
    BY InRange
  <2>3. Len(s) + 1 \in DOMAIN t /\ DOMAIN s \subseteq DOMAIN t
    BY <1>1
  <2> QED BY <1>1, <1>2, <2>1, <2>2, <2>3
<1> QED BY <1>4, <1>5 DEF t

\* The last element of Append(s, x), the one before it, and the others.
LEMMA AppendIndex ==
    ASSUME NEW S, NEW s \in Seq(S), NEW x \in S, NEW i \in DOMAIN Append(s, x)
    PROVE  \/ i = Len(Append(s, x)) /\ Append(s, x)[i] = x
           \/ /\ i # Len(Append(s, x)) /\ i \in DOMAIN s /\ i = Len(s)
              /\ Append(s, x)[i] = s[i] /\ Append(s, x)[i + 1] = x
           \/ /\ i # Len(Append(s, x)) /\ i \in DOMAIN s /\ i # Len(s)
              /\ Append(s, x)[i] = s[i] /\ Append(s, x)[i + 1] = s[i + 1]
<1> DEFINE t == Append(s, x)
<1>1. PICK n \in Nat : n = Len(s)
  BY LenProperties
<1>2. /\ Len(t) = n + 1 /\ DOMAIN t = 1..(n + 1) /\ DOMAIN s = 1..n
      /\ \A j \in 1..n : t[j] = s[j]
      /\ t[n + 1] = x
  BY <1>1, AppendProperties, LenProperties
<1> HIDE DEF t
<1>3. CASE i = n + 1
  BY <1>2, <1>3 DEF t
<1>4. CASE i = n
  <2>1. i \in 1..n /\ i # n + 1
    BY <1>2, <1>4 DEF t
  <2> QED BY <1>1, <1>2, <1>4, <2>1 DEF t
<1>5. CASE i \in 1..(n - 1)
  BY <1>1, <1>2, <1>5 DEF t
<1>6. i \in 1..(n + 1)
  BY <1>2 DEF t
<1> QED BY <1>3, <1>4, <1>5, <1>6

LEMMA TailDistinct ==
    ASSUME NEW S, NEW s \in Seq(S), s # << >>, Distinct(s)
    PROVE  /\ Distinct(Tail(s))
           /\ Head(s) \in Range(s)
           /\ \A y : y \in Range(Tail(s)) <=> y \in Range(s) /\ y # Head(s)
<1> DEFINE t == Tail(s)
<1>1. /\ t \in Seq(S) /\ Len(s) \in Nat /\ Len(s) > 0 /\ Len(t) = Len(s) - 1
      /\ DOMAIN t = 1..(Len(s) - 1) /\ DOMAIN s = 1..Len(s)
      /\ \A i \in 1..(Len(s) - 1) : t[i] = s[i + 1]
      /\ Head(s) = s[1]
  BY HeadTailProperties, LenProperties, EmptySeq
<1> HIDE DEF t
<1>2. \A i \in DOMAIN t : i \in Int /\ i + 1 \in DOMAIN s /\ i + 1 # 1 /\ t[i] = s[i + 1]
  BY <1>1
<1>3. \A i \in DOMAIN s : i = 1 \/ (i - 1 \in DOMAIN t /\ s[i] = t[i - 1])
  BY <1>1
<1>4. Distinct(t)
  <2> SUFFICES ASSUME NEW i \in DOMAIN t, NEW j \in DOMAIN t, t[i] = t[j] PROVE i = j
    BY DEF Distinct
  <2>1. i + 1 = j + 1
    BY <1>2 DEF Distinct
  <2> QED BY <1>2, <2>1
<1>5. 1 \in DOMAIN s
  BY <1>1
<1>6. \A y : y \in Range(t) <=> y \in Range(s) /\ y # Head(s)
  <2> TAKE y
  <2>1. y \in Range(t) <=> \E i \in DOMAIN t : t[i] = y
    BY <1>1, InRange
  <2>2. y \in Range(s) <=> \E i \in DOMAIN s : s[i] = y
    BY InRange
  <2>3. ASSUME NEW i \in DOMAIN t, t[i] = y PROVE y \in Range(s) /\ y # Head(s)
    BY <1>1, <1>2, <1>5, <2>2, <2>3 DEF Distinct
  <2>4. ASSUME NEW i \in DOMAIN s, s[i] = y, y # Head(s) PROVE y \in Range(t)
    BY <1>1, <1>3, <2>1, <2>4
  <2> QED BY <2>1, <2>2, <2>3, <2>4
<1> QED BY <1>1, <1>4, <1>5, <1>6, InRange DEF t

-----------------------------------------------------------------------------
(* Where the ends of the list are                                           *)

LEMMA EndsOfList ==
    ASSUME IInv
    PROVE  /\ front = Null <=> queue = << >>
           /\ front # Null => front = Head(queue) /\ front \in Messages /\ front \in Range(queue)
           /\ back # Null => back \in Messages /\ back \in Range(queue)
           /\ \A c \in Cleaners :
                /\ taken[c] = Null <=> batch[c] = << >>
                /\ taken[c] # Null => taken[c] = Head(batch[c]) /\ taken[c] \in Messages
<1>1. ASSUME NEW s \in Seq(Messages), s # << >>
      PROVE  /\ Head(s) \in Messages /\ Head(s) = s[1] /\ 1 \in DOMAIN s
             /\ s[Len(s)] \in Messages /\ Len(s) \in DOMAIN s
  BY <1>1, HeadTailProperties, LenProperties, EmptySeq
<1>2. queue \in Seq(Messages) /\ \A c \in Cleaners : batch[c] \in Seq(Messages)
  BY DEF IInv, TypeOK
<1>3. front = Null <=> queue = << >>
  BY <1>1, <1>2, NullAssumption DEF IInv, Linked, LinkedFrom
<1>4. front # Null => front = Head(queue) /\ front \in Messages /\ front \in Range(queue)
  BY <1>1, <1>2, <1>3, InRange DEF IInv, Linked, LinkedFrom
<1>5. back # Null => back \in Messages /\ back \in Range(queue)
  BY <1>1, <1>2, InRange DEF IInv, Linked
<1>6. ASSUME NEW c \in Cleaners
      PROVE  /\ taken[c] = Null <=> batch[c] = << >>
             /\ taken[c] # Null => taken[c] = Head(batch[c]) /\ taken[c] \in Messages
  BY <1>1, <1>2, NullAssumption DEF IInv, Linked, LinkedFrom
<1> QED BY <1>3, <1>4, <1>5, <1>6

\* What the three kinds of holder hold, without their names.
LEMMA HoldersApart ==
    /\ "list" \in Holders /\ "list" \notin Executors /\ "list" \notin Cleaners
    /\ \A e \in Executors : e \in Holders /\ e \notin Cleaners /\ e # "list"
    /\ \A c \in Cleaners : c \in Holders /\ c \notin Executors /\ c # "list"
BY ThreadsAssumption DEF Holders

LEMMA Unlinked ==
    ASSUME NEW s \in Seq(Messages), NEW n, LinkedFrom(n, s),
           \A i \in DOMAIN s : next'[s[i]] = next[s[i]]
    PROVE  n = (IF s = << >> THEN Null ELSE Head(s)) /\ \A i \in DOMAIN s : next'[s[i]] = IF i = Len(s) THEN Null ELSE s[i + 1]
BY DEF LinkedFrom

-----------------------------------------------------------------------------
(* Each operation                                                           *)

LEMMA PostKeeps ==
    ASSUME IInv, NEW m \in Messages, Post(m)
    PROVE  Linked' /\ OneHolder' /\ Once' /\ FatesAgree' /\ RunningAgrees'
<1> USE DEF IInv, Post
<1>1. queue \in Seq(Messages) /\ m \notin live
  BY DEF TypeOK, FatesAgree
<1>2. \A h \in Holders : ~Holds(h, m)
  BY <1>1 DEF OneHolder
<1>3. m \notin Range(queue)
  BY <1>2, HoldersApart DEF Holds
<1>4. /\ Distinct(queue')
      /\ \A y : y \in Range(queue') <=> y \in Range(queue) \/ y = m
  BY <1>1, <1>3, AppendDistinct DEF Once
<1>5. \A h \in Holders, y \in Messages : Holds(h, y)' <=> Holds(h, y) \/ (h = "list" /\ y = m)
  BY <1>4, HoldersApart DEF Holds
<1>6. OneHolder'
  <2>1. \A y \in Messages : (y \in live)' <=> y \in live \/ y = m
    OBVIOUS
  <2> QED BY <1>2, <1>5, <2>1, HoldersApart DEF OneHolder, Holders
<1>7. Once'
  BY <1>4 DEF Once
<1>8. FatesAgree'
  <2>1. \A y \in Messages : fate'[y] = IF y = m THEN "posted" ELSE fate[y]
    BY DEF TypeOK
  <2> QED BY <1>4, <2>1 DEF FatesAgree
<1>9. RunningAgrees'
  BY DEF RunningAgrees
<1>10. Linked'
  <2>1. /\ queue' \in Seq(Messages) /\ Len(queue') = Len(queue) + 1 /\ Len(queue) \in Nat
        /\ DOMAIN queue' = 1..(Len(queue) + 1) /\ DOMAIN queue = 1..Len(queue)
        /\ \A i \in DOMAIN queue : queue'[i] = queue[i]
        /\ queue'[Len(queue) + 1] = m
    BY <1>1, AppendProperties, LenProperties
  <2>2. queue' # << >> /\ Head(queue') = (IF queue = << >> THEN m ELSE Head(queue))
    BY <1>1, <2>1, HeadTailProperties, EmptySeq
  <2>3. front' = Head(queue')
    BY <2>2, EndsOfList DEF PushEvent
  <2>4. back' = queue'[Len(queue')]
    BY <2>1 DEF PushEvent
  <2>5. \A n \in Messages : next'[n] = IF n = back THEN m ELSE IF n = m THEN Null ELSE next[n]
    BY DEF PushEvent, NextAfterPush
  <2>6. back # m /\ m # Null
    BY <1>3, EndsOfList, NullAssumption
  <2>7. \A i \in DOMAIN queue : next[queue[i]] = IF i = Len(queue) THEN Null ELSE queue[i + 1]
    BY DEF Linked, LinkedFrom
  <2>8. \A i \in DOMAIN queue : queue[i] \in Messages /\ queue[i] # m /\ (queue[i] = back <=> i = Len(queue))
    <3> TAKE i \in DOMAIN queue
    <3>1. queue[i] \in Messages /\ queue[i] # m
      BY <1>1, <1>3, InRange, ElementOfSeq, <2>1
    <3>2. queue # << >> /\ Len(queue) \in DOMAIN queue
      BY <1>1, <2>1, EmptySeq
    <3>3. back = queue[Len(queue)]
      BY <3>2 DEF Linked
    <3>4. Distinct(queue)
      BY DEF Once
    <3>5. PICK k \in DOMAIN queue : k = Len(queue)
      BY <3>2, Zenon
    <3>6. queue[i] = queue[k] => i = k
      BY <3>4, <3>5, Zenon DEF Distinct
    <3>7. queue[i] = back <=> i = Len(queue)
      BY <3>3, <3>5, <3>6, Zenon
    <3> QED BY <3>1, <3>7, Zenon
  <2>9. ASSUME NEW i \in DOMAIN queue'
        PROVE  next'[queue'[i]] = IF i = Len(queue') THEN Null ELSE queue'[i + 1]
    <3>1. CASE i = Len(queue') /\ queue'[i] = m
      BY <2>5, <2>6, <3>1
    <3>2. CASE i # Len(queue') /\ i \in DOMAIN queue /\ i = Len(queue) /\ queue'[i] = queue[i] /\ queue'[i + 1] = m
      BY <2>5, <2>8, <3>2
    <3>3. CASE i # Len(queue') /\ i \in DOMAIN queue /\ i # Len(queue) /\ queue'[i] = queue[i] /\ queue'[i + 1] = queue[i + 1]
      BY <2>5, <2>7, <2>8, <3>3
    <3> QED BY <1>1, <3>1, <3>2, <3>3, AppendIndex
  <2>10. LinkedFrom(front, queue)'
    BY <2>2, <2>3, <2>9 DEF LinkedFrom
  <2>11. ASSUME NEW c \in Cleaners PROVE LinkedFrom(taken[c], batch[c])'
    <3>1. batch[c] \in Seq(Messages) /\ LinkedFrom(taken[c], batch[c]) /\ batch'[c] = batch[c] /\ taken'[c] = taken[c]
      BY DEF TypeOK, Linked
    <3>2. ASSUME NEW n \in Messages, n \in Range(batch[c]) PROVE n # m /\ n # back
      <4>1. c \in Holders /\ Holds(c, n)
        BY <3>2, HoldersApart DEF Holds
      <4>2. ASSUME n = back PROVE Holds("list", n)
        BY <4>2, EndsOfList, NullAssumption DEF Holds
      <4> QED BY <1>2, <4>1, <4>2, HoldersApart DEF OneHolder
    <3>3. \A i \in DOMAIN batch[c] : batch[c][i] \in Messages /\ batch[c][i] \in Range(batch[c])
      BY <3>1, InRange, ElementOfSeq, LenProperties
    <3>4. \A i \in DOMAIN batch[c] : next'[batch[c][i]] = next[batch[c][i]]
      BY <2>5, <3>2, <3>3
    <3> QED BY <3>1, <3>4, Unlinked DEF LinkedFrom
  <2> QED BY <2>2, <2>4, <2>10, <2>11 DEF Linked
<1> QED BY <1>6, <1>7, <1>8, <1>9, <1>10

\* The tail of a list is the list of the tail.
LEMMA LinkedTail ==
    ASSUME NEW s \in Seq(Messages), s # << >>, NEW n, LinkedFrom(n, s)
    PROVE  /\ LinkedFrom(next[n], Tail(s))
           /\ Tail(s) = << >> <=> Len(s) = 1
           /\ Tail(s) # << >> => Tail(s)[Len(Tail(s))] = s[Len(s)]
<1> DEFINE t == Tail(s)
<1>1. PICK k \in Nat : Len(s) = k + 1
  BY EmptySeq, LenProperties
<1>2. /\ t \in Seq(Messages) /\ Len(t) = k /\ DOMAIN t = 1..k /\ DOMAIN s = 1..(k + 1)
      /\ \A i \in 1..k : t[i] = s[i + 1]
      /\ Head(s) = s[1]
      /\ t # << >> => Head(t) = t[1]
  BY <1>1, HeadTailProperties, LenProperties, EmptySeq
<1> HIDE DEF t
<1>3. t = << >> <=> k = 0
  BY <1>2, EmptySeq
<1>4. \A i \in 1..(k + 1) : next[s[i]] = IF i = k + 1 THEN Null ELSE s[i + 1]
  BY <1>1, <1>2 DEF LinkedFrom
<1>5. \A i \in 1..k : next[t[i]] = IF i = k THEN Null ELSE t[i + 1]
  <2> TAKE i \in 1..k
  <2>1. PICK j \in 1..(k + 1) : j = i + 1
    OBVIOUS
  <2>2. t[i] = s[j] /\ (i = k <=> j = k + 1) /\ (i # k => i + 1 \in 1..k /\ t[i + 1] = s[j + 1])
    BY <1>2, <2>1
  <2> QED BY <1>4, <2>2
<1>6. next[n] = IF t = << >> THEN Null ELSE Head(t)
  <2>1. n = s[1] /\ 1 \in 1..(k + 1)
    BY <1>2 DEF LinkedFrom
  <2>2. next[n] = IF 1 = k + 1 THEN Null ELSE s[2]
    BY <1>4, <2>1
  <2>3. k # 0 => Head(t) = s[2]
    BY <1>2, <1>3
  <2> QED BY <1>3, <2>2, <2>3
<1>7. LinkedFrom(next[n], t)
  BY <1>2, <1>5, <1>6 DEF LinkedFrom
<1>8. k # 0 => t[k] = s[k + 1]
  BY <1>2
<1> QED BY <1>1, <1>2, <1>3, <1>7, <1>8 DEF t

LEMMA RetrieveKeeps ==
    ASSUME IInv, NEW e \in Executors, Retrieve(e)
    PROVE  Linked' /\ OneHolder' /\ Once' /\ FatesAgree' /\ RunningAgrees'
<1> USE DEF IInv, Retrieve
<1>1. /\ queue \in Seq(Messages) /\ front # Null /\ queue # << >>
      /\ front = Head(queue) /\ front \in Messages /\ front \in Range(queue)
  BY EndsOfList DEF TypeOK, PopEvent
<1>2. /\ Distinct(queue')
      /\ \A y : y \in Range(queue') <=> y \in Range(queue) /\ y # front
  BY <1>1, TailDistinct DEF Once
<1>3. /\ \A d \in Executors : running'[d] = IF d = e THEN front ELSE running[d]
      /\ running[e] = Null
      /\ \A d \in Executors : pc'[d] = IF d = e THEN "run" ELSE pc[d]
  BY DEF TypeOK, RunningAgrees, Goto
<1>4. Holds("list", front)
  BY <1>1 DEF Holds
<1>5. \A h \in Holders, y \in Messages : Holds(h, y)' <=> IF y = front THEN h = e ELSE Holds(h, y)
  <2> TAKE h \in Holders, y \in Messages
  <2>1. CASE h = "list"
    BY <1>2, <2>1, HoldersApart DEF Holds
  <2>2. CASE h \in Executors
    <3>1. y = front => ~Holds(h, y)
      BY <1>4, <2>2, HoldersApart DEF OneHolder
    <3> QED BY <1>3, <2>2, <3>1, HoldersApart, NullAssumption DEF Holds
  <2>3. CASE h \in Cleaners
    <3>1. y = front => ~Holds(h, y)
      BY <1>4, <2>3, HoldersApart DEF OneHolder
    <3> QED BY <2>3, <3>1, HoldersApart DEF Holds
  <2> QED BY <2>1, <2>2, <2>3 DEF Holders
<1>6. OneHolder'
  <2>1. ASSUME NEW m \in Messages PROVE m \in live' <=> \E h \in Holders : Holds(h, m)'
    BY <1>4, <1>5, HoldersApart DEF OneHolder
  <2>2. ASSUME NEW m \in Messages, NEW g \in Holders, NEW h \in Holders, Holds(g, m)', Holds(h, m)' PROVE g = h
    BY <1>5, <2>2 DEF OneHolder
  <2> QED BY <2>1, <2>2 DEF OneHolder, Holders
<1>7. Once'
  BY <1>2 DEF Once
<1>8. FatesAgree'
  <2>1. \A y \in Messages : fate'[y] = IF y = front THEN "taken" ELSE fate[y]
    BY DEF TypeOK
  <2> QED BY <1>2, <2>1 DEF FatesAgree
<1>9. RunningAgrees'
  BY <1>1, <1>3 DEF RunningAgrees
<1>10. Linked'
  <2>1. LinkedFrom(next[front], Tail(queue))
    BY <1>1, LinkedTail DEF Linked
  <2>2. next' = next /\ front' = next[front]
    BY DEF PopEvent
  <2>3. LinkedFrom(front, queue)'
    BY <2>1, <2>2 DEF LinkedFrom
  <2>4. \A c \in Cleaners : LinkedFrom(taken[c], batch[c])'
    BY <2>2 DEF Linked, LinkedFrom
  <2>5. back' = IF queue' = << >> THEN Null ELSE queue'[Len(queue')]
    <3>1. back = queue[Len(queue)] /\ 1 \in DOMAIN queue /\ Len(queue) \in DOMAIN queue /\ front = queue[1]
      BY <1>1, LenProperties, EmptySeq, HeadTailProperties DEF Linked
    <3>2. front = back <=> Len(queue) = 1
      BY <3>1 DEF Once, Distinct
    <3>3. Tail(queue) = << >> <=> Len(queue) = 1
      BY <1>1, LinkedTail DEF Linked
    <3>4. Tail(queue) # << >> => Tail(queue)[Len(Tail(queue))] = queue[Len(queue)]
      BY <1>1, LinkedTail DEF Linked
    <3> QED BY <3>1, <3>2, <3>3, <3>4 DEF PopEvent, BackAfterPop
  <2> QED BY <2>3, <2>4, <2>5 DEF Linked
<1> QED BY <1>6, <1>7, <1>8, <1>9, <1>10

LEMMA ReleaseKeeps ==
    ASSUME IInv, NEW e \in Executors, Release(e)
    PROVE  Linked' /\ OneHolder' /\ Once' /\ FatesAgree' /\ RunningAgrees'
<1> USE DEF IInv, Release
<1>1. /\ \A d \in Executors : running'[d] = IF d = e THEN Null ELSE running[d]
      /\ running[e] \in Messages
      /\ \A d \in Executors : pc'[d] = IF d = e THEN "loop" ELSE pc[d]
  BY DEF TypeOK, RunningAgrees, Goto, Pointers
<1>2. Holds(e, running[e])
  BY DEF Holds
<1>3. \A h \in Holders, y \in Messages : Holds(h, y)' <=> Holds(h, y) /\ y # running[e]
  <2> TAKE h \in Holders, y \in Messages
  <2>1. y = running[e] /\ Holds(h, y) => h = e
    BY <1>2, HoldersApart DEF OneHolder
  <2>2. CASE h = e
    BY <1>1, <2>2, NullAssumption, HoldersApart DEF Holds
  <2>3. CASE h # e
    BY <1>1, <2>1, <2>3 DEF Holds
  <2> QED BY <2>2, <2>3
<1>4. OneHolder'
  <2>1. ASSUME NEW m \in Messages PROVE m \in live' <=> \E h \in Holders : Holds(h, m)'
    BY <1>3 DEF OneHolder
  <2>2. ASSUME NEW m \in Messages, NEW g \in Holders, NEW h \in Holders, Holds(g, m)', Holds(h, m)' PROVE g = h
    BY <1>3, <2>2 DEF OneHolder
  <2> QED BY <2>1, <2>2 DEF OneHolder, Holders
<1>5. Once' /\ FatesAgree'
  BY DEF Once, FatesAgree
<1>6. RunningAgrees'
  BY <1>1 DEF RunningAgrees
<1>7. Linked'
  BY DEF Linked, LinkedFrom, nodeVars
<1> QED BY <1>4, <1>5, <1>6, <1>7

LEMMA ClearKeeps ==
    ASSUME IInv, NEW c \in Cleaners, Clear(c)
    PROVE  Linked' /\ OneHolder' /\ Once' /\ FatesAgree' /\ RunningAgrees'
<1> USE DEF IInv, Clear
<1>1. queue \in Seq(Messages) /\ batch[c] = << >> /\ queue' = << >>
  BY EndsOfList DEF TypeOK
<1>2. /\ \A d \in Cleaners : batch'[d] = IF d = c THEN queue ELSE batch[d]
      /\ \A d \in Cleaners : taken'[d] = IF d = c THEN front ELSE taken[d]
      /\ \A y : y \notin Range(<< >>)
      /\ \A y \in Messages : y \in Range(queue) <=> Holds("list", y)
  BY HoldersApart DEF TypeOK, Range, Holds
<1>3. \A h \in Holders, y \in Messages : Holds(h, y)' <=> IF y \in Range(queue) THEN h = c ELSE Holds(h, y)
  <2> TAKE h \in Holders, y \in Messages
  <2>1. y \in Range(queue) /\ Holds(h, y) => h = "list"
    BY <1>2, HoldersApart DEF OneHolder
  <2>2. CASE h = "list"
    BY <1>1, <1>2, <2>2, HoldersApart DEF Holds
  <2>3. CASE h \in Executors
    BY <2>1, <2>3, HoldersApart DEF Holds
  <2>4. CASE h = c
    BY <1>1, <1>2, <2>4, HoldersApart DEF Holds
  <2>5. CASE h \in Cleaners /\ h # c
    BY <1>2, <2>1, <2>5, HoldersApart DEF Holds
  <2> QED BY <2>2, <2>3, <2>4, <2>5 DEF Holders
<1>4. OneHolder'
  <2>1. ASSUME NEW m \in Messages PROVE m \in live' <=> \E h \in Holders : Holds(h, m)'
    BY <1>2, <1>3, HoldersApart DEF OneHolder
  <2>2. ASSUME NEW m \in Messages, NEW g \in Holders, NEW h \in Holders, Holds(g, m)', Holds(h, m)' PROVE g = h
    BY <1>3, <2>2 DEF OneHolder
  <2> QED BY <2>1, <2>2 DEF OneHolder, Holders
<1>5. Once'
  BY <1>1, <1>2 DEF Once, Distinct
<1>6. FatesAgree'
  BY <1>1, <1>2 DEF FatesAgree, TypeOK
<1>7. RunningAgrees'
  BY DEF RunningAgrees
<1>8. Linked'
  <2>1. LinkedFrom(front, queue)' /\ back' = Null
    BY <1>1 DEF LinkedFrom, BackAfterClear
  <2>2. \A d \in Cleaners : LinkedFrom(taken[d], batch[d])'
    BY <1>2 DEF Linked, LinkedFrom
  <2> QED BY <1>1, <2>1, <2>2 DEF Linked
<1> QED BY <1>4, <1>5, <1>6, <1>7, <1>8

LEMMA ReleaseNextKeeps ==
    ASSUME IInv, NEW c \in Cleaners, ReleaseNext(c)
    PROVE  Linked' /\ OneHolder' /\ Once' /\ FatesAgree' /\ RunningAgrees'
<1> USE DEF IInv, ReleaseNext
<1>1. /\ batch[c] \in Seq(Messages) /\ batch[c] # << >>
      /\ taken[c] = Head(batch[c]) /\ taken[c] \in Messages
  BY EndsOfList DEF TypeOK
<1>2. /\ \A d \in Cleaners : batch'[d] = IF d = c THEN Tail(batch[c]) ELSE batch[d]
      /\ \A d \in Cleaners : taken'[d] = IF d = c THEN next[taken[c]] ELSE taken[d]
  BY DEF TypeOK, Rest
<1>3. /\ Distinct(Tail(batch[c])) /\ taken[c] \in Range(batch[c])
      /\ \A y : y \in Range(Tail(batch[c])) <=> y \in Range(batch[c]) /\ y # taken[c]
  BY <1>1, TailDistinct DEF Once
<1>4. Holds(c, taken[c])
  BY <1>3 DEF Holds
<1>5. \A h \in Holders, y \in Messages : Holds(h, y)' <=> Holds(h, y) /\ y # taken[c]
  <2> TAKE h \in Holders, y \in Messages
  <2>1. y = taken[c] /\ Holds(h, y) => h = c
    BY <1>4, HoldersApart DEF OneHolder
  <2>2. CASE h = c
    BY <1>2, <1>3, <2>2, HoldersApart DEF Holds
  <2>3. CASE h # c
    BY <1>2, <2>1, <2>3 DEF Holds
  <2> QED BY <2>2, <2>3
<1>6. OneHolder'
  <2>1. ASSUME NEW m \in Messages PROVE m \in live' <=> \E h \in Holders : Holds(h, m)'
    BY <1>5 DEF OneHolder
  <2>2. ASSUME NEW m \in Messages, NEW g \in Holders, NEW h \in Holders, Holds(g, m)', Holds(h, m)' PROVE g = h
    BY <1>5, <2>2 DEF OneHolder
  <2> QED BY <2>1, <2>2 DEF OneHolder, Holders
<1>7. Once'
  BY <1>2, <1>3 DEF Once
<1>8. FatesAgree' /\ RunningAgrees'
  BY DEF FatesAgree, RunningAgrees
<1>9. Linked'
  <2>1. next' = next /\ front' = front /\ back' = back /\ queue' = queue
    BY DEF nodeVars
  <2>2. LinkedFrom(next[taken[c]], Tail(batch[c]))
    BY <1>1, LinkedTail DEF Linked
  <2>3. LinkedFrom(taken[c], batch[c])'
    BY <1>2, <2>1, <2>2, ZenonT(30) DEF LinkedFrom
  <2>4. \A d \in Cleaners \ {c} : LinkedFrom(taken[d], batch[d])'
    BY <1>2, <2>1 DEF Linked, LinkedFrom
  <2>5. LinkedFrom(front, queue)' /\ (back' = IF queue' = << >> THEN Null ELSE queue'[Len(queue')])
    BY <2>1 DEF Linked, LinkedFrom
  <2>6. \A d \in Cleaners : LinkedFrom(taken[d], batch[d])'
    BY <2>3, <2>4, Zenon
  <2> QED BY <2>5, <2>6 DEF Linked
<1> QED BY <1>6, <1>7, <1>8, <1>9

\* A message that is run on the spot never had a node.
LEMMA DispatchKeeps ==
    ASSUME IInv, NEW e \in Executors, NEW m \in Messages, Dispatch(e, m)
    PROVE  Linked' /\ OneHolder' /\ Once' /\ FatesAgree' /\ RunningAgrees'
<1> USE DEF IInv, Dispatch
<1>1. \A y \in Messages : fate'[y] = IF y = m THEN "taken" ELSE fate[y]
  BY DEF TypeOK
<1>2. FatesAgree'
  BY <1>1 DEF FatesAgree
<1> QED BY <1>2 DEF Linked, LinkedFrom, OneHolder, Holds, Holders, Once, RunningAgrees, nodeVars

\* Steps that move a thread or the flag leave the list and who holds it alone.
LEMMA ControlKeeps ==
    ASSUME IInv,
           \/ UNCHANGED vars \/ Stop \/ Restart
           \/ \E e \in Executors : Enter(e) \/ Loop(e) \/ Return(e) \/ Sleep(e) \/ WakeUp(e) \/ Timeout(e) \/ Run(e)
    PROVE  Linked' /\ OneHolder' /\ Once' /\ FatesAgree' /\ RunningAgrees'
<1>1. UNCHANGED <<nodeVars, running, taken, messageVars>>
  BY DEF vars, Stop, Restart, Enter, Loop, Return, Sleep, WakeUp, Timeout, Run
<1>2. \A e \in Executors : pc'[e] \in {"run", "release"} <=> pc[e] \in {"run", "release"}
  BY DEF vars, Stop, Restart, Enter, Loop, Return, Sleep, WakeUp, Timeout, Run, Goto, IInv, TypeOK
<1>3. RunningAgrees'
  BY <1>1, <1>2 DEF IInv, RunningAgrees
<1> QED BY <1>1, <1>3 DEF IInv, Linked, LinkedFrom, OneHolder, Holds, Holders, Once, FatesAgree, nodeVars, messageVars

-----------------------------------------------------------------------------
(* Types                                                                    *)

LEMMA TypeStep ==
    ASSUME IInv, [Next]_vars
    PROVE  TypeOK'
<1> USE DEF IInv, TypeOK, Pointers
<1>1. ASSUME NEW m \in Messages, Post(m) PROVE TypeOK'
  <2>1. NextAfterPush(m) \in [Messages -> Pointers]
    BY DEF NextAfterPush
  <2>2. queue' \in Seq(Messages)
    BY <1>1, AppendProperties DEF Post
  <2>3. asleep' \subseteq Executors \ Flushers
    BY <1>1 DEF Post, NotifyOne
  <2> QED BY <1>1, <2>1, <2>2, <2>3 DEF Post, PushEvent, Fates
<1>2. ASSUME NEW e \in Executors, Retrieve(e) PROVE TypeOK'
  <2>1. front \in Messages /\ queue # << >>
    BY <1>2, EndsOfList DEF Retrieve, PopEvent
  <2>2. Tail(queue) \in Seq(Messages)
    BY <2>1, HeadTailProperties
  <2> QED BY <1>2, <2>1, <2>2 DEF Retrieve, PopEvent, BackAfterPop, Goto, PcValues, Fates
<1>3. ASSUME NEW c \in Cleaners, Clear(c) PROVE TypeOK'
  <2>1. << >> \in Seq(Messages)
    BY EmptySeq
  <2> QED BY <1>3, <2>1 DEF Clear, BackAfterClear, Fates
<1>4. ASSUME NEW c \in Cleaners, ReleaseNext(c) PROVE TypeOK'
  <2>1. batch[c] \in Seq(Messages) /\ batch[c] # << >> /\ taken[c] \in Messages
    BY <1>4, EndsOfList DEF ReleaseNext
  <2>2. Tail(batch[c]) \in Seq(Messages)
    BY <2>1, HeadTailProperties
  <2> QED BY <1>4, <2>1, <2>2 DEF ReleaseNext, Rest, nodeVars
<1>5. ASSUME NEW e \in Executors, Release(e) PROVE TypeOK'
  BY <1>5 DEF Release, nodeVars, Goto, PcValues
<1>6. ASSUME NEW e \in Executors, NEW m \in Messages, Dispatch(e, m) PROVE TypeOK'
  BY <1>6 DEF Dispatch, nodeVars, Fates
<1>7. ASSUME NEW e \in Executors, Enter(e) \/ Loop(e) \/ Return(e) \/ Sleep(e) \/ WakeUp(e) \/ Timeout(e) \/ Run(e)
      PROVE TypeOK'
  BY <1>7 DEF Enter, Loop, Return, Sleep, MaySleep, WakeUp, Timeout, Run, nodeVars, messageVars, Goto, PcValues
<1>8. ASSUME Stop \/ Restart PROVE TypeOK'
  BY <1>8 DEF Stop, StopWakes, Restart, nodeVars, messageVars
<1>9. CASE UNCHANGED vars
  BY <1>9 DEF vars, nodeVars, messageVars
<1> QED BY <1>1, <1>2, <1>3, <1>4, <1>5, <1>6, <1>7, <1>8, <1>9 DEF Next, Executor

LEMMA InitIInv == ASSUME Init PROVE IInv
<1>1. << >> \in Seq(Messages) /\ Range(<< >>) = {}
  BY EmptySeq DEF Range
<1>2. TypeOK
  BY <1>1 DEF Init, TypeOK, Pointers, PcValues, Fates
<1>3. Linked /\ Once
  BY DEF Init, Linked, LinkedFrom, Once, Distinct
<1>4. \A h \in Holders, m \in Messages : ~Holds(h, m)
  BY <1>1, NullAssumption DEF Init, Holds
<1>5. OneHolder
  BY <1>4 DEF Init, OneHolder
<1>6. FatesAgree /\ RunningAgrees
  BY <1>1 DEF Init, FatesAgree, RunningAgrees
<1> QED BY <1>2, <1>3, <1>5, <1>6 DEF IInv

LEMMA NextIInv == ASSUME IInv, [Next]_vars PROVE IInv'
<1>1. TypeOK'
  BY TypeStep
<1>2. Linked' /\ OneHolder' /\ Once' /\ FatesAgree' /\ RunningAgrees'
  BY PostKeeps, RetrieveKeeps, ReleaseKeeps, ClearKeeps, ReleaseNextKeeps, DispatchKeeps, ControlKeeps
     DEF Next, Executor
<1> QED BY <1>1, <1>2 DEF IInv

\* The strengthened invariant: the list, its holders and the fates agree in every
\* state the queue reaches.
THEOREM Invariance == Spec => []IInv
BY InitIInv, NextIInv, PTL DEF Spec

\* Every variable keeps its type, and no flusher ever sleeps.
THEOREM TypeCorrect == Spec => []TypeOK
BY Invariance, PTL DEF IInv

\* front_, back_ and next_ are the queue of what waits, in the order of the posts, for
\* every number of messages and threads.
THEOREM ListIsQueue == Spec => []Linked
BY Invariance, PTL DEF IInv

\* Each allocated node has one holder: no message leaks, none is released twice.
THEOREM NodeHasOneHolder == Spec => []OneHolder
BY Invariance, PTL DEF IInv

-----------------------------------------------------------------------------
(* Wake-ups                                                                 *)

Awake == {e \in Executors \ asleep : pc[e] = "wait"}

\* Sleepers are in the wait, and stop left none of them.
WInv ==
    /\ \A e \in asleep : pc[e] = "wait"
    /\ StopWakesAll
    /\ NoLostWakeUp

LEMMA AwakeIs ==
    ASSUME IInv
    PROVE  /\ IsFiniteSet(Awake) /\ Cardinality(Awake) \in Nat /\ Len(queue) \in Nat
           /\ NoLostWakeUp <=> (asleep # {} => Len(queue) <= Cardinality(Awake))
<1>1. IsFiniteSet(Awake) /\ Cardinality(Awake) \in Nat
  BY ThreadsAssumption, FS_Subset, FS_CardinalityType DEF Awake
<1>2. Len(queue) \in Nat
  BY LenProperties DEF IInv, TypeOK
<1> QED BY <1>1, <1>2 DEF NoLostWakeUp, Awake

\* Nothing waits where the list is empty, and sleepers need nobody then.
LEMMA NothingWaits ==
    ASSUME IInv, IInv', front' = Null
    PROVE  NoLostWakeUp'
<1>1. queue' = << >>
  BY NullAssumption, HeadTailProperties DEF IInv, Linked, LinkedFrom, TypeOK
<1>2. Len(queue') = 0
  BY <1>1
<1>3. Cardinality(Awake)' \in Nat
  BY ThreadsAssumption, FS_Subset, FS_CardinalityType DEF Awake
<1> QED BY <1>2, <1>3 DEF NoLostWakeUp, Awake

\* As long as what waits does not grow and nobody awake leaves, nothing is lost.
LEMMA MoreAwake ==
    ASSUME IInv, NoLostWakeUp, asleep' # {} => asleep # {}, Len(queue') = Len(queue),
           Awake \subseteq Awake'
    PROVE  NoLostWakeUp'
<1>1. IsFiniteSet(Awake') /\ Cardinality(Awake') \in Nat
  BY ThreadsAssumption, FS_Subset, FS_CardinalityType DEF Awake
<1>2. Cardinality(Awake) <= Cardinality(Awake') /\ Cardinality(Awake) \in Nat
  BY <1>1, FS_Subset, AwakeIs
<1> QED BY <1>1, <1>2, AwakeIs DEF NoLostWakeUp, Awake

LEMMA PostWakes ==
    ASSUME IInv, WInv, NEW m \in Messages, Post(m)
    PROVE  WInv'
<1> USE DEF IInv, WInv
<1>1. asleep' \subseteq asleep /\ UNCHANGED <<pc, stopped>>
  BY DEF Post, NotifyOne
<1>2. CASE asleep = {}
  BY <1>1, <1>2 DEF StopWakesAll, NoLostWakeUp
<1>3. CASE asleep # {}
  <2>1. PICK e \in asleep : asleep' = asleep \ {e}
    BY <1>3 DEF Post, NotifyOne
  <2>2. Awake' = Awake \union {e} /\ e \notin Awake
    BY <1>1, <2>1 DEF Awake, TypeOK
  <2>3. Cardinality(Awake') = Cardinality(Awake) + 1
    BY <2>2, AwakeIs, FS_AddElement
  <2>4. Len(queue') = Len(queue) + 1
    BY AppendProperties DEF Post, TypeOK
  <2>5. NoLostWakeUp'
    BY <1>3, <2>3, <2>4, AwakeIs DEF NoLostWakeUp, Awake
  <2> QED BY <1>1, <2>5 DEF StopWakesAll
<1> QED BY <1>2, <1>3

LEMMA RetrieveWakes ==
    ASSUME IInv, WInv, NEW e \in Executors, Retrieve(e)
    PROVE  WInv'
<1> USE DEF IInv, WInv
<1>1. asleep' = asleep /\ stopped' = stopped
  BY DEF Retrieve
<1>2. \A d \in Executors : pc'[d] = IF d = e THEN "run" ELSE pc[d]
  BY DEF Retrieve, Goto, TypeOK
<1>3. e \in Awake /\ Awake' = Awake \ {e}
  BY <1>1, <1>2 DEF Awake, Retrieve
<1>4. Cardinality(Awake') = Cardinality(Awake) - 1
  BY <1>3, AwakeIs, FS_RemoveElement
<1>5. Len(queue') = Len(queue) - 1
  <2>1. queue \in Seq(Messages) /\ queue # << >> /\ queue' = Tail(queue)
    BY EndsOfList DEF Retrieve, PopEvent, TypeOK
  <2> HIDE DEF IInv, WInv
  <2>2. QED BY <2>1, HeadTailProperties
<1>6. NoLostWakeUp'
  BY <1>1, <1>4, <1>5, AwakeIs DEF NoLostWakeUp, Awake
<1> QED BY <1>1, <1>2, <1>6 DEF StopWakesAll, Retrieve, TypeOK

LEMMA NextWakes ==
    ASSUME IInv, WInv, IInv', [Next]_vars
    PROVE  WInv'
<1> USE DEF IInv, WInv, TypeOK
<1>1. ASSUME NEW e \in Executors, Return(e) \/ Timeout(e) PROVE WInv'
  <2>1. \A d \in Executors \ {e} : pc'[d] = pc[d]
    BY <1>1 DEF Return, Timeout, Goto
  <2>2. asleep' \subseteq asleep /\ e \notin asleep' /\ stopped' = stopped
    BY <1>1 DEF Return, Timeout
  <2>3. stopped \/ (front' = Null)
    BY <1>1 DEF Return, Timeout, nodeVars
  <2>4. NoLostWakeUp'
    BY <2>2, <2>3, NothingWaits DEF StopWakesAll, NoLostWakeUp
  <2> QED BY <2>1, <2>2, <2>4 DEF StopWakesAll
<1>2. ASSUME NEW e \in Executors, Sleep(e) PROVE WInv'
  <2>1. NoLostWakeUp'
    BY <1>2, NothingWaits DEF Sleep, nodeVars
  <2> QED BY <1>2, <2>1 DEF Sleep, StopWakesAll
<1>3. ASSUME NEW e \in Executors, WakeUp(e) PROVE WInv'
  <2>1. NoLostWakeUp'
    BY <1>3, MoreAwake DEF WakeUp, Awake, messageVars
  <2> QED BY <1>3, <2>1 DEF WakeUp, StopWakesAll
<1>4. ASSUME NEW e \in Executors, Enter(e) \/ Loop(e) \/ Run(e) \/ Release(e) PROVE WInv'
  <2>1. \A d \in Executors : d # e => pc'[d] = pc[d]
    BY <1>4 DEF Enter, Loop, Run, Release, Goto
  <2>2. asleep' = asleep /\ stopped' = stopped /\ queue' = queue /\ pc[e] # "wait"
    BY <1>4 DEF Enter, Loop, Run, Release, messageVars
  <2>3. Awake \subseteq Awake'
    BY <2>1, <2>2 DEF Awake
  <2>4. NoLostWakeUp'
    BY <2>2, <2>3, MoreAwake
  <2> QED BY <2>1, <2>2, <2>4 DEF StopWakesAll
<1>5. ASSUME NEW e \in Executors, NEW m \in Messages, Dispatch(e, m) PROVE WInv'
  BY <1>5 DEF Dispatch, StopWakesAll, NoLostWakeUp
<1>6. ASSUME NEW c \in Cleaners, Clear(c) PROVE WInv'
  <2>1. NoLostWakeUp'
    BY <1>6, NothingWaits DEF Clear
  <2> QED BY <1>6, <2>1 DEF Clear, StopWakesAll
<1>7. ASSUME NEW c \in Cleaners, ReleaseNext(c) PROVE WInv'
  BY <1>7 DEF ReleaseNext, StopWakesAll, NoLostWakeUp
<1>8. ASSUME Stop PROVE WInv'
  BY <1>8 DEF Stop, StopWakes, StopWakesAll, NoLostWakeUp
<1>9. ASSUME Restart PROVE WInv'
  BY <1>9 DEF Restart, StopWakesAll, NoLostWakeUp, messageVars
<1>10. CASE UNCHANGED vars
  BY <1>10 DEF vars, StopWakesAll, NoLostWakeUp, messageVars
<1> QED BY PostWakes, RetrieveWakes, <1>1, <1>2, <1>3, <1>4, <1>5, <1>6, <1>7, <1>8, <1>9, <1>10 DEF Next, Executor

LEMMA InitWakes == ASSUME Init PROVE WInv
BY DEF Init, WInv, StopWakesAll, NoLostWakeUp

LEMMA WakesInvariance == Spec => []WInv
BY InitIInv, NextIInv, InitWakes, NextWakes, PTL DEF Spec

\* A message never waits on sleepers alone, for any number of executors.
THEOREM NoWakeUpIsLost == Spec => []NoLostWakeUp
BY WakesInvariance, PTL DEF WInv

\* stop leaves nobody asleep, for any number of executors.
THEOREM StopReachesAll == Spec => []StopWakesAll
BY WakesInvariance, PTL DEF WInv

-----------------------------------------------------------------------------
(* Refinement                                                               *)

LEMMA RefinesNext ==
    ASSUME IInv, [Next]_vars
    PROVE  [Abstract!Next]_(Abstract!vars)
<1> USE DEF IInv, Abstract!vars, Abstract!Next
<1>1. ASSUME NEW m \in Messages, Post(m) PROVE Abstract!Post(m)
  BY <1>1 DEF Post, Abstract!Post
<1>2. ASSUME NEW e \in Executors, Retrieve(e) PROVE Abstract!Take
  BY <1>2, EndsOfList DEF Retrieve, PopEvent, Abstract!Take
<1>3. ASSUME NEW c \in Cleaners, Clear(c) PROVE Abstract!DiscardAll
  BY <1>3 DEF Clear, Abstract!DiscardAll
<1>4. ASSUME NEW e \in Executors, NEW m \in Messages, Dispatch(e, m) PROVE Abstract!RunInline(m)
  BY <1>4 DEF Dispatch, Abstract!RunInline
<1>5. ASSUME \/ UNCHANGED vars \/ Stop \/ Restart
             \/ \E e \in Executors : Enter(e) \/ Loop(e) \/ Return(e) \/ Sleep(e) \/ WakeUp(e) \/ Timeout(e) \/ Run(e) \/ Release(e)
             \/ \E c \in Cleaners : ReleaseNext(c)
      PROVE  UNCHANGED <<queue, fate>>
  BY <1>5 DEF vars, Stop, Restart, Enter, Loop, Return, Sleep, WakeUp, Timeout, Run, Release, ReleaseNext, messageVars
<1> QED BY <1>1, <1>2, <1>3, <1>4, <1>5 DEF Next, Executor

\* The queue implements MessageQueue: messages leave in the order they came, each once,
\* for every number of messages, executors and cleaners.
THEOREM Implements == Spec => ImplementsQueue
<1>1. Init => Abstract!Init
  BY DEF Init, Abstract!Init
<1> QED BY <1>1, Invariance, RefinesNext, PTL DEF Spec, ImplementsQueue, Abstract!Spec

-----------------------------------------------------------------------------
(* InmemoryPipe                                                             *)

P == INSTANCE InmemoryPipe

-----------------------------------------------------------------------------
(* The lengths of messages on their way, and the bytes they account for     *)

\* The first l lengths of s, added up from the last: f[i] are in the messages after the i-th.
Sums(f, s, l) == f[l] = 0 /\ \A i \in 1 .. l : f[i - 1] = f[i] + s[i]

\* There are no more than n bytes in messages of the lengths s.
SumsUp(s, l, n) == \E f \in [Nat -> Nat] : Sums(f, s, l) /\ n <= f[0]
Backing(s, n)   == SumsUp(s, Len(s), n)

\* The sums when a length is put after the last.
LEMMA SumsAppended ==
    ASSUME NEW s, NEW r, NEW l \in Nat, NEW n \in Nat, NEW k \in Nat,
           SumsUp(s, l, n),
           \A i \in 1 .. l : s[i] \in Nat /\ r[i] = s[i], r[l + 1] \in Nat, k <= n + r[l + 1]
    PROVE  SumsUp(r, l + 1, k)
<1>1. PICK f \in [Nat -> Nat] : Sums(f, s, l) /\ n <= f[0]
  BY DEF SumsUp
<1> DEFINE g == [i \in Nat |-> IF i <= l THEN f[i] + r[l + 1] ELSE 0]
<1>2. g \in [Nat -> Nat] /\ k <= g[0]
  BY <1>1
<1>3. g[l + 1] = 0
  OBVIOUS
<1>4. ASSUME NEW i \in 1 .. l + 1 PROVE g[i - 1] = g[i] + r[i]
  <2>1. CASE i = l + 1
    BY <1>1, <2>1 DEF Sums
  <2>2. CASE i # l + 1
    BY <1>1, <2>2 DEF Sums
  <2>3. QED
    BY <2>1, <2>2
<1>5. QED
  BY <1>2, <1>3, <1>4 DEF Sums, SumsUp

\* The sums when k is taken off the first length.
LEMMA SumsLowered ==
    ASSUME NEW s, NEW r, NEW l \in Nat \ {0}, NEW k \in Nat, NEW n \in Nat, k <= n,
           SumsUp(s, l, n),
           \A i \in 1 .. l : s[i] \in Nat /\ r[i] = IF i = 1 THEN s[i] - k ELSE s[i]
    PROVE  SumsUp(r, l, n - k)
<1>1. PICK f \in [Nat -> Nat] : Sums(f, s, l) /\ n <= f[0]
  BY DEF SumsUp
<1> DEFINE g == [i \in Nat |-> IF i = 0 THEN f[0] - k ELSE f[i]]
<1>2. g \in [Nat -> Nat] /\ n - k <= g[0]
  <2>1. f[0] \in Nat /\ f[0] - k \in Nat
    BY <1>1
  <2>2. QED
    BY <1>1, <2>1
<1>3. g[l] = 0
  BY <1>1 DEF Sums
<1>4. ASSUME NEW i \in 1 .. l PROVE g[i - 1] = g[i] + r[i]
  <2>1. CASE i = 1
    BY <1>1, <2>1 DEF Sums
  <2>2. CASE i # 1
    BY <1>1, <2>2 DEF Sums
  <2>3. QED
    BY <2>1, <2>2
<1>5. QED
  BY <1>2, <1>3, <1>4 DEF Sums, SumsUp

\* The sums when the first length, 0, is taken away.
LEMMA SumsShifted ==
    ASSUME NEW s, NEW r, NEW l \in Nat \ {0}, NEW n \in Nat, s[1] = 0,
           SumsUp(s, l, n),
           \A i \in 1 .. l - 1 : r[i] = s[i + 1]
    PROVE  SumsUp(r, l - 1, n)
<1>1. PICK f \in [Nat -> Nat] : Sums(f, s, l) /\ n <= f[0]
  BY DEF SumsUp
<1> DEFINE g == [i \in Nat |-> f[i + 1]]
<1>2. g \in [Nat -> Nat]
  BY <1>1
<1>3. n <= g[0]
  BY <1>1 DEF Sums
<1>4. Sums(g, r, l - 1)
  BY <1>1 DEF Sums
<1>5. QED
  BY <1>2, <1>3, <1>4 DEF SumsUp

\* A message that is sent brings its length.
LEMMA MoreBacking ==
    ASSUME NEW s \in Seq(Nat), NEW m \in Nat, NEW n \in Nat, NEW k \in Nat, Backing(s, n),
           k <= n + m
    PROVE  Append(s, m) \in Seq(Nat) /\ Backing(Append(s, m), k)
<1> DEFINE r == Append(s, m)
<1>1. PICK l \in Nat : l = Len(s)
  BY LenProperties
<1>2. r \in Seq(Nat) /\ Len(r) = l + 1
  BY <1>1, AppendProperties
<1>3. /\ r[l + 1] \in Nat /\ k <= n + r[l + 1]
      /\ \A i \in 1 .. l : s[i] \in Nat /\ r[i] = s[i]
  BY <1>1, AppendProperties, ElementOfSeq
<1>4. SumsUp(s, l, n)
  BY <1>1 DEF Backing
<1> HIDE DEF r
<1>5. SumsUp(r, l + 1, k)
  BY <1>3, <1>4, SumsAppended
<1>6. SumsUp(r, Len(r), k)
  BY <1>2, <1>5
<1>7. QED
  BY <1>2, <1>6 DEF Backing, r

\* What is read of the first message is not to be read any more.
LEMMA ReadBacking ==
    ASSUME NEW s \in Seq(Nat), s # <<>>, NEW k \in Nat, k <= Head(s),
           NEW n \in Nat, k <= n, Backing(s, n)
    PROVE  /\ <<Head(s) - k>> \o Tail(s) \in Seq(Nat) /\ <<Head(s) - k>> \o Tail(s) # <<>>
           /\ Backing(<<Head(s) - k>> \o Tail(s), n - k)
<1> DEFINE h == Head(s) - k
           r == <<h>> \o Tail(s)
<1>1. PICK l \in Nat \ {0} : l = Len(s)
  BY EmptySeq, LenProperties
<1>2. /\ Head(s) \in Nat /\ Tail(s) \in Seq(Nat) /\ Len(Tail(s)) = l - 1
      /\ \A i \in 1 .. l - 1 : Tail(s)[i] = s[i + 1]
      /\ Head(s) = s[1]
  BY <1>1, HeadTailProperties
<1>3. <<h>> \in Seq(Nat) /\ Len(<<h>>) = 1 /\ <<h>>[1] = h
  BY <1>2
<1>4. /\ r \in Seq(Nat) /\ Len(r) = l
      /\ \A i \in 1 .. l : r[i] = IF i = 1 THEN s[i] - k ELSE s[i]
  <2>1. /\ r \in Seq(Nat) /\ Len(r) = Len(<<h>>) + Len(Tail(s))
        /\ \A i \in 1 .. Len(<<h>>) + Len(Tail(s)) :
              r[i] = IF i <= Len(<<h>>) THEN <<h>>[i] ELSE Tail(s)[i - Len(<<h>>)]
    BY <1>2, <1>3, ConcatProperties
  <2>2. QED
    BY <1>1, <1>2, <1>3, <2>1
<1>5. r # <<>>
  BY <1>1, <1>4, EmptySeq
<1>6. SumsUp(s, l, n)
  BY <1>1 DEF Backing
<1>7. \A i \in 1 .. l : s[i] \in Nat /\ r[i] = IF i = 1 THEN s[i] - k ELSE s[i]
  BY <1>1, <1>4, ElementOfSeq
<1> HIDE DEF r, h
<1>8. SumsUp(r, l, n - k)
  BY <1>6, <1>7, SumsLowered
<1>9. SumsUp(r, Len(r), n - k)
  BY <1>4, <1>8
<1>10. QED
  BY <1>4, <1>5, <1>9 DEF Backing, r, h

\* A message that was read brings nothing.
LEMMA TailBacking ==
    ASSUME NEW s \in Seq(Nat), s # <<>>, Head(s) = 0, NEW n \in Nat, Backing(s, n)
    PROVE  Tail(s) \in Seq(Nat) /\ Backing(Tail(s), n)
<1> DEFINE r == Tail(s)
<1>1. PICK l \in Nat \ {0} : l = Len(s)
  BY EmptySeq, LenProperties
<1>2. r \in Seq(Nat) /\ Len(r) = l - 1
  BY <1>1, HeadTailProperties
<1>3. s[1] = 0 /\ \A i \in 1 .. l - 1 : r[i] = s[i + 1]
  BY <1>1, HeadTailProperties
<1>4. SumsUp(s, l, n)
  BY <1>1 DEF Backing
<1> HIDE DEF r
<1>5. SumsUp(r, l - 1, n)
  BY <1>3, <1>4, SumsShifted
<1>6. SumsUp(r, Len(r), n)
  BY <1>2, <1>5
<1>7. QED
  BY <1>2, <1>6 DEF Backing, r

\* Fewer bytes need no more messages.
LEMMA LessBacking ==
    ASSUME NEW s \in Seq(Nat), NEW n \in Nat, NEW k \in Nat, k <= n, Backing(s, n)
    PROVE  Backing(s, k)
<1>1. PICK l \in Nat : l = Len(s)
  BY LenProperties
<1>2. PICK f \in [Nat -> Nat] : Sums(f, s, l) /\ n <= f[0]
  BY <1>1 DEF Backing, SumsUp
<1>3. f[0] \in Nat /\ k <= f[0]
  BY <1>2
<1>4. SumsUp(s, l, k)
  BY <1>2, <1>3 DEF SumsUp
<1>5. QED
  BY <1>1, <1>4 DEF Backing

\* Without messages there are no bytes.
LEMMA NoBacking ==
    ASSUME NEW s \in Seq(Nat), NEW n \in Nat, Backing(s, n), n > 0
    PROVE  s # <<>>
<1> SUFFICES ASSUME s = <<>> PROVE FALSE
  OBVIOUS
<1>1. Len(s) = 0
  OBVIOUS
<1>2. PICK f \in [Nat -> Nat] : Sums(f, s, 0) /\ n <= f[0]
  BY <1>1 DEF Backing, SumsUp
<1>3. QED
  BY <1>2 DEF Sums

-----------------------------------------------------------------------------
(* The inductive invariant                                                  *)

\* What PipeEnds assumes of the constants, in the words of the instance
SizesGiven == /\ Lengths \subseteq Nat \ {0} /\ MaxMessages \in [P!Ends -> Nat]
              /\ {ObufSize, IbufSize, Capacity} \subseteq Nat \ {0}

\* That is assumed.
LEMMA Given == SizesGiven
  BY SizesAssumption DEF SizesGiven, Ends, P!Ends

PipeTypes ==
    /\ SizesGiven
    /\ manual \in BOOLEAN
    /\ strm \in [P!Ends -> Nat] /\ capacity \in [P!Ends -> Nat] /\ receiver \in [P!Ends -> BOOLEAN]
    /\ obuf \in [P!Ends -> 0 .. ObufSize] /\ avail \in [P!Ends -> Nat]
    /\ noSignal \in [P!Ends -> BOOLEAN]
    /\ valid \in [P!Ends -> BOOLEAN] /\ waiting \in [P!Ends -> BOOLEAN]
    /\ sender \in [P!Ends -> {"idle", "write", "signal", "failed"}]
    /\ left \in [P!Ends -> Nat] /\ flushing \in [P!Ends -> BOOLEAN]
    /\ handler \in [P!Ends -> {"idle", "posted", "read", "rearm", "ended"}]
    /\ coming \in [P!Ends -> Seq(Nat)]
    /\ sent \in [P!Ends -> Nat]

\* The signal, the handler and the peer's sender: the handler is idle exactly while the next
\* signal is still to come, being raised, or about to be given, and there is nothing to read
\* before it is raised.
Receiving(e) ==
    /\ handler[e] \in {"idle", "rearm"} => waiting[e]
    /\ handler[e] = "posted" => ~waiting[e] /\ strm[e] + avail[e] > 0
    /\ handler[e] = "read" => coming[e] # <<>>
    /\ handler[e] = "idle" => P!Signalled(e) \/ (~noSignal[e] /\ strm[e] = 0 /\ avail[e] = 0)
    /\ P!Signalled(e) => handler[e] = "idle" /\ strm[e] > 0
    /\ ~noSignal[e] => handler[e] = "idle" /\ ~P!Signalled(e)

\* The bytes on their way to an end are of messages to it that it has not read.
Bytes(e)  == strm[e] + avail[e] + obuf[P!Peer(e)] + left[P!Peer(e)]
Backed(e) == Backing(coming[e], Bytes(e))

PipeInv == PipeTypes /\ \A e \in P!Ends : Receiving(e) /\ Backed(e)

\* There are two ends, each the other's peer.
LEMMA Peers ==
    \A e \in P!Ends : /\ P!Peer(e) \in P!Ends /\ P!Peer(e) # e /\ P!Peer(P!Peer(e)) = e
                    /\ \A d \in P!Ends : d = e \/ d = P!Peer(e)
  BY EndsAssumption DEF P!Ends, P!Peer

\* The number of bytes is one.
LEMMA BytesType ==
    ASSUME PipeTypes, NEW e \in P!Ends
    PROVE  Bytes(e) \in Nat
<1>1. /\ strm[e] \in Nat /\ avail[e] \in Nat /\ obuf[P!Peer(e)] \in 0 .. ObufSize
      /\ left[P!Peer(e)] \in Nat /\ ObufSize \in Nat
  BY Peers DEF PipeTypes, SizesGiven
<1>2. QED
  BY <1>1 DEF Bytes

\* The numbers of bytes.
LEMMA Numbers ==
    ASSUME PipeTypes
    PROVE  /\ ObufSize \in Nat \ {0} /\ IbufSize \in Nat \ {0}
           /\ \A d \in P!Ends : /\ strm[d] \in Nat /\ avail[d] \in Nat /\ left[d] \in Nat
                             /\ obuf[d] \in Nat /\ obuf[d] <= ObufSize
  BY DEF PipeTypes, SizesGiven

\* An end whose messages stay and whose bytes are as many as before.
LEMMA SameBacked ==
    ASSUME NEW d \in P!Ends, Backed(d), coming'[d] = coming[d], Bytes(d)' = Bytes(d)
    PROVE  Backed(d)'
  BY DEF Backed

\* An end whose messages stay and that gets no more bytes.
LEMMA StillBacked ==
    ASSUME PipeTypes, PipeTypes', NEW d \in P!Ends, Backed(d), coming'[d] = coming[d],
           Bytes(d)' <= Bytes(d)
    PROVE  Backed(d)'
<1>1. Bytes(d) \in Nat /\ Bytes(d)' \in Nat
  <2>1. Bytes(d) \in Nat
    BY BytesType
  <2>2. Bytes(d)' \in Nat
    <3>1. /\ strm'[d] \in Nat /\ avail'[d] \in Nat /\ obuf'[P!Peer(d)] \in 0 .. ObufSize
          /\ left'[P!Peer(d)] \in Nat /\ ObufSize \in Nat
      BY Peers DEF PipeTypes, SizesGiven
    <3>2. QED
      BY <3>1 DEF Bytes
  <2>3. QED
    BY <2>1, <2>2
<1>2. coming[d] \in Seq(Nat)
  BY DEF PipeTypes, SizesGiven
<1>3. Backing(coming[d], Bytes(d)')
  BY <1>1, <1>2, LessBacking DEF Backed
<1>4. QED
  BY <1>3 DEF Backed

\* A message is sent to the peer.
LEMMA SendStep ==
    ASSUME PipeInv, NEW e \in P!Ends, P!Send(e)
    PROVE  PipeInv'
<1> USE DEF PipeInv
<1>1. PICK p \in P!Ends : /\ p = P!Peer(e) /\ p # e /\ P!Peer(p) = e
                        /\ \A d \in P!Ends : d = e \/ d = p
  BY Peers
<1>2. PICK n \in Lengths :
        /\ left' = [left EXCEPT ![e] = n]
        /\ coming' = [coming EXCEPT ![p] = Append(@, n)]
  BY <1>1 DEF P!Send
<1>3. /\ sender' = [sender EXCEPT ![e] = "write"] /\ sender[e] = "idle"
      /\ sent' = [sent EXCEPT ![e] = @ + 1] /\ flushing' = [flushing EXCEPT ![e] = ~manual]
      /\ UNCHANGED <<manual, strm, capacity, receiver, obuf, avail, noSignal, valid, waiting, handler>>
  BY DEF P!Send, P!Free, P!pipes, P!buffers
<1>4. n \in Nat /\ coming[p] \in Seq(Nat) /\ Append(coming[p], n) \in Seq(Nat)
      /\ Append(coming[p], n) # <<>>
  <2>1. n \in Nat /\ coming[p] \in Seq(Nat)
    BY DEF PipeTypes, SizesGiven
  <2>2. Append(coming[p], n) \in Seq(Nat) /\ Append(coming[p], n) # <<>>
    BY <2>1, AppendProperties
  <2>3. QED
    BY <2>1, <2>2
<1>5. /\ coming' \in [P!Ends -> Seq(Nat)] /\ coming'[p] # <<>> /\ coming'[e] = coming[e]
      /\ coming'[p] = Append(coming[p], n)
  BY <1>1, <1>2, <1>4 DEF PipeTypes, SizesGiven
<1>6. left' = [left EXCEPT ![e] = n] /\ n \in Nat
  BY <1>2, <1>4
<1>7. PipeTypes'
  <2>1. coming' \in [P!Ends -> Seq(Nat)]
    BY <1>5
  <2>2. \A v \in BOOLEAN : [flushing EXCEPT ![e] = v] \in [P!Ends -> BOOLEAN]
    BY DEF PipeTypes, SizesGiven
  <2>3. flushing' \in [P!Ends -> BOOLEAN]
    BY <1>3, <2>2
  <2>4. left' \in [P!Ends -> Nat] /\ sent' \in [P!Ends -> Nat]
    BY <1>3, <1>6 DEF PipeTypes
  <2>5. QED
    BY <1>1, <1>3, <2>1, <2>3, <2>4 DEF PipeTypes, SizesGiven
<1>8. Receiving(e)' /\ Receiving(p)'
  <2>1. coming'[p] # <<>> /\ coming'[e] = coming[e]
    BY <1>5
  <2>2. QED
    BY <1>1, <1>3, <1>6, <2>1 DEF PipeTypes, Receiving, P!Signalled
<1>9. Backed(e)' /\ Backed(p)'
  <2>1. /\ Bytes(e) = strm[e] + avail[e] + obuf[p] + left[p]
        /\ Bytes(e)' = strm'[e] + avail'[e] + obuf'[p] + left'[p]
        /\ Bytes(p) = strm[p] + avail[p] + obuf[e] + left[e]
        /\ Bytes(p)' = strm'[p] + avail'[p] + obuf'[e] + left'[e]
    BY <1>1 DEF Bytes
  <2>2. Backed(e)'
    <3>1. coming'[e] = coming[e]
      BY <1>1, <1>2, <1>3, <1>4, <1>5, <1>6 DEF PipeTypes, SizesGiven
    <3>2. Bytes(e)' = Bytes(e)
      BY <1>1, <1>2, <1>3, <1>4, <1>5, <1>6, <2>1 DEF PipeTypes, SizesGiven
    <3>3. QED
      BY <3>1, <3>2, SameBacked
  <2>3. Backed(p)'
    <3>1. left'[e] = n
      BY <1>6 DEF PipeTypes, SizesGiven
    <3>2. /\ Bytes(p)' <= Bytes(p) + n
          /\ Bytes(p) \in Nat /\ Bytes(p)' \in Nat
      BY <1>1, <1>3, <1>6, <2>1, <3>1, Numbers
    <3>3. Backing(Append(coming[p], n), Bytes(p)')
      BY <1>1, <1>4, <3>2, MoreBacking DEF Backed
    <3>4. coming'[p] = Append(coming[p], n)
      BY <1>1, <1>2 DEF PipeTypes, SizesGiven
    <3>5. QED
      BY <3>3, <3>4 DEF Backed
  <2>4. QED
    BY <2>2, <2>3
<1>10. QED
  BY <1>1, <1>7, <1>8, <1>9

\* The buffer is flushed.
LEMMA FlushStep ==
    ASSUME PipeInv, NEW e \in P!Ends, P!Flush(e)
    PROVE  PipeInv'
<1> USE DEF PipeInv
<1>1. PICK p \in P!Ends : /\ p = P!Peer(e) /\ p # e /\ P!Peer(p) = e
                        /\ \A d \in P!Ends : d = e \/ d = p
  BY Peers
<1>2. /\ sender' = [sender EXCEPT ![e] = "write"] /\ sender[e] = "idle"
      /\ flushing' = [flushing EXCEPT ![e] = TRUE]
      /\ UNCHANGED <<manual, strm, capacity, receiver, obuf, avail, noSignal, left, sent, valid,
                     waiting, handler, coming>>
  BY DEF P!Flush, P!Free, P!pipes, P!buffers, P!session
<1>3. PipeTypes'
  BY <1>1, <1>2 DEF PipeTypes, SizesGiven
<1>4. Receiving(e)' /\ Receiving(p)'
  BY <1>1, <1>2 DEF PipeTypes, Receiving, P!Signalled
<1>5. Backed(e)' /\ Backed(p)'
  <2>1. /\ Bytes(e) = strm[e] + avail[e] + obuf[p] + left[p]
        /\ Bytes(e)' = strm'[e] + avail'[e] + obuf'[p] + left'[p]
        /\ Bytes(p) = strm[p] + avail[p] + obuf[e] + left[e]
        /\ Bytes(p)' = strm'[p] + avail'[p] + obuf'[e] + left'[e]
    BY <1>1 DEF Bytes
  <2>2. Backed(e)'
    <3>1. coming'[e] = coming[e]
      BY <1>1, <1>2 DEF PipeTypes, SizesGiven
    <3>2. Bytes(e)' = Bytes(e)
      BY <1>1, <1>2, <2>1 DEF PipeTypes, SizesGiven
    <3>3. QED
      BY <3>1, <3>2, SameBacked
  <2>3. Backed(p)'
    <3>1. coming'[p] = coming[p]
      BY <1>1, <1>2 DEF PipeTypes, SizesGiven
    <3>2. Bytes(p)' = Bytes(p)
      BY <1>1, <1>2, <2>1 DEF PipeTypes, SizesGiven
    <3>3. QED
      BY <3>1, <3>2, SameBacked
  <2>4. QED
    BY <2>2, <2>3
<1>6. QED
  BY <1>1, <1>3, <1>4, <1>5

\* Bytes go from the message to the buffer.
LEMMA PutStep ==
    ASSUME PipeInv, NEW e \in P!Ends, P!Put(e)
    PROVE  PipeInv'
<1> USE DEF PipeInv
<1>1. PICK p \in P!Ends : /\ p = P!Peer(e) /\ p # e /\ P!Peer(p) = e
                        /\ \A d \in P!Ends : d = e \/ d = p
  BY Peers
<1>2. PICK n \in Nat : /\ n <= left[e] /\ n <= ObufSize - obuf[e]
                        /\ obuf' = [obuf EXCEPT ![e] = @ + n] /\ left' = [left EXCEPT ![e] = @ - n]
  <2>1. left[e] \in Nat /\ obuf[e] \in 0 .. ObufSize /\ ObufSize \in Nat /\ obuf[e] < ObufSize
    BY DEF P!Put, PipeTypes, SizesGiven
  <2> DEFINE n == IF left[e] < ObufSize - obuf[e] THEN left[e] ELSE ObufSize - obuf[e]
  <2>2. n \in Nat /\ n <= left[e] /\ n <= ObufSize - obuf[e]
    BY <2>1
  <2>3. obuf' = [obuf EXCEPT ![e] = @ + n] /\ left' = [left EXCEPT ![e] = @ - n]
    BY DEF P!Put
  <2>4. QED
    BY <2>2, <2>3
<1>3. UNCHANGED <<manual, strm, capacity, receiver, avail, noSignal, sender, flushing, sent, valid,
                  waiting, handler, coming>>
  BY DEF P!Put, P!pipes, P!session
<1>4. obuf[e] + n \in 0 .. ObufSize /\ left[e] - n \in Nat
  BY <1>2, Numbers
<1>5. PipeTypes'
  BY <1>1, <1>2, <1>3, <1>4 DEF PipeTypes, SizesGiven
<1>6. Receiving(e)' /\ Receiving(p)'
  BY <1>1, <1>2, <1>3, <1>4 DEF PipeTypes, Receiving, P!Signalled
<1>7. Backed(e)' /\ Backed(p)'
  <2>1. /\ Bytes(e) = strm[e] + avail[e] + obuf[p] + left[p]
        /\ Bytes(e)' = strm'[e] + avail'[e] + obuf'[p] + left'[p]
        /\ Bytes(p) = strm[p] + avail[p] + obuf[e] + left[e]
        /\ Bytes(p)' = strm'[p] + avail'[p] + obuf'[e] + left'[e]
    BY <1>1 DEF Bytes
  <2>2. Backed(e)'
    <3>1. coming'[e] = coming[e]
      BY <1>1, <1>2, <1>3, <1>4 DEF PipeTypes, SizesGiven
    <3>2. Bytes(e)' = Bytes(e)
      BY <1>1, <1>2, <1>3, <1>4, <2>1 DEF PipeTypes, SizesGiven
    <3>3. QED
      BY <3>1, <3>2, SameBacked
  <2>3. Backed(p)'
    <3>1. coming'[p] = coming[p]
      BY <1>1, <1>2, <1>3, <1>4 DEF PipeTypes, SizesGiven
    <3>2. obuf'[e] = obuf[e] + n /\ left'[e] = left[e] - n
      BY <1>1, <1>2, <1>3, <1>4 DEF PipeTypes, SizesGiven
    <3>3. Bytes(p)' = Bytes(p)
      BY <1>1, <1>2, <1>3, <1>4, <2>1, <3>2, Numbers
    <3>4. QED
      BY <3>1, <3>3, SameBacked
  <2>4. QED
    BY <2>2, <2>3
<1>8. QED
  BY <1>1, <1>5, <1>6, <1>7

\* What is in the buffer goes to the peer's pipe, and its signal is raised.
LEMMA SyncStep ==
    ASSUME PipeInv, NEW e \in P!Ends, P!Sync(e), receiver[P!Peer(e)]
    PROVE  PipeInv'
<1> USE DEF PipeInv
<1>1. PICK p \in P!Ends : /\ p = P!Peer(e) /\ p # e /\ P!Peer(p) = e
                        /\ \A d \in P!Ends : d = e \/ d = p
  BY Peers
<1>2. /\ strm' = [strm EXCEPT ![p] = @ + obuf[e]] /\ obuf[e] > 0 /\ sender[e] = "write"
      /\ capacity' = [capacity EXCEPT ![p] = P!Grown(strm[p], @, obuf[e])]
      /\ obuf' = [obuf EXCEPT ![e] = 0]
  BY <1>1 DEF P!Sync
<1>3. /\ noSignal' = [noSignal EXCEPT ![p] = TRUE]
      /\ sender' = [sender EXCEPT ![e] = IF noSignal[p] THEN "write" ELSE "signal"]
  BY <1>1 DEF P!Sync, P!Raise
<1>4. UNCHANGED <<manual, receiver, avail, left, flushing, sent, valid, waiting, handler, coming>>
  BY DEF P!Sync, P!session
<1>5. P!Grown(strm[p], capacity[p], obuf[e]) \in Nat
  <2>1. strm[p] \in Nat /\ capacity[p] \in Nat /\ obuf[e] \in 0 .. ObufSize /\ ObufSize \in Nat
    BY <1>1 DEF PipeTypes, SizesGiven
  <2>2. QED
    BY <2>1 DEF P!Grown
<1>6. strm[p] + obuf[e] \in Nat /\ strm[p] + obuf[e] > 0 /\ 0 \in 0 .. ObufSize
  BY <1>1, <1>2, Numbers
<1>7. PipeTypes'
  BY <1>1, <1>2, <1>3, <1>4, <1>5, <1>6 DEF PipeTypes, SizesGiven
<1>8. Receiving(e)' /\ Receiving(p)'
  <2>1. /\ strm'[p] = strm[p] + obuf[e] /\ strm'[e] = strm[e] /\ noSignal'[p] = TRUE
        /\ noSignal'[e] = noSignal[e] /\ sender'[p] = sender[p]
        /\ sender'[e] = IF noSignal[p] THEN "write" ELSE "signal"
    BY <1>1, <1>2, <1>3 DEF PipeTypes, SizesGiven
  <2>2. Receiving(e)'
    BY <1>1, <1>4, <2>1 DEF Receiving, P!Signalled
  <2>3. strm'[p] > 0 /\ strm'[p] + avail[p] > 0
    BY <1>1, <1>6, <2>1, Numbers
  <2>4. Receiving(p)'
    BY <1>1, <1>2, <1>4, <2>1, <2>3 DEF Receiving, P!Signalled
  <2>5. QED
    BY <2>2, <2>4
<1>9. Backed(e)' /\ Backed(p)'
  <2>1. /\ Bytes(e) = strm[e] + avail[e] + obuf[p] + left[p]
        /\ Bytes(e)' = strm'[e] + avail'[e] + obuf'[p] + left'[p]
        /\ Bytes(p) = strm[p] + avail[p] + obuf[e] + left[e]
        /\ Bytes(p)' = strm'[p] + avail'[p] + obuf'[e] + left'[e]
    BY <1>1 DEF Bytes
  <2>2. Backed(e)'
    <3>1. coming'[e] = coming[e]
      BY <1>1, <1>2, <1>3, <1>4, <1>5, <1>6 DEF PipeTypes, SizesGiven
    <3>2. Bytes(e)' = Bytes(e)
      BY <1>1, <1>2, <1>3, <1>4, <1>5, <1>6, <2>1 DEF PipeTypes, SizesGiven
    <3>3. QED
      BY <3>1, <3>2, SameBacked
  <2>3. Backed(p)'
    <3>1. coming'[p] = coming[p]
      BY <1>1, <1>2, <1>3, <1>4, <1>5, <1>6 DEF PipeTypes, SizesGiven
    <3>2. strm'[p] = strm[p] + obuf[e] /\ obuf'[e] = 0
      BY <1>1, <1>2, <1>3, <1>4, <1>5, <1>6 DEF PipeTypes, SizesGiven
    <3>3. Bytes(p)' = Bytes(p)
      BY <1>1, <1>2, <1>3, <1>4, <1>5, <1>6, <2>1, <3>2, Numbers
    <3>4. QED
      BY <3>1, <3>3, SameBacked
  <2>4. QED
    BY <2>2, <2>3
<1>10. QED
  BY <1>1, <1>7, <1>8, <1>9

\* The peer has closed: nothing is taken from the buffer.
LEMMA SyncFails ==
    ASSUME PipeInv, NEW e \in P!Ends, P!Sync(e), ~receiver[P!Peer(e)]
    PROVE  PipeInv'
<1> USE DEF PipeInv
<1>1. PICK p \in P!Ends : /\ p = P!Peer(e) /\ p # e /\ P!Peer(p) = e
                        /\ \A d \in P!Ends : d = e \/ d = p
  BY Peers
<1>2. /\ sender' = [sender EXCEPT ![e] = "failed"] /\ sender[e] = "write"
      /\ UNCHANGED <<manual, strm, capacity, receiver, obuf, avail, noSignal, left, flushing, sent,
                     valid, waiting, handler, coming>>
  BY DEF P!Sync, P!session
<1>3. PipeTypes'
  BY <1>1, <1>2 DEF PipeTypes, SizesGiven
<1>4. Receiving(e)' /\ Receiving(p)'
  BY <1>1, <1>2 DEF PipeTypes, Receiving, P!Signalled
<1>5. Backed(e)' /\ Backed(p)'
  <2>1. /\ Bytes(e) = strm[e] + avail[e] + obuf[p] + left[p]
        /\ Bytes(e)' = strm'[e] + avail'[e] + obuf'[p] + left'[p]
        /\ Bytes(p) = strm[p] + avail[p] + obuf[e] + left[e]
        /\ Bytes(p)' = strm'[p] + avail'[p] + obuf'[e] + left'[e]
    BY <1>1 DEF Bytes
  <2>2. Backed(e)'
    <3>1. coming'[e] = coming[e]
      BY <1>1, <1>2 DEF PipeTypes, SizesGiven
    <3>2. Bytes(e)' = Bytes(e)
      BY <1>1, <1>2, <2>1 DEF PipeTypes, SizesGiven
    <3>3. QED
      BY <3>1, <3>2, SameBacked
  <2>3. Backed(p)'
    <3>1. coming'[p] = coming[p]
      BY <1>1, <1>2 DEF PipeTypes, SizesGiven
    <3>2. Bytes(p)' = Bytes(p)
      BY <1>1, <1>2, <2>1 DEF PipeTypes, SizesGiven
    <3>3. QED
      BY <3>1, <3>2, SameBacked
  <2>4. QED
    BY <2>2, <2>3
<1>6. QED
  BY <1>1, <1>3, <1>4, <1>5

\* The sender calls on_data_receive of the peer's session.
LEMMA SignalStep ==
    ASSUME PipeInv, NEW e \in P!Ends, P!Signal(e)
    PROVE  PipeInv'
<1> USE DEF PipeInv
<1>1. PICK p \in P!Ends : /\ p = P!Peer(e) /\ p # e /\ P!Peer(p) = e
                        /\ \A d \in P!Ends : d = e \/ d = p
  BY Peers
<1>2. /\ sender[e] = "signal" /\ sender' = [sender EXCEPT ![e] = "write"]
      /\ handler' = [handler EXCEPT ![p] = "posted"] /\ waiting' = [waiting EXCEPT ![p] = FALSE]
      /\ UNCHANGED <<manual, strm, capacity, receiver, obuf, avail, noSignal, left, flushing, sent,
                     valid, coming>>
  BY <1>1 DEF P!Signal, P!Posted, P!pipes, P!buffers
<1>3. PipeTypes'
  BY <1>1, <1>2 DEF PipeTypes, SizesGiven
<1>4. Receiving(e)' /\ Receiving(p)'
  BY <1>1, <1>2 DEF PipeTypes, Receiving, P!Signalled
<1>5. Backed(e)' /\ Backed(p)'
  <2>1. /\ Bytes(e) = strm[e] + avail[e] + obuf[p] + left[p]
        /\ Bytes(e)' = strm'[e] + avail'[e] + obuf'[p] + left'[p]
        /\ Bytes(p) = strm[p] + avail[p] + obuf[e] + left[e]
        /\ Bytes(p)' = strm'[p] + avail'[p] + obuf'[e] + left'[e]
    BY <1>1 DEF Bytes
  <2>2. Backed(e)'
    <3>1. coming'[e] = coming[e]
      BY <1>1, <1>2 DEF PipeTypes, SizesGiven
    <3>2. Bytes(e)' = Bytes(e)
      BY <1>1, <1>2, <2>1 DEF PipeTypes, SizesGiven
    <3>3. QED
      BY <3>1, <3>2, SameBacked
  <2>3. Backed(p)'
    <3>1. coming'[p] = coming[p]
      BY <1>1, <1>2 DEF PipeTypes, SizesGiven
    <3>2. Bytes(p)' = Bytes(p)
      BY <1>1, <1>2, <2>1 DEF PipeTypes, SizesGiven
    <3>3. QED
      BY <3>1, <3>2, SameBacked
  <2>4. QED
    BY <2>2, <2>3
<1>6. QED
  BY <1>1, <1>3, <1>4, <1>5

\* The sender is done; what is left of a message that failed is not sent.
LEMMA EndSendStep ==
    ASSUME PipeInv, NEW e \in P!Ends, P!EndSend(e)
    PROVE  PipeInv'
<1> USE DEF PipeInv
<1>1. PICK p \in P!Ends : /\ p = P!Peer(e) /\ p # e /\ P!Peer(p) = e
                        /\ \A d \in P!Ends : d = e \/ d = p
  BY Peers
<1>2. /\ sender[e] # "signal" /\ sender' = [sender EXCEPT ![e] = "idle"]
      /\ left' = [left EXCEPT ![e] = 0]
      /\ UNCHANGED <<manual, strm, capacity, receiver, obuf, avail, noSignal, flushing, sent, valid,
                     waiting, handler, coming>>
  BY DEF P!EndSend, P!pipes, P!buffers, P!session
<1>3. PipeTypes'
  BY <1>1, <1>2 DEF PipeTypes, SizesGiven
<1>4. Receiving(e)' /\ Receiving(p)'
  BY <1>1, <1>2 DEF PipeTypes, Receiving, P!Signalled
<1>5. Backed(e)' /\ Backed(p)'
  <2>1. /\ Bytes(e) = strm[e] + avail[e] + obuf[p] + left[p]
        /\ Bytes(e)' = strm'[e] + avail'[e] + obuf'[p] + left'[p]
        /\ Bytes(p) = strm[p] + avail[p] + obuf[e] + left[e]
        /\ Bytes(p)' = strm'[p] + avail'[p] + obuf'[e] + left'[e]
    BY <1>1 DEF Bytes
  <2>2. Backed(e)'
    <3>1. coming'[e] = coming[e]
      BY <1>1, <1>2 DEF PipeTypes, SizesGiven
    <3>2. Bytes(e)' = Bytes(e)
      BY <1>1, <1>2, <2>1 DEF PipeTypes, SizesGiven
    <3>3. QED
      BY <3>1, <3>2, SameBacked
  <2>3. Backed(p)'
    <3>1. coming'[p] = coming[p] /\ left'[e] = 0
      BY <1>1, <1>2 DEF PipeTypes, SizesGiven
    <3>2. Bytes(p)' <= Bytes(p)
      BY <1>1, <1>2, <2>1, <3>1, Numbers
    <3>3. QED
      BY <1>3, <3>1, <3>2, StillBacked
  <2>4. QED
    BY <2>2, <2>3
<1>6. QED
  BY <1>1, <1>3, <1>4, <1>5

\* The handler of a message begins to read: there is a message, as there are bytes.
LEMMA HandleStep ==
    ASSUME PipeInv, NEW e \in P!Ends, P!Handle(e)
    PROVE  PipeInv'
<1> USE DEF PipeInv
<1>1. PICK p \in P!Ends : /\ p = P!Peer(e) /\ p # e /\ P!Peer(p) = e
                        /\ \A d \in P!Ends : d = e \/ d = p
  BY Peers
<1>2. /\ handler[e] = "posted"
      /\ handler' = [handler EXCEPT ![e] = IF valid[e] THEN "read" ELSE "ended"]
      /\ UNCHANGED <<manual, strm, capacity, receiver, obuf, avail, noSignal, sender, left, flushing,
                     sent, valid, waiting, coming>>
  BY DEF P!Handle, P!pipes, P!buffers, P!sending
<1>3. coming[e] # <<>>
  <2>1. Bytes(e) \in Nat /\ coming[e] \in Seq(Nat) /\ Backing(coming[e], Bytes(e))
    BY BytesType DEF PipeTypes, SizesGiven, Backed
  <2>2. Bytes(e) > 0
    <3>1. strm[e] \in Nat /\ avail[e] \in Nat /\ strm[e] + avail[e] > 0
      BY <1>2 DEF PipeTypes, Receiving
    <3>2. obuf[p] \in Nat /\ left[p] \in Nat
      BY <1>1 DEF PipeTypes, SizesGiven
    <3>3. QED
      BY <1>1, <3>1, <3>2 DEF Bytes
  <2>3. QED
    BY <2>1, <2>2, NoBacking
<1>4. PipeTypes'
  BY <1>1, <1>2, <1>3 DEF PipeTypes, SizesGiven
<1>5. Receiving(e)' /\ Receiving(p)'
  BY <1>1, <1>2, <1>3 DEF PipeTypes, Receiving, P!Signalled
<1>6. Backed(e)' /\ Backed(p)'
  <2>1. /\ Bytes(e) = strm[e] + avail[e] + obuf[p] + left[p]
        /\ Bytes(e)' = strm'[e] + avail'[e] + obuf'[p] + left'[p]
        /\ Bytes(p) = strm[p] + avail[p] + obuf[e] + left[e]
        /\ Bytes(p)' = strm'[p] + avail'[p] + obuf'[e] + left'[e]
    BY <1>1 DEF Bytes
  <2>2. Backed(e)'
    <3>1. coming'[e] = coming[e]
      BY <1>1, <1>2, <1>3 DEF PipeTypes, SizesGiven
    <3>2. Bytes(e)' = Bytes(e)
      BY <1>1, <1>2, <1>3, <2>1 DEF PipeTypes, SizesGiven
    <3>3. QED
      BY <3>1, <3>2, SameBacked
  <2>3. Backed(p)'
    <3>1. coming'[p] = coming[p]
      BY <1>1, <1>2, <1>3 DEF PipeTypes, SizesGiven
    <3>2. Bytes(p)' = Bytes(p)
      BY <1>1, <1>2, <1>3, <2>1 DEF PipeTypes, SizesGiven
    <3>3. QED
      BY <3>1, <3>2, SameBacked
  <2>4. QED
    BY <2>2, <2>3
<1>7. QED
  BY <1>1, <1>4, <1>5, <1>6

\* The handler reads bytes of its message.
LEMMA GetStep ==
    ASSUME PipeInv, NEW e \in P!Ends, P!Get(e)
    PROVE  PipeInv'
<1> USE DEF PipeInv
<1>1. PICK p \in P!Ends : /\ p = P!Peer(e) /\ p # e /\ P!Peer(p) = e
                        /\ \A d \in P!Ends : d = e \/ d = p
  BY Peers
<1>2. coming[e] \in Seq(Nat) /\ coming[e] # <<>> /\ Head(coming[e]) \in Nat
  BY HeadTailProperties DEF P!Get, PipeTypes, SizesGiven, Receiving
<1>3. PICK n \in Nat :
        /\ n <= avail[e] /\ n <= Head(coming[e]) /\ avail' = [avail EXCEPT ![e] = @ - n]
        /\ coming' = [coming EXCEPT ![e] = <<Head(@) - n>> \o Tail(@)]
  <2>1. avail[e] \in Nat
    BY DEF PipeTypes, SizesGiven
  <2> DEFINE n == IF avail[e] < Head(coming[e]) THEN avail[e] ELSE Head(coming[e])
  <2>2. n \in Nat /\ n <= avail[e] /\ n <= Head(coming[e])
    BY <1>2, <2>1
  <2>3. /\ avail' = [avail EXCEPT ![e] = @ - n]
        /\ coming' = [coming EXCEPT ![e] = <<Head(@) - n>> \o Tail(@)]
    BY DEF P!Get
  <2>4. QED
    BY <2>2, <2>3
<1>4. /\ handler[e] = "read"
      /\ UNCHANGED <<manual, strm, capacity, receiver, obuf, noSignal, sender, left, flushing, sent,
                     valid, waiting, handler>>
  BY DEF P!Get, P!pipes, P!sending
<1>5. n <= Bytes(e) /\ Bytes(e) \in Nat /\ avail[e] - n \in Nat
  <2>1. Bytes(e) = strm[e] + avail[e] + obuf[p] + left[p]
    BY <1>1 DEF Bytes
  <2>2. QED
    BY <1>1, <1>3, <2>1, Numbers
<1>6. /\ <<Head(coming[e]) - n>> \o Tail(coming[e]) \in Seq(Nat)
      /\ <<Head(coming[e]) - n>> \o Tail(coming[e]) # <<>>
      /\ Backing(<<Head(coming[e]) - n>> \o Tail(coming[e]), Bytes(e) - n)
  BY <1>2, <1>3, <1>5, ReadBacking DEF Backed
<1>7. PipeTypes'
  BY <1>1, <1>2, <1>3, <1>4, <1>5, <1>6 DEF PipeTypes, SizesGiven
<1>8. Receiving(e)' /\ Receiving(p)'
  BY <1>1, <1>2, <1>3, <1>4, <1>5, <1>6 DEF PipeTypes, Receiving, P!Signalled
<1>9. Backed(e)' /\ Backed(p)'
  <2>1. /\ Bytes(e) = strm[e] + avail[e] + obuf[p] + left[p]
        /\ Bytes(e)' = strm'[e] + avail'[e] + obuf'[p] + left'[p]
        /\ Bytes(p) = strm[p] + avail[p] + obuf[e] + left[e]
        /\ Bytes(p)' = strm'[p] + avail'[p] + obuf'[e] + left'[e]
    BY <1>1 DEF Bytes
  <2>2. Backed(e)'
    <3>1. avail'[e] = avail[e] - n
      BY <1>3 DEF PipeTypes, SizesGiven
    <3>2. Bytes(e)' = Bytes(e) - n
      BY <1>1, <1>4, <2>1, <3>1, Numbers
    <3>3. coming'[e] = <<Head(coming[e]) - n>> \o Tail(coming[e])
      BY <1>3 DEF PipeTypes, SizesGiven
    <3>4. QED
      BY <1>6, <3>2, <3>3 DEF Backed
  <2>3. Backed(p)'
    <3>1. coming'[p] = coming[p]
      BY <1>1, <1>2, <1>3, <1>4, <1>5, <1>6 DEF PipeTypes, SizesGiven
    <3>2. Bytes(p)' = Bytes(p)
      BY <1>1, <1>2, <1>3, <1>4, <1>5, <1>6, <2>1 DEF PipeTypes, SizesGiven
    <3>3. QED
      BY <3>1, <3>2, SameBacked
  <2>4. QED
    BY <2>2, <2>3
<1>10. QED
  BY <1>1, <1>7, <1>8, <1>9

\* underflow takes bytes of the pipe into the empty buffer.
LEMMA UnderflowStep ==
    ASSUME PipeInv, NEW e \in P!Ends, P!Underflow(e)
    PROVE  PipeInv'
<1> USE DEF PipeInv
<1>1. PICK p \in P!Ends : /\ p = P!Peer(e) /\ p # e /\ P!Peer(p) = e
                        /\ \A d \in P!Ends : d = e \/ d = p
  BY Peers
<1>2. PICK n \in Nat : /\ n <= strm[e] /\ strm' = [strm EXCEPT ![e] = @ - n]
                        /\ avail' = [avail EXCEPT ![e] = n]
  <2>1. strm[e] \in Nat /\ IbufSize \in Nat
    BY DEF PipeTypes, SizesGiven
  <2> DEFINE n == IF strm[e] < IbufSize THEN strm[e] ELSE IbufSize
  <2>2. n \in Nat /\ n <= strm[e]
    BY <2>1
  <2>3. strm' = [strm EXCEPT ![e] = @ - n] /\ avail' = [avail EXCEPT ![e] = n]
    BY DEF P!Underflow
  <2>4. QED
    BY <2>2, <2>3
<1>3. /\ handler[e] = "read" /\ avail[e] = 0
      /\ UNCHANGED <<manual, capacity, receiver, obuf, noSignal, sender, left, flushing, sent, valid,
                     waiting, handler, coming>>
  BY DEF P!Underflow, P!sending, P!session
<1>4. strm[e] - n \in Nat
  BY <1>2, Numbers
<1>5. PipeTypes'
  BY <1>1, <1>2, <1>3, <1>4 DEF PipeTypes, SizesGiven
<1>6. Receiving(e)' /\ Receiving(p)'
  BY <1>1, <1>2, <1>3, <1>4 DEF PipeTypes, Receiving, P!Signalled
<1>7. Backed(e)' /\ Backed(p)'
  <2>1. /\ Bytes(e) = strm[e] + avail[e] + obuf[p] + left[p]
        /\ Bytes(e)' = strm'[e] + avail'[e] + obuf'[p] + left'[p]
        /\ Bytes(p) = strm[p] + avail[p] + obuf[e] + left[e]
        /\ Bytes(p)' = strm'[p] + avail'[p] + obuf'[e] + left'[e]
    BY <1>1 DEF Bytes
  <2>2. Backed(e)'
    <3>1. coming'[e] = coming[e]
      BY <1>1, <1>2, <1>3, <1>4 DEF PipeTypes, SizesGiven
    <3>2. strm'[e] = strm[e] - n /\ avail'[e] = n
      BY <1>1, <1>2, <1>3, <1>4 DEF PipeTypes, SizesGiven
    <3>3. Bytes(e)' = Bytes(e)
      BY <1>1, <1>2, <1>3, <1>4, <2>1, <3>2, Numbers
    <3>4. QED
      BY <3>1, <3>3, SameBacked
  <2>3. Backed(p)'
    <3>1. coming'[p] = coming[p]
      BY <1>1, <1>2, <1>3, <1>4 DEF PipeTypes, SizesGiven
    <3>2. Bytes(p)' = Bytes(p)
      BY <1>1, <1>2, <1>3, <1>4, <2>1 DEF PipeTypes, SizesGiven
    <3>3. QED
      BY <3>1, <3>2, SameBacked
  <2>4. QED
    BY <2>2, <2>3
<1>8. QED
  BY <1>1, <1>5, <1>6, <1>7

\* underflow finds its end closed, and the session expires.
LEMMA EofStep ==
    ASSUME PipeInv, NEW e \in P!Ends, P!UnderflowEof(e)
    PROVE  PipeInv'
<1> USE DEF PipeInv
<1>1. PICK p \in P!Ends : /\ p = P!Peer(e) /\ p # e /\ P!Peer(p) = e
                        /\ \A d \in P!Ends : d = e \/ d = p
  BY Peers
<1>2. /\ handler[e] = "read" /\ handler' = [handler EXCEPT ![e] = "ended"]
      /\ valid' = [valid EXCEPT ![e] = FALSE]
      /\ UNCHANGED <<manual, strm, capacity, receiver, obuf, avail, noSignal, sender, left, flushing,
                     sent, waiting, coming>>
  BY DEF P!UnderflowEof, P!pipes, P!buffers, P!sending
<1>3. PipeTypes'
  BY <1>1, <1>2 DEF PipeTypes, SizesGiven
<1>4. Receiving(e)' /\ Receiving(p)'
  BY <1>1, <1>2 DEF PipeTypes, Receiving, P!Signalled
<1>5. Backed(e)' /\ Backed(p)'
  <2>1. /\ Bytes(e) = strm[e] + avail[e] + obuf[p] + left[p]
        /\ Bytes(e)' = strm'[e] + avail'[e] + obuf'[p] + left'[p]
        /\ Bytes(p) = strm[p] + avail[p] + obuf[e] + left[e]
        /\ Bytes(p)' = strm'[p] + avail'[p] + obuf'[e] + left'[e]
    BY <1>1 DEF Bytes
  <2>2. Backed(e)'
    <3>1. coming'[e] = coming[e]
      BY <1>1, <1>2 DEF PipeTypes, SizesGiven
    <3>2. Bytes(e)' = Bytes(e)
      BY <1>1, <1>2, <2>1 DEF PipeTypes, SizesGiven
    <3>3. QED
      BY <3>1, <3>2, SameBacked
  <2>3. Backed(p)'
    <3>1. coming'[p] = coming[p]
      BY <1>1, <1>2 DEF PipeTypes, SizesGiven
    <3>2. Bytes(p)' = Bytes(p)
      BY <1>1, <1>2, <2>1 DEF PipeTypes, SizesGiven
    <3>3. QED
      BY <3>1, <3>2, SameBacked
  <2>4. QED
    BY <2>2, <2>3
<1>6. QED
  BY <1>1, <1>3, <1>4, <1>5

\* A message that was read is handled.
LEMMA EndReadStep ==
    ASSUME PipeInv, NEW e \in P!Ends, P!EndRead(e)
    PROVE  PipeInv'
<1> USE DEF PipeInv
<1>1. PICK p \in P!Ends : /\ p = P!Peer(e) /\ p # e /\ P!Peer(p) = e
                        /\ \A d \in P!Ends : d = e \/ d = p
  BY Peers
<1>2. /\ handler[e] = "read" /\ Head(coming[e]) = 0
      /\ handler' = [handler EXCEPT ![e] = "rearm"] /\ waiting' = [waiting EXCEPT ![e] = TRUE]
      /\ coming' = [coming EXCEPT ![e] = Tail(@)]
      /\ UNCHANGED <<manual, strm, capacity, receiver, obuf, avail, noSignal, sender, left, flushing,
                     sent, valid>>
  BY DEF P!EndRead, P!pipes, P!buffers, P!sending
<1>3. coming[e] \in Seq(Nat) /\ coming[e] # <<>> /\ Bytes(e) \in Nat
  BY <1>2, BytesType DEF PipeTypes, Receiving
<1>4. Tail(coming[e]) \in Seq(Nat) /\ Backing(Tail(coming[e]), Bytes(e))
  BY <1>2, <1>3, TailBacking DEF Backed
<1>5. PipeTypes'
  BY <1>1, <1>2, <1>3, <1>4 DEF PipeTypes, SizesGiven
<1>6. Receiving(e)' /\ Receiving(p)'
  BY <1>1, <1>2, <1>3, <1>4 DEF PipeTypes, Receiving, P!Signalled
<1>7. Backed(e)' /\ Backed(p)'
  <2>1. /\ Bytes(e) = strm[e] + avail[e] + obuf[p] + left[p]
        /\ Bytes(e)' = strm'[e] + avail'[e] + obuf'[p] + left'[p]
        /\ Bytes(p) = strm[p] + avail[p] + obuf[e] + left[e]
        /\ Bytes(p)' = strm'[p] + avail'[p] + obuf'[e] + left'[e]
    BY <1>1 DEF Bytes
  <2>2. Backed(e)'
    <3>1. Bytes(e)' = Bytes(e)
      BY <1>2, <2>1
    <3>2. coming'[e] = Tail(coming[e])
      BY <1>2 DEF PipeTypes, SizesGiven
    <3>3. QED
      BY <1>4, <3>1, <3>2 DEF Backed
  <2>3. Backed(p)'
    <3>1. coming'[p] = coming[p]
      BY <1>1, <1>2, <1>3, <1>4 DEF PipeTypes, SizesGiven
    <3>2. Bytes(p)' = Bytes(p)
      BY <1>1, <1>2, <1>3, <1>4, <2>1 DEF PipeTypes, SizesGiven
    <3>3. QED
      BY <3>1, <3>2, SameBacked
  <2>4. QED
    BY <2>2, <2>3
<1>8. QED
  BY <1>1, <1>5, <1>6, <1>7

\* start_data_receive finds bytes, and the session posts at once.
LEMMA RearmReady ==
    ASSUME PipeInv, NEW e \in P!Ends, P!StartDataReceive(e), P!Ready(e)
    PROVE  PipeInv'
<1> USE DEF PipeInv
<1>1. PICK p \in P!Ends : /\ p = P!Peer(e) /\ p # e /\ P!Peer(p) = e
                        /\ \A d \in P!Ends : d = e \/ d = p
  BY Peers
<1>2. /\ handler[e] = "rearm" /\ handler' = [handler EXCEPT ![e] = "posted"]
      /\ waiting' = [waiting EXCEPT ![e] = FALSE]
      /\ UNCHANGED <<manual, strm, capacity, receiver, obuf, avail, noSignal, sender, left, flushing,
                     sent, valid, coming>>
  BY DEF P!StartDataReceive, P!Posted, P!pipes, P!sending
<1>3. strm[e] \in Nat /\ avail[e] \in Nat /\ strm[e] + avail[e] > 0
  BY SMTT(20) DEF PipeTypes, SizesGiven, P!Ready
<1>4. PipeTypes'
  BY <1>1, <1>2, <1>3 DEF PipeTypes, SizesGiven
<1>5. Receiving(e)' /\ Receiving(p)'
  BY <1>1, <1>2, <1>3 DEF PipeTypes, Receiving, P!Signalled
<1>6. Backed(e)' /\ Backed(p)'
  <2>1. /\ Bytes(e) = strm[e] + avail[e] + obuf[p] + left[p]
        /\ Bytes(e)' = strm'[e] + avail'[e] + obuf'[p] + left'[p]
        /\ Bytes(p) = strm[p] + avail[p] + obuf[e] + left[e]
        /\ Bytes(p)' = strm'[p] + avail'[p] + obuf'[e] + left'[e]
    BY <1>1 DEF Bytes
  <2>2. Backed(e)'
    <3>1. coming'[e] = coming[e]
      BY <1>1, <1>2, <1>3 DEF PipeTypes, SizesGiven
    <3>2. Bytes(e)' = Bytes(e)
      BY <1>1, <1>2, <1>3, <2>1 DEF PipeTypes, SizesGiven
    <3>3. QED
      BY <3>1, <3>2, SameBacked
  <2>3. Backed(p)'
    <3>1. coming'[p] = coming[p]
      BY <1>1, <1>2, <1>3 DEF PipeTypes, SizesGiven
    <3>2. Bytes(p)' = Bytes(p)
      BY <1>1, <1>2, <1>3, <2>1 DEF PipeTypes, SizesGiven
    <3>3. QED
      BY <3>1, <3>2, SameBacked
  <2>4. QED
    BY <2>2, <2>3
<1>7. QED
  BY <1>1, <1>4, <1>5, <1>6

\* start_data_receive finds none, and asks for a signal.
LEMMA RearmWaits ==
    ASSUME PipeInv, NEW e \in P!Ends, P!StartDataReceive(e), ~P!Ready(e)
    PROVE  PipeInv'
<1> USE DEF PipeInv
<1>1. PICK p \in P!Ends : /\ p = P!Peer(e) /\ p # e /\ P!Peer(p) = e
                        /\ \A d \in P!Ends : d = e \/ d = p
  BY Peers
<1>2. /\ handler[e] = "rearm" /\ handler' = [handler EXCEPT ![e] = "idle"]
      /\ noSignal' = [noSignal EXCEPT ![e] = FALSE]
      /\ UNCHANGED <<manual, strm, capacity, receiver, obuf, avail, sender, left, flushing, sent, valid,
                     waiting, coming>>
  BY DEF P!StartDataReceive, P!pipes, P!sending
<1>3. strm[e] = 0 /\ avail[e] = 0
  BY SMTT(20) DEF PipeTypes, SizesGiven, P!Ready
<1>4. PipeTypes'
  BY <1>1, <1>2, <1>3 DEF PipeTypes, SizesGiven
<1>5. Receiving(e)' /\ Receiving(p)'
  BY <1>1, <1>2, <1>3 DEF PipeTypes, Receiving, P!Signalled
<1>6. Backed(e)' /\ Backed(p)'
  <2>1. /\ Bytes(e) = strm[e] + avail[e] + obuf[p] + left[p]
        /\ Bytes(e)' = strm'[e] + avail'[e] + obuf'[p] + left'[p]
        /\ Bytes(p) = strm[p] + avail[p] + obuf[e] + left[e]
        /\ Bytes(p)' = strm'[p] + avail'[p] + obuf'[e] + left'[e]
    BY <1>1 DEF Bytes
  <2>2. Backed(e)'
    <3>1. coming'[e] = coming[e]
      BY <1>1, <1>2, <1>3 DEF PipeTypes, SizesGiven
    <3>2. Bytes(e)' = Bytes(e)
      BY <1>1, <1>2, <1>3, <2>1 DEF PipeTypes, SizesGiven
    <3>3. QED
      BY <3>1, <3>2, SameBacked
  <2>3. Backed(p)'
    <3>1. coming'[p] = coming[p]
      BY <1>1, <1>2, <1>3 DEF PipeTypes, SizesGiven
    <3>2. Bytes(p)' = Bytes(p)
      BY <1>1, <1>2, <1>3, <2>1 DEF PipeTypes, SizesGiven
    <3>3. QED
      BY <3>1, <3>2, SameBacked
  <2>4. QED
    BY <2>2, <2>3
<1>7. QED
  BY <1>1, <1>4, <1>5, <1>6

\* The end is closed.
LEMMA ClosesConnection ==
    ASSUME PipeInv, NEW e \in P!Ends, P!CloseConnection(e)
    PROVE  PipeInv'
<1> USE DEF PipeInv
<1>1. PICK p \in P!Ends : /\ p = P!Peer(e) /\ p # e /\ P!Peer(p) = e
                        /\ \A d \in P!Ends : d = e \/ d = p
  BY Peers
<1>2. /\ receiver' = [receiver EXCEPT ![e] = FALSE]
      /\ UNCHANGED <<manual, strm, capacity, obuf, avail, noSignal, sender, left, flushing, sent, valid,
                     waiting, handler, coming>>
  BY DEF P!CloseConnection, P!buffers, P!sending, P!session
<1>3. PipeTypes'
  BY <1>1, <1>2 DEF PipeTypes, SizesGiven
<1>4. Receiving(e)' /\ Receiving(p)'
  BY <1>1, <1>2 DEF PipeTypes, Receiving, P!Signalled
<1>5. Backed(e)' /\ Backed(p)'
  <2>1. /\ Bytes(e) = strm[e] + avail[e] + obuf[p] + left[p]
        /\ Bytes(e)' = strm'[e] + avail'[e] + obuf'[p] + left'[p]
        /\ Bytes(p) = strm[p] + avail[p] + obuf[e] + left[e]
        /\ Bytes(p)' = strm'[p] + avail'[p] + obuf'[e] + left'[e]
    BY <1>1 DEF Bytes
  <2>2. Backed(e)'
    <3>1. coming'[e] = coming[e]
      BY <1>1, <1>2 DEF PipeTypes, SizesGiven
    <3>2. Bytes(e)' = Bytes(e)
      BY <1>1, <1>2, <2>1 DEF PipeTypes, SizesGiven
    <3>3. QED
      BY <3>1, <3>2, SameBacked
  <2>3. Backed(p)'
    <3>1. coming'[p] = coming[p]
      BY <1>1, <1>2 DEF PipeTypes, SizesGiven
    <3>2. Bytes(p)' = Bytes(p)
      BY <1>1, <1>2, <2>1 DEF PipeTypes, SizesGiven
    <3>3. QED
      BY <3>1, <3>2, SameBacked
  <2>4. QED
    BY <2>2, <2>3
<1>6. QED
  BY <1>1, <1>3, <1>4, <1>5

\* The session is closed.
LEMMA ClosesSession ==
    ASSUME PipeInv, NEW e \in P!Ends, P!CloseSession(e)
    PROVE  PipeInv'
<1> USE DEF PipeInv
<1>1. PICK p \in P!Ends : /\ p = P!Peer(e) /\ p # e /\ P!Peer(p) = e
                        /\ \A d \in P!Ends : d = e \/ d = p
  BY Peers
<1>2. /\ valid' = [valid EXCEPT ![e] = FALSE]
      /\ UNCHANGED <<manual, strm, capacity, receiver, obuf, avail, noSignal, sender, left, flushing,
                     sent, waiting, handler, coming>>
  BY DEF P!CloseSession, P!pipes, P!buffers, P!sending
<1>3. PipeTypes'
  BY <1>1, <1>2 DEF PipeTypes, SizesGiven
<1>4. Receiving(e)' /\ Receiving(p)'
  BY <1>1, <1>2 DEF PipeTypes, Receiving, P!Signalled
<1>5. Backed(e)' /\ Backed(p)'
  <2>1. /\ Bytes(e) = strm[e] + avail[e] + obuf[p] + left[p]
        /\ Bytes(e)' = strm'[e] + avail'[e] + obuf'[p] + left'[p]
        /\ Bytes(p) = strm[p] + avail[p] + obuf[e] + left[e]
        /\ Bytes(p)' = strm'[p] + avail'[p] + obuf'[e] + left'[e]
    BY <1>1 DEF Bytes
  <2>2. Backed(e)'
    <3>1. coming'[e] = coming[e]
      BY <1>1, <1>2 DEF PipeTypes, SizesGiven
    <3>2. Bytes(e)' = Bytes(e)
      BY <1>1, <1>2, <2>1 DEF PipeTypes, SizesGiven
    <3>3. QED
      BY <3>1, <3>2, SameBacked
  <2>3. Backed(p)'
    <3>1. coming'[p] = coming[p]
      BY <1>1, <1>2 DEF PipeTypes, SizesGiven
    <3>2. Bytes(p)' = Bytes(p)
      BY <1>1, <1>2, <2>1 DEF PipeTypes, SizesGiven
    <3>3. QED
      BY <3>1, <3>2, SameBacked
  <2>4. QED
    BY <2>2, <2>3
<1>6. QED
  BY <1>1, <1>3, <1>4, <1>5

\* The invariant holds in every state: one step of the proof for each action.
LEMMA PipePreserved ==
    PipeInv /\ [P!Next]_P!vars => PipeInv'
<1> SUFFICES ASSUME PipeInv, [P!Next]_P!vars PROVE PipeInv'
  OBVIOUS
<1>1. ASSUME NEW e \in P!Ends, P!Sync(e) PROVE PipeInv'
  BY <1>1, SyncStep, SyncFails
<1>2. ASSUME NEW e \in P!Ends, P!StartDataReceive(e) PROVE PipeInv'
  BY <1>2, RearmReady, RearmWaits
<1>3. ASSUME NEW e \in P!Ends, P!SenderStep(e) PROVE PipeInv'
  BY <1>1, <1>3, PutStep, SignalStep, EndSendStep DEF P!SenderStep
<1>4. ASSUME NEW e \in P!Ends, P!HandlerStep(e) PROVE PipeInv'
  BY <1>2, <1>4, HandleStep, GetStep, UnderflowStep, EofStep, EndReadStep DEF P!HandlerStep
<1>5. CASE UNCHANGED P!vars
  BY <1>5 DEF PipeInv, PipeTypes, SizesGiven, Receiving, P!Signalled, Backed, Bytes, P!vars, P!pipes,
              P!buffers, P!sending, P!session
<1>6. QED
  BY <1>3, <1>4, <1>5, SendStep, FlushStep, ClosesConnection, ClosesSession DEF P!Next

\* At the start nothing was sent, and both sessions ask for a signal.
LEMMA PipeBegins == P!Init => PipeInv
<1> SUFFICES ASSUME P!Init PROVE PipeInv
  OBVIOUS
<1>1. PipeTypes
  BY Given DEF P!Init, PipeTypes, SizesGiven
<1>2. ASSUME NEW e \in P!Ends PROVE Receiving(e)
  BY Peers DEF P!Init, Receiving, P!Signalled
<1>3. ASSUME NEW e \in P!Ends PROVE Backed(e)
  <2>1. coming[e] = <<>> /\ Bytes(e) = 0
    BY Peers DEF P!Init, Bytes
  <2>2. Backing(<<>>, 0)
    <3>1. Len(<<>>) = 0
      OBVIOUS
    <3>2. SumsUp(<<>>, 0, 0)
      <4> DEFINE f == [i \in Nat |-> 0]
      <4>1. f \in [Nat -> Nat] /\ Sums(f, <<>>, 0) /\ 0 <= f[0]
        BY DEF Sums
      <4>2. QED
        BY <4>1 DEF SumsUp
    <3>3. QED
      BY <3>1, <3>2 DEF Backing
  <2>3. QED
    BY <2>1, <2>2 DEF Backed
<1>4. QED
  BY <1>1, <1>2, <1>3 DEF PipeInv

-----------------------------------------------------------------------------
(* Theorems                                                                 *)

\* The invariant.
LEMMA PipeAlways == P!Spec => []PipeInv
<1>1. P!Init => PipeInv
  BY PipeBegins
<1>2. QED
  BY <1>1, PipePreserved, PTL DEF P!Spec

\* No byte waits unnoticed, whatever the lengths of the messages and the sizes of the buffers:
\* start_data_receive looks at the pipe and at _ibuf before it clears _no_signal, and the sender
\* that then puts bytes into the pipe sets it, under the same mutex.
THEOREM SignalNeverLost == P!Spec => []NoLostSignal
<1>1. PipeInv => NoLostSignal
  BY DEF PipeInv, Receiving, NoLostSignal, Signalled, Ends, Peer, P!Signalled, P!Ends, P!Peer
<1>2. QED
  BY <1>1, PipeAlways, PTL

\* on_data_receive is called once per start_data_receive, of a session that waits, and only when
\* there is data: the assertions on _waiting hold.
THEOREM SignalledOnce == P!Spec => []OneSignal
<1>1. PipeInv => OneSignal
  BY DEF PipeInv, Receiving, OneSignal, Signalled, Ends, Peer, P!Signalled, P!Ends, P!Peer
<1>2. QED
  BY <1>1, PipeAlways, PTL
=============================================================================
