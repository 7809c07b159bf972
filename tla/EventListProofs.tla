--------------------------- MODULE EventListProofs ---------------------------
(***************************************************************************)
(* The lists of EventList stay well linked, and its invocations call the    *)
(* right handlers, for any handlers with any priorities and any threads.    *)
(*                                                                          *)
(* A list is described by the set of its nodes: p_next leads from each to   *)
(* another one or to the end, each but the first is led to by one, and no   *)
(* part of the set is closed under p_next, forwards or backwards, so that   *)
(* no node is on a ring or out of reach.  Each operation on the links is    *)
(* shown to make such sets from such sets.  A walk of invoke is then a list *)
(* of its own, the rest that it has yet to come by.                         *)
(***************************************************************************)
EXTENDS EventList, FiniteSetTheorems, WellFoundedInduction, TLAPS

-----------------------------------------------------------------------------
(* Lists as sets of nodes                                                   *)

\* S has the nodes of the list that begins at f, linked by nx.
List(nx, f, S) ==
    /\ S \subseteq Handlers
    /\ f \in S \union {Null} /\ (f = Null => S = {})
    /\ \A n \in S : nx[n] \in S \union {Null} /\ nx[n] # f
    /\ \A n \in S : n = f \/ \E m \in S : nx[m] = n
    /\ \A m, n \in S : nx[m] = nx[n] /\ nx[m] # Null => m = n
    /\ \A T \in SUBSET S : (\A n \in T : nx[n] \in T) => T = {}
    /\ \A T \in SUBSET S : (\A n \in T : \E m \in T : nx[m] = n) => T = {}

\* A list stays the list of its nodes while their p_next stay.
LEMMA ListSame ==
    ASSUME NEW nx, NEW ny, NEW f, NEW S, List(nx, f, S), \A n \in S : ny[n] = nx[n]
    PROVE  List(ny, f, S)
<1>1. \A T \in SUBSET S : \A n \in T : ny[n] = nx[n]
  OBVIOUS
<1>2. \A T \in SUBSET S : (\A n \in T : ny[n] \in T) => T = {}
  BY <1>1 DEF List
<1>3. \A T \in SUBSET S : (\A n \in T : \E m \in T : ny[m] = n) => T = {}
  BY <1>1 DEF List
<1>4. QED
  BY <1>2, <1>3 DEF List

\* append: a node whose p_next is the first becomes the first.
LEMMA ListPushed ==
    ASSUME NEW nx, NEW ny, NEW f, NEW S, NEW h \in Handlers, List(nx, f, S), h \notin S,
           \A n \in S : ny[n] = nx[n], ny[h] = f
    PROVE  List(ny, h, S \union {h})
<1> DEFINE R == S \union {h}
<1>1. /\ R \subseteq Handlers /\ h \in R /\ h # Null
      /\ \A n \in R : ny[n] \in R \union {Null} /\ ny[n] # h
      /\ \A n \in R : n = h \/ \E m \in R : ny[m] = n
      /\ \A m, n \in R : ny[m] = ny[n] /\ ny[m] # Null => m = n
  BY NullAssumption DEF List
<1>2. ASSUME NEW T \in SUBSET R, \A n \in T : ny[n] \in T PROVE T = {}
  <2>1. T \ {h} \in SUBSET S /\ \A n \in T \ {h} : nx[n] \in T \ {h}
    BY <1>1, <1>2 DEF List
  <2>2. T \ {h} = {}
    BY <2>1 DEF List
  <2>3. QED
    BY <1>1, <1>2, <2>2
<1>3. ASSUME NEW T \in SUBSET R, \A n \in T : \E m \in T : ny[m] = n PROVE T = {}
  <2>1. h \notin T
    BY <1>1, <1>3
  <2>2. T \in SUBSET S /\ \A n \in T : \E m \in T : nx[m] = n
    BY <1>3, <2>1
  <2>3. QED
    BY <2>2 DEF List
<1>4. QED
  BY <1>1, <1>2, <1>3 DEF List

\* flush and the walk of invoke: what follows the first node is the rest of the list.
LEMMA ListPopped ==
    ASSUME NEW nx, NEW ny, NEW h, NEW S, List(nx, h, S), h # Null,
           \A n \in S \ {h} : ny[n] = nx[n]
    PROVE  List(ny, nx[h], S \ {h})
<1> DEFINE R == S \ {h}
           f == nx[h]
<1>1. R \subseteq Handlers /\ h \in S /\ \A n \in S : nx[n] # h
  BY DEF List
<1>2. /\ f \in R \union {Null}
      /\ \A n \in R : ny[n] \in R \union {Null} /\ (f # Null => ny[n] # f)
      /\ \A n \in R : n = f \/ \E m \in R : ny[m] = n
      /\ \A m, n \in R : ny[m] = ny[n] /\ ny[m] # Null => m = n
  BY <1>1 DEF List
<1>3. ASSUME NEW T \in SUBSET R, \A n \in T : ny[n] \in T PROVE T = {}
  <2>1. T \in SUBSET S /\ \A n \in T : nx[n] \in T
    BY <1>3
  <2>2. QED
    BY <2>1 DEF List
<1>4. ASSUME NEW T \in SUBSET R, \A n \in T : \E m \in T : ny[m] = n PROVE T = {}
  <2>1. T \in SUBSET S /\ \A n \in T : \E m \in T : nx[m] = n
    BY <1>4
  <2>2. QED
    BY <2>1 DEF List
<1>5. f = Null => R = {}
  <2>1. SUFFICES ASSUME f = Null PROVE \A n \in R : \E m \in R : ny[m] = n
    BY <1>4
  <2>2. \A n \in R : n # f
    BY <1>1, <2>1, NullAssumption
  <2>3. QED
    BY <1>2, <2>2
<1>6. \A n \in R : f = Null => n \notin R
  BY <1>5
<1>7. QED
  BY <1>1, <1>2, <1>3, <1>4, <1>5, <1>6 DEF List

\* flush: a node put in after another one is in its list.
LEMMA ListInserted ==
    ASSUME NEW nx, NEW ny, NEW f, NEW S, NEW k \in S, NEW h \in Handlers, List(nx, f, S),
           h \notin S, \A n \in S \ {k} : ny[n] = nx[n], ny[k] = h, ny[h] = nx[k]
    PROVE  List(ny, f, S \union {h})
<1> DEFINE R == S \union {h}
<1>1. R \subseteq Handlers /\ f \in R \union {Null} /\ (f = Null => R = {})
  BY DEF List
<1>0. h # Null /\ f # h /\ h # k /\ nx[k] # h
  BY NullAssumption DEF List
<1>2. \A n \in R : ny[n] \in R \union {Null} /\ ny[n] # f
  BY <1>0, <1>1 DEF List
<1>3. \A n \in R : n = f \/ \E m \in R : ny[m] = n
  <2>1. ASSUME NEW n \in S, n # f PROVE \E m \in R : ny[m] = n
    <3>1. PICK m \in S : nx[m] = n
      BY <2>1 DEF List
    <3>2. CASE m = k
      BY <3>1, <3>2
    <3>3. CASE m # k
      BY <3>1, <3>3
    <3>4. QED
      BY <3>2, <3>3
  <2>2. QED
    BY <2>1
<1>4. \A m, n \in R : ny[m] = ny[n] /\ ny[m] # Null => m = n
  <2>1. \A n \in S : nx[n] # h
    BY <1>0, <1>1 DEF List
  <2>2. QED
    BY <1>1, <2>1 DEF List
<1>5. ASSUME NEW T \in SUBSET R, \A n \in T : ny[n] \in T PROVE T = {}
  <2>1. \A n \in T \ {h} : nx[n] \in T \ {h}
    <3>1. SUFFICES ASSUME NEW n \in T \ {h} PROVE nx[n] \in T \ {h}
      OBVIOUS
    <3>2. n \in S /\ nx[n] # h
      BY <1>0, <1>1 DEF List
    <3>3. CASE n = k
      BY <1>5, <3>2, <3>3
    <3>4. CASE n # k
      BY <1>5, <3>2, <3>4
    <3>5. QED
      BY <3>3, <3>4
  <2>2. T \ {h} \in SUBSET S
    OBVIOUS
  <2>4. T \ {h} = {}
    BY <2>1, <2>2 DEF List
  <2>3. h \notin T
    BY <1>0, <1>5, <2>4
  <2>5. QED
    BY <2>3, <2>4
<1>6. ASSUME NEW T \in SUBSET R, \A n \in T : \E m \in T : ny[m] = n PROVE T = {}
  <2>1. \A n \in T \ {h} : \E m \in T \ {h} : nx[m] = n
    <3>1. SUFFICES ASSUME NEW n \in T \ {h} PROVE \E m \in T \ {h} : nx[m] = n
      OBVIOUS
    <3>2. PICK m \in T : ny[m] = n
      BY <1>6
    <3>3. CASE m = h
      <4>1. PICK j \in T : ny[j] = h
        BY <1>6, <3>3
      <4>2. j = k
        <5>1. j # h
          BY <1>0, <4>1
        <5>2. \A q \in S : nx[q] # h
          BY <1>0 DEF List
        <5>3. QED
          BY <4>1, <5>1, <5>2
      <4>3. QED
        BY <1>0, <3>2, <3>3, <4>1, <4>2
    <3>4. CASE m # h
      BY <3>2, <3>4
    <3>5. QED
      BY <3>3, <3>4
  <2>2. T \ {h} \in SUBSET S
    OBVIOUS
  <2>4. T \ {h} = {}
    BY <2>1, <2>2 DEF List
  <2>3. h \notin T
    BY <1>0, <1>6, <2>4
  <2>5. QED
    BY <2>3, <2>4
<1>7. QED
  BY <1>0, <1>1, <1>2, <1>3, <1>4, <1>5, <1>6 DEF List

\* detach: a list without a node that p_next passes by.
LEMMA ListRemoved ==
    ASSUME NEW nx, NEW ny, NEW f, NEW S, NEW h \in S, h # f, NEW p \in S, nx[p] = h, List(nx, f, S),
           \A n \in S \ {p, h} : ny[n] = nx[n], ny[p] = nx[h]
    PROVE  List(ny, f, S \ {h})
<1> DEFINE R == S \ {h}
<1>1. /\ R \subseteq Handlers /\ f \in R /\ h \in Handlers /\ h # Null /\ p # h /\ p \in R
  <2>1. p # h
    <3>1. {h} \in SUBSET S
      OBVIOUS
    <3>2. SUFFICES ASSUME p = h PROVE FALSE
      OBVIOUS
    <3>3. \A n \in {h} : nx[n] \in {h}
      BY <3>2
    <3>4. {h} = {}
      BY <3>1, <3>3 DEF List
    <3>5. QED
      BY <3>4
  <2>2. QED
    BY <2>1, NullAssumption DEF List
<1>2. \A n \in R : nx[n] = h => n = p
  BY <1>1 DEF List
<1>3. nx[h] # h
  <2>1. nx[h] = nx[p] => h = p
    BY <1>1 DEF List
  <2>2. QED
    BY <1>1, <2>1
<1>4. \A n \in R : ny[n] \in R \union {Null} /\ ny[n] # f
  BY <1>1, <1>2, <1>3 DEF List
<1>5. \A n \in R : n = f \/ \E m \in R : ny[m] = n
  <2>1. SUFFICES ASSUME NEW n \in R, n # f PROVE \E m \in R : ny[m] = n
    OBVIOUS
  <2>2. PICK m \in S : nx[m] = n
    BY <2>1 DEF List
  <2>3. CASE m = h
    BY <1>1, <2>2, <2>3
  <2>4. CASE m # h
    BY <1>1, <2>1, <2>2, <2>4
  <2>5. QED
    BY <2>3, <2>4
<1>6. \A m, n \in R : ny[m] = ny[n] /\ ny[m] # Null => m = n
  BY <1>1, <1>2 DEF List
<1>7. ASSUME NEW T \in SUBSET R, \A n \in T : ny[n] \in T PROVE T = {}
  <2>1. CASE p \in T
    <3>1. T \union {h} \in SUBSET S /\ \A n \in T \union {h} : nx[n] \in T \union {h}
      BY <1>1, <1>7, <2>1
    <3>2. T \union {h} = {}
      BY <3>1 DEF List
    <3>3. QED
      BY <3>2
  <2>2. CASE p \notin T
    <3>1. T \in SUBSET S /\ \A n \in T : nx[n] \in T
      BY <1>7, <2>2
    <3>2. QED
      BY <3>1 DEF List
  <2>3. QED
    BY <2>1, <2>2
<1>8. ASSUME NEW T \in SUBSET R, \A n \in T : \E m \in T : ny[m] = n PROVE T = {}
  <2>1. CASE p \in T
    <3>1. T \union {h} \in SUBSET S /\ \A n \in T \union {h} : \E m \in T \union {h} : nx[m] = n
      <4>1. SUFFICES ASSUME NEW n \in T, n # h PROVE \E m \in T \union {h} : nx[m] = n
        BY <2>1
      <4>2. PICK m \in T : ny[m] = n
        BY <1>8
      <4>3. CASE m = p
        BY <4>2, <4>3
      <4>4. CASE m # p
        BY <4>2, <4>4
      <4>5. QED
        BY <4>3, <4>4
    <3>2. T \union {h} = {}
      BY <3>1 DEF List
    <3>3. QED
      BY <3>2
  <2>2. CASE p \notin T
    <3>1. T \in SUBSET S /\ \A n \in T : \E m \in T : nx[m] = n
      BY <1>8, <2>2
    <3>2. QED
      BY <3>1 DEF List
  <2>3. QED
    BY <2>1, <2>2
<1>9. QED
  BY <1>1, <1>4, <1>5, <1>6, <1>7, <1>8 DEF List

-----------------------------------------------------------------------------
(* Induction over numbers and walks, for sets                               *)

\* A set of naturals that has 0 and with each number the next one has all.
LEMMA SetInduction ==
    ASSUME NEW S, 0 \in S, \A n \in Nat : n \in S => n + 1 \in S
    PROVE  \A n \in Nat : n \in S
<1> DEFINE U == Nat \ S
<1>1. SUFFICES ASSUME U # {} PROVE FALSE
  OBVIOUS
<1>2. IsWellFoundedOn(OpToRel(<, Nat), Nat)
  BY NatLessThanWellFounded
<1>3. PICK n \in U : \A m \in U : ~(<<m, n>> \in OpToRel(<, Nat))
  BY <1>1, <1>2, WFMin
<1>4. \A m \in U : ~(m < n)
  BY <1>3 DEF OpToRel
<1>5. n # 0 /\ n - 1 \in Nat /\ (n - 1) + 1 = n
  OBVIOUS
<1>6. n - 1 \notin S
  BY <1>5
<1>7. n - 1 \in U
  BY <1>5, <1>6
<1>8. QED
  BY <1>4, <1>7

\* A function may be applied any number of times.
Iterable(X, F, x, k) ==
    \E g \in [0 .. k -> X] : g[0] = x /\ \A i \in 1 .. k : g[i] = F[g[i - 1]]
\* There is a function that lists the results, as the loop of flush computes them one by one.
LEMMA Iterated ==
    ASSUME NEW X, NEW F, F \in [X -> X], NEW x, x \in X, NEW k \in Nat
    PROVE  Iterable(X, F, x, k)
<1> DEFINE Runs(n, g) == g[0] = x /\ \A i \in 1 .. n : g[i] = F[g[i - 1]]
           S == {n \in Nat : \E g \in [0 .. n -> X] : Runs(n, g)}
<1>1. 0 \in S
  <2>1. [i \in 0 .. 0 |-> x] \in [0 .. 0 -> X] /\ Runs(0, [i \in 0 .. 0 |-> x])
    OBVIOUS
  <2>2. QED
    BY <2>1
<1>2. ASSUME NEW n \in Nat, n \in S PROVE n + 1 \in S
  <2>1. PICK g \in [0 .. n -> X] : Runs(n, g)
    BY <1>2
  <2> DEFINE e == [i \in 0 .. n + 1 |-> IF i = n + 1 THEN F[g[n]] ELSE g[i]]
  <2>2. g[n] \in X
    OBVIOUS
  <2>3. e \in [0 .. n + 1 -> X]
    BY <2>2
  <2>4. e[0] = x
    BY <2>1
  <2>5. ASSUME NEW i \in 1 .. n + 1 PROVE e[i] = F[e[i - 1]]
    BY <2>1
  <2>6. Runs(n + 1, e) /\ n + 1 \in Nat
    BY <2>4, <2>5
  <2> HIDE DEF e, Runs
  <2>7. QED
    BY <2>3, <2>6
<1>3. \A n \in Nat : n \in S
  <2> HIDE DEF S
  <2>1. QED
    BY <1>1, <1>2, SetInduction
<1>4. QED
  BY <1>3 DEF Iterable

\* ny leads from each handler of G to a handler, and never back.
Leads(nx, G) ==
    /\ G \subseteq Handlers /\ \A n \in G : nx[n] \in Handlers
    /\ \A T \in SUBSET G : (\A n \in T : nx[n] \in T) => T = {}

\* g[n] is where a walk from n ends.
Ends(nx, G, g) == g = [n \in Handlers |-> IF n \in G THEN g[nx[n]] ELSE n]

\* The search for a place stays among the handlers that p_next leads to.
LEMMA EndsIn ==
    ASSUME NEW nx, NEW G, NEW g, Leads(nx, G), Ends(nx, G, g),
           NEW S \in SUBSET Handlers, \A n \in S \intersect G : nx[n] \in S
    PROVE  \A n \in S : g[n] \in S
<1> DEFINE T == {n \in S : g[n] \notin S}
<1>1. \A n \in S : g[n] = IF n \in G THEN g[nx[n]] ELSE n
  BY DEF Ends
<1>2. T \in SUBSET G /\ \A n \in T : nx[n] \in T
  BY <1>1
<1>3. T = {}
  BY <1>2 DEF Leads
<1>4. QED
  BY <1>3

\* The search of flush for a place ends, from each handler, where it need not go on.
LEMMA EndsExist ==
    ASSUME NEW nx, NEW G, Leads(nx, G)
    PROVE  \E g : Ends(nx, G, g)
<1> DEFINE Some(R, g) == \A n \in R : IF n \in G THEN nx[n] \in R /\ g[n] = g[nx[n]]
                                      ELSE g[n] = n
           Has(n, v) == \E R \in SUBSET Handlers : \E g \in [R -> Handlers] :
                            n \in R /\ Some(R, g) /\ v = g[n]
           T == {n \in Handlers : \A v \in Handlers : ~Has(n, v)}
\* Two walks from one handler end alike.
<1>1. ASSUME NEW n \in Handlers, NEW v \in Handlers, NEW w \in Handlers, Has(n, v), Has(n, w)
      PROVE  v = w
  <2>1. PICK R \in SUBSET Handlers : \E g \in [R -> Handlers] : n \in R /\ Some(R, g) /\ v = g[n]
    BY <1>1
  <2>2. PICK g \in [R -> Handlers] : n \in R /\ Some(R, g) /\ v = g[n]
    BY <2>1
  <2>3. PICK Q \in SUBSET Handlers : \E e \in [Q -> Handlers] : n \in Q /\ Some(Q, e) /\ w = e[n]
    BY <1>1
  <2>4. PICK e \in [Q -> Handlers] : n \in Q /\ Some(Q, e) /\ w = e[n]
    BY <2>3
  <2> DEFINE D == {m \in R \intersect Q : g[m] # e[m]}
  <2>5. D \in SUBSET G /\ \A m \in D : nx[m] \in D
    BY <2>2, <2>4
  <2>6. D = {}
    BY <2>5 DEF Leads
  <2>7. QED
    BY <2>2, <2>4, <2>6
\* There is one from each.
<1>2. ASSUME NEW n \in Handlers, n \notin G PROVE Has(n, n)
  <2> DEFINE g == [m \in {n} |-> n]
  <2>1. {n} \in SUBSET Handlers /\ g \in [{n} -> Handlers] /\ n \in {n} /\ Some({n}, g) /\ n = g[n]
    BY <1>2
  <2>2. QED
    BY <2>1
<1>3. ASSUME NEW n \in G, NEW v \in Handlers, Has(nx[n], v) PROVE Has(n, v)
  <2>1. PICK R \in SUBSET Handlers : \E g \in [R -> Handlers] :
                 nx[n] \in R /\ Some(R, g) /\ v = g[nx[n]]
    BY <1>3
  <2>2. PICK g \in [R -> Handlers] : nx[n] \in R /\ Some(R, g) /\ v = g[nx[n]]
    BY <2>1
  <2> DEFINE Q == R \union {n}
             e == [m \in Q |-> IF m = n THEN v ELSE g[m]]
  <2>3. Q \in SUBSET Handlers /\ e \in [Q -> Handlers] /\ n \in Q /\ v = e[n]
    BY DEF Leads
  <2>4. nx[n] # n
    <3>1. SUFFICES ASSUME nx[n] = n PROVE FALSE
      OBVIOUS
    <3>2. {n} \in SUBSET G /\ \A m \in {n} : nx[m] \in {n}
      BY <3>1
    <3>3. {n} = {}
      BY <3>2 DEF Leads
    <3>4. QED
      BY <3>3
  <2>5. ASSUME NEW m \in Q, m \in G PROVE nx[m] \in Q /\ e[m] = e[nx[m]]
    <3>1. CASE m = n
      BY <2>2, <2>4, <3>1
    <3>2. CASE m # n /\ nx[m] # n
      BY <2>2, <2>5, <3>2
    <3>3. CASE m # n /\ nx[m] = n
      <4>1. n \in R /\ g[m] = g[n]
        BY <2>2, <2>5, <3>3
      <4>2. g[n] = v
        BY <2>2, <4>1
      <4>3. QED
        BY <3>3, <4>1, <4>2
    <3>4. QED
      BY <3>1, <3>2, <3>3
  <2>6. ASSUME NEW m \in Q, m \notin G PROVE e[m] = m
    BY <2>2, <2>6
  <2>7. Some(Q, e)
    BY <2>5, <2>6
  <2>8. QED
    BY <2>3, <2>7
<1> HIDE DEF Has
<1>4. T \in SUBSET G /\ \A n \in T : nx[n] \in T
  <2>1. T \in SUBSET G
    BY <1>2
  <2>2. QED
    BY <1>3, <2>1 DEF Leads
<1>5. T = {}
  BY <1>4 DEF Leads
<1> DEFINE g == [n \in Handlers |-> CHOOSE v \in Handlers : Has(n, v)]
<1>6. \A n \in Handlers : g[n] \in Handlers /\ Has(n, g[n])
  BY <1>5
<1>7. \A n \in Handlers : \A v \in Handlers : Has(n, v) => g[n] = v
  BY <1>1, <1>6
<1>8. \A n \in Handlers : g[n] = IF n \in G THEN g[nx[n]] ELSE n
  <2> HIDE DEF g
  <2>1. QED
    BY <1>2, <1>3, <1>6, <1>7 DEF Leads
<1>9. Ends(nx, G, g)
  BY <1>8 DEF Ends
<1>10. QED
  BY <1>9

-----------------------------------------------------------------------------
(* Chain and At                                                             *)

\* A list has no more nodes.
N == Cardinality(Handlers)

\* Chain, for any links.
Following(nx, T) == T \union ({nx[n] : n \in T} \ {Null})

\* r[i] is what i times p_next leads to, from f.
Grows(nx, f, r) ==
    r = [i \in 0 .. N |-> IF i = 0 THEN {f} \ {Null} ELSE Following(nx, r[i - 1])]
ChainOf(nx, f) == (CHOOSE r : Grows(nx, f, r))[N]

\* What the walk of invoke comes by from a node is what p_next leads to.
LEMMA ChainIsChainOf ==
    ASSUME NEW f
    PROVE  Chain(f) = ChainOf(next, f)
BY DEF Chain, ChainOf, Grows, Following, N

\* There are so many nodes.
LEMMA NType == N \in Nat
BY HandlersAssumption, FS_CardinalityType DEF N

\* One more p_next from each of some nodes of a list stays in the list.
LEMMA ListFollowing ==
    ASSUME NEW nx, NEW f, NEW S, List(nx, f, S), NEW T \in SUBSET S
    PROVE  /\ Following(nx, T) \in SUBSET S
           /\ (\A n \in T : nx[n] \in T \union {Null}) => Following(nx, T) = T
           /\ \A n \in T : nx[n] \in Following(nx, T) \union {Null}
BY DEF List, Following

\* The chain of a list has its nodes.
LEMMA ChainOfList ==
    ASSUME NEW nx, NEW f, NEW S, List(nx, f, S)
    PROVE  ChainOf(nx, f) = S
<1> DEFINE X == SUBSET S
           F == [T \in X |-> Following(nx, T)]
           x == {f} \ {Null}
<1>1. F \in [X -> X] /\ x \in X
  <2>1. \A T \in X : Following(nx, T) \in X
    BY ListFollowing
  <2>2. x \in X
    BY DEF List
  <2>3. QED
    BY <2>1, <2>2
<1>2. PICK g \in [0 .. N -> X] : g[0] = x /\ \A i \in 1 .. N : g[i] = F[g[i - 1]]
  <2> HIDE DEF X, F, x
  <2>1. Iterable(X, F, x, N)
    BY <1>1, NType, Iterated
  <2>2. QED
    BY <2>1 DEF Iterable
<1>3. Grows(nx, f, g)
  <2>1. \A i \in 1 .. N : i - 1 \in 0 .. N
    BY NType
  <2>2. \A i \in 1 .. N : g[i] = Following(nx, g[i - 1])
    BY <1>2, <2>1
  <2>3. \A i \in 0 .. N : i # 0 => i \in 1 .. N
    BY NType
  <2>4. \A i \in 0 .. N : g[i] = IF i = 0 THEN {f} \ {Null} ELSE Following(nx, g[i - 1])
    BY <1>2, <2>2, <2>3
  <2>5. QED
    BY <2>4 DEF Grows
<1> DEFINE r == CHOOSE r : Grows(nx, f, r)
<1>4. Grows(nx, f, r)
  BY <1>3
<1> HIDE DEF r
<1>5. r[0] = x /\ \A i \in Nat : i + 1 <= N => r[i + 1] = Following(nx, r[i])
  <2>1. 0 \in 0 .. N /\ \A i \in Nat : i + 1 <= N => i + 1 \in 0 .. N /\ i + 1 # 0 /\ (i + 1) - 1 = i
    BY NType
  <2>2. QED
    BY <1>4, <2>1 DEF Grows
<1> DEFINE Full(T) == \A n \in T : nx[n] \in T \union {Null}
           Good(i) == /\ r[i] \in X /\ x \subseteq r[i]
                      /\ Full(r[i]) \/ Cardinality(r[i]) >= i + 1
           P == {i \in Nat : i <= N => Good(i)}
<1>6. IsFiniteSet(S) /\ Cardinality(S) <= N /\ \A T \in X : IsFiniteSet(T) /\ Cardinality(T) \in Nat
  BY HandlersAssumption, FS_Subset, FS_CardinalityType DEF List, N
<1>7. 0 \in P
  <2>1. CASE f = Null
    BY <1>1, <1>5, <2>1
  <2>2. CASE f # Null
    <3>1. x = {f} /\ Cardinality({f}) = 1
      BY <2>2, FS_Singleton
    <3>2. r[0] = {f} /\ {f} \in X
      BY <1>1, <1>5, <3>1
    <3>3. Cardinality(r[0]) >= 0 + 1
      BY <3>1, <3>2
    <3>4. QED
      BY <3>1, <3>2, <3>3
  <2>3. QED
    BY <2>1, <2>2
<1>8. ASSUME NEW i \in Nat, i \in P PROVE i + 1 \in P
  <2>1. SUFFICES ASSUME i + 1 <= N PROVE Good(i + 1)
    BY NType
  <2>2. Good(i) /\ r[i + 1] = Following(nx, r[i])
    BY <1>5, <1>8, <2>1, NType
  <2>3. r[i + 1] \in X /\ x \subseteq r[i + 1]
    BY <2>2, ListFollowing DEF Following
  <2>4. CASE Full(r[i])
    <3>1. r[i + 1] = r[i]
      BY <2>2, <2>4, ListFollowing
    <3>2. QED
      BY <2>3, <2>4, <3>1
  <2>5. CASE ~Full(r[i])
    <3>1. PICK n \in r[i] : nx[n] \notin r[i] \union {Null}
      BY <2>5
    <3>2. r[i] \union {nx[n]} \subseteq r[i + 1]
      BY <2>2, <2>3, <3>1 DEF Following
    <3>3. Cardinality(r[i] \union {nx[n]}) = Cardinality(r[i]) + 1
      <4>1. IsFiniteSet(r[i]) /\ nx[n] \notin r[i]
        BY <1>6, <2>2, <3>1
      <4> HIDE DEF Good, X
      <4>2. QED
        BY <4>1, FS_AddElement
    <3>4. Cardinality(r[i] \union {nx[n]}) <= Cardinality(r[i + 1])
      BY <1>6, <2>3, <3>2, FS_Subset
    <3>5. Cardinality(r[i]) \in Nat /\ Cardinality(r[i + 1]) \in Nat
      BY <1>6, <2>2, <2>3
    <3>6. Cardinality(r[i + 1]) >= (i + 1) + 1
      BY <2>2, <2>5, <3>3, <3>4, <3>5
    <3>7. QED
      BY <2>3, <3>6
  <2>6. QED
    BY <2>4, <2>5
<1>9. Good(N)
  <2>1. \A i \in Nat : i \in P
    <3> HIDE DEF P
    <3>1. QED
      BY <1>7, <1>8, SetInduction
  <2>2. QED
    BY <2>1, NType
<1> DEFINE C == r[N]
           T == S \ C
<1>10. Full(C)
  <2>1. Cardinality(C) <= Cardinality(S) /\ Cardinality(C) \in Nat /\ Cardinality(S) \in Nat
    BY <1>6, <1>9, FS_Subset
  <2>2. QED
    BY <1>6, <1>9, <2>1, NType
<1>11. \A n \in T : \E m \in T : nx[m] = n
  <2>1. SUFFICES ASSUME NEW n \in T PROVE \E m \in T : nx[m] = n
    OBVIOUS
  <2>2. n # f /\ n # Null
    BY <1>9, NullAssumption DEF List
  <2>3. PICK m \in S : nx[m] = n
    BY <2>2 DEF List
  <2>4. m \notin C
    BY <1>10, <2>2, <2>3
  <2>5. QED
    BY <2>3, <2>4
<1>12. T = {}
  BY <1>11 DEF List
<1>13. C = S
  BY <1>9, <1>12
<1>14. QED
  BY <1>13 DEF ChainOf, r

\* The handlers that a walk to the place of a new one leaves behind.
Higher(l, p) == {n \in Handlers : Priority[n] > p /\ l.next[n] # Null}

\* The place that flush finds for a new node is in the list.
LEMMA AtIs ==
    ASSUME NEW l, NEW p, NEW S, Leads(l.next, Higher(l, p)), l.front \in S,
           S \subseteq Handlers, \A n \in S : l.next[n] \in S \union {Null}
    PROVE  At(l, p) \in S
<1> DEFINE G == Higher(l, p)
           g == CHOOSE g : Ends(l.next, G, g)
<1>1. Ends(l.next, G, g)
  BY EndsExist
<1>2. At(l, p) = g[l.front]
  BY DEF At, Ends, Higher
<1> HIDE DEF g
<1>3. \A n \in S \intersect G : l.next[n] \in S
  BY DEF Higher
<1>4. \A n \in S : g[n] \in S
  BY <1>1, <1>3, EndsIn
<1>5. QED
  BY <1>2, <1>4

-----------------------------------------------------------------------------
(* The two lists, append and detach                                         *)

\* front, newFront, next and prev of EventList
Links == [front : Handlers \union {Null}, newFront : Handlers \union {Null},
          next : [Handlers -> Handlers \union {Null}], prev : [Handlers -> Handlers \union {Null}]]

\* The nodes M are sorted in, the nodes W are new, and all others are linked to nothing.
Two(l, M, W) ==
    /\ l \in Links
    /\ List(l.next, l.front, M) /\ List(l.next, l.newFront, W) /\ M \intersect W = {}
    /\ \A n \in Handlers \ (M \union W) : l.next[n] = Null /\ l.prev[n] = Null

\* p_prev of the nodes of S is the inverse of p_next.
Back(l, S) ==
    \A n \in S : IF l.prev[n] = Null THEN \A m \in Handlers : l.next[m] # n
                 ELSE l.next[l.prev[n]] = n

\* What two lists have in common.
LEMMA TwoLists ==
    ASSUME NEW l, NEW M, NEW W, Two(l, M, W)
    PROVE  /\ M \subseteq Handlers /\ W \subseteq Handlers
           /\ \A n \in M : l.next[n] \in M \union {Null}
           /\ \A n \in W : l.next[n] \in W \union {Null}
           /\ l.front # Null => l.front \in M
           /\ l.newFront # Null => l.newFront \in W
           /\ \A m, n \in Handlers : l.next[m] = l.next[n] /\ l.next[m] # Null => m = n
           /\ \A m \in Handlers : l.next[m] # Null => l.next[m] \notin {l.front, l.newFront}
           /\ \A m \in Handlers : l.next[m] # m
<1>1. /\ M \subseteq Handlers /\ W \subseteq Handlers
      /\ \A n \in M : l.next[n] \in M \union {Null}
      /\ \A n \in W : l.next[n] \in W \union {Null}
      /\ l.front # Null => l.front \in M
      /\ l.newFront # Null => l.newFront \in W
  BY DEF Two, List
<1>2. \A m, n \in Handlers : l.next[m] = l.next[n] /\ l.next[m] # Null => m = n
  <2>1. SUFFICES ASSUME NEW m \in Handlers, NEW n \in Handlers, l.next[m] = l.next[n], l.next[m] # Null
                 PROVE  m = n
    OBVIOUS
  <2>2. m \in M \union W /\ n \in M \union W
    BY <2>1 DEF Two
  <2>3. (m \in M <=> n \in M) /\ (m \in W <=> n \in W)
    BY <1>1, <2>1, <2>2 DEF Two
  <2>4. CASE m \in M
    BY <2>1, <2>3, <2>4 DEF Two, List
  <2>5. CASE m \in W
    BY <2>1, <2>3, <2>5 DEF Two, List
  <2>6. QED
    BY <2>2, <2>4, <2>5
<1>3. \A m \in Handlers : l.next[m] # Null => l.next[m] \notin {l.front, l.newFront}
  <2>1. \A m \in M : l.next[m] # Null => l.next[m] # l.front /\ l.next[m] # l.newFront
    BY <1>1 DEF Two, List
  <2>2. \A m \in W : l.next[m] # Null => l.next[m] # l.front /\ l.next[m] # l.newFront
    BY <1>1 DEF Two, List
  <2>3. QED
    BY <2>1, <2>2 DEF Two
<1>4. ASSUME NEW m \in Handlers, l.next[m] = m PROVE FALSE
  <2>1. m # Null /\ m \in M \union W
    BY <1>4, NullAssumption DEF Two
  <2>2. \A n \in {m} : l.next[n] \in {m}
    BY <1>4
  <2>3. CASE m \in M
    <3>1. {m} \in SUBSET M
      BY <2>3
    <3>2. {m} = {}
      BY <2>2, <3>1 DEF Two, List
    <3>3. QED
      BY <3>2
  <2>4. CASE m \in W
    <3>1. {m} \in SUBSET W
      BY <2>4
    <3>2. {m} = {}
      BY <2>2, <3>1 DEF Two, List
    <3>3. QED
      BY <3>2
  <2>5. QED
    BY <2>1, <2>3, <2>4
<1>5. QED
  BY <1>1, <1>2, <1>3, <1>4

\* append
Appended(l, h) ==
    [front |-> l.front, newFront |-> h, next |-> [l.next EXCEPT ![h] = l.newFront],
     prev |-> [n \in Handlers |-> IF n = l.newFront THEN h ELSE l.prev[n]]]

\* append puts a node into the list of new ones, and leaves the others as they are.
LEMMA AppendKeeps ==
    ASSUME NEW l, NEW M, NEW W, Two(l, M, W), Back(l, Handlers),
           NEW h \in Handlers, h \notin M \union W
    PROVE  /\ Two(Appended(l, h), M, W \union {h}) /\ Back(Appended(l, h), Handlers)
           /\ \A n \in M \union W : Appended(l, h).next[n] = l.next[n]
<1> DEFINE e == Appended(l, h)
<1>1. /\ e \in Links /\ e.front = l.front /\ e.newFront = h
      /\ e.next[h] = l.newFront /\ \A n \in Handlers \ {h} : e.next[n] = l.next[n]
      /\ \A n \in Handlers : e.prev[n] = IF n = l.newFront THEN h ELSE l.prev[n]
  BY DEF Appended, Two, Links
<1> HIDE DEF e
<1>2. \A n \in M \union W : e.next[n] = l.next[n]
  BY <1>1, TwoLists
<1>3. List(e.next, e.front, M)
  <2>1. List(e.next, l.front, M)
    BY <1>2, ListSame DEF Two
  <2>2. QED
    BY <1>1, <2>1
<1>4. List(e.next, e.newFront, W \union {h})
  <2>1. List(e.next, h, W \union {h})
    BY <1>1, <1>2, ListPushed DEF Two
  <2>2. QED
    BY <1>1, <2>1
<1>5. \A n \in Handlers \ (M \union (W \union {h})) : e.next[n] = Null /\ e.prev[n] = Null
  <2>1. SUFFICES ASSUME NEW n \in Handlers, n \notin M, n \notin W, n # h
                 PROVE  e.next[n] = Null /\ e.prev[n] = Null
    OBVIOUS
  <2>2. l.next[n] = Null /\ l.prev[n] = Null
    BY <2>1 DEF Two
  <2>3. n # l.newFront
    BY <2>1, TwoLists, NullAssumption
  <2>4. QED
    BY <1>1, <2>1, <2>2, <2>3
<1>6. Two(e, M, W \union {h})
  BY <1>1, <1>3, <1>4, <1>5 DEF Two
<1>7. Back(e, Handlers)
  <2>1. SUFFICES ASSUME NEW n \in Handlers
                 PROVE  IF e.prev[n] = Null THEN \A m \in Handlers : e.next[m] # n
                        ELSE e.next[e.prev[n]] = n
    BY DEF Back
  <2>2. CASE n = l.newFront
    BY <1>1, <2>2, NullAssumption
  <2>3. CASE n # l.newFront /\ l.prev[n] = Null
    BY <1>1, <2>3 DEF Back
  <2>4. CASE n # l.newFront /\ l.prev[n] # Null
    <3>1. l.prev[n] \in Handlers /\ l.next[l.prev[n]] = n /\ n # Null
      BY <2>4, NullAssumption DEF Back, Two, Links
    <3>2. l.prev[n] # h
      BY <3>1 DEF Two
    <3>3. QED
      BY <1>1, <2>4, <3>1, <3>2
  <2>5. QED
    BY <2>2, <2>3, <2>4
<1>8. QED
  BY <1>2, <1>6, <1>7 DEF e
\* if_entity::detach of a node that is in a list.
LEMMA UnlinkedIs ==
    ASSUME NEW l, NEW h \in Handlers, l \in Links
    PROVE  /\ Unlinked(l, h) \in Links
           /\ Unlinked(l, h).front = IF l.newFront # h /\ l.front = h THEN l.next[h] ELSE l.front
           /\ Unlinked(l, h).newFront = IF l.newFront = h THEN l.next[h] ELSE l.newFront
           /\ Unlinked(l, h).next[h] = Null /\ Unlinked(l, h).prev[h] = Null
           /\ \A n \in Handlers \ {h} :
                /\ Unlinked(l, h).next[n] = IF n = l.prev[h] THEN l.next[h] ELSE l.next[n]
                /\ Unlinked(l, h).prev[n] = IF n = l.next[h] THEN l.prev[h] ELSE l.prev[n]
BY DEF Unlinked, Links

\* A part of a list that reaches to its end keeps its other nodes.
LEMMA RestUnlinked ==
    ASSUME NEW l, NEW M, NEW W, Two(l, M, W), Back(l, Handlers),
           NEW h \in M \union W, NEW f, NEW Z, List(l.next, f, Z), h # f
    PROVE  List(Unlinked(l, h).next, f, Z \ {h})
<1> DEFINE e == Unlinked(l, h)
<1>1. h \in Handlers /\ Z \subseteq Handlers /\ l \in Links
  BY TwoLists DEF List, Two
<1>2. /\ e.next[h] = Null
      /\ \A n \in Handlers \ {h} : e.next[n] = IF n = l.prev[h] THEN l.next[h] ELSE l.next[n]
  BY <1>1, UnlinkedIs
<1> HIDE DEF e
<1>3. CASE h \notin Z
  <2>1. \A n \in Z : l.next[n] # h
    BY <1>1, <1>3, NullAssumption DEF List
  <2>2. \A n \in Z : n # l.prev[h]
    BY <1>1, <2>1, NullAssumption DEF Back
  <2>3. \A n \in Z : e.next[n] = l.next[n]
    BY <1>1, <1>2, <1>3, <2>2
  <2>4. List(e.next, f, Z)
    BY <2>3, ListSame
  <2>5. Z \ {h} = Z
    BY <1>3
  <2>6. QED
    BY <2>4, <2>5 DEF e
<1>4. CASE h \in Z
  <2>1. PICK p \in Z : l.next[p] = h
    BY <1>4 DEF List
  <2>2. l.prev[h] = p
    <3>1. l.prev[h] # Null
      BY <1>1, <2>1 DEF Back
    <3>2. l.prev[h] \in Handlers /\ l.next[l.prev[h]] = h
      BY <1>1, <3>1 DEF Back, Links
    <3>3. h # Null
      BY <1>1, NullAssumption
    <3>4. QED
      BY <1>1, <2>1, <3>2, <3>3, TwoLists
  <2>3. p # h
    BY <1>1, <2>1, TwoLists
  <2>4. e.next[p] = l.next[h] /\ \A n \in Z \ {p, h} : e.next[n] = l.next[n]
    BY <1>1, <1>2, <2>2, <2>3
  <2>5. List(e.next, f, Z \ {h})
    BY <1>4, <2>1, <2>4, ListRemoved
  <2>6. QED
    BY <2>5 DEF e
<1>5. QED
  BY <1>3, <1>4

\* The first node of a list goes.
LEMMA FirstUnlinked ==
    ASSUME NEW l, NEW M, NEW W, Two(l, M, W), Back(l, Handlers),
           NEW h \in M \union W, NEW Z, List(l.next, h, Z)
    PROVE  List(Unlinked(l, h).next, l.next[h], Z \ {h})
<1> DEFINE e == Unlinked(l, h)
<1>1. h \in Handlers /\ h # Null /\ Z \subseteq Handlers
  BY TwoLists, NullAssumption DEF List
<1>2. \A n \in Handlers \ {h} : e.next[n] = IF n = l.prev[h] THEN l.next[h] ELSE l.next[n]
  BY <1>1, UnlinkedIs DEF Two
<1> HIDE DEF e
<1>3. \A n \in Z : l.next[n] # h
  BY DEF List
<1>4. \A n \in Z : n # l.prev[h]
  BY <1>1, <1>3, NullAssumption DEF Back
<1>5. \A n \in Z \ {h} : e.next[n] = l.next[n]
  BY <1>1, <1>2, <1>4
<1>6. List(e.next, l.next[h], Z \ {h})
  BY <1>1, <1>5, ListPopped
<1>7. QED
  BY <1>6 DEF e

\* detach takes a node out of its list and leaves both lists well linked.
LEMMA UnlinkKeeps ==
    ASSUME NEW l, NEW M, NEW W, Two(l, M, W), Back(l, Handlers), NEW h \in M \union W
    PROVE  Two(Unlinked(l, h), M \ {h}, W \ {h}) /\ Back(Unlinked(l, h), Handlers)
<1> DEFINE e == Unlinked(l, h)
<1>1. h \in Handlers /\ h # Null /\ l \in Links
  <2>1. M \subseteq Handlers /\ W \subseteq Handlers
    BY TwoLists
  <2>2. QED
    BY <2>1, NullAssumption DEF Two
<1>2. /\ e \in Links /\ e.next[h] = Null /\ e.prev[h] = Null
      /\ e.front = IF l.newFront # h /\ l.front = h THEN l.next[h] ELSE l.front
      /\ e.newFront = IF l.newFront = h THEN l.next[h] ELSE l.newFront
      /\ \A n \in Handlers \ {h} :
           /\ e.next[n] = IF n = l.prev[h] THEN l.next[h] ELSE l.next[n]
           /\ e.prev[n] = IF n = l.next[h] THEN l.prev[h] ELSE l.prev[n]
  BY <1>1, UnlinkedIs
<1>3. List(e.next, e.front, M \ {h})
  <2>0. List(l.next, l.front, M) /\ (l.newFront = h => l.front # h)
    BY <1>1, TwoLists DEF Two
  <2>1. CASE h = l.front
    <3>1. List(e.next, l.next[h], M \ {h}) /\ e.front = l.next[h]
      BY <1>2, <2>0, <2>1, FirstUnlinked
    <3>2. QED
      BY <3>1
  <2>2. CASE h # l.front
    <3>1. List(e.next, l.front, M \ {h}) /\ e.front = l.front
      BY <1>2, <2>0, <2>2, RestUnlinked
    <3>2. QED
      BY <3>1
  <2>3. QED
    BY <2>1, <2>2
<1>4. List(e.next, e.newFront, W \ {h})
  <2>0. List(l.next, l.newFront, W)
    BY DEF Two
  <2>1. CASE h = l.newFront
    <3>1. List(e.next, l.next[h], W \ {h}) /\ e.newFront = l.next[h]
      BY <1>2, <2>0, <2>1, FirstUnlinked
    <3>2. QED
      BY <3>1
  <2>2. CASE h # l.newFront
    <3>1. List(e.next, l.newFront, W \ {h}) /\ e.newFront = l.newFront
      BY <1>2, <2>0, <2>2, RestUnlinked
    <3>2. QED
      BY <3>1
  <2>3. QED
    BY <2>1, <2>2
<1> HIDE DEF e
<1>5. ASSUME NEW n \in Handlers \ ((M \ {h}) \union (W \ {h})) PROVE e.next[n] = Null /\ e.prev[n] = Null
  <2>1. CASE n = h
    BY <1>2, <2>1
  <2>2. CASE n # h
    <3>1. l.next[n] = Null /\ l.prev[n] = Null
      BY <2>2 DEF Two
    <3>2. l.next[h] # n
      BY <2>2, NullAssumption, TwoLists
    <3>3. n # l.prev[h]
      BY <1>1, <3>1, NullAssumption DEF Back
    <3>4. QED
      BY <1>2, <2>2, <3>1, <3>2, <3>3
  <2>3. QED
    BY <2>1, <2>2
<1>6. Two(e, M \ {h}, W \ {h})
  BY <1>2, <1>3, <1>4, <1>5 DEF Two
<1>7. ASSUME NEW n \in Handlers
      PROVE  IF e.prev[n] = Null THEN \A m \in Handlers : e.next[m] # n ELSE e.next[e.prev[n]] = n
  <2>0. /\ \A i, m \in Handlers : l.next[m] = l.next[i] /\ l.next[m] # Null => m = i
        /\ \A m \in Handlers : l.next[m] # m
        /\ n # Null /\ l.prev \in [Handlers -> Handlers \union {Null}]
    BY <1>1, NullAssumption, TwoLists DEF Links
  <2>1. CASE n = h
    <3>1. ASSUME NEW m \in Handlers PROVE e.next[m] # h
      <4>1. CASE m = h
        BY <1>1, <1>2, <4>1
      <4>2. CASE m # h /\ m = l.prev[h]
        BY <1>1, <1>2, <2>0, <4>2
      <4>3. CASE m # h /\ m # l.prev[h]
        <5>1. l.next[m] # h
          BY <1>1, <2>0, <4>3 DEF Back
        <5>2. QED
          BY <1>2, <4>3, <5>1
      <4>4. QED
        BY <4>1, <4>2, <4>3
    <3>2. QED
      BY <1>2, <2>1, <3>1
  <2>2. CASE n # h /\ n = l.next[h]
    <3>1. e.prev[n] = l.prev[h]
      BY <1>2, <2>2
    <3>2. CASE l.prev[h] = Null
      <4>1. ASSUME NEW m \in Handlers PROVE e.next[m] # n
        <5>1. l.next[m] = n => m = h
          BY <1>1, <2>0, <2>2
        <5>2. QED
          BY <1>1, <1>2, <2>0, <2>2, <3>2, <5>1, NullAssumption
      <4>2. QED
        BY <3>1, <3>2, <4>1
    <3>3. CASE l.prev[h] # Null
      <4>1. l.prev[h] \in Handlers /\ l.next[l.prev[h]] = h
        BY <1>1, <2>0, <3>3 DEF Back
      <4>2. l.prev[h] # h
        BY <1>1, <2>0, <4>1
      <4>3. QED
        BY <1>2, <2>2, <3>1, <3>3, <4>1, <4>2
    <3>4. QED
      BY <3>2, <3>3
  <2>3. CASE n # h /\ n # l.next[h]
    <3>1. e.prev[n] = l.prev[n]
      BY <1>2, <2>3
    <3>2. CASE l.prev[n] = Null
      <4>1. \A m \in Handlers : l.next[m] # n
        BY <3>2 DEF Back
      <4>2. \A m \in Handlers : e.next[m] # n
        BY <1>2, <2>0, <2>3, <4>1
      <4>3. QED
        BY <3>1, <3>2, <4>2
    <3>3. CASE l.prev[n] # Null
      <4>1. l.prev[n] \in Handlers /\ l.next[l.prev[n]] = n
        BY <2>0, <3>3 DEF Back
      <4>2. l.prev[n] # h
        BY <2>3, <4>1
      <4>3. l.prev[n] # l.prev[h]
        BY <1>1, <2>3, <3>3, <4>1 DEF Back
      <4>4. QED
        BY <1>2, <3>1, <3>3, <4>1, <4>2, <4>3
    <3>4. QED
      BY <3>2, <3>3
  <2>4. QED
    BY <2>1, <2>2, <2>3
<1>8. Back(e, Handlers)
  BY <1>7 DEF Back
<1>9. QED
  BY <1>6, <1>8 DEF e

\* A node that is in no list is unlinked already.
LEMMA UnlinkedTwice ==
    ASSUME NEW l, NEW M, NEW W, Two(l, M, W), NEW h \in Handlers, h \notin M \union W
    PROVE  Unlinked(l, h) = l
<1> DEFINE e == Unlinked(l, h)
<1>1. h # Null /\ l \in Links /\ l.next[h] = Null /\ l.prev[h] = Null /\ l.front # h /\ l.newFront # h
  BY TwoLists, NullAssumption DEF Two
<1>2. /\ e \in Links /\ e.front = l.front /\ e.newFront = l.newFront
      /\ e.next[h] = Null /\ e.prev[h] = Null
      /\ \A n \in Handlers \ {h} : e.next[n] = l.next[n] /\ e.prev[n] = l.prev[n]
  BY <1>1, UnlinkedIs, NullAssumption
<1> HIDE DEF e
<1>3. e.next = l.next
  BY <1>1, <1>2 DEF Links
<1>4. e.prev = l.prev
  BY <1>1, <1>2 DEF Links
<1>5. e = l
  BY <1>1, <1>2, <1>3, <1>4 DEF Links
<1>6. QED
  BY <1>5 DEF e

-----------------------------------------------------------------------------
(* One turn of flush                                                        *)

\* While new nodes are sorted in, p_prev of the first of the others may be stale.
Sorting(l, M, W) == Two(l, M, W) /\ Back(l, Handlers \ {l.newFront})

\* The first new node is taken.
Popped(l) == [l EXCEPT !.newFront = l.next[l.newFront], !.prev[l.newFront] = Null,
                       !.next[l.newFront] = Null]

\* flush takes the first new node from its list.
LEMMA PoppedKeeps ==
    ASSUME NEW l, NEW M, NEW W, Sorting(l, M, W), NEW h, h = l.newFront, h # Null
    PROVE  /\ Sorting(Popped(l), M, W \ {h}) /\ h \in Handlers \ (M \union (W \ {h}))
           /\ Popped(l).front = l.front
           /\ \A n \in Handlers \ {h} : Popped(l).next[n] = l.next[n]
<1> DEFINE e == Popped(l)
<1>1. /\ h \in W /\ h \in Handlers /\ h \notin M /\ l \in Links
      /\ l.next[h] \in Handlers \union {Null} /\ l.next[h] # h
  BY TwoLists DEF Sorting, Two, Links
<1>2. /\ e \in Links /\ e.front = l.front /\ e.newFront = l.next[h]
      /\ e.next[h] = Null /\ e.prev[h] = Null
      /\ \A n \in Handlers \ {h} : e.next[n] = l.next[n] /\ e.prev[n] = l.prev[n]
  BY <1>1 DEF Popped, Links
<1> HIDE DEF e
<1>3. List(e.next, e.front, M)
  <2>1. \A n \in M : e.next[n] = l.next[n]
    BY <1>1, <1>2, TwoLists DEF Sorting
  <2>2. QED
    BY <1>2, <2>1, ListSame DEF Sorting, Two
<1>4. List(e.next, e.newFront, W \ {h})
  <2>1. List(l.next, h, W) /\ \A n \in W \ {h} : e.next[n] = l.next[n]
    <3>1. List(l.next, h, W) /\ W \subseteq Handlers
      BY DEF Sorting, Two, List
    <3>2. QED
      BY <1>2, <3>1
  <2>2. List(e.next, l.next[h], W \ {h})
    BY <2>1, ListPopped
  <2>3. QED
    BY <1>2, <2>2
<1>5. ASSUME NEW n \in Handlers, n \notin M, n \notin W \ {h} PROVE e.next[n] = Null /\ e.prev[n] = Null
  <2>1. CASE n = h
    BY <1>2, <2>1
  <2>2. CASE n # h
    BY <1>2, <1>5, <2>2 DEF Sorting, Two
  <2>3. QED
    BY <2>1, <2>2
<1>6. Two(e, M, W \ {h})
  BY <1>2, <1>3, <1>4, <1>5 DEF Two, Sorting
<1>7. ASSUME NEW n \in Handlers, n # e.newFront
      PROVE  IF e.prev[n] = Null THEN \A m \in Handlers : e.next[m] # n ELSE e.next[e.prev[n]] = n
  <2>1. \A m \in Handlers : l.next[m] # h
    BY <1>1, NullAssumption, TwoLists DEF Sorting
  <2>2. CASE n = h
    <3>1. \A m \in Handlers : e.next[m] # h
      BY <1>1, <1>2, <2>1, NullAssumption
    <3>2. QED
      BY <1>2, <2>2, <3>1
  <2>3. CASE n # h /\ l.prev[n] = Null
    <3>1. \A m \in Handlers : l.next[m] # n
      BY <2>3 DEF Sorting, Back
    <3>2. QED
      BY <1>2, <2>3, <3>1, NullAssumption
  <2>4. CASE n # h /\ l.prev[n] # Null
    <3>1. l.prev[n] \in Handlers /\ l.next[l.prev[n]] = n
      BY <1>1, <2>4 DEF Sorting, Back, Links
    <3>2. l.prev[n] # h
      BY <1>2, <1>7, <3>1
    <3>3. QED
      BY <1>2, <2>4, <3>1, <3>2
  <2>5. QED
    BY <2>2, <2>3, <2>4
<1>8. Back(e, Handlers \ {e.newFront})
  BY <1>7 DEF Back
<1>9. QED
  BY <1>1, <1>2, <1>6, <1>8 DEF e, Sorting

\* The first handler of an empty list
LEMMA FirstKeeps ==
    ASSUME NEW l, NEW M, NEW W, Sorting(l, M, W), l.front = Null,
           NEW h \in Handlers \ (M \union W)
    PROVE  Sorting([l EXCEPT !.front = h], M \union {h}, W)
<1> DEFINE e == [l EXCEPT !.front = h]
<1>1. l \in Links /\ l.next[h] = Null /\ M = {} /\ List(l.next, Null, M)
  BY DEF Sorting, Two, List
<1>2. /\ e \in Links /\ e.front = h /\ e.newFront = l.newFront
      /\ e.next = l.next /\ e.prev = l.prev
  BY <1>1 DEF Links
<1> HIDE DEF e
<1>3. List(e.next, h, M \union {h})
  BY <1>1, <1>2, ListPushed
<1>4. Two(e, M \union {h}, W)
  BY <1>1, <1>2, <1>3 DEF Sorting, Two
<1>5. Back(e, Handlers \ {e.newFront})
  BY <1>2 DEF Sorting, Back
<1>6. QED
  BY <1>4, <1>5 DEF e, Sorting

\* A new node after a handler
LEMMA LinkedAfterIs ==
    ASSUME NEW l, NEW k \in Handlers, NEW h \in Handlers, l \in Links, k # h
    PROVE  /\ LinkedAfter(l, k, h) \in Links /\ LinkedAfter(l, k, h).front = l.front
           /\ LinkedAfter(l, k, h).newFront = l.newFront
           /\ LinkedAfter(l, k, h).next[k] = h /\ LinkedAfter(l, k, h).next[h] = l.next[k]
           /\ \A n \in Handlers \ {h, k} : LinkedAfter(l, k, h).next[n] = l.next[n]
           /\ \A n \in Handlers : LinkedAfter(l, k, h).prev[n] =
                 IF n = h THEN k ELSE IF n = l.next[k] THEN h ELSE l.prev[n]
<1>1. l.next[k] \in Handlers \union {Null}
  BY DEF Links
<1>2. QED
  BY <1>1 DEF LinkedAfter, Links

\* flush puts a new node after a handler: p_next and p_prev of both neighbours follow.
LEMMA AfterKeeps ==
    ASSUME NEW l, NEW M, NEW W, Sorting(l, M, W), NEW k \in M,
           NEW h \in Handlers \ (M \union W)
    PROVE  Sorting(LinkedAfter(l, k, h), M \union {h}, W)
<1> DEFINE e == LinkedAfter(l, k, h)
<1>1. /\ l \in Links /\ k \in Handlers /\ k # h /\ l.next[h] = Null /\ l.prev[h] = Null
      /\ l.next[k] \in Handlers \union {Null} /\ k \notin W /\ l.next[k] \notin W
      /\ l.next[k] # h /\ h # Null /\ l.newFront # h /\ l.newFront # k
  BY TwoLists, NullAssumption DEF Sorting, Two, Links, List
<1>2. /\ e \in Links /\ e.front = l.front /\ e.newFront = l.newFront
      /\ e.next[k] = h /\ e.next[h] = l.next[k]
      /\ \A n \in Handlers \ {h, k} : e.next[n] = l.next[n]
      /\ \A n \in Handlers : e.prev[n] = IF n = h THEN k ELSE IF n = l.next[k] THEN h ELSE l.prev[n]
  BY <1>1, LinkedAfterIs
<1> HIDE DEF e
<1>3. List(e.next, e.front, M \union {h})
  <2>1. List(l.next, l.front, M) /\ h \notin M /\ \A n \in M \ {k} : e.next[n] = l.next[n]
    <3>1. List(l.next, l.front, M) /\ M \subseteq Handlers
      BY DEF Sorting, Two, List
    <3>2. QED
      BY <1>2, <3>1
  <2>2. List(e.next, l.front, M \union {h})
    BY <1>2, <2>1, ListInserted
  <2>3. QED
    BY <1>2, <2>2
<1>4. List(e.next, e.newFront, W)
  <2>1. List(l.next, l.newFront, W) /\ \A n \in W : e.next[n] = l.next[n]
    <3>1. List(l.next, l.newFront, W) /\ W \subseteq Handlers
      BY DEF Sorting, Two, List
    <3>2. QED
      BY <1>1, <1>2, <3>1
  <2>2. QED
    BY <1>2, <2>1, ListSame
<1>5. ASSUME NEW n \in Handlers, n \notin M \union {h}, n \notin W PROVE e.next[n] = Null /\ e.prev[n] = Null
  <2>1. l.next[n] = Null /\ l.prev[n] = Null /\ n # h /\ n # k
    BY <1>5 DEF Sorting, Two
  <2>2. n # l.next[k]
    BY <1>5, TwoLists, NullAssumption DEF Sorting
  <2>3. QED
    BY <1>2, <2>1, <2>2
<1>6. Two(e, M \union {h}, W)
  BY <1>2, <1>3, <1>4, <1>5 DEF Two, Sorting
<1>7. ASSUME NEW n \in Handlers, n # e.newFront
      PROVE  IF e.prev[n] = Null THEN \A m \in Handlers : e.next[m] # n ELSE e.next[e.prev[n]] = n
  <2>0. \A i, m \in Handlers : l.next[m] = l.next[i] /\ l.next[m] # Null => m = i
    BY TwoLists DEF Sorting
  <2>1. CASE n = h
    BY <1>1, <1>2, <2>1, NullAssumption
  <2>2. CASE n # h /\ n = l.next[k]
    BY <1>1, <1>2, <2>2
  <2>3. CASE n # h /\ n # l.next[k] /\ l.prev[n] = Null
    <3>1. \A m \in Handlers : l.next[m] # n
      BY <1>2, <1>7, <2>3 DEF Sorting, Back
    <3>2. QED
      BY <1>1, <1>2, <2>3, <3>1
  <2>4. CASE n # h /\ n # l.next[k] /\ l.prev[n] # Null
    <3>1. l.prev[n] \in Handlers /\ l.next[l.prev[n]] = n
      BY <1>1, <1>2, <1>7, <2>4 DEF Sorting, Back, Links
    <3>2. l.prev[n] # h /\ l.prev[n] # k
      BY <1>1, <2>4, <3>1, NullAssumption
    <3>3. QED
      BY <1>2, <2>4, <3>1, <3>2
  <2>5. QED
    BY <2>1, <2>2, <2>3, <2>4
<1>8. Back(e, Handlers \ {e.newFront})
  BY <1>7 DEF Back
<1>9. QED
  BY <1>2, <1>6, <1>8 DEF e, Sorting

\* The place of a new node is a handler.
LEMMA PlaceIsHandler ==
    ASSUME NEW l, NEW M, NEW W, Two(l, M, W), l.front # Null, NEW p
    PROVE  At(l, p) \in M
<1> DEFINE G == Higher(l, p)
<1>1. G \subseteq Handlers /\ \A n \in G : l.next[n] \in Handlers /\ l.next[n] # Null
  BY DEF Higher, Two, Links
<1>2. ASSUME NEW T \in SUBSET G, \A n \in T : l.next[n] \in T PROVE T = {}
  <2>1. T \intersect M = {}
    <3>1. T \intersect M \in SUBSET M /\ \A n \in T \intersect M : l.next[n] \in T \intersect M
      BY <1>1, <1>2, TwoLists
    <3>2. QED
      BY <3>1 DEF Two, List
  <2>2. T \intersect W = {}
    <3>1. T \intersect W \in SUBSET W /\ \A n \in T \intersect W : l.next[n] \in T \intersect W
      BY <1>1, <1>2, TwoLists
    <3>2. QED
      BY <3>1 DEF Two, List
  <2>3. QED
    BY <1>1, <2>1, <2>2 DEF Two
<1>3. Leads(l.next, G)
  <2> HIDE DEF G
  <2>1. QED
    BY <1>1, <1>2 DEF Leads
<1>4. l.front \in M /\ M \subseteq Handlers /\ \A n \in M : l.next[n] \in M \union {Null}
  BY TwoLists
<1>5. QED
  BY <1>3, <1>4, AtIs

\* One turn of the loop of flush: the first new node is sorted in, and what follows a handler
\* stays behind it.
LEMMA TurnKeeps ==
    ASSUME NEW l, NEW M, NEW W, Sorting(l, M, W), NEW h, h = l.newFront, h # Null
    PROVE  /\ Sorting(Flushed1(l), M \union {h}, W \ {h}) /\ h \in W
           /\ \A f : \A Z \in SUBSET M : List(l.next, f, Z) =>
                 List(Flushed1(l).next, f, Z) \/ List(Flushed1(l).next, f, Z \union {h})
<1> DEFINE p == Popped(l)
           k == At(p, Priority[h])
           e == LinkedAfter(p, k, h)
<1>1. /\ Sorting(p, M, W \ {h}) /\ h \in Handlers \ (M \union (W \ {h}))
      /\ p.front = l.front /\ \A n \in Handlers \ {h} : p.next[n] = l.next[n]
  BY PoppedKeeps
<1>2. Flushed1(l) = IF l.front = Null THEN [p EXCEPT !.front = h] ELSE e
  BY DEF Flushed1, Popped
<1>3. M \subseteq Handlers /\ h \in W /\ h \notin M
  BY TwoLists DEF Sorting, Two
<1> HIDE DEF p, k
<1>4. CASE l.front = Null
  <2>1. Sorting([p EXCEPT !.front = h], M \union {h}, W \ {h})
    BY <1>1, <1>4, FirstKeeps
  <2>2. p \in Links
    BY <1>1 DEF Sorting, Two
  <2>3. [p EXCEPT !.front = h].next = p.next
    BY <2>2 DEF Links
  <2>4. ASSUME NEW f, NEW Z \in SUBSET M, List(l.next, f, Z) PROVE List(p.next, f, Z)
    <3>1. \A n \in Z : p.next[n] = l.next[n]
      BY <1>1, <1>3
    <3>2. QED
      BY <2>4, <3>1, ListSame
  <2>5. QED
    BY <1>2, <1>3, <1>4, <2>1, <2>3, <2>4
<1>5. CASE l.front # Null
  <2>1. k \in M
    BY <1>1, <1>5, PlaceIsHandler DEF Sorting, k
  <2>2. /\ Sorting(e, M \union {h}, W \ {h}) /\ e.next[k] = h /\ e.next[h] = p.next[k]
        /\ \A n \in Handlers \ {h, k} : e.next[n] = p.next[n]
    <3>1. h \in Handlers \ (M \union (W \ {h})) /\ Sorting(p, M, W \ {h})
      BY <1>1
    <3>2. Sorting(e, M \union {h}, W \ {h})
      BY <2>1, <3>1, AfterKeeps
    <3>3. p \in Links /\ k \in Handlers /\ h \in Handlers /\ k # h
      BY <1>1, <1>3, <2>1 DEF Sorting, Two
    <3>4. /\ e.next[k] = h /\ e.next[h] = p.next[k]
          /\ \A n \in Handlers \ {h, k} : e.next[n] = p.next[n]
      BY <3>3, LinkedAfterIs
    <3>5. QED
      BY <3>2, <3>4
  <2> HIDE DEF e
  <2>3. ASSUME NEW f, NEW Z \in SUBSET M, List(l.next, f, Z)
        PROVE  List(e.next, f, Z) \/ List(e.next, f, Z \union {h})
    <3>1. CASE k \in Z
      <4>1. /\ e.next[h] = l.next[k] /\ h \notin Z /\ h \in Handlers
            /\ \A n \in Z \ {k} : e.next[n] = l.next[n]
        BY <1>1, <1>3, <2>1, <2>2
      <4>2. List(e.next, f, Z \union {h})
        BY <2>2, <2>3, <3>1, <4>1, ListInserted
      <4>3. QED
        BY <4>2
    <3>2. CASE k \notin Z
      <4>1. \A n \in Z : e.next[n] = l.next[n]
        BY <1>1, <1>3, <2>2, <3>2
      <4>2. QED
        BY <2>3, <4>1, ListSame
    <3>3. QED
      BY <3>1, <3>2
  <2>4. Flushed1(l) = e
    BY <1>2, <1>5
  <2>5. QED
    BY <1>3, <2>2, <2>3, <2>4
<1>6. QED
  BY <1>4, <1>5

-----------------------------------------------------------------------------
(* flush                                                                    *)

\* Of each part of the list of k that reaches to its end, l keeps the nodes, and adds new ones.
Keeps(k, A, V, l, M) ==
    \A f : \A Z \in SUBSET A : List(k.next, f, Z) =>
        \E Y \in SUBSET M : Z \subseteq Y /\ Y \subseteq Z \union V /\ List(l.next, f, Y)

\* What flush has made of the lists A and V of k.
Between(k, A, V, l, M, W) ==
    Sorting(l, M, W) /\ A \subseteq M /\ M \union W = A \union V /\ Keeps(k, A, V, l, M)

\* A turn of the loop of flush keeps what the turns before it did.
LEMMA BetweenTurn ==
    ASSUME NEW k, NEW A, NEW V, NEW l, NEW M, NEW W, Between(k, A, V, l, M, W),
           NEW h, h = l.newFront, h # Null
    PROVE  Between(k, A, V, Flushed1(l), M \union {h}, W \ {h}) /\ h \in W
<1>1. /\ Sorting(Flushed1(l), M \union {h}, W \ {h}) /\ h \in W
      /\ \A f : \A Z \in SUBSET M : List(l.next, f, Z) =>
            List(Flushed1(l).next, f, Z) \/ List(Flushed1(l).next, f, Z \union {h})
  BY TurnKeeps DEF Between
<1>2. h \in V
  BY <1>1 DEF Between, Sorting, Two
<1> DEFINE e == Flushed1(l)
<1> HIDE DEF e
<1>3. ASSUME NEW f, NEW Z \in SUBSET A, List(k.next, f, Z)
      PROVE  \E Y \in SUBSET (M \union {h}) :
                 Z \subseteq Y /\ Y \subseteq Z \union V /\ List(e.next, f, Y)
  <2>1. PICK Y \in SUBSET M : Z \subseteq Y /\ Y \subseteq Z \union V /\ List(l.next, f, Y)
    BY <1>3 DEF Between, Keeps
  <2>2. List(e.next, f, Y) \/ List(e.next, f, Y \union {h})
    BY <1>1, <2>1 DEF e
  <2>3. CASE List(e.next, f, Y)
    BY <2>1, <2>3
  <2>4. CASE List(e.next, f, Y \union {h})
    <3>1. /\ Y \union {h} \in SUBSET (M \union {h})
          /\ Z \subseteq Y \union {h} /\ Y \union {h} \subseteq Z \union V
      BY <1>2, <2>1
    <3>2. QED
      BY <2>4, <3>1
  <2>5. QED
    BY <2>2, <2>3, <2>4
<1>4. Keeps(k, A, V, e, M \union {h})
  BY <1>3 DEF Keeps
<1>5. A \subseteq M \union {h} /\ (M \union {h}) \union (W \ {h}) = A \union V
  BY <1>1 DEF Between
<1>6. QED
  BY <1>1, <1>4, <1>5 DEF Between, e

\* A turn of the loop of flush, if there is a new node, and r, the links after each.
Turn(l) == IF l.newFront = Null THEN l ELSE Flushed1(l)
Turns(l, r) == r = [i \in 0 .. N |-> IF i = 0 THEN l ELSE Turn(r[i - 1])]

\* flush makes its turns one after the other.
LEMMA FlushedIs ==
    ASSUME NEW l
    PROVE  Flushed(l) = (CHOOSE r : Turns(l, r))[N]
BY DEF Flushed, Turns, Turn, N

\* flush sorts all new nodes in.
LEMMA FlushedKeeps ==
    ASSUME NEW l, NEW M, NEW W, Two(l, M, W), Back(l, Handlers)
    PROVE  /\ Two(Flushed(l), M \union W, {}) /\ Back(Flushed(l), Handlers)
           /\ Keeps(l, M, W, Flushed(l), M \union W)
<1> DEFINE X == {e \in Links : \E A, V \in SUBSET Handlers : Between(l, M, W, e, A, V)}
           F == [e \in X |-> Turn(e)]
<1>1. M \in SUBSET Handlers /\ W \in SUBSET Handlers /\ l \in Links
  BY TwoLists DEF Two
<1>2. Between(l, M, W, l, M, W)
  <2>1. Back(l, Handlers \ {l.newFront})
    BY DEF Back
  <2>2. Keeps(l, M, W, l, M)
    BY DEF Keeps
  <2>3. QED
    BY <2>1, <2>2 DEF Between, Sorting
<1>3. l \in X
  BY <1>1, <1>2
<1>4. F \in [X -> X]
  <2>1. SUFFICES ASSUME NEW e \in X PROVE Turn(e) \in X
    OBVIOUS
  <2>2. CASE e.newFront = Null
    BY <2>2 DEF Turn
  <2>3. CASE e.newFront # Null
    <3>1. PICK A \in SUBSET Handlers, V \in SUBSET Handlers : Between(l, M, W, e, A, V)
      OBVIOUS
    <3>2. PICK h : h = e.newFront
      OBVIOUS
    <3>3. Between(l, M, W, Flushed1(e), A \union {h}, V \ {h}) /\ h \in V
      BY <2>3, <3>1, <3>2, BetweenTurn
    <3>4. Flushed1(e) \in Links
      BY <3>3 DEF Between, Sorting, Two
    <3>5. A \union {h} \in SUBSET Handlers /\ V \ {h} \in SUBSET Handlers
      BY <3>3
    <3>6. QED
      BY <2>3, <3>3, <3>4, <3>5 DEF Turn
  <2>4. QED
    BY <2>2, <2>3
<1>5. PICK g \in [0 .. N -> X] : g[0] = l /\ \A i \in 1 .. N : g[i] = F[g[i - 1]]
  <2> HIDE DEF X, F
  <2>1. Iterable(X, F, l, N)
    BY <1>3, <1>4, NType, Iterated
  <2>2. QED
    BY <2>1 DEF Iterable
<1>6. Turns(l, g)
  <2>1. \A i \in 1 .. N : i - 1 \in 0 .. N
    BY NType
  <2> HIDE DEF X
  <2>2. \A i \in 1 .. N : g[i] = Turn(g[i - 1])
    BY <1>5, <2>1
  <2>3. \A i \in 0 .. N : i # 0 => i \in 1 .. N
    BY NType
  <2>4. \A i \in 0 .. N : g[i] = IF i = 0 THEN l ELSE Turn(g[i - 1])
    BY <1>5, <2>2, <2>3
  <2>5. QED
    BY <2>4 DEF Turns
<1> DEFINE r == CHOOSE r : Turns(l, r)
<1>7. Turns(l, r)
  BY <1>6
<1> HIDE DEF r
<1>8. r[0] = l /\ \A i \in Nat : i + 1 <= N => r[i + 1] = Turn(r[i])
  <2>1. 0 \in 0 .. N /\ \A i \in Nat : i + 1 <= N => i + 1 \in 0 .. N /\ i + 1 # 0 /\ (i + 1) - 1 = i
    BY NType
  <2>2. QED
    BY <1>7, <2>1 DEF Turns
\* Each turn leaves one new node less.
<1> DEFINE Left(e, i) == \E A, V \in SUBSET Handlers :
                            /\ Between(l, M, W, e, A, V)
                            /\ e.newFront = Null \/ Cardinality(V) + i <= N
           P == {i \in Nat : i <= N => Left(r[i], i)}
<1>9. \A V \in SUBSET Handlers : IsFiniteSet(V) /\ Cardinality(V) \in Nat /\ Cardinality(V) <= N
  BY HandlersAssumption, FS_Subset, FS_CardinalityType DEF N
<1>10. 0 \in P
  <2>1. Cardinality(W) + 0 <= N
    BY <1>1, <1>9, NType
  <2>2. Left(l, 0)
    BY <1>1, <1>2, <2>1
  <2>3. QED
    BY <1>8, <2>2
<1>11. ASSUME NEW i \in Nat, i \in P PROVE i + 1 \in P
  <2>1. SUFFICES ASSUME i + 1 <= N PROVE Left(r[i + 1], i + 1)
    OBVIOUS
  <2>2. Left(r[i], i) /\ r[i + 1] = Turn(r[i])
    BY <1>8, <1>11, <2>1, NType
  <2>3. PICK e : e = r[i]
    OBVIOUS
  <2>4. PICK A \in SUBSET Handlers, V \in SUBSET Handlers :
                 /\ Between(l, M, W, e, A, V)
                 /\ e.newFront = Null \/ Cardinality(V) + i <= N
    BY <2>2, <2>3
  <2>5. Left(Turn(e), i + 1)
    <3>1. CASE e.newFront = Null
      BY <2>4, <3>1 DEF Turn
    <3>2. CASE e.newFront # Null
      <4>1. PICK h : h = e.newFront
        OBVIOUS
      <4>2. Between(l, M, W, Flushed1(e), A \union {h}, V \ {h}) /\ h \in V
        BY <2>4, <3>2, <4>1, BetweenTurn
      <4>3. Cardinality(V \ {h}) = Cardinality(V) - 1
        BY <1>9, <2>4, <4>2, FS_RemoveElement
      <4>4. Cardinality(V \ {h}) + (i + 1) <= N
        BY <1>9, <2>4, <3>2, <4>3, NType
      <4>5. A \union {h} \in SUBSET Handlers /\ V \ {h} \in SUBSET Handlers
        BY <4>2
      <4>6. QED
        BY <3>2, <4>2, <4>4, <4>5 DEF Turn
    <3>3. QED
      BY <3>1, <3>2
  <2>6. QED
    BY <2>2, <2>3, <2>5
<1>12. Left(r[N], N)
  <2>1. \A i \in Nat : i \in P
    <3> HIDE DEF P
    <3>1. QED
      BY <1>10, <1>11, SetInduction
  <2>2. QED
    BY <2>1, NType
<1> DEFINE e == Flushed(l)
<1>13. e = r[N]
  BY FlushedIs DEF r
<1> HIDE DEF e
<1>14. PICK A \in SUBSET Handlers, V \in SUBSET Handlers :
           Between(l, M, W, e, A, V) /\ (e.newFront = Null \/ Cardinality(V) + N <= N)
  BY <1>12, <1>13
<1>15. V = {} /\ e.newFront = Null
  <2>1. e.newFront \in V \union {Null} /\ (e.newFront = Null => V = {})
    BY <1>14 DEF Between, Sorting, Two, List
  <2>2. CASE Cardinality(V) + N <= N
    <3>1. Cardinality(V) = 0
      BY <1>9, <2>2, NType
    <3>2. V = {}
      BY <1>9, <3>1, FS_EmptySet
    <3>3. QED
      BY <2>1, <3>2
  <2>3. QED
    BY <1>14, <2>1, <2>2
<1>16. A = M \union W
  BY <1>14, <1>15 DEF Between
<1>17. Two(e, M \union W, {}) /\ Keeps(l, M, W, e, M \union W)
  BY <1>14, <1>15, <1>16 DEF Between, Sorting
<1>18. Back(e, Handlers)
  <2>1. Handlers \ {e.newFront} = Handlers
    BY <1>15, NullAssumption
  <2>2. QED
    BY <1>14, <2>1 DEF Between, Sorting
<1>19. QED
  BY <1>17, <1>18 DEF e

-----------------------------------------------------------------------------
(* The invariant                                                            *)

TypeOK ==
    /\ detached \subseteq appended /\ appended \subseteq Handlers
    /\ pc \in [Threads -> {"idle", "head", "take", "call", "expire", "relock", "stuck"}]
    /\ head \in [Threads -> Handlers \union {Null}] /\ node \in [Threads -> Handlers \union {Null}]
    /\ consumed \in [Threads -> BOOLEAN] /\ cut \in [Threads -> BOOLEAN]
    /\ due \in [Threads -> SUBSET Handlers] /\ gone \in [Threads -> SUBSET Handlers]
    /\ called \in [Threads -> [Handlers -> {0, 1}]]

\* The lists hold what was appended and not detached.
Lists(M, W) == Two(L, M, W) /\ Back(L, Handlers) /\ M \union W = appended \ detached

\* The handlers that an invocation called, or is about to call.
Taken(t) == {h \in Handlers : called[t][h] = 1 \/ (pc[t] = "call" /\ node[t] = h)}

\* What the place of an invocation says of its variables.
Placed(t) ==
    /\ pc[t] \in {"idle", "head"} => head[t] = Null /\ node[t] = Null
    /\ pc[t] = "head" => Taken(t) = {} /\ due[t] = {}
    /\ pc[t] = "take" => head[t] # Null
    /\ pc[t] \in {"call", "expire"} => node[t] # Null
    /\ pc[t] = "call" => called[t][node[t]] = 0
    /\ pc[t] = "expire" => called[t][node[t]] = 1

\* Its nodes are sorted in, or were, and the ones it calls were there when it began.
Known(t, M) ==
    /\ Taken(t) \subseteq M \union detached
    /\ {head[t], node[t]} \subseteq M \union detached \union {Null}
    /\ gone[t] \subseteq detached
    /\ gone[t] \intersect Taken(t) = {} /\ head[t] \notin gone[t] /\ head[t] \notin Taken(t)
    /\ head[t] \in detached => cut[t]

\* It has yet to come by the nodes Z, and passes over no other.
Reaches(t, Z) ==
    /\ Z \intersect Taken(t) = {}
    /\ ~cut[t] /\ pc[t] # "stuck" /\ (pc[t] = "idle" => ~consumed[t]) =>
          due[t] \ detached \subseteq Taken(t) \union Z
Walks(t, M) ==
    head[t] \notin detached =>
        \E Z \in SUBSET M : List(next, head[t], Z) /\ Reaches(t, Z)

IInv ==
    /\ TypeOK
    /\ \E M \in SUBSET Handlers : \E W \in SUBSET Handlers :
         /\ Lists(M, W)
         /\ \A t \in Threads : Placed(t) /\ Known(t, M) /\ Walks(t, M)

\* The fields of the links.
LEMMA LinksAre == L.front = front /\ L.newFront = newFront /\ L.next = next /\ L.prev = prev
BY DEF L

\* The links after a step.
LEMMA LinksSet ==
    ASSUME NEW l \in Links, SetLinks(l)
    PROVE  L' = l /\ next' = l.next
BY DEF Links, SetLinks, L

\* What the invariant says of the sets of nodes.
LEMMA SetsAre ==
    ASSUME TypeOK, NEW M, NEW W, Lists(M, W)
    PROVE  /\ M \subseteq Handlers /\ W \subseteq Handlers /\ M \intersect W = {}
           /\ M \subseteq appended /\ W \subseteq appended
           /\ M \intersect detached = {} /\ W \intersect detached = {}
           /\ \A h \in appended : h \notin detached => h \in M \union W
           /\ \A h \in Handlers : h \notin M \union W => next[h] = Null
           /\ Two(L, M, W) /\ Back(L, Handlers)
<1>1. Two(L, M, W) /\ Back(L, Handlers) /\ M \union W = appended \ detached
  BY DEF Lists
<1>2. M \subseteq Handlers /\ W \subseteq Handlers /\ M \intersect W = {}
  BY <1>1, TwoLists DEF Two
<1>3. \A h \in Handlers : h \notin M \union W => next[h] = Null
  BY <1>1, LinksAre DEF Two
<1>4. QED
  BY <1>1, <1>2, <1>3

\* append: the walks go on as they were.
LEMMA AppendGood ==
    ASSUME IInv, NEW h \in Handlers, Append(h)
    PROVE  IInv'
<1>1. PICK M \in SUBSET Handlers, W \in SUBSET Handlers :
        Lists(M, W) /\ \A t \in Threads : Placed(t) /\ Known(t, M) /\ Walks(t, M)
  BY DEF IInv
<1>2. /\ h \notin appended /\ appended' = appended \union {h}
      /\ UNCHANGED <<detached, pc, head, node, consumed, invocations, due, gone, called, cut>>
  BY DEF Append, local, ghost
<1>3. TypeOK
  BY DEF IInv
<1>4. /\ h \notin M \union W /\ Two(L, M, W) /\ Back(L, Handlers)
      /\ M \union W = appended \ detached /\ M \intersect W = {}
  BY <1>1, <1>2, <1>3, SetsAre DEF Lists
<1>5. /\ Two(Appended(L, h), M, W \union {h}) /\ Back(Appended(L, h), Handlers)
      /\ \A n \in M \union W : Appended(L, h).next[n] = L.next[n]
  BY <1>4, AppendKeeps
<1>6. L' = Appended(L, h) /\ next' = Appended(L, h).next
  <2>1. SetLinks(Appended(L, h))
    BY LinksAre DEF Append, Appended
  <2>2. Appended(L, h) \in Links
    BY <1>5 DEF Two
  <2>3. QED
    BY <2>1, <2>2, LinksSet
<1>7. TypeOK'
  BY <1>2, <1>3 DEF TypeOK
<1>8. Lists(M, W \union {h})'
  <2>1. M \union (W \union {h}) = appended' \ detached'
    BY <1>2, <1>3, <1>4 DEF TypeOK
  <2>2. QED
    BY <1>5, <1>6, <2>1 DEF Lists
<1>9. ASSUME NEW t \in Threads PROVE Placed(t)' /\ Known(t, M)' /\ Walks(t, M)'
  <2>1. Placed(t)' /\ Known(t, M)'
    BY <1>1, <1>2 DEF Placed, Known, Taken
  <2>2. ASSUME head[t] \notin detached
        PROVE  \E Z \in SUBSET M : List(next', head'[t], Z) /\ Reaches(t, Z)'
    <3>1. PICK Z \in SUBSET M : List(next, head[t], Z) /\ Reaches(t, Z)
      BY <1>1, <2>2 DEF Walks
    <3>2. \A n \in Z : next'[n] = next[n]
      BY <1>5, <1>6, LinksAre
    <3>3. List(next', head[t], Z)
      BY <3>1, <3>2, ListSame
    <3>4. Reaches(t, Z)'
      BY <1>2, <3>1 DEF Reaches, Taken
    <3>5. QED
      BY <1>2, <3>3, <3>4
  <2>3. QED
    BY <1>2, <2>1, <2>2 DEF Walks
<1>10. QED
  BY <1>2, <1>7, <1>8, <1>9 DEF IInv

\* What a step that detaches a node leaves to the invocations.
Leaves(t) ==
    /\ head'[t] = head[t] /\ node'[t] \in {node[t], Null} /\ consumed'[t] = consumed[t]
    /\ due'[t] = due[t] /\ gone'[t] = gone[t] /\ Taken(t)' = Taken(t)
    /\ pc'[t] # "stuck" => pc[t] # "stuck"
    /\ pc'[t] = "idle" <=> pc[t] = "idle"

\* if_entity::detach: the walks that had not come by the node pass over it, and one that was
\* about to take it is cut.
LEMMA DetachGood ==
    ASSUME IInv, NEW h \in appended, Detach(h), appended' = appended, TypeOK',
           \A t \in Threads : Placed(t)' /\ Leaves(t)
    PROVE  IInv'
<1>1. PICK M \in SUBSET Handlers, W \in SUBSET Handlers :
        Lists(M, W) /\ \A t \in Threads : Placed(t) /\ Known(t, M) /\ Walks(t, M)
  BY DEF IInv
<1>2. TypeOK
  BY DEF IInv
<1>3. /\ Two(L, M, W) /\ Back(L, Handlers) /\ L \in Links /\ h \in Handlers
      /\ M \union W = appended \ detached
  BY <1>1, <1>2, SetsAre DEF Lists, Two, TypeOK
<1>4. L' = Unlinked(L, h) /\ next' = Unlinked(L, h).next
  <2>1. SetLinks(Unlinked(L, h))
    BY DEF Detach
  <2>2. QED
    BY <1>3, <2>1, UnlinkedIs, LinksSet
<1>5. /\ detached' = detached \union {h}
      /\ \A t \in Threads : cut'[t] <=> cut[t] \/ (h \notin detached /\ head[t] = h)
  BY <1>2 DEF Detach, TypeOK
<1>6. Two(L', M \ {h}, W \ {h}) /\ Back(L', Handlers)
  <2>1. CASE h \in M \union W
    BY <1>3, <1>4, <2>1, UnlinkKeeps
  <2>2. CASE h \notin M \union W
    <3>1. L' = L
      BY <1>3, <1>4, <2>2, UnlinkedTwice
    <3>2. M \ {h} = M /\ W \ {h} = W
      BY <2>2
    <3>3. QED
      BY <1>3, <3>1, <3>2
  <2>3. QED
    BY <2>1, <2>2
<1>7. Lists(M \ {h}, W \ {h})'
  <2>1. (M \ {h}) \union (W \ {h}) = appended' \ detached'
    BY <1>3, <1>5
  <2>2. QED
    BY <1>6, <2>1 DEF Lists
<1>8. ASSUME NEW t \in Threads PROVE Known(t, M \ {h})' /\ Walks(t, M \ {h})'
  <2>1. Leaves(t) /\ Known(t, M) /\ Walks(t, M)
    BY <1>1
  <2>2. Known(t, M \ {h})'
    BY <1>5, <2>1 DEF Leaves, Known
  <2>3. ASSUME head[t] \notin detached, head[t] # h
        PROVE  \E Z \in SUBSET (M \ {h}) : List(next', head'[t], Z) /\ Reaches(t, Z)'
    <3>1. PICK Z \in SUBSET M : List(next, head[t], Z) /\ Reaches(t, Z)
      BY <2>1, <2>3 DEF Walks
    <3>2. List(next', head[t], Z \ {h})
      <4>1. CASE h \in M \union W
        <5>1. List(L.next, head[t], Z)
          BY <3>1, LinksAre
        <5>2. QED
          BY <1>3, <1>4, <2>3, <4>1, <5>1, RestUnlinked
      <4>2. CASE h \notin M \union W
        <5>1. L' = L
          BY <1>3, <1>4, <4>2, UnlinkedTwice
        <5>2. next' = next /\ Z \ {h} = Z
          BY <4>2, <5>1, LinksAre, <1>4
        <5>3. QED
          BY <3>1, <5>2
      <4>3. QED
        BY <4>1, <4>2
    <3>3. Reaches(t, Z \ {h})'
      <4>1. /\ (Z \ {h}) \intersect Taken(t)' = {}
            /\ ~cut'[t] => ~cut[t]
            /\ due'[t] \ detached' = (due[t] \ detached) \ {h}
        BY <1>5, <2>1, <3>1 DEF Leaves, Reaches
      <4>2. QED
        BY <2>1, <3>1, <4>1 DEF Leaves, Reaches
    <3>4. QED
      BY <2>1, <3>2, <3>3 DEF Leaves
  <2>4. QED
    BY <1>5, <2>1, <2>2, <2>3 DEF Walks, Leaves
<1>9. QED
  BY <1>7, <1>8 DEF IInv

\* remove, and expire of a handle
LEMMA RemoveGood ==
    ASSUME IInv, NEW h \in Handlers, Remove(h)
    PROVE  IInv'
<1>1. /\ h \in appended /\ Detach(h)
      /\ UNCHANGED <<appended, pc, head, node, consumed, invocations, due, gone, called>>
  BY DEF Remove, local
<1>2. TypeOK
  BY DEF IInv
<1>3. TypeOK'
  BY <1>1, <1>2 DEF TypeOK, Detach
<1>4. ASSUME NEW t \in Threads PROVE Placed(t)' /\ Leaves(t)
  <2>1. Placed(t)
    BY DEF IInv
  <2>2. Taken(t)' = Taken(t)
    BY <1>1 DEF Taken
  <2>3. Placed(t)'
    BY <1>1, <2>1, <2>2 DEF Placed
  <2>4. QED
    BY <1>1, <2>2, <2>3 DEF Leaves
<1>5. QED
  BY <1>1, <1>3, <1>4, DetachGood

\* The node of a handler that said expire
LEMMA ExpireGood ==
    ASSUME IInv, NEW t \in Threads, Expire(t)
    PROVE  IInv'
<1>1. /\ pc[t] = "expire" /\ Detach(node[t])
      /\ node' = [node EXCEPT ![t] = Null] /\ pc' = [pc EXCEPT ![t] = "relock"]
      /\ UNCHANGED <<appended, head, consumed, invocations, due, gone, called>>
  BY DEF Expire
<1>2. TypeOK
  BY DEF IInv
<1>3. node[t] \in appended
  <2>1. PICK M \in SUBSET Handlers, W \in SUBSET Handlers :
          Lists(M, W) /\ \A u \in Threads : Placed(u) /\ Known(u, M) /\ Walks(u, M)
    BY DEF IInv
  <2>2. M \subseteq appended /\ detached \subseteq appended
    BY <1>2, <2>1, SetsAre DEF TypeOK
  <2>3. node[t] \in M \union detached \union {Null} /\ node[t] # Null
    BY <1>1, <2>1 DEF Known, Placed
  <2>4. QED
    BY <2>2, <2>3
<1>4. \A u \in Threads : /\ node'[u] = IF u = t THEN Null ELSE node[u]
                         /\ pc'[u] = IF u = t THEN "relock" ELSE pc[u]
  BY <1>1, <1>2 DEF TypeOK
<1>5. TypeOK'
  BY <1>1, <1>2, <1>3 DEF TypeOK, Detach
<1>6. ASSUME NEW u \in Threads PROVE Placed(u)' /\ Leaves(u)
  <2>1. Placed(u)
    BY DEF IInv
  <2>2. Taken(u)' = Taken(u)
    BY <1>1, <1>4 DEF Taken
  <2>3. Placed(u)'
    BY <1>1, <1>4, <2>1, <2>2 DEF Placed
  <2>4. /\ node'[u] \in {node[u], Null}
        /\ pc'[u] # "stuck" => pc[u] # "stuck"
        /\ pc'[u] = "idle" <=> pc[u] = "idle"
    BY <1>1, <1>4
  <2>5. QED
    BY <1>1, <2>2, <2>3, <2>4 DEF Leaves
<1>7. QED
  BY <1>1, <1>3, <1>5, <1>6, DetachGood

\* flush: the walks of the others come by more handlers, which they had not called.
LEMMA InvokeGood ==
    ASSUME IInv, NEW t \in Threads, Invoke(t)
    PROVE  IInv'
<1>1. PICK M \in SUBSET Handlers, W \in SUBSET Handlers :
        Lists(M, W) /\ \A u \in Threads : Placed(u) /\ Known(u, M) /\ Walks(u, M)
  BY DEF IInv
<1>2. TypeOK
  BY DEF IInv
<1>3. /\ pc[t] = "idle" /\ SetLinks(Flushed(L)) /\ pc' = [pc EXCEPT ![t] = "head"]
      /\ gone' = [gone EXCEPT ![t] = detached] /\ due' = [due EXCEPT ![t] = {}]
      /\ called' = [called EXCEPT ![t] = [h \in Handlers |-> 0]]
      /\ cut' = [cut EXCEPT ![t] = FALSE]
      /\ UNCHANGED <<appended, detached, head, node, consumed>>
  BY DEF Invoke
<1>4. /\ Two(L, M, W) /\ Back(L, Handlers) /\ M \subseteq Handlers /\ W \subseteq Handlers
      /\ M \union W = appended \ detached /\ M \intersect W = {}
      /\ W \intersect detached = {}
  BY <1>1, <1>2, SetsAre DEF Lists
<1>5. /\ Two(Flushed(L), M \union W, {}) /\ Back(Flushed(L), Handlers)
      /\ Keeps(L, M, W, Flushed(L), M \union W)
  BY <1>4, FlushedKeeps
<1>6. L' = Flushed(L) /\ next' = Flushed(L).next
  <2>1. Flushed(L) \in Links
    BY <1>5 DEF Two
  <2>2. QED
    BY <1>3, <2>1, LinksSet
<1>7. /\ pc'[t] = "head" /\ gone'[t] = detached /\ due'[t] = {}
      /\ called'[t] = [h \in Handlers |-> 0]
      /\ \A u \in Threads \ {t} : /\ pc'[u] = pc[u] /\ gone'[u] = gone[u] /\ due'[u] = due[u]
                                  /\ called'[u] = called[u] /\ cut'[u] = cut[u]
  BY <1>2, <1>3 DEF TypeOK
<1>8. TypeOK'
  <2>1. [h \in Handlers |-> 0] \in [Handlers -> {0, 1}]
    OBVIOUS
  <2>2. detached \in SUBSET Handlers
    BY <1>2 DEF TypeOK
  <2>3. QED
    BY <1>2, <1>3, <2>1, <2>2 DEF TypeOK
<1>9. Lists(M \union W, {})'
  <2>1. (M \union W) \union {} = appended' \ detached'
    BY <1>3, <1>4
  <2>2. QED
    BY <1>5, <1>6, <2>1 DEF Lists
<1>10. Placed(t)' /\ Known(t, M \union W)' /\ Walks(t, M \union W)'
  <2>1. head[t] = Null /\ node[t] = Null
    BY <1>1, <1>3 DEF Placed
  <2>2. Taken(t)' = {}
    BY <1>7 DEF Taken
  <2>3. Null \notin detached
    BY <1>2, NullAssumption DEF TypeOK
  <2>4. Placed(t)' /\ Known(t, M \union W)'
    BY <1>3, <1>7, <2>1, <2>2, <2>3 DEF Placed, Known
  <2>5. List(next', Null, {})
    BY DEF List
  <2>6. Reaches(t, {})'
    BY <1>7 DEF Reaches
  <2>7. Walks(t, M \union W)'
    BY <1>3, <2>1, <2>5, <2>6 DEF Walks
  <2>8. QED
    BY <2>4, <2>7
<1>11. ASSUME NEW u \in Threads, u # t
       PROVE  Placed(u)' /\ Known(u, M \union W)' /\ Walks(u, M \union W)'
  <2>1. Placed(u) /\ Known(u, M) /\ Walks(u, M)
    BY <1>1
  <2>2. /\ pc'[u] = pc[u] /\ gone'[u] = gone[u] /\ due'[u] = due[u] /\ called'[u] = called[u]
        /\ cut'[u] = cut[u] /\ head'[u] = head[u] /\ node'[u] = node[u]
        /\ consumed'[u] = consumed[u] /\ detached' = detached
    BY <1>3, <1>7, <1>11
  <2>3. Taken(u)' = Taken(u)
    BY <2>2 DEF Taken
  <2>4. Placed(u)'
    BY <2>1, <2>2, <2>3 DEF Placed
  <2>5. Known(u, M \union W)'
    BY <2>1, <2>2, <2>3 DEF Known
  <2>6. ASSUME head[u] \notin detached
        PROVE  \E Y \in SUBSET (M \union W) : List(next', head'[u], Y) /\ Reaches(u, Y)'
    <3>1. PICK Z \in SUBSET M : List(next, head[u], Z) /\ Reaches(u, Z)
      BY <2>1, <2>6 DEF Walks
    <3>2. List(L.next, head[u], Z)
      BY <3>1, LinksAre
    <3>3. PICK Y \in SUBSET (M \union W) :
            Z \subseteq Y /\ Y \subseteq Z \union W /\ List(Flushed(L).next, head[u], Y)
      BY <1>5, <3>2 DEF Keeps
    <3>4. W \intersect Taken(u) = {}
      BY <1>4, <2>1 DEF Known
    <3>5. Reaches(u, Y)'
      BY <2>2, <2>3, <3>1, <3>3, <3>4 DEF Reaches
    <3>6. QED
      BY <1>6, <2>2, <3>3, <3>5
  <2>7. Walks(u, M \union W)'
    BY <2>2, <2>6 DEF Walks
  <2>8. QED
    BY <2>4, <2>5, <2>7
<1>12. QED
  <2>1. M \union W \in SUBSET Handlers /\ {} \in SUBSET Handlers
    BY <1>4
  <2>2. \A u \in Threads : Placed(u)' /\ Known(u, M \union W)' /\ Walks(u, M \union W)'
    BY <1>10, <1>11
  <2>3. QED
    BY <1>8, <1>9, <2>1, <2>2 DEF IInv

\* A step of one invocation that leaves the lists alone.
Alone(t) ==
    /\ UNCHANGED <<links, appended, detached, invocations, gone, cut>>
    /\ \A u \in Threads \ {t} : /\ pc'[u] = pc[u] /\ head'[u] = head[u] /\ node'[u] = node[u]
                                /\ consumed'[u] = consumed[u] /\ due'[u] = due[u]
                                /\ called'[u] = called[u]

\* A step of invoke that leaves the lists alone disturbs no other invocation.
LEMMA AloneGood ==
    ASSUME TypeOK', NEW t \in Threads, Alone(t),
           NEW M \in SUBSET Handlers, NEW W \in SUBSET Handlers, Lists(M, W),
           \A u \in Threads : Placed(u) /\ Known(u, M) /\ Walks(u, M),
           Placed(t)' /\ Known(t, M)' /\ Walks(t, M)'
    PROVE  IInv'
<1>1. L' = L /\ next' = next /\ appended' = appended /\ detached' = detached
      /\ gone' = gone /\ cut' = cut
  BY DEF Alone, links, L
<1>2. Lists(M, W)'
  BY <1>1 DEF Lists
<1>3. ASSUME NEW u \in Threads, u # t PROVE Placed(u)' /\ Known(u, M)' /\ Walks(u, M)'
  <2>1. /\ pc'[u] = pc[u] /\ head'[u] = head[u] /\ node'[u] = node[u]
        /\ consumed'[u] = consumed[u] /\ due'[u] = due[u] /\ called'[u] = called[u]
    BY <1>3 DEF Alone
  <2>2. Taken(u)' = Taken(u)
    BY <2>1 DEF Taken
  <2>3. Placed(u)'
    BY <2>1, <2>2 DEF Placed
  <2>4. Known(u, M)'
    BY <1>1, <2>1, <2>2 DEF Known
  <2>5. \A Z : Reaches(u, Z)' <=> Reaches(u, Z)
    BY <1>1, <2>1, <2>2 DEF Reaches
  <2>6. Walks(u, M)'
    BY <1>1, <2>1, <2>5 DEF Walks
  <2>7. QED
    BY <2>3, <2>4, <2>6
<1>4. \A u \in Threads : Placed(u)' /\ Known(u, M)' /\ Walks(u, M)'
  BY <1>3
<1>5. QED
  BY <1>2, <1>4 DEF IInv

\* The handlers of a list that its first node leads to
LEMMA ChainOfFront ==
    ASSUME NEW M, NEW W, Two(L, M, W)
    PROVE  Chain(front) = M /\ Chain(newFront) = W
<1>1. List(next, front, M) /\ List(next, newFront, W)
  BY LinksAre DEF Two
<1>2. QED
  BY <1>1, ChainIsChainOf, ChainOfList

\* The walk begins at the first handler.
LEMMA ReadFrontGood ==
    ASSUME IInv, NEW t \in Threads, ReadFront(t)
    PROVE  IInv'
<1>1. PICK M \in SUBSET Handlers, W \in SUBSET Handlers :
        Lists(M, W) /\ \A u \in Threads : Placed(u) /\ Known(u, M) /\ Walks(u, M)
  BY DEF IInv
<1>2. TypeOK
  BY DEF IInv
<1>3. /\ pc[t] = "head" /\ head' = [head EXCEPT ![t] = front]
      /\ pc' = [pc EXCEPT ![t] = IF front = Null THEN "idle" ELSE "take"]
      /\ due' = [due EXCEPT ![t] = Chain(front)]
      /\ UNCHANGED <<links, appended, detached, node, consumed, invocations, gone, called, cut>>
  BY DEF ReadFront
<1>4. /\ Two(L, M, W) /\ M \intersect detached = {} /\ Chain(front) = M
      /\ List(next, front, M) /\ M \subseteq Handlers
  BY <1>1, <1>2, SetsAre, ChainOfFront, LinksAre DEF Two
<1>5. front \in M \union {Null} /\ (front = Null => M = {})
  BY <1>4 DEF List
<1>6. /\ head'[t] = front /\ pc'[t] = (IF front = Null THEN "idle" ELSE "take")
      /\ due'[t] = M /\ called' = called /\ node' = node
      /\ \A u \in Threads \ {t} : head'[u] = head[u] /\ pc'[u] = pc[u] /\ due'[u] = due[u]
  BY <1>2, <1>3, <1>4 DEF TypeOK
<1>7. TypeOK'
  BY <1>2, <1>3, <1>4, <1>5 DEF TypeOK
<1>8. Alone(t)
  BY <1>3, <1>6 DEF Alone
<1>9. node[t] = Null /\ Taken(t) = {} /\ Placed(t) /\ Known(t, M)
  BY <1>1, <1>3 DEF Placed
<1>10. Taken(t)' = {}
  BY <1>3, <1>6, <1>9 DEF Taken
<1>11. Placed(t)'
  BY <1>5, <1>6, <1>9, <1>10 DEF Placed
<1>12. Known(t, M)'
  <2>1. front \notin detached
    BY <1>2, <1>4, <1>5, NullAssumption DEF TypeOK
  <2>2. detached' = detached /\ gone' = gone /\ cut' = cut
    BY <1>3
  <2>3. QED
    BY <1>5, <1>6, <1>9, <1>10, <2>1, <2>2 DEF Known
<1>13. Walks(t, M)'
  <2>1. next' = next
    BY <1>3 DEF links
  <2>2. Reaches(t, M)'
    BY <1>6, <1>10 DEF Reaches
  <2>3. QED
    BY <1>4, <1>6, <2>1, <2>2 DEF Walks
<1>14. QED
  BY <1>1, <1>7, <1>8, <1>11, <1>12, <1>13, AloneGood

\* The walk takes a node, and goes on after it.
LEMMA TakeGood ==
    ASSUME IInv, NEW t \in Threads, Take(t)
    PROVE  IInv'
<1> DEFINE h == head[t]
<1>1. PICK M \in SUBSET Handlers, W \in SUBSET Handlers :
        Lists(M, W) /\ \A u \in Threads : Placed(u) /\ Known(u, M) /\ Walks(u, M)
  BY DEF IInv
<1>2. TypeOK
  BY DEF IInv
<1>3. /\ pc[t] = "take" /\ node' = [node EXCEPT ![t] = h]
      /\ head' = [head EXCEPT ![t] = next[h]] /\ pc' = [pc EXCEPT ![t] = "call"]
      /\ UNCHANGED <<links, appended, detached, consumed, invocations, due, gone, called, cut>>
  BY DEF Take, ghost
<1>4. Placed(t) /\ Known(t, M) /\ Walks(t, M)
  BY <1>1
<1>5. h \in Handlers /\ h \in M \union detached
  <2>1. h # Null
    BY <1>3, <1>4 DEF Placed
  <2>2. QED
    BY <1>2, <1>4, <2>1 DEF Known, TypeOK
<1>6. /\ Two(L, M, W) /\ M \subseteq Handlers /\ M \intersect detached = {}
      /\ W \intersect detached = {}
      /\ \A n \in Handlers : n \notin M \union W => next[n] = Null
  BY <1>1, <1>2, SetsAre
\* What comes after the node, and the handlers that the walk has yet to come by
<1>7. PICK Z \in SUBSET M :
        /\ List(next, next[h], Z) /\ h \notin Z /\ Z \intersect Taken(t) = {}
        /\ ~cut[t] => due[t] \ detached \subseteq Taken(t) \union {h} \union Z
  <2>1. CASE h \in detached
    <3>1. next[h] = Null /\ cut[t]
      BY <1>4, <1>5, <1>6, <2>1 DEF Known
    <3>2. List(next, Null, {})
      BY DEF List
    <3>3. {} \in SUBSET M /\ h \notin {} /\ {} \intersect Taken(t) = {}
      OBVIOUS
    <3>4. QED
      BY <3>1, <3>2, <3>3
  <2>2. CASE h \notin detached
    <3>1. PICK Y \in SUBSET M : List(next, h, Y) /\ Reaches(t, Y)
      BY <1>4, <2>2 DEF Walks
    <3>2. h # Null
      BY <1>5, NullAssumption
    <3>3. List(next, next[h], Y \ {h})
      BY <3>1, <3>2, ListPopped
    <3>4. h \in Y
      BY <3>1, <3>2 DEF List
    <3>5. /\ Y \ {h} \in SUBSET M /\ h \notin Y \ {h} /\ (Y \ {h}) \intersect Taken(t) = {}
          /\ ~cut[t] => due[t] \ detached \subseteq Taken(t) \union {h} \union (Y \ {h})
      BY <1>3, <3>1, <3>4 DEF Reaches
    <3>6. QED
      BY <3>3, <3>5
  <2>3. QED
    BY <2>1, <2>2
<1>8. next[h] \in Z \union {Null}
  BY <1>7 DEF List
<1>9. /\ node'[t] = h /\ head'[t] = next[h] /\ pc'[t] = "call"
      /\ \A u \in Threads \ {t} : head'[u] = head[u] /\ pc'[u] = pc[u] /\ node'[u] = node[u]
  BY <1>2, <1>3 DEF TypeOK
<1>10. TypeOK'
  <2>1. next[h] \in Handlers \union {Null} /\ h \in Handlers \union {Null}
    BY <1>5, <1>6, <1>8
  <2> HIDE DEF h
  <2>2. QED
    BY <1>2, <1>3, <2>1 DEF TypeOK
<1>11. Alone(t)
  BY <1>3, <1>9 DEF Alone
<1>12. Taken(t)' = Taken(t) \union {h} /\ h \notin Taken(t)
  <2>1. h \notin Taken(t)
    BY <1>4 DEF Known
  <2>2. QED
    BY <1>3, <1>5, <1>9, <2>1 DEF Taken
<1> HIDE DEF h
<1>13. Placed(t)'
  <2>1. called[t][h] = 0
    BY <1>2, <1>5, <1>12 DEF Taken, TypeOK
  <2>2. h # Null
    BY <1>5, NullAssumption
  <2>3. QED
    BY <1>3, <1>9, <2>1, <2>2 DEF Placed
<1>14. Known(t, M)'
  <2>1. next[h] \notin detached
    BY <1>2, <1>6, <1>7, <1>8, NullAssumption DEF TypeOK
  <2>2. next[h] \notin gone[t] /\ h \notin gone[t]
    BY <1>4, <2>1 DEF Known, h
  <2>3. next[h] \notin Taken(t) \union {h}
    BY <1>5, <1>7, <1>8, NullAssumption DEF Taken
  <2>4. detached' = detached /\ gone' = gone /\ cut' = cut
    BY <1>3
  <2>5. next[h] \in M \union {Null}
    BY <1>7, <1>8
  <2>6. QED
    BY <1>4, <1>5, <1>9, <1>12, <2>1, <2>2, <2>3, <2>4, <2>5 DEF Known
<1>15. Walks(t, M)'
  <2>1. next' = next /\ detached' = detached /\ cut' = cut /\ due' = due
    BY <1>3 DEF links
  <2>2. Reaches(t, Z)'
    BY <1>7, <1>9, <1>12, <2>1 DEF Reaches
  <2>3. QED
    BY <1>7, <1>9, <2>1, <2>2 DEF Walks
<1>16. QED
  BY <1>1, <1>10, <1>11, <1>13, <1>14, <1>15, AloneGood

\* A handler is called once.
LEMMA CallGood ==
    ASSUME IInv, NEW t \in Threads, Call(t)
    PROVE  IInv'
<1> DEFINE h == node[t]
<1>1. PICK M \in SUBSET Handlers, W \in SUBSET Handlers :
        Lists(M, W) /\ \A u \in Threads : Placed(u) /\ Known(u, M) /\ Walks(u, M)
  BY DEF IInv
<1>2. TypeOK
  BY DEF IInv
<1>3. /\ pc[t] = "call" /\ called' = [called EXCEPT ![t][h] = @ + 1]
      /\ UNCHANGED <<links, appended, detached, head, node, invocations, due, gone, cut>>
  BY DEF Call
<1>4. PICK expire \in BOOLEAN, consume \in BOOLEAN :
        /\ pc' = [pc EXCEPT ![t] = IF expire THEN "expire" ELSE "relock"]
        /\ consumed' = [consumed EXCEPT ![t] = consume]
  BY DEF Call
<1>5. Placed(t) /\ Known(t, M) /\ Walks(t, M)
  BY <1>1
<1>6. h \in Handlers /\ called[t][h] = 0
  BY <1>2, <1>3, <1>5 DEF Placed, TypeOK
<1>7. /\ called'[t] = [called[t] EXCEPT ![h] = 1]
      /\ called'[t] \in [Handlers -> {0, 1}]
      /\ \A u \in Threads \ {t} : called'[u] = called[u]
  <2>1. called'[t] = [called[t] EXCEPT ![h] = called[t][h] + 1]
    BY <1>2, <1>3 DEF TypeOK
  <2>2. called[t] \in [Handlers -> {0, 1}]
    BY <1>2 DEF TypeOK
  <2>3. called'[t] = [called[t] EXCEPT ![h] = 1]
    BY <1>6, <2>1
  <2>4. \A u \in Threads \ {t} : called'[u] = called[u]
    BY <1>2, <1>3 DEF TypeOK
  <2> HIDE DEF h
  <2>5. QED
    BY <1>6, <2>2, <2>3, <2>4
<1>8. /\ pc'[t] = (IF expire THEN "expire" ELSE "relock")
      /\ \A u \in Threads \ {t} : pc'[u] = pc[u] /\ consumed'[u] = consumed[u]
  BY <1>2, <1>4 DEF TypeOK
<1>9. TypeOK'
  <2>1. called' \in [Threads -> [Handlers -> {0, 1}]]
    <3>1. called' = [u \in Threads |-> called'[u]]
      BY <1>2, <1>3 DEF TypeOK
    <3>2. \A u \in Threads : called'[u] \in [Handlers -> {0, 1}]
      BY <1>2, <1>7 DEF TypeOK
    <3>3. QED
      BY <3>1, <3>2
  <2>2. pc' \in [Threads -> {"idle", "head", "take", "call", "expire", "relock", "stuck"}]
    BY <1>2, <1>4 DEF TypeOK
  <2>3. consumed' \in [Threads -> BOOLEAN]
    BY <1>2, <1>4 DEF TypeOK
  <2>4. QED
    BY <1>2, <1>3, <2>1, <2>2, <2>3 DEF TypeOK
<1>10. Alone(t)
  BY <1>3, <1>7, <1>8 DEF Alone
<1>11. Taken(t)' = Taken(t) /\ h \in Taken(t)
  <2>1. called[t] \in [Handlers -> {0, 1}]
    BY <1>2 DEF TypeOK
  <2>2. \A n \in Handlers : called'[t][n] = 1 <=> called[t][n] = 1 \/ n = h
    BY <1>6, <1>7, <2>1
  <2>3. pc'[t] # "call" /\ node' = node
    BY <1>3, <1>8
  <2>4. QED
    BY <1>3, <1>6, <2>2, <2>3 DEF Taken
<1>12. Placed(t)'
  <2>1. called'[t][h] = 1 /\ h # Null /\ node' = node /\ pc'[t] \in {"expire", "relock"}
    BY <1>2, <1>3, <1>6, <1>7, <1>8, NullAssumption DEF TypeOK
  <2>2. QED
    BY <2>1 DEF Placed
<1>13. Known(t, M)'
  <2>1. head' = head /\ node' = node /\ detached' = detached /\ gone' = gone /\ cut' = cut
    BY <1>3
  <2>2. QED
    BY <1>5, <1>11, <2>1 DEF Known
<1>14. Walks(t, M)'
  <2>1. next' = next /\ head' = head /\ detached' = detached /\ cut' = cut /\ due' = due
    BY <1>3 DEF links
  <2>2. \A Z : Reaches(t, Z) => Reaches(t, Z)'
    BY <1>3, <1>11, <2>1 DEF Reaches
  <2>3. QED
    BY <1>5, <2>1, <2>2 DEF Walks
<1>15. QED
  BY <1>1, <1>9, <1>10, <1>12, <1>13, <1>14, AloneGood

\* The node is dropped, and the walk goes on or ends: at the end of the list it came by all.
LEMMA RelockGood ==
    ASSUME IInv, NEW t \in Threads, Relock(t)
    PROVE  IInv'
<1> DEFINE done == consumed[t] \/ head[t] = Null
<1>1. PICK M \in SUBSET Handlers, W \in SUBSET Handlers :
        Lists(M, W) /\ \A u \in Threads : Placed(u) /\ Known(u, M) /\ Walks(u, M)
  BY DEF IInv
<1>2. TypeOK
  BY DEF IInv
<1>3. /\ pc[t] = "relock"
      /\ pc' = [pc EXCEPT ![t] = IF LastReference(t) THEN "stuck"
                                 ELSE IF done THEN "idle" ELSE "take"]
      /\ node' = [node EXCEPT ![t] = Null]
      /\ head' = [head EXCEPT ![t] = IF done THEN Null ELSE head[t]]
      /\ UNCHANGED <<links, appended, detached, consumed, invocations, due, gone, called, cut>>
  BY DEF Relock, ghost
<1>4. Placed(t) /\ Known(t, M) /\ Walks(t, M)
  BY <1>1
<1>5. /\ node'[t] = Null /\ head'[t] = (IF done THEN Null ELSE head[t])
      /\ pc'[t] \in {"stuck", "idle", "take"}
      /\ pc'[t] = "idle" => done
      /\ pc'[t] = "take" => ~done
      /\ \A u \in Threads \ {t} : head'[u] = head[u] /\ pc'[u] = pc[u] /\ node'[u] = node[u]
  BY <1>2, <1>3 DEF TypeOK
<1>6. TypeOK'
  <2>1. (IF done THEN Null ELSE head[t]) \in Handlers \union {Null}
    BY <1>2 DEF TypeOK
  <2>2. head' \in [Threads -> Handlers \union {Null}]
    BY <1>2, <1>3, <2>1 DEF TypeOK
  <2>3. node' \in [Threads -> Handlers \union {Null}]
    BY <1>2, <1>3 DEF TypeOK
  <2>4. pc' \in [Threads -> {"idle", "head", "take", "call", "expire", "relock", "stuck"}]
    BY <1>2, <1>3 DEF TypeOK
  <2>5. QED
    BY <1>2, <1>3, <2>2, <2>3, <2>4 DEF TypeOK
<1>7. Alone(t)
  BY <1>3, <1>5 DEF Alone
<1>8. Taken(t)' = Taken(t)
  BY <1>3, <1>5 DEF Taken
<1>9. Placed(t)'
  BY <1>5 DEF Placed
<1>10. Null \notin detached /\ Null \notin gone[t] /\ Null \notin Taken(t)
  BY <1>2, NullAssumption DEF TypeOK, Taken
<1>11. Known(t, M)'
  <2>1. detached' = detached /\ gone' = gone /\ cut' = cut
    BY <1>3
  <2>2. head'[t] \in {head[t], Null}
    BY <1>5
  <2>3. QED
    BY <1>4, <1>5, <1>8, <1>10, <2>1, <2>2 DEF Known
<1>12. Walks(t, M)'
  <2>1. next' = next /\ detached' = detached /\ cut' = cut /\ due' = due /\ consumed' = consumed
    BY <1>3 DEF links
  <2>2. CASE head'[t] = head[t]
    <3>1. \A Z \in SUBSET M : List(next, head[t], Z) /\ Reaches(t, Z) => Reaches(t, Z)'
      BY <1>3, <1>8, <2>1 DEF Reaches
    <3>2. QED
      BY <1>4, <2>1, <2>2, <3>1 DEF Walks
  <2>3. CASE head'[t] # head[t]
    <3>1. head'[t] = Null /\ consumed[t] /\ pc'[t] # "take"
      BY <1>5, <2>3
    <3>2. List(next, Null, {})
      BY DEF List
    <3>3. Reaches(t, {})'
      BY <1>5, <2>1, <3>1 DEF Reaches
    <3>4. QED
      BY <2>1, <3>1, <3>2, <3>3 DEF Walks
  <2>4. QED
    BY <2>2, <2>3
<1>13. QED
  BY <1>1, <1>6, <1>7, <1>9, <1>11, <1>12, AloneGood

\* At the start the event has no handlers.
LEMMA InitGood ==
    ASSUME Init
    PROVE  IInv
<1> USE DEF Init
<1>1. TypeOK
  BY DEF TypeOK
<1>2. Lists({}, {})
  <2>1. L.next = NoLink /\ L.prev = NoLink /\ L.front = Null /\ L.newFront = Null
    BY LinksAre
  <2>2. L \in Links
    BY DEF L, Links, NoLink
  <2>3. \A n \in Handlers : L.next[n] = Null /\ L.prev[n] = Null
    BY <2>1 DEF NoLink
  <2>4. List(L.next, Null, {})
    BY DEF List
  <2>5. Two(L, {}, {})
    BY <2>1, <2>2, <2>3, <2>4 DEF Two
  <2>6. Back(L, Handlers)
    BY <2>3, NullAssumption DEF Back
  <2>7. {} \union {} = appended \ detached
    OBVIOUS
  <2>8. QED
    BY <2>5, <2>6, <2>7 DEF Lists
<1>3. ASSUME NEW t \in Threads PROVE Placed(t) /\ Known(t, {}) /\ Walks(t, {})
  <2>1. Taken(t) = {}
    BY DEF Taken
  <2>2. Placed(t) /\ Known(t, {})
    BY <2>1 DEF Placed, Known
  <2>3. List(next, Null, {})
    BY DEF List
  <2>4. Reaches(t, {})
    BY DEF Reaches
  <2>5. QED
    BY <2>2, <2>3, <2>4 DEF Walks
<1>4. QED
  BY <1>1, <1>2, <1>3 DEF IInv

\* No step of a thread, of append or of a handle breaks the invariant.
LEMMA StepGood ==
    ASSUME IInv, [Next]_vars
    PROVE  IInv'
<1>1. CASE UNCHANGED vars
  <2>1. /\ L' = L /\ next' = next
        /\ UNCHANGED <<appended, detached, pc, head, node, consumed, due, gone, called, cut>>
    BY <1>1 DEF vars, links, local, ghost, L
  <2>2. TypeOK'
    BY <2>1 DEF IInv, TypeOK
  <2>3. PICK M \in SUBSET Handlers, W \in SUBSET Handlers :
          Lists(M, W) /\ \A u \in Threads : Placed(u) /\ Known(u, M) /\ Walks(u, M)
    BY DEF IInv
  <2>4. Lists(M, W)'
    BY <2>1, <2>3 DEF Lists
  <2>5. ASSUME NEW t \in Threads PROVE Placed(t)' /\ Known(t, M)' /\ Walks(t, M)'
    <3>1. Taken(t)' = Taken(t)
      BY <2>1 DEF Taken
    <3>2. Placed(t)' /\ Known(t, M)'
      BY <2>1, <2>3, <3>1 DEF Placed, Known
    <3>3. \A Z : Reaches(t, Z)' <=> Reaches(t, Z)
      BY <2>1, <3>1 DEF Reaches
    <3>4. Walks(t, M)'
      BY <2>1, <2>3, <3>3 DEF Walks
    <3>5. QED
      BY <3>2, <3>4
  <2>6. QED
    BY <2>2, <2>4, <2>5 DEF IInv
<1>2. ASSUME NEW h \in Handlers, Append(h) \/ Remove(h) PROVE IInv'
  BY <1>2, AppendGood, RemoveGood
<1>3. ASSUME NEW t \in Threads, Step(t) PROVE IInv'
  BY <1>3, InvokeGood, ReadFrontGood, TakeGood, CallGood, ExpireGood, RelockGood DEF Step
<1>4. QED
  BY <1>1, <1>2, <1>3 DEF Next

\* The two lists of a state, and the handlers that an invocation called
LEMMA IInvLinked == IInv => Linked
<1> SUFFICES ASSUME IInv PROVE Linked
  OBVIOUS
<1>1. PICK M \in SUBSET Handlers, W \in SUBSET Handlers : Lists(M, W)
  BY DEF IInv
<1>2. TypeOK
  BY DEF IInv
<1>3. /\ Two(L, M, W) /\ Back(L, Handlers) /\ M \intersect W = {} /\ M \union W = appended \ detached
      /\ Chain(front) = M /\ Chain(newFront) = W
  BY <1>1, <1>2, SetsAre, ChainOfFront DEF Lists
<1>4. /\ \A m, n \in Handlers : next[m] = next[n] /\ next[m] # Null => m = n
      /\ \A m \in Handlers : next[m] # Null => next[m] \notin {front, newFront}
  BY <1>3, TwoLists, LinksAre
<1>5. \A h \in Handlers \ (appended \ detached) : next[h] = Null /\ prev[h] = Null
  BY <1>3, LinksAre DEF Two
<1>6. ASSUME NEW h \in appended \ detached
      PROVE  prev[h] = IF h \in {front, newFront} THEN Null ELSE CHOOSE n \in Handlers : next[n] = h
  <2>1. h \in Handlers /\ h # Null
    BY <1>2, NullAssumption DEF TypeOK
  <2>2. IF prev[h] = Null THEN \A m \in Handlers : next[m] # h ELSE next[prev[h]] = h
    BY <1>3, <2>1, LinksAre DEF Back
  <2>3. prev[h] \in Handlers \union {Null}
    <3>1. L \in Links
      BY <1>3 DEF Two
    <3>2. prev \in [Handlers -> Handlers \union {Null}]
      BY <3>1, LinksAre DEF Links
    <3>3. QED
      BY <2>1, <3>2
  <2>4. CASE h \in {front, newFront}
    BY <1>4, <2>1, <2>2, <2>3, <2>4
  <2>5. CASE h \notin {front, newFront}
    <3>1. \E m \in Handlers : next[m] = h
      <4>1. CASE h \in M
        <5>1. List(next, front, M)
          BY <1>3, LinksAre DEF Two
        <5>2. QED
          BY <2>5, <4>1, <5>1 DEF List
      <4>2. CASE h \in W
        <5>1. List(next, newFront, W)
          BY <1>3, LinksAre DEF Two
        <5>2. QED
          BY <2>5, <4>2, <5>1 DEF List
      <4>3. QED
        BY <1>3, <4>1, <4>2
    <3>2. prev[h] \in Handlers /\ next[prev[h]] = h
      BY <2>2, <2>3, <3>1
    <3>3. \A m \in Handlers : next[m] = h => m = prev[h]
      BY <1>4, <2>1, <3>2
    <3>4. (CHOOSE n \in Handlers : next[n] = h) = prev[h]
      BY <3>2, <3>3
    <3>5. QED
      BY <2>5, <3>4
  <2>6. QED
    BY <2>4, <2>5
<1>7. QED
  BY <1>3, <1>4, <1>5, <1>6 DEF Linked

\* A walk that ended by itself came by all handlers that were due and not detached.
LEMMA IInvInvoked == IInv => Invoked
<1> SUFFICES ASSUME IInv, NEW t \in Threads
    PROVE  /\ \A h \in Handlers : called[t][h] <= 1 /\ (h \in gone[t] => called[t][h] = 0)
           /\ pc[t] = "idle" /\ ~consumed[t] /\ ~cut[t] =>
                 \A h \in due[t] \ detached : called[t][h] = 1
  BY DEF Invoked
<1>1. PICK M \in SUBSET Handlers, W \in SUBSET Handlers :
        Lists(M, W) /\ \A u \in Threads : Placed(u) /\ Known(u, M) /\ Walks(u, M)
  BY DEF IInv
<1>2. TypeOK
  BY DEF IInv
<1>3. \A h \in Handlers : called[t][h] \in {0, 1}
  BY <1>2 DEF TypeOK
<1>4. \A h \in Handlers : h \in gone[t] => called[t][h] = 0
  BY <1>1, <1>3 DEF Known, Taken
<1>5. ASSUME pc[t] = "idle", ~consumed[t], ~cut[t], NEW h \in due[t] \ detached
      PROVE  called[t][h] = 1
  <2>1. head[t] = Null
    BY <1>1, <1>5 DEF Placed
  <2>2. Null \notin detached
    BY <1>2, NullAssumption DEF TypeOK
  <2>3. PICK Z \in SUBSET M : List(next, Null, Z) /\ Reaches(t, Z)
    BY <1>1, <2>1, <2>2 DEF Walks
  <2>4. Z = {}
    BY <2>3 DEF List
  <2>5. h \in Taken(t)
    BY <1>5, <2>3, <2>4 DEF Reaches
  <2>6. QED
    BY <1>5, <2>5 DEF Taken
<1>6. QED
  BY <1>3, <1>4, <1>5

\* However threads append, remove and invoke: the lists stay well linked, and each walk is on them.
THEOREM Invariant == Spec => []IInv
<1>1. QED
  BY InitGood, StepGood, PTL DEF Spec

\* However threads append, remove, invoke and expire, for any number of handlers of any
\* priorities: the two lists hold each node once that was appended and not detached, with
\* p_prev the inverse of p_next, and a detached node is linked to nothing.
THEOREM ListsLinked == Spec => []Linked
<1>1. QED
  BY Invariant, IInvLinked, PTL

\* No invocation calls a handler twice or one that was removed before it began, and each calls
\* all that were in the list, but those removed before their turn, unless a handler consumed
\* the event or the node it was about to take was removed.
THEOREM InvokedRight == Spec => []Invoked
<1>1. QED
  BY Invariant, IInvInvoked, PTL
=============================================================================
