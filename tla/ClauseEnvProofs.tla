--------------------------- MODULE ClauseEnvProofs ---------------------------
(***************************************************************************)
(* What a clause finds in its environment, for any clauses, bindings and   *)
(* names, whatever earlier clauses assigned; and whose id is whose.        *)
(***************************************************************************)
EXTENDS ClauseEnv, Recursion

-----------------------------------------------------------------------------
(* What Retain keeps.                                                      *)

\* f[n] is what is kept of the first n.
Retains(f, s, kept) ==
  /\ f[0] = <<>>
  /\ \A n \in 1 .. Len(s) : f[n] = IF n \in kept THEN Append(f[n - 1], s[n]) ELSE f[n - 1]
  /\ Retain(s, kept) = f[Len(s)]

LEMMA RetainRecursion ==
  ASSUME NEW S, NEW s \in Seq(S), NEW kept
  PROVE  \E f \in [0 .. Len(s) -> Seq(S)] : Retains(f, s, kept)
<1> DEFINE N == Len(s)
           Nth(f, n) == IF n = 0 THEN <<>>
                        ELSE IF n \in kept THEN Append(f[n - 1], s[n])
                        ELSE f[n - 1]
           step == [c \in (1 .. N) \X Seq(S) |-> IF c[1] \in kept THEN Append(c[2], s[c[1]]) ELSE c[2]]
<1>1. N \in Nat /\ DOMAIN s = 1 .. N /\ <<>> \in Seq(S)
  BY LenProperties, EmptySeq
<1>2. step \in [(1 .. N) \X Seq(S) -> Seq(S)]
  <2>1. ASSUME NEW c \in (1 .. N) \X Seq(S)
        PROVE  (IF c[1] \in kept THEN Append(c[2], s[c[1]]) ELSE c[2]) \in Seq(S)
    <3>1. c[1] \in 1 .. N /\ c[2] \in Seq(S)
      OBVIOUS
    <3>2. s[c[1]] \in S
      BY <3>1, ElementOfSeq
    <3>3. QED
      BY <3>1, <3>2, AppendProperties
  <2>2. QED
    BY <2>1
<1>3. PICK f \in [0 .. N -> Seq(S)] : Iterates(f, <<>>, step, N)
  <2> HIDE DEF step, N
  <2>1. QED
    BY <1>1, <1>2, Iteration, Zenon
<1>4. \A n \in 1 .. N : f[n] = Nth(f, n)
  <2>1. ASSUME NEW n \in 1 .. N
        PROVE  f[n] = Nth(f, n)
    <3>1. n - 1 \in 0 .. N /\ n # 0
      BY <1>1
    <3>2. <<n, f[n - 1]>> \in (1 .. N) \X Seq(S)
      BY <1>3, <3>1
    <3>3. QED
      BY <1>3, <3>1, <3>2 DEF Iterates
  <2>2. QED
    BY <2>1
<1>5. f = [n \in 0 .. N |-> Nth(f, n)]
  <2>1. \A n \in 0 .. N : f[n] = Nth(f, n)
    <3>1. \A n \in 0 .. N : n = 0 \/ n \in 1 .. N
      BY <1>1
    <3>2. QED
      BY <1>3, <1>4, <3>1 DEF Iterates
  <2>2. f = [n \in 0 .. N |-> f[n]]
    BY <1>3
  <2> HIDE DEF Nth
  <2>3. QED
    BY <2>1, <2>2
<1> DEFINE g == CHOOSE h : h = [n \in 0 .. N |-> Nth(h, n)]
<1>6. g = [n \in 0 .. N |-> Nth(g, n)]
  <2> HIDE DEF Nth
  <2>1. QED
    BY <1>5, Zenon
<1>7. Retain(s, kept) = g[N]
  BY Zenon DEF Retain
<1> HIDE DEF g
<1>8. g \in [0 .. N -> Seq(S)]
  <2> DEFINE T == {n \in Nat : g[n] \in Seq(S)}
  <2>1. 0 \in T
    <3>1. g[0] = <<>>
      BY <1>1, <1>6
    <3>2. QED
      BY <1>1, <3>1
  <2>2. ASSUME NEW n \in T, n + 1 <= N
        PROVE  n + 1 \in T
    <3>1. n + 1 \in 0 .. N /\ n + 1 \in 1 .. N /\ (n + 1) - 1 = n /\ n + 1 # 0
      BY <1>1, <2>2
    <3>2. g[n + 1] = IF n + 1 \in kept THEN Append(g[n], s[n + 1]) ELSE g[n]
      BY <1>6, <3>1
    <3>3. s[n + 1] \in S /\ g[n] \in Seq(S)
      BY <3>1, ElementOfSeq
    <3>4. Append(g[n], s[n + 1]) \in Seq(S)
      BY <3>3, AppendProperties
    <3>5. QED
      BY <3>2, <3>3, <3>4
  <2> HIDE DEF T
  <2>3. T \in SUBSET Nat
    BY DEF T
  <2>4. \A n \in 0 .. N : n \in T
    BY <1>1, <2>1, <2>2, <2>3, InductionUpTo
  <2>5. \A n \in 0 .. N : g[n] \in Seq(S)
    BY <2>4 DEF T
  <2>6. g = [n \in 0 .. N |-> g[n]]
    <3> HIDE DEF Nth
    <3>1. QED
      BY <1>6
  <2>7. QED
    BY <2>5, <2>6
<1>9. g[0] = <<>>
  BY <1>1, <1>6
<1>10. \A n \in 1 .. N : g[n] = IF n \in kept THEN Append(g[n - 1], s[n]) ELSE g[n - 1]
  <2>1. \A n \in 1 .. N : n \in 0 .. N /\ n # 0
    BY <1>1
  <2>2. \A n \in 0 .. N : g[n] = Nth(g, n)
    BY <1>6
  <2>3. QED
    BY <2>1, <2>2
<1>11. QED
  BY <1>7, <1>8, <1>9, <1>10 DEF Retains

\* The places of q in s rise, up to n, and are all kept.
Places(q, s, kept, n, at) ==
  /\ \A i \in DOMAIN q : q[i] = s[at[i]] /\ at[i] \in kept /\ at[i] <= n
  /\ \A i, j \in DOMAIN q : i < j => at[i] < at[j]

From(q, s, kept, n) == \E at \in [DOMAIN q -> DOMAIN s] : Places(q, s, kept, n, at)

\* What is kept is in s, in its order.
LEMMA RetainPlaces ==
  ASSUME NEW S, NEW s \in Seq(S), NEW kept
  PROVE  Retain(s, kept) \in Seq(S) /\ From(Retain(s, kept), s, kept, Len(s))
<1> DEFINE N == Len(s)
<1>1. N \in Nat /\ DOMAIN s = 1 .. N /\ <<>> \in Seq(S)
  BY LenProperties, EmptySeq
<1>2. PICK f \in [0 .. N -> Seq(S)] : Retains(f, s, kept)
  BY RetainRecursion
<1>a. /\ f[0] = <<>>
      /\ \A n \in 1 .. N : f[n] = IF n \in kept THEN Append(f[n - 1], s[n]) ELSE f[n - 1]
      /\ Retain(s, kept) = f[N]
  BY <1>2 DEF Retains
<1> HIDE DEF N
<1> DEFINE T == {n \in Nat : From(f[n], s, kept, n)}
<1>3. 0 \in T
  <2>1. DOMAIN f[0] = {}
    BY <1>a
  <2>2. [i \in {} |-> 1] \in [DOMAIN f[0] -> DOMAIN s]
    BY <2>1
  <2>3. From(f[0], s, kept, 0)
    BY <2>1, <2>2 DEF From, Places
  <2>4. QED
    BY <2>3
<1>4. ASSUME NEW n \in T, n + 1 <= N
      PROVE  n + 1 \in T
  <2>1. /\ n + 1 \in 1 .. N /\ (n + 1) - 1 = n /\ n \in 0 .. N /\ n + 1 \in DOMAIN s
    BY <1>1, <1>4
  <2>2. f[n] \in Seq(S) /\ s[n + 1] \in S
    BY <1>1, <2>1, ElementOfSeq
  <2>b. PICK at \in [DOMAIN f[n] -> DOMAIN s] : Places(f[n], s, kept, n, at)
    BY DEF From
  <2>3. /\ \A i \in DOMAIN f[n] : f[n][i] = s[at[i]] /\ at[i] \in kept /\ at[i] <= n
        /\ \A i, j \in DOMAIN f[n] : i < j => at[i] < at[j]
    BY <2>b DEF Places
  <2>a. \A i \in DOMAIN f[n] : at[i] \in Nat
    BY <1>1
  <2>4. CASE n + 1 \in kept
    <3> DEFINE q == Append(f[n], s[n + 1])
               more == [i \in DOMAIN q |-> IF i \in DOMAIN f[n] THEN at[i] ELSE n + 1]
    <3>1. f[n + 1] = q
      BY <1>a, <2>1, <2>4
    <3>2. /\ q \in Seq(S) /\ Len(f[n]) \in Nat
          /\ DOMAIN f[n] = 1 .. Len(f[n]) /\ DOMAIN q = 1 .. Len(f[n]) + 1
          /\ \A i \in 1 .. Len(f[n]) : q[i] = f[n][i]
          /\ q[Len(f[n]) + 1] = s[n + 1]
      BY <2>2, AppendProperties, LenProperties
    <3> HIDE DEF q
    <3>3. more \in [DOMAIN q -> DOMAIN s]
      BY <2>1, <2>3
    <3>4. \A i \in DOMAIN q : i \in DOMAIN f[n] \/ i = Len(f[n]) + 1
      <4>1. \A l \in Nat : \A i \in 1 .. l + 1 : i \in 1 .. l \/ i = l + 1
        OBVIOUS
      <4>2. QED
        BY <3>2, <4>1, Zenon
    <3>5. Len(f[n]) + 1 \notin DOMAIN f[n]
      BY <3>2
    <3>6. ASSUME NEW i \in DOMAIN q
          PROVE  q[i] = s[more[i]] /\ more[i] \in kept /\ more[i] <= n + 1
      BY <2>3, <2>4, <2>a, <3>2, <3>4, <3>5
    <3>7. ASSUME NEW i \in DOMAIN q, NEW j \in DOMAIN q, i < j
          PROVE  more[i] < more[j]
      <4>1. i \in DOMAIN f[n] /\ more[i] = at[i]
        BY <3>2, <3>7
      <4>2. CASE j \in DOMAIN f[n]
        BY <2>3, <3>7, <4>1, <4>2
      <4>3. CASE j \notin DOMAIN f[n]
        BY <2>3, <2>a, <4>1, <4>3
      <4>4. QED
        BY <4>2, <4>3
    <3> HIDE DEF more
    <3>8. From(q, s, kept, n + 1)
      BY <3>3, <3>6, <3>7 DEF From, Places
    <3>9. QED
      BY <3>1, <3>8
  <2>5. CASE n + 1 \notin kept
    <3>1. f[n + 1] = f[n]
      BY <1>a, <2>1, <2>5
    <3>2. \A i \in DOMAIN f[n] : at[i] <= n + 1
      BY <2>3, <2>a
    <3>3. From(f[n], s, kept, n + 1)
      BY <2>3, <3>2 DEF From, Places
    <3>4. QED
      BY <3>1, <3>3
  <2>6. QED
    BY <2>4, <2>5
<1> HIDE DEF T
<1>5. T \in SUBSET Nat
  BY DEF T
<1>6. \A n \in 0 .. N : n \in T
  BY <1>1, <1>3, <1>4, <1>5, InductionUpTo
<1>7. From(f[N], s, kept, N)
  <2>1. N \in 0 .. N
    BY <1>1
  <2>2. QED
    BY <1>6, <2>1 DEF T
<1>8. QED
  BY <1>1, <1>a, <1>7 DEF N

-----------------------------------------------------------------------------
(* Paths.                                                                  *)

LEMMA PathShape ==
  ASSUME NEW p \in Path
  PROVE  <<p[1]>> \in Path /\ \E a, b : p = <<a>> \/ p = <<a, b>>
<1>1. CASE p \in Namespace
  BY <1>1, ClauseEnvAssumption
<1>2. CASE p \in {<<n>> : n \in Name \cup {"luaml"}}
  BY <1>2 DEF Path
<1>3. QED
  BY <1>1, <1>2 DEF Path

LEMMA PathPrefix ==
  ASSUME NEW p \in Path, NEW q \in Path
  PROVE  /\ IsPrefix(p, q) <=> p = q \/ p = <<q[1]>>
         /\ IsStrictPrefix(p, q) <=> p # q /\ p = <<q[1]>>
<1>1. PICK a, b : p = <<a>> \/ p = <<a, b>>
  BY PathShape, Zenon
<1>2. PICK c, d : q = <<c>> \/ q = <<c, d>>
  BY PathShape, Zenon
<1>3. q[1] = c
  BY <1>2
<1>4. \A x, y : <<x>> # <<x, y>> /\ Len(<<x>>) = 1 /\ Len(<<x, y>>) = 2
  OBVIOUS
<1>5. ASSUME NEW x, NEW y
      PROVE  /\ SubSeq(<<x>>, 1, 1) = <<x>>
             /\ SubSeq(<<x, y>>, 1, 1) = <<x>>
             /\ SubSeq(<<x, y>>, 1, 2) = <<x, y>>
  <2>1. <<x>> \in Seq({x, y}) /\ <<x, y>> \in Seq({x, y})
    OBVIOUS
  <2>2. \A s, t \in Seq({x, y}) :
          Len(s) = Len(t) /\ (\A i \in 1 .. Len(s) : s[i] = t[i]) => s = t
    BY SeqEqual
  <2>3. \A s \in Seq({x, y}) : \A n \in 1 .. Len(s) :
          /\ SubSeq(s, 1, n) \in Seq({x, y}) /\ Len(SubSeq(s, 1, n)) = n
          /\ \A i \in 1 .. n : SubSeq(s, 1, n)[i] = s[i]
    <3>1. TAKE s \in Seq({x, y})
    <3>2. TAKE n \in 1 .. Len(s)
    <3>3. \A i \in 1 .. n : s[i] \in {x, y}
      BY ElementOfSeq, LenProperties
    <3>4. QED
      BY <3>3, SubSeqProperties
  <2> DEFINE A == SubSeq(<<x>>, 1, 1)
             B == SubSeq(<<x, y>>, 1, 1)
             C == SubSeq(<<x, y>>, 1, 2)
  <2>4. /\ A \in Seq({x, y}) /\ Len(A) = 1 /\ A[1] = x
        /\ B \in Seq({x, y}) /\ Len(B) = 1 /\ B[1] = x
        /\ C \in Seq({x, y}) /\ Len(C) = 2 /\ C[1] = x /\ C[2] = y
    BY <2>1, <2>3
  <2> HIDE DEF A, B, C
  <2>5. A = <<x>>
    BY <2>1, <2>2, <2>4
  <2>6. B = <<x>>
    BY <2>1, <2>2, <2>4
  <2>7. C = <<x, y>>
    BY <2>1, <2>2, <2>4
  <2>8. QED
    BY <2>5, <2>6, <2>7 DEF A, B, C
<1>6. IsPrefix(p, q) <=> p = q \/ p = <<c>>
  BY <1>1, <1>2, <1>4, <1>5 DEF IsPrefix
<1>7. QED
  BY <1>3, <1>6 DEF IsStrictPrefix

-----------------------------------------------------------------------------
(* The globals while namespaces are bound in them.                         *)

LEMMA SpecShape ==
  ASSUME NEW s \in Specs
  PROVE  s.ns \in Path /\ <<s.ns[1]>> \in Path /\ s.handler \in Handler
<1>1. s.ns \in Namespace /\ s.handler \in Handler
  BY ClauseEnvAssumption
<1>2. s.ns \in Path
  BY <1>1 DEF Path
<1>3. QED
  BY <1>1, <1>2, PathShape

LEMMA Objects ==
  /\ \A h \in Handler : Api(h) \in Object /\ IsTable(Api(h))
  /\ Nil \in Object /\ Table \in Object /\ IsTable(Table)
  /\ Emitter("this run") \in Object /\ Emitter("an earlier run") \in Object
  BY DEF Object, Api, IsTable, Table

\* h is g with v at p.
Assigned(h, g, p, v) ==
  /\ h[p] = v
  /\ \A q \in Path : q[1] # p[1] => h[q] = g[q]
  /\ \A q \in Path : ~IsPrefix(p, q) => h[q] = g[q]

LEMMA AssignEffect ==
  ASSUME NEW g \in [Path -> Object], NEW p \in Path, NEW v \in Object
  PROVE  Assign(g, p, v) \in [Path -> Object] /\ Assigned(Assign(g, p, v), g, p, v)
<1>1. Assign(g, p, v) \in [Path -> Object]
  BY Objects DEF Assign
<1>2. \A q \in Path : IsStrictPrefix(p, q) => p # q /\ IsPrefix(p, q)
  BY DEF IsStrictPrefix
<1>3. \A q \in Path : IsPrefix(p, q) => p[1] = q[1]
  <2>1. \A q \in Path : <<q[1]>>[1] = q[1]
    OBVIOUS
  <2>2. QED
    BY <2>1, PathPrefix
<1>4. IsPrefix(p, p)
  BY PathPrefix
<1> HIDE DEF Path
<1>5. QED
  BY <1>1, <1>2, <1>3, <1>4 DEF Assign, Assigned

\* h is g with the namespace of s bound: what was in the tables of names stays, but for
\* what the namespace takes the place of.
Injected(h, g, s) ==
  /\ h[s.ns] = Api(s.handler) /\ IsTable(h[<<s.ns[1]>>])
  /\ \A q \in Path : q[1] # s.ns[1] => h[q] = g[q]
  /\ \A q \in Path : IsTable(g[<<q[1]>>]) =>
       IsTable(h[<<q[1]>>]) /\ (~IsPrefix(s.ns, q) => h[q] = g[q])

LEMMA InjectEffect ==
  ASSUME NEW g \in [Path -> Object], NEW s \in Specs
  PROVE  Inject(g, s) \in [Path -> Object] /\ Injected(Inject(g, s), g, s)
<1> DEFINE parent == <<s.ns[1]>>
           onTheWay == IF Len(s.ns) = 1 \/ IsTable(g[parent]) THEN g
                       ELSE Assign(g, parent, Table)
           h == Assign(onTheWay, s.ns, Api(s.handler))
<1>1. /\ s.ns \in Path /\ parent \in Path /\ parent[1] = s.ns[1]
      /\ Api(s.handler) \in Object /\ IsTable(Api(s.handler))
      /\ Table \in Object /\ IsTable(Table)
  BY SpecShape, Objects
<1>2. h = Inject(g, s)
  BY DEF Inject
<1> HIDE DEF parent
<1>3. /\ onTheWay \in [Path -> Object]
      /\ \A q \in Path : q[1] # s.ns[1] => onTheWay[q] = g[q]
      /\ IsTable(g[parent]) => onTheWay = g
      /\ Len(s.ns) = 1 \/ IsTable(onTheWay[parent])
  <2>1. CASE Len(s.ns) = 1 \/ IsTable(g[parent])
    BY <2>1
  <2>2. CASE ~(Len(s.ns) = 1 \/ IsTable(g[parent]))
    <3>1. onTheWay = Assign(g, parent, Table)
      BY <2>2
    <3> HIDE DEF onTheWay
    <3>2. /\ onTheWay \in [Path -> Object]
          /\ onTheWay[parent] = Table
          /\ \A q \in Path : q[1] # parent[1] => onTheWay[q] = g[q]
      BY <1>1, <3>1, AssignEffect DEF Assigned
    <3>3. QED
      BY <1>1, <2>2, <3>2
  <2>3. QED
    BY <2>1, <2>2
<1> HIDE DEF onTheWay
<1>4. /\ h \in [Path -> Object]
      /\ h[s.ns] = Api(s.handler)
      /\ \A q \in Path : q[1] # s.ns[1] => h[q] = onTheWay[q]
      /\ \A q \in Path : ~IsPrefix(s.ns, q) => h[q] = onTheWay[q]
  <2>1. s.ns \in Path /\ Api(s.handler) \in Object /\ onTheWay \in [Path -> Object]
    BY <1>1, <1>3
  <2> DEFINE p == s.ns
             v == Api(s.handler)
  <2>2. h = Assign(onTheWay, p, v)
    OBVIOUS
  <2> HIDE DEF h, p, v
  <2>3. p \in Path /\ v \in Object
    BY <2>1 DEF p, v
  <2>4. /\ h \in [Path -> Object]
        /\ h[p] = v
        /\ \A q \in Path : q[1] # p[1] => h[q] = onTheWay[q]
        /\ \A q \in Path : ~IsPrefix(p, q) => h[q] = onTheWay[q]
    <3>1. h \in [Path -> Object] /\ Assigned(h, onTheWay, p, v)
      BY <2>1, <2>2, <2>3, AssignEffect
    <3>2. QED
      BY <3>1 DEF Assigned
  <2>5. QED
    BY <2>4 DEF p, v
<1> HIDE DEF h
<1>5. IsPrefix(s.ns, parent) => s.ns = parent
  BY <1>1, PathPrefix DEF parent
<1>6. Len(s.ns) = 1 => s.ns = parent
  <2>1. PICK a, b : s.ns = <<a>> \/ s.ns = <<a, b>>
    BY <1>1, PathShape, Zenon
  <2>2. QED
    BY <2>1 DEF parent
<1>7. IsTable(h[parent])
  <2>1. CASE s.ns = parent
    BY <1>1, <1>4, <2>1
  <2>2. CASE s.ns # parent
    BY <1>1, <1>3, <1>4, <1>5, <1>6, <2>2
  <2>3. QED
    BY <2>1, <2>2
<1>8. ASSUME NEW q \in Path, IsTable(g[<<q[1]>>])
      PROVE  IsTable(h[<<q[1]>>]) /\ (~IsPrefix(s.ns, q) => h[q] = g[q])
  <2>1. <<q[1]>> \in Path /\ <<q[1]>>[1] = q[1]
    BY PathShape
  <2>2. CASE q[1] = s.ns[1]
    BY <1>3, <1>4, <1>7, <1>8, <2>2 DEF parent
  <2>3. CASE q[1] # s.ns[1]
    BY <1>3, <1>4, <1>8, <2>1, <2>3
  <2>4. QED
    BY <2>2, <2>3
<1>9. \A q \in Path : q[1] # s.ns[1] => h[q] = g[q]
  BY <1>3, <1>4
<1>10. QED
  BY <1>2, <1>4, <1>7, <1>8, <1>9 DEF Injected, parent

\* f[n] is the globals with the first n bound.
Injects(f, g, es) ==
  /\ f[0] = g
  /\ \A n \in 1 .. Len(es) : f[n] = Inject(f[n - 1], es[n].spec)
  /\ InjectAll(g, es) = f[Len(es)]

LEMMA InjectAllRecursion ==
  ASSUME NEW g \in [Path -> Object], NEW es \in Seq(Entry)
  PROVE  \E f \in [0 .. Len(es) -> [Path -> Object]] : Injects(f, g, es)
<1> DEFINE N == Len(es)
           X == [Path -> Object]
           Nth(f, n) == IF n = 0 THEN g ELSE Inject(f[n - 1], es[n].spec)
           step == [c \in (1 .. N) \X X |-> Inject(c[2], es[c[1]].spec)]
<1>1. N \in Nat /\ DOMAIN es = 1 .. N
  BY LenProperties
<1>a. \A n \in 1 .. N : es[n].spec \in Specs
  <2>1. \A n \in 1 .. N : es[n] \in Entry
    BY ElementOfSeq
  <2>2. QED
    BY <2>1 DEF Entry
<1>b. g \in X
  OBVIOUS
<1>c. \A h \in X, s \in Specs : Inject(h, s) \in X
  BY InjectEffect
<1> HIDE DEF X
<1>2. step \in [(1 .. N) \X X -> X]
  <2>1. ASSUME NEW c \in (1 .. N) \X X
        PROVE  Inject(c[2], es[c[1]].spec) \in X
    <3>1. c[1] \in 1 .. N /\ c[2] \in X
      OBVIOUS
    <3>2. QED
      BY <1>a, <1>c, <3>1
  <2>2. QED
    BY <2>1
<1>3. PICK f \in [0 .. N -> X] : Iterates(f, g, step, N)
  <2> HIDE DEF step, N
  <2>1. QED
    BY <1>1, <1>b, <1>2, Iteration, Zenon
<1>4. \A n \in 1 .. N : f[n] = Nth(f, n)
  <2>1. ASSUME NEW n \in 1 .. N
        PROVE  f[n] = Nth(f, n)
    <3>1. n - 1 \in 0 .. N /\ n # 0
      BY <1>1
    <3>2. <<n, f[n - 1]>> \in (1 .. N) \X X
      BY <1>3, <3>1
    <3>3. QED
      BY <1>3, <3>1, <3>2 DEF Iterates
  <2>2. QED
    BY <2>1
<1>5. f = [n \in 0 .. N |-> Nth(f, n)]
  <2>1. \A n \in 0 .. N : f[n] = Nth(f, n)
    <3>1. \A n \in 0 .. N : n = 0 \/ n \in 1 .. N
      BY <1>1
    <3>2. QED
      BY <1>3, <1>4, <3>1 DEF Iterates
  <2>2. f = [n \in 0 .. N |-> f[n]]
    BY <1>3
  <2> HIDE DEF Nth
  <2>3. QED
    BY <2>1, <2>2
<1> DEFINE a == CHOOSE h : h = [n \in 0 .. N |-> Nth(h, n)]
<1>6. a = [n \in 0 .. N |-> Nth(a, n)]
  <2> HIDE DEF Nth
  <2>1. QED
    BY <1>5, Zenon
<1>7. InjectAll(g, es) = a[N]
  BY Zenon DEF InjectAll
<1> HIDE DEF a
<1>8. \A n \in 0 .. N : a[n] = Nth(a, n)
  BY <1>6
<1>9. \A n \in 1 .. N : a[n] = Inject(a[n - 1], es[n].spec)
  <2>1. \A n \in 1 .. N : n \in 0 .. N /\ n # 0
    BY <1>1
  <2>2. QED
    BY <1>8, <2>1
<1>10. a[0] = g
  BY <1>1, <1>8
<1>11. a \in [0 .. N -> X]
  <2> DEFINE T == {n \in Nat : a[n] \in X}
  <2>1. 0 \in T
    BY <1>b, <1>10
  <2>2. ASSUME NEW n \in T, n + 1 <= N
        PROVE  n + 1 \in T
    <3>1. n + 1 \in 1 .. N /\ (n + 1) - 1 = n /\ a[n] \in X
      BY <1>1, <2>2
    <3>2. a[n + 1] = Inject(a[n], es[n + 1].spec)
      BY <1>9, <3>1
    <3>3. a[n + 1] \in X
      BY <1>a, <1>c, <3>1, <3>2
    <3>4. QED
      BY <3>3
  <2> HIDE DEF T
  <2>3. T \in SUBSET Nat
    BY DEF T
  <2>4. \A n \in 0 .. N : n \in T
    BY <1>1, <2>1, <2>2, <2>3, InductionUpTo
  <2>5. \A n \in 0 .. N : a[n] \in X
    BY <2>4 DEF T
  <2>6. a = [n \in 0 .. N |-> a[n]]
    <3> HIDE DEF Nth
    <3>1. QED
      BY <1>6
  <2>7. QED
    BY <2>5, <2>6
<1>12. QED
  BY <1>7, <1>9, <1>10, <1>11 DEF Injects, X

-----------------------------------------------------------------------------
(* The namespaces of a list of bindings, once the first k are bound.       *)

Later(es, i, k) == \E j \in i + 1 .. k : IsPrefix(es[j].spec.ns, es[i].spec.ns)

Placed(h, es, k) ==
  \A i \in 1 .. k :
    /\ IsTable(h[<<es[i].spec.ns[1]>>])
    /\ Later(es, i, k) \/ h[es[i].spec.ns] = Api(es[i].spec.handler)

Untouched(h, g, es, k) ==
  \A q \in Path : (\A i \in 1 .. k : es[i].spec.ns[1] # q[1]) => h[q] = g[q]

LEMMA PlaceOne ==
  ASSUME NEW g, NEW h \in [Path -> Object], NEW es \in Seq(Entry),
         NEW k \in Nat, k + 1 <= Len(es),
         Placed(h, es, k), Untouched(h, g, es, k),
         NEW new, new = Inject(h, es[k + 1].spec)
  PROVE  /\ new \in [Path -> Object]
         /\ Placed(new, es, k + 1) /\ Untouched(new, g, es, k + 1)
<1>1. \A i \in 1 .. k + 1 : es[i].spec \in Specs
  <2>1. \A i \in 1 .. Len(es) : es[i] \in Entry
    BY ElementOfSeq
  <2>2. Len(es) \in Nat
    BY LenProperties
  <2>3. \A i \in 1 .. k + 1 : i \in 1 .. Len(es)
    BY <2>2
  <2>4. QED
    BY <2>1, <2>3 DEF Entry
<1>2. k + 1 \in 1 .. k + 1
  OBVIOUS
<1> DEFINE s == es[k + 1].spec
<1>3. s \in Specs
  BY <1>1, <1>2
<1>4. new \in [Path -> Object] /\ Injected(new, h, s)
  BY <1>3, InjectEffect
<1> HIDE DEF s
<1>5. \A i \in 1 .. k + 1 : i \in 1 .. k \/ i = k + 1
  OBVIOUS
<1>6. ASSUME NEW i \in 1 .. k + 1
      PROVE  /\ IsTable(new[<<es[i].spec.ns[1]>>])
             /\ Later(es, i, k + 1) \/ new[es[i].spec.ns] = Api(es[i].spec.handler)
  <2>1. CASE i = k + 1
    BY <1>4, <2>1 DEF Injected, s
  <2>2. CASE i \in 1 .. k
    <3> DEFINE q == es[i].spec.ns
    <3>1. q \in Path
      BY <1>1, SpecShape
    <3> HIDE DEF q
    <3>2. IsTable(h[<<q[1]>>]) /\ (Later(es, i, k) \/ h[q] = Api(es[i].spec.handler))
      BY <2>2 DEF Placed, q
    <3>3. IsTable(new[<<q[1]>>]) /\ (~IsPrefix(s.ns, q) => new[q] = h[q])
      BY <1>4, <3>1, <3>2 DEF Injected
    <3>4. CASE IsPrefix(s.ns, q)
      <4>1. k + 1 \in i + 1 .. k + 1
        BY <2>2
      <4>2. Later(es, i, k + 1)
        BY <3>4, <4>1 DEF Later, q, s
      <4>3. QED
        BY <3>3, <4>2 DEF q
    <3>5. CASE Later(es, i, k)
      <4>1. \A j \in i + 1 .. k : j \in i + 1 .. k + 1
        BY <2>2
      <4>2. Later(es, i, k + 1)
        BY <3>5, <4>1 DEF Later
      <4>3. QED
        BY <3>3, <4>2 DEF q
    <3>6. QED
      BY <3>2, <3>3, <3>4, <3>5 DEF q
  <2>3. QED
    BY <1>5, <2>1, <2>2
<1>7. ASSUME NEW q \in Path, \A i \in 1 .. k + 1 : es[i].spec.ns[1] # q[1]
      PROVE  new[q] = g[q]
  <2>1. s.ns[1] # q[1]
    BY <1>2, <1>7 DEF s
  <2>2. \A i \in 1 .. k : i \in 1 .. k + 1
    OBVIOUS
  <2>3. h[q] = g[q]
    BY <1>7, <2>2 DEF Untouched
  <2>4. new[q] = h[q]
    BY <1>4, <2>1 DEF Injected
  <2>5. QED
    BY <2>3, <2>4
<1>8. QED
  BY <1>4, <1>6, <1>7 DEF Placed, Untouched

\* A part of the list, from its place after a on, is bound by InjectAll.
LEMMA PlaceAll ==
  ASSUME NEW g, NEW h \in [Path -> Object], NEW es \in Seq(Entry), NEW part \in Seq(Entry),
         NEW a \in Nat, a + Len(part) <= Len(es),
         \A i \in 1 .. Len(part) : es[a + i] = part[i],
         Placed(h, es, a), Untouched(h, g, es, a)
  PROVE  /\ InjectAll(h, part) \in [Path -> Object]
         /\ Placed(InjectAll(h, part), es, a + Len(part))
         /\ Untouched(InjectAll(h, part), g, es, a + Len(part))
<1> DEFINE N == Len(part)
<1>1. N \in Nat /\ Len(es) \in Nat
  BY LenProperties
<1>2. PICK f \in [0 .. N -> [Path -> Object]] : Injects(f, h, part)
  BY InjectAllRecursion, Zenon
<1>3. /\ f[0] = h
      /\ \A n \in 1 .. N : f[n] = Inject(f[n - 1], part[n].spec)
      /\ InjectAll(h, part) = f[N]
  BY <1>2 DEF Injects
<1> DEFINE T == {n \in Nat : Placed(f[n], es, a + n) /\ Untouched(f[n], g, es, a + n)}
<1>a. a + N <= Len(es) /\ \A i \in 1 .. N : es[a + i] = part[i]
  OBVIOUS
<1> HIDE DEF N
<1>4. 0 \in T
  <2>1. a + 0 = a
    OBVIOUS
  <2>2. QED
    BY <1>3, <2>1
<1>5. ASSUME NEW n \in T, n + 1 <= N
      PROVE  n + 1 \in T
  <2>a. n \in Nat /\ Placed(f[n], es, a + n) /\ Untouched(f[n], g, es, a + n)
    OBVIOUS
  <2> HIDE DEF T
  <2>1. /\ n + 1 \in 1 .. N /\ (n + 1) - 1 = n /\ n \in 0 .. N
        /\ a + n \in Nat /\ (a + n) + 1 = a + (n + 1) /\ (a + n) + 1 <= Len(es)
    BY <1>1, <1>5, <1>a, <2>a
  <2>2. f[n] \in [Path -> Object]
    BY <2>1
  <2>3. f[n + 1] = Inject(f[n], es[(a + n) + 1].spec)
    <3>1. f[n + 1] = Inject(f[n], part[n + 1].spec)
      BY <1>3, <2>1
    <3>2. es[(a + n) + 1] = part[n + 1]
      BY <1>a, <2>1
    <3>3. QED
      BY <3>1, <3>2
  <2>4. Placed(f[n + 1], es, (a + n) + 1) /\ Untouched(f[n + 1], g, es, (a + n) + 1)
    BY <2>1, <2>2, <2>3, <2>a, PlaceOne
  <2>5. QED
    BY <2>1, <2>4, <2>a DEF T
<1> HIDE DEF T
<1>6. T \in SUBSET Nat
  BY DEF T
<1>7. \A n \in 0 .. N : n \in T
  BY <1>1, <1>4, <1>5, <1>6, InductionUpTo
<1>8. N \in 0 .. N /\ N \in T
  BY <1>1, <1>7
<1>9. Placed(f[N], es, a + N) /\ Untouched(f[N], g, es, a + N)
  BY <1>8 DEF T
<1>10. QED
  BY <1>3, <1>8, <1>9 DEF N

-----------------------------------------------------------------------------
(* Types.                                                                  *)

LEMMA MatchingType ==
  ASSUME NEW es \in Seq(Entry), NEW c
  PROVE  Matching(es, c) \in Seq(Entry)
  BY RetainPlaces DEF Matching

LEMMA BuiltType ==
  ASSUME NEW es \in Seq(Entry)
  PROVE  Built(es) \in Seq(Entry)
<1> DEFINE failing == {i \in DOMAIN es : es[i].spec.handler \in Fails}
           first == CHOOSE i \in failing : \A j \in failing : i <= j
<1>1. CASE failing = {}
  BY <1>1 DEF Built
<1>2. CASE failing # {}
  <2>1. Len(es) \in Nat /\ DOMAIN es = 1 .. Len(es)
    BY LenProperties
  <2>2. failing \in SUBSET Nat
    BY <2>1
  <2>a. failing \subseteq 1 .. Len(es)
    BY <2>1
  <2>b. Built(es) = SubSeq(es, 1, first - 1)
    BY <1>2 DEF Built
  <2> HIDE DEF failing
  <2>3. first \in failing
    <3>1. \E i \in failing : \A j \in failing : i <= j
      BY <1>2, <2>2, LeastNatural
    <3>2. QED
      BY <3>1
  <2> HIDE DEF first
  <2>4. first - 1 \in Int /\ \A i \in 1 .. first - 1 : i \in 1 .. Len(es)
    BY <2>1, <2>3, <2>a
  <2>5. \A i \in 1 .. first - 1 : es[i] \in Entry
    BY <2>4, ElementOfSeq
  <2>6. QED
    BY <2>4, <2>5, <2>b, SubSeqProperties
<1>3. QED
  BY <1>1, <1>2

LEMMA BindType ==
  ASSUME NEW g \in [Path -> Object], NEW c \in Clause, NEW b \in Bindings[c]
  PROVE  Bind(Outlive(g), b) \in [Path -> Object]
<1>1. \A n \in DOMAIN b : Datum(b[n]) \in Object
  <2>1. \A n \in DOMAIN b : b[n] \in Value
    BY ClauseEnvAssumption DEF Range
  <2>2. QED
    BY <2>1 DEF Object
<1>2. Outlive(g) \in [Path -> Object]
  BY Objects DEF Outlive
<1>3. QED
  BY <1>1, <1>2, Objects DEF Bind

LEMMA LuamlPath == <<"luaml">> \in Path
  BY DEF Path

LEMMA InjectAllType ==
  ASSUME NEW g \in [Path -> Object], NEW es \in Seq(Entry)
  PROVE  InjectAll(g, es) \in [Path -> Object]
<1>1. PICK f \in [0 .. Len(es) -> [Path -> Object]] : Injects(f, g, es)
  BY InjectAllRecursion, Zenon
<1>2. Len(es) \in 0 .. Len(es)
  BY LenProperties
<1>3. QED
  BY <1>1, <1>2 DEF Injects

\* Bindings, and a clause's bindings, are of their types, and every path of the globals
\* has something a Lua variable can hold, however api.rs binds namespaces and clauses
\* assign.
THEOREM TypeCorrect == EnvSpec => []EnvTypeOK
<1>1. EnvInit => EnvTypeOK
  <2>1. SUFFICES ASSUME EnvInit PROVE EnvTypeOK
    OBVIOUS
  <2>2. globals \in [Path -> Object]
    BY <2>1 DEF EnvInit, Object
  <2>3. MaxBindings \in Nat /\ <<>> \in Seq(Entry)
    BY ClauseEnvAssumption, EmptySeq
  <2>4. apis \in Seq(Entry) /\ localApis \in Seq(Entry) /\ nextApiId \in 0 .. MaxBindings
    BY <2>1, <2>3 DEF EnvInit
  <2>5. /\ running \in Clause \cup {NoClause} /\ (running # NoClause => bindings \in Bindings[running])
        /\ fresh \in BOOLEAN /\ emissions \in {0, 1}
    BY <2>1 DEF EnvInit
  <2>6. QED
    BY <2>2, <2>4, <2>5 DEF EnvTypeOK
<1>2. EnvTypeOK /\ [EnvNext]_envVars => EnvTypeOK'
  <2>0. SUFFICES ASSUME EnvTypeOK, [EnvNext]_envVars PROVE EnvTypeOK'
    OBVIOUS
  <2>a. MaxBindings \in Nat
    BY ClauseEnvAssumption
  <2>1. ASSUME NEW s \in Specs, RegisterApi(s) \/ RegisterLocalApi(s)
        PROVE  EnvTypeOK'
    <3>1. [id |-> nextApiId, spec |-> s] \in Entry /\ nextApiId' \in 0 .. MaxBindings
      BY <2>0, <2>1, <2>a DEF EnvTypeOK, Entry, RegisterApi, RegisterLocalApi
    <3>2. apis' \in Seq(Entry) /\ localApis' \in Seq(Entry)
      <4>1. \A q \in Seq(Entry) : Append(q, [id |-> nextApiId, spec |-> s]) \in Seq(Entry)
        BY <3>1, AppendProperties
      <4>2. QED
        BY <2>0, <2>1, <4>1 DEF EnvTypeOK, RegisterApi, RegisterLocalApi
    <3>3. QED
      BY <2>0, <2>1, <3>1, <3>2 DEF EnvTypeOK, RegisterApi, RegisterLocalApi, BetweenRuns
  <2>2. ASSUME NEW id, UnregisterApi(id) \/ UnregisterLocalApi(id)
        PROVE  EnvTypeOK'
    <3>1. apis' \in Seq(Entry) /\ localApis' \in Seq(Entry)
      <4>1. \A q \in Seq(Entry) : \A kept : Retain(q, kept) \in Seq(Entry)
        BY RetainPlaces
      <4>2. QED
        BY <2>0, <2>2, <4>1 DEF EnvTypeOK, UnregisterApi, UnregisterLocalApi
    <3>2. QED
      BY <2>0, <2>2, <3>1 DEF EnvTypeOK, UnregisterApi, UnregisterLocalApi, BetweenRuns
  <2>3. ASSUME NEW id \in 0 .. nextApiId, NEW s \in Specs, ReplaceApi(id, s)
        PROVE  EnvTypeOK'
    <3>1. Len(apis) \in Nat /\ DOMAIN apis = 1 .. Len(apis)
      BY <2>0, LenProperties DEF EnvTypeOK
    <3>2. ASSUME NEW i \in 1 .. Len(apis)
          PROVE  (IF apis[i].id = id THEN [id |-> id, spec |-> s] ELSE apis[i]) \in Entry
      <4>1. apis[i] \in Entry
        BY <2>0, ElementOfSeq DEF EnvTypeOK
      <4>2. QED
        BY <4>1 DEF Entry
    <3>3. apis' \in [1 .. Len(apis) -> Entry]
      BY <2>3, <3>1, <3>2 DEF ReplaceApi
    <3>4. apis' \in Seq(Entry)
      BY <3>1, <3>3, IsASeq
    <3>5. QED
      BY <2>0, <2>3, <3>4 DEF EnvTypeOK, ReplaceApi, BetweenRuns
  <2>4. ASSUME NEW c \in Clause, NEW b \in Bindings[c], Begin(c, b)
        PROVE  EnvTypeOK'
    <3> DEFINE installed == InjectAll(InjectAll(Bind(Outlive(globals), b), Matching(apis, c)),
                                      Built(Matching(localApis, c)))
    <3>1. installed \in [Path -> Object]
      <4>1. Bind(Outlive(globals), b) \in [Path -> Object]
        BY <2>0, BindType DEF EnvTypeOK
      <4>2. Matching(apis, c) \in Seq(Entry) /\ Built(Matching(localApis, c)) \in Seq(Entry)
        BY <2>0, MatchingType, BuiltType DEF EnvTypeOK
      <4>3. InjectAll(Bind(Outlive(globals), b), Matching(apis, c)) \in [Path -> Object]
        BY <4>1, <4>2, InjectAllType
      <4>4. QED
        BY <4>2, <4>3, InjectAllType
    <3>2. \/ globals' = InstallLuaml(installed) /\ running' = c /\ bindings' = b /\ fresh' = TRUE
          \/ globals' = installed /\ UNCHANGED <<running, bindings, fresh>>
      BY <2>4 DEF Begin
    <3>3. UNCHANGED <<bound, emissions>> /\ running = NoClause
      BY <2>4 DEF Begin
    <3> HIDE DEF installed
    <3>4. InstallLuaml(installed) \in [Path -> Object]
      BY <3>1, LuamlPath, Objects, AssignEffect DEF InstallLuaml
    <3>5. globals' \in [Path -> Object]
      BY <3>1, <3>2, <3>4
    <3>6. QED
      BY <2>0, <3>2, <3>3, <3>5 DEF EnvTypeOK, bound
  <2>5. ASSUME NEW p \in Path, NEW v \in {Nil} \cup {Datum(x) : x \in Value} \cup Range(globals),
               AssignPath(p, v)
        PROVE  EnvTypeOK'
    <3>1. v \in Object
      BY <2>0 DEF EnvTypeOK, Object, Range
    <3>2. globals' \in [Path -> Object]
      BY <2>0, <2>5, <3>1, AssignEffect DEF EnvTypeOK, AssignPath
    <3>3. QED
      BY <2>0, <2>5, <3>2 DEF EnvTypeOK, AssignPath, Body, bound
  <2>6. ASSUME NEW p \in Path, Emit(p)
        PROVE  EnvTypeOK'
    BY <2>0, <2>6 DEF EnvTypeOK, Emit, Body, bound
  <2>7. CASE End
    BY <2>0, <2>7 DEF EnvTypeOK, End, bound
  <2>8. CASE UNCHANGED envVars
    BY <2>0, <2>8 DEF EnvTypeOK, envVars, bound
  <2>9. QED
    BY <2>0, <2>1, <2>2, <2>3, <2>4, <2>5, <2>6, <2>7, <2>8 DEF EnvNext
<1>3. QED
  BY <1>1, <1>2, PTL DEF EnvSpec

-----------------------------------------------------------------------------
(* What a clause starts with.                                              *)

\* All that is to be bound for a clause, in the order it is.
AllOf(c) == Matching(apis, c) \o Matching(localApis, c)

\* What OwnNames says of the globals g of a clause c that starts with b.
StartsWith(g, c, b) ==
  /\ \A i \in DOMAIN AllOf(c) :
       \/ AllOf(c)[i].spec.ns[1] = "luaml"
       \/ Later(AllOf(c), i, Len(AllOf(c)))
       \/ g[AllOf(c)[i].spec.ns] = Api(AllOf(c)[i].spec.handler)
  /\ \A n \in DOMAIN b \ {"luaml"} :
       (\A i \in DOMAIN AllOf(c) : AllOf(c)[i].spec.ns[1] # n) => g[<<n>>] = Datum(b[n])
  /\ g[<<"luaml">>] = Emitter("this run")

LEMMA BeginsRight ==
  ASSUME EnvTypeOK, NEW c \in Clause, NEW b \in Bindings[c]
  PROVE  StartsWith(InstallLuaml(InjectAll(InjectAll(Bind(Outlive(globals), b), Matching(apis, c)),
                                           Matching(localApis, c))), c, b)
<1> DEFINE M1 == Matching(apis, c)
           M2 == Matching(localApis, c)
           es == M1 \o M2
           N == Len(es)
           g == Bind(Outlive(globals), b)
           h1 == InjectAll(g, M1)
           h2 == InjectAll(h1, M2)
           h == InstallLuaml(h2)
<1>1. g \in [Path -> Object]
  BY BindType DEF EnvTypeOK
<1>2. M1 \in Seq(Entry) /\ M2 \in Seq(Entry)
  BY MatchingType DEF EnvTypeOK
<1>3. es = AllOf(c)
  BY DEF AllOf
<1>a. h = InstallLuaml(InjectAll(InjectAll(Bind(Outlive(globals), b), Matching(apis, c)),
                                 Matching(localApis, c)))
  OBVIOUS
<1>b. h = Assign(h2, <<"luaml">>, Emitter("this run"))
  BY DEF InstallLuaml
<1> HIDE DEF h, M1, M2
<1>4. /\ es \in Seq(Entry) /\ N = Len(M1) + Len(M2)
      /\ Len(M1) \in Nat /\ Len(M2) \in Nat /\ N \in Nat /\ DOMAIN es = 1 .. N
      /\ \A i \in 1 .. Len(M1) : es[i] = M1[i]
      /\ \A i \in 1 .. Len(M2) : es[Len(M1) + i] = M2[i]
  <2>1. es \in Seq(Entry) /\ N = Len(M1) + Len(M2)
    BY <1>2, ConcatProperties
  <2>2. Len(M1) \in Nat /\ Len(M2) \in Nat /\ N \in Nat /\ DOMAIN es = 1 .. N
    BY <1>2, <2>1, LenProperties
  <2>3. \A i \in 1 .. Len(M1) + Len(M2) :
          es[i] = IF i <= Len(M1) THEN M1[i] ELSE M2[i - Len(M1)]
    BY <1>2, ConcatProperties
  <2>4. ASSUME NEW i \in 1 .. Len(M2)
        PROVE  es[Len(M1) + i] = M2[i]
    <3>1. Len(M1) + i \in 1 .. Len(M1) + Len(M2) /\ ~(Len(M1) + i <= Len(M1))
          /\ (Len(M1) + i) - Len(M1) = i
      BY <2>2
    <3>2. QED
      BY <2>3, <3>1
  <2> HIDE DEF es
  <2>5. \A i \in 1 .. Len(M1) : es[i] = M1[i]
    BY <2>2, <2>3
  <2>6. QED
    BY <2>1, <2>2, <2>4, <2>5 DEF es
<1> HIDE DEF es, N, g
<1>5. /\ h1 \in [Path -> Object]
      /\ Placed(h1, es, Len(M1)) /\ Untouched(h1, g, es, Len(M1))
  <2>1. Placed(g, es, 0) /\ Untouched(g, g, es, 0)
    BY DEF Placed, Untouched
  <2>2. 0 + Len(M1) = Len(M1) /\ \A i \in 1 .. Len(M1) : es[0 + i] = M1[i]
    BY <1>4
  <2>3. 0 + Len(M1) <= Len(es)
    BY <1>4 DEF N
  <2>4. h1 = InjectAll(g, M1)
    OBVIOUS
  <2> HIDE DEF h1
  <2>5. /\ h1 \in [Path -> Object]
        /\ Placed(h1, es, 0 + Len(M1)) /\ Untouched(h1, g, es, 0 + Len(M1))
    BY <1>1, <1>2, <1>4, <2>1, <2>2, <2>3, <2>4, PlaceAll
  <2>6. QED
    BY <2>2, <2>5
<1> HIDE DEF h1
<1>6. h2 \in [Path -> Object] /\ Placed(h2, es, N) /\ Untouched(h2, g, es, N)
  <2>1. Len(M1) + Len(M2) <= Len(es)
    BY <1>4 DEF N
  <2>2. QED
    BY <1>2, <1>4, <1>5, <2>1, PlaceAll
<1> HIDE DEF h2
<1>7. Assigned(h, h2, <<"luaml">>, Emitter("this run"))
  BY <1>6, <1>b, LuamlPath, Objects, AssignEffect
<1>8. /\ h[<<"luaml">>] = Emitter("this run")
      /\ \A q \in Path : q[1] # "luaml" => h[q] = h2[q]
  BY <1>7 DEF Assigned
<1>9. ASSUME NEW i \in DOMAIN es, es[i].spec.ns[1] # "luaml", ~Later(es, i, N)
      PROVE  h[es[i].spec.ns] = Api(es[i].spec.handler)
  <2>1. es[i] \in Entry
    BY <1>4, ElementOfSeq DEF N
  <2>2. es[i].spec.ns \in Path
    BY <2>1, SpecShape DEF Entry
  <2>3. h2[es[i].spec.ns] = Api(es[i].spec.handler)
    BY <1>4, <1>6, <1>9 DEF Placed
  <2>4. QED
    BY <1>8, <1>9, <2>2, <2>3
<1>10. ASSUME NEW n \in DOMAIN b \ {"luaml"}, \A i \in DOMAIN es : es[i].spec.ns[1] # n
       PROVE  h[<<n>>] = Datum(b[n])
  <2>1. <<n>> \in Path /\ <<n>>[1] = n /\ Len(<<n>>) = 1
    BY ClauseEnvAssumption DEF Path
  <2>2. h2[<<n>>] = g[<<n>>]
    BY <1>4, <1>6, <1>10, <2>1 DEF Untouched
  <2>3. h[<<n>>] = h2[<<n>>]
    BY <1>8, <2>1
  <2>4. g[<<n>>] = Datum(b[n])
    BY <2>1 DEF g, Bind
  <2>5. QED
    BY <2>2, <2>3, <2>4
<1> HIDE DEF h
<1>11. StartsWith(h, c, b)
  BY <1>3, <1>8, <1>9, <1>10 DEF StartsWith, N
<1>12. QED
  BY <1>11, <1>a

LEMMA StartingRight ==
  EnvTypeOK => ((Starting => StartsWith(globals, running, bindings)) <=> OwnNames)
<1> SUFFICES ASSUME EnvTypeOK
             PROVE  (Starting => StartsWith(globals, running, bindings)) <=> OwnNames
  OBVIOUS
<1> DEFINE es == AllOf(running)
<1>1. es = Installed
  BY DEF AllOf, Installed
<1>2. es \in Seq(Entry)
  BY MatchingType, ConcatProperties DEF EnvTypeOK, AllOf
<1>3. Len(es) \in Nat /\ DOMAIN es = 1 .. Len(es)
  BY <1>2, LenProperties
<1> HIDE DEF es
<1>4. ASSUME NEW i \in DOMAIN es
      PROVE  Hidden(i) <=> es[i].spec.ns[1] = "luaml" \/ Later(es, i, Len(es))
  <2>1. \A j : j \in i + 1 .. Len(es) <=> j \in DOMAIN es /\ j > i
    BY <1>3
  <2>2. QED
    BY <1>1, <2>1 DEF Hidden, Later
<1>5. QED
  BY <1>1, <1>4 DEF StartsWith, OwnNames, es

\* A clause of lib.rs starts with the handlers registered then for the namespaces its
\* policy matches, with its own bindings, and with a luaml of its own, whatever was
\* assigned, bound or kept before.
THEOREM OwnNamesHold == EnvSpec => []OwnNames
<1>1. EnvInit => OwnNames
  BY DEF EnvInit, OwnNames, Starting
<1>2. EnvTypeOK /\ EnvTypeOK' /\ OwnNames /\ [EnvNext]_envVars => OwnNames'
  <2>0. SUFFICES ASSUME EnvTypeOK, EnvTypeOK', OwnNames, [EnvNext]_envVars PROVE OwnNames'
    OBVIOUS
  <2>1. ASSUME running' = NoClause \/ fresh' = FALSE
        PROVE  OwnNames'
    BY <2>1 DEF OwnNames, Starting
  <2>2. ASSUME NEW c \in Clause, NEW b \in Bindings[c], Begin(c, b)
        PROVE  OwnNames'
    <3> DEFINE builders == Matching(localApis, c)
               before == InjectAll(Bind(Outlive(globals), b), Matching(apis, c))
    <3>1. CASE Built(builders) # builders
      BY <2>1, <2>2, <3>1 DEF Begin
    <3>2. CASE Built(builders) = builders
      <4>1. /\ globals' = InstallLuaml(InjectAll(before, builders))
            /\ running' = c /\ bindings' = b /\ apis' = apis /\ localApis' = localApis
        BY <2>2, <3>2 DEF Begin, bound
      <4>2. StartsWith(InstallLuaml(InjectAll(before, builders)), c, b)
        BY <2>0, BeginsRight
      <4>3. AllOf(c)' = AllOf(c)
        BY <4>1 DEF AllOf, Matching
      <4>4. StartsWith(globals, running, bindings)'
        BY <4>1, <4>2, <4>3 DEF StartsWith, AllOf
      <4>5. (Starting => StartsWith(globals, running, bindings))' <=> OwnNames'
        BY <2>0, StartingRight, PTL
      <4>6. QED
        BY <4>4, <4>5
    <3>3. QED
      BY <3>1, <3>2
  <2>3. CASE UNCHANGED envVars
    BY <2>0, <2>3 DEF envVars, bound, OwnNames, Starting, Installed, Hidden, Matching
  <2>4. CASE \E s \in Specs : RegisterApi(s) \/ RegisterLocalApi(s)
    BY <2>1, <2>4 DEF RegisterApi, RegisterLocalApi, BetweenRuns
  <2>5. CASE \E id \in 0 .. nextApiId :
               \/ UnregisterApi(id) \/ UnregisterLocalApi(id) \/ \E s \in Specs : ReplaceApi(id, s)
    BY <2>1, <2>5 DEF UnregisterApi, UnregisterLocalApi, ReplaceApi, BetweenRuns
  <2>6. CASE \/ \E p \in Path, v \in {Nil} \cup {Datum(x) : x \in Value} \cup Range(globals) :
                  AssignPath(p, v)
             \/ \E p \in Path : Emit(p)
    BY <2>1, <2>6 DEF AssignPath, Emit, Body
  <2>7. CASE End
    BY <2>1, <2>7 DEF End
  <2>8. QED
    BY <2>0, <2>2, <2>3, <2>4, <2>5, <2>6, <2>7 DEF EnvNext
<1>3. QED
  BY <1>1, <1>2, TypeCorrect, PTL DEF EnvSpec

-----------------------------------------------------------------------------
(* Ids.                                                                    *)

Unique(s) == \A i, j \in DOMAIN s : s[i].id = s[j].id => i = j

Apart(s, t) == \A i \in DOMAIN s, j \in DOMAIN t : s[i].id # t[j].id

\* No id is used twice, nor one that is still to come.
IdsInv ==
  /\ Unique(apis) /\ Unique(localApis) /\ Apart(apis, localApis)
  /\ \A i \in DOMAIN apis : apis[i].id < nextApiId
  /\ \A i \in DOMAIN localApis : localApis[i].id < nextApiId

LEMMA ConcatUnique ==
  ASSUME NEW s \in Seq(Entry), NEW t \in Seq(Entry), Unique(s), Unique(t), Apart(s, t)
  PROVE  Unique(s \o t)
<1> DEFINE m == Len(s)
           n == Len(t)
           all == s \o t
<1>1. m \in Nat /\ n \in Nat /\ DOMAIN s = 1 .. m /\ DOMAIN t = 1 .. n
  BY LenProperties
<1>2. DOMAIN all = 1 .. m + n
  <2>1. all \in Seq(Entry) /\ Len(all) = m + n
    BY ConcatProperties
  <2>2. QED
    BY <2>1, LenProperties
<1>3. \A i \in 1 .. m + n : all[i] = IF i <= m THEN s[i] ELSE t[i - m]
  BY ConcatProperties
<1> HIDE DEF m, n, all
<1>4. ASSUME NEW i \in 1 .. m + n
      PROVE  \/ i \in DOMAIN s /\ i <= m /\ all[i] = s[i]
             \/ i - m \in DOMAIN t /\ ~(i <= m) /\ all[i] = t[i - m]
  BY <1>1, <1>3
<1>5. ASSUME NEW i \in 1 .. m + n, NEW j \in 1 .. m + n, all[i].id = all[j].id
      PROVE  i = j
  <2>1. CASE i <= m /\ j <= m
    BY <1>4, <1>5, <2>1 DEF Unique
  <2>2. CASE ~(i <= m) /\ ~(j <= m)
    <3>1. i - m = j - m
      BY <1>4, <1>5, <2>2 DEF Unique
    <3>2. QED
      BY <1>1, <3>1
  <2>3. CASE i <= m /\ ~(j <= m)
    BY <1>4, <1>5, <2>3 DEF Apart
  <2>4. CASE ~(i <= m) /\ j <= m
    BY <1>4, <1>5, <2>4 DEF Apart
  <2>5. QED
    BY <2>1, <2>2, <2>3, <2>4
<1>6. QED
  BY <1>2, <1>5 DEF Unique, all

\* What is kept has the ids it had.
LEMMA RetainIds ==
  ASSUME NEW s \in Seq(Entry), NEW kept
  PROVE  /\ Unique(s) => Unique(Retain(s, kept))
         /\ \A i \in DOMAIN Retain(s, kept) : \E j \in DOMAIN s : Retain(s, kept)[i].id = s[j].id
<1> DEFINE q == Retain(s, kept)
<1>1. q \in Seq(Entry) /\ From(q, s, kept, Len(s))
  BY RetainPlaces
<1> HIDE DEF q
<1>2. PICK at \in [DOMAIN q -> DOMAIN s] : Places(q, s, kept, Len(s), at)
  BY <1>1 DEF From
<1>3. /\ \A i \in DOMAIN q : q[i] = s[at[i]]
      /\ \A i, j \in DOMAIN q : i < j => at[i] < at[j]
  BY <1>2 DEF Places
<1>4. DOMAIN q = 1 .. Len(q) /\ DOMAIN s = 1 .. Len(s) /\ Len(q) \in Nat /\ Len(s) \in Nat
  BY <1>1, LenProperties
<1>5. ASSUME Unique(s), NEW i \in DOMAIN q, NEW j \in DOMAIN q, q[i].id = q[j].id
      PROVE  i = j
  <2>1. at[i] \in 1 .. Len(s) /\ at[j] \in 1 .. Len(s) /\ at[i] = at[j]
    BY <1>3, <1>4, <1>5 DEF Unique
  <2>2. ~(i < j) /\ ~(j < i)
    BY <1>3, <2>1
  <2>3. QED
    BY <1>4, <2>2
<1>6. QED
  BY <1>3, <1>5 DEF Unique, q

LEMMA AppendIds ==
  ASSUME NEW s \in Seq(Entry), NEW e \in Entry, Unique(s), \A i \in DOMAIN s : s[i].id < e.id
  PROVE  /\ Unique(Append(s, e))
         /\ \A i \in DOMAIN Append(s, e) : (i \in DOMAIN s /\ Append(s, e)[i] = s[i]) \/ Append(s, e)[i] = e
<1> DEFINE n == Len(s)
           q == Append(s, e)
<1>1. n \in Nat /\ DOMAIN s = 1 .. n /\ DOMAIN q = 1 .. n + 1
      /\ q[n + 1] = e /\ \A i \in 1 .. n : q[i] = s[i]
  <2>1. q \in Seq(Entry) /\ Len(q) = n + 1
    BY AppendProperties
  <2>2. n \in Nat /\ DOMAIN s = 1 .. n /\ DOMAIN q = 1 .. n + 1
    BY <2>1, LenProperties
  <2>3. QED
    BY <2>2, AppendProperties
<1>2. \A i \in 1 .. n : s[i].id \in Nat
  <2>1. \A i \in 1 .. n : s[i] \in Entry
    BY ElementOfSeq
  <2>2. QED
    BY <2>1, ClauseEnvAssumption DEF Entry
<1> HIDE DEF n, q
<1>3. \A i \in 1 .. n + 1 : i \in 1 .. n \/ i = n + 1
  BY <1>1
<1>4. ASSUME NEW i \in 1 .. n + 1, NEW j \in 1 .. n + 1, q[i].id = q[j].id
      PROVE  i = j
  <2>1. \A x \in 1 .. n : q[x].id # e.id
    BY <1>1, <1>2
  <2>2. CASE i \in 1 .. n /\ j \in 1 .. n
    BY <1>1, <1>4, <2>2 DEF Unique
  <2>3. CASE i = n + 1 \/ j = n + 1
    BY <1>1, <1>3, <1>4, <2>1, <2>3
  <2>4. QED
    BY <1>3, <2>2, <2>3
<1>5. QED
  BY <1>1, <1>3, <1>4 DEF Unique, q

\* Each binding lib.rs knows has an id of its own, whichever of the two lists it is in
\* and whatever has been removed or replaced.
THEOREM IdsAreUnique == EnvSpec => []IdsUnique
<1>1. EnvInit => IdsInv
  BY DEF EnvInit, IdsInv, Unique, Apart
<1>2. EnvTypeOK /\ IdsInv /\ [EnvNext]_envVars => IdsInv'
  <2>0. SUFFICES ASSUME EnvTypeOK, IdsInv, [EnvNext]_envVars PROVE IdsInv'
    OBVIOUS
  <2>a. /\ apis \in Seq(Entry) /\ localApis \in Seq(Entry) /\ nextApiId \in Nat
        /\ \A i \in DOMAIN apis : apis[i].id \in Nat /\ apis[i].id < nextApiId
        /\ \A i \in DOMAIN localApis : localApis[i].id \in Nat /\ localApis[i].id < nextApiId
        /\ Unique(apis) /\ Unique(localApis) /\ Apart(apis, localApis)
    <3>1. \A q \in Seq(Entry) : \A i \in DOMAIN q : q[i].id \in Nat
      <4>1. \A q \in Seq(Entry) : \A i \in DOMAIN q : q[i] \in Entry
        BY ElementOfSeq, LenProperties
      <4>2. QED
        BY <4>1, ClauseEnvAssumption DEF Entry
    <3>2. QED
      BY <2>0, <3>1, ClauseEnvAssumption DEF EnvTypeOK, IdsInv
  <2>1. ASSUME NEW s \in Specs, RegisterApi(s) \/ RegisterLocalApi(s)
        PROVE  IdsInv'
    <3> DEFINE e == [id |-> nextApiId, spec |-> s]
    <3>1. e.id = nextApiId /\ nextApiId' = nextApiId + 1 /\ e \in Entry
      BY <2>0, <2>1, ClauseEnvAssumption DEF EnvTypeOK, Entry, RegisterApi, RegisterLocalApi
    <3>2. \/ apis' = Append(apis, e) /\ localApis' = localApis
          \/ localApis' = Append(localApis, e) /\ apis' = apis
      BY <2>1 DEF RegisterApi, RegisterLocalApi
    <3> HIDE DEF e
    <3>3. CASE apis' = Append(apis, e) /\ localApis' = localApis
      <4>1. /\ Unique(apis')
            /\ \A i \in DOMAIN apis' : (i \in DOMAIN apis /\ apis'[i] = apis[i]) \/ apis'[i] = e
        BY <2>a, <3>1, <3>3, AppendIds
      <4>2. QED
        BY <2>a, <3>1, <3>3, <4>1 DEF IdsInv, Apart
    <3>4. CASE localApis' = Append(localApis, e) /\ apis' = apis
      <4>1. /\ Unique(localApis')
            /\ \A i \in DOMAIN localApis' :
                 (i \in DOMAIN localApis /\ localApis'[i] = localApis[i]) \/ localApis'[i] = e
        BY <2>a, <3>1, <3>4, AppendIds
      <4>2. QED
        BY <2>a, <3>1, <3>4, <4>1 DEF IdsInv, Apart
    <3>5. QED
      BY <3>2, <3>3, <3>4
  <2>2. ASSUME NEW id, UnregisterApi(id)
        PROVE  IdsInv'
    <3>1. /\ Unique(apis') /\ localApis' = localApis /\ nextApiId' = nextApiId
          /\ \A i \in DOMAIN apis' : \E j \in DOMAIN apis : apis'[i].id = apis[j].id
      <4> DEFINE kept == {i \in DOMAIN apis : apis[i].id # id}
      <4>1. /\ apis' = Retain(apis, kept)
            /\ localApis' = localApis /\ nextApiId' = nextApiId
        BY <2>2 DEF UnregisterApi
      <4> HIDE DEF kept
      <4>2. QED
        BY <4>1, <2>a, RetainIds
    <3>2. QED
      BY <2>a, <3>1 DEF IdsInv, Apart
  <2>3. ASSUME NEW id, UnregisterLocalApi(id)
        PROVE  IdsInv'
    <3>1. /\ Unique(localApis') /\ apis' = apis /\ nextApiId' = nextApiId
          /\ \A i \in DOMAIN localApis' : \E j \in DOMAIN localApis : localApis'[i].id = localApis[j].id
      <4> DEFINE kept == {i \in DOMAIN localApis : localApis[i].id # id}
      <4>1. /\ localApis' = Retain(localApis, kept)
            /\ apis' = apis /\ nextApiId' = nextApiId
        BY <2>3 DEF UnregisterLocalApi
      <4> HIDE DEF kept
      <4>2. QED
        BY <4>1, <2>a, RetainIds
    <3>2. QED
      BY <2>a, <3>1 DEF IdsInv, Apart
  <2>4. ASSUME NEW id, NEW s \in Specs, ReplaceApi(id, s)
        PROVE  IdsInv'
    <3>1. /\ DOMAIN apis' = DOMAIN apis /\ localApis' = localApis /\ nextApiId' = nextApiId
          /\ \A i \in DOMAIN apis : apis'[i].id = apis[i].id
      BY <2>4 DEF ReplaceApi
    <3>2. QED
      BY <2>a, <3>1 DEF IdsInv, Unique, Apart
  <2>5. CASE UNCHANGED bound
    BY <2>0, <2>5 DEF IdsInv, Unique, Apart, bound
  <2>6. CASE \/ \E c \in Clause : \E b \in Bindings[c] : Begin(c, b)
             \/ \E p \in Path, v \in {Nil} \cup {Datum(x) : x \in Value} \cup Range(globals) :
                  AssignPath(p, v)
             \/ \E p \in Path : Emit(p)
             \/ End
             \/ UNCHANGED envVars
    BY <2>5, <2>6 DEF Begin, AssignPath, Emit, Body, End, envVars, bound
  <2>7. QED
    BY <2>0, <2>1, <2>2, <2>3, <2>4, <2>6 DEF EnvNext
<1>3. EnvTypeOK /\ IdsInv => IdsUnique
  BY ConcatUnique DEF EnvTypeOK, IdsInv, IdsUnique, Unique
<1>4. QED
  BY <1>1, <1>2, <1>3, TypeCorrect, PTL DEF EnvSpec
=============================================================================
