------------------------------ MODULE Recursion ------------------------------
(***************************************************************************)
(* Induction over the natural numbers and recursion over the places of a   *)
(* sequence, as facts about sets and functions: no operator is a           *)
(* parameter, so that the proofs of other modules can cite them.           *)
(***************************************************************************)
EXTENDS Naturals, Sequences, SequenceTheorems, WellFoundedInduction, TLAPS

LEMMA LeastNatural ==
  ASSUME NEW T \in SUBSET Nat, T # {}
  PROVE  \E n \in T : \A m \in T : n <= m
<1>1. OpToRel(<, Nat) = {ss \in Nat \X Nat : ss[1] < ss[2]}
  BY DEF OpToRel
<1>2. PICK n \in T : \A m \in T : ~(<<m, n>> \in OpToRel(<, Nat))
  BY NatLessThanWellFounded, WFMin
<1>3. \A m \in T : ~(<<m, n>> \in {ss \in Nat \X Nat : ss[1] < ss[2]})
  BY <1>1, <1>2, Zenon
<1>4. ASSUME NEW m \in T
      PROVE  n <= m
  <2>1. <<m, n>> \in Nat \X Nat /\ <<m, n>>[1] = m /\ <<m, n>>[2] = n
    OBVIOUS
  <2>2. ~(m < n)
    BY <1>3, <2>1
  <2>3. QED
    BY <2>2
<1>5. QED
  BY <1>4

LEMMA Induction ==
  ASSUME NEW T \in SUBSET Nat, 0 \in T, \A n \in T : n + 1 \in T
  PROVE  T = Nat
<1>1. SUFFICES ASSUME Nat \ T # {} PROVE FALSE
  OBVIOUS
<1>2. PICK n \in Nat \ T : \A m \in Nat \ T : n <= m
  BY <1>1, LeastNatural
<1>3. n # 0 /\ n - 1 \in Nat /\ n - 1 \in T
  BY <1>2
<1>4. QED
  BY <1>2, <1>3

\* What holds at 0 and goes on from each number below N holds up to N.
LEMMA InductionUpTo ==
  ASSUME NEW N \in Nat, NEW T \in SUBSET Nat, 0 \in T,
         \A n \in T : n + 1 <= N => n + 1 \in T
  PROVE  \A n \in 0 .. N : n \in T
<1> DEFINE U == {n \in Nat : n <= N => n \in T}
<1>1. 0 \in U
  OBVIOUS
<1>2. ASSUME NEW n \in U
      PROVE  n + 1 \in U
  <2>1. n + 1 <= N => n <= N
    OBVIOUS
  <2>2. QED
    BY <2>1
<1> HIDE DEF U
<1>3. U = Nat
  <2>1. U \in SUBSET Nat
    BY DEF U
  <2>2. QED
    BY <1>1, <1>2, <2>1, Induction
<1>4. QED
  BY <1>3 DEF U

\* A value for each step from 0 to N, each made of the one before.
Iterates(f, x, step, N) == f[0] = x /\ \A n \in 1 .. N : f[n] = step[<<n, f[n - 1]>>]

LEMMA Iteration ==
  ASSUME NEW X, NEW x \in X, NEW N \in Nat, NEW step \in [(1 .. N) \X X -> X]
  PROVE  \E f \in [0 .. N -> X] : Iterates(f, x, step, N)
<1> DEFINE T == {k \in Nat : \E f \in [0 .. k -> X] :
                   f[0] = x /\ \A n \in 1 .. k : f[n] = step[<<n, f[n - 1]>>]}
<1>1. 0 \in T
  <2>1. [n \in 0 .. 0 |-> x] \in [0 .. 0 -> X] /\ [n \in 0 .. 0 |-> x][0] = x
    OBVIOUS
  <2>2. 1 .. 0 = {}
    OBVIOUS
  <2>3. QED
    BY <2>1, <2>2
<1>2. ASSUME NEW k \in T, k + 1 <= N
      PROVE  k + 1 \in T
  <2>1. PICK f \in [0 .. k -> X] : f[0] = x /\ \A n \in 1 .. k : f[n] = step[<<n, f[n - 1]>>]
    OBVIOUS
  <2> DEFINE g == [n \in 0 .. k + 1 |-> IF n <= k THEN f[n] ELSE step[<<k + 1, f[k]>>]]
  <2>2. step[<<k + 1, f[k]>>] \in X
    <3>1. f[k] \in X /\ k + 1 \in 1 .. N
      BY <1>2
    <3>2. QED
      BY <3>1
  <2>3. g \in [0 .. k + 1 -> X]
    BY <2>1, <2>2
  <2>4. \A n \in 0 .. k : n \in 0 .. k + 1 /\ g[n] = f[n]
    OBVIOUS
  <2>5. g[k + 1] = step[<<k + 1, f[k]>>]
    OBVIOUS
  <2> HIDE DEF g
  <2>6. g[0] = x
    BY <2>1, <2>4
  <2>7. ASSUME NEW n \in 1 .. k + 1
        PROVE  g[n] = step[<<n, g[n - 1]>>]
    <3>1. CASE n = k + 1
      <4>1. n - 1 = k /\ k \in 0 .. k
        BY <3>1
      <4>2. QED
        BY <2>4, <2>5, <3>1, <4>1
    <3>2. CASE n # k + 1
      <4>1. n \in 1 .. k /\ n \in 0 .. k /\ n - 1 \in 0 .. k
        BY <3>2
      <4>2. QED
        BY <2>1, <2>4, <4>1
    <3>3. QED
      BY <3>1, <3>2
  <2>8. QED
    BY <2>3, <2>6, <2>7
<1> HIDE DEF T
<1>3. T \in SUBSET Nat
  BY DEF T
<1>4. \A n \in 0 .. N : n \in T
  BY <1>1, <1>2, <1>3, InductionUpTo
<1>5. N \in T
  BY <1>4
<1>6. PICK f \in [0 .. N -> X] :
        f[0] = x /\ \A n \in 1 .. N : f[n] = step[<<n, f[n - 1]>>]
  BY <1>5 DEF T
<1>7. QED
  BY <1>6 DEF Iterates

\* What holds of the empty sequence, and of a longer one if of the shorter, holds of all.
LEMMA Appending ==
  ASSUME NEW S, NEW T \in SUBSET Seq(S), <<>> \in T, \A s \in T, c \in S : Append(s, c) \in T
  PROVE  T = Seq(S)
<1> DEFINE U == {n \in Nat : \A s \in Seq(S) : Len(s) = n => s \in T}
<1>1. 0 \in U
  BY EmptySeq
<1>2. ASSUME NEW n \in U
      PROVE  n + 1 \in U
  <2>1. ASSUME NEW s \in Seq(S), Len(s) = n + 1
        PROVE  s \in T
    <3>1. s # <<>>
      BY <2>1, EmptySeq
    <3>2. PICK t \in Seq(S), c \in S : s = Append(t, c)
      BY <3>1, SequenceEmptyOrAppend
    <3>3. Len(s) = Len(t) + 1 /\ Len(t) \in Nat
      BY <3>2, AppendProperties, LenProperties
    <3>4. t \in T
      BY <2>1, <3>3
    <3>5. QED
      BY <3>2, <3>4
  <2>2. QED
    BY <2>1
<1> HIDE DEF U
<1>3. U = Nat
  <2>1. U \in SUBSET Nat
    BY DEF U
  <2>2. QED
    BY <1>1, <1>2, <2>1, Induction
<1>4. \A s \in Seq(S) : Len(s) \in U
  BY <1>3, LenProperties
<1>5. QED
  BY <1>4 DEF U
=============================================================================
