-------------------------------- MODULE Numbers -------------------------------
(***************************************************************************)
(* Numbers of the luaml standard library: what stdlib/math.rs adds to      *)
(* Lua's math, the vectors of stdlib/vec.rs, and the durations of          *)
(* stdlib/time.rs.                                                         *)
(*                                                                         *)
(* Numbers are exact here.  What is a fraction in the code is given times  *)
(* its denominator, and a root is given as its square.  A function that    *)
(* may raise yields the set of its results, none if it raises.             *)
(*                                                                         *)
(* A definition whose name starts with Slip is not part of the model: it   *)
(* is what the one after it would be with a plausible bug in that code,    *)
(* kept to show which property notices.                                    *)
(***************************************************************************)
EXTENDS Values, SequencesExt

Total(q) == FoldLeft(LAMBDA a, x : a + x, 0, q)
Sorted(q) == SortSeq(q, LAMBDA x, y : x < y)
Clamp(x, lo, hi) == IF x < lo THEN lo ELSE IF x > hi THEN hi ELSE x

-----------------------------------------------------------------------------
(* Statistics of a list, of which there are none if it is empty.           *)

OfList(list, value) == IF list = <<>> THEN {} ELSE {value}

\* Times the length.
Mean(list) == OfList(list, Total(list))

\* The two in the middle of an even number are those after it.
SlipMedian(list) ==
  LET xs == Sorted(list)
      mid == Len(xs) \div 2 + 1
  IN  OfList(list, IF Len(xs) % 2 = 0 THEN xs[mid] + xs[Len(xs)] ELSE 2 * xs[mid])

\* Times 2.
Median(list) ==
  LET xs == Sorted(list)
      mid == Len(xs) \div 2 + 1
  IN  OfList(list, IF Len(xs) % 2 = 0 THEN xs[mid - 1] + xs[mid] ELSE 2 * xs[mid])

\* Of all of a population; times the cube of the length.  stddev is its root.
Variance(list) ==
  LET n == Len(list)
  IN  OfList(list, Total([i \in 1..n |-> (n * list[i] - Total(list))^2]))

\* At p / whole of the way through the sorted list; times whole.
Percentile(list, p, whole) ==
  LET xs == Sorted(list)
      rank == p * (Len(xs) - 1)
      lo == rank \div whole + 1
      frac == rank % whole
  IN  IF list = <<>> \/ p \notin 0..whole THEN {}
      ELSE IF frac = 0 THEN {whole * xs[lo]}
      ELSE {whole * xs[lo] + (xs[lo + 1] - xs[lo]) * frac}

-----------------------------------------------------------------------------
(* Between two numbers, and how many ways.                                 *)

\* Times whole, for t / whole.
LinearBetween(a, b, t, whole) == whole * a + (b - a) * t

\* Times the cube of the distance of the edges.
Smoothstep(edge0, edge1, x) ==
  LET d == IF edge0 < edge1 THEN edge1 - edge0 ELSE edge0 - edge1
      t == Clamp(IF edge0 < edge1 THEN x - edge0 ELSE edge0 - x, 0, d)
  IN  IF edge0 = edge1 THEN {} ELSE {t * t * (3 * d - 2 * t)}

ClampTo(x, lo, hi) == IF lo > hi THEN {} ELSE {Clamp(x, lo, hi)}

Factorial(n) == IF n < 0 THEN {} ELSE {FoldLeft(LAMBDA acc, i : acc * i, 1, [i \in 1..n |-> i])}

\* The fewer of those in and those out are counted.
Binom(n, k) ==
  LET few == IF k < n - k THEN k ELSE n - k
  IN  IF n < 0 \/ k < 0 THEN {}
      ELSE IF k > n THEN {0}
      ELSE {FoldLeft(LAMBDA acc, i : (acc * (n - i + 1)) \div i, 1, [i \in 1..few |-> i])}

-----------------------------------------------------------------------------
(* Vectors, which are tables of numbers.                                   *)

\* The numbers of a table up to its length; what else it has under an index is left out.
ToVec(t) ==
  IF t.k # "table" \/ \E x \in DOMAIN t.e : DOMAIN x # {"i"} THEN {}
  ELSE {[i \in 1..n |-> t.e[IntKey(i)].n] :
          n \in {n \in Lengths(t.e) :
                   \A i \in 1..n : IntKey(i) \in DOMAIN t.e /\ t.e[IntKey(i)].k = "int"}}
FromVec(v) == ArrayTable([i \in DOMAIN v |-> Num(v[i])])

\* Two vectors of the same dimension.
SameDim(a, b) == {p \in ToVec(a) \X ToVec(b) : Len(p[1]) = Len(p[2])}

DotOf(u, v) == Total([i \in DOMAIN u |-> u[i] * v[i]])
Each(u, v, sign) == FromVec([i \in DOMAIN u |-> u[i] + sign * v[i]])

VecNew(a) == {FromVec(u) : u \in ToVec(a)}
VecAdd(a, b) == {Each(p[1], p[2], 1) : p \in SameDim(a, b)}
VecSub(a, b) == {Each(p[1], p[2], -1) : p \in SameDim(a, b)}
VecScale(a, n) == {FromVec([i \in DOMAIN u |-> u[i] * n]) : u \in ToVec(a)}
VecDot(a, b) == {DotOf(p[1], p[2]) : p \in SameDim(a, b)}

VecCross(a, b) ==
  {FromVec(<<p[1][2] * p[2][3] - p[1][3] * p[2][2],
             p[1][3] * p[2][1] - p[1][1] * p[2][3],
             p[1][1] * p[2][2] - p[1][2] * p[2][1]>>) :
     p \in {p \in ToVec(a) \X ToVec(b) : Len(p[1]) = 3 /\ Len(p[2]) = 3}}

\* Squares of what the code yields.
VecNorm(a) == {DotOf(u, u) : u \in ToVec(a)}
VecDistance(a, b) == {Total([i \in DOMAIN p[1] |-> (p[1][i] - p[2][i])^2]) : p \in SameDim(a, b)}

\* A vector divided by its norm, given as the square of that.
VecNormalize(a) == {[of |-> FromVec(u), norm |-> DotOf(u, u)] : u \in {u \in ToVec(a) : DotOf(u, u) # 0}}

\* A product divided by two norms, given as the square of those.
VecCosine(a, b) ==
  {[dot |-> DotOf(p[1], p[2]), norms |-> DotOf(p[1], p[1]) * DotOf(p[2], p[2])] :
     p \in {p \in SameDim(a, b) : DotOf(p[1], p[1]) # 0 /\ DotOf(p[2], p[2]) # 0}}

-----------------------------------------------------------------------------
(* How long a script sleeps.                                               *)

\* How long time.sleep sleeps for a number: for ever is no time, and huge is more than a
\* Duration holds.
SleepFor(v) ==
  CASE v.k = "int" -> IF v.n <= 0 THEN "zero" ELSE Digits(v.n)
    [] v.k = "float" /\ v.f \in {"NaN", "inf", "-1.5"} -> "zero"
    [] v.k = "float" /\ v.f = "huge" -> "max"
    [] OTHER -> v.f

\* How long thread.sleep sleeps for a number of milliseconds, of which the fraction is
\* dropped.
ThreadSleepFor(v) == IF v = Float("1.5") THEN Digits(1) ELSE SleepFor(v)
=============================================================================
