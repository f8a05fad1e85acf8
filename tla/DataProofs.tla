----------------------------- MODULE DataProofs -----------------------------
(***************************************************************************)
(* Facts about data that the proofs of several components need: positions  *)
(* in a ring, least numbers and induction, recursive functions on an       *)
(* initial segment, and sums over finite sets.                             *)
(*                                                                         *)
(* Induction is stated about a set of numbers, not about a predicate: the  *)
(* set of the numbers that have the property is built where it is used.    *)
(***************************************************************************)
EXTENDS Integers, Functions, FiniteSetTheorems, WellFoundedInduction, TLAPS

-----------------------------------------------------------------------------
(* Positions in a ring of C slots. *)

LEMMA DivMod ==
  ASSUME NEW a \in Nat, NEW C \in Nat \ {0}
  PROVE  /\ a \div C \in Int /\ a % C \in 0 .. C-1
         /\ a = C * (a \div C) + (a % C)
OBVIOUS

LEMMA Multiple ==
  ASSUME NEW C \in Nat \ {0}, NEW d \in Int, d * C > 0
  PROVE  d * C >= C
<1>1. CASE d <= 0
  BY <1>1
<1>2. CASE d >= 1
  BY <1>2
<1> QED BY <1>1, <1>2

\* Counters less than a lap apart are at different positions.
LEMMA ModDiffer ==
  ASSUME NEW a \in Nat, NEW b \in Nat, NEW C \in Nat \ {0}, a < b, b < a + C
  PROVE  a % C # b % C
<1> SUFFICES ASSUME a % C = b % C PROVE FALSE
  OBVIOUS
<1> DEFINE p == a \div C
           q == b \div C
           m == a % C
<1>1. p \in Int /\ q \in Int /\ m \in Int /\ a = C * p + m /\ b = C * q + m
  BY DivMod
<1> HIDE DEF p, q, m
<1>2. (q - p) * C = b - a /\ q - p \in Int
  BY <1>1
<1> QED BY <1>2, Multiple

\* A lap later the position is the same.
LEMMA ModLap ==
  ASSUME NEW a \in Nat, NEW C \in Nat \ {0}
  PROVE  (a + C) % C = a % C
<1> DEFINE p == a \div C
           q == (a + C) \div C
           m == a % C
           n == (a + C) % C
<1>1. p \in Int /\ q \in Int /\ m \in 0 .. C-1 /\ n \in 0 .. C-1
      /\ a = C * p + m /\ a + C = C * q + n
  BY DivMod, a + C \in Nat
<1> HIDE DEF p, q, m, n
<1>2. (q - p - 1) * C = m - n /\ (p + 1 - q) * C = n - m /\ q - p - 1 \in Int /\ p + 1 - q \in Int
  BY <1>1
<1>3. ~(m - n > 0) /\ ~(n - m > 0)
  BY <1>1, <1>2, Multiple
<1>4. m = n
  BY <1>1, <1>3
<1> QED BY <1>4 DEF m, n
-----------------------------------------------------------------------------
(* Induction. *)

LEMMA LeastNat ==
  ASSUME NEW A \in SUBSET Nat, A # {}
  PROVE  \E m \in A : \A n \in A : m <= n
<1> DEFINE R == OpToRel(<, Nat)
<1>1. IsWellFoundedOn(R, Nat)
  BY NatLessThanWellFounded
<1>2. \A x, y \in Nat : x < y => <<x, y>> \in R
  BY DEF OpToRel
<1> HIDE DEF R
<1>3. PICK m \in A : \A y \in A : ~(<<y, m>> \in R)
  BY <1>1, WFMin
<1>4. ASSUME NEW n \in A PROVE m <= n
  <2>1. ~(n < m)
    BY <1>2, <1>3
  <2> QED BY <2>1
<1> QED BY <1>4

LEMMA InductNat ==
  ASSUME NEW A \in SUBSET Nat, 0 \in A, \A n \in A : n + 1 \in A
  PROVE  A = Nat
<1> SUFFICES ASSUME Nat \ A # {} PROVE FALSE
  OBVIOUS
<1>1. PICK m \in Nat \ A : \A n \in Nat \ A : m <= n
  BY LeastNat
<1>2. m - 1 \in A
  BY <1>1
<1>3. (m - 1) + 1 = m
  BY <1>1
<1> QED BY <1>1, <1>2, <1>3

\* A finite set is in B when a set is in B as soon as all sets with one element less are.
LEMMA InductSet ==
  ASSUME NEW S, IsFiniteSet(S), NEW B,
         \A s \in SUBSET S : (\A x \in s : s \ {x} \in B) => s \in B
  PROVE  S \in B
<1> DEFINE A == {n \in Nat : \A s \in SUBSET S : Cardinality(s) = n => s \in B}
<1>1. \A s \in SUBSET S : IsFiniteSet(s) /\ Cardinality(s) \in Nat
  BY FS_Subset, FS_CardinalityType
<1>2. 0 \in A
  <2>1. ASSUME NEW s \in SUBSET S, Cardinality(s) = 0 PROVE s \in B
    BY <1>1, <2>1, FS_EmptySet
  <2> QED BY <2>1
<1>3. ASSUME NEW n \in A PROVE n + 1 \in A
  <2>1. n \in Nat
    BY <1>3
  <2>2. ASSUME NEW s \in SUBSET S, Cardinality(s) = n + 1 PROVE s \in B
    <3>1. ASSUME NEW x \in s PROVE s \ {x} \in B
      <4>1. Cardinality(s \ {x}) = Cardinality(s) - 1
        BY <1>1, FS_RemoveElement
      <4>2. Cardinality(s \ {x}) = n
        BY <2>1, <2>2, <4>1
      <4> QED BY <1>3, <4>2
    <3> QED BY <3>1
  <2> QED BY <2>1, <2>2
<1> HIDE DEF A
<1>4. A = Nat
  <2>1. A \in SUBSET Nat
    BY DEF A
  <2> QED BY <1>2, <1>3, <2>1, InductNat
<1> QED BY <1>1, <1>4 DEF A
-----------------------------------------------------------------------------
(* Recursive functions on an initial segment of the naturals. *)

\* f starts with a, and each value follows from the one before it by the function step.
Steps(f, n, a, step) == f = [k \in 0 .. n |-> IF k = 0 THEN a ELSE step[k][f[k-1]]]

LEMMA StepsExist ==
  ASSUME NEW n \in Nat, NEW D, NEW a \in D, NEW step \in [Nat -> [D -> D]]
  PROVE  \E f \in [0 .. n -> D] : Steps(f, n, a, step)
<1> DEFINE A == {m \in Nat : \E f \in [0 .. m -> D] : Steps(f, m, a, step)}
<1>1. 0 \in A
  <2> DEFINE f == [k \in 0 .. 0 |-> a]
  <2>1. f \in [0 .. 0 -> D] /\ Steps(f, 0, a, step)
    BY DEF Steps
  <2> QED BY <2>1
<1>2. ASSUME NEW m \in A PROVE m + 1 \in A
  <2>1. m \in Nat
    BY <1>2
  <2>2. PICK f \in [0 .. m -> D] : Steps(f, m, a, step)
    BY <1>2
  <2> DEFINE g == [k \in 0 .. m + 1 |-> IF k = 0 THEN a ELSE step[k][f[k-1]]]
  <2>3. \A k \in 0 .. m : k \in 0 .. m + 1 /\ g[k] = f[k]
    BY <2>1, <2>2 DEF Steps
  <2>4. \A k \in 0 .. m + 1 : k # 0 => k - 1 \in 0 .. m /\ f[k-1] \in D /\ k \in Nat
    BY <2>1, <2>2
  <2>5. g \in [0 .. m + 1 -> D]
    BY <2>4
  <2>6. Steps(g, m + 1, a, step)
    BY <2>3, <2>4 DEF Steps
  <2>7. m + 1 \in Nat
    BY <2>1
  <2> HIDE DEF g
  <2> QED BY <2>5, <2>6, <2>7
<1> HIDE DEF A
<1>3. A = Nat
  <2>1. A \in SUBSET Nat
    BY DEF A
  <2> QED BY <1>1, <1>2, <2>1, InductNat
<1> QED BY <1>3 DEF A

\* A set with the first number that is closed under "and the next" has the whole segment.
LEMMA InductUpTo ==
  ASSUME NEW n \in Nat, NEW B, 0 \in B, \A k \in 0 .. n : k < n /\ k \in B => k + 1 \in B
  PROVE  0 .. n \subseteq B
<1> DEFINE A == {k \in Nat : k <= n => k \in B}
<1>1. 0 \in A
  OBVIOUS
<1>2. \A k \in A : k + 1 \in A
  OBVIOUS
<1> HIDE DEF A
<1>3. A = Nat
  <2>1. A \in SUBSET Nat
    BY DEF A
  <2> QED BY <1>1, <1>2, <2>1, InductNat
<1> QED BY <1>3 DEF A
-----------------------------------------------------------------------------
(* Sums over finite sets: SumFunctionOnSet picks the elements in an order of its own. *)

Pick(s) == CHOOSE x \in s : TRUE

\* The function SumFunctionOnSet defines by recursion, over a family of sets.
SumsOver(f, F, g) ==
  g = [s \in F |-> IF s = {} THEN 0 ELSE f[Pick(s)] + g[s \ {Pick(s)}]]

LEMMA PickIn == ASSUME NEW s, s # {} PROVE Pick(s) \in s
BY DEF Pick

LEMMA SumIsChoice ==
  ASSUME NEW f, NEW S
  PROVE  SumFunctionOnSet(f, S) = (CHOOSE g : SumsOver(f, SUBSET S, g))[S]
BY DEF SumFunctionOnSet, FoldFunctionOnSet, MapThenFoldSet, SumsOver, Pick

UpTo(S, n) == {s \in SUBSET S : Cardinality(s) <= n}

\* The recursion has a solution: it is built up by the size of the sets.
LEMMA SumsExist ==
  ASSUME NEW f, NEW S, IsFiniteSet(S)
  PROVE  \E g : SumsOver(f, SUBSET S, g)
<1> DEFINE A == {n \in Nat : \E g : SumsOver(f, UpTo(S, n), g)}
<1>1. \A s \in SUBSET S : IsFiniteSet(s) /\ Cardinality(s) \in Nat /\ Cardinality(s) <= Cardinality(S)
  BY FS_Subset, FS_CardinalityType
<1>2. 0 \in A
  <2> DEFINE g == [s \in UpTo(S, 0) |-> 0]
  <2>1. \A s \in UpTo(S, 0) : s = {}
    BY <1>1, FS_EmptySet DEF UpTo
  <2>2. SumsOver(f, UpTo(S, 0), g)
    BY <2>1 DEF SumsOver
  <2> QED BY <2>2
<1>3. ASSUME NEW n \in A PROVE n + 1 \in A
  <2>1. n \in Nat
    BY <1>3
  <2>2. PICK g : SumsOver(f, UpTo(S, n), g)
    BY <1>3
  <2> DEFINE h == [s \in UpTo(S, n + 1) |-> IF s = {} THEN 0 ELSE f[Pick(s)] + g[s \ {Pick(s)}]]
  <2>3. UpTo(S, n) \subseteq UpTo(S, n + 1)
    BY <1>1, <2>1 DEF UpTo
  <2>4. \A s \in UpTo(S, n) : h[s] = g[s]
    BY <2>2, <2>3 DEF SumsOver
  <2>5. ASSUME NEW s \in UpTo(S, n + 1), s # {} PROVE s \ {Pick(s)} \in UpTo(S, n)
    <3>1. Cardinality(s \ {Pick(s)}) = Cardinality(s) - 1
      BY <1>1, <2>5, FS_RemoveElement, PickIn DEF UpTo
    <3>2. Cardinality(s) <= n + 1 /\ Cardinality(s) \in Nat /\ s \ {Pick(s)} \in SUBSET S
      BY <1>1, <2>5 DEF UpTo
    <3>3. Cardinality(s \ {Pick(s)}) <= n
      BY <2>1, <3>1, <3>2
    <3> QED BY <3>2, <3>3 DEF UpTo
  <2>6. SumsOver(f, UpTo(S, n + 1), h)
    BY <2>4, <2>5 DEF SumsOver
  <2> QED BY <2>1, <2>6
<1> HIDE DEF A
<1>4. A = Nat
  <2>1. A \in SUBSET Nat
    BY DEF A
  <2> QED BY <1>2, <1>3, <2>1, InductNat
<1>5. Cardinality(S) \in A
  BY <1>4, FS_CardinalityType
<1>6. UpTo(S, Cardinality(S)) = SUBSET S
  BY <1>1 DEF UpTo
<1> QED BY <1>5, <1>6 DEF A

\* Two solutions agree wherever both are defined.
LEMMA SumsAgree ==
  ASSUME NEW f, NEW S, IsFiniteSet(S), NEW U, S \subseteq U, NEW g, NEW h,
         SumsOver(f, SUBSET S, g), SumsOver(f, SUBSET U, h)
  PROVE  g[S] = h[S]
<1> DEFINE B == {s \in SUBSET S : g[s] = h[s]}
<1>1. \A s \in SUBSET S :
        /\ g[s] = IF s = {} THEN 0 ELSE f[Pick(s)] + g[s \ {Pick(s)}]
        /\ h[s] = IF s = {} THEN 0 ELSE f[Pick(s)] + h[s \ {Pick(s)}]
  BY DEF SumsOver
<1>2. ASSUME NEW s \in SUBSET S, \A x \in s : s \ {x} \in B PROVE s \in B
  BY <1>1, <1>2, PickIn
<1>3. S \in B
  BY <1>2, InductSet
<1> QED BY <1>3

\* What the sum is: nothing, or the element picked and the sum of the others.
LEMMA SumRecursion ==
  ASSUME NEW f, NEW S, IsFiniteSet(S)
  PROVE  SumFunctionOnSet(f, S) =
           IF S = {} THEN 0 ELSE f[Pick(S)] + SumFunctionOnSet(f, S \ {Pick(S)})
<1> DEFINE G(T) == CHOOSE g : SumsOver(f, SUBSET T, g)
<1>1. \A T : IsFiniteSet(T) => SumsOver(f, SUBSET T, G(T))
  BY SumsExist
<1>2. \A T : SumFunctionOnSet(f, T) = G(T)[T]
  BY SumIsChoice
<1> HIDE DEF G
<1>3. CASE S = {}
  BY <1>1, <1>2, <1>3 DEF SumsOver
<1>4. CASE S # {}
  <2> DEFINE T == S \ {Pick(S)}
  <2>1. IsFiniteSet(T) /\ T \subseteq S
    BY FS_RemoveElement
  <2>2. G(S)[S] = f[Pick(S)] + G(S)[T]
    BY <1>1, <1>4 DEF SumsOver
  <2>3. G(T)[T] = G(S)[T]
    <3>1. SumsOver(f, SUBSET T, G(T)) /\ SumsOver(f, SUBSET S, G(S))
      BY <1>1, <2>1
    <3>2. \A R, g, h : IsFiniteSet(R) /\ R \subseteq S /\ SumsOver(f, SUBSET R, g)
                       /\ SumsOver(f, SUBSET S, h) => g[R] = h[R]
      BY SumsAgree
    <3> HIDE DEF T
    <3> QED BY <2>1, <3>1, <3>2
  <2> QED BY <1>2, <1>4, <2>2, <2>3
<1> QED BY <1>3, <1>4

LEMMA SumEmpty == ASSUME NEW f PROVE SumFunctionOnSet(f, {}) = 0
BY SumRecursion, FS_EmptySet

LEMMA SumInt ==
  ASSUME NEW f, NEW S, IsFiniteSet(S), \A x \in S : f[x] \in Int
  PROVE  SumFunctionOnSet(f, S) \in Int
<1> DEFINE B == {s \in SUBSET S : SumFunctionOnSet(f, s) \in Int}
<1>1. ASSUME NEW s \in SUBSET S, \A x \in s : s \ {x} \in B PROVE s \in B
  <2>1. IsFiniteSet(s)
    BY FS_Subset
  <2>2. CASE s = {}
    BY <2>2, SumEmpty
  <2>3. CASE s # {}
    <3>1. Pick(s) \in s /\ f[Pick(s)] \in Int
      BY <2>3, PickIn
    <3>2. SumFunctionOnSet(f, s \ {Pick(s)}) \in Int
      BY <1>1, <3>1
    <3>3. SumFunctionOnSet(f, s) = f[Pick(s)] + SumFunctionOnSet(f, s \ {Pick(s)})
      BY <2>1, <2>3, SumRecursion
    <3> QED BY <3>1, <3>2, <3>3
  <2> QED BY <2>2, <2>3
<1>2. S \in B
  BY <1>1, InductSet
<1> QED BY <1>2

\* Any element can be taken out first.
LEMMA SumRemove ==
  ASSUME NEW f, NEW S, IsFiniteSet(S), \A x \in S : f[x] \in Int, NEW e \in S
  PROVE  SumFunctionOnSet(f, S) = f[e] + SumFunctionOnSet(f, S \ {e})
<1> DEFINE B == {s \in SUBSET S :
                   \A x \in s : SumFunctionOnSet(f, s) = f[x] + SumFunctionOnSet(f, s \ {x})}
<1>1. \A s \in SUBSET S : IsFiniteSet(s) /\ SumFunctionOnSet(f, s) \in Int
  <2> TAKE s \in SUBSET S
  <2>1. IsFiniteSet(s) /\ \A x \in s : f[x] \in Int
    BY FS_Subset
  <2> QED BY <2>1, SumInt
<1>2. ASSUME NEW s \in SUBSET S, \A x \in s : s \ {x} \in B PROVE s \in B
  <2> SUFFICES ASSUME NEW x \in s
               PROVE  SumFunctionOnSet(f, s) = f[x] + SumFunctionOnSet(f, s \ {x})
    OBVIOUS
  <2> DEFINE p == Pick(s)
             t == s \ {p}
             u == s \ {x}
             w == t \ {x}
  <2>1. p \in s /\ IsFiniteSet(s)
    BY <1>1, PickIn
  <2>2. SumFunctionOnSet(f, s) = f[p] + SumFunctionOnSet(f, t)
    BY <2>1, SumRecursion
  <2>3. CASE x = p
    BY <2>2, <2>3
  <2>4. CASE x # p
    <3>1. x \in t /\ p \in u /\ u \ {p} = w /\ w \in SUBSET S
      BY <2>1, <2>4
    <3>2. t \in B /\ u \in B
      BY <1>2, <2>1
    <3>3. SumFunctionOnSet(f, t) = f[x] + SumFunctionOnSet(f, w)
      BY <3>1, <3>2
    <3>4. SumFunctionOnSet(f, u) = f[p] + SumFunctionOnSet(f, w)
      BY <3>1, <3>2
    <3>5. f[x] \in Int /\ f[p] \in Int /\ SumFunctionOnSet(f, w) \in Int
      BY <1>1, <2>1, <3>1
    <3> QED BY <2>2, <3>3, <3>4, <3>5
  <2> QED BY <2>3, <2>4
<1>3. S \in B
  BY <1>2, InductSet
<1> QED BY <1>3

LEMMA SumAdd ==
  ASSUME NEW f, NEW S, IsFiniteSet(S), \A x \in S : f[x] \in Int, NEW e, e \notin S, f[e] \in Int
  PROVE  SumFunctionOnSet(f, S \cup {e}) = f[e] + SumFunctionOnSet(f, S)
<1> DEFINE U == S \cup {e}
<1>1. IsFiniteSet(U) /\ e \in U /\ U \ {e} = S /\ \A x \in U : f[x] \in Int
  BY FS_AddElement
<1> HIDE DEF U
<1>2. SumFunctionOnSet(f, U) = f[e] + SumFunctionOnSet(f, U \ {e})
  BY <1>1, SumRemove
<1> QED BY <1>1, <1>2 DEF U

\* A sum is no larger than one with larger terms.
LEMMA SumLeq ==
  ASSUME NEW f, NEW g, NEW S, IsFiniteSet(S),
         \A x \in S : f[x] \in Int /\ g[x] \in Int /\ f[x] <= g[x]
  PROVE  SumFunctionOnSet(f, S) <= SumFunctionOnSet(g, S)
<1> DEFINE B == {s \in SUBSET S : SumFunctionOnSet(f, s) <= SumFunctionOnSet(g, s)}
<1>1. ASSUME NEW s \in SUBSET S, \A x \in s : s \ {x} \in B PROVE s \in B
  <2>1. IsFiniteSet(s)
    BY FS_Subset
  <2>2. CASE s = {}
    BY <2>2, SumEmpty
  <2>3. CASE s # {}
    <3> DEFINE t == s \ {Pick(s)}
    <3>1. Pick(s) \in s /\ IsFiniteSet(t) /\ \A x \in t : f[x] \in Int /\ g[x] \in Int
      BY <2>1, <2>3, PickIn, FS_RemoveElement
    <3>2. SumFunctionOnSet(f, t) \in Int /\ SumFunctionOnSet(g, t) \in Int
      BY <3>1, SumInt
    <3>3. SumFunctionOnSet(f, t) <= SumFunctionOnSet(g, t)
      BY <1>1, <3>1
    <3>4. /\ SumFunctionOnSet(f, s) = f[Pick(s)] + SumFunctionOnSet(f, t)
          /\ SumFunctionOnSet(g, s) = g[Pick(s)] + SumFunctionOnSet(g, t)
      BY <2>1, <2>3, SumRecursion
    <3>5. f[Pick(s)] \in Int /\ g[Pick(s)] \in Int /\ f[Pick(s)] <= g[Pick(s)]
      BY <3>1
    <3> QED BY <3>2, <3>3, <3>4, <3>5
  <2> QED BY <2>2, <2>3
<1>2. S \in B
  BY <1>1, InductSet
<1> QED BY <1>2

LEMMA SumSame ==
  ASSUME NEW f, NEW g, NEW S, IsFiniteSet(S), \A x \in S : f[x] \in Int /\ f[x] = g[x]
  PROVE  SumFunctionOnSet(f, S) = SumFunctionOnSet(g, S)
<1>1. SumFunctionOnSet(f, S) <= SumFunctionOnSet(g, S) /\ SumFunctionOnSet(g, S) <= SumFunctionOnSet(f, S)
  BY SumLeq
<1>2. SumFunctionOnSet(f, S) \in Int /\ SumFunctionOnSet(g, S) \in Int
  BY SumInt
<1> QED BY <1>1, <1>2

\* One term changes.
LEMMA SumChange ==
  ASSUME NEW f, NEW g, NEW S, IsFiniteSet(S), NEW e \in S,
         \A x \in S : f[x] \in Int /\ g[x] \in Int,
         \A x \in S \ {e} : f[x] = g[x]
  PROVE  SumFunctionOnSet(g, S) = SumFunctionOnSet(f, S) + g[e] - f[e]
<1> DEFINE T == S \ {e}
<1>1. IsFiniteSet(T) /\ \A x \in T : f[x] \in Int /\ f[x] = g[x]
  BY FS_RemoveElement
<1>2. SumFunctionOnSet(f, T) = SumFunctionOnSet(g, T) /\ SumFunctionOnSet(f, T) \in Int
  BY <1>1, SumSame, SumInt
<1>3. /\ SumFunctionOnSet(f, S) = f[e] + SumFunctionOnSet(f, T)
      /\ SumFunctionOnSet(g, S) = g[e] + SumFunctionOnSet(g, T)
  BY SumRemove
<1> QED BY <1>2, <1>3

\* Leaving terms out of a sum that has no negative one.
LEMMA SumSubset ==
  ASSUME NEW f, NEW S, IsFiniteSet(S), \A x \in S : f[x] \in Nat, NEW R \in SUBSET S
  PROVE  SumFunctionOnSet(f, R) <= SumFunctionOnSet(f, S)
<1> DEFINE B == {s \in SUBSET S : SumFunctionOnSet(f, R \cap s) <= SumFunctionOnSet(f, s)}
<1>1. ASSUME NEW s \in SUBSET S, \A x \in s : s \ {x} \in B PROVE s \in B
  <2>1. CASE s = {}
    <3>1. R \cap s = {}
      BY <2>1
    <3> QED BY <2>1, <3>1, SumEmpty
  <2>2. ASSUME NEW x \in s PROVE s \in B
    <3> DEFINE t == s \ {x}
               a == R \cap t
    <3>1. IsFiniteSet(s) /\ IsFiniteSet(t) /\ IsFiniteSet(R \cap s) /\ IsFiniteSet(a)
      BY FS_Subset, t \in SUBSET S, R \cap s \in SUBSET S, a \in SUBSET S
    <3>2. SumFunctionOnSet(f, a) <= SumFunctionOnSet(f, t)
      BY <1>1, <2>2
    <3>3. SumFunctionOnSet(f, s) = f[x] + SumFunctionOnSet(f, t)
      BY <2>2, <3>1, SumRemove
    <3>4. SumFunctionOnSet(f, t) \in Int /\ SumFunctionOnSet(f, a) \in Int /\ f[x] \in Nat
      BY <2>2, <3>1, SumInt
    <3>5. CASE x \in R
      <4>1. (R \cap s) \ {x} = a /\ x \in R \cap s
        BY <2>2, <3>5
      <4>2. SumFunctionOnSet(f, R \cap s) = f[x] + SumFunctionOnSet(f, (R \cap s) \ {x})
        BY <3>1, <4>1, SumRemove
      <4>3. SumFunctionOnSet(f, R \cap s) = f[x] + SumFunctionOnSet(f, a)
        BY <4>1, <4>2
      <4> HIDE DEF t, a
      <4>4. SumFunctionOnSet(f, R \cap s) <= SumFunctionOnSet(f, s)
        BY <3>2, <3>3, <3>4, <4>3
      <4> QED BY <4>4
    <3>6. CASE x \notin R
      <4>1. R \cap s = a
        BY <3>6
      <4>2. SumFunctionOnSet(f, R \cap s) = SumFunctionOnSet(f, a)
        BY <4>1
      <4> HIDE DEF t, a
      <4>3. SumFunctionOnSet(f, R \cap s) <= SumFunctionOnSet(f, s)
        BY <3>2, <3>3, <3>4, <4>2
      <4> QED BY <4>3
    <3> QED BY <3>5, <3>6
  <2> QED BY <2>1, <2>2
<1>2. S \in B
  BY <1>1, InductSet
<1>3. R \cap S = R
  OBVIOUS
<1> QED BY <1>2, <1>3

\* Leaving zeros out of a sum.
LEMMA SumSupport ==
  ASSUME NEW f, NEW S, IsFiniteSet(S), NEW R \in SUBSET S,
         \A x \in S : f[x] \in Int, \A x \in S \ R : f[x] = 0
  PROVE  SumFunctionOnSet(f, R) = SumFunctionOnSet(f, S)
<1> DEFINE B == {s \in SUBSET S : SumFunctionOnSet(f, R \cap s) = SumFunctionOnSet(f, s)}
<1>1. ASSUME NEW s \in SUBSET S, \A x \in s : s \ {x} \in B PROVE s \in B
  <2>1. CASE s = {}
    <3>1. R \cap s = {}
      BY <2>1
    <3> QED BY <2>1, <3>1, SumEmpty
  <2>2. ASSUME NEW x \in s PROVE s \in B
    <3> DEFINE t == s \ {x}
               a == R \cap t
    <3>1. IsFiniteSet(s) /\ IsFiniteSet(t) /\ IsFiniteSet(R \cap s) /\ IsFiniteSet(a)
      BY FS_Subset, t \in SUBSET S, R \cap s \in SUBSET S, a \in SUBSET S
    <3>2. SumFunctionOnSet(f, a) = SumFunctionOnSet(f, t)
      BY <1>1, <2>2
    <3>3. SumFunctionOnSet(f, s) = f[x] + SumFunctionOnSet(f, t)
      BY <2>2, <3>1, SumRemove
    <3>4. SumFunctionOnSet(f, t) \in Int /\ f[x] \in Int
      BY <2>2, <3>1, SumInt
    <3>5. CASE x \in R
      <4>1. (R \cap s) \ {x} = a /\ x \in R \cap s
        BY <2>2, <3>5
      <4>2. SumFunctionOnSet(f, R \cap s) = f[x] + SumFunctionOnSet(f, (R \cap s) \ {x})
        BY <3>1, <4>1, SumRemove
      <4> QED BY <3>2, <3>3, <4>1, <4>2
    <3>6. CASE x \notin R
      <4>1. R \cap s = a /\ f[x] = 0
        BY <2>2, <3>6
      <4>2. SumFunctionOnSet(f, R \cap s) = SumFunctionOnSet(f, a)
        BY <4>1
      <4> HIDE DEF t, a
      <4>3. SumFunctionOnSet(f, s) = SumFunctionOnSet(f, t)
        BY <3>3, <3>4, <4>1
      <4>4. SumFunctionOnSet(f, R \cap s) = SumFunctionOnSet(f, s)
        BY <3>2, <4>2, <4>3
      <4> QED BY <4>4
    <3> QED BY <3>5, <3>6
  <2> QED BY <2>1, <2>2
<1>2. S \in B
  BY <1>1, InductSet
<1>3. R \cap S = R
  OBVIOUS
<1> QED BY <1>2, <1>3

\* The same terms under other names.
LEMMA SumRenamed ==
  ASSUME NEW f, NEW g, NEW h, NEW S, IsFiniteSet(S), \A x \in S : f[x] \in Int /\ f[x] = g[h[x]],
         \A x, y \in S : h[x] = h[y] => x = y, IsFiniteSet({h[x] : x \in S})
  PROVE  SumFunctionOnSet(f, S) = SumFunctionOnSet(g, {h[x] : x \in S})
<1> DEFINE Im(s) == {h[x] : x \in s}
           B == {s \in SUBSET S : SumFunctionOnSet(f, s) = SumFunctionOnSet(g, Im(s))}
<1>1. ASSUME NEW s \in SUBSET S, \A x \in s : s \ {x} \in B PROVE s \in B
  <2>1. CASE s = {}
    <3>1. Im(s) = {}
      BY <2>1
    <3> QED BY <2>1, <3>1, SumEmpty
  <2>2. ASSUME NEW x \in s PROVE s \in B
    <3> DEFINE t == s \ {x}
    <3>1. IsFiniteSet(s) /\ IsFiniteSet(t) /\ IsFiniteSet(Im(s))
      BY FS_Subset, t \in SUBSET S, Im(s) \in SUBSET Im(S)
    <3>2. SumFunctionOnSet(f, t) = SumFunctionOnSet(g, Im(t))
      BY <1>1, <2>2
    <3>3. SumFunctionOnSet(f, s) = f[x] + SumFunctionOnSet(f, t)
      BY <2>2, <3>1, SumRemove
    <3>4. Im(s) \ {h[x]} = Im(t) /\ h[x] \in Im(s) /\ f[x] = g[h[x]]
      BY <2>2
    <3>5. \A y \in Im(s) : g[y] \in Int
      OBVIOUS
    <3>6. PICK w : w = Im(s)
      OBVIOUS
    <3>7. PICK e : e = h[x]
      OBVIOUS
    <3>8. IsFiniteSet(w) /\ e \in w /\ \A y \in w : g[y] \in Int
      BY <3>1, <3>4, <3>5, <3>6, <3>7
    <3>9. SumFunctionOnSet(g, w) = g[e] + SumFunctionOnSet(g, w \ {e})
      BY <3>8, SumRemove
    <3>10. w \ {e} = Im(t)
      BY <3>4, <3>6, <3>7
    <3>11. SumFunctionOnSet(f, s) = SumFunctionOnSet(g, Im(s))
      BY <3>2, <3>3, <3>4, <3>6, <3>7, <3>9, <3>10
    <3> QED BY <3>11
  <2> QED BY <2>1, <2>2
<1>2. S \in B
  BY <1>1, InductSet
<1> QED BY <1>2
=============================================================================
