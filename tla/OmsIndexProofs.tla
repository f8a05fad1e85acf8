--------------------------- MODULE OmsIndexProofs ---------------------------
(***************************************************************************)
(* Proofs about the order book as array and hash index, for every          *)
(* capacity, every hash function and any references: the index stays       *)
(* exact, and the book implements the map of module Oms.                   *)
(***************************************************************************)
EXTENDS OmsIndex, DataProofs

-----------------------------------------------------------------------------
LEMMA MinLeast ==
  ASSUME NEW S \in SUBSET Nat, S # {}
  PROVE  Min(S) \in S /\ \A x \in S : Min(S) <= x
BY LeastNat DEF Min
-----------------------------------------------------------------------------
(* The size of the table. *)

Doubling == [k \in Nat |-> [p \in Nat |-> 2 * p]]

LEMMA PowerLarge ==
  ASSUME NEW n \in Nat
  PROVE  next_pow2(n) \in Nat /\ next_pow2(n) >= n
<1> DEFINE P(f) == f = [k \in 0 .. n |-> IF k = 0 THEN 1 ELSE 2 * f[k-1]]
           p == CHOOSE f : P(f)
<1>1. \E f \in [0 .. n -> Nat] : P(f)
  <2>1. Doubling \in [Nat -> [Nat -> Nat]] /\ \A k, m \in Nat : Doubling[k][m] = 2 * m
    BY DEF Doubling
  <2>2. PICK f \in [0 .. n -> Nat] : Steps(f, n, 1, Doubling)
    BY <2>1, StepsExist
  <2>3. ASSUME NEW k \in 0 .. n, k # 0 PROVE Doubling[k][f[k-1]] = 2 * f[k-1]
    <3>1. k \in Nat /\ k - 1 \in 0 .. n /\ f[k-1] \in Nat
      BY <2>3
    <3> QED BY <2>1, <3>1
  <2>4. P(f)
    BY <2>2, <2>3 DEF Steps
  <2> QED BY <2>4
<1>2. P(p)
  BY <1>1
<1>3. next_pow2(n) = Min({q \in {p[k] : k \in 0 .. n} : q >= n})
  BY DEF next_pow2
<1> HIDE DEF p
<1>4. \A k \in 0 .. n : p[k] = IF k = 0 THEN 1 ELSE 2 * p[k-1]
  BY <1>2
<1> DEFINE B == {k \in 0 .. n : p[k] \in Nat /\ p[k] > k}
<1>5. 0 .. n \subseteq B
  <2>1. 0 \in B
    BY <1>4
  <2>2. ASSUME NEW k \in 0 .. n, k < n /\ k \in B PROVE k + 1 \in B
    <3>1. k + 1 \in 0 .. n /\ p[k + 1] = 2 * p[k]
      BY <1>4, <2>2
    <3> QED BY <2>2, <3>1
  <2> HIDE DEF B
  <2> QED BY <2>1, <2>2, InductUpTo
<1> DEFINE S == {q \in {p[k] : k \in 0 .. n} : q >= n}
<1>6. S \in SUBSET Nat /\ S # {}
  <2>1. p[n] \in S
    BY <1>5
  <2> QED BY <1>5, <2>1
<1> HIDE DEF S
<1>7. Min(S) \in S
  BY <1>6, MinLeast
<1> QED BY <1>3, <1>6, <1>7 DEF S

LEMMA TableSize ==
  /\ IndexCapacity \in Nat \ {0} /\ IndexCapacity >= 2 * Capacity
  /\ Capacity \in Nat
<1>1. Capacity \in Nat
  BY OmsIndexAssumption
<1>2. Max({Capacity, 1}) \in Nat /\ Max({Capacity, 1}) >= Capacity /\ Max({Capacity, 1}) >= 1
  <2>1. \E x \in {Capacity, 1} : \A y \in {Capacity, 1} : x >= y
    BY <1>1
  <2>2. Max({Capacity, 1}) \in {Capacity, 1} /\ \A y \in {Capacity, 1} : Max({Capacity, 1}) >= y
    BY <2>1 DEF Max
  <2> QED BY <1>1, <2>2
<1> DEFINE m == Max({Capacity, 1})
<1> HIDE DEF m
<1>3. 2 * m \in Nat /\ 2 * m >= 2 * Capacity /\ 2 * m >= 2
  BY <1>1, <1>2 DEF m
<1>4. next_pow2(2 * m) \in Nat /\ next_pow2(2 * m) >= 2 * m
  BY <1>3, PowerLarge
<1>5. IndexCapacity = next_pow2(2 * m)
  BY DEF IndexCapacity, m
<1> QED BY <1>1, <1>3, <1>4, <1>5
-----------------------------------------------------------------------------
(* Positions and probing. *)

LEMMA PosIn ==
  ASSUME NEW r \in Refs, NEW k \in Nat
  PROVE  Pos(r, k) \in Positions
<1>1. Home[r] + k \in Nat
  BY OmsIndexAssumption, TableSize DEF Positions
<1>2. Pos(r, k) \in 0 .. IndexCapacity - 1
  BY <1>1, DivMod, TableSize DEF Pos
<1> QED BY <1>2 DEF Positions

\* A probe that goes all the way sees every entry.
LEMMA PosOnto ==
  ASSUME NEW r \in Refs, NEW p \in Positions
  PROVE  \E k \in Positions : Pos(r, k) = p
<1> DEFINE h == Home[r]
           N == IndexCapacity
<1>1. h \in 0 .. N - 1 /\ p \in 0 .. N - 1 /\ N \in Nat \ {0}
  BY OmsIndexAssumption, TableSize DEF Positions
<1>2. \A a \in 0 .. N - 1 : a % N = a /\ (a + N) % N = a
  <2> HIDE DEF h, N
  <2> TAKE a \in 0 .. N - 1
  <2>1. a % N = a /\ a \in Nat
    BY <1>1
  <2>2. (a + N) % N = a % N
    BY <1>1, <2>1, ModLap
  <2> QED BY <2>1, <2>2
<1> HIDE DEF h, N
<1>3. CASE h <= p
  <2>1. p - h \in 0 .. N - 1 /\ h + (p - h) = p
    BY <1>1, <1>3
  <2>2. (h + (p - h)) % N = p
    BY <1>1, <1>2, <2>1
  <2> QED BY <2>1, <2>2 DEF Pos, Positions, h, N
<1>4. CASE h > p
  <2>1. (p - h) + N \in 0 .. N - 1 /\ h + ((p - h) + N) = p + N
    BY <1>1, <1>4
  <2>2. (h + ((p - h) + N)) % N = p
    BY <1>1, <1>2, <2>1
  <2> QED BY <2>1, <2>2 DEF Pos, Positions, h, N
<1> QED BY <1>1, <1>3, <1>4

\* Entry p is within reach of r: no empty entry ends the run before it.
Reaches(ix, r, p) ==
  \E k \in Positions : Pos(r, k) = p /\ \A j \in 0 .. k - 1 : ix[Pos(r, j)] # Empty

LEMMA ProbeFinds ==
  ASSUME NEW ix, NEW os, NEW r \in Refs, NEW p \in Positions,
         Holds(ix, os, r, p), Reaches(ix, r, p),
         \A q \in Positions : Holds(ix, os, r, q) => q = p
  PROVE  index_probe_find(ix, os, r) = p
<1> DEFINE H == Hits(ix, os, r)
<1>1. H \in SUBSET Nat /\ H # {}
  <2>1. PICK k \in Positions : Pos(r, k) = p /\ \A j \in 0 .. k - 1 : ix[Pos(r, j)] # Empty
    BY DEF Reaches
  <2>2. k \in H
    BY <2>1 DEF Hits, RunContinues
  <2>3. H \in SUBSET Nat
    BY TableSize DEF Hits, Positions
  <2> QED BY <2>2, <2>3
<1>2. Min(H) \in H
  BY <1>1, MinLeast
<1>3. Min(H) \in Nat /\ Holds(ix, os, r, Pos(r, Min(H)))
  BY <1>1, <1>2 DEF Hits
<1>4. Pos(r, Min(H)) \in Positions
  BY <1>3, PosIn
<1>5. Pos(r, Min(H)) = p
  BY <1>3, <1>4
<1> QED BY <1>1, <1>5 DEF index_probe_find

LEMMA ProbeMisses ==
  ASSUME NEW ix, NEW os, NEW r \in Refs, \A q \in Positions : ~Holds(ix, os, r, q)
  PROVE  index_probe_find(ix, os, r) = IndexCapacity
<1>1. ASSUME NEW k \in Positions PROVE Pos(r, k) \in Positions
  BY PosIn, TableSize DEF Positions
<1>2. Hits(ix, os, r) = {}
  BY <1>1 DEF Hits
<1> QED BY <1>2 DEF index_probe_find
-----------------------------------------------------------------------------
(* What an exact table for the first n array slots is. *)

\* The first n slots hold references, each once.
Dense(os, n) ==
  /\ \A i \in 0 .. n - 1 : os[i].ref \in Refs
  /\ \A i, j \in 0 .. n - 1 : os[i].ref = os[j].ref => i = j

\* Entries point to one of the slots each, to no slot twice.
Entries(ix, n) ==
  /\ ix \in [Positions -> 0 .. n + 1]
  /\ \A p, q \in Positions : ix[p] = ix[q] /\ ix[p] >= Bias => p = q

\* Each slot has an entry within the reach of its reference.
Linked(ix, os, n) ==
  \A i \in 0 .. n - 1 : \E p \in Positions : ix[p] = i + Bias /\ Reaches(ix, os[i].ref, p)

Table(ix, os, n) == Dense(os, n) /\ Entries(ix, n) /\ Linked(ix, os, n)

Tombs(ix) == {p \in Positions : ix[p] = Tombstone}

LEMMA TableFinds ==
  ASSUME NEW ix, NEW os, NEW n \in Nat, Table(ix, os, n), NEW i \in 0 .. n - 1
  PROVE  /\ index_probe_find(ix, os, os[i].ref) \in Positions
         /\ ix[index_probe_find(ix, os, os[i].ref)] = i + Bias
         /\ Reaches(ix, os[i].ref, index_probe_find(ix, os, os[i].ref))
<1> DEFINE r == os[i].ref
<1>1. r \in Refs
  BY DEF Table, Dense
<1>2. PICK p \in Positions : ix[p] = i + Bias /\ Reaches(ix, r, p)
  BY DEF Table, Linked
<1>3. Holds(ix, os, r, p)
  BY <1>2 DEF Holds, Bias
<1>4. ASSUME NEW q \in Positions, Holds(ix, os, r, q) PROVE q = p
  <2>1. ix[q] \in 0 .. n + 1 /\ ix[q] >= 2 /\ os[ix[q] - 2].ref = r
    BY <1>4 DEF Table, Entries, Holds, Bias
  <2>2. ix[q] - 2 \in 0 .. n - 1
    BY <2>1
  <2>3. ix[q] - 2 = i
    BY <2>1, <2>2 DEF Table, Dense
  <2>4. ix[q] = ix[p]
    BY <1>2, <2>1, <2>3 DEF Bias
  <2> QED BY <1>2, <2>1, <2>4 DEF Table, Entries, Bias
<1> HIDE DEF r
<1>5. index_probe_find(ix, os, r) = p
  BY <1>1, <1>2, <1>3, <1>4, ProbeFinds
<1> QED BY <1>2, <1>5 DEF r

LEMMA TableMisses ==
  ASSUME NEW ix, NEW os, NEW n \in Nat, Table(ix, os, n), NEW r \in Refs,
         \A i \in 0 .. n - 1 : os[i].ref # r
  PROVE  index_probe_find(ix, os, r) = IndexCapacity
<1>1. ASSUME NEW q \in Positions, Holds(ix, os, r, q) PROVE FALSE
  <2>1. ix[q] \in 0 .. n + 1 /\ ix[q] >= 2 /\ os[ix[q] - 2].ref = r
    BY <1>1 DEF Table, Entries, Holds, Bias
  <2>2. ix[q] - 2 \in 0 .. n - 1
    BY <2>1
  <2> QED BY <2>1, <2>2
<1> QED BY <1>1, ProbeMisses
-----------------------------------------------------------------------------
(* Insertion. *)

\* Fewer slots than entries: one is not occupied.
LEMMA VacantSomewhere ==
  ASSUME NEW ix, NEW n \in Nat, n < IndexCapacity, Entries(ix, n)
  PROVE  \E p \in Positions : ix[p] \in {Empty, Tombstone}
<1> SUFFICES ASSUME \A p \in Positions : ix[p] \notin {Empty, Tombstone} PROVE FALSE
  OBVIOUS
<1> DEFINE f == [p \in Positions |-> ix[p] - 2]
           S == 0 .. n - 1
<1>1. f \in [Positions -> S]
  BY DEF Entries, Empty, Tombstone
<1>2. IsFiniteSet(Positions) /\ IsFiniteSet(S)
      /\ Cardinality(Positions) = IndexCapacity /\ Cardinality(S) = n
  <2>1. IsFiniteSet(Positions) /\ Cardinality(Positions) = IndexCapacity
    BY FS_Interval, TableSize DEF Positions
  <2>2. IsFiniteSet(S) /\ Cardinality(S) = n
    BY FS_Interval
  <2> QED BY <2>1, <2>2
<1> HIDE DEF S
<1>3. \E p, q \in Positions : p # q /\ f[p] = f[q]
  <2> HIDE DEF f
  <2> QED BY <1>1, <1>2, FS_PigeonHole
<1>4. PICK p \in Positions, q \in Positions : p # q /\ ix[p] - 2 = ix[q] - 2
  BY <1>3
<1>5. ix[p] \in Nat /\ ix[q] \in Nat /\ ix[p] >= 2
  BY DEF Entries, Empty, Tombstone
<1>6. ix[p] = ix[q]
  BY <1>4, <1>5
<1> QED BY <1>4, <1>5, <1>6 DEF Entries, Bias

\* Where a reference goes that has no entry yet.
LEMMA VacantFirst ==
  ASSUME NEW ix, NEW n \in Nat, n < IndexCapacity, Entries(ix, n), NEW r \in Refs
  PROVE  LET p == Pos(r, Min(Vacant(ix, r)))
         IN /\ Vacant(ix, r) # {}
            /\ p \in Positions
            /\ ix[p] \in {Empty, Tombstone}
            /\ Reaches(ix, r, p)
<1> DEFINE V == Vacant(ix, r)
           m == Min(V)
           p == Pos(r, m)
<1>1. V \in SUBSET Nat
  BY TableSize DEF Vacant, Positions
<1>2. V # {}
  <2>1. PICK q \in Positions : ix[q] \in {Empty, Tombstone}
    BY VacantSomewhere
  <2>2. PICK k \in Positions : Pos(r, k) = q
    BY PosOnto
  <2> QED BY <2>1, <2>2 DEF Vacant
<1>3. m \in V /\ \A k \in V : m <= k
  BY <1>1, <1>2, MinLeast
<1>4. m \in Positions /\ ix[Pos(r, m)] \in {Empty, Tombstone}
  BY <1>3 DEF Vacant
<1>5. ASSUME NEW j \in 0 .. m - 1 PROVE ix[Pos(r, j)] # Empty
  <2>1. j \in Positions /\ ~(m <= j)
    BY <1>4, TableSize DEF Positions
  <2>2. j \notin V
    BY <1>3, <2>1
  <2> QED BY <2>1, <2>2 DEF Vacant
<1>6. p \in Positions
  BY <1>1, <1>3, PosIn
<1>7. Reaches(ix, r, p)
  BY <1>4, <1>5 DEF Reaches
<1> QED BY <1>2, <1>4, <1>6, <1>7

\* A table in which only entries that are not empty change keeps every run.
LEMMA ReachKept ==
  ASSUME NEW ix, NEW iy, NEW r \in Refs, NEW p, Reaches(ix, r, p),
         \A q \in Positions : ix[q] # Empty => iy[q] # Empty
  PROVE  Reaches(iy, r, p)
<1>1. PICK k \in Positions : Pos(r, k) = p /\ \A j \in 0 .. k - 1 : ix[Pos(r, j)] # Empty
  BY DEF Reaches
<1>2. ASSUME NEW j \in 0 .. k - 1 PROVE iy[Pos(r, j)] # Empty
  <2>1. j \in Nat
    BY <1>1, TableSize DEF Positions
  <2>2. Pos(r, j) \in Positions
    BY <2>1, PosIn
  <2> QED BY <1>1, <2>2
<1> QED BY <1>1, <1>2 DEF Reaches

LEMMA TableInsert ==
  ASSUME NEW ix, NEW os, NEW n \in Nat, n < Capacity, Table(ix, os, n), Dense(os, n + 1)
  PROVE  /\ Table(index_insert(ix, os[n].ref, n), os, n + 1)
         /\ IsFiniteSet(Tombs(ix))
         /\ Cardinality(Tombs(index_insert(ix, os[n].ref, n)))
              = Cardinality(Tombs(ix)) - Reused(ix, os[n].ref)
         /\ Tombs(ix) = {} => Tombs(index_insert(ix, os[n].ref, n)) = {}
<1> DEFINE r == os[n].ref
           p == Pos(r, Min(Vacant(ix, r)))
           iy == index_insert(ix, r, n)
<1>1. n < IndexCapacity /\ Entries(ix, n) /\ r \in Refs
  BY TableSize DEF Table, Dense
<1>2. Vacant(ix, r) # {} /\ p \in Positions /\ ix[p] \in {Empty, Tombstone} /\ Reaches(ix, r, p)
  <2> HIDE DEF r
  <2> QED BY <1>1, VacantFirst
<1>3. iy = [ix EXCEPT ![p] = n + 2]
  BY <1>2 DEF index_insert, Bias
<1>4. ix \in [Positions -> 0 .. n + 1]
  BY <1>1 DEF Entries
<1> HIDE DEF p, iy, r
<1>5. iy \in [Positions -> 0 .. (n + 1) + 1] /\ iy[p] = n + 2
      /\ \A q \in Positions : q # p => iy[q] = ix[q]
  BY <1>2, <1>3, <1>4
<1>6. Entries(iy, n + 1)
  <2> SUFFICES ASSUME NEW a \in Positions, NEW b \in Positions, iy[a] = iy[b], iy[a] >= 2
               PROVE  a = b
    BY <1>5 DEF Entries, Bias
  <2>1. CASE a # p /\ b # p
    BY <1>1, <1>5, <2>1 DEF Entries, Bias
  <2>2. CASE a = p \/ b = p
    BY <1>4, <1>5, <2>2
  <2> QED BY <2>1, <2>2
<1>7. \A q \in Positions : ix[q] # Empty => iy[q] # Empty
  BY <1>5 DEF Empty
<1>8. Linked(iy, os, n + 1)
  <2> SUFFICES ASSUME NEW i \in 0 .. n
               PROVE  \E q \in Positions : iy[q] = i + 2 /\ Reaches(iy, os[i].ref, q)
    BY DEF Linked, Bias
  <2>1. CASE i = n
    <3>1. Reaches(iy, r, p)
      BY <1>1, <1>2, <1>7, ReachKept
    <3> QED BY <1>2, <1>5, <2>1, <3>1 DEF r
  <2>2. CASE i < n
    <3>1. i \in 0 .. n - 1
      BY <2>2
    <3>2. PICK q \in Positions : ix[q] = i + 2 /\ Reaches(ix, os[i].ref, q)
      BY <3>1 DEF Table, Linked, Bias
    <3>3. q # p
      BY <1>2, <3>1, <3>2 DEF Empty, Tombstone
    <3>4. os[i].ref \in Refs
      BY <3>1 DEF Table, Dense
    <3>5. Reaches(iy, os[i].ref, q)
      BY <1>7, <3>2, <3>4, ReachKept
    <3> QED BY <1>5, <3>2, <3>3, <3>5
  <2> QED BY <2>1, <2>2
<1>9. IsFiniteSet(Tombs(ix)) /\ Tombs(iy) = Tombs(ix) \ {p}
  <2>1. IsFiniteSet(Positions)
    BY FS_Interval, TableSize DEF Positions
  <2>2. Tombs(ix) \in SUBSET Positions
    BY DEF Tombs
  <2>3. IsFiniteSet(Tombs(ix))
    BY <2>1, <2>2, FS_Subset
  <2> QED BY <1>2, <1>5, <2>3 DEF Tombs, Tombstone
<1>10. Cardinality(Tombs(iy)) = Cardinality(Tombs(ix)) - Reused(ix, r)
  <2>1. Cardinality(Tombs(iy)) =
          IF p \in Tombs(ix) THEN Cardinality(Tombs(ix)) - 1 ELSE Cardinality(Tombs(ix))
    BY <1>9, FS_RemoveElement
  <2>2. Reused(ix, r) = IF p \in Tombs(ix) THEN 1 ELSE 0
    BY <1>2 DEF Reused, Tombs, p
  <2>3. Cardinality(Tombs(ix)) \in Nat
    BY <1>9, FS_CardinalityType
  <2> QED BY <2>1, <2>2, <2>3
<1>11. Table(iy, os, n + 1)
  BY <1>6, <1>8 DEF Table
<1> QED BY <1>9, <1>10, <1>11 DEF iy, r
-----------------------------------------------------------------------------
(* Removal: the entry becomes a tombstone, the last order moves into the gap. *)

Erased(ix, os, slot) == [ix EXCEPT ![index_probe_find(ix, os, os[slot].ref)] = Tombstone]
Moved(os, slot, last) == IF slot = last THEN os ELSE [os EXCEPT ![slot] = os[last]]
Swapped(ix, os, slot, last) ==
  IF slot = last THEN Erased(ix, os, slot)
  ELSE Repointed(Erased(ix, os, slot), Moved(os, slot, last), slot)

LEMMA DenseMoved ==
  ASSUME NEW os \in [Slots -> [ref : Refs \cup {NoRef}, order : Book!Order]], NEW n \in 1 .. Capacity,
         Dense(os, n), NEW slot \in 0 .. n - 1
  PROVE  /\ Dense(Moved(os, slot, n - 1), n - 1)
         /\ \A i \in 0 .. n - 2 : Moved(os, slot, n - 1)[i] = IF i = slot THEN os[n-1] ELSE os[i]
         /\ slot # n - 1 => Moved(os, slot, n - 1)[n-1] = os[n-1]
<1> DEFINE mv == Moved(os, slot, n - 1)
<1>1. \A i \in 0 .. n - 1 : i \in Slots
  BY TableSize DEF Slots
<1>2. \A i \in 0 .. n - 2 : mv[i] = IF i = slot THEN os[n-1] ELSE os[i]
  BY <1>1 DEF Moved
<1>3. slot # n - 1 => mv[n-1] = os[n-1]
  BY <1>1 DEF Moved
<1> HIDE DEF mv
<1>4. \A i \in 0 .. n - 2 : mv[i].ref \in Refs
  BY <1>2 DEF Dense
<1>5. ASSUME NEW i \in 0 .. n - 2, NEW j \in 0 .. n - 2, mv[i].ref = mv[j].ref PROVE i = j
  BY <1>2, <1>5 DEF Dense
<1>6. Dense(mv, n - 1)
  BY <1>4, <1>5 DEF Dense
<1> QED BY <1>2, <1>3, <1>6 DEF mv

LEMMA TableErase ==
  ASSUME NEW os \in [Slots -> [ref : Refs \cup {NoRef}, order : Book!Order]], NEW n \in 1 .. Capacity,
         NEW ix, Table(ix, os, n), NEW slot \in 0 .. n - 1
  PROVE  LET p == index_probe_find(ix, os, os[slot].ref)
             iy == Erased(ix, os, slot)
         IN /\ p \in Positions \ Tombs(ix)
            /\ iy \in [Positions -> 0 .. n + 1]
            /\ \A q \in Positions : iy[q] # slot + 2
            /\ \A q \in Positions : iy[q] >= 2 => iy[q] = ix[q]
            /\ \A q \in Positions : ix[q] # Empty => iy[q] # Empty
            /\ \A i \in 0 .. n - 1 : i # slot =>
                 \E q \in Positions : iy[q] = i + 2 /\ Reaches(iy, os[i].ref, q)
            /\ Tombs(iy) = Tombs(ix) \cup {p}
<1> DEFINE p == index_probe_find(ix, os, os[slot].ref)
           iy == Erased(ix, os, slot)
<1>1. p \in Positions /\ ix[p] = slot + 2
  BY TableFinds DEF Bias
<1>2. ix \in [Positions -> 0 .. n + 1]
      /\ \A q, s \in Positions : ix[q] = ix[s] /\ ix[q] >= 2 => q = s
  BY DEF Table, Entries, Bias
<1>3. iy = [ix EXCEPT ![p] = 1]
  BY DEF Erased, Tombstone
<1> HIDE DEF p, iy
<1>4. iy \in [Positions -> 0 .. n + 1] /\ iy[p] = 1 /\ \A q \in Positions : q # p => iy[q] = ix[q]
  BY <1>1, <1>2, <1>3
<1>5. \A q \in Positions : iy[q] # slot + 2
  BY <1>1, <1>2, <1>4
<1>6. \A q \in Positions : iy[q] >= 2 => iy[q] = ix[q]
  BY <1>4
<1>7. \A q \in Positions : ix[q] # Empty => iy[q] # Empty
  BY <1>4 DEF Empty
<1>8. ASSUME NEW i \in 0 .. n - 1, i # slot
      PROVE  \E q \in Positions : iy[q] = i + 2 /\ Reaches(iy, os[i].ref, q)
  <2>1. PICK q \in Positions : ix[q] = i + 2 /\ Reaches(ix, os[i].ref, q)
    BY DEF Table, Linked, Bias
  <2>2. q # p
    BY <1>1, <1>8, <2>1
  <2>3. os[i].ref \in Refs
    BY DEF Table, Dense
  <2>4. Reaches(iy, os[i].ref, q)
    BY <1>7, <2>1, <2>3, ReachKept
  <2> QED BY <1>4, <2>1, <2>2, <2>4
<1>9. p \in Positions \ Tombs(ix) /\ Tombs(iy) = Tombs(ix) \cup {p}
  BY <1>1, <1>4 DEF Tombs, Tombstone
<1> QED BY <1>4, <1>5, <1>6, <1>7, <1>8, <1>9 DEF p, iy

LEMMA TableSwap ==
  ASSUME NEW os \in [Slots -> [ref : Refs \cup {NoRef}, order : Book!Order]], NEW n \in 1 .. Capacity,
         NEW ix, Table(ix, os, n), NEW slot \in 0 .. n - 1
  PROVE  /\ Table(Swapped(ix, os, slot, n - 1), Moved(os, slot, n - 1), n - 1)
         /\ \E p \in Positions \ Tombs(ix) : Tombs(Swapped(ix, os, slot, n - 1)) = Tombs(ix) \cup {p}
<1> DEFINE er == Erased(ix, os, slot)
           mv == Moved(os, slot, n - 1)
           sw == Swapped(ix, os, slot, n - 1)
           last == n - 1
           r == os[last].ref
<1>1. PICK p \in Positions \ Tombs(ix) :
            /\ er \in [Positions -> 0 .. n + 1]
            /\ \A q \in Positions : er[q] # slot + 2
            /\ \A q \in Positions : er[q] >= 2 => er[q] = ix[q]
            /\ \A q \in Positions : ix[q] # Empty => er[q] # Empty
            /\ \A i \in 0 .. n - 1 : i # slot =>
                 \E q \in Positions : er[q] = i + 2 /\ Reaches(er, os[i].ref, q)
            /\ Tombs(er) = Tombs(ix) \cup {p}
  <2> DEFINE e == index_probe_find(ix, os, os[slot].ref)
  <2>1. e \in Positions \ Tombs(ix)
    BY TableErase
  <2>2. er \in [Positions -> 0 .. n + 1] /\ Tombs(er) = Tombs(ix) \cup {e}
    BY TableErase
  <2>3. /\ \A q \in Positions : er[q] # slot + 2
        /\ \A q \in Positions : er[q] >= 2 => er[q] = ix[q]
        /\ \A q \in Positions : ix[q] # Empty => er[q] # Empty
    BY TableErase
  <2>4. \A i \in 0 .. n - 1 : i # slot =>
          \E q \in Positions : er[q] = i + 2 /\ Reaches(er, os[i].ref, q)
    BY TableErase
  <2> HIDE DEF er, e
  <2> QED BY <2>1, <2>2, <2>3, <2>4
<1>2. \A q, s \in Positions : er[q] = er[s] /\ er[q] >= 2 => q = s
  <2>1. \A q, s \in Positions : ix[q] = ix[s] /\ ix[q] >= 2 => q = s
    BY DEF Table, Entries, Bias
  <2> HIDE DEF er
  <2> QED BY <1>1, <2>1
<1>3. /\ Dense(os, n) /\ Dense(mv, n - 1)
      /\ \A i \in 0 .. n - 2 : mv[i] = IF i = slot THEN os[last] ELSE os[i]
      /\ slot # last => mv[last] = os[last]
  BY DenseMoved DEF Table
<1> HIDE DEF er, mv
<1>4. CASE slot = last
  <2>1. sw = er
    BY <1>4 DEF Swapped, er
  <2>2. ASSUME NEW q \in Positions PROVE er[q] \in 0 .. n
    BY <1>1, <1>4
  <2>3. Entries(er, n - 1)
    <3>1. er \in [Positions -> 0 .. (n - 1) + 1]
      BY <1>1, <2>2
    <3> QED BY <1>2, <3>1 DEF Entries, Bias
  <2>4. ASSUME NEW i \in 0 .. n - 2
        PROVE  \E q \in Positions : er[q] = i + 2 /\ Reaches(er, mv[i].ref, q)
    <3>1. i \in 0 .. n - 1 /\ i # slot /\ mv[i] = os[i]
      BY <1>3, <1>4
    <3> QED BY <1>1, <3>1
  <2>5. Linked(er, mv, n - 1)
    BY <2>4 DEF Linked, Bias
  <2> QED BY <1>1, <1>3, <2>1, <2>3, <2>5 DEF Table, mv
<1>5. CASE slot # last
  <2>1. mv[slot] = os[last] /\ mv[last] = os[last] /\ r \in Refs
    <3>1. slot \in 0 .. n - 2 /\ last \in 0 .. n - 1
      BY <1>5
    <3> QED BY <1>3, <1>5, <3>1 DEF Dense
  <2>2. PICK m \in Positions : er[m] = last + 2 /\ Reaches(er, r, m)
    BY <1>1, <1>5
  <2>3. index_probe_find(er, mv, r) = m
    <3>1. Holds(er, mv, r, m)
      BY <2>1, <2>2 DEF Holds, Bias
    <3>2. ASSUME NEW q \in Positions, Holds(er, mv, r, q) PROVE q = m
      <4>1. er[q] >= 2 /\ er[q] \in 0 .. n + 1 /\ er[q] # slot + 2 /\ mv[er[q] - 2].ref = r
        BY <1>1, <3>2 DEF Holds, Bias
      <4>2. er[q] - 2 \in 0 .. n - 1 /\ er[q] - 2 # slot
        BY <4>1
      <4>3. er[q] - 2 = last
        <5>1. CASE er[q] - 2 \in 0 .. n - 2
          <6>1. os[er[q] - 2].ref = r
            BY <1>3, <4>1, <4>2, <5>1
          <6> QED BY <1>3, <4>2, <6>1 DEF Dense
        <5> QED BY <4>2, <5>1
      <4>4. er[q] = er[m]
        BY <2>2, <4>1, <4>3
      <4> QED BY <1>2, <4>1, <4>4
    <3> HIDE DEF r
    <3> QED BY <2>1, <2>2, <3>1, <3>2, ProbeFinds
  <2>4. sw = [er EXCEPT ![m] = slot + 2]
    <3>1. sw = Repointed(er, mv, slot)
      BY <1>5 DEF Swapped, er, mv
    <3> QED BY <2>1, <2>3, <3>1 DEF Repointed, Bias
  <2> HIDE DEF sw, r
  <2>5. /\ sw[m] = slot + 2
        /\ \A q \in Positions : q # m => sw[q] = er[q] /\ er[q] # last + 2
        /\ sw \in [Positions -> 0 .. (n - 1) + 1]
    <3>1. \A q \in Positions : q # m => er[q] # last + 2
      BY <1>2, <2>2
    <3>2. sw[m] = slot + 2 /\ DOMAIN sw = Positions /\ \A q \in Positions : q # m => sw[q] = er[q]
      BY <1>1, <2>2, <2>4
    <3>3. \A q \in Positions : sw[q] \in 0 .. (n - 1) + 1
      BY <1>1, <1>5, <3>1, <3>2
    <3>4. sw \in [Positions -> 0 .. (n - 1) + 1]
      BY <1>1, <2>4, <3>3
    <3> QED BY <3>1, <3>2, <3>4
  <2>6. Entries(sw, n - 1)
    <3>1. ASSUME NEW a \in Positions, NEW b \in Positions, sw[a] = sw[b], sw[a] >= 2 PROVE a = b
      BY <1>1, <1>2, <2>5, <3>1
    <3> QED BY <2>5, <3>1 DEF Entries, Bias
  <2>7. \A q \in Positions : er[q] # Empty => sw[q] # Empty
    BY <2>5 DEF Empty
  <2>8. ASSUME NEW i \in 0 .. n - 2
        PROVE  \E q \in Positions : sw[q] = i + 2 /\ Reaches(sw, mv[i].ref, q)
    <3>1. mv[i].ref \in Refs
      BY <1>3 DEF Dense
    <3>2. CASE i = slot
      <4>1. Reaches(sw, r, m)
        BY <2>1, <2>2, <2>7, ReachKept
      <4> QED BY <2>1, <2>2, <2>5, <3>2, <4>1 DEF r
    <3>3. CASE i # slot
      <4>1. i \in 0 .. n - 1 /\ mv[i] = os[i]
        BY <1>3, <3>3
      <4>2. PICK q \in Positions : er[q] = i + 2 /\ Reaches(er, mv[i].ref, q)
        BY <1>1, <3>3, <4>1
      <4>3. q # m
        BY <2>2, <4>2
      <4>4. Reaches(sw, mv[i].ref, q)
        BY <2>7, <3>1, <4>2, ReachKept
      <4> QED BY <2>5, <4>2, <4>3, <4>4
    <3> QED BY <3>2, <3>3
  <2>9. Linked(sw, mv, n - 1)
    BY <2>8 DEF Linked, Bias
  <2>10. Tombs(sw) = Tombs(er)
    BY <2>2, <2>5 DEF Tombs, Tombstone
  <2> QED BY <1>1, <1>3, <2>6, <2>9, <2>10 DEF Table, mv, sw
<1> QED BY <1>4, <1>5

-----------------------------------------------------------------------------
(* The rehash builds a table of its own by insertions. *)

LEMMA TableRehash ==
  ASSUME NEW os, NEW n \in 0 .. Capacity, Dense(os, n)
  PROVE  Table(rehash(os, n), os, n) /\ Tombs(rehash(os, n)) = {}
<1> DEFINE P(f) == f = [k \in 0 .. n |-> IF k = 0 THEN [p \in Positions |-> Empty]
                                         ELSE index_insert(f[k-1], os[k-1].ref, k - 1)]
           D == [Positions -> Nat]
           a == [p \in Positions |-> Empty]
           t == CHOOSE f : P(f)
<1>1. n \in Nat /\ n <= Capacity
  BY TableSize
<1>2. \E f : P(f)
  <2>1. a \in D
    BY DEF Empty
  <2>2. ASSUME NEW k \in 1 .. n, NEW ix \in D PROVE index_insert(ix, os[k-1].ref, k - 1) \in D
    <3>1. (k - 1) + 2 \in Nat
      BY <1>1
    <3>2. \A x, v : v \in Nat => [ix EXCEPT ![x] = v] \in D
      OBVIOUS
    <3>3. index_insert(ix, os[k-1].ref, k - 1) = ix
          \/ \E x : index_insert(ix, os[k-1].ref, k - 1) = [ix EXCEPT ![x] = (k - 1) + 2]
      BY DEF index_insert, Bias
    <3> QED BY <3>1, <3>2, <3>3
  <2> DEFINE H == [k \in Nat |-> [ix \in D |->
                     IF k \in 1 .. n THEN index_insert(ix, os[k-1].ref, k - 1) ELSE a]]
  <2>3. H \in [Nat -> [D -> D]]
    <3>1. ASSUME NEW k \in Nat PROVE H[k] \in [D -> D]
      <4> HIDE DEF D, a
      <4> QED BY <2>1, <2>2
    <3> QED BY <3>1
  <2>4. \A k \in 1 .. n : \A ix \in D : H[k][ix] = index_insert(ix, os[k-1].ref, k - 1)
    BY <1>1
  <2> HIDE DEF H, D, a
  <2>5. PICK f \in [0 .. n -> D] : Steps(f, n, a, H)
    BY <1>1, <2>1, <2>3, StepsExist
  <2>6. ASSUME NEW k \in 0 .. n, k # 0 PROVE H[k][f[k-1]] = index_insert(f[k-1], os[k-1].ref, k - 1)
    <3>1. k \in 1 .. n /\ k - 1 \in 0 .. n
      BY <1>1, <2>6
    <3> QED BY <2>4, <2>5, <3>1
  <2>7. P(f)
    BY <2>5, <2>6 DEF Steps, a
  <2> QED BY <2>7
<1>3. P(t)
  BY <1>2
<1>4. rehash(os, n) = t[n]
  BY DEF rehash
<1> HIDE DEF t
<1>5. t[0] = a /\ \A k \in 0 .. n : k # 0 => t[k] = index_insert(t[k-1], os[k-1].ref, k - 1)
  BY <1>1, <1>3
<1> DEFINE B == {k \in 0 .. n : Table(t[k], os, k) /\ Tombs(t[k]) = {}}
<1>6. 0 \in B
  <2>1. Dense(os, 0)
    BY DEF Dense
  <2>2. a \in [Positions -> 0 .. 0 + 1] /\ \A p \in Positions : a[p] = 0
    BY DEF Empty
  <2>3. Entries(a, 0)
    BY <2>2 DEF Entries, Bias
  <2>4. Linked(a, os, 0)
    BY DEF Linked
  <2>5. Tombs(a) = {}
    BY <2>2 DEF Tombs, Tombstone
  <2> QED BY <1>1, <1>5, <2>1, <2>3, <2>4, <2>5 DEF Table
<1>7. ASSUME NEW k \in 0 .. n, k < n /\ k \in B PROVE k + 1 \in B
  <2>1. k + 1 \in 0 .. n /\ k \in Nat /\ k < Capacity /\ (k + 1) - 1 = k
    BY <1>1, <1>7, TableSize
  <2>2. t[k + 1] = index_insert(t[k], os[k].ref, k)
    BY <1>5, <2>1
  <2>3. Dense(os, k + 1)
    BY <1>1, <2>1 DEF Dense
  <2>4. Table(t[k], os, k) /\ Tombs(t[k]) = {}
    BY <1>7
  <2>5. Table(index_insert(t[k], os[k].ref, k), os, k + 1)
        /\ Tombs(index_insert(t[k], os[k].ref, k)) = {}
    BY <2>1, <2>3, <2>4, TableInsert
  <2> QED BY <2>1, <2>2, <2>5
<1>8. n \in B
  <2> HIDE DEF B
  <2>1. 0 .. n \subseteq B
    BY <1>1, <1>6, <1>7, InductUpTo
  <2> QED BY <1>1, <2>1
<1> QED BY <1>4, <1>8
-----------------------------------------------------------------------------
(* The map the array stands for. *)

ArrayType == [Slots -> [ref : Refs \cup {NoRef}, order : Book!Order]]

LiveIn(os, n) == {os[i].ref : i \in 0 .. n - 1}
OrderIn(os, n, r) == os[CHOOSE i \in 0 .. n - 1 : os[i].ref = r].order
With(m, r, o) == [m EXCEPT ![r] = o]
MapIn(os, n) == [r \in Refs |-> IF r \in LiveIn(os, n) THEN OrderIn(os, n, r) ELSE Blank]

\* It has the order of each slot under its reference.
LEMMA MapAt ==
  ASSUME NEW os, NEW n \in Nat, Dense(os, n)
  PROVE  /\ LiveIn(os, n) \subseteq Refs
         /\ \A i \in 0 .. n - 1 : os[i].ref \in LiveIn(os, n) /\ MapIn(os, n)[os[i].ref] = os[i].order
         /\ \A r \in Refs \ LiveIn(os, n) : MapIn(os, n)[r] = Blank
<1>1. LiveIn(os, n) \subseteq Refs
  BY DEF LiveIn, Dense
<1>2. ASSUME NEW i \in 0 .. n - 1
      PROVE  os[i].ref \in LiveIn(os, n) /\ MapIn(os, n)[os[i].ref] = os[i].order
  <2> DEFINE c == CHOOSE j \in 0 .. n - 1 : os[j].ref = os[i].ref
  <2>1. os[i].ref \in LiveIn(os, n)
    BY DEF LiveIn
  <2>2. c \in 0 .. n - 1 /\ os[c].ref = os[i].ref
    OBVIOUS
  <2>3. c = i
    <3> HIDE DEF c
    <3> QED BY <2>2 DEF Dense
  <2>4. OrderIn(os, n, os[i].ref) = os[i].order
    BY <2>3 DEF OrderIn
  <2> QED BY <1>1, <2>1, <2>4 DEF MapIn
<1>3. \A r \in Refs \ LiveIn(os, n) : MapIn(os, n)[r] = Blank
  BY DEF MapIn
<1> QED BY <1>1, <1>2, <1>3

\* Two maps with the same values are the same.
LEMMA MapEqual ==
  ASSUME NEW os, NEW n, NEW m, m \in [Refs -> {m[r] : r \in Refs}],
         \A r \in Refs : MapIn(os, n)[r] = m[r]
  PROVE  MapIn(os, n) = m
<1>1. DOMAIN m = Refs /\ m = [r \in Refs |-> m[r]]
  OBVIOUS
<1>2. MapIn(os, n) = [r \in Refs |-> MapIn(os, n)[r]]
  BY DEF MapIn
<1> QED BY <1>1, <1>2

\* ot has one slot more.
Extended(ot, os, n, r, o) == ot[n].ref = r /\ ot[n].order = o /\ \A i \in 0 .. n - 1 : ot[i] = os[i]

LEMMA MapInsert ==
  ASSUME NEW os, NEW ot, NEW n \in Nat, Dense(os, n), Dense(ot, n + 1),
         NEW r, NEW o, Extended(ot, os, n, r, o)
  PROVE  /\ LiveIn(ot, n + 1) = LiveIn(os, n) \cup {r}
         /\ MapIn(ot, n + 1) = With(MapIn(os, n), r, o)
<1>1. ot[n].ref = r /\ ot[n].order = o /\ \A i \in 0 .. n - 1 : ot[i] = os[i]
  BY DEF Extended
<1>2. LiveIn(ot, n + 1) = LiveIn(os, n) \cup {r}
  <2>1. \A i \in 0 .. n : i = n \/ i \in 0 .. n - 1
    OBVIOUS
  <2>2. \A i \in 0 .. n - 1 : i \in 0 .. n
    OBVIOUS
  <2> QED BY <1>1, <2>1, <2>2 DEF LiveIn
<1> DEFINE m == [MapIn(os, n) EXCEPT ![r] = o]
<1>3. r \in Refs /\ n \in 0 .. (n + 1) - 1 /\ n + 1 \in Nat
  BY <1>1 DEF Dense
<1>4. ASSUME NEW x \in Refs PROVE MapIn(ot, n + 1)[x] = m[x]
  <2>1. m[x] = IF x = r THEN o ELSE MapIn(os, n)[x]
    BY DEF MapIn
  <2>2. CASE x = r
    <3>1. MapIn(ot, n + 1)[ot[n].ref] = ot[n].order
      BY <1>3, MapAt
    <3> QED BY <1>1, <2>1, <2>2, <3>1
  <2>3. CASE x # r /\ x \in LiveIn(os, n)
    <3>1. PICK i \in 0 .. n - 1 : os[i].ref = x
      BY <2>3 DEF LiveIn
    <3>2. i \in 0 .. (n + 1) - 1
      OBVIOUS
    <3>3. MapIn(ot, n + 1)[ot[i].ref] = ot[i].order
      BY <1>3, <3>2, MapAt
    <3>4. MapIn(os, n)[os[i].ref] = os[i].order
      BY MapAt
    <3> QED BY <1>1, <2>1, <2>3, <3>1, <3>3, <3>4
  <2>4. CASE x # r /\ x \notin LiveIn(os, n)
    <3>1. MapIn(ot, n + 1)[x] = Blank
      BY <1>2, <1>3, <2>4, MapAt
    <3>2. MapIn(os, n)[x] = Blank
      BY <2>4, MapAt
    <3> QED BY <2>1, <2>4, <3>1, <3>2
  <2> QED BY <2>2, <2>3, <2>4
<1>5. m \in [Refs -> {m[x] : x \in Refs}]
  BY DEF MapIn
<1> HIDE DEF m
<1>6. MapIn(ot, n + 1) = m
  BY <1>4, <1>5, MapEqual
<1> QED BY <1>2, <1>6 DEF m, With

\* ot has another order in slot k.
Altered(ot, os, n, k, o) ==
  /\ \A i \in 0 .. n - 1 : ot[i].ref = os[i].ref
  /\ \A i \in 0 .. n - 1 : ot[i].order = IF i = k THEN o ELSE os[i].order

LEMMA MapChange ==
  ASSUME NEW os, NEW ot, NEW n \in Nat, Dense(os, n), NEW k \in 0 .. n - 1, NEW o,
         Altered(ot, os, n, k, o)
  PROVE  /\ Dense(ot, n) /\ LiveIn(ot, n) = LiveIn(os, n)
         /\ MapIn(ot, n) = With(MapIn(os, n), os[k].ref, o)
<1>1. Dense(ot, n) /\ LiveIn(ot, n) = LiveIn(os, n)
  BY DEF Dense, LiveIn, Altered
<1> DEFINE m == [MapIn(os, n) EXCEPT ![os[k].ref] = o]
<1>2. ASSUME NEW x \in Refs PROVE MapIn(ot, n)[x] = m[x]
  <2>1. m[x] = IF x = os[k].ref THEN o ELSE MapIn(os, n)[x]
    BY DEF MapIn
  <2>2. CASE x \in LiveIn(os, n)
    <3>1. PICK i \in 0 .. n - 1 : os[i].ref = x
      BY <2>2 DEF LiveIn
    <3>2. MapIn(ot, n)[ot[i].ref] = ot[i].order
      BY <1>1, MapAt
    <3>3. MapIn(os, n)[os[i].ref] = os[i].order
      BY MapAt
    <3>4. i = k <=> x = os[k].ref
      BY <3>1 DEF Dense
    <3> QED BY <2>1, <3>1, <3>2, <3>3, <3>4 DEF Altered
  <2>3. CASE x \notin LiveIn(os, n)
    <3>1. MapIn(ot, n)[x] = Blank /\ MapIn(os, n)[x] = Blank
      BY <1>1, <2>3, MapAt
    <3>2. x # os[k].ref
      BY <2>3 DEF LiveIn
    <3> QED BY <2>1, <3>1, <3>2
  <2> QED BY <2>2, <2>3
<1>3. m \in [Refs -> {m[x] : x \in Refs}]
  BY DEF MapIn
<1> HIDE DEF m
<1>4. MapIn(ot, n) = m
  BY <1>2, <1>3, MapEqual
<1> QED BY <1>1, <1>4 DEF m, With

\* ot has the first n slots of os without slot k, into which the last one moved.
TakenOut(ot, os, n, k) == \A i \in 0 .. n - 2 : ot[i] = IF i = k THEN os[n-1] ELSE os[i]

LEMMA MapRemove ==
  ASSUME NEW os, NEW ot, NEW n \in Nat \ {0}, Dense(os, n), Dense(ot, n - 1), NEW k \in 0 .. n - 1,
         TakenOut(ot, os, n, k)
  PROVE  /\ LiveIn(ot, n - 1) = LiveIn(os, n) \ {os[k].ref}
         /\ MapIn(ot, n - 1) = With(MapIn(os, n), os[k].ref, Blank)
<1> DEFINE r == os[k].ref
<1>1. ASSUME NEW i \in 0 .. n - 1, i # k
      PROVE  \E j \in 0 .. n - 2 : ot[j] = os[i]
  <2>1. CASE i = n - 1
    <3>1. k \in 0 .. n - 2
      BY <1>1, <2>1
    <3> QED BY <2>1, <3>1 DEF TakenOut
  <2>2. CASE i # n - 1
    <3>1. i \in 0 .. n - 2
      BY <2>2
    <3> QED BY <1>1, <3>1 DEF TakenOut
  <2> QED BY <2>1, <2>2
<1>2. ASSUME NEW j \in 0 .. n - 2
      PROVE  \E i \in 0 .. n - 1 : i # k /\ ot[j] = os[i]
  <2>1. CASE j = k
    <3>1. n - 1 \in 0 .. n - 1 /\ n - 1 # k
      BY <2>1
    <3> QED BY <2>1, <3>1 DEF TakenOut
  <2>2. CASE j # k
    BY <2>2 DEF TakenOut
  <2> QED BY <2>1, <2>2
<1>3. LiveIn(ot, n - 1) = LiveIn(os, n) \ {r}
  <2>1. \A i \in 0 .. n - 1 : os[i].ref = r <=> i = k
    BY DEF Dense
  <2>2. (n - 1) - 1 = n - 2
    OBVIOUS
  <2> HIDE DEF r
  <2> QED BY <1>1, <1>2, <2>1, <2>2 DEF LiveIn
<1> DEFINE m == [MapIn(os, n) EXCEPT ![r] = Blank]
<1>4. ASSUME NEW x \in Refs PROVE MapIn(ot, n - 1)[x] = m[x]
  <2>1. m[x] = IF x = r THEN Blank ELSE MapIn(os, n)[x]
    BY DEF MapIn
  <2>2. n - 1 \in Nat /\ (n - 1) - 1 = n - 2 /\ n \in Nat
    OBVIOUS
  <2>3. CASE x \in LiveIn(ot, n - 1)
    <3>1. PICK j \in 0 .. n - 2 : ot[j].ref = x
      BY <2>2, <2>3 DEF LiveIn
    <3>2. PICK i \in 0 .. n - 1 : i # k /\ ot[j] = os[i]
      BY <1>2
    <3>3. MapIn(ot, n - 1)[ot[j].ref] = ot[j].order
      BY <2>2, MapAt
    <3>4. MapIn(os, n)[os[i].ref] = os[i].order
      BY <2>2, MapAt
    <3>5. x # r
      BY <1>3, <2>3
    <3> QED BY <2>1, <3>1, <3>2, <3>3, <3>4, <3>5
  <2>4. CASE x \notin LiveIn(ot, n - 1)
    <3>1. MapIn(ot, n - 1)[x] = Blank
      BY <2>2, <2>4, MapAt
    <3>2. x # r => MapIn(os, n)[x] = Blank
      BY <1>3, <2>2, <2>4, MapAt
    <3> QED BY <2>1, <3>1, <3>2
  <2> QED BY <2>3, <2>4
<1>5. m \in [Refs -> {m[x] : x \in Refs}]
  BY DEF MapIn
<1> HIDE DEF m
<1>6. MapIn(ot, n - 1) = m
  BY <1>4, <1>5, MapEqual
<1> QED BY <1>3, <1>6 DEF m, With
-----------------------------------------------------------------------------
(* The invariant, and what each way of changing the book does to it. *)

Exact == Table(index, orders, count) /\ Cardinality(Tombs(index)) = tombstones

IndexInv == TypeOK /\ Exact

LEMMA LiveCount ==
  ASSUME NEW os, NEW n \in Nat, Dense(os, n)
  PROVE  Cardinality(LiveIn(os, n)) = n
<1> DEFINE S == 0 .. n - 1
           f == [i \in S |-> os[i].ref]
<1>1. IsFiniteSet(S) /\ Cardinality(S) = n
  BY FS_Interval
<1>2. f \in Bijection(S, LiveIn(os, n))
  BY DEF Bijection, Injection, Surjection, LiveIn, Dense, IsInjective
<1> HIDE DEF S, f
<1>3. ExistsBijection(S, LiveIn(os, n))
  BY <1>2 DEF ExistsBijection
<1> QED BY <1>1, <1>3, FS_Bijection

\* A table with fewer tombstones than entries, and the counter that goes with it.
LEMMA TombsFinite ==
  ASSUME NEW ix PROVE IsFiniteSet(Tombs(ix)) /\ Cardinality(Tombs(ix)) \in Nat
<1>1. IsFiniteSet(Positions)
  BY FS_Interval, TableSize DEF Positions
<1>2. Tombs(ix) \in SUBSET Positions
  BY DEF Tombs
<1> QED BY <1>1, <1>2, FS_Subset, FS_CardinalityType

LEMMA TableIndexType ==
  ASSUME NEW ix, NEW os, NEW n \in 0 .. Capacity, Table(ix, os, n)
  PROVE  ix \in [Positions -> 0 .. (Capacity + Bias - 1)]
BY TableSize DEF Table, Entries, Bias

\* find() finds exactly the live orders, and finds each where it is.
LEMMA Lookup ==
  ASSUME IndexInv, NEW r \in Refs
  PROVE  /\ Found(r) <=> r \in LiveIn(orders, count)
         /\ Found(r) => /\ SlotOf(r) \in 0 .. count - 1 /\ orders[SlotOf(r)].ref = r
                        /\ OrderOf(r) = MapIn(orders, count)[r]
                        /\ OrderOf(r) \in Book!Order
<1>1. count \in Nat /\ count <= Capacity /\ Table(index, orders, count) /\ Dense(orders, count)
      /\ orders \in ArrayType
  BY TableSize DEF IndexInv, TypeOK, Exact, Table, ArrayType
<1>2. ASSUME NEW i \in 0 .. count - 1, orders[i].ref = r
      PROVE  /\ Found(r) /\ SlotOf(r) = i /\ OrderOf(r) = MapIn(orders, count)[r]
             /\ OrderOf(r) \in Book!Order
  <2>1. index_probe_find(index, orders, r) \in Positions
        /\ index[index_probe_find(index, orders, r)] = i + 2
    BY <1>1, <1>2, TableFinds DEF Bias
  <2>2. Found(r)
    BY <2>1, TableSize DEF Found, Positions
  <2>3. SlotOf(r) = i
    BY <1>1, <2>1 DEF SlotOf, Bias
  <2>4. MapIn(orders, count)[orders[i].ref] = orders[i].order
    BY <1>1, MapAt
  <2>5. i \in Slots
    BY <1>1, TableSize DEF Slots
  <2>6. orders[i].order \in Book!Order
    BY <1>1, <2>5 DEF ArrayType
  <2> QED BY <1>2, <2>2, <2>3, <2>4, <2>6 DEF OrderOf
<1>3. CASE r \in LiveIn(orders, count)
  <2>1. PICK i \in 0 .. count - 1 : orders[i].ref = r
    BY <1>3 DEF LiveIn
  <2> QED BY <1>2, <1>3, <2>1
<1>4. CASE r \notin LiveIn(orders, count)
  <2>1. \A i \in 0 .. count - 1 : orders[i].ref # r
    BY <1>4 DEF LiveIn
  <2>2. index_probe_find(index, orders, r) = IndexCapacity
    BY <1>1, <2>1, TableMisses
  <2> QED BY <1>4, <2>2 DEF Found
<1> QED BY <1>3, <1>4

LEMMA InsertEffect ==
  ASSUME IndexInv, NEW r \in Refs, NEW o \in Book!Order, Insert(r, o), reserved' \in Int
  PROVE  /\ IndexInv'
         /\ r \notin LiveIn(orders, count) /\ Cardinality(LiveIn(orders, count)) < Capacity
         /\ LiveIn(orders', count') = LiveIn(orders, count) \cup {r}
         /\ MapIn(orders', count') = With(MapIn(orders, count), r, o)
<1>1. /\ count \in Nat /\ count < Capacity /\ Table(index, orders, count) /\ Dense(orders, count)
      /\ orders \in ArrayType /\ Cardinality(Tombs(index)) = tombstones /\ tombstones \in 0 .. Capacity
  BY TableSize DEF IndexInv, TypeOK, Exact, Table, ArrayType, Insert, HasRoom
<1>2. r \notin LiveIn(orders, count)
  BY Lookup DEF Insert
<1> DEFINE ot == [orders EXCEPT ![count] = [ref |-> r, order |-> o]]
<1>3. count \in Slots
  BY <1>1, TableSize DEF Slots
<1>4. ot \in ArrayType /\ ot[count].ref = r /\ ot[count].order = o
      /\ \A i \in 0 .. count - 1 : ot[i] = orders[i]
  BY <1>1, <1>3 DEF ArrayType
<1>5. orders' = ot /\ index' = index_insert(index, ot[count].ref, count)
      /\ tombstones' = tombstones - Reused(index, ot[count].ref) /\ count' = count + 1
  BY <1>4 DEF Insert
<1> HIDE DEF ot
<1>6. Dense(ot, count) /\ Dense(ot, count + 1)
  <2>1. \A i \in 0 .. count - 1 : ot[i].ref # r
    BY <1>2, <1>4 DEF LiveIn
  <2>2. \A i \in 0 .. count : i = count \/ i \in 0 .. count - 1
    BY <1>1
  <2> QED BY <1>1, <1>4, <2>1, <2>2 DEF Dense
<1>7. Table(index, ot, count)
  <2>1. Linked(index, ot, count)
    BY <1>1, <1>4 DEF Table, Linked
  <2> QED BY <1>1, <1>6, <2>1 DEF Table
<1>8. /\ Table(index', orders', count')
      /\ Cardinality(Tombs(index')) = tombstones'
  BY <1>1, <1>5, <1>6, <1>7, TableInsert
<1>9. TypeOK'
  <2>1. count' \in 0 .. Capacity
    BY <1>1, <1>5, TableSize
  <2>2. tombstones' \in 0 .. Capacity
    <3>1. tombstones' \in Nat
      BY <1>8, TombsFinite
    <3>2. Reused(index, ot[count].ref) \in {0, 1}
      BY DEF Reused
    <3> QED BY <1>1, <1>5, <3>1, <3>2, TableSize
  <2>3. index' \in [Positions -> 0 .. (Capacity + Bias - 1)]
    BY <1>8, <2>1, TableIndexType
  <2> QED BY <1>4, <1>5, <2>1, <2>2, <2>3 DEF TypeOK, ArrayType
<1>10. Cardinality(LiveIn(orders, count)) < Capacity
  BY <1>1, LiveCount
<1>11. LiveIn(orders', count') = LiveIn(orders, count) \cup {r}
       /\ MapIn(orders', count') = With(MapIn(orders, count), r, o)
  <2>1. Extended(ot, orders, count, r, o)
    BY <1>4 DEF Extended
  <2>2. LiveIn(ot, count + 1) = LiveIn(orders, count) \cup {r}
        /\ MapIn(ot, count + 1) = With(MapIn(orders, count), r, o)
    BY <1>1, <1>6, <2>1, MapInsert
  <2> QED BY <1>5, <2>2
<1> QED BY <1>2, <1>8, <1>9, <1>10, <1>11 DEF IndexInv, Exact

\* An order changes in its slot: the table is as good as before.
Changed(os, k, o) == [os EXCEPT ![k].order = o]

LEMMA ChangeInPlace ==
  ASSUME NEW ix, NEW os \in ArrayType, NEW n \in 0 .. Capacity, Table(ix, os, n),
         NEW k \in 0 .. n - 1, NEW o \in Book!Order
  PROVE  /\ Changed(os, k, o) \in ArrayType
         /\ Changed(os, k, o)[k].ref = os[k].ref
         /\ Table(ix, Changed(os, k, o), n)
         /\ LiveIn(Changed(os, k, o), n) = LiveIn(os, n)
         /\ MapIn(Changed(os, k, o), n) = With(MapIn(os, n), os[k].ref, o)
<1> DEFINE ot == Changed(os, k, o)
<1>1. k \in Slots /\ (\A i \in 0 .. n - 1 : i \in Slots) /\ n \in Nat /\ Dense(os, n)
  BY TableSize DEF Slots, Table
<1>2. /\ ot \in ArrayType
      /\ \A i \in 0 .. n - 1 : ot[i].ref = os[i].ref
      /\ \A i \in 0 .. n - 1 : ot[i].order = IF i = k THEN o ELSE os[i].order
  BY <1>1 DEF ArrayType, Changed
<1> HIDE DEF ot
<1>3. /\ Dense(ot, n) /\ LiveIn(ot, n) = LiveIn(os, n)
      /\ MapIn(ot, n) = With(MapIn(os, n), os[k].ref, o)
  <2>1. Altered(ot, os, n, k, o)
    BY <1>2 DEF Altered
  <2> QED BY <1>1, <2>1, MapChange
<1>4. Linked(ix, ot, n)
  BY <1>2 DEF Table, Linked
<1> QED BY <1>2, <1>3, <1>4 DEF Table, ot

LEMMA ChangeEffect ==
  ASSUME IndexInv, NEW r \in Refs, Found(r), NEW o \in Book!Order,
         orders' = Changed(orders, SlotOf(r), o),
         UNCHANGED <<index, count, tombstones>>, reserved' \in Int
  PROVE  /\ IndexInv'
         /\ LiveIn(orders', count') = LiveIn(orders, count)
         /\ MapIn(orders', count') = With(MapIn(orders, count), r, o)
<1>1. /\ count \in 0 .. Capacity /\ Table(index, orders, count) /\ orders \in ArrayType
      /\ Cardinality(Tombs(index)) = tombstones
  BY DEF IndexInv, TypeOK, Exact, ArrayType
<1>2. SlotOf(r) \in 0 .. count - 1 /\ orders[SlotOf(r)].ref = r
  BY Lookup
<1>3. /\ orders' \in ArrayType /\ Table(index, orders', count)
      /\ LiveIn(orders', count) = LiveIn(orders, count)
      /\ MapIn(orders', count) = With(MapIn(orders, count), r, o)
  BY <1>1, <1>2, ChangeInPlace
<1>4. TypeOK'
  BY <1>3 DEF IndexInv, TypeOK, ArrayType
<1> QED BY <1>1, <1>3, <1>4 DEF IndexInv, Exact

LEMMA ReclaimEffect ==
  ASSUME IndexInv, NEW r \in Refs, Found(r), NEW o \in Book!Order,
         reclaim(SlotOf(r), Changed(orders, SlotOf(r), o)), reserved' \in Int
  PROVE  /\ IndexInv'
         /\ LiveIn(orders', count') = LiveIn(orders, count) \ {r}
         /\ MapIn(orders', count') = With(MapIn(orders, count), r, Blank)
<1> DEFINE k == SlotOf(r)
           os == Changed(orders, k, o)
<1>1. /\ count \in 0 .. Capacity /\ Table(index, orders, count) /\ orders \in ArrayType
      /\ Cardinality(Tombs(index)) = tombstones /\ tombstones \in 0 .. Capacity
  BY DEF IndexInv, TypeOK, Exact, ArrayType
<1>2. k \in 0 .. count - 1 /\ orders[k].ref = r
  BY Lookup
<1>3. reclaim(k, os)
  OBVIOUS
<1> HIDE DEF k
<1>4. k \in Slots /\ \A i \in 0 .. count - 1 : i \in Slots
  BY <1>1, <1>2, TableSize DEF Slots
<1>5. os \in ArrayType /\ os[k].ref = r /\ Table(index, os, count) /\ Dense(os, count)
  BY <1>1, <1>2, ChangeInPlace DEF Table
<1>6. /\ LiveIn(os, count) = LiveIn(orders, count)
      /\ MapIn(os, count) = With(MapIn(orders, count), r, o)
  BY <1>1, <1>2, ChangeInPlace
<1> HIDE DEF os
<1>7. count \in 1 .. Capacity /\ count \in Nat \ {0} /\ count - 1 \in 0 .. Capacity
  BY <1>1, <1>2, TableSize
<1> DEFINE last == count - 1
           mv == Moved(os, k, last)
           sw == Swapped(index, os, k, last)
           full == tombstones + 1 > Capacity
<1>8. /\ orders' = mv /\ count' = last
      /\ index' = IF full THEN rehash(mv, last) ELSE sw
      /\ tombstones' = IF full THEN 0 ELSE tombstones + 1
  BY <1>3 DEF reclaim, Moved, Swapped, Erased
<1>9. /\ Dense(mv, last)
       /\ \A i \in 0 .. count - 2 : mv[i] = IF i = k THEN os[count-1] ELSE os[i]
  BY <1>2, <1>5, <1>7, DenseMoved DEF ArrayType
<1>10. mv \in ArrayType
  <2>1. last \in Slots
    BY <1>4, <1>7
  <2> QED BY <1>4, <1>5, <2>1 DEF Moved, ArrayType
<1>11. /\ Table(sw, mv, last)
       /\ \E p \in Positions \ Tombs(index) : Tombs(sw) = Tombs(index) \cup {p}
  BY <1>2, <1>5, <1>7, TableSwap DEF ArrayType
<1>12. Table(rehash(mv, last), mv, last) /\ Tombs(rehash(mv, last)) = {}
  <2> HIDE DEF mv, last
  <2> QED BY <1>7, <1>9, TableRehash DEF last
<1> HIDE DEF mv, sw
<1>13. Table(index', orders', count')
  BY <1>8, <1>11, <1>12
<1>14. Cardinality(Tombs(index')) = tombstones'
  <2>1. CASE full
    BY <1>8, <1>12, <2>1, FS_EmptySet
  <2>2. CASE ~full
    <3>1. PICK p \in Positions \ Tombs(index) : Tombs(sw) = Tombs(index) \cup {p}
      BY <1>11
    <3>2. Cardinality(Tombs(index) \cup {p}) = Cardinality(Tombs(index)) + 1
      BY <3>1, TombsFinite, FS_AddElement
    <3> QED BY <1>1, <1>8, <2>2, <3>1, <3>2
  <2> QED BY <2>1, <2>2
<1>15. TypeOK'
  <2>1. count' \in 0 .. Capacity
    BY <1>7, <1>8
  <2>2. tombstones' \in 0 .. Capacity
    BY <1>1, <1>8, TableSize
  <2>3. index' \in [Positions -> 0 .. (Capacity + Bias - 1)]
    BY <1>13, <2>1, TableIndexType
  <2>4. orders' \in ArrayType
    BY <1>8, <1>10
  <2> QED BY <2>1, <2>2, <2>3, <2>4 DEF TypeOK, ArrayType
<1>16. /\ LiveIn(mv, count - 1) = LiveIn(os, count) \ {os[k].ref}
       /\ MapIn(mv, count - 1) = With(MapIn(os, count), os[k].ref, Blank)
  <2>1. TakenOut(mv, os, count, k)
    BY <1>9 DEF TakenOut
  <2> QED BY <1>2, <1>5, <1>7, <1>9, <2>1, MapRemove
<1>17. With(MapIn(os, count), r, Blank) = With(MapIn(orders, count), r, Blank)
  <2>1. \A m : [[m EXCEPT ![r] = o] EXCEPT ![r] = Blank] = [m EXCEPT ![r] = Blank]
    OBVIOUS
  <2> QED BY <1>2, <1>6, <2>1 DEF With
<1> QED BY <1>5, <1>6, <1>8, <1>13, <1>14, <1>15, <1>16, <1>17 DEF IndexInv, Exact
-----------------------------------------------------------------------------
(* Every action keeps the invariant and is an action of the map. *)

BookMap == [r \in Refs |-> IF r \in Live THEN LiveOrder(r) ELSE Blank]

LEMMA BookIsMap ==
  /\ Live = LiveIn(orders, count) /\ BookMap = MapIn(orders, count)
  /\ Live' = LiveIn(orders', count') /\ BookMap' = MapIn(orders', count')
BY DEF Live, LiveIn, BookMap, MapIn, LiveOrder, OrderIn

LEMMA SameCardinality == ASSUME NEW S PROVE Book!Cardinality(S) = Cardinality(S)
BY DEF Book!Cardinality, Cardinality

LEMMA SameLifeCycle ==
  /\ Book!OrderStates = OrderStates /\ Book!Terminal = Terminal
  /\ \A s : Book!is_terminal(s) = is_terminal(s) /\ Book!reserves_exposure(s) = reserves_exposure(s)
  /\ \A s, t : Book!legal(s, t) = legal(s, t)
BY DEF Book!OrderStates, OrderStates, Book!Terminal, Terminal, Book!is_terminal, is_terminal,
       Book!reserves_exposure, reserves_exposure, Book!legal, legal, Book!Successors, Successors

LEMMA OrderTypes ==
  ASSUME NEW o \in Book!Order, NEW v \in Volumes
  PROVE  /\ \A s \in OrderStates : [o EXCEPT !.state = s] \in Book!Order
         /\ Book!AfterFill(o, v) \in Book!Order
         /\ Book!Fillable(o, v) => Book!AddFill(o, v) \in Book!Order
<1>1. v \in Nat \ {0}
  BY OmsIndexAssumption
<1>2. \A s \in OrderStates : [o EXCEPT !.state = s] \in Book!Order
  BY SameLifeCycle DEF Book!Order
<1>3. o.filled_volume + v \in Nat
  BY <1>1 DEF Book!Order
<1>4. Book!AddFill(o, v) \in Book!Order
  BY <1>3 DEF Book!Order, Book!AddFill
<1>5. \A b \in Book!Order : \A s \in OrderStates : [b EXCEPT !.state = s] \in Book!Order
  BY SameLifeCycle DEF Book!Order
<1>6. \A b : Book!FillTarget(b) \in OrderStates
  BY DEF Book!FillTarget, OrderStates
<1>7. Book!AfterFill(o, v) \in Book!Order
  BY <1>4, <1>5, <1>6 DEF Book!AfterFill
<1> QED BY <1>2, <1>4, <1>7

LEMMA NewOrderTypes ==
  ASSUME NEW s \in OrderStates, NEW v \in Nat, NEW f \in Nat
  PROVE  Book!NewOrder(s, v, f) \in Book!Order
BY SameLifeCycle DEF Book!NewOrder, Book!Order

LEMMA BlankIsNoOrder == Blank = Book!NoOrder
BY DEF Blank, Book!NoOrder, Book!NewOrder

\* What an insertion is to the map.
LEMMA InsertRefines ==
  ASSUME IndexInv, NEW r \in Refs, NEW o \in Book!Order, Insert(r, o), reserved' \in Int
  PROVE  IndexInv' /\ Book!Insert(r, o)
<1>1. /\ IndexInv'
      /\ r \notin LiveIn(orders, count) /\ Cardinality(LiveIn(orders, count)) < Capacity
      /\ LiveIn(orders', count') = LiveIn(orders, count) \cup {r}
      /\ MapIn(orders', count') = With(MapIn(orders, count), r, o)
  BY InsertEffect
<1>2. /\ r \notin Live /\ Cardinality(Live) < Capacity /\ Live' = Live \cup {r}
      /\ BookMap' = [BookMap EXCEPT ![r] = o]
  BY <1>1, BookIsMap DEF With
<1>3. Book!Insert(r, o)
  BY <1>2, SameCardinality DEF Book!Insert, Book!HasRoom, BookMap
<1> QED BY <1>1, <1>3

\* What the tail of transition() is to the map.
LEMMA SettleRefines ==
  ASSUME IndexInv, NEW r \in Refs, Found(r), NEW o \in Book!Order, Settle(r, o)
  PROVE  IndexInv' /\ Book!Settle(r, o)
<1>1. reserved' = (IF reserves_exposure(OrderOf(r).state) /\ ~reserves_exposure(o.state)
                   THEN reserved - o.requested_volume ELSE reserved)
  BY DEF Settle
<1>2. reserved' \in Int
  BY <1>1 DEF IndexInv, TypeOK, Book!Order
<1>3. OrderOf(r) = BookMap[r]
  BY Lookup, BookIsMap
<1>4. /\ IndexInv'
      /\ Live' = IF is_terminal(o.state) THEN Live \ {r} ELSE Live
      /\ BookMap' = [BookMap EXCEPT ![r] = IF is_terminal(o.state) THEN Blank ELSE o]
  <2>1. CASE is_terminal(o.state)
    <3>1. reclaim(SlotOf(r), Changed(orders, SlotOf(r), o))
      BY <2>1 DEF Settle, Changed
    <3>2. /\ IndexInv'
          /\ LiveIn(orders', count') = LiveIn(orders, count) \ {r}
          /\ MapIn(orders', count') = With(MapIn(orders, count), r, Blank)
      BY <1>2, <3>1, ReclaimEffect
    <3> QED BY <2>1, <3>2, BookIsMap DEF With
  <2>2. CASE ~is_terminal(o.state)
    <3>1. orders' = Changed(orders, SlotOf(r), o) /\ UNCHANGED <<index, count, tombstones>>
      BY <2>2 DEF Settle, Changed
    <3>2. /\ IndexInv'
          /\ LiveIn(orders', count') = LiveIn(orders, count)
          /\ MapIn(orders', count') = With(MapIn(orders, count), r, o)
      BY <1>2, <3>1, ChangeEffect
    <3> QED BY <2>2, <3>2, BookIsMap DEF With
  <2> QED BY <2>1, <2>2
<1>5. reserved' = (IF Book!reserves_exposure(BookMap[r].state) /\ ~Book!reserves_exposure(o.state)
                   THEN reserved - Book!Released(o) ELSE reserved)
  BY <1>1, <1>3, SameLifeCycle DEF Book!Released
<1>6. /\ Live' = IF Book!Reclaims(o.state) THEN Live \ {r} ELSE Live
      /\ BookMap' = [BookMap EXCEPT ![r] = IF Book!Reclaims(o.state) THEN Book!NoOrder ELSE o]
  BY <1>4, BlankIsNoOrder, SameLifeCycle DEF Book!Reclaims
<1>7. Book!Settle(r, o)
  BY <1>5, <1>6 DEF Book!Settle, BookMap
<1> QED BY <1>4, <1>7
\* A change of an order in its slot that neither settles nor releases it.
LEMMA ChangeRefines ==
  ASSUME IndexInv, NEW r \in Refs, Found(r), NEW o \in Book!Order,
         orders' = Changed(orders, SlotOf(r), o), UNCHANGED <<index, count, tombstones, reserved>>
  PROVE  IndexInv' /\ Live' = Live /\ BookMap' = [BookMap EXCEPT ![r] = o]
<1>1. reserved' \in Int
  BY DEF IndexInv, TypeOK
<1>2. /\ IndexInv'
      /\ LiveIn(orders', count') = LiveIn(orders, count)
      /\ MapIn(orders', count') = With(MapIn(orders, count), r, o)
  BY <1>1, ChangeEffect
<1> QED BY <1>2, BookIsMap DEF With

LEMMA OnlyLive ==
  ASSUME IndexInv, NEW r \in Refs, Found(r)
  PROVE  /\ r \in Live /\ BookMap[r] = OrderOf(r) /\ OrderOf(r) \in Book!Order
         /\ SlotOf(r) \in Slots /\ orders[SlotOf(r)].order = OrderOf(r)
<1>1. SlotOf(r) \in 0 .. count - 1 /\ count <= Capacity /\ count \in Nat
  BY Lookup, TableSize DEF IndexInv, TypeOK
<1>2. SlotOf(r) \in Slots
  BY <1>1, TableSize DEF Slots
<1> QED BY <1>2, Lookup, BookIsMap DEF OrderOf

LEMMA CreateStep ==
  ASSUME IndexInv, NEW r \in Refs, NEW v \in Volumes, create(r, v)
  PROVE  IndexInv' /\ Book!create(r, v)
<1>1. v \in Nat /\ reserved' = reserved + v /\ reserved' \in Int
  BY OmsIndexAssumption DEF create, IndexInv, TypeOK
<1>2. Book!NewOrder("pending_send", v, 0) \in Book!Order
  BY <1>1, NewOrderTypes DEF OrderStates
<1>3. Insert(r, Book!NewOrder("pending_send", v, 0))
  BY DEF create
<1>4. IndexInv' /\ Book!Insert(r, Book!NewOrder("pending_send", v, 0))
  BY <1>1, <1>2, <1>3, InsertRefines
<1> QED BY <1>1, <1>4 DEF Book!create

LEMMA RestoreStep ==
  ASSUME IndexInv, NEW r \in Refs, NEW v \in Volumes, NEW s \in Book!RestoredStates,
         NEW f \in Volumes \cup {0}, restore(r, s, v, f)
  PROVE  IndexInv' /\ Book!restore(r, s, v, f)
<1>1. v \in Nat /\ f \in Nat /\ f <= v /\ s \in OrderStates
      /\ reserved' = (IF reserves_exposure(s) THEN reserved + v ELSE reserved)
  BY OmsIndexAssumption DEF restore, Book!RestoredStates, OrderStates
<1>2. reserved' \in Int
  BY <1>1 DEF IndexInv, TypeOK
<1>3. Book!NewOrder(s, v, f) \in Book!Order
  BY <1>1, NewOrderTypes
<1>4. Insert(r, Book!NewOrder(s, v, f))
  BY DEF restore
<1>5. IndexInv' /\ Book!Insert(r, Book!NewOrder(s, v, f))
  BY <1>2, <1>3, <1>4, InsertRefines
<1> QED BY <1>1, <1>5, SameLifeCycle DEF Book!restore

LEMMA TransitionStep ==
  ASSUME IndexInv, NEW r \in Refs, NEW s \in OrderStates, transition(r, s)
  PROVE  IndexInv' /\ Book!transition(r, s)
<1> DEFINE o == [OrderOf(r) EXCEPT !.state = s]
<1>1. Found(r) /\ legal(OrderOf(r).state, s) /\ Settle(r, o)
  BY DEF transition
<1>2. r \in Live /\ BookMap[r] = OrderOf(r) /\ OrderOf(r) \in Book!Order
  BY <1>1, OnlyLive
<1>3. o \in Book!Order
  BY <1>2, SameLifeCycle DEF Book!Order
<1>4. PICK c \in Book!Order : c = o
  BY <1>3
<1> HIDE DEF o
<1>5. Settle(r, c)
  BY <1>1, <1>4 DEF Settle
<1>6. IndexInv' /\ Book!Settle(r, c)
  BY <1>1, <1>5, SettleRefines
<1>7. Book!legal(BookMap[r].state, s)
  BY <1>1, <1>2, SameLifeCycle
<1>8. Book!Settle(r, [BookMap[r] EXCEPT !.state = s])
  <2>1. c = [BookMap[r] EXCEPT !.state = s]
    BY <1>2, <1>4 DEF o
  <2> QED BY <1>6, <2>1 DEF Book!Settle
<1>9. Book!transition(r, s)
  BY <1>2, <1>7, <1>8 DEF Book!transition, BookMap
<1> QED BY <1>6, <1>9

LEMMA FillStep ==
  ASSUME IndexInv, NEW r \in Refs, NEW v \in Volumes, fill(r, v)
  PROVE  IndexInv' /\ Book!fill(r, v)
<1> DEFINE o == Book!AfterFill(OrderOf(r), v)
<1>1. Found(r) /\ Settle(r, o)
  BY DEF fill
<1>2. r \in Live /\ BookMap[r] = OrderOf(r) /\ OrderOf(r) \in Book!Order
  BY <1>1, OnlyLive
<1>3. o \in Book!Order
  BY <1>2, OrderTypes
<1>4. PICK c \in Book!Order : c = o
  BY <1>3
<1> HIDE DEF o
<1>5. Settle(r, c)
  BY <1>1, <1>4 DEF Settle
<1>6. IndexInv' /\ Book!Settle(r, c)
  BY <1>1, <1>5, SettleRefines
<1>7. Book!Settle(r, Book!AfterFill(BookMap[r], v))
  <2>1. c = Book!AfterFill(BookMap[r], v)
    BY <1>2, <1>4 DEF o
  <2> QED BY <1>6, <2>1 DEF Book!Settle
<1>8. Book!fill(r, v)
  BY <1>2, <1>7 DEF Book!fill, BookMap
<1> QED BY <1>6, <1>8

LEMMA RecoverFillStep ==
  ASSUME IndexInv, NEW r \in Refs, NEW v \in Volumes, recover_fill(r, v)
  PROVE  IndexInv' /\ Book!recover_fill(r, v)
<1> DEFINE o == Book!AddFill(OrderOf(r), v)
<1>1. Found(r) /\ Book!Fillable(OrderOf(r), v) /\ UNCHANGED <<index, count, tombstones, reserved>>
  BY DEF recover_fill
<1>2. /\ r \in Live /\ BookMap[r] = OrderOf(r) /\ OrderOf(r) \in Book!Order
      /\ SlotOf(r) \in Slots /\ orders[SlotOf(r)].order = OrderOf(r)
  BY <1>1, OnlyLive
<1>3. o \in Book!Order
  BY <1>1, <1>2, OrderTypes
<1>4. orders' = Changed(orders, SlotOf(r), o)
  BY <1>2 DEF recover_fill, Changed, IndexInv, TypeOK
<1> HIDE DEF o
<1>5. IndexInv' /\ Live' = Live /\ BookMap' = [BookMap EXCEPT ![r] = o]
  BY <1>1, <1>3, <1>4, ChangeRefines
<1>6. BookMap' = [BookMap EXCEPT ![r] = Book!AddFill(@, v)]
  BY <1>2, <1>5 DEF o, BookMap
<1>7. Book!Fillable(BookMap[r], v)
  BY <1>1, <1>2
<1>8. Book!recover_fill(r, v)
  BY <1>1, <1>2, <1>5, <1>6, <1>7 DEF Book!recover_fill, BookMap
<1> QED BY <1>5, <1>8

LEMMA MarkUnknownStep ==
  ASSUME IndexInv, NEW r \in Refs, mark_unknown_on_restart(r)
  PROVE  IndexInv' /\ Book!mark_unknown_on_restart(r)
<1> DEFINE o == [OrderOf(r) EXCEPT !.state = "unknown"]
<1>1. Found(r) /\ ~is_terminal(OrderOf(r).state) /\ UNCHANGED <<index, count, tombstones, reserved>>
  BY DEF mark_unknown_on_restart
<1>2. /\ r \in Live /\ BookMap[r] = OrderOf(r) /\ OrderOf(r) \in Book!Order
      /\ SlotOf(r) \in Slots /\ orders[SlotOf(r)].order = OrderOf(r)
  BY <1>1, OnlyLive
<1>3. o \in Book!Order
  BY <1>2, SameLifeCycle DEF Book!Order, OrderStates
<1>4. orders' = Changed(orders, SlotOf(r), o)
  BY <1>2 DEF mark_unknown_on_restart, Changed, IndexInv, TypeOK
<1> HIDE DEF o
<1>5. IndexInv' /\ Live' = Live /\ BookMap' = [BookMap EXCEPT ![r] = o]
  BY <1>1, <1>3, <1>4, ChangeRefines
<1>6. BookMap' = [BookMap EXCEPT ![r].state = "unknown"]
  BY <1>2, <1>5 DEF o, BookMap
<1>7. ~Book!is_terminal(BookMap[r].state)
  BY <1>1, <1>2, SameLifeCycle
<1>8. Book!mark_unknown_on_restart(r)
  BY <1>1, <1>2, <1>5, <1>6, <1>7 DEF Book!mark_unknown_on_restart, BookMap
<1> QED BY <1>5, <1>8

LEMMA ResolveStep ==
  ASSUME IndexInv, NEW r \in Refs, NEW t \in Terminal, resolve_unknown(r, t)
  PROVE  IndexInv' /\ Book!resolve_unknown(r, t)
<1>1. Found(r) /\ OrderOf(r).state = "unknown" /\ is_terminal(t) /\ transition(r, t) /\ t \in OrderStates
  BY DEF resolve_unknown, Terminal, OrderStates
<1>2. r \in Live /\ BookMap[r] = OrderOf(r)
  BY <1>1, OnlyLive
<1>3. IndexInv' /\ Book!transition(r, t)
  BY <1>1, TransitionStep
<1>4. Book!resolve_unknown(r, t)
  BY <1>1, <1>2, <1>3, SameLifeCycle DEF Book!resolve_unknown, BookMap
<1> QED BY <1>3, <1>4

LEMMA StepRefines ==
  ASSUME IndexInv, [Next]_vars
  PROVE  IndexInv' /\ [Book!OmsNext]_(Book!omsVars)
<1>1. CASE UNCHANGED vars
  <2>1. IndexInv'
    BY <1>1 DEF IndexInv, TypeOK, Exact, vars
  <2>2. UNCHANGED <<Live, BookMap, reserved>>
    BY <1>1, BookIsMap DEF vars
  <2>3. UNCHANGED Book!omsVars
    BY <2>2 DEF Book!omsVars, BookMap
  <2> QED BY <2>1, <2>3
<1>2. CASE Next
  <2>1. PICK r \in Refs :
          \/ \E v \in Volumes : create(r, v)
          \/ \E v \in Volumes : fill(r, v)
          \/ \E v \in Volumes : recover_fill(r, v)
          \/ \E v \in Volumes, s \in Book!RestoredStates, f \in Volumes \cup {0} : restore(r, s, v, f)
          \/ \E s \in OrderStates : transition(r, s)
          \/ \E t \in Terminal : resolve_unknown(r, t)
          \/ mark_unknown_on_restart(r)
    BY <1>2 DEF Next
  <2>2. ASSUME NEW v \in Volumes, create(r, v) PROVE IndexInv' /\ Book!OmsNext
    BY <2>2, CreateStep DEF Book!OmsNext
  <2>3. ASSUME NEW v \in Volumes, fill(r, v) PROVE IndexInv' /\ Book!OmsNext
    BY <2>3, FillStep DEF Book!OmsNext
  <2>4. ASSUME NEW v \in Volumes, recover_fill(r, v) PROVE IndexInv' /\ Book!OmsNext
    BY <2>4, RecoverFillStep DEF Book!OmsNext
  <2>5. ASSUME NEW v \in Volumes, NEW s \in Book!RestoredStates, NEW f \in Volumes \cup {0},
               restore(r, s, v, f)
        PROVE  IndexInv' /\ Book!OmsNext
    BY <2>5, RestoreStep DEF Book!OmsNext
  <2>6. ASSUME NEW s \in OrderStates, transition(r, s) PROVE IndexInv' /\ Book!OmsNext
    BY <2>6, TransitionStep, SameLifeCycle DEF Book!OmsNext
  <2>7. ASSUME NEW t \in Terminal, resolve_unknown(r, t) PROVE IndexInv' /\ Book!OmsNext
    BY <2>7, ResolveStep, SameLifeCycle DEF Book!OmsNext
  <2>8. ASSUME mark_unknown_on_restart(r) PROVE IndexInv' /\ Book!OmsNext
    BY <2>8, MarkUnknownStep DEF Book!OmsNext
  <2> QED BY <2>1, <2>2, <2>3, <2>4, <2>5, <2>6, <2>7, <2>8
<1> QED BY <1>1, <1>2

LEMMA InitRefines ==
  ASSUME Init
  PROVE  IndexInv /\ Book!OmsInit
<1>1. count = 0 /\ count \in 0 .. Capacity /\ tombstones = 0 /\ tombstones \in 0 .. Capacity
      /\ reserved = 0
  BY TableSize DEF Init
<1>2. orders \in ArrayType
  <2>1. Blank \in Book!Order
    BY SameLifeCycle DEF Blank, Book!Order, OrderStates
  <2> QED BY <2>1 DEF Init, ArrayType, BlankSlot
<1>3. \A p \in Positions : index[p] = 0
  BY DEF Init, Empty
<1>4. index \in [Positions -> 0 .. (Capacity + Bias - 1)] /\ index \in [Positions -> 0 .. 0 + 1]
  BY <1>3, TableSize DEF Init, Bias, Empty
<1>5. Table(index, orders, 0)
  BY <1>3, <1>4 DEF Table, Dense, Entries, Linked, Bias
<1>6. Tombs(index) = {}
  BY <1>3 DEF Tombs, Tombstone
<1>7. IndexInv
  BY <1>1, <1>2, <1>4, <1>5, <1>6, FS_EmptySet DEF IndexInv, TypeOK, Exact, ArrayType
<1>8. LiveIn(orders, count) = {} /\ MapIn(orders, count) = [r \in Refs |-> Blank]
  BY <1>1 DEF LiveIn, MapIn
<1>9. Live = {} /\ BookMap = [r \in Refs |-> Book!NoOrder]
  BY <1>8, BookIsMap, BlankIsNoOrder
<1>10. Book!OmsInit
  BY <1>1, <1>9 DEF Book!OmsInit, BookMap
<1> QED BY <1>7, <1>10
-----------------------------------------------------------------------------
LEMMA AlwaysExact == Spec => []IndexInv
<1>1. Init => IndexInv
  BY InitRefines
<1>2. IndexInv /\ [Next]_vars => IndexInv'
  BY StepRefines
<1> QED BY <1>1, <1>2, PTL DEF Spec

\* Occupied entries and live orders are as many.
LEMMA OccupiedCount ==
  ASSUME NEW ix, NEW os, NEW n \in Nat, Table(ix, os, n)
  PROVE  Cardinality({p \in Positions : ix[p] >= Bias}) = n
<1> DEFINE Occ == {p \in Positions : ix[p] >= Bias}
           S == 0 .. n - 1
           f == [p \in Occ |-> ix[p] - 2]
<1>1. \A p \in Occ : ix[p] - 2 \in S /\ ix[p] \in Nat
  BY DEF Table, Entries, Bias
<1>2. \A p, q \in Occ : ix[p] - 2 = ix[q] - 2 => p = q
  <2> TAKE p, q \in Occ
  <2> HAVE ix[p] - 2 = ix[q] - 2
  <2>1. ix[p] = ix[q]
    BY <1>1
  <2> QED BY <2>1 DEF Table, Entries
<1>3. \A i \in S : \E p \in Occ : ix[p] - 2 = i
  BY DEF Table, Linked, Bias
<1>4. f \in Bijection(Occ, S)
  BY <1>1, <1>2, <1>3 DEF Bijection, Injection, Surjection, IsInjective
<1>5. IsFiniteSet(Positions)
  BY FS_Interval, TableSize DEF Positions
<1>6. IsFiniteSet(Occ)
  BY <1>5, FS_Subset, Occ \in SUBSET Positions
<1>7. Cardinality(S) = n
  BY FS_Interval
<1> HIDE DEF Occ, S, f
<1>8. Cardinality(S) = Cardinality(Occ)
  BY <1>4, <1>6, FS_Bijection DEF ExistsBijection
<1> QED BY <1>7, <1>8 DEF Occ

\* For every capacity, hash function and sequence of calls: each of the count_ orders has the
\* one entry find() reaches, no other entry is occupied, and tombstones_ counts the tombstones,
\* through the swap on reclaim, the reuse of tombstones and the rehash.
THEOREM IndexAlwaysExact == Spec => []IndexExact
<1>1. IndexInv => IndexExact
  <2> SUFFICES ASSUME IndexInv PROVE IndexExact
    OBVIOUS
  <2>1. count \in Nat /\ Table(index, orders, count) /\ Cardinality(Tombs(index)) = tombstones
    BY TableSize DEF IndexInv, TypeOK, Exact
  <2>2. ASSUME NEW i \in 0 .. count - 1 PROVE Found(orders[i].ref) /\ SlotOf(orders[i].ref) = i
    <3>1. orders[i].ref \in Refs /\ orders[i].ref \in LiveIn(orders, count)
      BY <2>1 DEF Table, Dense, LiveIn
    <3>2. Found(orders[i].ref) /\ SlotOf(orders[i].ref) \in 0 .. count - 1
          /\ orders[SlotOf(orders[i].ref)].ref = orders[i].ref
      BY <3>1, Lookup
    <3> QED BY <2>1, <3>2 DEF Table, Dense
  <2>3. Cardinality({p \in Positions : index[p] >= Bias}) = count
    BY <2>1, OccupiedCount
  <2> QED BY <2>1, <2>2, <2>3 DEF IndexExact, Tombs
<1> QED BY <1>1, AlwaysExact, PTL

\* find(), create(), transition() and the rest implement the map of module Oms: the array, the
\* tombstones, the swap and the rehash are invisible to every caller.
THEOREM BookImplemented == Spec => ImplementsOms
<1>1. Init => Book!OmsInit
  BY InitRefines
<1>2. IndexInv /\ [Next]_vars => [Book!OmsNext]_(Book!omsVars)
  BY StepRefines
<1> QED BY <1>1, <1>2, AlwaysExact, PTL DEF Spec, ImplementsOms, Book!OmsSpec
=============================================================================
