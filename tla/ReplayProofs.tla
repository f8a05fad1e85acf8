---------------------------- MODULE ReplayProofs ----------------------------
(***************************************************************************)
(* What is rebuilt from a stream or a log.                                 *)
(*                                                                         *)
(* The market book: the ladders hold exactly the best levels they have     *)
(* been told of, and a crossing never halts at once, for every depth,      *)
(* price range, tolerance and stream of deltas and quotes.                 *)
(*                                                                         *)
(* The capture: what was committed or flushed survives, the log has no     *)
(* holes, and compressed copies, the tailer and a replay give what was     *)
(* recorded, for any segment size, queue, buffer and number of events.     *)
(***************************************************************************)
EXTENDS OrderBook, Capture, SequenceTheorems, DataProofs

LevelT == [price : Prices, size : 0 .. MaxSize]
BookT == [levels : [Sides -> Seq(LevelT)], crossed_updates : 0 .. MaxUpdates + 1,
          crossed_age : 0 .. MaxDuration + 1, rebase_pending : BOOLEAN]

Levels(L) == {L[i] : i \in DOMAIN L}

\* Strictly sorted, the best price first, and no deeper than the window.
Ladder(s, L) ==
  /\ Len(L) <= MaxDepth
  /\ \A i, j \in DOMAIN L : i < j => Better(s, L[i].price, L[j].price)
-----------------------------------------------------------------------------
(* Ladders. *)

LEMMA MinOf ==
  ASSUME NEW I \in SUBSET Nat, I # {}
  PROVE  Min(I) \in I /\ \A y \in I : Min(I) <= y
<1>1. \E m \in I : \A y \in I : m <= y
  BY LeastNat
<1> QED BY <1>1 DEF Min

LEMMA RemoveAtProps ==
  ASSUME NEW S, NEW L \in Seq(S), NEW i \in 1 .. Len(L)
  PROVE  /\ RemoveAt(L, i) \in Seq(S)
         /\ Len(RemoveAt(L, i)) = Len(L) - 1
         /\ \A j \in 1 .. Len(L) - 1 : RemoveAt(L, i)[j] = IF j < i THEN L[j] ELSE L[j + 1]
<1> DEFINE a == SubSeq(L, 1, i - 1)
           b == SubSeq(L, i + 1, Len(L))
<1>1. Len(L) \in Nat /\ \A j \in 1 .. Len(L) : L[j] \in S
  OBVIOUS
<1>2. a \in Seq(S) /\ Len(a) = i - 1 /\ \A j \in 1 .. i - 1 : a[j] = L[j]
  <2>1. \A j \in 1 .. i - 1 : L[j] \in S
    BY <1>1
  <2>2. 1 \in Int /\ i - 1 \in Int /\ (1 <= i - 1 \/ i - 1 = 0)
    BY <1>1
  <2>3. /\ a \in Seq(S) /\ Len(a) = IF 1 <= i - 1 THEN i - 1 - 1 + 1 ELSE 0
        /\ \A j \in 1 .. i - 1 - 1 + 1 : a[j] = L[1 + j - 1]
    BY <2>1, <2>2, SubSeqProperties
  <2> QED BY <1>1, <2>2, <2>3
<1>3. b \in Seq(S) /\ Len(b) = Len(L) - i /\ \A j \in 1 .. Len(L) - i : b[j] = L[i + j]
  <2>1. \A j \in i + 1 .. Len(L) : L[j] \in S
    BY <1>1
  <2>2. i + 1 \in Int /\ Len(L) \in Int /\ i <= Len(L)
    BY <1>1
  <2>3. /\ b \in Seq(S) /\ Len(b) = IF i + 1 <= Len(L) THEN Len(L) - (i + 1) + 1 ELSE 0
        /\ \A j \in 1 .. Len(L) - (i + 1) + 1 : b[j] = L[i + 1 + j - 1]
    BY <2>1, <2>2, SubSeqProperties
  <2> QED BY <1>1, <2>2, <2>3
<1>4. RemoveAt(L, i) = a \o b
  BY DEF RemoveAt
<1> HIDE DEF a, b
<1>5. /\ a \o b \in Seq(S) /\ Len(a \o b) = Len(a) + Len(b)
      /\ \A j \in 1 .. Len(a) + Len(b) : (a \o b)[j] = IF j <= Len(a) THEN a[j] ELSE b[j - Len(a)]
  BY <1>2, <1>3, ConcatProperties
<1>6. Len(a) + Len(b) = Len(L) - 1
  BY <1>1, <1>2, <1>3
<1>7. ASSUME NEW j \in 1 .. Len(L) - 1
      PROVE  (a \o b)[j] = IF j < i THEN L[j] ELSE L[j + 1]
  <2>1. CASE j < i
    BY <1>1, <1>2, <1>5, <1>6, <2>1
  <2>2. CASE ~(j < i)
    <3>1. j - Len(a) \in 1 .. Len(L) - i /\ i + (j - Len(a)) = j + 1 /\ ~(j <= Len(a))
      BY <1>1, <1>2, <2>2
    <3> QED BY <1>3, <1>5, <1>6, <2>2, <3>1
  <2> QED BY <2>1, <2>2
<1> QED BY <1>4, <1>5, <1>6, <1>7

LEMMA InsertAtProps ==
  ASSUME NEW S, NEW L \in Seq(S), NEW i \in 1 .. Len(L) + 1, NEW e \in S
  PROVE  /\ InsertAt(L, i, e) \in Seq(S)
         /\ Len(InsertAt(L, i, e)) = Len(L) + 1
         /\ \A j \in 1 .. Len(L) + 1 :
              InsertAt(L, i, e)[j] = IF j < i THEN L[j] ELSE IF j = i THEN e ELSE L[j - 1]
<1> DEFINE a == SubSeq(L, 1, i - 1)
           b == SubSeq(L, i, Len(L))
           c == a \o <<e>>
<1>1. Len(L) \in Nat /\ \A j \in 1 .. Len(L) : L[j] \in S
  OBVIOUS
<1>2. a \in Seq(S) /\ Len(a) = i - 1 /\ \A j \in 1 .. i - 1 : a[j] = L[j]
  <2>1. \A j \in 1 .. i - 1 : L[j] \in S
    BY <1>1
  <2>2. 1 \in Int /\ i - 1 \in Int /\ (1 <= i - 1 \/ i - 1 = 0)
    BY <1>1
  <2>3. /\ a \in Seq(S) /\ Len(a) = IF 1 <= i - 1 THEN i - 1 - 1 + 1 ELSE 0
        /\ \A j \in 1 .. i - 1 - 1 + 1 : a[j] = L[1 + j - 1]
    BY <2>1, <2>2, SubSeqProperties
  <2> QED BY <1>1, <2>2, <2>3
<1>3. b \in Seq(S) /\ Len(b) = Len(L) - i + 1 /\ \A j \in 1 .. Len(L) - i + 1 : b[j] = L[i + j - 1]
  <2>1. \A j \in i .. Len(L) : L[j] \in S
    BY <1>1
  <2>2. i \in Int /\ Len(L) \in Int /\ (i <= Len(L) \/ i = Len(L) + 1)
    BY <1>1
  <2>3. /\ b \in Seq(S) /\ Len(b) = IF i <= Len(L) THEN Len(L) - i + 1 ELSE 0
        /\ \A j \in 1 .. Len(L) - i + 1 : b[j] = L[i + j - 1]
    BY <2>1, <2>2, SubSeqProperties
  <2> QED BY <1>1, <2>2, <2>3
<1>4. InsertAt(L, i, e) = c \o b
  BY DEF InsertAt
<1> HIDE DEF a, b
<1>5. c \in Seq(S) /\ Len(c) = i /\ c[i] = e /\ \A j \in 1 .. i - 1 : c[j] = L[j]
  <2>1. <<e>> \in Seq(S) /\ Len(<<e>>) = 1 /\ <<e>>[1] = e
    OBVIOUS
  <2>2. /\ c \in Seq(S) /\ Len(c) = Len(a) + 1
        /\ \A j \in 1 .. Len(a) + 1 : c[j] = IF j <= Len(a) THEN a[j] ELSE <<e>>[j - Len(a)]
    BY <1>2, <2>1, ConcatProperties
  <2> HIDE DEF c
  <2>3. i - 1 \in Nat /\ Len(a) = i - 1 /\ Len(c) = i /\ i \in 1 .. Len(a) + 1 /\ ~(i <= Len(a))
    BY <1>1, <1>2, <2>2
  <2>4. c[i] = e
    BY <2>1, <2>2, <2>3
  <2>5. \A j \in 1 .. i - 1 : c[j] = L[j]
    BY <1>2, <2>2, <2>3
  <2> QED BY <2>2, <2>3, <2>4, <2>5
<1> HIDE DEF c
<1>6. /\ c \o b \in Seq(S) /\ Len(c \o b) = Len(c) + Len(b)
      /\ \A j \in 1 .. Len(c) + Len(b) : (c \o b)[j] = IF j <= Len(c) THEN c[j] ELSE b[j - Len(c)]
  BY <1>3, <1>5, ConcatProperties
<1>7. Len(c) + Len(b) = Len(L) + 1
  BY <1>1, <1>3, <1>5
<1>8. ASSUME NEW j \in 1 .. Len(L) + 1
      PROVE  (c \o b)[j] = IF j < i THEN L[j] ELSE IF j = i THEN e ELSE L[j - 1]
  <2>1. CASE j <= i
    BY <1>1, <1>5, <1>6, <1>7, <2>1
  <2>2. CASE ~(j <= i)
    <3>1. j - Len(c) \in 1 .. Len(L) - i + 1 /\ i + (j - Len(c)) - 1 = j - 1 /\ ~(j <= Len(c))
      BY <1>1, <1>5, <2>2
    <3>2. (c \o b)[j] = b[j - Len(c)]
      BY <1>6, <1>7, <3>1
    <3>3. b[j - Len(c)] = L[j - 1]
      BY <1>3, <3>1
    <3>4. ~(j < i) /\ j # i
      BY <1>1, <2>2
    <3> QED BY <3>2, <3>3, <3>4
  <2> QED BY <2>1, <2>2
<1> QED BY <1>4, <1>6, <1>7, <1>8

LEMMA BetterOrder ==
  ASSUME NEW s, NEW p \in Int, NEW q \in Int
  PROVE  /\ ~(Better(s, p, q) /\ Better(s, q, p))
         /\ p # q => Better(s, p, q) \/ Better(s, q, p)
         /\ Better(s, p, q) => p # q
         /\ \A r \in Int : Better(s, p, q) /\ Better(s, q, r) => Better(s, p, r)
BY DEF Better

LEMMA PriceInt ==
  ASSUME NEW L \in Seq(LevelT), NEW i \in DOMAIN L
  PROVE  L[i] \in LevelT /\ L[i].price \in Prices /\ L[i].price \in Int
         /\ i \in 1 .. Len(L) /\ DOMAIN L = 1 .. Len(L)
<1>1. L[i] \in LevelT /\ i \in 1 .. Len(L) /\ DOMAIN L = 1 .. Len(L)
  OBVIOUS
<1>2. L[i].price \in Prices
  BY <1>1 DEF LevelT
<1> QED BY <1>1, <1>2, BookAssumption DEF Prices

\* A ladder never has a price twice.
LEMMA PriceOnce ==
  ASSUME NEW s, NEW L \in Seq(LevelT), Ladder(s, L), NEW i \in DOMAIN L, NEW j \in DOMAIN L,
         L[i].price = L[j].price
  PROVE  i = j
<1>1. L[i].price \in Int /\ i \in Int /\ j \in Int
  BY PriceInt
<1>2. ~(i < j) /\ ~(j < i)
  BY <1>1, BetterOrder DEF Ladder
<1> QED BY <1>1, <1>2

LEMMA FindProps ==
  ASSUME NEW L \in Seq(LevelT), NEW p
  PROVE  /\ find(L, p) = 0 => \A i \in DOMAIN L : L[i].price # p
         /\ find(L, p) # 0 => find(L, p) \in DOMAIN L /\ L[find(L, p)].price = p
<1> DEFINE I == {i \in DOMAIN L : L[i].price = p}
<1>1. I \in SUBSET Nat /\ 0 \notin I
  OBVIOUS
<1>2. I # {} => Min(I) \in I
  BY <1>1, MinOf
<1>3. find(L, p) = IF I = {} THEN 0 ELSE Min(I)
  BY DEF find
<1> QED BY <1>1, <1>2, <1>3

\* What a level that is taken out leaves.
LEMMA EraseLadder ==
  ASSUME NEW s, NEW L \in Seq(LevelT), Ladder(s, L), NEW i \in DOMAIN L
  PROVE  /\ erase_at(L, i) \in Seq(LevelT)
         /\ Ladder(s, erase_at(L, i))
         /\ Levels(erase_at(L, i)) = Levels(L) \ {L[i]}
<1> DEFINE M == erase_at(L, i)
           n == Len(L)
<1>1. n \in Nat /\ i \in 1 .. n /\ DOMAIN L = 1 .. n
  OBVIOUS
<1>2. M \in Seq(LevelT) /\ Len(M) = n - 1 /\ \A j \in 1 .. n - 1 : M[j] = IF j < i THEN L[j] ELSE L[j + 1]
  BY <1>1, RemoveAtProps DEF erase_at
<1>3. DOMAIN M = 1 .. n - 1
  BY <1>2
<1>4. n <= MaxDepth /\ MaxDepth \in Nat
  BY BookAssumption DEF Ladder
<1> HIDE DEF M
<1>5. ASSUME NEW j \in 1 .. n - 1, NEW k \in 1 .. n - 1, j < k PROVE Better(s, M[j].price, M[k].price)
  <2> DEFINE a == IF j < i THEN j ELSE j + 1
             b == IF k < i THEN k ELSE k + 1
  <2>1. a \in 1 .. n /\ b \in 1 .. n /\ a < b
    BY <1>1, <1>5
  <2>2. M[j] = L[a] /\ M[k] = L[b]
    BY <1>2
  <2> QED BY <1>1, <2>1, <2>2 DEF Ladder
<1>6. Ladder(s, M)
  BY <1>1, <1>2, <1>3, <1>4, <1>5 DEF Ladder
<1>7. ASSUME NEW x \in Levels(M) PROVE x \in Levels(L) \ {L[i]}
  <2>1. PICK j \in 1 .. n - 1 : x = M[j]
    BY <1>3 DEF Levels
  <2> DEFINE a == IF j < i THEN j ELSE j + 1
  <2>2. a \in DOMAIN L /\ a # i /\ x = L[a]
    BY <1>1, <1>2, <2>1
  <2>3. L[a] # L[i]
    BY <2>2, PriceOnce
  <2> QED BY <2>2, <2>3 DEF Levels
<1>8. ASSUME NEW x \in Levels(L) \ {L[i]} PROVE x \in Levels(M)
  <2>1. PICK j \in 1 .. n : x = L[j] /\ j # i
    BY <1>1 DEF Levels
  <2>2. CASE j < i
    <3>1. j \in 1 .. n - 1 /\ M[j] = L[j]
      BY <1>1, <1>2, <2>2
    <3> QED BY <1>3, <2>1, <3>1 DEF Levels
  <2>3. CASE ~(j < i)
    <3>1. j - 1 \in 1 .. n - 1 /\ ~(j - 1 < i) /\ (j - 1) + 1 = j
      BY <1>1, <2>1, <2>3
    <3>2. M[j - 1] = L[j]
      BY <1>2, <3>1
    <3> QED BY <1>3, <2>1, <3>1, <3>2 DEF Levels
  <2> QED BY <2>2, <2>3
<1>9. Levels(M) = Levels(L) \ {L[i]}
  BY <1>7, <1>8
<1> QED BY <1>2, <1>6, <1>9 DEF M

\* What a new level does to a ladder: it is not among the best and stays out, or it finds
\* room, or it evicts the worst level, which is worse than all that remain.
LEMMA InsertLadder ==
  ASSUME NEW s, NEW L \in Seq(LevelT), Ladder(s, L), NEW e \in LevelT,
         \A i \in DOMAIN L : L[i].price # e.price
  PROVE  LET M == insert_sorted(L, s, e)
         IN  /\ M \in Seq(LevelT)
             /\ Ladder(s, M)
             /\ \/ /\ M = L /\ Len(L) = MaxDepth
                   /\ \A x \in Levels(L) : Better(s, x.price, e.price)
                \/ /\ Len(L) < MaxDepth
                   /\ Levels(M) = Levels(L) \cup {e}
                \/ /\ Len(L) = MaxDepth /\ Len(M) = MaxDepth
                   /\ \E w \in Levels(L) : /\ Levels(M) = (Levels(L) \ {w}) \cup {e}
                                           /\ \A x \in Levels(M) : Better(s, x.price, w.price)
<1> DEFINE worse == {i \in DOMAIN L : Better(s, e.price, L[i].price)}
           n == Len(L)
           at == IF worse = {} THEN n + 1 ELSE Min(worse)
           K == IF n = MaxDepth THEN Front(L) ELSE L
           k == Len(K)
           M == insert_sorted(L, s, e)
<1>1. n \in Nat /\ DOMAIN L = 1 .. n /\ MaxDepth \in Nat \ {0} /\ n <= MaxDepth
  BY BookAssumption DEF Ladder
<1> HIDE DEF n
<1>2. e.price \in Int /\ \A i \in 1 .. n : L[i] \in LevelT /\ L[i].price \in Int
  <2>1. e.price \in Prices
    BY DEF LevelT
  <2> QED BY <1>1, <2>1, PriceInt, BookAssumption DEF Prices
<1>3. worse # {} => at \in worse /\ \A j \in worse : at <= j
  <2>1. worse \in SUBSET Nat
    BY <1>1
  <2> HIDE DEF worse
  <2> QED BY <2>1, MinOf
<1>4. M = IF at > MaxDepth THEN L ELSE InsertAt(K, at, e)
  BY DEF insert_sorted, n
<1>5. at \in 1 .. n + 1 /\ (worse = {} => at = n + 1)
  <2>1. worse \subseteq 1 .. n
    BY <1>1
  <2>2. CASE worse = {}
    BY <1>1, <2>2
  <2>3. CASE worse # {}
    <3> HIDE DEF worse, at
    <3>1. at \in 1 .. n
      BY <1>3, <2>1, <2>3
    <3> QED BY <1>1, <2>3, <3>1
  <2> QED BY <2>2, <2>3
<1> HIDE DEF at, M, K, k
<1>6. \A i \in 1 .. n : IF i < at THEN Better(s, L[i].price, e.price) ELSE Better(s, e.price, L[i].price)
  <2> SUFFICES ASSUME NEW i \in 1 .. n
               PROVE  IF i < at THEN Better(s, L[i].price, e.price) ELSE Better(s, e.price, L[i].price)
    OBVIOUS
  <2>1. CASE i < at
    <3>1. i \notin worse
      <4> HIDE DEF worse
      <4> QED BY <1>1, <1>3, <1>5, <2>1
    <3>2. ~Better(s, e.price, L[i].price) /\ L[i].price # e.price
      BY <1>1, <3>1
    <3> QED BY <1>2, <2>1, <3>2, BetterOrder
  <2>2. CASE ~(i < at)
    <3>1. at \in worse
      <4> HIDE DEF worse
      <4>1. worse # {}
        BY <1>1, <1>5, <2>2
      <4> QED BY <1>3, <4>1
    <3>2. at \in 1 .. n /\ Better(s, e.price, L[at].price)
      BY <1>1, <3>1
    <3>3. i = at \/ Better(s, L[at].price, L[i].price)
      BY <1>1, <2>2, <3>2 DEF Ladder
    <3> QED BY <1>2, <2>2, <3>2, <3>3, BetterOrder
  <2> QED BY <2>1, <2>2
<1> HIDE DEF worse
<1>7. CASE at > MaxDepth
  <2>1. M = L /\ n = MaxDepth /\ at = n + 1
    BY <1>1, <1>4, <1>5, <1>7
  <2>2. \A i \in DOMAIN L : Better(s, L[i].price, e.price)
    BY <1>1, <1>6, <2>1
  <2>3. \A x \in Levels(L) : Better(s, x.price, e.price)
    BY <2>2 DEF Levels
  <2> QED BY <2>1, <2>3 DEF M, n
<1>8. CASE ~(at > MaxDepth)
  <2>1. /\ K \in Seq(LevelT) /\ k = (IF n = MaxDepth THEN n - 1 ELSE n)
        /\ \A i \in 1 .. k : K[i] = L[i]
    <3>1. CASE n = MaxDepth
      <4>1. Front(L) = SubSeq(L, 1, n - 1) /\ K = Front(L)
        BY <3>1 DEF Front, K, n
      <4>2. \A i \in 1 .. n - 1 : L[i] \in LevelT
        BY <1>1, <1>2
      <4>3. 1 \in Int /\ n - 1 \in Int
        BY <1>1
      <4>4. /\ SubSeq(L, 1, n - 1) \in Seq(LevelT)
            /\ Len(SubSeq(L, 1, n - 1)) = IF 1 <= n - 1 THEN n - 1 - 1 + 1 ELSE 0
            /\ \A i \in 1 .. n - 1 - 1 + 1 : SubSeq(L, 1, n - 1)[i] = L[1 + i - 1]
        BY <4>2, <4>3, SubSeqProperties
      <4>5. k = n - 1
        BY <1>1, <3>1, <4>1, <4>4 DEF k
      <4>6. \A i \in 1 .. n - 1 : K[i] = L[i]
        BY <1>1, <3>1, <4>1, <4>4
      <4> QED BY <3>1, <4>1, <4>4, <4>5, <4>6
    <3>2. CASE n # MaxDepth
      BY <3>2 DEF K, k, n
    <3> QED BY <3>1, <3>2
  <2>2. k \in Nat /\ at \in 1 .. k + 1 /\ k <= n /\ k < MaxDepth
    BY <1>1, <1>5, <1>8, <2>1
  <2>3. M = InsertAt(K, at, e)
    BY <1>4, <1>8
  <2>4. /\ M \in Seq(LevelT) /\ Len(M) = k + 1
        /\ \A j \in 1 .. k + 1 : M[j] = IF j < at THEN K[j] ELSE IF j = at THEN e ELSE K[j - 1]
    <3>1. at \in 1 .. Len(K) + 1 /\ K \in Seq(LevelT)
      BY <2>1, <2>2 DEF k
    <3>2. /\ InsertAt(K, at, e) \in Seq(LevelT) /\ Len(InsertAt(K, at, e)) = Len(K) + 1
          /\ \A j \in 1 .. Len(K) + 1 :
               InsertAt(K, at, e)[j] = IF j < at THEN K[j] ELSE IF j = at THEN e ELSE K[j - 1]
      BY <3>1, InsertAtProps
    <3> QED BY <2>3, <3>2 DEF k
  <2>5. \A j \in 1 .. k + 1 : /\ j < at => M[j] = L[j] /\ j \in 1 .. k
                              /\ j = at => M[j] = e
                              /\ j > at => M[j] = L[j - 1] /\ j - 1 \in 1 .. k
    <3> SUFFICES ASSUME NEW j \in 1 .. k + 1
                 PROVE  /\ j < at => M[j] = L[j] /\ j \in 1 .. k
                        /\ j = at => M[j] = e
                        /\ j > at => M[j] = L[j - 1] /\ j - 1 \in 1 .. k
      OBVIOUS
    <3>1. ASSUME j < at PROVE M[j] = L[j] /\ j \in 1 .. k
      BY <2>1, <2>2, <2>4, <3>1
    <3>2. ASSUME j > at PROVE M[j] = L[j - 1] /\ j - 1 \in 1 .. k
      <4>1. j - 1 \in 1 .. k /\ ~(j < at) /\ j # at
        BY <2>2, <3>2
      <4> QED BY <2>1, <2>4, <4>1
    <3> QED BY <2>2, <2>4, <3>1, <3>2
  <2>6. DOMAIN M = 1 .. k + 1
    BY <2>2, <2>4
  <2>7. ASSUME NEW a \in 1 .. k + 1, NEW b \in 1 .. k + 1, a < b
        PROVE  Better(s, M[a].price, M[b].price)
    <3>1. CASE b < at
      <4>1. M[a] = L[a] /\ M[b] = L[b] /\ a \in 1 .. n /\ b \in 1 .. n
        BY <1>1, <2>2, <2>5, <2>7, <3>1
      <4> QED BY <1>1, <2>7, <4>1 DEF Ladder
    <3>2. CASE b = at
      <4>1. M[a] = L[a] /\ M[b] = e /\ a \in 1 .. n /\ a < at
        BY <1>1, <2>2, <2>5, <2>7, <3>2
      <4> QED BY <1>6, <4>1
    <3>3. CASE b > at /\ a < at
      <4>1. a < b - 1 /\ M[a] = L[a] /\ M[b] = L[b - 1] /\ a \in 1 .. n /\ b - 1 \in 1 .. n
        BY <1>1, <2>2, <2>5, <2>7, <3>3
      <4> QED BY <1>1, <4>1 DEF Ladder
    <3>4. CASE b > at /\ a = at
      <4>1. M[a] = e /\ M[b] = L[b - 1] /\ b - 1 \in 1 .. n /\ ~(b - 1 < at)
        BY <1>1, <2>2, <2>5, <2>7, <3>4
      <4> QED BY <1>6, <4>1
    <3>5. CASE b > at /\ a > at
      <4>1. M[a] = L[a - 1] /\ M[b] = L[b - 1] /\ a - 1 \in 1 .. n /\ b - 1 \in 1 .. n /\ a - 1 < b - 1
        BY <1>1, <2>2, <2>5, <2>7, <3>5
      <4> QED BY <1>1, <4>1 DEF Ladder
    <3> QED BY <2>2, <2>7, <3>1, <3>2, <3>3, <3>4, <3>5
  <2>8. Ladder(s, M)
    BY <1>1, <2>2, <2>4, <2>6, <2>7 DEF Ladder
  <2>9. Levels(M) = {L[i] : i \in 1 .. k} \cup {e}
    <3>1. ASSUME NEW j \in 1 .. k + 1 PROVE M[j] \in {L[i] : i \in 1 .. k} \cup {e}
      BY <2>2, <2>5
    <3>2. ASSUME NEW i \in 1 .. k PROVE \E j \in 1 .. k + 1 : M[j] = L[i]
      <4>1. CASE i < at
        BY <2>2, <2>5, <4>1
      <4>2. CASE ~(i < at)
        <5>1. i + 1 \in 1 .. k + 1 /\ i + 1 > at /\ (i + 1) - 1 = i
          BY <2>2, <4>2
        <5>2. M[i + 1] = L[i]
          BY <2>5, <5>1
        <5> QED BY <5>1, <5>2
      <4> QED BY <4>1, <4>2
    <3>3. M[at] = e /\ at \in 1 .. k + 1
      BY <2>2, <2>5
    <3> QED BY <2>6, <3>1, <3>2, <3>3 DEF Levels
  <2>10. CASE n < MaxDepth
    <3>1. k = n
      BY <1>1, <2>1, <2>10
    <3>2. Levels(M) = Levels(L) \cup {e}
      BY <1>1, <2>9, <3>1 DEF Levels
    <3> QED BY <2>4, <2>8, <2>10, <3>2 DEF M, n
  <2>11. CASE n = MaxDepth
    <3> DEFINE w == L[n]
    <3>1. n \in 1 .. n /\ k = n - 1 /\ Len(M) = MaxDepth
      BY <1>1, <2>1, <2>4, <2>11
    <3>2. w \in Levels(L)
      BY <1>1, <3>1 DEF Levels
    <3>3. \A i \in 1 .. k : Better(s, L[i].price, w.price) /\ L[i] # w
      <4> SUFFICES ASSUME NEW i \in 1 .. k PROVE Better(s, L[i].price, w.price) /\ L[i] # w
        OBVIOUS
      <4>1. i \in 1 .. n /\ i < n
        BY <1>1, <3>1
      <4>2. Better(s, L[i].price, w.price)
        BY <1>1, <3>1, <4>1 DEF Ladder
      <4> QED BY <1>2, <3>1, <4>1, <4>2, BetterOrder
    <3>4. Better(s, e.price, w.price)
      <4>1. ~(n < at)
        BY <1>1, <2>2, <3>1
      <4> QED BY <1>6, <3>1, <4>1
    <3>5. {L[i] : i \in 1 .. k} = Levels(L) \ {w}
      <4>1. \A i \in 1 .. n : i = n \/ i \in 1 .. k
        BY <1>1, <3>1
      <4>2. \A i \in 1 .. k : i \in 1 .. n
        BY <1>1, <3>1
      <4> QED BY <1>1, <3>3, <4>1, <4>2 DEF Levels
    <3>6. \A x \in Levels(M) : Better(s, x.price, w.price)
      BY <2>9, <3>3, <3>4
    <3>7. Levels(M) = (Levels(L) \ {w}) \cup {e}
      BY <2>9, <3>5
    <3> QED BY <2>4, <2>8, <2>11, <3>1, <3>2, <3>6, <3>7 DEF M, n
  <2> QED BY <1>1, <2>10, <2>11
<1> QED BY <1>7, <1>8
-----------------------------------------------------------------------------
(* One side against the venue's ladder v and the prices k that were told since the last rebase. *)

\* A level that was told and is not held is worse than a full window, unless the side was
\* thinned: taking out a level never brings back the ones it had evicted.
SideInv(s, L, v, k, isThinned) ==
  /\ Ladder(s, L)
  /\ \A x \in Levels(L) : x.size > 0 /\ (x.price \in k => x.size = v[x.price])
  /\ ~isThinned =>
       \A p \in k : v[p] > 0 /\ (\A x \in Levels(L) : x.price # p)
                      => Len(L) = MaxDepth /\ \A x \in Levels(L) : Better(s, x.price, p)

LEMMA LevelsTyped ==
  ASSUME NEW L \in Seq(LevelT), NEW x \in Levels(L)
  PROVE  x \in LevelT /\ x.price \in Prices /\ x.price \in Int /\ x.size \in 0 .. MaxSize
<1>1. PICK i \in DOMAIN L : x = L[i]
  BY DEF Levels
<1>2. L[i] \in LevelT /\ L[i].price \in Int
  BY PriceInt
<1> QED BY <1>1, <1>2 DEF LevelT

\* Two levels of a ladder with the same price are the same.
LEMMA LevelOnce ==
  ASSUME NEW s, NEW L \in Seq(LevelT), Ladder(s, L), NEW x \in Levels(L), NEW y \in Levels(L),
         x.price = y.price
  PROVE  x = y
BY PriceOnce DEF Levels

\* A function that differs from another at one place.
Becomes(f, g, x, z) == g = [f EXCEPT ![x] = z]

\* Of the prices k, one with a size that the ladder does not hold.
Beyond(L, v, k) == \E p \in k : v[p] > 0 /\ \A x \in Levels(L) : x.price # p

LEMMA SideErase ==
  ASSUME NEW s, NEW L \in Seq(LevelT), NEW v \in [Prices -> 0 .. MaxSize], NEW k \in SUBSET Prices,
         NEW t \in BOOLEAN, NEW u \in BOOLEAN, SideInv(s, L, v, k, t), NEW i \in DOMAIN L,
         NEW q \in Prices, q = L[i].price, NEW w, Becomes(v, w, q, 0),
         t => u, Beyond(L, v, k) => u
  PROVE  SideInv(s, erase_at(L, i), w, k \cup {q}, u)
<1> DEFINE M == erase_at(L, i)
<1>1. L[i] \in Levels(L) /\ Ladder(s, L)
  BY DEF Levels, SideInv
<1>2. Ladder(s, M) /\ Levels(M) = Levels(L) \ {L[i]}
  BY <1>1, EraseLadder
<1>3. \A x \in Levels(M) : x \in Levels(L) /\ x.price # q
  BY <1>1, <1>2, LevelOnce
<1>4. w[q] = 0 /\ \A p \in Prices : p # q => w[p] = v[p]
  BY <1>1, LevelsTyped DEF Becomes
<1> HIDE DEF M
<1>5. \A x \in Levels(M) : x.size > 0 /\ (x.price \in k \cup {q} => x.size = w[x.price])
  BY <1>3, <1>4, LevelsTyped DEF SideInv
<1>6. ASSUME ~u, NEW p \in k \cup {q}, w[p] > 0, \A x \in Levels(M) : x.price # p PROVE FALSE
  <2>1. p # q /\ p \in k
    BY <1>4, <1>6
  <2>2. v[p] > 0
    BY <1>4, <1>6, <2>1
  <2>3. \A x \in Levels(L) : x.price # p
    BY <1>2, <1>6, <2>1
  <2> QED BY <1>6, <2>1, <2>2, <2>3 DEF Beyond
<1>7. SideInv(s, M, w, k \cup {q}, u)
  BY <1>2, <1>5, <1>6 DEF SideInv
<1> QED BY <1>7 DEF M

\* A level that is found changes its size.
LEMMA SideResize ==
  ASSUME NEW s, NEW L \in Seq(LevelT), NEW v \in [Prices -> 0 .. MaxSize], NEW k \in SUBSET Prices,
         NEW t \in BOOLEAN, SideInv(s, L, v, k, t), NEW i \in DOMAIN L, NEW z \in 0 .. MaxSize, z > 0,
         NEW q \in Prices, q = L[i].price, NEW w, Becomes(v, w, q, z),
         NEW M, Becomes(L, M, i, Level(q, z))
  PROVE  SideInv(s, M, w, k \cup {q}, t)
<1> DEFINE e == Level(q, z)
<1>1. L[i] \in Levels(L) /\ Ladder(s, L)
  BY DEF Levels, SideInv
<1>2. e \in LevelT /\ e.price = q /\ e.size = z
  BY <1>1, LevelsTyped DEF Level, LevelT
<1> HIDE DEF e
<1>3. M \in Seq(LevelT) /\ Len(M) = Len(L) /\ \A j \in 1 .. Len(L) : M[j] = IF j = i THEN e ELSE L[j]
  BY <1>2, ExceptSeq DEF e, Becomes
<1>4. Ladder(s, M) /\ Levels(M) = (Levels(L) \ {L[i]}) \cup {e}
  <2>1. i \in 1 .. Len(L) /\ DOMAIN M = 1 .. Len(L) /\ DOMAIN L = 1 .. Len(L)
    BY <1>3
  <2>2. \A j \in 1 .. Len(L) : M[j].price = L[j].price
    BY <1>2, <1>3
  <2>3. \A j \in DOMAIN L : j # i => L[j] # L[i]
    BY <1>1, PriceOnce
  <2>4. Ladder(s, M)
    BY <1>1, <1>3, <2>1, <2>2 DEF Ladder
  <2>5. Levels(M) = (Levels(L) \ {L[i]}) \cup {e}
    BY <1>3, <2>1, <2>3 DEF Levels
  <2> QED BY <2>4, <2>5
<1>5. \A x \in Levels(M) : x = e \/ (x \in Levels(L) /\ x.price # q)
  BY <1>1, <1>4, LevelOnce
<1>6. w[q] = z /\ \A p \in Prices : p # q => w[p] = v[p]
  BY <1>1, LevelsTyped DEF Becomes
<1>7. \A x \in Levels(M) : x.size > 0 /\ (x.price \in k \cup {q} => x.size = w[x.price])
  BY <1>5, <1>6, <1>2, LevelsTyped DEF SideInv
<1>8. ASSUME ~t, NEW p \in k \cup {q}, w[p] > 0, \A x \in Levels(M) : x.price # p
      PROVE  Len(M) = MaxDepth /\ \A x \in Levels(M) : Better(s, x.price, p)
  <2>1. p # q /\ p \in k /\ p \in Prices
    BY <1>4, <1>2, <1>8
  <2>2. v[p] > 0
    BY <1>6, <1>8, <2>1
  <2>3. \A x \in Levels(L) : x.price # p
    BY <1>4, <1>8, <2>1
  <2>4. Len(L) = MaxDepth /\ \A x \in Levels(L) : Better(s, x.price, p)
    BY <1>8, <2>1, <2>2, <2>3 DEF SideInv
  <2>5. Better(s, e.price, p)
    BY <1>1, <1>2, <2>4
  <2> QED BY <1>3, <1>5, <2>4, <2>5
<1>9. SideInv(s, M, w, k \cup {q}, t)
  BY <1>4, <1>7, <1>8 DEF SideInv
<1> QED BY <1>9

LEMMA SideInsert ==
  ASSUME NEW s, NEW L \in Seq(LevelT), NEW v \in [Prices -> 0 .. MaxSize], NEW k \in SUBSET Prices,
         NEW t \in BOOLEAN, SideInv(s, L, v, k, t), NEW q \in Prices, NEW z \in 0 .. MaxSize, z > 0,
         \A i \in DOMAIN L : L[i].price # q
  PROVE  SideInv(s, insert_sorted(L, s, Level(q, z)), [v EXCEPT ![q] = z], k \cup {q}, t)
<1> DEFINE e == Level(q, z)
           M == insert_sorted(L, s, e)
           w == [v EXCEPT ![q] = z]
<1>1. e \in LevelT /\ e.price = q /\ e.size = z
  BY DEF Level, LevelT
<1>2. Ladder(s, L) /\ q \in Int /\ \A x \in Levels(L) : x.price # q
  BY BookAssumption DEF SideInv, Levels, Prices
<1>3. \A i \in DOMAIN L : L[i].price # e.price
  BY <1>1
<1>4. w[q] = z /\ \A p \in Prices : p # q => w[p] = v[p]
  OBVIOUS
<1> HIDE DEF e, w
<1>5. /\ M \in Seq(LevelT)
      /\ Ladder(s, M)
      /\ \/ /\ M = L /\ Len(L) = MaxDepth
            /\ \A x \in Levels(L) : Better(s, x.price, e.price)
         \/ /\ Len(L) < MaxDepth
            /\ Levels(M) = Levels(L) \cup {e}
         \/ /\ Len(L) = MaxDepth /\ Len(M) = MaxDepth
            /\ \E x \in Levels(L) : /\ Levels(M) = (Levels(L) \ {x}) \cup {e}
                                    /\ \A y \in Levels(M) : Better(s, y.price, x.price)
  BY <1>1, <1>2, <1>3, InsertLadder
<1> HIDE DEF M
<1>6. \A x \in Levels(M) : x = e \/ (x \in Levels(L) /\ x.price # q)
  BY <1>2, <1>5
<1>7. \A x \in Levels(M) : x.size > 0 /\ (x.price \in k \cup {q} => x.size = w[x.price])
  BY <1>1, <1>4, <1>6, LevelsTyped DEF SideInv
<1>8. ASSUME ~t, NEW p \in k \cup {q}, w[p] > 0, \A x \in Levels(M) : x.price # p
      PROVE  Len(M) = MaxDepth /\ \A x \in Levels(M) : Better(s, x.price, p)
  <2>1. p \in Prices /\ p \in Int
    <3>1. p \in Prices
      OBVIOUS
    <3> QED BY <3>1, BookAssumption DEF Prices
  <2>2. ASSUME p # q, \A x \in Levels(L) : x.price # p
        PROVE  Len(L) = MaxDepth /\ \A x \in Levels(L) : Better(s, x.price, p)
    <3>1. p \in k /\ v[p] > 0
      BY <1>4, <1>8, <2>1, <2>2
    <3> QED BY <1>8, <2>2, <3>1 DEF SideInv
  <2>3. CASE M = L /\ Len(L) = MaxDepth /\ \A x \in Levels(L) : Better(s, x.price, e.price)
    BY <1>1, <1>8, <2>2, <2>3
  <2>4. CASE Len(L) < MaxDepth /\ Levels(M) = Levels(L) \cup {e}
    <3>1. p # q /\ \A x \in Levels(L) : x.price # p
      BY <1>1, <1>8, <2>4
    <3>2. Len(L) \in Nat /\ MaxDepth \in Nat
      BY BookAssumption
    <3> QED BY <2>2, <2>4, <3>1, <3>2
  <2>5. ASSUME Len(L) = MaxDepth, Len(M) = MaxDepth,
               NEW y \in Levels(L), Levels(M) = (Levels(L) \ {y}) \cup {e},
               \A x \in Levels(M) : Better(s, x.price, y.price)
        PROVE  Len(M) = MaxDepth /\ \A x \in Levels(M) : Better(s, x.price, p)
    <3>1. CASE p = y.price
      BY <2>5, <3>1
    <3>2. CASE p # y.price
      <4>1. p # q /\ \A x \in Levels(L) : x.price # p
        BY <1>1, <1>8, <2>5, <3>2
      <4>2. Better(s, y.price, p)
        BY <2>2, <2>5, <4>1
      <4>3. \A x \in Levels(M) : x.price \in Int
        BY <1>5, LevelsTyped
      <4>4. y.price \in Int
        BY <2>5, LevelsTyped
      <4>5. \A x \in Levels(M) : Better(s, x.price, p)
        BY <2>1, <2>5, <4>2, <4>3, <4>4, BetterOrder
      <4> QED BY <2>5, <4>5
    <3> QED BY <3>1, <3>2
  <2> QED BY <1>5, <2>3, <2>4, <2>5
<1>9. SideInv(s, M, w, k \cup {q}, t)
  BY <1>5, <1>7, <1>8 DEF SideInv
<1> QED BY <1>9 DEF M, w, e
-----------------------------------------------------------------------------
(* The crossing. *)

\* Nothing of an earlier crossing is left on a book that is not crossed.
Rested(b) == b.crossed_updates = 0 /\ b.crossed_age = 0

LEMMA AgedProps ==
  ASSUME NEW b \in BookT, NEW n \in Nat
  PROVE  /\ Aged(b, n) \in BookT
         /\ Aged(b, n).levels = b.levels
         /\ Rested(b) => Rested(Aged(b, n))
<1>1. b.crossed_age \in Nat /\ MaxDuration \in Nat
  BY BookAssumption DEF BookT
<1>2. AtMost(b.crossed_age + n, MaxDuration + 1) \in 0 .. MaxDuration + 1
  BY <1>1 DEF AtMost
<1>3. CASE b.crossed_updates = 0
  BY <1>3 DEF Aged
<1>4. CASE b.crossed_updates # 0
  <2>1. Aged(b, n) = [b EXCEPT !.crossed_age = AtMost(b.crossed_age + n, MaxDuration + 1)]
    BY <1>4 DEF Aged
  <2> QED BY <1>2, <1>4, <2>1 DEF BookT, Rested
<1> QED BY <1>3, <1>4

LEMMA EvaluateProps ==
  ASSUME NEW b \in BookT
  PROVE  /\ evaluate_crossed(b).book \in BookT
         /\ evaluate_crossed(b).book.levels = b.levels
         /\ evaluate_crossed(b).status \in {"ok", "crossed_tolerated", "crossed_halt"}
         /\ ~is_crossed(b) => Rested(evaluate_crossed(b).book) /\ evaluate_crossed(b).status = "ok"
         /\ Rested(b) => evaluate_crossed(b).status # "crossed_halt"
<1> DEFINE c == [b EXCEPT !.crossed_updates = AtMost(@ + 1, MaxUpdates + 1)]
<1>1. b.crossed_updates \in Nat /\ MaxUpdates \in Nat \ {0} /\ MaxDuration \in Nat
  BY BookAssumption DEF BookT
<1>2. AtMost(b.crossed_updates + 1, MaxUpdates + 1) \in 0 .. MaxUpdates + 1
  BY <1>1 DEF AtMost
<1>3. CASE ~is_crossed(b)
  <2>1. evaluate_crossed(b) = [book |-> Uncrossed(b), status |-> "ok"]
    BY <1>3 DEF evaluate_crossed
  <2>2. 0 \in 0 .. MaxUpdates + 1 /\ 0 \in 0 .. MaxDuration + 1
    BY <1>1
  <2>3. Uncrossed(b) \in BookT /\ Uncrossed(b).levels = b.levels /\ Rested(Uncrossed(b))
    BY <2>2 DEF Uncrossed, BookT, Rested
  <2> QED BY <1>3, <2>1, <2>3
<1>4. CASE is_crossed(b)
  <2>1. /\ evaluate_crossed(b).book = c
        /\ evaluate_crossed(b).status = IF c.crossed_updates > MaxUpdates \/ c.crossed_age > MaxDuration
                                        THEN "crossed_halt" ELSE "crossed_tolerated"
    BY <1>4 DEF evaluate_crossed
  <2>2. /\ c \in BookT /\ c.levels = b.levels /\ c.crossed_age = b.crossed_age
        /\ c.crossed_updates = AtMost(b.crossed_updates + 1, MaxUpdates + 1)
    BY <1>2 DEF BookT
  <2>3. Rested(b) => ~(c.crossed_updates > MaxUpdates) /\ ~(c.crossed_age > MaxDuration)
    BY <1>1, <2>2 DEF Rested, AtMost
  <2> HIDE DEF c
  <2> QED BY <1>4, <2>1, <2>2, <2>3
<1> QED BY <1>3, <1>4

\* The levels an update leaves decide whether the book is crossed, nothing else of it.
LEMMA CrossedByLevels ==
  ASSUME NEW b, NEW c, b.levels = c.levels
  PROVE  is_crossed(b) <=> is_crossed(c)
BY DEF is_crossed, has_both_sides

LEMMA LevelsChanged ==
  ASSUME NEW b \in BookT, NEW f \in [Sides -> Seq(LevelT)]
  PROVE  LET c == [b EXCEPT !.levels = f]
         IN  c \in BookT /\ c.levels = f /\ (Rested(b) => Rested(c))
BY DEF BookT, Rested

\* What an update may do: whatever it does to the ladders, a book that is not crossed
\* afterwards is rested, and only one that was not rested is halted.
Safe(b, r) ==
  /\ r.book \in BookT
  /\ r.status \in {"ok", "crossed_tolerated", "crossed_halt", "rebase_required", "rejected"}
  /\ r.status # "rejected" /\ ~is_crossed(r.book) => Rested(r.book)
  /\ r.status = "crossed_halt" => is_crossed(r.book) /\ ~Rested(b)
  /\ r.status = "rejected" => r.book = b

LEMMA EvaluateSafe ==
  ASSUME NEW b \in BookT, NEW f \in [Sides -> Seq(LevelT)]
  PROVE  /\ Safe(b, evaluate_crossed([b EXCEPT !.levels = f]))
         /\ evaluate_crossed([b EXCEPT !.levels = f]).book.levels = f
         /\ evaluate_crossed([b EXCEPT !.levels = f]).status \notin {"rejected", "rebase_required"}
<1> DEFINE c == [b EXCEPT !.levels = f]
           r == evaluate_crossed(c)
<1>1. c \in BookT /\ c.levels = f /\ (Rested(b) => Rested(c))
  BY LevelsChanged
<1> HIDE DEF c
<1>2. /\ r.book \in BookT /\ r.book.levels = c.levels
      /\ r.status \in {"ok", "crossed_tolerated", "crossed_halt"}
      /\ ~is_crossed(c) => Rested(r.book) /\ r.status = "ok"
      /\ Rested(c) => r.status # "crossed_halt"
  BY <1>1, EvaluateProps
<1> HIDE DEF r
<1>3. is_crossed(r.book) <=> is_crossed(c)
  BY <1>2, CrossedByLevels
<1>4. Safe(b, r)
  BY <1>1, <1>2, <1>3 DEF Safe
<1> QED BY <1>1, <1>2, <1>4 DEF r, c

LEMMA QuoteSafe ==
  ASSUME NEW b \in BookT, NEW q \in Quotes
  PROVE  Safe(b, apply_quote(b, q))
<1> DEFINE bad == \/ ~price_in_range(q.bid) \/ ~price_in_range(q.ask) \/ ~size_in_range(q.size)
                  \/ q.ask - q.bid > MaxSpread
           f == [bid |-> <<Level(q.bid, q.size)>>, ask |-> <<Level(q.ask, q.size)>>]
<1>1. CASE bad
  <2>1. apply_quote(b, q) = [book |-> b, status |-> "rejected"]
    BY <1>1 DEF apply_quote
  <2> QED BY <2>1 DEF Safe
<1>2. CASE ~bad
  <2>1. apply_quote(b, q) = evaluate_crossed([b EXCEPT !.levels = f])
    BY <1>2 DEF apply_quote
  <2>2. Level(q.bid, q.size) \in LevelT /\ Level(q.ask, q.size) \in LevelT
    BY <1>2 DEF Level, LevelT, price_in_range, size_in_range, Prices
  <2>3. f \in [Sides -> Seq(LevelT)]
    BY <2>2 DEF Sides
  <2> HIDE DEF f
  <2> QED BY <2>1, <2>3, EvaluateSafe
<1> QED BY <1>1, <1>2

\* A delta, case by case: what the ladders become.
Fitted(L, d) ==
  LET i == find(L, d.price)
  IN IF Removes(d) THEN erase_at(L, i)
     ELSE IF i # 0 THEN [L EXCEPT ![i].size = d.size]
     ELSE insert_sorted(L, d.side, Level(d.price, d.size))

LEMMA DeltaCases ==
  ASSUME NEW b \in BookT, NEW d \in Deltas,
         Tells(d) => Fitted(b.levels[d.side], d) \in Seq(LevelT)
                       \/ (Removes(d) /\ find(b.levels[d.side], d.price) = 0)
  PROVE  /\ Safe(b, apply_delta(b, d))
         /\ \/ /\ ~Tells(d) /\ apply_delta(b, d) = [book |-> b, status |-> "rejected"]
            \/ /\ Tells(d) /\ Removes(d) /\ find(b.levels[d.side], d.price) = 0
               /\ apply_delta(b, d) = [book |-> request_rebase(b), status |-> "rebase_required"]
               /\ request_rebase(b).levels = [s \in Sides |-> <<>>]
            \/ /\ Tells(d) /\ ~(Removes(d) /\ find(b.levels[d.side], d.price) = 0)
               /\ apply_delta(b, d).book.levels
                    = [b.levels EXCEPT ![d.side] = Fitted(b.levels[d.side], d)]
               /\ apply_delta(b, d).status \notin {"rejected", "rebase_required"}
<1> DEFINE L == b.levels[d.side]
           i == find(L, d.price)
           f == [b.levels EXCEPT ![d.side] = Fitted(L, d)]
<1>1. d.side \in Sides /\ b.levels \in [Sides -> Seq(LevelT)]
  BY BookAssumption DEF BookT
<1>2. CASE ~Tells(d)
  <2>1. apply_delta(b, d) = [book |-> b, status |-> "rejected"]
    BY <1>2 DEF apply_delta, Tells
  <2> QED BY <1>2, <2>1 DEF Safe
<1>3. CASE Tells(d) /\ Removes(d) /\ i = 0
  <2>1. apply_delta(b, d) = [book |-> request_rebase(b), status |-> "rebase_required"]
    BY <1>3 DEF apply_delta, Tells
  <2>2. [s \in Sides |-> <<>>] \in [Sides -> Seq(LevelT)]
    OBVIOUS
  <2>3. 0 \in 0 .. MaxUpdates + 1 /\ 0 \in 0 .. MaxDuration + 1
    BY BookAssumption
  <2>4. /\ request_rebase(b) \in BookT /\ Rested(request_rebase(b))
        /\ request_rebase(b).levels = [s \in Sides |-> <<>>]
    BY <2>2, <2>3 DEF request_rebase, clear, Uncrossed, BookT, Rested
  <2> QED BY <1>3, <2>1, <2>4 DEF Safe
<1>4. CASE Tells(d) /\ ~(Removes(d) /\ i = 0)
  <2>1. apply_delta(b, d) = evaluate_crossed([b EXCEPT !.levels[d.side] = Fitted(L, d)])
    BY <1>4 DEF apply_delta, Tells, Fitted
  <2>2. [b EXCEPT !.levels[d.side] = Fitted(L, d)] = [b EXCEPT !.levels = f]
    OBVIOUS
  <2>3. f \in [Sides -> Seq(LevelT)]
    BY <1>1, <1>4
  <2>4. apply_delta(b, d) = evaluate_crossed([b EXCEPT !.levels = f])
    BY <2>1, <2>2
  <2> HIDE DEF f
  <2>5. /\ Safe(b, apply_delta(b, d)) /\ apply_delta(b, d).book.levels = f
        /\ apply_delta(b, d).status \notin {"rejected", "rebase_required"}
    BY <2>3, <2>4, EvaluateSafe
  <2> QED BY <1>4, <2>5 DEF f
<1> QED BY <1>2, <1>3, <1>4

LEMMA SizeChanged ==
  ASSUME NEW x \in LevelT, NEW z \in 0 .. MaxSize
  PROVE  [x EXCEPT !.size = z] = Level(x.price, z)
BY DEF Level, LevelT

LEMMA FittedSide ==
  ASSUME NEW d \in Deltas, Tells(d), NEW L \in Seq(LevelT), NEW v \in [Prices -> 0 .. MaxSize],
         NEW k \in SUBSET Prices, NEW t \in BOOLEAN, NEW u \in BOOLEAN, SideInv(d.side, L, v, k, t),
         ~(Removes(d) /\ find(L, d.price) = 0), t => u,
         Removes(d) /\ Beyond(L, v, k) => u,
         ~Removes(d) => u = t
  PROVE  /\ Fitted(L, d) \in Seq(LevelT)
         /\ SideInv(d.side, Fitted(L, d), [v EXCEPT ![d.price] = At(d)], k \cup {d.price}, u)
<1> DEFINE i == find(L, d.price)
           w == [v EXCEPT ![d.price] = At(d)]
<1>1. d.price \in Prices /\ d.size \in 0 .. MaxSize /\ MaxSize \in Nat
  BY BookAssumption DEF Tells, price_in_range, size_in_range, Prices
<1>2. i # 0 => i \in DOMAIN L /\ L[i].price = d.price
  BY FindProps
<1>3. i = 0 => \A j \in DOMAIN L : L[j].price # d.price
  BY FindProps
<1> HIDE DEF i
<1>4. CASE Removes(d)
  <2>1. i \in DOMAIN L /\ L[i].price = d.price
    BY <1>2, <1>4 DEF i
  <2>2. Fitted(L, d) = erase_at(L, i) /\ At(d) = 0
    BY <1>4 DEF Fitted, At, i
  <2>3. erase_at(L, i) \in Seq(LevelT)
    BY <2>1, EraseLadder DEF SideInv
  <2>4. Beyond(L, v, k) => u
    BY <1>4
  <2>5. Becomes(v, w, d.price, 0)
    BY <2>2 DEF Becomes
  <2> HIDE DEF w
  <2>6. SideInv(d.side, erase_at(L, i), w, k \cup {d.price}, u)
    BY <1>1, <2>1, <2>4, <2>5, SideErase
  <2> QED BY <2>2, <2>3, <2>6 DEF w
<1>5. CASE ~Removes(d) /\ i # 0
  <2>1. i \in DOMAIN L /\ L[i].price = d.price /\ d.size > 0
    BY <1>1, <1>2, <1>5 DEF Removes
  <2>2. L[i] \in LevelT
    BY <2>1, PriceInt
  <2>3. [L EXCEPT ![i].size = d.size] = [L EXCEPT ![i] = Level(L[i].price, d.size)]
    <3>1. [L[i] EXCEPT !.size = d.size] = Level(L[i].price, d.size)
      BY <1>1, <2>2, SizeChanged
    <3> QED BY <3>1
  <2>4. Fitted(L, d) = [L EXCEPT ![i] = Level(L[i].price, d.size)] /\ At(d) = d.size
    BY <1>5, <2>3 DEF Fitted, At, i
  <2>5. Level(L[i].price, d.size) \in LevelT
    BY <1>1, <2>1 DEF Level, LevelT
  <2>6. [L EXCEPT ![i] = Level(L[i].price, d.size)] \in Seq(LevelT)
    BY <2>1, <2>5, ExceptSeq
  <2> DEFINE M == [L EXCEPT ![i] = Level(L[i].price, d.size)]
  <2>7. Becomes(v, w, d.price, d.size) /\ Becomes(L, M, i, Level(d.price, d.size))
    BY <2>1, <2>4 DEF Becomes
  <2>8. M \in Seq(LevelT) /\ Fitted(L, d) = M
    BY <2>4, <2>6
  <2> HIDE DEF w, M
  <2>9. SideInv(d.side, M, w, k \cup {d.price}, t)
    BY <1>1, <2>1, <2>7, SideResize
  <2> QED BY <1>5, <2>8, <2>9 DEF w
<1>6. CASE ~Removes(d) /\ i = 0
  <2>1. d.size > 0
    BY <1>1, <1>6 DEF Removes
  <2>2. Fitted(L, d) = insert_sorted(L, d.side, Level(d.price, d.size)) /\ At(d) = d.size
    BY <1>6 DEF Fitted, At, i
  <2>3. Level(d.price, d.size) \in LevelT /\ Level(d.price, d.size).price = d.price
    BY <1>1 DEF Level, LevelT
  <2>4. \A j \in DOMAIN L : L[j].price # Level(d.price, d.size).price
    BY <1>3, <1>6, <2>3
  <2>5. insert_sorted(L, d.side, Level(d.price, d.size)) \in Seq(LevelT)
    BY <2>3, <2>4, InsertLadder DEF SideInv
  <2>6. SideInv(d.side, insert_sorted(L, d.side, Level(d.price, d.size)), [v EXCEPT ![d.price] = d.size],
                k \cup {d.price}, t)
    BY <1>1, <1>3, <1>6, <2>1, SideInsert
  <2> QED BY <1>6, <2>2, <2>5, <2>6
<1> QED BY <1>4, <1>5, <1>6
-----------------------------------------------------------------------------
(* The inductive invariant and its steps. *)

Types ==
  /\ source \in Sources /\ book \in BookT
  /\ status \in {"ok", "crossed_tolerated", "crossed_halt", "rebase_required", "rejected"}
  /\ venue \in [Sides -> [Prices -> 0 .. MaxSize]]
  /\ seen \in [Sides -> SUBSET Prices] /\ thinned \subseteq Sides /\ odd \in BOOLEAN

LadderInv ==
  source = "l2" => \A s \in Sides : SideInv(s, book.levels[s], venue[s], seen[s], s \in thinned)

CrossInv ==
  /\ ~is_crossed(book) => Rested(book)
  /\ status = "crossed_halt" => is_crossed(book)

BookInv == Types /\ LadderInv /\ CrossInv

\* A safe update of an aged book keeps the crossing's part of the invariant.
LEMMA SafeStep ==
  ASSUME book \in BookT, CrossInv, NEW n \in Nat, NEW r, Safe(Aged(book, n), r),
         book' = r.book, status' = r.status
  PROVE  /\ book' \in BookT
         /\ status' \in {"ok", "crossed_tolerated", "crossed_halt", "rebase_required", "rejected"}
         /\ CrossInv'
         /\ status' = "crossed_halt" => is_crossed(book)
<1> DEFINE b == Aged(book, n)
<1>1. b \in BookT /\ b.levels = book.levels /\ (Rested(book) => Rested(b))
  BY AgedProps
<1> HIDE DEF b
<1>2. is_crossed(b) <=> is_crossed(book)
  BY <1>1, CrossedByLevels
<1>3. ~Rested(b) => is_crossed(book)
  BY <1>1 DEF CrossInv
<1>4. ASSUME ~is_crossed(book') PROVE Rested(book')
  <2>1. CASE r.status = "rejected"
    <3>1. book' = b
      BY <2>1 DEF Safe, b
    <3> QED BY <1>2, <1>3, <1>4, <3>1
  <2>2. CASE r.status # "rejected"
    BY <1>4, <2>2 DEF Safe
  <2> QED BY <2>1, <2>2
<1>5. status' = "crossed_halt" => is_crossed(book') /\ is_crossed(book)
  BY <1>3 DEF Safe, b
<1>6. CrossInv'
  BY <1>4, <1>5 DEF CrossInv
<1> QED BY <1>5, <1>6 DEF Safe

LEMMA QuoteStep ==
  ASSUME BookInv, NEW q \in Quotes, NEW n \in Elapses, Quote(q, n)
  PROVE  BookInv' /\ (status' = "crossed_halt" => is_crossed(book))
<1> DEFINE b == Aged(book, n)
           r == apply_quote(b, q)
<1>1. book \in BookT /\ CrossInv /\ n \in Nat
  BY BookAssumption DEF BookInv, Types
<1>2. b \in BookT
  BY <1>1, AgedProps
<1>3. Safe(b, r)
  BY <1>2, QuoteSafe
<1>4. /\ source = "l1" /\ book' = r.book /\ status' = r.status
      /\ UNCHANGED <<source, venue, seen, thinned, odd>>
  BY DEF Quote
<1> HIDE DEF r
<1>5. /\ book' \in BookT
      /\ status' \in {"ok", "crossed_tolerated", "crossed_halt", "rebase_required", "rejected"}
      /\ CrossInv'
      /\ status' = "crossed_halt" => is_crossed(book)
  BY <1>1, <1>3, <1>4, SafeStep
<1>6. Types' /\ LadderInv'
  BY <1>4, <1>5 DEF BookInv, Types, LadderInv
<1> QED BY <1>5, <1>6 DEF BookInv

\* The venue's change as one side sees it.
LEMMA ChangedSide ==
  ASSUME Types, NEW d \in Deltas
  PROVE  /\ Changed(d) \in [Sides -> [Prices -> 0 .. MaxSize]]
         /\ Tells(d) => /\ d.price \in Prices
                        /\ Changed(d)[d.side] = [venue[d.side] EXCEPT ![d.price] = At(d)]
                        /\ \A s \in Sides : s # d.side => Changed(d)[s] = venue[s]
         /\ ~Tells(d) => Changed(d) = venue
<1>1. d.side \in Sides /\ venue \in [Sides -> [Prices -> 0 .. MaxSize]] /\ MaxSize \in Nat
  BY BookAssumption DEF Types
<1>2. Tells(d) => d.price \in Prices /\ At(d) \in 0 .. MaxSize
  BY <1>1 DEF Tells, At, price_in_range, size_in_range, Prices
<1>3. CASE Tells(d)
  <2>1. Changed(d) = [venue EXCEPT ![d.side][d.price] = At(d)]
    BY <1>3 DEF Changed
  <2>2. [venue[d.side] EXCEPT ![d.price] = At(d)] \in [Prices -> 0 .. MaxSize]
    BY <1>1, <1>2, <1>3
  <2> QED BY <1>1, <1>2, <1>3, <2>1, <2>2
<1>4. CASE ~Tells(d)
  BY <1>1, <1>4 DEF Changed
<1> QED BY <1>3, <1>4

LEMMA LoseStep ==
  ASSUME BookInv, NEW d \in Deltas, Lose(d)
  PROVE  BookInv' /\ (status' = "crossed_halt" => is_crossed(book))
<1>1. /\ source = "l2" /\ venue' = Changed(d) /\ venue' # venue
      /\ seen' = [seen EXCEPT ![d.side] = seen[d.side] \ {d.price}]
      /\ UNCHANGED <<source, book, status, thinned, odd>>
  BY DEF Lose
<1>2. Types /\ LadderInv /\ CrossInv /\ d.side \in Sides
  BY BookAssumption DEF BookInv
<1>3. Tells(d)
  BY <1>1, <1>2, ChangedSide
<1>4. /\ venue' \in [Sides -> [Prices -> 0 .. MaxSize]] /\ d.price \in Prices
      /\ venue'[d.side] = [venue[d.side] EXCEPT ![d.price] = At(d)]
      /\ \A s \in Sides : s # d.side => venue'[s] = venue[s]
  BY <1>1, <1>2, <1>3, ChangedSide
<1>5. /\ seen' \in [Sides -> SUBSET Prices] /\ seen'[d.side] = seen[d.side] \ {d.price}
      /\ \A s \in Sides : s # d.side => seen'[s] = seen[s]
  BY <1>1, <1>2 DEF Types
<1>6. Types'
  BY <1>1, <1>2, <1>4, <1>5 DEF Types
<1>7. CrossInv'
  BY <1>1, <1>2 DEF CrossInv
<1>8. ASSUME NEW s \in Sides PROVE SideInv(s, book.levels[s], venue'[s], seen'[s], s \in thinned)
  <2>1. SideInv(s, book.levels[s], venue[s], seen[s], s \in thinned)
    BY <1>1, <1>2 DEF LadderInv
  <2>2. \A p \in seen'[s] : p \in seen[s] /\ p \in Prices /\ venue'[s][p] = venue[s][p]
    <3>1. CASE s # d.side
      BY <1>2, <1>4, <1>5, <3>1 DEF Types
    <3>2. CASE s = d.side
      <4>1. \A p \in seen'[s] : p # d.price /\ p \in seen[s] /\ p \in Prices
        BY <1>2, <1>5, <3>2 DEF Types
      <4>2. venue[s] \in [Prices -> 0 .. MaxSize] /\ venue'[s] = [venue[s] EXCEPT ![d.price] = At(d)]
        BY <1>2, <1>4, <3>2 DEF Types
      <4> QED BY <4>1, <4>2
    <3> QED BY <3>1, <3>2
  <2> QED BY <2>1, <2>2 DEF SideInv
<1>9. LadderInv'
  BY <1>1, <1>8 DEF LadderInv
<1> QED BY <1>1, <1>2, <1>6, <1>7, <1>9 DEF BookInv, CrossInv

LEMMA RebaseStep ==
  ASSUME BookInv, consume_rebase
  PROVE  BookInv' /\ (status' = "crossed_halt" => is_crossed(book))
<1>1. /\ book' = [book EXCEPT !.rebase_pending = FALSE]
      /\ UNCHANGED <<source, status, venue, seen, thinned, odd>>
  BY DEF consume_rebase
<1>2. book \in BookT
  BY DEF BookInv, Types
<1>3. book' \in BookT /\ book'.levels = book.levels /\ (Rested(book) => Rested(book'))
  BY <1>1, <1>2 DEF BookT, Rested
<1>4. is_crossed(book') <=> is_crossed(book)
  BY <1>3, CrossedByLevels
<1>5. Types'
  BY <1>1, <1>3 DEF BookInv, Types
<1>6. LadderInv'
  BY <1>1, <1>3 DEF BookInv, LadderInv
<1>7. CrossInv'
  BY <1>1, <1>3, <1>4 DEF BookInv, CrossInv
<1> QED BY <1>1, <1>5, <1>6, <1>7 DEF BookInv, CrossInv

LEMMA DeltaStep ==
  ASSUME BookInv, NEW d \in Deltas, NEW n \in Elapses, Delta(d, n)
  PROVE  BookInv' /\ (status' = "crossed_halt" => is_crossed(book))
<1> DEFINE b == Aged(book, n)
           r == apply_delta(b, d)
           L == book.levels[d.side]
           i == find(L, d.price)
           rebased == r.status = "rebase_required"
           u == d.side \in thinned'
<1>1. Types /\ LadderInv /\ CrossInv /\ book \in BookT /\ n \in Nat /\ d.side \in Sides
  BY BookAssumption DEF BookInv, Types
<1>2. b \in BookT /\ b.levels = book.levels
  BY <1>1, AgedProps
<1>3. /\ source = "l2" /\ source' = source /\ book' = r.book /\ status' = r.status
      /\ venue' = Changed(d)
      /\ seen' = IF rebased THEN [s \in Sides |-> {}]
                 ELSE IF Tells(d) THEN [seen EXCEPT ![d.side] = seen[d.side] \cup {d.price}] ELSE seen
      /\ thinned' = IF rebased THEN {}
                    ELSE IF Tells(d) /\ Removes(d) /\ BeyondWindow(d.side) # {} THEN thinned \cup {d.side}
                    ELSE thinned
      /\ odd' = (odd \/ (rebased /\ d.price \in seen[d.side]))
  BY DEF Delta
<1>4. \A s \in Sides : SideInv(s, book.levels[s], venue[s], seen[s], s \in thinned)
  BY <1>1, <1>3 DEF LadderInv
<1>5. L \in Seq(LevelT) /\ venue[d.side] \in [Prices -> 0 .. MaxSize] /\ seen[d.side] \in SUBSET Prices
  BY <1>1 DEF Types, BookT
<1>6. BeyondWindow(d.side) # {} <=> Beyond(L, venue[d.side], seen[d.side])
  BY DEF BeyondWindow, Known, Held, Beyond, Levels
<1> HIDE DEF b, r, L, i, rebased
<1>7. ASSUME Tells(d), ~(Removes(d) /\ i = 0), ~rebased
      PROVE  /\ Fitted(L, d) \in Seq(LevelT)
             /\ SideInv(d.side, Fitted(L, d), [venue[d.side] EXCEPT ![d.price] = At(d)],
                        seen[d.side] \cup {d.price}, u)
  <2> DEFINE t == d.side \in thinned
             v == venue[d.side]
             k == seen[d.side]
  <2>1. SideInv(d.side, L, v, k, t)
    BY <1>1, <1>4 DEF L
  <2>2. thinned' = IF Removes(d) /\ Beyond(L, v, k) THEN thinned \cup {d.side} ELSE thinned
    BY <1>3, <1>6, <1>7
  <2>3. (t => u) /\ (Removes(d) /\ Beyond(L, v, k) => u) /\ (~Removes(d) => u = t)
    BY <2>2
  <2>4. t \in BOOLEAN /\ u \in BOOLEAN
    OBVIOUS
  <2>5. v \in [Prices -> 0 .. MaxSize] /\ k \in SUBSET Prices
    BY <1>5
  <2>6. ~(Removes(d) /\ find(L, d.price) = 0)
    BY <1>7 DEF i
  <2> HIDE DEF t, u, v, k
  <2>7. /\ Fitted(L, d) \in Seq(LevelT)
        /\ SideInv(d.side, Fitted(L, d), [v EXCEPT ![d.price] = At(d)], k \cup {d.price}, u)
    BY <1>5, <1>7, <2>1, <2>3, <2>4, <2>5, <2>6, FittedSide
  <2> QED BY <2>7 DEF v, k
<1>8. Tells(d) => Fitted(L, d) \in Seq(LevelT) \/ (Removes(d) /\ i = 0)
  <2> SUFFICES ASSUME Tells(d), ~(Removes(d) /\ i = 0) PROVE Fitted(L, d) \in Seq(LevelT)
    OBVIOUS
  <2> DEFINE t == d.side \in thinned
  <2>1. SideInv(d.side, L, venue[d.side], seen[d.side], t)
    BY <1>1, <1>4 DEF L
  <2>2. Ladder(d.side, L)
    BY <2>1 DEF SideInv
  <2>3. Fitted(L, d) \in Seq(LevelT)
    <3>1. SideInv(d.side, L, venue[d.side], seen[d.side], TRUE)
      BY <2>1 DEF SideInv
    <3>2. ~(Removes(d) /\ find(L, d.price) = 0)
      BY DEF i
    <3> QED BY <1>5, <3>1, <3>2, FittedSide
  <2> QED BY <2>3
<1>9. /\ Safe(b, r)
      /\ \/ ~Tells(d) /\ r = [book |-> b, status |-> "rejected"]
         \/ /\ Tells(d) /\ Removes(d) /\ i = 0
            /\ r = [book |-> request_rebase(b), status |-> "rebase_required"]
            /\ request_rebase(b).levels = [s \in Sides |-> <<>>]
         \/ /\ Tells(d) /\ ~(Removes(d) /\ i = 0)
            /\ r.book.levels = [book.levels EXCEPT ![d.side] = Fitted(L, d)]
            /\ r.status \notin {"rejected", "rebase_required"}
  <2>1. Tells(d) => Fitted(b.levels[d.side], d) \in Seq(LevelT)
                       \/ (Removes(d) /\ find(b.levels[d.side], d.price) = 0)
    BY <1>2, <1>8 DEF L, i
  <2>2. b.levels[d.side] = L /\ find(b.levels[d.side], d.price) = i
    BY <1>2 DEF L, i
  <2> QED BY <1>2, <2>1, <2>2, DeltaCases DEF r
<1>10. /\ book' \in BookT
       /\ status' \in {"ok", "crossed_tolerated", "crossed_halt", "rebase_required", "rejected"}
       /\ CrossInv'
       /\ status' = "crossed_halt" => is_crossed(book)
  BY <1>1, <1>3, <1>9, SafeStep DEF b
<1>11. Tells(d) => d.price \in Prices
  BY <1>1, ChangedSide
<1>12. Types'
  <2>1. venue' \in [Sides -> [Prices -> 0 .. MaxSize]]
    BY <1>1, <1>3, ChangedSide
  <2>2. seen' \in [Sides -> SUBSET Prices]
    BY <1>1, <1>3, <1>11 DEF Types
  <2>3. thinned' \subseteq Sides /\ odd' \in BOOLEAN
    BY <1>1, <1>3 DEF Types
  <2> QED BY <1>1, <1>3, <1>10, <2>1, <2>2, <2>3 DEF Types
<1>13. LadderInv'
  <2>1. CASE ~Tells(d)
    <3>1. ~rebased /\ book'.levels = book.levels /\ venue' = venue
      <4>1. r = [book |-> b, status |-> "rejected"]
        BY <1>9, <2>1
      <4>2. venue' = venue
        BY <1>1, <1>3, <2>1, ChangedSide
      <4> QED BY <1>2, <1>3, <4>1, <4>2 DEF rebased
    <3>2. seen' = seen /\ thinned' = thinned
      BY <1>3, <2>1, <3>1
    <3> QED BY <1>3, <1>4, <3>1, <3>2 DEF LadderInv
  <2>2. CASE Tells(d) /\ Removes(d) /\ i = 0
    <3>1. rebased /\ book'.levels = [s \in Sides |-> <<>>]
      BY <1>3, <1>9, <2>2 DEF rebased
    <3>2. seen' = [s \in Sides |-> {}]
      BY <1>3, <3>1
    <3>3. ASSUME NEW s \in Sides PROVE SideInv(s, book'.levels[s], venue'[s], seen'[s], s \in thinned')
      <4>1. book'.levels[s] = <<>> /\ seen'[s] = {}
        BY <3>1, <3>2
      <4>2. Levels(<<>>) = {} /\ Ladder(s, <<>>)
        BY BookAssumption DEF Levels, Ladder
      <4> QED BY <4>1, <4>2 DEF SideInv
    <3> QED BY <3>3 DEF LadderInv
  <2>3. CASE Tells(d) /\ ~(Removes(d) /\ i = 0)
    <3>1. ~rebased /\ book'.levels = [book.levels EXCEPT ![d.side] = Fitted(L, d)]
      BY <1>3, <1>9, <2>3 DEF rebased
    <3>2. /\ venue'[d.side] = [venue[d.side] EXCEPT ![d.price] = At(d)]
          /\ \A s \in Sides : s # d.side => venue'[s] = venue[s]
      BY <1>1, <1>3, <2>3, ChangedSide
    <3>3. /\ seen'[d.side] = seen[d.side] \cup {d.price}
          /\ \A s \in Sides : s # d.side => seen'[s] = seen[s] /\ (s \in thinned' <=> s \in thinned)
      BY <1>1, <1>3, <2>3, <3>1 DEF Types
    <3>4. /\ book'.levels[d.side] = Fitted(L, d)
          /\ \A s \in Sides : s # d.side => book'.levels[s] = book.levels[s]
      BY <1>1, <3>1 DEF BookT
    <3>5. SideInv(d.side, book'.levels[d.side], venue'[d.side], seen'[d.side], d.side \in thinned')
      BY <1>7, <2>3, <3>1, <3>2, <3>3, <3>4
    <3>6. ASSUME NEW s \in Sides, s # d.side
          PROVE  SideInv(s, book'.levels[s], venue'[s], seen'[s], s \in thinned')
      BY <1>4, <3>2, <3>3, <3>4, <3>6 DEF SideInv
    <3> QED BY <3>5, <3>6 DEF LadderInv
  <2> QED BY <2>1, <2>2, <2>3
<1> QED BY <1>10, <1>12, <1>13 DEF BookInv

LEMMA BookInitially ==
  ASSUME Init
  PROVE  BookInv
<1>1. 0 \in 0 .. MaxUpdates + 1 /\ 0 \in 0 .. MaxDuration + 1 /\ 0 \in 0 .. MaxSize
  BY BookAssumption
<1>2. [s \in Sides |-> <<>>] \in [Sides -> Seq(LevelT)]
  OBVIOUS
<1>3. book \in BookT /\ book.levels = [s \in Sides |-> <<>>] /\ Rested(book)
  BY <1>1, <1>2 DEF Init, BookT, Rested
<1>4. Types
  BY <1>1, <1>3 DEF Init, Types
<1>5. \A s \in Sides : SideInv(s, book.levels[s], venue[s], seen[s], s \in thinned)
  <2> SUFFICES ASSUME NEW s \in Sides
               PROVE  SideInv(s, book.levels[s], venue[s], seen[s], s \in thinned)
    OBVIOUS
  <2>1. book.levels[s] = <<>> /\ \A p \in seen[s] : venue[s][p] = 0
    BY <1>3 DEF Init
  <2>2. Levels(<<>>) = {} /\ Ladder(s, <<>>)
    BY BookAssumption DEF Levels, Ladder
  <2>3. \A p \in seen[s] : ~(venue[s][p] > 0)
    BY <2>1
  <2> QED BY <2>1, <2>2, <2>3 DEF SideInv
<1> QED BY <1>3, <1>4, <1>5 DEF BookInv, LadderInv, CrossInv, Init

LEMMA BookStep ==
  ASSUME BookInv, [Next]_vars
  PROVE  BookInv' /\ (Next => (status' = "crossed_halt" => is_crossed(book)))
<1>1. ASSUME NEW q \in Quotes, NEW n \in Elapses, Quote(q, n)
      PROVE  BookInv' /\ (status' = "crossed_halt" => is_crossed(book))
  BY <1>1, QuoteStep
<1>2. ASSUME NEW d \in Deltas, NEW n \in Elapses, Delta(d, n)
      PROVE  BookInv' /\ (status' = "crossed_halt" => is_crossed(book))
  BY <1>2, DeltaStep
<1>3. ASSUME NEW d \in Deltas, Lose(d)
      PROVE  BookInv' /\ (status' = "crossed_halt" => is_crossed(book))
  BY <1>3, LoseStep
<1>4. CASE consume_rebase
  BY <1>4, RebaseStep
<1>5. CASE UNCHANGED vars
  <2>1. BookInv'
    BY <1>5 DEF vars, BookInv, Types, LadderInv, CrossInv
  <2> QED BY <1>5, <2>1 DEF vars, BookInv, CrossInv
<1> QED BY <1>1, <1>2, <1>3, <1>4, <1>5 DEF Next

LEMMA BookAlways == Spec => []BookInv
<1>1. Init => BookInv
  BY BookInitially
<1>2. BookInv /\ [Next]_vars => BookInv'
  BY BookStep
<1> QED BY <1>1, <1>2, PTL DEF Spec
-----------------------------------------------------------------------------
(* What follows. *)

PricesOf(L) == {L[i].price : i \in DOMAIN L}
Sized(v, k) == {p \in k : v[p] > 0}

\* A ladder has as many prices as levels.
LEMMA PricesCounted ==
  ASSUME NEW s, NEW L \in Seq(LevelT), Ladder(s, L)
  PROVE  IsFiniteSet(PricesOf(L)) /\ Cardinality(PricesOf(L)) = Len(L)
<1> DEFINE H == PricesOf(L)
           n == Len(L)
           f == [i \in 1 .. n |-> L[i].price]
<1>1. n \in Nat /\ DOMAIN L = 1 .. n
  OBVIOUS
<1>2. \A i, j \in 1 .. n : f[i] = f[j] => i = j
  BY <1>1, PriceOnce
<1>3. f \in [1 .. n -> H] /\ \A x \in H : \E i \in 1 .. n : f[i] = x
  BY <1>1 DEF PricesOf
<1> HIDE DEF f, n, H
<1>4. f \in Bijection(1 .. n, H)
  BY <1>2, <1>3 DEF Bijection, Injection, Surjection, IsInjective
<1>5. ExistsBijection(1 .. n, H)
  BY <1>4 DEF ExistsBijection
<1>6. IsFiniteSet(H) /\ Cardinality(H) = n
  BY <1>1, <1>5, FS_CountingElements, FS_NatBijection
<1> QED BY <1>6 DEF H, n

LEMMA SideExact ==
  ASSUME NEW s, NEW L \in Seq(LevelT), NEW v \in [Prices -> 0 .. MaxSize], NEW k \in SUBSET Prices,
         SideInv(s, L, v, k, FALSE), PricesOf(L) \subseteq k
  PROVE  PricesOf(L) = Best(s, Sized(v, k))
<1> DEFINE H == PricesOf(L)
           K == Sized(v, k)
<1>1. /\ Ladder(s, L) /\ Len(L) \in Nat /\ MaxDepth \in Nat /\ Len(L) <= MaxDepth
  BY BookAssumption DEF SideInv, Ladder
<1>2. IsFiniteSet(H) /\ Cardinality(H) = Len(L)
  BY <1>1, PricesCounted
<1>3. H = {x.price : x \in Levels(L)} /\ K = {p \in k : v[p] > 0} /\ H \subseteq k
  BY DEF Levels, PricesOf, Sized
<1>4. IsFiniteSet(Prices) /\ \A p \in Prices : p \in Int
  BY BookAssumption, FS_Interval DEF Prices
<1> HIDE DEF H, K
<1>5. H \subseteq K
  BY <1>3 DEF SideInv
<1>6. ASSUME NEW p \in K, p \notin H PROVE Len(L) = MaxDepth /\ \A q \in H : Better(s, q, p)
  <2>1. p \in k /\ v[p] > 0 /\ \A x \in Levels(L) : x.price # p
    BY <1>3, <1>6
  <2>2. Len(L) = MaxDepth /\ \A x \in Levels(L) : Better(s, x.price, p)
    BY <2>1 DEF SideInv
  <2> QED BY <1>3, <2>2
<1>7. \A q \in K : q \in Int /\ q \in Prices
  BY <1>3, <1>4
<1>8. ASSUME NEW p \in H PROVE p \in Best(s, K)
  <2> DEFINE B == {q \in K : Better(s, q, p)}
  <2>1. p \in Int /\ \A q \in K : q \in Int
    BY <1>5, <1>7
  <2>2. ASSUME NEW q \in B PROVE q \in H \ {p}
    <3>1. q \in K /\ Better(s, q, p) /\ q \in Int
      BY <2>1
    <3>2. q # p /\ ~Better(s, p, q)
      BY <2>1, <3>1, BetterOrder
    <3> QED BY <1>6, <3>1, <3>2
  <2>3. IsFiniteSet(H \ {p}) /\ Cardinality(H \ {p}) = Len(L) - 1
    BY <1>2, FS_RemoveElement
  <2>4. B \in SUBSET (H \ {p})
    BY <2>2
  <2> HIDE DEF B
  <2>5. Cardinality(B) <= Len(L) - 1 /\ Cardinality(B) \in Nat
    BY <2>3, <2>4, FS_Subset, FS_CardinalityType
  <2>6. Cardinality(B) < MaxDepth
    BY <1>1, <2>5
  <2> QED BY <1>5, <2>6 DEF Best, B
<1>9. ASSUME NEW p \in Best(s, K), p \notin H PROVE FALSE
  <2> DEFINE B == {q \in K : Better(s, q, p)}
  <2>1. p \in K /\ Cardinality(B) < MaxDepth
    BY DEF Best
  <2>2. Len(L) = MaxDepth /\ H \in SUBSET B
    BY <1>5, <1>6, <1>9, <2>1
  <2>3. B \in SUBSET Prices
    BY <1>7
  <2> HIDE DEF B
  <2>4. IsFiniteSet(B)
    BY <1>4, <2>3, FS_Subset
  <2>5. Cardinality(H) <= Cardinality(B) /\ Cardinality(B) \in Nat
    BY <2>2, <2>4, FS_Subset, FS_CardinalityType
  <2> QED BY <1>1, <1>2, <2>1, <2>2, <2>5
<1> QED BY <1>5, <1>8, <1>9 DEF H, K, Best

LEMMA LaddersFromInv ==
  ASSUME BookInv
  PROVE  LaddersExact
<1> SUFFICES ASSUME source = "l2", NEW s \in Sides
             PROVE  LET levels == book.levels[s] IN
                    /\ Len(levels) <= MaxDepth
                    /\ \A i, j \in DOMAIN levels : i < j => Better(s, levels[i].price, levels[j].price)
                    /\ \A i \in DOMAIN levels :
                         levels[i].price \in seen[s] => levels[i].size = venue[s][levels[i].price]
                    /\ (s \notin thinned /\ Held(s) \subseteq seen[s]) => Held(s) = Best(s, Known(s))
  BY DEF LaddersExact
<1> DEFINE L == book.levels[s]
           v == venue[s]
           k == seen[s]
<1>1. L \in Seq(LevelT) /\ v \in [Prices -> 0 .. MaxSize] /\ k \in SUBSET Prices
  BY DEF BookInv, Types, BookT
<1>2. SideInv(s, L, v, k, s \in thinned)
  BY DEF BookInv, LadderInv
<1>3. Held(s) = PricesOf(L) /\ Known(s) = Sized(v, k)
  BY DEF Held, Known, PricesOf, Sized
<1>4. \A i \in DOMAIN L : L[i].price \in k => L[i].size = v[L[i].price]
  BY <1>2 DEF SideInv, Levels
<1>5. ASSUME s \notin thinned, Held(s) \subseteq k PROVE Held(s) = Best(s, Known(s))
  <2>1. SideInv(s, L, v, k, FALSE)
    BY <1>2, <1>5 DEF SideInv
  <2> HIDE DEF L, v, k
  <2>2. PricesOf(L) \subseteq k
    BY <1>3, <1>5
  <2>3. PricesOf(L) = Best(s, Sized(v, k))
    BY <1>1, <2>1, <2>2, SideExact
  <2> QED BY <1>3, <2>3
<1>6. Ladder(s, L)
  BY <1>2 DEF SideInv
<1> QED BY <1>4, <1>5, <1>6 DEF Ladder

\* For every depth, price range and stream of deltas, delivered or lost: the ladders stay
\* sorted and bounded, a level whose changes all arrived has the venue's size, and a side that
\* was not thinned holds exactly the best of the levels it was told of.
THEOREM LaddersAlwaysExact == Spec => []LaddersExact
<1>1. BookInv => LaddersExact
  BY LaddersFromInv
<1> QED BY <1>1, BookAlways, PTL

\* For every tolerance: only a book that was crossed before the update returns crossed_halt,
\* since evaluate_crossed and clear forget what an earlier crossing had used up.
THEOREM HaltNeedsCrossing == Spec => NeverHaltsAtOnce
<1>1. BookInv /\ [Next]_vars => [status' = "crossed_halt" => is_crossed(book)]_vars
  BY BookStep
<1> QED BY <1>1, BookAlways, PTL DEF Spec, NeverHaltsAtOnce
-----------------------------------------------------------------------------
(* The capture: the invariant. *)

\* The first n frames are records.
Whole(data, n) == \A i \in 1 .. n : IsRecord(data[i])
Boundary(seg) == select_boundary(seg.meta)

\* How far a reader gets that finds the segment as it is.
Limit(seg) == resolve_boundary(seg, Len(seg.data))

\* A segment that nobody writes to any more: whole, and no boundary cuts it.
Closed(seg) ==
  /\ seg.sealed /\ seg.header /\ Whole(seg.data, Len(seg.data))
  /\ valid_slot(Boundary(seg)) => Boundary(seg).committed >= Len(seg.data)
  /\ seg.zst.present => seg.zst.data = seg.data \/ seg.zst.exposed

Unsealed(seg) == ~seg.sealed /\ ~seg.zst.present

\* A segment as a process leaves it: its boundary names whole frames. Before the first
\* boundary there are no frames.
Steady(seg) ==
  IF valid_slot(Boundary(seg))
  THEN seg.header /\ Boundary(seg).committed <= Len(seg.data) /\ Whole(seg.data, Boundary(seg).committed)
  ELSE seg.data = <<>>

\* The slot that the generation after g leaves alone names n frames, and so does the other
\* one if it is newer.
Named(meta, g, n) ==
  LET stays == meta[SlotOf(g)]
      goes  == meta[3 - SlotOf(g)]
  IN  /\ 0 < stays.generation /\ stays.generation <= g /\ stays.committed = n
      /\ goes.generation <= g
      /\ goes.generation < stays.generation \/ goes.committed = n

\* A segment open for writing, with n frames committed under generation g.
Writing(seg, g, n) ==
  /\ Unsealed(seg) /\ seg.header /\ Named(seg.meta, g, n)
  /\ n <= Len(seg.data) /\ Whole(seg.data, n)

Idle == {"down", "failed", "recover"}
Repairing == {"empty_meta", "write_meta", "recompress"}
Ready == {"connect", "read", "drain", "frame", "committed", "finish"}
Adding == {"append", "tear", "publish"}
Opening == {"init", "slots", "flush"}
Growing == Opening \cup Adding \cup {"connect", "read", "drain", "frame", "committed"}

\* What each phase of the recorder knows of the last segment.
CurrentInv ==
  LET n == Len(current.data)
  IN  /\ rec.phase = "init" => current = NewSegment
      /\ rec.phase = "slots" => current = [NewSegment EXCEPT !.header = TRUE]
      /\ rec.phase = "flush" => current = [NewSegment EXCEPT !.header = TRUE, !.meta = FirstSlots]
      /\ rec.phase \in Ready => Writing(current, rec.generation, n)
      /\ rec.phase \in Adding => n > 0 /\ Writing(current, rec.generation, n - 1)
      /\ rec.phase = "append" => ~IsRecord(current.data[n])
      /\ rec.phase \in {"tear", "publish"} => current.data[n] = rec.pending
      /\ rec.phase \in Repairing \cup {"create", "push", "join"} => Closed(current)
      /\ rec.phase \in Idle => \/ Closed(current)
                               \/ Unsealed(current) /\ (rec.lost_power \/ Steady(current))

\* The segments that are compressed or about to be are closed.
QueueInv ==
  /\ \A j \in 1 .. Len(jobs) : Closed(disk[jobs[j]])
  /\ rec.rotated # 0 => rec.rotated \in 1 .. last /\ Closed(disk[rec.rotated])
  /\ rec.phase = "push" => rec.rotated # 0

\* Only the last segment may be open.
DiskInv ==
  /\ disk = <<>> => rec.phase \in {"down", "create"}
  /\ disk # <<>> => CurrentInv
  /\ \A i \in 1 .. last - 1 : Closed(disk[i])
  /\ QueueInv

\* Which phases have a record to append.
PendingInv ==
  /\ rec.pending = NoRecord \/ IsRecord(rec.pending)
  /\ rec.phase \in {"drain", "frame"} \cup Adding => IsRecord(rec.pending)
  /\ rec.phase \in {"connect", "read", "committed", "finish", "push", "join"} => rec.pending = NoRecord
  /\ rec.phase \in Idle \cup Repairing => rec.pending = NoRecord /\ rec.last = 0

\* What a loss of power leaves of a segment lies between what was flushed and what is committed.
Covered(seg, mark) ==
  /\ mark.frames <= Len(seg.data) /\ Whole(seg.data, mark.frames)
  /\ mark.frames > 0 => mark.header
  /\ mark.header => seg.header
  /\ seg.meta \in mark.metas
  /\ \A m \in mark.metas :
       IF valid_slot(select_boundary(m))
       THEN /\ valid_slot(Boundary(seg))
            /\ mark.frames <= select_boundary(m).committed
            /\ select_boundary(m).committed <= Boundary(seg).committed
       ELSE seg.data = <<>>

\* Of an open segment the sidecars that may be on disk agree with its frames, or it is as the
\* machine found it when it started again.
SafeInv ==
  disk # <<>> /\ ~current.sealed =>
    /\ \/ Covered(current, safe) /\ Steady(current)
       \/ rec.phase \in Idle /\ safe = flush
    /\ rec.phase \in Ready \cup Adding => \A m \in safe.metas : valid_slot(select_boundary(m))

Log == Recorded(disk)
Ended == Log[Len(Log)]

\* Sessions are numbered by the segments they open, so a new one has a larger number than
\* every record in the log.
SessionInv ==
  /\ rec.session <= last + 1
  /\ disk # <<>> /\ rec.phase \in Ready \cup Adding \cup Opening => rec.session <= last
  /\ \A k \in 1 .. Len(Log) : Log[k].sess <= last

\* The record that follows the log, and the number the source gave the last one.
FollowInv ==
  rec.phase # "down" /\ rec.phase # "failed" =>
    IF rec.pending = NoRecord
    THEN \/ rec.last = 0 /\ (Log = <<>> \/ Ended.sess < rec.session)
         \/ Log # <<>> /\ rec.last > 0 /\ Ended.sess = rec.session /\ Ended.src = rec.last
    ELSE /\ rec.pending.sess = rec.session /\ rec.pending.src = rec.last
         /\ \/ Log = <<>> \/ Ended.sess < rec.session
            \/ Ended.sess = rec.session /\ Ended.src = rec.last - 1

\* Until the machine restarts, the local times in the log rise.
TimeInv ==
  ~rec.lost_power =>
    /\ \A k \in 1 .. Len(Log) : Log[k].ts <= rec.ts
    /\ \A k \in 1 .. Len(Log) - 1 : Log[k].ts < Log[k+1].ts
    /\ rec.pending # NoRecord => rec.pending.ts = rec.ts /\ (Log # <<>> => Ended.ts < rec.ts)

LogInv == KeptReadable /\ RecordsContiguous /\ SessionInv /\ FollowInv /\ TimeInv

Cut(c) == Readable(disk[c.segment])

\* The cursor is not ahead of a segment that is still written.
CursorInv ==
  LET c == tail.cursor
  IN  /\ c.segment <= last \/ c = Cursor(1, 0)
      /\ c.segment = last /\ rec.phase \in Growing => c.frames <= Len(Cut(c))

\* Nothing will be written to segment k any more.
Past(k) == k < last \/ (k = last /\ rec.phase \notin Growing)

\* Until a segment has been given up, its catalog entry is still at hand.
Reading == {"fill", "ahead", "read", "advance"}

\* The run that was delivered ends at the cursor; the buffer follows it, unless the tailer took
\* what a recovery has dropped; a segment is left behind only when a later one was seen before
\* it was read to its end.
PositionInv ==
  LET c == tail.cursor
  IN  /\ ~tail.dropped => tail.base + Len(tail.run) = FramesBefore(c)
      /\ tail.buffer # <<>> =>
           \/ /\ c.segment <= last /\ c.frames + Len(tail.buffer) <= Len(Cut(c))
              /\ tail.buffer = SubSeq(Cut(c), c.frames + 1, c.frames + Len(tail.buffer))
           \/ tail.dropped /\ Past(c.segment)
      /\ tail.phase = "absent" => tail.buffer = <<>> /\ tail.run = <<>> /\ tail.base = 0 /\ c = Cursor(1, 0)
      /\ tail.phase \in Reading =>
           c.segment <= tail.catalog /\ tail.catalog <= last /\ tail.buffer = <<>>
      /\ tail.phase = "advance" /\ c.segment < tail.catalog => c.frames >= Len(Cut(c))

\* A frame that a recovery has cut off, and that no boundary will name again.
Gone(seg, i) ==
  /\ seg.sealed /\ i > Len(seg.data)
  /\ valid_slot(Boundary(seg)) => i > Boundary(seg).committed

\* What was taken from a segment, up to the first frame that was not whole, is what it holds.
Matches(seg, frames) ==
  \A i \in 1 .. Len(frames) :
    Whole(frames, i) => (i <= Len(seg.data) /\ frames[i] = seg.data[i]) \/ Gone(seg, i)

\* What the tailer has of a segment that was complete when it looked.
Complete(seg, r) ==
  /\ r.size = Len(seg.data) /\ Len(r.frames) <= Len(seg.data)
  /\ \A i \in 1 .. Len(r.frames) : r.frames[i] = seg.data[i]

Got(r) == Smaller(Len(r.frames), r.boundary)
Stuck(r) == ~Whole(r.frames, Got(r))

\* What the scan accepts is in the log.
InLog(seg, r) ==
  \A i \in 1 .. Got(r) : Whole(r.frames, i) => i <= Len(Readable(seg)) /\ r.frames[i] = Readable(seg)[i]

\* No record within b is outside the log.
FullyRead(seg, b) == \A i \in 1 .. b : i <= Len(seg.data) /\ Whole(seg.data, i) => i <= Len(Readable(seg))

\* ... and it stays so: b is committed, or nothing is written any more.
Secure(k, b) ==
  \/ b <= Len(Readable(disk[k])) \/ disk[k].sealed
  \/ k = last /\ rec.phase \in Idle /\ FullyRead(disk[k], b)

\* Within the boundary the tailer has met nothing but records and zeros, and will meet no other.
Explained(seg, r) ==
  /\ \A i \in 1 .. Got(r) : IsRecord(r.frames[i]) \/ r.frames[i] = Zeros
  /\ Stuck(r) \/ r.boundary <= Len(Readable(seg))

\* What the tailer's reader holds, before and after it has read the sidecar.
ReaderInv(t) ==
  LET k   == t.cursor.segment
      seg == disk[k]
      r   == t.reader
  IN  /\ t.phase \notin {"ahead", "read"} => r.frames = <<>>
      /\ t.phase \in {"ahead", "read"} => seg.header /\ (k < t.catalog => Complete(seg, r))
      /\ t.phase = "ahead" => Matches(seg, r.frames) /\ (~seg.sealed => r.size = SegmentFrames)
      /\ t.phase = "read" =>
           /\ k < t.catalog => r.boundary = Len(seg.data)
           /\ InLog(seg, r) \/ (t.dropped /\ Past(k))
           /\ Stuck(r) \/ Secure(k, r.boundary)
           /\ rec.lost_power \/ t.torn \/ t.dropped \/ Explained(seg, r)

TailInv == /\ CursorInv /\ TailerExact /\ CorruptOnlyWhenOvertaken /\ ReaderInv(tail)
           /\ IF tail.phase = "stopped" THEN tail.run = <<>> /\ tail.buffer = <<>> ELSE PositionInv

\* Until the power fails, no boundary names more than its segment has.
NamedInv ==
  ~rec.lost_power =>
    \A i \in 1 .. last : valid_slot(Boundary(disk[i])) => Boundary(disk[i]).committed <= Len(disk[i].data)

CaptureInv == CaptureTypeOK /\ DiskInv /\ PendingInv /\ SafeInv /\ LogInv /\ NamedInv /\ TailInv

-----------------------------------------------------------------------------
(* Joined sequences. *)

LEMMA FlattenSteps ==
  ASSUME NEW S, NEW q \in Seq(Seq(S))
  PROVE  \E f \in [0 .. Len(q) -> Seq(S)] :
           /\ f[0] = <<>>
           /\ \A k \in 1 .. Len(q) : f[k] = f[k-1] \o q[k]
           /\ FlattenSeq(q) = f[Len(q)]
<1> DEFINE n == Len(q)
           T == Seq(S)
           P(g) == g = [i \in 1 .. n |-> IF i = 1 THEN q[i] ELSE g[i-1] \o q[i]]
           c == CHOOSE g : P(g)
           step == [k \in Nat |-> [a \in T |-> IF k \in 1 .. n THEN a \o q[k] ELSE a]]
<1>1. n \in Nat /\ <<>> \in T /\ \A k \in 1 .. n : q[k] \in T
  BY ElementOfSeq, EmptySeq
<1>2. CASE n = 0
  <2>1. q = <<>>
    BY <1>2, EmptySeq
  <2>2. FlattenSeq(q) = <<>>
    BY <2>1, <1>2 DEF FlattenSeq
  <2> DEFINE f == [k \in 0 .. n |-> <<>>]
  <2>3. f \in [0 .. n -> T] /\ f[0] = <<>> /\ f[n] = <<>>
    BY <1>1, <1>2
  <2>4. \A k \in 1 .. n : FALSE
    BY <1>2
  <2> HIDE DEF f
  <2> QED BY <2>2, <2>3, <2>4
<1>3. CASE n # 0
  <2>1. \A k \in 1 .. n : \A a \in T : a \o q[k] \in T
    BY <1>1, ConcatProperties
  <2>2. step \in [Nat -> [T -> T]]
    BY <2>1
  <2>3. PICK g \in [0 .. n -> T] : Steps(g, n, <<>>, step)
    <3> HIDE DEF step, T, n
    <3> QED BY <1>1, <2>2, StepsExist
  <2>4. \A k \in 1 .. n : g[k] = g[k-1] \o q[k] /\ k - 1 \in 0 .. n
    <3> SUFFICES ASSUME NEW k \in 1 .. n PROVE g[k] = g[k-1] \o q[k] /\ k - 1 \in 0 .. n
      OBVIOUS
    <3>1. k \in 0 .. n /\ k # 0 /\ k \in Nat /\ k - 1 \in 0 .. n
      BY <1>1
    <3>2. g[k] = step[k][g[k-1]]
      <4> HIDE DEF step
      <4> QED BY <2>3, <3>1 DEF Steps
    <3>3. g[k-1] \in T
      BY <2>3, <3>1
    <3> QED BY <3>1, <3>2, <3>3
  <2>5. g[0] = <<>>
    <3> HIDE DEF step
    <3> QED BY <2>3, <1>1 DEF Steps
  <2>6. P([i \in 1 .. n |-> g[i]])
    <3> DEFINE h == [i \in 1 .. n |-> g[i]]
    <3>1. ASSUME NEW i \in 1 .. n PROVE g[i] = IF i = 1 THEN q[i] ELSE h[i-1] \o q[i]
      <4>1. CASE i = 1
        <5>1. g[i] = g[i-1] \o q[i] /\ q[i] \in T
          BY <2>4, <1>1
        <5>2. g[i-1] = <<>>
          BY <2>5, <4>1
        <5> QED BY <5>1, <5>2, <4>1, ConcatEmptySeq
      <4>2. CASE i # 1
        <5>1. i - 1 \in 1 .. n
          BY <4>2, <1>1
        <5> QED BY <5>1, <4>2, <2>4
      <4> QED BY <4>1, <4>2
    <3> QED BY <3>1
  <2>7. P(c)
    <3> HIDE DEF P
    <3> QED BY <2>6
  <2>8. FlattenSeq(q) = c[n]
    BY <1>3 DEF FlattenSeq
  <2> HIDE DEF c
  <2> DEFINE f == [k \in 0 .. n |-> IF k = 0 THEN <<>> ELSE c[k]]
  <2>9. \A k \in 1 .. n : c[k] = IF k = 1 THEN q[k] ELSE c[k-1] \o q[k]
    BY <2>7
  <2>10. \A k \in 1 .. n : f[k] = f[k-1] \o q[k] /\ k - 1 \in 0 .. n
    <3> SUFFICES ASSUME NEW k \in 1 .. n PROVE f[k] = f[k-1] \o q[k] /\ k - 1 \in 0 .. n
      OBVIOUS
    <3>1. k \in 0 .. n /\ k - 1 \in 0 .. n /\ f[k] = c[k] /\ q[k] \in T
      BY <1>1
    <3>2. CASE k = 1
      BY <3>1, <3>2, <2>9, ConcatEmptySeq
    <3>3. CASE k # 1
      <4>1. f[k-1] = c[k-1]
        BY <3>1, <3>3
      <4> QED BY <4>1, <3>1, <3>3, <2>9
    <3> QED BY <3>1, <3>2, <3>3
  <2>11. f[0] = <<>> /\ f[n] = c[n]
    BY <1>1, <1>3
  <2> DEFINE B == {k \in 0 .. n : f[k] \in T}
  <2>12. 0 .. n \subseteq B
    <3>1. 0 \in B
      BY <2>11, <1>1
    <3>2. \A k \in 0 .. n : k < n /\ k \in B => k + 1 \in B
      <4> SUFFICES ASSUME NEW k \in 0 .. n, k < n, f[k] \in T PROVE k + 1 \in B
        OBVIOUS
      <4>1. k + 1 \in 1 .. n /\ (k + 1) - 1 = k /\ k + 1 \in 0 .. n
        BY <1>1
      <4>2. f[k+1] = f[k] \o q[k+1]
        BY <4>1, <2>10
      <4> HIDE DEF f
      <4> QED BY <4>1, <4>2, <2>1
    <3> HIDE DEF B
    <3> QED BY <3>1, <3>2, <1>1, InductUpTo
  <2>13. f \in [0 .. n -> T]
    <3>1. \A k \in 0 .. n : f[k] \in T
      BY <2>12
    <3> QED BY <3>1
  <2> QED BY <2>8, <2>10, <2>11, <2>13
<1> QED BY <1>2, <1>3

LEMMA FlattenTyped ==
  ASSUME NEW S, NEW q \in Seq(Seq(S))
  PROVE  FlattenSeq(q) \in Seq(S)
<1>1. PICK f \in [0 .. Len(q) -> Seq(S)] : FlattenSeq(q) = f[Len(q)]
  BY FlattenSteps
<1>2. Len(q) \in 0 .. Len(q)
  BY LenProperties
<1> QED BY <1>1, <1>2

LEMMA FlattenAppend ==
  ASSUME NEW S, NEW q \in Seq(Seq(S)), NEW s \in Seq(S)
  PROVE  FlattenSeq(Append(q, s)) = FlattenSeq(q) \o s
<1> DEFINE n == Len(q)
           r == Append(q, s)
<1>1. r \in Seq(Seq(S)) /\ Len(r) = n + 1 /\ n \in Nat /\ r[n+1] = s /\ \A k \in 1 .. n : r[k] = q[k]
  BY AppendProperties, LenProperties
<1> HIDE DEF r
<1>2. PICK f \in [0 .. n -> Seq(S)] :
        /\ f[0] = <<>> /\ (\A k \in 1 .. n : f[k] = f[k-1] \o q[k]) /\ FlattenSeq(q) = f[n]
  BY FlattenSteps
<1>3. PICK g \in [0 .. n + 1 -> Seq(S)] :
        /\ g[0] = <<>> /\ (\A k \in 1 .. n + 1 : g[k] = g[k-1] \o r[k]) /\ FlattenSeq(r) = g[n+1]
  <2>1. \E g \in [0 .. Len(r) -> Seq(S)] :
          g[0] = <<>> /\ (\A k \in 1 .. Len(r) : g[k] = g[k-1] \o r[k]) /\ FlattenSeq(r) = g[Len(r)]
    BY <1>1, FlattenSteps
  <2>2. Len(r) = n + 1
    BY <1>1
  <2> HIDE DEF n
  <2> QED BY <2>1, <2>2
<1> DEFINE B == {k \in 0 .. n : f[k] = g[k]}
<1>4. 0 .. n \subseteq B
  <2>1. 0 \in B
    BY <1>1, <1>2, <1>3
  <2>2. \A k \in 0 .. n : k < n /\ k \in B => k + 1 \in B
    <3> SUFFICES ASSUME NEW k \in 0 .. n, k < n, f[k] = g[k] PROVE k + 1 \in B
      OBVIOUS
    <3>1. k + 1 \in 1 .. n /\ k + 1 \in 1 .. n + 1 /\ (k + 1) - 1 = k /\ k + 1 \in 0 .. n
      BY <1>1
    <3>2. f[k+1] = f[k] \o q[k+1] /\ g[k+1] = g[k] \o q[k+1]
      BY <1>1, <1>2, <1>3, <3>1
    <3> QED BY <3>1, <3>2
  <2> HIDE DEF B
  <2> QED BY <2>1, <2>2, <1>1, InductUpTo
<1>5. f[n] = g[n] /\ n + 1 \in 1 .. n + 1 /\ (n + 1) - 1 = n
  <2>1. n \in 0 .. n
    BY <1>1
  <2>2. n \in B
    BY <1>4, <2>1
  <2> QED BY <2>2, <1>1
<1> QED BY <1>1, <1>2, <1>3, <1>5 DEF r

-----------------------------------------------------------------------------
(* Segments. *)

LEMMA SelectFacts ==
  ASSUME NEW m \in Sidecar
  PROVE  /\ select_boundary(m) \in Slot
         /\ valid_slot(select_boundary(m)) <=> valid_slot(m[1]) \/ valid_slot(m[2])
         /\ valid_slot(select_boundary(m)) =>
              /\ select_boundary(m) = m[1] \/ select_boundary(m) = m[2]
              /\ select_boundary(m).generation >= m[1].generation
              /\ select_boundary(m).generation >= m[2].generation
<1> DEFINE valid == {i \in {1, 2} : valid_slot(m[i])}
           best == CHOOSE i \in valid : \A j \in valid : m[i].generation >= m[j].generation
<1>1. m[1] \in Slot /\ m[2] \in Slot /\ BadSlot \in Slot /\ ~valid_slot(BadSlot)
  BY DEF Sidecar, Slot, BadSlot, valid_slot
<1>2. CASE valid = {}
  BY <1>1, <1>2 DEF select_boundary
<1>3. CASE valid # {}
  <2>1. \E i \in valid : \A j \in valid : m[i].generation >= m[j].generation
    BY <1>1, <1>3 DEF Slot
  <2>2. best \in valid /\ \A j \in valid : m[best].generation >= m[j].generation
    BY <2>1
  <2>3. select_boundary(m) = m[best]
    BY <1>3 DEF select_boundary
  <2> HIDE DEF best
  <2>4. best \in {1, 2} /\ valid_slot(m[best])
    BY <2>2
  <2>5. \A j \in {1, 2} : m[best].generation >= m[j].generation
    BY <2>2, <2>4, <1>1 DEF valid_slot, Slot
  <2> QED BY <1>1, <2>3, <2>4, <2>5
<1> QED BY <1>2, <1>3

LEMMA SlotFacts ==
  ASSUME NEW g \in Nat
  PROVE  /\ SlotOf(g) \in {1, 2} /\ SlotOf(g + 1) \in {1, 2}
         /\ 3 - SlotOf(g) = SlotOf(g + 1) /\ 3 - SlotOf(g + 1) = SlotOf(g)
         /\ SlotOf(g) # SlotOf(g + 1)
BY DEF SlotOf

LEMMA NamedBoundary ==
  ASSUME NEW m \in Sidecar, NEW g \in Nat, NEW n \in Nat, Named(m, g, n)
  PROVE  valid_slot(select_boundary(m)) /\ select_boundary(m).committed = n
<1>1. SlotOf(g) \in {1, 2}
  BY SlotFacts
<1>2. m[1] \in Slot /\ m[2] \in Slot
  BY DEF Sidecar
<1>3. PICK i \in {1, 2} : i = SlotOf(g)
  BY <1>1
<1>4. CASE i = 1
  <2>1. 3 - SlotOf(g) = 2
    BY <1>3, <1>4
  <2> QED BY <1>2, <1>3, <1>4, <2>1, SelectFacts DEF Named, valid_slot, Slot
<1>5. CASE i = 2
  <2>1. 3 - SlotOf(g) = 1
    BY <1>3, <1>5
  <2> QED BY <1>2, <1>3, <1>5, <2>1, SelectFacts DEF Named, valid_slot, Slot
<1> QED BY <1>4, <1>5

LEMMA ValidPrefixFacts ==
  ASSUME NEW seg \in Segment, NEW b \in Nat
  PROVE  /\ ValidPrefix(seg, b) \in Seq(Frame)
         /\ Len(ValidPrefix(seg, b)) <= b /\ Len(ValidPrefix(seg, b)) <= Len(seg.data)
         /\ ValidPrefix(seg, b) = SubSeq(seg.data, 1, Len(ValidPrefix(seg, b)))
         /\ \A i \in 1 .. Len(ValidPrefix(seg, b)) :
              ValidPrefix(seg, b)[i] = seg.data[i] /\ IsRecord(seg.data[i])
         /\ \A k \in Nat : k <= b /\ k <= Len(seg.data) /\ Whole(seg.data, k)
                           => k <= Len(ValidPrefix(seg, b))
<1> DEFINE limit == Smaller(b, Len(seg.data))
           bad == {i \in 1 .. limit : ~IsRecord(seg.data[i])}
           n == IF bad = {} THEN limit ELSE Min(bad) - 1
<1>1. seg.data \in Seq(Frame) /\ Len(seg.data) \in Nat
  BY LenProperties DEF Segment
<1>2. limit \in Nat /\ limit <= b /\ limit <= Len(seg.data) /\ (limit = b \/ limit = Len(seg.data))
  BY <1>1 DEF Smaller
<1>3. n \in Nat /\ n <= limit /\ (\A i \in 1 .. n : IsRecord(seg.data[i]))
      /\ (n < limit => ~IsRecord(seg.data[n+1]))
  <2> HIDE DEF limit
  <2>1. CASE bad = {}
    BY <2>1, <1>2
  <2>2. CASE bad # {}
    <3>1. bad \in SUBSET Nat
      BY <1>2
    <3> HIDE DEF bad
    <3>2. Min(bad) \in bad /\ \A y \in bad : Min(bad) <= y
      BY <2>2, <3>1, MinOf
    <3> DEFINE k == Min(bad)
    <3> HIDE DEF k
    <3>3. k \in 1 .. limit /\ ~IsRecord(seg.data[k])
      BY <3>2 DEF bad, k
    <3>4. n = k - 1
      BY <2>2 DEF k
    <3>5. \A i \in 1 .. limit : i < k => IsRecord(seg.data[i])
      BY <3>2, <3>3, <1>2 DEF bad, k
    <3> QED BY <3>3, <3>4, <3>5, <1>2
  <2> QED BY <2>1, <2>2
<1>4. ValidPrefix(seg, b) = SubSeq(seg.data, 1, n)
  BY DEF ValidPrefix
<1> HIDE DEF n, limit, bad
<1>5. /\ SubSeq(seg.data, 1, n) \in Seq(Frame) /\ Len(SubSeq(seg.data, 1, n)) = n
      /\ \A i \in 1 .. n : SubSeq(seg.data, 1, n)[i] = seg.data[i]
  BY <1>1, <1>2, <1>3
<1>6. \A k \in Nat : k <= b /\ k <= Len(seg.data) /\ Whole(seg.data, k) => k <= n
  <2> SUFFICES ASSUME NEW k \in Nat, k <= b, k <= Len(seg.data), Whole(seg.data, k), n < k PROVE FALSE
    BY <1>3
  <2>1. n + 1 \in 1 .. k /\ n < limit
    BY <1>2, <1>3
  <2> QED BY <2>1, <1>3 DEF Whole
<1> QED BY <1>2, <1>3, <1>4, <1>5, <1>6, <1>1

\* The number of frames a reader may take from the segment.
LEMMA LimitFacts ==
  ASSUME NEW seg \in Segment
  PROVE  /\ Limit(seg) \in Nat /\ Limit(seg) <= Len(seg.data)
         /\ Boundary(seg) \in Slot
         /\ valid_slot(Boundary(seg)) => Limit(seg) = Smaller(Boundary(seg).committed, Len(seg.data))
         /\ ~valid_slot(Boundary(seg)) => Limit(seg) = Len(seg.data)
<1>1. seg.data \in Seq(Frame) /\ Len(seg.data) \in Nat /\ seg.meta \in Sidecar
  BY LenProperties DEF Segment
<1>2. Boundary(seg) \in Slot
  BY <1>1, SelectFacts DEF Boundary
<1> QED BY <1>1, <1>2 DEF Limit, resolve_boundary, Boundary, Slot, Smaller

LEMMA ReadableFacts ==
  ASSUME NEW seg \in Segment
  PROVE  /\ Readable(seg) \in Seq(Frame) /\ Len(Readable(seg)) <= Len(seg.data)
         /\ Readable(seg) = SubSeq(seg.data, 1, Len(Readable(seg)))
         /\ \A i \in 1 .. Len(Readable(seg)) : Readable(seg)[i] = seg.data[i] /\ IsRecord(seg.data[i])
         /\ ~seg.header => Readable(seg) = <<>>
         /\ seg.header => Readable(seg) = ReadAll(seg).records /\ Len(Readable(seg)) <= Limit(seg)
         /\ ReadAll(seg).records \in Seq(Frame)
<1>1. seg.data \in Seq(Frame) /\ Len(seg.data) \in Nat
  BY LenProperties DEF Segment
<1>2. ReadAll(seg).records = ValidPrefix(seg, Limit(seg))
  BY DEF ReadAll, next, Limit
<1>3. CASE seg.header
  <2>1. Readable(seg) = ReadAll(seg).records
    BY <1>3 DEF Readable, open_ok
  <2> QED BY <1>2, <1>3, <2>1, LimitFacts, ValidPrefixFacts
<1>4. CASE ~seg.header
  <2>1. Readable(seg) = <<>>
    BY <1>4 DEF Readable, open_ok
  <2>2. SubSeq(seg.data, 1, 0) = <<>>
    BY <1>1
  <2>3. ReadAll(seg).records \in Seq(Frame)
    BY <1>2, LimitFacts, ValidPrefixFacts
  <2> QED BY <2>1, <2>2, <2>3, <1>1, <1>4, EmptySeq
<1> QED BY <1>3, <1>4 DEF Segment

\* A segment whose first n frames are whole and whose boundary names them, or all.
LEMMA ReadableExactly ==
  ASSUME NEW seg \in Segment, seg.header, NEW n \in Nat, Limit(seg) = n, Whole(seg.data, n)
  PROVE  Readable(seg) = SubSeq(seg.data, 1, n) /\ Len(Readable(seg)) = n /\ ReadAll(seg).clean
<1>1. n <= Len(seg.data) /\ Len(seg.data) \in Nat
  BY LimitFacts, LenProperties DEF Segment
<1>2. ReadAll(seg).records = ValidPrefix(seg, n)
  BY DEF ReadAll, next, Limit
<1>3. Len(ValidPrefix(seg, n)) <= n /\ n <= Len(ValidPrefix(seg, n))
  BY <1>1, ValidPrefixFacts
<1>4. Readable(seg) = ValidPrefix(seg, n)
  BY <1>2, ReadableFacts
<1>5. Len(ValidPrefix(seg, n)) \in Nat
  BY ValidPrefixFacts, LenProperties
<1>6. Len(ValidPrefix(seg, n)) = n
  BY <1>3, <1>5
<1>7. ReadAll(seg).clean
  BY <1>2, <1>6 DEF ReadAll, next, Limit
<1> QED BY <1>4, <1>6, <1>7, ValidPrefixFacts

LEMMA ReadableClosed ==
  ASSUME NEW seg \in Segment, Closed(seg)
  PROVE  Readable(seg) = seg.data /\ ReadAll(seg).clean /\ Limit(seg) = Len(seg.data)
<1>1. seg.data \in Seq(Frame) /\ Len(seg.data) \in Nat
  BY LenProperties DEF Segment
<1>2. Limit(seg) = Len(seg.data)
  BY <1>1, LimitFacts DEF Closed, Smaller, Slot
<1>3. SubSeq(seg.data, 1, Len(seg.data)) = seg.data
  BY <1>1
<1> QED BY <1>1, <1>2, <1>3, ReadableExactly DEF Closed

LEMMA ReadableSteady ==
  ASSUME NEW seg \in Segment, Steady(seg)
  PROVE  /\ seg.header => ReadAll(seg).clean
         /\ ~valid_slot(Boundary(seg)) => Readable(seg) = <<>>
         /\ valid_slot(Boundary(seg)) =>
              /\ Readable(seg) = SubSeq(seg.data, 1, Boundary(seg).committed)
              /\ Len(Readable(seg)) = Boundary(seg).committed
<1>1. seg.data \in Seq(Frame) /\ Len(seg.data) \in Nat /\ Boundary(seg) \in Slot
  BY LimitFacts, LenProperties DEF Segment
<1>2. CASE valid_slot(Boundary(seg))
  <2> DEFINE n == Boundary(seg).committed
  <2>1. n \in Nat /\ n <= Len(seg.data) /\ Whole(seg.data, n) /\ seg.header
    BY <1>1, <1>2 DEF Steady, Slot
  <2>2. Limit(seg) = n
    BY <1>1, <1>2, <2>1, LimitFacts DEF Smaller
  <2> QED BY <1>2, <2>1, <2>2, ReadableExactly
<1>3. CASE ~valid_slot(Boundary(seg))
  <2>1. seg.data = <<>>
    BY <1>3 DEF Steady
  <2>2. Len(seg.data) = 0 /\ Whole(seg.data, 0)
    BY <2>1 DEF Whole
  <2>3. Limit(seg) = 0
    BY <1>3, <2>2, LimitFacts
  <2>4. Len(Readable(seg)) <= 0 /\ Readable(seg) \in Seq(Frame)
    BY <2>2, ReadableFacts
  <2>5. Readable(seg) = <<>>
    BY <2>4, EmptySeq, LenProperties
  <2>6. seg.header => ReadAll(seg).clean
    BY <2>2, <2>3, ReadableExactly
  <2> QED BY <2>5, <2>6, <1>3
<1> QED BY <1>2, <1>3

LEMMA WritingFacts ==
  ASSUME NEW seg \in Segment, NEW g \in Nat, NEW n \in Nat, Writing(seg, g, n)
  PROVE  /\ Steady(seg) /\ valid_slot(Boundary(seg)) /\ Boundary(seg).committed = n
         /\ Readable(seg) = SubSeq(seg.data, 1, n) /\ Len(Readable(seg)) = n
<1>1. seg.meta \in Sidecar
  BY DEF Segment
<1>2. valid_slot(Boundary(seg)) /\ Boundary(seg).committed = n
  BY <1>1, NamedBoundary DEF Writing, Boundary
<1>3. Steady(seg)
  BY <1>2 DEF Writing, Steady
<1> QED BY <1>2, <1>3, ReadableSteady

-----------------------------------------------------------------------------
(* The log of all segments. *)

LEMMA ReadSeq ==
  ASSUME NEW d \in Seq(Segment)
  PROVE  [i \in 1 .. Len(d) |-> Readable(d[i])] \in Seq(Seq(Frame))
<1>1. Len(d) \in Nat /\ \A i \in 1 .. Len(d) : d[i] \in Segment
  BY ElementOfSeq, LenProperties
<1>2. \A i \in 1 .. Len(d) : Readable(d[i]) \in Seq(Frame)
  BY <1>1, ReadableFacts
<1> QED BY <1>1, <1>2

LEMMA RecordedTyped ==
  ASSUME NEW d \in Seq(Segment)
  PROVE  Recorded(d) \in Seq(Frame) /\ Len(Recorded(d)) \in Nat
BY ReadSeq, FlattenTyped, LenProperties DEF Recorded

LEMMA RecordedNone == Recorded(<<>>) = <<>>
<1>1. <<>> \in Seq(Segment) /\ Len(<<>>) = 0
  BY EmptySeq
<1>2. [i \in 1 .. 0 |-> Readable(<<>>[i])] = <<>>
  <2>1. [i \in 1 .. 0 |-> Readable(<<>>[i])] \in Seq(Seq(Frame))
    BY <1>1, ReadSeq
  <2>2. Len([i \in 1 .. 0 |-> Readable(<<>>[i])]) = 0
    OBVIOUS
  <2> QED BY <2>1, <2>2, EmptySeq
<1> QED BY <1>1, <1>2 DEF Recorded, FlattenSeq

LEMMA RecordedAppend ==
  ASSUME NEW d \in Seq(Segment), NEW s \in Segment
  PROVE  Recorded(Append(d, s)) = Recorded(d) \o Readable(s)
<1> DEFINE e == Append(d, s)
           q == [i \in 1 .. Len(d) |-> Readable(d[i])]
           r == [i \in 1 .. Len(e) |-> Readable(e[i])]
<1>1. /\ e \in Seq(Segment) /\ Len(e) = Len(d) + 1 /\ Len(d) \in Nat /\ e[Len(d)+1] = s
      /\ \A i \in 1 .. Len(d) : e[i] = d[i]
  BY AppendProperties, LenProperties
<1> HIDE DEF e
<1>2. q \in Seq(Seq(Frame)) /\ r \in Seq(Seq(Frame)) /\ Readable(s) \in Seq(Frame)
  BY <1>1, ReadSeq, ReadableFacts
<1>3. r = Append(q, Readable(s))
  <2>1. Len(q) = Len(d) /\ Len(r) = Len(d) + 1
    BY <1>1
  <2>2. \A i \in 1 .. Len(d) : r[i] = q[i]
    BY <1>1
  <2>3. r[Len(d)+1] = Readable(s)
    BY <1>1
  <2>4. /\ Append(q, Readable(s)) \in Seq(Seq(Frame)) /\ Len(Append(q, Readable(s))) = Len(d) + 1
        /\ Append(q, Readable(s))[Len(d)+1] = Readable(s)
        /\ \A i \in 1 .. Len(d) : Append(q, Readable(s))[i] = q[i]
    <3> HIDE DEF q
    <3> QED BY <1>2, <2>1, AppendProperties
  <2> DEFINE a == Append(q, Readable(s))
  <2> HIDE DEF q, r, a
  <2>5. \A i \in 1 .. Len(d) + 1 : r[i] = a[i]
    <3> SUFFICES ASSUME NEW i \in 1 .. Len(d) + 1 PROVE r[i] = a[i]
      OBVIOUS
    <3>1. i \in 1 .. Len(d) \/ i = Len(d) + 1
      BY <1>1
    <3> QED BY <3>1, <2>2, <2>3, <2>4 DEF a
  <2>6. r = a
    BY <1>2, <2>1, <2>4, <2>5, SeqEqual DEF a
  <2> QED BY <2>6 DEF a
<1>4. FlattenSeq(r) = FlattenSeq(q) \o Readable(s)
  <2> HIDE DEF q, r
  <2> QED BY <1>2, <1>3, FlattenAppend
<1> QED BY <1>4 DEF Recorded, e

LEMMA RecordedSame ==
  ASSUME NEW d \in Seq(Segment), NEW e \in Seq(Segment), Len(d) = Len(e),
         \A i \in 1 .. Len(d) : Readable(d[i]) = Readable(e[i])
  PROVE  Recorded(d) = Recorded(e)
<1>1. [i \in 1 .. Len(d) |-> Readable(d[i])] = [i \in 1 .. Len(e) |-> Readable(e[i])]
  OBVIOUS
<1> QED BY <1>1 DEF Recorded

\* The log of the first k segments.
LEMMA RecordedFirst ==
  ASSUME NEW d \in Seq(Segment), NEW k \in 0 .. Len(d)
  PROVE  /\ SubSeq(d, 1, k) \in Seq(Segment) /\ Len(SubSeq(d, 1, k)) = k
         /\ \A i \in 1 .. k : SubSeq(d, 1, k)[i] = d[i]
         /\ k < Len(d) => Recorded(SubSeq(d, 1, k + 1)) = Recorded(SubSeq(d, 1, k)) \o Readable(d[k+1])
<1>1. Len(d) \in Nat /\ \A i \in 1 .. Len(d) : d[i] \in Segment
  BY ElementOfSeq, LenProperties
<1>2. \A n \in 0 .. Len(d) : /\ SubSeq(d, 1, n) \in Seq(Segment) /\ Len(SubSeq(d, 1, n)) = n
                             /\ \A i \in 1 .. n : SubSeq(d, 1, n)[i] = d[i]
  BY <1>1
<1>3. ASSUME k < Len(d)
      PROVE  Recorded(SubSeq(d, 1, k + 1)) = Recorded(SubSeq(d, 1, k)) \o Readable(d[k+1])
  <2>1. k + 1 \in 0 .. Len(d) /\ k + 1 \in 1 .. Len(d) /\ k \in Nat
    BY <1>1, <1>3
  <2> DEFINE s == SubSeq(d, 1, k)
             t == SubSeq(d, 1, k + 1)
             a == Append(s, d[k+1])
  <2>2. s \in Seq(Segment) /\ Len(s) = k /\ t \in Seq(Segment) /\ Len(t) = k + 1 /\ d[k+1] \in Segment
        /\ (\A i \in 1 .. k : s[i] = d[i]) /\ (\A i \in 1 .. k + 1 : t[i] = d[i])
    BY <1>1, <1>2, <2>1
  <2> HIDE DEF s, t
  <2>3. /\ a \in Seq(Segment) /\ Len(a) = k + 1 /\ a[k+1] = d[k+1]
        /\ \A i \in 1 .. k : a[i] = s[i]
    BY <2>1, <2>2, AppendProperties
  <2>4. Recorded(a) = Recorded(s) \o Readable(d[k+1])
    BY <2>2, RecordedAppend
  <2> HIDE DEF a
  <2>5. \A i \in 1 .. k + 1 : t[i] = a[i]
    <3> SUFFICES ASSUME NEW i \in 1 .. k + 1 PROVE t[i] = a[i]
      OBVIOUS
    <3>1. i \in 1 .. k \/ i = k + 1
      BY <2>1
    <3> QED BY <3>1, <2>2, <2>3
  <2>6. t = a
    BY <2>2, <2>3, <2>5, SeqEqual
  <2> QED BY <2>4, <2>6 DEF s, t
<1> QED BY <1>2, <1>3

\* A segment's records lie in the log behind those of the segments before it.
LEMMA RecordedWithin ==
  ASSUME NEW d \in Seq(Segment), NEW c \in 1 .. Len(d)
  PROVE  LET b == Len(Recorded(SubSeq(d, 1, c - 1)))
             n == Len(Readable(d[c]))
         IN  /\ b \in Nat /\ n \in Nat /\ b + n <= Len(Recorded(d))
             /\ \A j \in 1 .. n : Recorded(d)[b+j] = Readable(d[c])[j]
             /\ b + n = Len(Recorded(SubSeq(d, 1, c)))
<1> DEFINE R(k) == Recorded(SubSeq(d, 1, k))
           b == Len(R(c - 1))
           r == Readable(d[c])
           n == Len(r)
<1>0. Len(d) \in Nat /\ (\A i \in 1 .. Len(d) : d[i] \in Segment) /\ c \in Nat /\ c - 1 \in 0 .. Len(d)
  BY ElementOfSeq, LenProperties
<1>1. \A k \in 0 .. Len(d) : R(k) \in Seq(Frame) /\ Len(R(k)) \in Nat
  BY RecordedFirst, RecordedTyped
<1>2. \A k \in 0 .. Len(d) : k < Len(d) => R(k + 1) = R(k) \o Readable(d[k+1])
  BY RecordedFirst
<1>3. \A k \in 1 .. Len(d) : Readable(d[k]) \in Seq(Frame) /\ Len(Readable(d[k])) \in Nat
  BY <1>0, ReadableFacts, LenProperties
<1>4. R(Len(d)) = Recorded(d)
  <2>1. SubSeq(d, 1, Len(d)) = d
    BY <1>0
  <2> QED BY <2>1
<1> HIDE DEF R
<1>5. b \in Nat /\ n \in Nat /\ r \in Seq(Frame)
  BY <1>0, <1>1, <1>3
<1>6. R(c) = R(c - 1) \o r
  <2>1. c - 1 < Len(d) /\ (c - 1) + 1 = c
    BY <1>0
  <2>2. R((c - 1) + 1) = R(c - 1) \o Readable(d[(c-1)+1])
    BY <1>0, <1>2, <2>1
  <2> QED BY <2>1, <2>2
<1>7. Len(R(c)) = b + n /\ \A j \in 1 .. n : R(c)[b+j] = r[j]
  <2>1. R(c - 1) \in Seq(Frame)
    BY <1>0, <1>1
  <2> HIDE DEF r
  <2>2. Len(R(c - 1) \o r) = b + n
    BY <2>1, <1>5, ConcatProperties
  <2>3. \A j \in 1 .. n : (R(c - 1) \o r)[b+j] = r[j]
    <3> SUFFICES ASSUME NEW j \in 1 .. n PROVE (R(c - 1) \o r)[b+j] = r[j]
      OBVIOUS
    <3>1. b + j \in 1 .. b + n /\ ~(b + j <= b) /\ (b + j) - b = j
      BY <1>5
    <3> HIDE DEF b, n
    <3> QED BY <2>1, <1>5, <3>1, ConcatProperties DEF b, n
  <2> QED BY <2>2, <2>3, <1>6
<1> DEFINE B == {m \in 0 .. Len(d) - c : /\ b + n <= Len(R(c + m))
                                          /\ \A j \in 1 .. n : R(c + m)[b+j] = r[j]}
<1>8. 0 .. Len(d) - c \subseteq B
  <2>1. 0 \in B
    BY <1>0, <1>5, <1>7
  <2>2. \A m \in 0 .. Len(d) - c : m < Len(d) - c /\ m \in B => m + 1 \in B
    <3> SUFFICES ASSUME NEW m \in 0 .. Len(d) - c, m < Len(d) - c, m \in B PROVE m + 1 \in B
      OBVIOUS
    <3> DEFINE k == c + m
    <3>1. k \in 0 .. Len(d) /\ k < Len(d) /\ k + 1 \in 1 .. Len(d) /\ c + (m + 1) = k + 1
      BY <1>0
    <3>2. R(k + 1) = R(k) \o Readable(d[k+1])
      BY <1>2, <3>1
    <3>3. R(k) \in Seq(Frame) /\ Len(R(k)) \in Nat /\ Readable(d[k+1]) \in Seq(Frame) /\ Len(Readable(d[k+1])) \in Nat
      BY <1>1, <1>3, <3>1
    <3>4. b + n <= Len(R(k)) /\ \A j \in 1 .. n : R(k)[b+j] = r[j]
      OBVIOUS
    <3> HIDE DEF k, b, n, r
    <3>5. Len(R(k + 1)) = Len(R(k)) + Len(Readable(d[k+1]))
      BY <3>2, <3>3, ConcatProperties
    <3>6. \A i \in 1 .. Len(R(k)) : R(k + 1)[i] = R(k)[i]
      <4> SUFFICES ASSUME NEW i \in 1 .. Len(R(k)) PROVE R(k + 1)[i] = R(k)[i]
        OBVIOUS
      <4>1. i \in 1 .. Len(R(k)) + Len(Readable(d[k+1])) /\ i <= Len(R(k))
        BY <3>3
      <4> QED BY <3>2, <3>3, <4>1, ConcatProperties
    <3>7. \A j \in 1 .. n : R(k + 1)[b+j] = r[j]
      <4> SUFFICES ASSUME NEW j \in 1 .. n PROVE R(k + 1)[b+j] = r[j]
        OBVIOUS
      <4>1. b + j \in 1 .. Len(R(k))
        BY <1>5, <3>3, <3>4
      <4> QED BY <4>1, <3>4, <3>6
    <3>8. b + n <= Len(R(k + 1))
      BY <1>5, <3>3, <3>4, <3>5
    <3>9. m + 1 \in 0 .. Len(d) - c
      BY <1>0
    <3> QED BY <3>1, <3>7, <3>8, <3>9
  <2> HIDE DEF B
  <2>3. Len(d) - c \in Nat
    BY <1>0
  <2> QED BY <2>1, <2>2, <2>3, InductUpTo
<1>9. Len(d) - c \in 0 .. Len(d) - c /\ c + (Len(d) - c) = Len(d)
  BY <1>0
<1>10. b + n <= Len(R(Len(d))) /\ \A j \in 1 .. n : R(Len(d))[b+j] = r[j]
  BY <1>8, <1>9
<1>11. b + n = Len(R(c))
  BY <1>7
<1> QED BY <1>4, <1>5, <1>10, <1>11 DEF R

-----------------------------------------------------------------------------
(* Types. *)

LEMMA TypedFacts ==
  ASSUME CaptureTypeOK
  PROVE  /\ last \in Nat /\ disk \in Seq(Segment) /\ rec \in Recorder /\ tail \in Tailer
         /\ \A i \in 1 .. last : disk[i] \in Segment
         /\ disk # <<>> => last \in 1 .. last /\ last > 0 /\ current \in Segment
         /\ disk = <<>> => last = 0
         /\ jobs \in Seq(1 .. last)
<1>1. disk \in Seq(Segment) /\ Len(disk) \in Nat
  BY LenProperties DEF CaptureTypeOK
<1>2. \A i \in 1 .. Len(disk) : disk[i] \in Segment
  BY <1>1, ElementOfSeq
<1>3. disk # <<>> => Len(disk) > 0
  BY <1>1, EmptySeq
<1>4. disk = <<>> => Len(disk) = 0
  OBVIOUS
<1> QED BY <1>1, <1>2, <1>3, <1>4 DEF CaptureTypeOK, last, current

\* The last segment is replaced.
LEMMA PutLast ==
  ASSUME disk \in Seq(Segment), disk # <<>>, NEW s \in Segment, disk' = [disk EXCEPT ![last] = s]
  PROVE  /\ disk' \in Seq(Segment) /\ Len(disk') = Len(disk) /\ last' = last /\ disk' # <<>>
         /\ current' = s /\ disk'[last] = s /\ \A i \in 1 .. last : i # last => disk'[i] = disk[i]
<1>1. Len(disk) \in Nat /\ Len(disk) > 0 /\ \A i \in 1 .. Len(disk) : disk[i] \in Segment
  BY EmptySeq, LenProperties, ElementOfSeq
<1>2. disk' \in Seq(Segment) /\ Len(disk') = Len(disk)
  BY <1>1 DEF last
<1>3. Len(<<>>) = 0
  OBVIOUS
<1>4. disk' # <<>>
  BY <1>1, <1>2, <1>3
<1>5. disk'[last] = s /\ \A i \in 1 .. last : i # last => disk'[i] = disk[i]
  BY <1>1 DEF last
<1> QED BY <1>2, <1>4, <1>5 DEF last, current

LEMMA GoFacts ==
  ASSUME rec \in Recorder, NEW p \in RecorderPhases, Go(p)
  PROVE  /\ rec' \in Recorder /\ rec'.phase = p
         /\ rec'.session = rec.session /\ rec'.ts = rec.ts /\ rec'.last = rec.last
         /\ rec'.pending = rec.pending /\ rec'.generation = rec.generation
         /\ rec'.rotated = rec.rotated /\ rec'.lost_power = rec.lost_power
BY DEF Go, Recorder

LEMMA NewTyped ==
  /\ NoRecord \in Frame /\ Torn \in Frame /\ Zeros \in Frame /\ ~IsRecord(NoRecord) /\ ~IsRecord(Torn) /\ ~IsRecord(Zeros)
  /\ BadSlot \in Slot /\ NoMeta \in Sidecar /\ FirstSlots \in Sidecar /\ <<FirstSlots[1], BadSlot>> \in Sidecar
  /\ NewSegment \in Segment
<1>1. NoRecord \in Frame /\ Torn \in Frame /\ Zeros \in Frame /\ ~IsRecord(NoRecord) /\ ~IsRecord(Torn) /\ ~IsRecord(Zeros)
  BY DEF NoRecord, Torn, Zeros, FixedEvent, Frame, IsRecord
<1>2. BadSlot \in Slot /\ make_slot(1, 0) \in Slot /\ make_slot(2, 0) \in Slot
  BY DEF BadSlot, Slot, make_slot
<1>3. \A a, b \in Slot : <<a, b>> \in Sidecar
  BY DEF Sidecar
<1>4. NoMeta \in Sidecar /\ FirstSlots \in Sidecar /\ <<FirstSlots[1], BadSlot>> \in Sidecar
  BY <1>2, <1>3 DEF NoMeta, FirstSlots
<1>5. NewSegment \in Segment
  BY <1>4, EmptySeq DEF NewSegment, Segment, NoZst
<1> QED BY <1>1, <1>2, <1>4, <1>5

LEMMA StoppedFacts ==
  ASSUME rec \in Recorder
  PROVE  /\ Stopped \in Recorder /\ Stopped.phase = "down"
         /\ Stopped.session = rec.session /\ Stopped.ts = rec.ts /\ Stopped.last = 0
         /\ Stopped.pending = NoRecord /\ Stopped.generation = rec.generation
         /\ Stopped.rotated = 0 /\ Stopped.lost_power = rec.lost_power
<1>1. NoRecord \in Frame /\ "down" \in RecorderPhases
  BY NewTyped DEF RecorderPhases
<1> QED BY <1>1 DEF Stopped, Recorder

LEMMA TruncateFacts ==
  ASSUME NEW seg \in Segment, recoverable(seg), Closed(seg) \/ Unsealed(seg)
  PROVE  /\ truncate_to_valid(seg) \in Segment /\ Closed(truncate_to_valid(seg))
         /\ Readable(truncate_to_valid(seg)) = Readable(seg)
<1> DEFINE b == Boundary(seg).committed
           v == ValidPrefix(seg, b)
           new == truncate_to_valid(seg)
<1>1. seg.data \in Seq(Frame) /\ Len(seg.data) \in Nat /\ b \in Nat /\ seg.header /\ valid_slot(Boundary(seg))
  BY LimitFacts, LenProperties DEF Segment, Slot, recoverable, Boundary
<1>2. v \in Seq(Frame) /\ Len(v) <= b /\ Len(v) \in Nat /\ \A i \in 1 .. Len(v) : v[i] = seg.data[i] /\ IsRecord(seg.data[i])
  BY <1>1, ValidPrefixFacts, LenProperties
<1>3. new = [seg EXCEPT !.data = v, !.sealed = TRUE]
  BY DEF truncate_to_valid, Boundary
<1> HIDE DEF v, new
<1>4. new \in Segment /\ new.data = v /\ new.sealed /\ new.header /\ new.meta = seg.meta /\ new.zst = seg.zst
  BY <1>1, <1>2, <1>3 DEF Segment
<1>5. Readable(seg) = v
  <2>1. Limit(seg) = Smaller(b, Len(seg.data))
    BY <1>1, LimitFacts
  <2>2. Smaller(Smaller(b, Len(seg.data)), Len(seg.data)) = Smaller(b, Len(seg.data))
    BY <1>1 DEF Smaller
  <2>3. ValidPrefix(seg, Smaller(b, Len(seg.data))) = ValidPrefix(seg, b)
    BY <2>2 DEF ValidPrefix
  <2> QED BY <1>1, <2>1, <2>3 DEF Readable, open_ok, ReadAll, next, Limit, v
<1>6. seg.zst.present => seg.zst.data = v \/ seg.zst.exposed
  BY <1>5, ReadableClosed DEF Closed, Unsealed
<1>7. Closed(new)
  BY <1>1, <1>2, <1>4, <1>6 DEF Closed, Boundary, Whole
<1> QED BY <1>4, <1>5, <1>7, ReadableClosed DEF new

LEMMA SidecarFacts ==
  ASSUME NEW seg \in Segment, Closed(seg), NEW m \in Sidecar,
         valid_slot(select_boundary(m)) => select_boundary(m).committed >= Len(seg.data)
  PROVE  LET new == [seg EXCEPT !.meta = m]
         IN  new \in Segment /\ Closed(new) /\ Readable(new) = Readable(seg)
<1> DEFINE new == [seg EXCEPT !.meta = m]
<1>1. new \in Segment /\ new.data = seg.data /\ new.sealed = seg.sealed /\ new.header = seg.header
      /\ new.meta = m /\ new.zst = seg.zst
  BY DEF Segment
<1> HIDE DEF new
<1>2. Closed(new)
  BY <1>1 DEF Closed, Boundary
<1>3. Readable(new) = Readable(seg)
  BY <1>1, <1>2, ReadableClosed
<1> QED BY <1>1, <1>2, <1>3 DEF new

LEMMA RewriteFacts ==
  ASSUME NEW seg \in Segment, Closed(seg), NEW g \in Nat
  PROVE  /\ write_recovered_metadata(seg, g) \in Segment /\ Closed(write_recovered_metadata(seg, g))
         /\ Readable(write_recovered_metadata(seg, g)) = Readable(seg)
<1> DEFINE n == Len(seg.data)
           m == <<make_slot(g + 1, n), make_slot(g + 2, n)>>
<1>1. n \in Nat
  BY LenProperties DEF Segment
<1>2. make_slot(g + 1, n) \in Slot /\ make_slot(g + 2, n) \in Slot
  BY <1>1 DEF make_slot, Slot
<1>3. m \in Sidecar /\ m[1].committed = n /\ m[2].committed = n
  BY <1>1, <1>2 DEF Sidecar, make_slot
<1> HIDE DEF m
<1>4. valid_slot(select_boundary(m)) => select_boundary(m).committed >= n
  BY <1>1, <1>3, SelectFacts
<1>5. write_recovered_metadata(seg, g) = [seg EXCEPT !.meta = m]
  BY DEF write_recovered_metadata, m
<1> QED BY <1>3, <1>4, <1>5, SidecarFacts

LEMMA EmptyFacts ==
  ASSUME NEW seg \in Segment, Closed(seg)
  PROVE  LET new == [seg EXCEPT !.meta = NoMeta]
         IN  new \in Segment /\ Closed(new) /\ Readable(new) = Readable(seg)
<1>1. NoMeta \in Sidecar /\ ~valid_slot(NoMeta[1]) /\ ~valid_slot(NoMeta[2])
  BY NewTyped DEF NoMeta, BadSlot, valid_slot
<1> QED BY <1>1, SelectFacts, SidecarFacts

LEMMA CompressFacts ==
  ASSUME NEW seg \in Segment, Closed(seg)
  PROVE  /\ compress_closed_segment(seg) \in Segment /\ Closed(compress_closed_segment(seg))
         /\ Readable(compress_closed_segment(seg)) = Readable(seg)
<1> DEFINE new == compress_closed_segment(seg)
<1>1. new \in Segment /\ new.data = seg.data /\ new.sealed = seg.sealed /\ new.header = seg.header
      /\ new.meta = seg.meta /\ new.zst = [present |-> TRUE, data |-> seg.data, exposed |-> FALSE]
  BY DEF Segment, compress_closed_segment
<1> HIDE DEF new
<1>2. Closed(new)
  BY <1>1 DEF Closed, Boundary
<1> QED BY <1>1, <1>2, ReadableClosed DEF new

-----------------------------------------------------------------------------
(* The writer's changes to the last segment. *)

LEMMA SealFacts ==
  ASSUME NEW seg \in Segment, NEW g \in Nat, Writing(seg, g, Len(seg.data))
  PROVE  LET new == [seg EXCEPT !.sealed = TRUE]
         IN  new \in Segment /\ Closed(new) /\ Readable(new) = Readable(seg)
<1> DEFINE new == [seg EXCEPT !.sealed = TRUE]
           n == Len(seg.data)
<1>1. seg.data \in Seq(Frame) /\ n \in Nat
  BY LenProperties DEF Segment
<1>2. new \in Segment /\ new.data = seg.data /\ new.sealed /\ new.header = seg.header
      /\ new.meta = seg.meta /\ new.zst = seg.zst
  BY DEF Segment
<1>3. valid_slot(Boundary(seg)) /\ Boundary(seg).committed = n /\ Readable(seg) = SubSeq(seg.data, 1, n)
  BY <1>1, WritingFacts
<1>4. SubSeq(seg.data, 1, n) = seg.data
  BY <1>1
<1> HIDE DEF new
<1>5. Closed(new)
  BY <1>1, <1>2, <1>3 DEF Closed, Boundary, Writing, Unsealed
<1> QED BY <1>2, <1>3, <1>4, <1>5, ReadableClosed DEF new

LEMMA HalfAppendFacts ==
  ASSUME NEW seg \in Segment, NEW g \in Nat, Writing(seg, g, Len(seg.data)), NEW x \in Frame
  PROVE  LET new == [seg EXCEPT !.data = Append(@, x)]
         IN  /\ new \in Segment /\ Len(new.data) = Len(seg.data) + 1 /\ Writing(new, g, Len(seg.data))
             /\ new.meta = seg.meta /\ new.header = seg.header /\ new.sealed = seg.sealed
             /\ (\A i \in 1 .. Len(seg.data) : new.data[i] = seg.data[i])
             /\ Readable(new) = Readable(seg)
<1> DEFINE new == [seg EXCEPT !.data = Append(@, x)]
           n == Len(seg.data)
<1>1. seg.data \in Seq(Frame) /\ n \in Nat
  BY LenProperties DEF Segment
<1>2. /\ new \in Segment /\ new.data = Append(seg.data, x) /\ new.sealed = seg.sealed /\ new.header = seg.header
      /\ new.meta = seg.meta /\ new.zst = seg.zst
  BY <1>1, AppendProperties DEF Segment
<1> HIDE DEF new
<1>3. new.data \in Seq(Frame) /\ Len(new.data) = n + 1 /\ \A i \in 1 .. n : new.data[i] = seg.data[i]
  BY <1>1, <1>2, AppendProperties
<1>4. Writing(new, g, n)
  BY <1>1, <1>2, <1>3 DEF Writing, Unsealed, Whole
<1>5. Readable(seg) = SubSeq(seg.data, 1, n) /\ Readable(new) = SubSeq(new.data, 1, n)
  BY <1>1, <1>2, <1>4, WritingFacts
<1>6. SubSeq(seg.data, 1, n) = SubSeq(new.data, 1, n)
  BY <1>1, <1>3
<1> QED BY <1>2, <1>3, <1>4, <1>5, <1>6 DEF new

LEMMA AppendFacts ==
  ASSUME NEW seg \in Segment, NEW g \in Nat, NEW n \in Nat, Len(seg.data) = n + 1, Writing(seg, g, n), NEW x \in Frame
  PROVE  LET new == [seg EXCEPT !.data[Len(seg.data)] = x]
         IN  /\ new \in Segment /\ Len(new.data) = n + 1 /\ Writing(new, g, n) /\ new.data[n+1] = x
             /\ new.meta = seg.meta /\ new.header = seg.header /\ new.sealed = seg.sealed
             /\ (\A i \in 1 .. n : new.data[i] = seg.data[i])
             /\ Readable(new) = Readable(seg)
<1> DEFINE new == [seg EXCEPT !.data[Len(seg.data)] = x]
<1>1. seg.data \in Seq(Frame)
  BY DEF Segment
<1>2. /\ new \in Segment /\ new.data = [seg.data EXCEPT ![n+1] = x] /\ new.sealed = seg.sealed /\ new.header = seg.header
      /\ new.meta = seg.meta /\ new.zst = seg.zst
  <2> DEFINE d == [seg.data EXCEPT ![n+1] = x]
  <2>1. d \in Seq(Frame)
    BY <1>1
  <2>2. new = [seg EXCEPT !.data = d]
    OBVIOUS
  <2> HIDE DEF d, new
  <2>3. /\ new \in Segment /\ new.data = d /\ new.sealed = seg.sealed /\ new.header = seg.header
        /\ new.meta = seg.meta /\ new.zst = seg.zst
    BY <2>1, <2>2 DEF Segment
  <2> QED BY <2>3 DEF d
<1> HIDE DEF new
<1>3. /\ new.data \in Seq(Frame) /\ Len(new.data) = n + 1 /\ new.data[n+1] = x
      /\ \A i \in 1 .. n : new.data[i] = seg.data[i]
  BY <1>1, <1>2
<1>4. Writing(new, g, n)
  BY <1>1, <1>2, <1>3 DEF Writing, Unsealed, Whole
<1>5. Readable(seg) = SubSeq(seg.data, 1, n) /\ Readable(new) = SubSeq(new.data, 1, n)
  BY <1>1, <1>2, <1>4, WritingFacts
<1>6. SubSeq(seg.data, 1, n) = SubSeq(new.data, 1, n)
  BY <1>1, <1>3
<1> QED BY <1>2, <1>3, <1>4, <1>5, <1>6 DEF new

LEMMA TearFacts ==
  ASSUME NEW m \in Sidecar, NEW g \in Nat, NEW n \in Nat, Named(m, g, n)
  PROVE  LET new == [m EXCEPT ![SlotOf(g + 1)] = BadSlot] IN new \in Sidecar /\ Named(new, g, n)
<1> DEFINE new == [m EXCEPT ![SlotOf(g + 1)] = BadSlot]
<1>1. SlotOf(g) \in 1 .. 2 /\ SlotOf(g + 1) \in 1 .. 2 /\ 3 - SlotOf(g) = SlotOf(g + 1) /\ SlotOf(g) # SlotOf(g + 1)
  BY SlotFacts
<1>2. new \in Sidecar /\ new[SlotOf(g)] = m[SlotOf(g)] /\ new[SlotOf(g + 1)] = BadSlot
  BY <1>1, NewTyped DEF Sidecar
<1> HIDE DEF new
<1>3. Named(new, g, n)
  BY <1>1, <1>2 DEF Named, BadSlot
<1> QED BY <1>2, <1>3 DEF new

LEMMA PublishFacts ==
  ASSUME NEW m \in Sidecar, NEW g \in Nat, NEW n \in Nat, Named(m, g, n), NEW k \in Nat
  PROVE  LET new == [m EXCEPT ![SlotOf(g + 1)] = make_slot(g + 1, k)]
         IN  new \in Sidecar /\ Named(new, g + 1, k)
<1> DEFINE new == [m EXCEPT ![SlotOf(g + 1)] = make_slot(g + 1, k)]
<1>1. SlotOf(g) \in 1 .. 2 /\ SlotOf(g + 1) \in 1 .. 2 /\ 3 - SlotOf(g + 1) = SlotOf(g) /\ SlotOf(g) # SlotOf(g + 1)
  BY SlotFacts
<1>2. make_slot(g + 1, k) \in Slot /\ make_slot(g + 1, k).generation = g + 1 /\ make_slot(g + 1, k).committed = k
  BY DEF make_slot, Slot
<1>3. new \in Sidecar /\ new[SlotOf(g)] = m[SlotOf(g)] /\ new[SlotOf(g + 1)] = make_slot(g + 1, k) /\ m[SlotOf(g)] \in Slot
  BY <1>1, <1>2 DEF Sidecar
<1> HIDE DEF new
<1>4. Named(new, g + 1, k)
  BY <1>1, <1>2, <1>3 DEF Named, Slot
<1> QED BY <1>3, <1>4 DEF new

LEMMA RenamedFacts ==
  ASSUME NEW seg \in Segment, NEW g \in Nat, NEW h \in Nat, NEW n \in Nat, NEW k \in Nat, Writing(seg, g, n),
         NEW m \in Sidecar, Named(m, h, k), k <= Len(seg.data), Whole(seg.data, k)
  PROVE  LET new == [seg EXCEPT !.meta = m]
         IN  /\ new \in Segment /\ new.data = seg.data /\ new.meta = m /\ Writing(new, h, k)
             /\ new.header = seg.header /\ new.sealed = seg.sealed
             /\ Readable(new) = SubSeq(seg.data, 1, k)
<1> DEFINE new == [seg EXCEPT !.meta = m]
<1>1. /\ new \in Segment /\ new.data = seg.data /\ new.sealed = seg.sealed /\ new.header = seg.header
      /\ new.meta = m /\ new.zst = seg.zst
  BY DEF Segment
<1> HIDE DEF new
<1>2. Writing(new, h, k)
  BY <1>1 DEF Writing, Unsealed
<1>3. Readable(new) = SubSeq(new.data, 1, k)
  BY <1>1, <1>2, WritingFacts
<1> QED BY <1>1, <1>2, <1>3 DEF new

-----------------------------------------------------------------------------
(* Every step keeps the shape of the segments. *)

\* A step after which every segment reads as before.
SameLog == last' = last /\ \A i \in 1 .. last : Readable(disk'[i]) = Readable(disk[i])

\* What a step may do to the queue of compressions.
QueueStep ==
  /\ \/ jobs' = jobs
     \/ jobs' = <<>>
     \/ jobs # <<>> /\ jobs' = Tail(jobs)
     \/ rec.rotated # 0 /\ jobs' = Append(jobs, rec.rotated)
  /\ \/ rec'.rotated \in {0, rec.rotated}
     \/ rec'.rotated = last /\ disk # <<>> /\ Closed(disk'[last])
  /\ rec'.phase = "push" => rec'.rotated # 0

LEMMA QueueKept ==
  ASSUME CaptureTypeOK, QueueInv, disk' \in Seq(Segment), last' >= last, QueueStep,
         \A i \in 1 .. last : Closed(disk[i]) => Closed(disk'[i])
  PROVE  QueueInv' /\ jobs' \in Seq(1 .. last')
<1>1. last \in Nat /\ jobs \in Seq(1 .. last) /\ last' \in Nat /\ (disk # <<>> => last \in 1 .. last)
  BY TypedFacts, LenProperties DEF last
<1>2. \A j \in 1 .. Len(jobs) : jobs[j] \in 1 .. last /\ Closed(disk'[jobs[j]])
  BY <1>1, ElementOfSeq DEF QueueInv
<1>3. rec.rotated # 0 => rec.rotated \in 1 .. last /\ Closed(disk'[rec.rotated])
  BY DEF QueueInv
<1>4. jobs' \in Seq(1 .. last) /\ \A j \in 1 .. Len(jobs') : Closed(disk'[jobs'[j]])
  <2>1. CASE jobs' = jobs
    BY <1>1, <1>2, <2>1
  <2>2. CASE jobs' = <<>>
    BY <2>2, EmptySeq
  <2>3. CASE jobs # <<>> /\ jobs' = Tail(jobs)
    BY <1>1, <1>2, <2>3
  <2>4. CASE rec.rotated # 0 /\ jobs' = Append(jobs, rec.rotated)
    <3>1. /\ jobs' \in Seq(1 .. last) /\ Len(jobs') = Len(jobs) + 1 /\ Len(jobs) \in Nat
          /\ jobs'[Len(jobs)+1] = rec.rotated /\ \A j \in 1 .. Len(jobs) : jobs'[j] = jobs[j]
      BY <1>1, <1>3, <2>4, AppendProperties, LenProperties
    <3>2. \A j \in 1 .. Len(jobs') : j \in 1 .. Len(jobs) \/ j = Len(jobs) + 1
      BY <3>1
    <3> QED BY <3>1, <3>2, <1>2, <1>3, <2>4
  <2> QED BY <2>1, <2>2, <2>3, <2>4 DEF QueueStep
<1>5. jobs' \in Seq(1 .. last')
  <2>1. 1 .. last \subseteq 1 .. last'
    BY <1>1
  <2> QED BY <1>1, <1>4, <2>1
<1>6. rec'.rotated # 0 => rec'.rotated \in 1 .. last' /\ Closed(disk'[rec'.rotated])
  BY <1>1, <1>3 DEF QueueStep
<1> QED BY <1>4, <1>5, <1>6 DEF QueueInv, QueueStep

\* A step that does not touch the disk.
LEMMA QuietStep ==
  ASSUME CaptureTypeOK, DiskInv, disk' = disk, QueueStep,
         disk = <<>> => rec'.phase \in {"down", "create"}, disk # <<>> => CurrentInv'
  PROVE  disk' \in Seq(Segment) /\ DiskInv' /\ jobs' \in Seq(1 .. last') /\ SameLog
<1>1. last' = last /\ disk \in Seq(Segment) /\ last \in Nat
  BY TypedFacts DEF last
<1>2. QueueInv' /\ jobs' \in Seq(1 .. last')
  BY <1>1, QueueKept DEF DiskInv
<1> QED BY <1>1, <1>2 DEF DiskInv, SameLog

\* A step that changes the last segment.
LEMMA LastStep ==
  ASSUME CaptureTypeOK, DiskInv, disk # <<>>, NEW s \in Segment, disk' = [disk EXCEPT ![last] = s],
         QueueStep, Closed(current) => Closed(s), CurrentInv'
  PROVE  /\ disk' \in Seq(Segment) /\ DiskInv' /\ jobs' \in Seq(1 .. last') /\ last' = last
         /\ disk' # <<>> /\ current' = s /\ \A i \in 1 .. last : i # last => disk'[i] = disk[i]
         /\ Readable(s) = Readable(current) => SameLog
<1>1. last \in Nat /\ last > 0 /\ disk \in Seq(Segment)
  BY TypedFacts
<1>2. /\ disk' \in Seq(Segment) /\ Len(disk') = Len(disk) /\ last' = last /\ disk' # <<>>
      /\ current' = s /\ disk'[last] = s /\ \A i \in 1 .. last : i # last => disk'[i] = disk[i]
  BY <1>1, PutLast
<1>3. \A i \in 1 .. last : Closed(disk[i]) => Closed(disk'[i])
  BY <1>2 DEF current
<1>4. QueueInv' /\ jobs' \in Seq(1 .. last')
  BY <1>1, <1>2, <1>3, QueueKept DEF DiskInv
<1>5. \A i \in 1 .. last' - 1 : Closed(disk'[i])
  BY <1>1, <1>2 DEF DiskInv
<1>6. Readable(s) = Readable(current) => SameLog
  BY <1>2 DEF SameLog, current
<1> QED BY <1>1, <1>2, <1>4, <1>5, <1>6 DEF DiskInv

DiskGood == disk' \in Seq(Segment) /\ DiskInv' /\ jobs' \in Seq(1 .. last') /\ rec' \in Recorder

LEMMA CurrentSame ==
  ASSUME disk' = disk
  PROVE  last' = last /\ current' = current
BY DEF last, current

LEMMA StartDisk ==
  ASSUME CaptureTypeOK, DiskInv, Start
  PROVE  DiskGood /\ SameLog
<1>1. rec \in Recorder /\ last + 1 \in Nat
  BY TypedFacts
<1>2. disk' = disk /\ jobs' = jobs
  BY DEF Start
<1>3. /\ rec' \in Recorder /\ rec'.rotated = rec.rotated /\ rec'.generation = rec.generation
      /\ rec'.lost_power = rec.lost_power /\ rec'.phase = IF disk = <<>> THEN "create" ELSE "recover"
  BY <1>1 DEF Start, Recorder, RecorderPhases
<1>4. QueueStep
  BY <1>2, <1>3 DEF QueueStep
<1>5. disk # <<>> => CurrentInv'
  BY <1>2, <1>3, CurrentSame DEF Start, DiskInv, CurrentInv, Idle, Ready, Adding, Repairing
<1> QED BY <1>2, <1>3, <1>4, <1>5, QuietStep DEF DiskGood

LEMMA FailedDisk ==
  ASSUME CaptureTypeOK, DiskInv, Failed
  PROVE  DiskGood /\ SameLog
<1>1. rec \in Recorder /\ "down" \in RecorderPhases
  BY TypedFacts DEF RecorderPhases
<1>2. disk' = disk /\ jobs' = jobs /\ rec.phase = "failed" /\ Go("down")
  BY DEF Failed
<1>3. /\ rec' \in Recorder /\ rec'.rotated = rec.rotated /\ rec'.generation = rec.generation
      /\ rec'.lost_power = rec.lost_power /\ rec'.phase = "down"
  BY <1>1, <1>2, GoFacts
<1>4. QueueStep
  BY <1>2, <1>3 DEF QueueStep
<1>5. disk # <<>> => CurrentInv'
  BY <1>2, <1>3, CurrentSame DEF DiskInv, CurrentInv, Idle, Ready, Adding, Repairing
<1> QED BY <1>2, <1>3, <1>4, <1>5, QuietStep DEF DiskGood

\* Between two states in which the whole segment is committed.
LEMMA ReadyDisk ==
  ASSUME CaptureTypeOK, DiskInv, disk' = disk, rec' \in Recorder, QueueStep,
         rec.phase \in Ready, rec'.phase \in Ready, rec'.generation = rec.generation
  PROVE  DiskGood /\ SameLog
<1>1. disk # <<>>
  BY DEF DiskInv, Ready
<1>2. CurrentInv'
  <2>1. Writing(current, rec.generation, Len(current.data))
    BY <1>1 DEF DiskInv, CurrentInv
  <2> QED BY <2>1, CurrentSame DEF CurrentInv, Idle, Ready, Adding, Repairing
<1> QED BY <1>1, <1>2, QuietStep DEF DiskGood

LEMMA FeedDisk ==
  ASSUME CaptureTypeOK, DiskInv, Handshake \/ Ingest \/ EndOfStream \/ ExecutionWalWriter_append \/ NeedsNoRotation
  PROVE  DiskGood /\ SameLog
<1>1. rec \in Recorder /\ Ready \subseteq RecorderPhases
  BY TypedFacts DEF Ready, RecorderPhases
<1>2. disk' = disk /\ jobs' = jobs
  BY DEF Handshake, Ingest, EndOfStream, ExecutionWalWriter_append, NeedsNoRotation
<1>3. ASSUME NEW p \in Ready, Go(p), rec.phase \in Ready PROVE DiskGood /\ SameLog
  <2>1. /\ rec' \in Recorder /\ rec'.rotated = rec.rotated /\ rec'.generation = rec.generation /\ rec'.phase = p
    BY <1>1, <1>3, GoFacts
  <2>2. QueueStep
    BY <1>2, <1>3, <2>1 DEF QueueStep, Ready
  <2> QED BY <1>2, <1>3, <2>1, <2>2, ReadyDisk
<1>4. ASSUME NEW q \in Nat, NEW d \in BOOLEAN, Accept(q, d), rec.phase = "read", rec.events < MaxEvents
      PROVE  DiskGood /\ SameLog
  <2>1. rec'.rotated = rec.rotated /\ rec'.generation = rec.generation /\ rec'.phase = "drain"
    BY <1>1, <1>4 DEF Accept, Recorder
  <2>2. rec' \in Recorder
    <3>1. FixedEvent(rec.session, q, rec.ts + 1) \in Frame
      BY <1>1 DEF FixedEvent, Frame, Recorder
    <3>2. rec.events + 1 \in 0 .. MaxEvents /\ rec.ts + 1 \in Nat
      BY <1>1, <1>4, CaptureAssumption DEF Recorder
    <3> QED BY <1>1, <1>4, <3>1, <3>2 DEF Accept, Recorder, RecorderPhases
  <2>3. QueueStep
    BY <1>2, <2>1 DEF QueueStep
  <2> QED BY <1>2, <1>4, <2>1, <2>2, <2>3, ReadyDisk DEF Ready
<1>5. CASE Handshake
  <2>1. rec.phase \in Ready /\ (Go("read") \/ Go("finish"))
    BY <1>5 DEF Handshake, Ready
  <2> QED BY <1>3, <2>1 DEF Ready
<1>6. CASE Ingest
  <2>1. \A w \in Received : w.seq \in Nat
    BY <1>1 DEF Received, Recorder
  <2> QED BY <1>3, <1>4, <1>6, <2>1 DEF Ingest, Ready
<1>7. CASE EndOfStream
  BY <1>3, <1>7 DEF EndOfStream, Ready
<1>8. CASE ExecutionWalWriter_append
  <2>1. rec.last + 1 \in Nat
    BY <1>1 DEF Recorder
  <2> QED BY <1>4, <1>8, <2>1 DEF ExecutionWalWriter_append
<1>9. CASE NeedsNoRotation
  BY <1>3, <1>9 DEF NeedsNoRotation, Ready
<1> QED BY <1>5, <1>6, <1>7, <1>8, <1>9

LEMMA CommitDisk ==
  ASSUME CaptureTypeOK, DiskInv, Commit
  PROVE  DiskGood /\ SameLog
<1>1. rec \in Recorder
  BY TypedFacts
<1>2. /\ disk' = disk /\ rec.phase = "committed"
      /\ jobs' = jobs \/ (rec.rotated # 0 /\ jobs' = Append(jobs, rec.rotated))
  BY DEF Commit
<1>3. rec' \in Recorder /\ rec'.rotated = 0 /\ rec'.generation = rec.generation /\ rec'.phase \in {"finish", "read"}
  BY <1>1 DEF Commit, Recorder, RecorderPhases
<1>4. QueueStep
  BY <1>2, <1>3 DEF QueueStep
<1> QED BY <1>2, <1>3, <1>4, ReadyDisk DEF Ready

LEMMA FlushDisk ==
  ASSUME CaptureTypeOK, DiskInv, open_segment_Flush
  PROVE  DiskGood /\ SameLog
<1>1. rec \in Recorder
  BY TypedFacts
<1>2. disk' = disk /\ jobs' = jobs /\ rec.phase = "flush" /\ disk # <<>>
  BY DEF open_segment_Flush, DiskInv
<1>3. rec' \in Recorder /\ rec'.rotated = rec.rotated /\ rec'.generation = 2 /\ rec'.phase \in {"frame", "connect", "read"}
  BY <1>1 DEF open_segment_Flush, Recorder, RecorderPhases
<1>4. QueueStep
  BY <1>2, <1>3 DEF QueueStep
<1>5. CurrentInv'
  <2>1. current = [NewSegment EXCEPT !.header = TRUE, !.meta = FirstSlots]
    BY <1>2 DEF DiskInv, CurrentInv
  <2>2. Len(current.data) = 0 /\ current.meta = FirstSlots /\ current.header /\ Unsealed(current)
    BY <2>1 DEF NewSegment, Unsealed, NoZst
  <2>3. Named(FirstSlots, 2, 0)
    BY DEF Named, FirstSlots, make_slot, SlotOf
  <2>4. Writing(current, 2, 0)
    BY <2>2, <2>3 DEF Writing, Whole
  <2> QED BY <1>2, <1>3, <2>2, <2>4, CurrentSame DEF CurrentInv, Idle, Ready, Adding, Repairing
<1> QED BY <1>2, <1>3, <1>4, <1>5, QuietStep DEF DiskGood

LEMMA EndDisk ==
  ASSUME CaptureTypeOK, DiskInv, PushFinal \/ Join
  PROVE  DiskGood /\ SameLog
<1>1. rec \in Recorder
  BY TypedFacts
<1>2. disk' = disk /\ disk # <<>> /\ rec.phase \in {"push", "join"}
  BY DEF PushFinal, Join, DiskInv
<1>3. /\ rec' \in Recorder /\ rec'.rotated = 0 /\ rec'.generation = rec.generation
      /\ rec'.phase \in {"join", "down"}
  <2>1. CASE PushFinal
    BY <1>1, <2>1 DEF PushFinal, Recorder, RecorderPhases
  <2>2. CASE Join
    BY <1>1, <2>2, StoppedFacts DEF Join
  <2> QED BY <2>1, <2>2
<1>4. QueueStep
  BY <1>3 DEF PushFinal, Join, QueueStep, DiskInv, QueueInv
<1>5. CurrentInv'
  <2>1. Closed(current)
    BY <1>2 DEF DiskInv, CurrentInv
  <2> QED BY <1>2, <1>3, <2>1, CurrentSame DEF CurrentInv, Idle, Ready, Adding, Repairing
<1> QED BY <1>2, <1>3, <1>4, <1>5, QuietStep DEF DiskGood

\* The last segment is closed, or fit to be recovered unless the power has failed.
LEMMA CurrentKind ==
  ASSUME CaptureTypeOK, DiskInv, disk # <<>>
  PROVE  \/ Closed(current) /\ rec.phase \notin Growing
         \/ Unsealed(current) /\ ((rec.lost_power /\ rec.phase \in Idle) \/ Steady(current))
<1>0. rec \in Recorder /\ current \in Segment /\ Len(current.data) \in Nat /\ Len(current.data) >= 0
  BY TypedFacts, LenProperties DEF Segment
<1>1. CurrentInv /\ rec.generation \in Nat
  BY <1>0 DEF DiskInv, Recorder
<1>2. CASE rec.phase \in Opening
  <2>1. current.data = <<>> /\ Unsealed(current) /\ (~current.header => ~valid_slot(Boundary(current)))
    <3>1. CASE rec.phase \in {"init", "slots"}
      <4>1. current.meta = NoMeta /\ current.data = <<>> /\ Unsealed(current)
        BY <1>1, <3>1 DEF CurrentInv, NewSegment, NoZst, Unsealed
      <4>2. NoMeta \in Sidecar /\ ~valid_slot(NoMeta[1]) /\ ~valid_slot(NoMeta[2])
        BY NewTyped DEF NoMeta, BadSlot, valid_slot
      <4> QED BY <4>1, <4>2, SelectFacts DEF Boundary
    <3>2. CASE rec.phase = "flush"
      <4>1. current = [NewSegment EXCEPT !.header = TRUE, !.meta = FirstSlots]
        BY <1>1, <3>2 DEF CurrentInv
      <4>2. current.header /\ current.data = <<>> /\ ~current.sealed /\ ~current.zst.present
        BY <4>1 DEF NewSegment, NoZst
      <4> QED BY <4>2 DEF Unsealed
    <3> QED BY <1>2, <3>1, <3>2 DEF Opening
  <2>2. valid_slot(Boundary(current)) => Boundary(current).committed = 0
    <3>1. CASE rec.phase \in {"init", "slots"}
      <4>1. current.meta = NoMeta
        BY <1>1, <3>1 DEF CurrentInv, NewSegment
      <4>2. NoMeta \in Sidecar /\ ~valid_slot(NoMeta[1]) /\ ~valid_slot(NoMeta[2])
        BY NewTyped DEF NoMeta, BadSlot, valid_slot
      <4> QED BY <4>1, <4>2, SelectFacts DEF Boundary
    <3>2. CASE rec.phase = "flush"
      <4>1. current.meta = FirstSlots
        BY <1>1, <3>2 DEF CurrentInv, NewSegment
      <4>2. FirstSlots \in Sidecar /\ FirstSlots[1].committed = 0 /\ FirstSlots[2].committed = 0
        BY NewTyped DEF FirstSlots, make_slot
      <4> QED BY <4>1, <4>2, SelectFacts DEF Boundary
    <3> QED BY <1>2, <3>1, <3>2 DEF Opening
  <2>3. Len(current.data) = 0
    BY <2>1
  <2> QED BY <2>1, <2>2, <2>3 DEF Steady, Whole
<1>3. CASE rec.phase \in Ready
  BY <1>0, <1>1, <1>3, WritingFacts DEF CurrentInv, Writing
<1>4. CASE rec.phase \in Adding
  <2>1. Len(current.data) - 1 \in Nat /\ Writing(current, rec.generation, Len(current.data) - 1)
    BY <1>0, <1>1, <1>4 DEF CurrentInv
  <2> QED BY <1>0, <1>1, <2>1, WritingFacts DEF Writing
<1>5. CASE rec.phase \in Repairing \cup {"create", "push", "join"} \cup Idle
  <2>1. rec.phase \notin Growing /\ (rec.phase \in Idle \/ rec.phase \in Repairing \cup {"create", "push", "join"})
    BY <1>5 DEF Growing, Opening, Adding, Idle, Repairing
  <2> QED BY <1>1, <2>1 DEF CurrentInv
<1>6. rec.phase \in Opening \cup Ready \cup Adding \cup Repairing \cup {"create", "push", "join"} \cup Idle
  BY <1>0 DEF Opening, Ready, Adding, Repairing, Idle, Recorder, RecorderPhases
<1> QED BY <1>2, <1>3, <1>4, <1>5, <1>6

LEMMA CrashDisk ==
  ASSUME CaptureTypeOK, DiskInv, ProcessCrash
  PROVE  DiskGood /\ SameLog
<1>1. rec \in Recorder
  BY TypedFacts
<1>2. disk' = disk /\ jobs' = <<>> /\ rec' = Stopped
  BY DEF ProcessCrash
<1>3. /\ rec' \in Recorder /\ rec'.rotated = 0 /\ rec'.generation = rec.generation
      /\ rec'.phase = "down" /\ rec'.lost_power = rec.lost_power
  BY <1>1, <1>2, StoppedFacts
<1>4. QueueStep
  BY <1>2, <1>3 DEF QueueStep
<1>5. disk # <<>> => Closed(current) \/ (Unsealed(current) /\ (rec.lost_power \/ Steady(current)))
  BY CurrentKind
<1>6. disk # <<>> => CurrentInv'
  BY <1>2, <1>3, <1>5, CurrentSame DEF CurrentInv, Idle, Ready, Adding, Repairing
<1> QED BY <1>2, <1>3, <1>4, <1>6, QuietStep DEF DiskGood

LEMMA RecoverDisk ==
  ASSUME CaptureTypeOK, DiskInv, WalWriter_recover
  PROVE  DiskGood /\ SameLog
<1>1. rec \in Recorder /\ disk # <<>> /\ current \in Segment /\ rec.phase = "recover" /\ jobs' = jobs /\ last \in Nat
  BY TypedFacts DEF WalWriter_recover, DiskInv
<1>2. Closed(current) \/ Unsealed(current)
  BY <1>1 DEF DiskInv, CurrentInv, Idle
<1>3. CASE recoverable(current)
  <2> DEFINE s == truncate_to_valid(current)
  <2>1. s \in Segment /\ Closed(s) /\ Readable(s) = Readable(current)
    BY <1>1, <1>2, <1>3, TruncateFacts
  <2>2. disk' = [disk EXCEPT ![last] = s]
    BY <1>3 DEF WalWriter_recover, current
  <2>3. rec' \in Recorder /\ rec'.rotated = rec.rotated /\ rec'.phase = "empty_meta"
    <3>1. select_boundary(current.meta).generation \in Nat
      BY <1>1, LimitFacts DEF Boundary, Slot
    <3>2. rec.recovering \cup {last} \in SUBSET Nat
      BY <1>1 DEF Recorder
    <3> DEFINE g == select_boundary(current.meta).generation
               R == rec.recovering \cup {last}
    <3>3. rec' = [rec EXCEPT !.phase = "empty_meta", !.recovering = R, !.generation = g]
      BY <1>3 DEF WalWriter_recover
    <3>4. g \in Nat /\ R \in SUBSET Nat /\ "empty_meta" \in RecorderPhases
      BY <3>1, <3>2 DEF RecorderPhases
    <3> HIDE DEF g, R
    <3> QED BY <1>1, <3>3, <3>4 DEF Recorder
  <2> HIDE DEF s
  <2>4. current' = s
    BY <1>1, <2>1, <2>2, TypedFacts, PutLast
  <2>5. CurrentInv'
    BY <2>1, <2>3, <2>4 DEF CurrentInv, Idle, Ready, Adding, Repairing
  <2>6. QueueStep
    BY <1>1, <2>3 DEF QueueStep
  <2> QED BY <1>1, <2>1, <2>2, <2>3, <2>5, <2>6, LastStep DEF DiskGood
<1>4. CASE ~recoverable(current)
  <2>1. disk' = disk /\ Go("failed") /\ "failed" \in RecorderPhases
    BY <1>4 DEF WalWriter_recover, RecorderPhases
  <2>2. /\ rec' \in Recorder /\ rec'.rotated = rec.rotated /\ rec'.phase = "failed" /\ rec'.lost_power = rec.lost_power
        /\ rec'.generation = rec.generation
    BY <1>1, <2>1, GoFacts
  <2>3. QueueStep
    BY <1>1, <2>2 DEF QueueStep
  <2>4. CurrentInv'
    BY <1>1, <2>1, <2>2, CurrentSame DEF DiskInv, CurrentInv, Idle, Ready, Adding, Repairing
  <2> QED BY <1>1, <2>1, <2>2, <2>3, <2>4, QuietStep DEF DiskGood
<1> QED BY <1>3, <1>4

\* A closed segment stays closed in a step of the repair.
LEMMA RepairStep ==
  ASSUME CaptureTypeOK, DiskInv, disk # <<>>, jobs' = jobs, NEW s \in Segment, Closed(s), Readable(s) = Readable(current),
         disk' = [disk EXCEPT ![last] = s], NEW p \in Repairing \cup {"create", "failed"}, Go(p)
  PROVE  DiskGood /\ SameLog
<1>1. rec \in Recorder /\ p \in RecorderPhases
  BY TypedFacts DEF Repairing, RecorderPhases
<1>2. rec' \in Recorder /\ rec'.rotated = rec.rotated /\ rec'.phase = p
  BY <1>1, GoFacts
<1>3. current' = s
  BY TypedFacts, PutLast
<1>4. CurrentInv'
  BY <1>2, <1>3 DEF CurrentInv, Idle, Ready, Adding, Repairing
<1>5. QueueStep
  BY <1>2 DEF QueueStep, Repairing
<1> QED BY <1>2, <1>4, <1>5, LastStep DEF DiskGood

LEMMA RepairDisk ==
  ASSUME CaptureTypeOK, DiskInv, EmptyMetadata \/ WriteMetadata \/ Recompress
  PROVE  DiskGood /\ SameLog
<1>1. rec.phase \in Repairing
  BY DEF EmptyMetadata, WriteMetadata, Recompress, Repairing
<1>2. rec \in Recorder /\ disk # <<>> /\ current \in Segment /\ jobs' = jobs /\ last \in 1 .. last
  BY <1>1, TypedFacts DEF EmptyMetadata, WriteMetadata, Recompress, DiskInv, Repairing
<1>3. Closed(current)
  BY <1>1, <1>2 DEF DiskInv, CurrentInv
<1>4. CASE EmptyMetadata
  <2> DEFINE s == [current EXCEPT !.meta = NoMeta]
  <2>1. s \in Segment /\ Closed(s) /\ Readable(s) = Readable(current)
    BY <1>2, <1>3, EmptyFacts
  <2>2. disk' = [disk EXCEPT ![last] = s] /\ Go("write_meta")
    BY <1>4 DEF EmptyMetadata, current
  <2> HIDE DEF s
  <2> QED BY <1>2, <2>1, <2>2, RepairStep DEF Repairing
<1>5. CASE WriteMetadata
  <2> DEFINE s == write_recovered_metadata(current, rec.generation)
  <2>1. s \in Segment /\ Closed(s) /\ Readable(s) = Readable(current)
    BY <1>2, <1>3, RewriteFacts DEF Recorder
  <2>2. disk' = [disk EXCEPT ![last] = s] /\ Go("recompress")
    BY <1>5 DEF WriteMetadata, current
  <2> HIDE DEF s
  <2> QED BY <1>2, <2>1, <2>2, RepairStep DEF Repairing
<1>6. CASE Recompress
  <2>0. disk = [disk EXCEPT ![last] = current]
    BY <1>2, TypedFacts DEF current
  <2>1. CASE UNCHANGED disk /\ Go("failed")
    BY <1>2, <1>3, <2>0, <2>1, RepairStep
  <2>2. CASE Go("create")
    <3> DEFINE s == IF current.zst.present THEN current ELSE compress_closed_segment(current)
    <3>1. s \in Segment /\ Closed(s) /\ Readable(s) = Readable(current)
      BY <1>2, <1>3, CompressFacts
    <3>2. disk' = [disk EXCEPT ![last] = s] \/ Go("failed")
      BY <1>6 DEF Recompress, current
    <3>3. ~Go("failed")
      BY <2>2, <1>2, GoFacts DEF RecorderPhases
    <3> HIDE DEF s
    <3> QED BY <1>2, <2>2, <3>1, <3>2, <3>3, RepairStep
  <2> QED BY <1>6, <2>1, <2>2 DEF Recompress
<1> QED BY <1>4, <1>5, <1>6

LEMMA OpenFileDisk ==
  ASSUME CaptureTypeOK, DiskInv, open_segment_File
  PROVE  /\ DiskGood /\ last' = last + 1 /\ current' = NewSegment /\ disk' # <<>> /\ rec.phase = "create"
         /\ \A i \in 1 .. last : disk'[i] = disk[i]
<1>1. rec \in Recorder /\ last \in Nat /\ disk \in Seq(Segment) /\ "init" \in RecorderPhases
  BY TypedFacts DEF RecorderPhases
<1>2. disk' = Append(disk, NewSegment) /\ jobs' = jobs /\ Go("init") /\ rec.phase = "create"
  BY DEF open_segment_File
<1>3. /\ disk' \in Seq(Segment) /\ Len(disk') = last + 1 /\ disk'[last+1] = NewSegment
      /\ \A i \in 1 .. last : disk'[i] = disk[i]
  BY <1>1, <1>2, NewTyped, AppendProperties DEF last
<1>4. last' = last + 1 /\ current' = NewSegment /\ disk' # <<>>
  BY <1>1, <1>3 DEF last, current
<1>5. rec' \in Recorder /\ rec'.phase = "init" /\ rec'.rotated = rec.rotated
  BY <1>1, <1>2, GoFacts
<1>6. CurrentInv'
  BY <1>4, <1>5 DEF CurrentInv, Idle, Ready, Adding, Repairing
<1>7. \A i \in 1 .. last : Closed(disk[i])
  <2> SUFFICES ASSUME NEW i \in 1 .. last PROVE Closed(disk[i])
    OBVIOUS
  <2>1. disk # <<>>
    BY TypedFacts
  <2>2. i \in 1 .. last - 1 \/ i = last
    BY <1>1
  <2> QED BY <1>2, <2>1, <2>2 DEF DiskInv, CurrentInv, current
<1>8. QueueStep
  BY <1>2, <1>5 DEF QueueStep
<1>9. QueueInv' /\ jobs' \in Seq(1 .. last')
  BY <1>1, <1>3, <1>4, <1>7, <1>8, QueueKept DEF DiskInv
<1>10. \A i \in 1 .. last' - 1 : Closed(disk'[i])
  BY <1>1, <1>3, <1>4, <1>7
<1> QED BY <1>2, <1>3, <1>4, <1>5, <1>6, <1>9, <1>10 DEF DiskInv, DiskGood

LEMMA OpeningDisk ==
  ASSUME CaptureTypeOK, DiskInv, open_segment_Header \/ open_segment_Slots
  PROVE  /\ DiskGood /\ SameLog /\ disk # <<>> /\ disk' # <<>>
         /\ current.data = <<>> /\ current'.data = <<>> /\ current'.header /\ Unsealed(current')
         /\ open_segment_Header => current'.meta = NoMeta /\ current.meta = NoMeta
         /\ open_segment_Slots => current'.meta = FirstSlots
<1>1. rec \in Recorder /\ rec.phase \in {"init", "slots"} /\ disk # <<>> /\ jobs' = jobs
  BY TypedFacts DEF open_segment_Header, open_segment_Slots, DiskInv
<1> DEFINE h == [NewSegment EXCEPT !.header = TRUE]
           f == [NewSegment EXCEPT !.header = TRUE, !.meta = FirstSlots]
<1>2. h \in Segment /\ f \in Segment
  BY NewTyped DEF Segment
<1>3. current.data = <<>> /\ Readable(current) = <<>> /\ ~current.sealed /\ current \in Segment
  <2>1. current.data = <<>> /\ ~current.sealed
    BY <1>1 DEF DiskInv, CurrentInv, NewSegment
  <2>2. current \in Segment
    BY <1>1, TypedFacts
  <2>3. Len(Readable(current)) <= 0 /\ Readable(current) \in Seq(Frame)
    BY <2>1, <2>2, ReadableFacts
  <2> QED BY <2>1, <2>2, <2>3, EmptySeq, LenProperties
<1>4. h.data = <<>> /\ h.header /\ Unsealed(h) /\ h.meta = NoMeta /\ f.data = <<>> /\ f.header /\ Unsealed(f) /\ f.meta = FirstSlots
  BY DEF NewSegment, NoZst, Unsealed
<1>5. \A s \in {h, f} : Readable(s) = <<>>
  <2> HIDE DEF h, f
  <2>1. \A s \in {h, f} : Len(Readable(s)) <= 0 /\ Readable(s) \in Seq(Frame)
    BY <1>2, <1>4, ReadableFacts
  <2> QED BY <2>1, EmptySeq, LenProperties
<1>6. CASE open_segment_Header
  <2>1. disk' = [disk EXCEPT ![last] = h] /\ Go("slots") /\ "slots" \in RecorderPhases /\ current = NewSegment
    BY <1>1, <1>6 DEF open_segment_Header, DiskInv, CurrentInv, current, RecorderPhases
  <2>2. rec' \in Recorder /\ rec'.phase = "slots" /\ rec'.rotated = rec.rotated
    BY <1>1, <2>1, GoFacts
  <2>3. current' = h
    BY <1>1, <1>2, <2>1, TypedFacts, PutLast
  <2>4. CurrentInv'
    BY <2>2, <2>3 DEF CurrentInv, Idle, Ready, Adding, Repairing
  <2>5. QueueStep
    BY <1>1, <2>2 DEF QueueStep
  <2>6. current.meta = NoMeta /\ ~open_segment_Slots
    BY <1>6, <2>1 DEF NewSegment, open_segment_Header, open_segment_Slots
  <2>7. Closed(current) => Closed(h)
    BY <1>3 DEF Closed
  <2> HIDE DEF h
  <2> QED BY <1>1, <1>2, <1>3, <1>4, <1>5, <2>1, <2>2, <2>3, <2>4, <2>5, <2>6, <2>7, LastStep DEF DiskGood
<1>7. CASE open_segment_Slots
  <2>1. disk' = [disk EXCEPT ![last] = f] /\ Go("flush") /\ "flush" \in RecorderPhases
    <3>1. current = h
      BY <1>1, <1>7 DEF open_segment_Slots, DiskInv, CurrentInv
    <3>2. [h EXCEPT !.meta = FirstSlots] = f
      BY DEF NewSegment
    <3>3. disk' = [disk EXCEPT ![last] = [current EXCEPT !.meta = FirstSlots]]
      BY <1>7 DEF open_segment_Slots, current
    <3> QED BY <1>7, <3>1, <3>2, <3>3 DEF open_segment_Slots, RecorderPhases
  <2>2. rec' \in Recorder /\ rec'.phase = "flush" /\ rec'.rotated = rec.rotated
    BY <1>1, <2>1, GoFacts
  <2>3. current' = f
    BY <1>1, <1>2, <2>1, TypedFacts, PutLast
  <2>4. CurrentInv'
    BY <2>2, <2>3 DEF CurrentInv, Idle, Ready, Adding, Repairing
  <2>5. QueueStep
    BY <1>1, <2>2 DEF QueueStep
  <2>6. ~open_segment_Header
    BY <1>7 DEF open_segment_Header, open_segment_Slots
  <2>7. Closed(current) => Closed(f)
    BY <1>3 DEF Closed
  <2> HIDE DEF f
  <2> QED BY <1>1, <1>2, <1>3, <1>4, <1>5, <2>1, <2>2, <2>3, <2>4, <2>5, <2>6, <2>7, LastStep DEF DiskGood
<1> QED BY <1>6, <1>7

LEMMA SealDisk ==
  ASSUME CaptureTypeOK, DiskInv, Rotate \/ Finalize
  PROVE  DiskGood /\ SameLog /\ Closed(current') /\ disk # <<>> /\ Readable(current) = current.data
<1>1. rec.phase \in Ready
  BY DEF Rotate, Finalize, Ready
<1>2. rec \in Recorder /\ disk # <<>> /\ current \in Segment /\ jobs' = jobs /\ last \in 1 .. last /\ last \in Nat
  BY <1>1, TypedFacts DEF Rotate, Finalize, DiskInv, Ready
<1>3. Writing(current, rec.generation, Len(current.data)) /\ rec.generation \in Nat
  BY <1>1, <1>2 DEF DiskInv, CurrentInv, Recorder
<1> DEFINE s == [current EXCEPT !.sealed = TRUE]
<1>4. s \in Segment /\ Closed(s) /\ Readable(s) = Readable(current) /\ s.data = current.data
  BY <1>2, <1>3, SealFacts DEF Segment
<1>5. disk' = [disk EXCEPT ![last] = s]
  BY DEF Rotate, Finalize, current
<1> HIDE DEF s
<1>6. current' = s /\ disk'[last] = s
  BY <1>2, <1>4, <1>5, TypedFacts, PutLast
<1>7. rec' \in Recorder /\ rec'.rotated \in {0, last} /\ rec'.phase \in {"create", "push", "down"}
      /\ (rec'.phase = "push" => rec'.rotated = last)
  <2>1. CASE Rotate
    BY <1>2, <2>1 DEF Rotate, Recorder, RecorderPhases, Sealed
  <2>2. CASE Finalize
    <3>1. CASE stream = "market"
      BY <1>2, <2>2, <3>1 DEF Finalize, Recorder, RecorderPhases
    <3>2. CASE stream # "market"
      BY <1>2, <2>2, <3>2, StoppedFacts DEF Finalize
    <3> QED BY <3>1, <3>2
  <2> QED BY <2>1, <2>2
<1>8. CurrentInv'
  BY <1>4, <1>6, <1>7 DEF CurrentInv, Idle, Ready, Adding, Repairing
<1>9. QueueStep
  BY <1>2, <1>4, <1>6, <1>7 DEF QueueStep
<1>10. Readable(current) = current.data
  BY <1>4, ReadableClosed
<1> QED BY <1>2, <1>4, <1>5, <1>6, <1>7, <1>8, <1>9, <1>10, LastStep DEF DiskGood

LEMMA HalfAppendedDisk ==
  ASSUME CaptureTypeOK, DiskInv, HalfAppended
  PROVE  /\ DiskGood /\ SameLog /\ disk # <<>> /\ disk' # <<>>
         /\ current'.meta = current.meta /\ current'.header = current.header /\ ~current'.sealed
         /\ Len(current'.data) = Len(current.data) + 1 /\ valid_slot(Boundary(current))
         /\ \A i \in 1 .. Len(current.data) : current'.data[i] = current.data[i]
<1>1. rec \in Recorder /\ disk # <<>> /\ current \in Segment /\ jobs' = jobs /\ rec.phase = "frame" /\ Go("append")
      /\ "append" \in RecorderPhases
  BY TypedFacts DEF HalfAppended, DiskInv, RecorderPhases
<1>2. Writing(current, rec.generation, Len(current.data)) /\ rec.generation \in Nat
  BY <1>1 DEF DiskInv, CurrentInv, Recorder, Ready
<1> DEFINE s == [current EXCEPT !.data = Append(@, Torn)]
           n == Len(current.data)
<1>3. /\ s \in Segment /\ Len(s.data) = n + 1 /\ Writing(s, rec.generation, n)
      /\ s.meta = current.meta /\ s.header = current.header /\ s.sealed = current.sealed
      /\ (\A i \in 1 .. n : s.data[i] = current.data[i]) /\ Readable(s) = Readable(current)
  BY <1>1, <1>2, NewTyped, HalfAppendFacts
<1>0. s.data[n+1] = Torn
  <2>1. s.data = Append(current.data, Torn) /\ current.data \in Seq(Frame)
    BY <1>1 DEF Segment
  <2> QED BY <2>1, NewTyped, AppendProperties
<1>4. disk' = [disk EXCEPT ![last] = s]
  BY DEF HalfAppended, current
<1>5. n \in Nat
  BY <1>1, LenProperties DEF Segment
<1> HIDE DEF s
<1>6. current' = s /\ disk' # <<>>
  BY <1>1, <1>3, <1>4, TypedFacts, PutLast
<1>7. rec' \in Recorder /\ rec'.phase = "append" /\ rec'.rotated = rec.rotated /\ rec'.generation = rec.generation
  BY <1>1, GoFacts
<1>8. CurrentInv'
  <2>1. Len(s.data) > 0 /\ Len(s.data) - 1 = n /\ ~IsRecord(s.data[Len(s.data)])
    BY <1>0, <1>3, <1>5, NewTyped
  <2> QED BY <1>3, <1>6, <1>7, <2>1 DEF CurrentInv, Idle, Ready, Adding, Repairing
<1>9. QueueStep
  BY <1>1, <1>7 DEF QueueStep
<1>10. ~current.sealed /\ valid_slot(Boundary(current))
  BY <1>1, <1>2, <1>5, WritingFacts DEF Writing, Unsealed
<1>11. Closed(current) => Closed(s)
  BY <1>10 DEF Closed
<1>12. DiskGood /\ SameLog
  BY <1>1, <1>3, <1>4, <1>7, <1>8, <1>9, <1>11, LastStep DEF DiskGood
<1> QED BY <1>1, <1>3, <1>6, <1>10, <1>12

LEMMA AppendDisk ==
  ASSUME CaptureTypeOK, DiskInv, append
  PROVE  /\ DiskGood /\ SameLog /\ disk # <<>> /\ disk' # <<>>
         /\ current'.meta = current.meta /\ current'.header = current.header /\ ~current'.sealed
         /\ Len(current'.data) = Len(current.data) /\ valid_slot(Boundary(current))
         /\ Boundary(current).committed = Len(current.data) - 1
         /\ \A i \in 1 .. Len(current.data) - 1 : current'.data[i] = current.data[i]
<1>1. rec \in Recorder /\ disk # <<>> /\ current \in Segment /\ jobs' = jobs /\ rec.phase = "append" /\ Go("tear")
      /\ "tear" \in RecorderPhases
  BY TypedFacts DEF append, DiskInv, RecorderPhases
<1> DEFINE n == Len(current.data) - 1
<1>2. Writing(current, rec.generation, n) /\ rec.generation \in Nat /\ Len(current.data) > 0 /\ rec.pending \in Frame
  BY <1>1 DEF DiskInv, CurrentInv, Recorder, Adding
<1>3. n \in Nat /\ Len(current.data) = n + 1
  BY <1>1, <1>2, LenProperties DEF Segment
<1> DEFINE s == [current EXCEPT !.data[Len(current.data)] = rec.pending]
<1>4. disk' = [disk EXCEPT ![last] = s]
  BY DEF append, current
<1>5. /\ s \in Segment /\ Len(s.data) = n + 1 /\ Writing(s, rec.generation, n) /\ s.data[n+1] = rec.pending
      /\ s.meta = current.meta /\ s.header = current.header /\ s.sealed = current.sealed
      /\ (\A i \in 1 .. n : s.data[i] = current.data[i]) /\ Readable(s) = Readable(current)
  <2> HIDE DEF n
  <2> QED BY <1>1, <1>2, <1>3, AppendFacts
<1> HIDE DEF s
<1>6. current' = s /\ disk' # <<>>
  BY <1>1, <1>4, <1>5, TypedFacts, PutLast
<1>7. rec' \in Recorder /\ rec'.phase = "tear" /\ rec'.rotated = rec.rotated /\ rec'.generation = rec.generation
      /\ rec'.pending = rec.pending
  BY <1>1, GoFacts
<1>8. CurrentInv'
  <2>1. Len(s.data) > 0 /\ Len(s.data) - 1 = n /\ s.data[Len(s.data)] = rec.pending
    BY <1>3, <1>5
  <2> HIDE DEF n
  <2> QED BY <1>5, <1>6, <1>7, <2>1 DEF CurrentInv, Idle, Ready, Adding, Repairing
<1>9. QueueStep
  BY <1>1, <1>7 DEF QueueStep
<1>10. ~current.sealed /\ valid_slot(Boundary(current)) /\ Boundary(current).committed = n
  BY <1>1, <1>2, <1>3, WritingFacts DEF Writing, Unsealed
<1>11. Closed(current) => Closed(s)
  BY <1>10 DEF Closed
<1>12. DiskGood /\ SameLog
  BY <1>1, <1>5, <1>4, <1>7, <1>8, <1>9, <1>11, LastStep DEF DiskGood
<1> QED BY <1>1, <1>3, <1>5, <1>6, <1>10, <1>12

LEMMA HalfPublishedDisk ==
  ASSUME CaptureTypeOK, DiskInv, HalfPublished
  PROVE  /\ DiskGood /\ SameLog /\ disk # <<>> /\ disk' # <<>>
         /\ current'.data = current.data /\ current'.header = current.header /\ ~current'.sealed
         /\ current'.meta = Published(BadSlot) /\ Published(BadSlot) \in Sidecar
         /\ valid_slot(Boundary(current)) /\ valid_slot(Boundary(current'))
         /\ Boundary(current').committed = Boundary(current).committed
<1>1. rec \in Recorder /\ disk # <<>> /\ current \in Segment /\ jobs' = jobs /\ rec.phase = "tear" /\ Go("publish")
      /\ "publish" \in RecorderPhases
  BY TypedFacts DEF HalfPublished, DiskInv, RecorderPhases
<1> DEFINE n == Len(current.data) - 1
           m == Published(BadSlot)
           g == rec.generation
<1>2. Writing(current, g, n) /\ g \in Nat /\ Len(current.data) > 0 /\ current.data[Len(current.data)] = rec.pending
  BY <1>1 DEF DiskInv, CurrentInv, Recorder, Adding
<1>3. n \in Nat /\ Len(current.data) = n + 1 /\ current.meta \in Sidecar
  BY <1>1, <1>2, LenProperties DEF Segment
<1>4. m \in Sidecar /\ Named(m, g, n)
  BY <1>2, <1>3, TearFacts DEF Writing, Published, PublishSlot
<1> DEFINE s == [current EXCEPT !.meta = m]
<1>5. disk' = [disk EXCEPT ![last] = s]
  BY DEF HalfPublished, current
<1>6. valid_slot(Boundary(current)) /\ Boundary(current).committed = n /\ Readable(current) = SubSeq(current.data, 1, n)
  BY <1>1, <1>2, <1>3, WritingFacts
<1>7. /\ s \in Segment /\ s.data = current.data /\ s.meta = m /\ Writing(s, g, n)
      /\ s.header = current.header /\ s.sealed = current.sealed /\ Readable(s) = Readable(current)
  <2>1. n <= Len(current.data) /\ Whole(current.data, n)
    BY <1>2 DEF Writing
  <2> HIDE DEF n, g, m
  <2>2. /\ s \in Segment /\ s.data = current.data /\ s.meta = m /\ Writing(s, g, n)
        /\ s.header = current.header /\ s.sealed = current.sealed /\ Readable(s) = SubSeq(current.data, 1, n)
    <3>1. current \in Segment /\ g \in Nat /\ n \in Nat /\ m \in Sidecar /\ Writing(current, g, n)
          /\ Named(m, g, n) /\ n <= Len(current.data) /\ Whole(current.data, n)
      BY <1>1, <1>2, <1>3, <1>4, <2>1
    <3>2. /\ s \in Segment /\ s.data = current.data /\ s.sealed = current.sealed /\ s.header = current.header
          /\ s.meta = m /\ s.zst = current.zst
      BY <3>1 DEF Segment
    <3> HIDE DEF s
    <3>3. Writing(s, g, n)
      BY <3>1, <3>2 DEF Writing, Unsealed
    <3> QED BY <3>1, <3>2, <3>3, WritingFacts
  <2> QED BY <1>6, <2>2
<1>8. valid_slot(Boundary(s)) /\ Boundary(s).committed = n
  <2> HIDE DEF s, n, g
  <2> QED BY <1>2, <1>3, <1>7, WritingFacts
<1> HIDE DEF s, m
<1>9. current' = s /\ disk' # <<>>
  BY <1>1, <1>5, <1>7, TypedFacts, PutLast
<1>10. rec' \in Recorder /\ rec'.phase = "publish" /\ rec'.rotated = rec.rotated /\ rec'.generation = g
       /\ rec'.pending = rec.pending
  BY <1>1, GoFacts
<1>11. CurrentInv'
  BY <1>2, <1>7, <1>9, <1>10 DEF CurrentInv, Idle, Ready, Adding, Repairing
<1>12. QueueStep
  BY <1>1, <1>10 DEF QueueStep
<1>13. ~current.sealed
  BY <1>2 DEF Writing, Unsealed
<1>14. Closed(current) => Closed(s)
  BY <1>13 DEF Closed
<1>15. DiskGood /\ SameLog
  BY <1>1, <1>5, <1>7, <1>10, <1>11, <1>12, <1>14, LastStep DEF DiskGood
<1> QED BY <1>1, <1>4, <1>6, <1>7, <1>8, <1>9, <1>13, <1>15 DEF m

\* Only this step adds to what can be read: the pending record.
LEMMA PublishDisk ==
  ASSUME CaptureTypeOK, DiskInv, PendingInv, publish_boundary
  PROVE  LET m == Published(make_slot(rec.generation + 1, Len(current.data)))
         IN  /\ DiskGood /\ disk # <<>> /\ disk' # <<>> /\ last' = last
             /\ \A i \in 1 .. last : i # last => disk'[i] = disk[i]
             /\ Readable(current') = Append(Readable(current), rec.pending)
             /\ current'.data = current.data /\ current'.header = current.header /\ ~current'.sealed
             /\ current'.meta = m /\ m \in Sidecar /\ safe' = [safe EXCEPT !.metas = @ \cup {m}]
             /\ valid_slot(Boundary(current)) /\ valid_slot(Boundary(current'))
             /\ Boundary(current).committed <= Boundary(current').committed
             /\ rec'.phase = "committed" /\ rec'.pending = NoRecord /\ rec'.last = rec.last
             /\ rec'.session = rec.session /\ rec'.ts = rec.ts /\ rec'.lost_power = rec.lost_power
<1>1. rec \in Recorder /\ disk # <<>> /\ current \in Segment /\ jobs' = jobs /\ rec.phase = "publish"
  BY TypedFacts DEF publish_boundary, DiskInv
<1> DEFINE n == Len(current.data) - 1
           g == rec.generation
           m == Published(make_slot(g + 1, Len(current.data)))
<1>2. Writing(current, g, n) /\ g \in Nat /\ Len(current.data) > 0 /\ current.data[Len(current.data)] = rec.pending
      /\ IsRecord(rec.pending)
  BY <1>1 DEF DiskInv, CurrentInv, Recorder, Adding, PendingInv
<1>3. n \in Nat /\ Len(current.data) = n + 1 /\ current.meta \in Sidecar /\ current.data \in Seq(Frame)
  BY <1>1, <1>2, LenProperties DEF Segment
<1>4. m \in Sidecar /\ Named(m, g + 1, n + 1)
  <2> DEFINE x == current.meta
  <2>1. x \in Sidecar /\ g \in Nat /\ n \in Nat /\ n + 1 \in Nat /\ Named(x, g, n)
    BY <1>2, <1>3 DEF Writing
  <2>2. m = [x EXCEPT ![SlotOf(g + 1)] = make_slot(g + 1, n + 1)]
    BY <1>3 DEF Published, PublishSlot
  <2> HIDE DEF x, m, n, g
  <2> QED BY <2>1, <2>2, PublishFacts
<1> DEFINE s == [current EXCEPT !.meta = m]
<1>5. disk' = [disk EXCEPT ![last] = s] /\ safe' = [safe EXCEPT !.metas = @ \cup {m}]
  BY DEF publish_boundary, current, Exposed
<1>6. valid_slot(Boundary(current)) /\ Boundary(current).committed = n /\ Readable(current) = SubSeq(current.data, 1, n)
  BY <1>1, <1>2, <1>3, WritingFacts
<1>7. /\ s \in Segment /\ s.data = current.data /\ s.meta = m /\ Writing(s, g + 1, n + 1)
      /\ s.header = current.header /\ s.sealed = current.sealed /\ Readable(s) = SubSeq(current.data, 1, n + 1)
  <2>1. n + 1 <= Len(current.data) /\ Whole(current.data, n + 1)
    <3>1. \A i \in 1 .. n + 1 : i \in 1 .. n \/ i = n + 1
      BY <1>3
    <3> QED BY <1>2, <1>3, <3>1 DEF Writing, Whole
  <2>2. g + 1 \in Nat /\ n + 1 \in Nat
    BY <1>2, <1>3
  <2> DEFINE x == current
  <2>3. x \in Segment /\ g \in Nat /\ n \in Nat /\ Writing(x, g, n) /\ m \in Sidecar /\ Named(m, g + 1, n + 1)
        /\ n + 1 <= Len(x.data) /\ Whole(x.data, n + 1)
    BY <1>1, <1>2, <1>3, <1>4, <2>1
  <2> HIDE DEF n, g, m, x
  <2>4. LET new == [x EXCEPT !.meta = m]
        IN  /\ new \in Segment /\ new.data = x.data /\ new.meta = m /\ Writing(new, g + 1, n + 1)
            /\ new.header = x.header /\ new.sealed = x.sealed /\ Readable(new) = SubSeq(x.data, 1, n + 1)
    BY <2>2, <2>3, RenamedFacts
  <2> QED BY <2>4 DEF x
<1>8. valid_slot(Boundary(s)) /\ Boundary(s).committed = n + 1
  <2>1. g + 1 \in Nat /\ n + 1 \in Nat
    BY <1>2, <1>3
  <2> HIDE DEF s, n, g
  <2> QED BY <1>7, <2>1, WritingFacts
<1>9. SubSeq(current.data, 1, n + 1) = Append(SubSeq(current.data, 1, n), rec.pending)
  BY <1>2, <1>3
<1> HIDE DEF s, m
<1>10. current' = s /\ disk' # <<>> /\ last' = last /\ \A i \in 1 .. last : i # last => disk'[i] = disk[i]
  BY <1>1, <1>5, <1>7, TypedFacts, PutLast
<1>11. /\ rec' \in Recorder /\ rec'.phase = "committed" /\ rec'.rotated = rec.rotated /\ rec'.generation = g + 1
       /\ rec'.pending = NoRecord /\ rec'.last = rec.last /\ rec'.session = rec.session /\ rec'.ts = rec.ts
       /\ rec'.lost_power = rec.lost_power
  <2>1. g + 1 \in Nat /\ NoRecord \in Frame /\ "committed" \in RecorderPhases
    BY <1>2, NewTyped DEF RecorderPhases
  <2>2. rec' = [rec EXCEPT !.generation = g + 1, !.pending = NoRecord, !.phase = "committed"]
    BY DEF publish_boundary
  <2> HIDE DEF g
  <2> QED BY <1>1, <2>1, <2>2 DEF Recorder
<1>12. CurrentInv'
  <2>1. Len(s.data) = n + 1
    BY <1>3, <1>7
  <2> HIDE DEF n, g
  <2> QED BY <2>1, <1>7, <1>10, <1>11 DEF CurrentInv, Idle, Ready, Adding, Repairing
<1>13. QueueStep
  BY <1>1, <1>11 DEF QueueStep
<1>14. ~current.sealed
  BY <1>2 DEF Writing, Unsealed
<1>15. Closed(current) => Closed(s)
  BY <1>14 DEF Closed
<1>16. DiskGood
  BY <1>1, <1>5, <1>7, <1>11, <1>12, <1>13, <1>15, LastStep DEF DiskGood
<1>17. Boundary(current).committed <= Boundary(s).committed
  BY <1>3, <1>6, <1>8
<1>18. Readable(s) = Append(Readable(current), rec.pending)
  BY <1>6, <1>7, <1>9
<1> QED BY <1>1, <1>4, <1>5, <1>6, <1>7, <1>8, <1>10, <1>11, <1>14, <1>16, <1>17, <1>18 DEF m

LEMMA CompressDisk ==
  ASSUME CaptureTypeOK, DiskInv, Compress
  PROVE  DiskGood /\ SameLog
<1>1. rec \in Recorder /\ jobs # <<>> /\ jobs' = Tail(jobs) /\ jobs \in Seq(1 .. last) /\ disk \in Seq(Segment)
  BY TypedFacts DEF Compress
<1> DEFINE k == Head(jobs)
<1>2. k \in 1 .. last /\ Closed(disk[k]) /\ disk[k] \in Segment /\ last \in Nat
  <2>1. k = jobs[1] /\ 1 \in 1 .. Len(jobs)
    BY <1>1, EmptySeq, LenProperties
  <2> QED BY <1>1, <2>1, TypedFacts, ElementOfSeq DEF DiskInv, QueueInv
<1> HIDE DEF k
<1>3. disk # <<>> /\ CurrentInv
  BY <1>2, TypedFacts DEF DiskInv
<1>4. CASE disk' = [disk EXCEPT ![k] = compress_closed_segment(@)] /\ rec' = rec
  <2> DEFINE s == compress_closed_segment(disk[k])
  <2>1. s \in Segment /\ Closed(s) /\ Readable(s) = Readable(disk[k])
    BY <1>2, CompressFacts
  <2>2. disk' = [disk EXCEPT ![k] = s]
    BY <1>4
  <2> HIDE DEF s
  <2>3. /\ disk' \in Seq(Segment) /\ Len(disk') = Len(disk)
        /\ \A i \in 1 .. last : disk'[i] = IF i = k THEN s ELSE disk[i]
    BY <1>1, <1>2, <2>1, <2>2 DEF last
  <2>4. last' = last /\ disk' # <<>>
    BY <1>2, <2>3 DEF last
  <2>5. \A i \in 1 .. last : (Closed(disk[i]) => Closed(disk'[i])) /\ Readable(disk'[i]) = Readable(disk[i])
    BY <1>2, <2>1, <2>3
  <2>6. QueueStep
    BY <1>1, <1>4, <1>3 DEF QueueStep, DiskInv, QueueInv
  <2>7. QueueInv' /\ jobs' \in Seq(1 .. last')
    BY <1>2, <2>3, <2>4, <2>5, <2>6, QueueKept DEF DiskInv
  <2>8. CurrentInv'
    <3>1. CASE k = last
      <4>1. Closed(current') /\ Closed(current)
        BY <1>2, <2>1, <2>3, <2>4, <3>1 DEF current
      <4>2. rec.phase \notin Opening \cup Ready \cup Adding
        <5>1. current.sealed
          BY <4>1 DEF Closed
        <5>2. rec.phase \notin Opening
          <6>1. /\ ~NewSegment.sealed /\ ~[NewSegment EXCEPT !.header = TRUE].sealed
                /\ ~[NewSegment EXCEPT !.header = TRUE, !.meta = FirstSlots].sealed
            BY DEF NewSegment
          <6> QED BY <1>3, <5>1, <6>1 DEF CurrentInv, Opening
        <5>3. rec.phase \notin Ready
          BY <1>3, <5>1 DEF CurrentInv, Writing, Unsealed
        <5>4. rec.phase \notin Adding
          BY <1>3, <5>1 DEF CurrentInv, Writing, Unsealed
        <5> QED BY <5>2, <5>3, <5>4
      <4> QED BY <1>3, <1>4, <4>1, <4>2 DEF CurrentInv, Opening, Ready, Adding, Repairing, Idle
    <3>2. CASE k # last
      <4>1. current' = current
        BY <1>2, <2>3, <2>4, <3>2 DEF current
      <4> QED BY <1>3, <1>4, <4>1 DEF CurrentInv
    <3> QED BY <3>1, <3>2
  <2>9. \A i \in 1 .. last' - 1 : Closed(disk'[i])
    BY <1>2, <2>4, <2>5 DEF DiskInv
  <2> QED BY <1>1, <1>4, <2>3, <2>4, <2>5, <2>7, <2>8, <2>9 DEF DiskGood, SameLog, DiskInv
<1>5. CASE disk' = disk /\ rec' = [rec EXCEPT !.compression_failed = TRUE]
  <2>1. /\ rec' \in Recorder /\ rec'.phase = rec.phase /\ rec'.rotated = rec.rotated
        /\ rec'.generation = rec.generation /\ rec'.pending = rec.pending /\ rec'.lost_power = rec.lost_power
    BY <1>1, <1>5 DEF Recorder
  <2>2. QueueStep
    BY <1>1, <1>3, <2>1 DEF QueueStep, DiskInv, QueueInv
  <2>3. CurrentInv'
    BY <1>3, <1>5, <2>1, CurrentSame DEF CurrentInv
  <2> QED BY <1>3, <1>5, <2>1, <2>2, <2>3, QuietStep DEF DiskGood
<1> QED BY <1>4, <1>5 DEF Compress, k

WithCopy(seg, z) == [seg EXCEPT !.zst = z]

\* A copy whose content is lost changes nothing that is read.
LEMMA CopyFacts ==
  ASSUME NEW seg \in Segment, NEW z \in CopySurvivors(seg.zst)
  PROVE  LET new == WithCopy(seg, z)
         IN  /\ new \in Segment /\ new.header = seg.header /\ new.sealed = seg.sealed
             /\ new.data = seg.data /\ new.meta = seg.meta /\ new.zst = z
             /\ ~seg.zst.present => new = seg
             /\ Closed(seg) => Closed(new) /\ Readable(new) = Readable(seg)
<1> DEFINE new == WithCopy(seg, z)
           copy == seg.zst
<1>1. copy \in [present : BOOLEAN, data : Seq(Frame), exposed : BOOLEAN]
  BY DEF Segment
<1>2. <<Torn>> \in Seq(Frame) /\ NoZst \in [present : BOOLEAN, data : Seq(Frame), exposed : BOOLEAN]
  BY NewTyped DEF NoZst
<1>3. z \in [present : BOOLEAN, data : Seq(Frame), exposed : BOOLEAN]
      /\ (copy.present => ~z.present \/ z.exposed) /\ (~copy.present => z = copy)
  BY <1>1, <1>2 DEF CopySurvivors, NoZst
<1>4. /\ new \in Segment /\ new.header = seg.header /\ new.sealed = seg.sealed
      /\ new.data = seg.data /\ new.meta = seg.meta /\ new.zst = z
  BY <1>3 DEF Segment, WithCopy
<1>5. ~copy.present => new = seg
  BY <1>3 DEF Segment, WithCopy
<1> HIDE DEF new
<1>6. Closed(seg) => Closed(new)
  BY <1>1, <1>3, <1>4 DEF Closed, Boundary
<1>7. Closed(seg) => Readable(new) = Readable(seg)
  BY <1>4, <1>6, ReadableClosed
<1> QED BY <1>4, <1>5, <1>6, <1>7 DEF new

\* What a loss of power leaves of the last segment.
LEMMA PowerLossDisk ==
  ASSUME CaptureTypeOK, DiskInv, PowerLoss
  PROVE  /\ DiskGood /\ disk # <<>> /\ last' = last /\ disk' # <<>>
         /\ rec' = [Stopped EXCEPT !.ts = 0, !.lost_power = TRUE]
         /\ \A i \in 1 .. last : i # last => Readable(disk'[i]) = Readable(disk[i])
         /\ current.sealed => SameLog /\ kept' = kept
         /\ ~current.sealed =>
              /\ Unsealed(current) /\ current' \in Segment /\ current'.data \in Survivors(current.data)
              /\ current'.sealed = current.sealed /\ current'.zst = current.zst
              /\ current'.meta \in safe.metas /\ (current'.header => current.header)
              /\ current.header /\ safe.header => current'.header
              /\ kept' = kept \ (Range(current.data) \ Range(SubSeq(current.data, 1, safe.frames)))
<1>1. /\ rec \in Recorder /\ disk # <<>> /\ current \in Segment /\ last \in Nat /\ disk \in Seq(Segment)
      /\ last \in 1 .. last /\ jobs' = <<>>
  BY TypedFacts DEF PowerLoss
<1>2. Closed(current) \/ Unsealed(current)
  BY <1>1, CurrentKind
<1>3. rec' = [Stopped EXCEPT !.ts = 0, !.lost_power = TRUE]
  BY DEF PowerLoss
<1>4. rec' \in Recorder /\ rec'.phase = "down" /\ rec'.rotated = 0 /\ rec'.lost_power
  <2> DEFINE x == Stopped
  <2>1. x \in Recorder /\ x.phase = "down" /\ x.rotated = 0
    BY <1>1, StoppedFacts
  <2>2. rec' = [x EXCEPT !.ts = 0, !.lost_power = TRUE]
    BY <1>3
  <2> HIDE DEF x
  <2> QED BY <2>1, <2>2 DEF Recorder
<1>5. PICK d \in Survivors(current.data), h \in BOOLEAN, m \in safe.metas, z \in CopiesAfter :
        disk' = [i \in 1 .. last |->
                   WithCopy((IF current.sealed THEN disk
                             ELSE [disk EXCEPT ![last] = [current EXCEPT !.data = d, !.meta = m,
                                                            !.header = @ /\ (h \/ safe.header)]])[i], z[i])]
  BY DEF PowerLoss, WithCopy
<1> DEFINE s == IF current.sealed THEN current
                ELSE [current EXCEPT !.data = d, !.meta = m, !.header = @ /\ (h \/ safe.header)]
<1>6. d \in Seq(Frame) /\ m \in Sidecar
  <2>1. current.data \in Seq(Frame)
    BY <1>1 DEF Segment
  <2>2. Range(current.data) \cup {Zeros, Torn} \subseteq Frame
    BY <2>1, NewTyped, ElementOfSeq DEF Range
  <2>3. d \in [1 .. Len(current.data) -> Range(current.data) \cup {Zeros, Torn}]
    BY DEF Survivors
  <2>4. d \in [1 .. Len(current.data) -> Frame] /\ Len(current.data) \in Nat
    BY <2>1, <2>2, <2>3, LenProperties
  <2>5. safe.metas \subseteq Sidecar
    BY DEF CaptureTypeOK
  <2> QED BY <2>4, <2>5, IsASeq
<1>7. /\ s \in Segment /\ s.sealed = current.sealed /\ s.zst = current.zst
      /\ current.sealed => s = current
      /\ ~current.sealed => s.data = d /\ s.meta = m /\ s.header = (current.header /\ (h \/ safe.header))
  <2>1. current.header \in BOOLEAN /\ safe.header \in BOOLEAN
    BY <1>1 DEF Segment, CaptureTypeOK
  <2>2. (current.header /\ (h \/ safe.header)) \in BOOLEAN
    BY <2>1
  <2> QED BY <1>1, <1>6, <2>2 DEF Segment
<1>8. /\ disk' = [i \in 1 .. last |-> disk'[i]] /\ disk'[last] = WithCopy(s, z[last])
      /\ \A i \in 1 .. last : i # last => disk'[i] = WithCopy(disk[i], z[i])
  <2> DEFINE raw == IF current.sealed THEN disk
                    ELSE [disk EXCEPT ![last] = [current EXCEPT !.data = d, !.meta = m,
                                                                !.header = @ /\ (h \/ safe.header)]]
  <2>1. \A i \in 1 .. last : raw[i] = IF i = last THEN s ELSE disk[i]
    BY <1>1, LenProperties DEF current, last
  <2>2. disk' = [i \in 1 .. last |-> WithCopy(raw[i], z[i])]
    BY <1>5
  <2> HIDE DEF s, raw
  <2> QED BY <1>1, <2>1, <2>2
<1> HIDE DEF s
<1>9. \A i \in 1 .. last : z[i] \in CopySurvivors(disk[i].zst) /\ disk[i] \in Segment
  BY <1>1, ElementOfSeq DEF CopiesAfter, last
<1>10. z[last] \in CopySurvivors(s.zst)
  BY <1>1, <1>7, <1>9 DEF current
<1>11. ASSUME NEW i \in 1 .. last, i # last
       PROVE  disk'[i] \in Segment /\ Closed(disk'[i]) /\ Readable(disk'[i]) = Readable(disk[i])
  <2>1. Closed(disk[i])
    BY <1>1, <1>11 DEF DiskInv
  <2> QED BY <1>8, <1>9, <1>11, <2>1, CopyFacts
<1>12. disk'[last] \in Segment
  BY <1>7, <1>8, <1>10, CopyFacts
<1>13. disk' \in Seq(Segment) /\ Len(disk') = last /\ disk' # <<>>
  <2>1. disk' \in [1 .. last -> Segment]
    BY <1>8, <1>11, <1>12
  <2>2. disk' \in Seq(Segment)
    BY <1>1, <2>1, IsASeq
  <2> QED BY <1>1, <2>1, <2>2, LenProperties, EmptySeq
<1>14. last' = last /\ current' = disk'[last]
  BY <1>13 DEF current, last
<1>15. current.sealed => Closed(current') /\ Readable(current') = Readable(current)
  <2> SUFFICES ASSUME current.sealed PROVE Closed(current') /\ Readable(current') = Readable(current)
    OBVIOUS
  <2>1. Closed(s) /\ s = current
    BY <1>2, <1>7 DEF Unsealed, Closed
  <2> QED BY <1>7, <1>8, <1>10, <1>14, <2>1, CopyFacts
<1>16. ~current.sealed => Unsealed(current) /\ Unsealed(current') /\ current' = s
  <2> SUFFICES ASSUME ~current.sealed PROVE Unsealed(current) /\ Unsealed(current') /\ current' = s
    OBVIOUS
  <2>1. Unsealed(current) /\ Unsealed(s)
    BY <1>2, <1>7 DEF Unsealed, Closed
  <2>2. current' = s
    BY <1>7, <1>8, <1>10, <1>14, <2>1, CopyFacts DEF Unsealed
  <2> QED BY <2>1, <2>2
<1>17. CurrentInv'
  BY <1>4, <1>15, <1>16 DEF CurrentInv, Idle, Ready, Adding, Repairing, Opening
<1>18. DiskInv'
  <2>1. \A i \in 1 .. last' - 1 : Closed(disk'[i])
    <3> SUFFICES ASSUME NEW i \in 1 .. last' - 1 PROVE Closed(disk'[i])
      OBVIOUS
    <3>1. i \in 1 .. last /\ i # last
      BY <1>1, <1>14
    <3> QED BY <1>11, <3>1
  <2>2. QueueInv'
    BY <1>1, <1>4 DEF QueueInv
  <2> QED BY <1>13, <1>17, <2>1, <2>2 DEF DiskInv
<1>19. DiskGood
  BY <1>1, <1>4, <1>13, <1>18 DEF DiskGood
<1>20. current.sealed => SameLog /\ kept' = kept
  <2> SUFFICES ASSUME current.sealed PROVE SameLog /\ kept' = kept
    OBVIOUS
  <2>1. \A i \in 1 .. last : Readable(disk'[i]) = Readable(disk[i])
    BY <1>11, <1>14, <1>15 DEF current
  <2> QED BY <1>14, <2>1 DEF SameLog, PowerLoss
<1>21. ~current.sealed => kept' = kept \ (Range(current.data) \ Range(SubSeq(current.data, 1, safe.frames)))
  BY DEF PowerLoss
<1> QED BY <1>1, <1>3, <1>7, <1>11, <1>13, <1>14, <1>16, <1>19, <1>20, <1>21

-----------------------------------------------------------------------------
(* What the steps do to the recorder. *)

SameRec == /\ rec'.session = rec.session /\ rec'.ts = rec.ts /\ rec'.last = rec.last
           /\ rec'.pending = rec.pending /\ rec'.lost_power = rec.lost_power

\* The phases that follow one another without a record coming or going.
Follows(p, q) ==
  \/ q = p
  \/ p = "recover" /\ q \in {"empty_meta", "failed"}
  \/ p = "empty_meta" /\ q = "write_meta"
  \/ p = "write_meta" /\ q = "recompress"
  \/ p = "recompress" /\ q \in {"create", "failed"}
  \/ p = "failed" /\ q = "down"
  \/ p = "init" /\ q = "slots"
  \/ p = "slots" /\ q = "flush"
  \/ p = "flush" /\ rec.pending # NoRecord /\ q = "frame"
  \/ p = "flush" /\ rec.pending = NoRecord /\ q \in {"connect", "read"}
  \/ p = "connect" /\ q \in {"read", "finish"}
  \/ p = "read" /\ q = "finish"
  \/ p = "drain" /\ q \in {"create", "frame"}
  \/ p = "frame" /\ q = "append"
  \/ p = "append" /\ q = "tear"
  \/ p = "tear" /\ q = "publish"
  \/ p = "committed" /\ q \in {"read", "finish"}
  \/ p = "finish" /\ q = "push"
  \/ p = "push" /\ q = "join"

QuietKind == SameLog /\ SameRec /\ Follows(rec.phase, rec'.phase)
OpenKind == /\ SameRec /\ rec.phase = "create" /\ rec'.phase = "init" /\ last' = last + 1
            /\ disk' = Append(disk, NewSegment)
StartKind == /\ SameLog /\ rec.phase = "down" /\ rec'.phase \in {"create", "recover"}
             /\ rec'.session = last + 1 /\ rec'.ts = rec.ts /\ rec'.last = rec.last
             /\ rec'.pending = rec.pending /\ rec'.lost_power = rec.lost_power
AcceptKind == /\ SameLog /\ rec.phase = "read" /\ rec'.phase = "drain" /\ rec'.lost_power = rec.lost_power
              /\ rec'.session = rec.session /\ rec'.ts = rec.ts + 1
              /\ rec'.last \in Nat \ {0} /\ (rec.last = 0 \/ rec'.last = rec.last + 1)
              /\ rec'.pending = FixedEvent(rec.session, rec'.last, rec.ts + 1)
StopKind == SameLog /\ rec' = Stopped

LEMMA QuietSteps ==
  ASSUME CaptureTypeOK, DiskInv,
         \/ WalWriter_recover \/ EmptyMetadata \/ WriteMetadata \/ Recompress \/ Failed
         \/ open_segment_Header \/ open_segment_Slots \/ open_segment_Flush \/ Handshake \/ EndOfStream
         \/ Rotate \/ NeedsNoRotation \/ HalfAppended \/ append \/ HalfPublished \/ Commit
         \/ PushFinal \/ Compress
  PROVE  DiskGood /\ QuietKind
<1>1. rec \in Recorder
  BY TypedFacts
<1>2. DiskGood /\ SameLog
  BY RecoverDisk, RepairDisk, FailedDisk, OpeningDisk, FlushDisk, FeedDisk, SealDisk, HalfAppendedDisk,
     AppendDisk, HalfPublishedDisk, CommitDisk, EndDisk, CompressDisk
<1>3. ASSUME NEW p \in RecorderPhases, Go(p) PROVE SameRec /\ rec'.phase = p
  BY <1>1, <1>3, GoFacts DEF SameRec
<1> SUFFICES SameRec /\ Follows(rec.phase, rec'.phase)
  BY <1>2 DEF QuietKind
<1>4. CASE WalWriter_recover \/ EmptyMetadata \/ WriteMetadata \/ Recompress \/ Failed
  <2>1. CASE WalWriter_recover /\ recoverable(current)
    <3>1. SameRec /\ rec'.phase = "empty_meta" /\ rec.phase = "recover"
      BY <1>1, <2>1 DEF WalWriter_recover, SameRec, Recorder
    <3> QED BY <3>1 DEF Follows
  <2>2. CASE WalWriter_recover /\ ~recoverable(current)
    BY <1>3, <2>2 DEF WalWriter_recover, Follows, RecorderPhases
  <2>3. CASE EmptyMetadata
    BY <1>3, <2>3 DEF EmptyMetadata, Follows, RecorderPhases
  <2>4. CASE WriteMetadata
    BY <1>3, <2>4 DEF WriteMetadata, Follows, RecorderPhases
  <2>5. CASE Recompress
    BY <1>3, <2>5 DEF Recompress, Follows, RecorderPhases
  <2>6. CASE Failed
    BY <1>3, <2>6 DEF Failed, Follows, RecorderPhases
  <2> QED BY <1>4, <2>1, <2>2, <2>3, <2>4, <2>5, <2>6
<1>5. CASE open_segment_Header \/ open_segment_Slots \/ open_segment_Flush \/ Handshake \/ EndOfStream
  <2>1. CASE open_segment_Header
    BY <1>3, <2>1 DEF open_segment_Header, Follows, RecorderPhases
  <2>2. CASE open_segment_Slots
    BY <1>3, <2>2 DEF open_segment_Slots, Follows, RecorderPhases
  <2>3. CASE open_segment_Flush
    <3>1. /\ SameRec /\ rec.phase = "flush" /\ (rec.pending # NoRecord => rec'.phase = "frame")
          /\ rec.pending = NoRecord => rec'.phase \in {"connect", "read"}
      BY <1>1, <2>3 DEF open_segment_Flush, SameRec, Recorder
    <3> QED BY <3>1 DEF Follows
  <2>4. CASE Handshake
    BY <1>3, <2>4 DEF Handshake, Follows, RecorderPhases
  <2>5. CASE EndOfStream
    BY <1>3, <2>5 DEF EndOfStream, Follows, RecorderPhases
  <2> QED BY <1>5, <2>1, <2>2, <2>3, <2>4, <2>5
<1>6. CASE Rotate \/ NeedsNoRotation \/ HalfAppended \/ append \/ HalfPublished
  <2>1. CASE Rotate
    <3>1. SameRec /\ rec.phase = "drain" /\ rec'.phase = "create"
      BY <1>1, <2>1 DEF Rotate, SameRec, Recorder
    <3> QED BY <3>1 DEF Follows
  <2>2. CASE NeedsNoRotation
    BY <1>3, <2>2 DEF NeedsNoRotation, Follows, RecorderPhases
  <2>3. CASE HalfAppended
    BY <1>3, <2>3 DEF HalfAppended, Follows, RecorderPhases
  <2>4. CASE append
    BY <1>3, <2>4 DEF append, Follows, RecorderPhases
  <2>5. CASE HalfPublished
    BY <1>3, <2>5 DEF HalfPublished, Follows, RecorderPhases
  <2> QED BY <1>6, <2>1, <2>2, <2>3, <2>4, <2>5
<1>7. CASE Commit \/ PushFinal \/ Compress
  <2>1. CASE Commit
    <3>1. SameRec /\ rec.phase = "committed" /\ rec'.phase \in {"read", "finish"}
      BY <1>1, <2>1 DEF Commit, SameRec, Recorder
    <3> QED BY <3>1 DEF Follows
  <2>2. CASE PushFinal
    <3>1. SameRec /\ rec.phase = "push" /\ rec'.phase = "join"
      BY <1>1, <2>2 DEF PushFinal, SameRec, Recorder
    <3> QED BY <3>1 DEF Follows
  <2>3. CASE Compress
    <3>1. SameRec /\ rec'.phase = rec.phase
      BY <1>1, <2>3 DEF Compress, SameRec, Recorder
    <3> QED BY <3>1 DEF Follows
  <2> QED BY <1>7, <2>1, <2>2, <2>3
<1> QED BY <1>4, <1>5, <1>6, <1>7

LEMMA OtherSteps ==
  ASSUME CaptureTypeOK, DiskInv
  PROVE  /\ open_segment_File => DiskGood /\ OpenKind
         /\ Start => DiskGood /\ StartKind
         /\ Ingest \/ ExecutionWalWriter_append => DiskGood /\ (QuietKind \/ AcceptKind)
         /\ Join \/ ProcessCrash => DiskGood /\ StopKind
         /\ Finalize => DiskGood /\ (QuietKind \/ StopKind)
<1>1. rec \in Recorder
  BY TypedFacts
<1>2. ASSUME open_segment_File PROVE DiskGood /\ OpenKind
  <2>1. "init" \in RecorderPhases /\ Go("init") /\ disk' = Append(disk, NewSegment)
    BY <1>2 DEF open_segment_File, RecorderPhases
  <2>2. SameRec /\ rec'.phase = "init"
    BY <1>1, <2>1, GoFacts DEF SameRec
  <2> QED BY <1>2, <2>1, <2>2, OpenFileDisk DEF OpenKind
<1>3. ASSUME Start PROVE DiskGood /\ StartKind
  <2>1. /\ rec.phase = "down" /\ rec'.phase \in {"create", "recover"}
        /\ rec'.session = last + 1 /\ rec'.ts = rec.ts /\ rec'.last = rec.last
        /\ rec'.pending = rec.pending /\ rec'.lost_power = rec.lost_power
    BY <1>1, <1>3 DEF Start, Recorder
  <2> QED BY <1>3, <2>1, StartDisk DEF StartKind
<1>4. ASSUME Ingest \/ ExecutionWalWriter_append PROVE DiskGood /\ (QuietKind \/ AcceptKind)
  <2>1. DiskGood /\ SameLog
    BY <1>4, FeedDisk
  <2>2. ASSUME NEW q \in Nat \ {0}, NEW d \in BOOLEAN, Accept(q, d), rec.phase = "read", rec.last = 0 \/ q = rec.last + 1
        PROVE  AcceptKind
    <3>1. /\ rec'.phase = "drain" /\ rec'.lost_power = rec.lost_power /\ rec'.session = rec.session
          /\ rec'.ts = rec.ts + 1 /\ rec'.last = q /\ rec'.pending = FixedEvent(rec.session, q, rec.ts + 1)
      BY <1>1, <2>2 DEF Accept, Recorder
    <3> QED BY <2>1, <2>2, <3>1 DEF AcceptKind
  <2>3. CASE Ingest
    <3>1. PICK w \in Received, d \in BOOLEAN :
            rec.phase = "read" /\ IF validate_prefix(w) = "accepted" THEN Accept(w.seq, d) ELSE Go("finish")
      BY <2>3 DEF Ingest
    <3>2. w.seq \in Nat \ {0}
      BY <1>1 DEF Received, Recorder
    <3>3. CASE validate_prefix(w) = "accepted"
      <4>1. rec.last = 0 \/ w.seq = rec.last + 1
        BY <1>1, <3>2, <3>3 DEF validate_prefix, observe, Recorder
      <4> QED BY <2>1, <2>2, <3>1, <3>2, <3>3, <4>1
    <3>4. CASE validate_prefix(w) # "accepted"
      <4>1. Go("finish") /\ "finish" \in RecorderPhases
        BY <3>1, <3>4 DEF RecorderPhases
      <4> QED BY <1>1, <2>1, <3>1, <4>1, GoFacts DEF QuietKind, SameRec, Follows
    <3> QED BY <3>3, <3>4
  <2>4. CASE ExecutionWalWriter_append
    <3>1. rec.last + 1 \in Nat \ {0}
      BY <1>1 DEF Recorder
    <3>2. rec.phase = "read" /\ Accept(rec.last + 1, FALSE)
      BY <2>4 DEF ExecutionWalWriter_append
    <3> QED BY <2>1, <2>2, <3>1, <3>2
  <2> QED BY <1>4, <2>3, <2>4
<1>5. ASSUME Join \/ ProcessCrash PROVE DiskGood /\ StopKind
  BY <1>5, EndDisk, CrashDisk DEF StopKind, Join, ProcessCrash
<1>6. ASSUME Finalize PROVE DiskGood /\ (QuietKind \/ StopKind)
  <2>1. DiskGood /\ SameLog
    BY <1>6, SealDisk
  <2>2. CASE stream = "market"
    <3>1. SameRec /\ rec.phase = "finish" /\ rec'.phase = "push"
      BY <1>1, <1>6, <2>2 DEF Finalize, SameRec, Recorder
    <3> QED BY <2>1, <3>1 DEF QuietKind, Follows
  <2>3. CASE stream # "market"
    BY <1>6, <2>1, <2>3 DEF Finalize, StopKind
  <2> QED BY <2>2, <2>3
<1> QED BY <1>2, <1>3, <1>4, <1>5, <1>6

LEMMA NextKinds ==
  ASSUME CaptureTypeOK, DiskInv, PendingInv, [CaptureNext]_captureVars
  PROVE  /\ DiskGood
         /\ QuietKind \/ OpenKind \/ StartKind \/ AcceptKind \/ StopKind \/ publish_boundary \/ PowerLoss
<1>1. rec \in Recorder /\ jobs \in Seq(1 .. last) /\ disk \in Seq(Segment)
  BY TypedFacts
<1>2. ASSUME disk' = disk, rec' = rec, jobs' = jobs PROVE DiskGood /\ QuietKind
  <2>1. last' = last /\ current' = current
    BY <1>2, CurrentSame
  <2>2. DiskInv'
    BY <1>2, <2>1 DEF DiskInv, CurrentInv, QueueInv
  <2> QED BY <1>1, <1>2, <2>1, <2>2 DEF DiskGood, QuietKind, SameLog, SameRec, Follows
<1>3. CASE UNCHANGED captureVars
  BY <1>2, <1>3 DEF captureVars
<1>4. CASE TailerCrash \/ TailerStep
  BY <1>2, <1>4 DEF TailerCrash, TailerStep, open_tailer, NextBuffered, rescan, WalReader_open, RawFileStream_read,
     WalReader_resolve_boundary, fill_from_current_segment, Advance
<1>5. CASE publish_boundary
  BY <1>5, PublishDisk
<1>6. CASE PowerLoss
  BY <1>6, PowerLossDisk
<1> QED BY <1>3, <1>4, <1>5, <1>6, QuietSteps, OtherSteps DEF CaptureNext

LEMMA LeftStep ==
  ASSUME CaptureNext, left \in [FaultKinds -> Nat]
  PROVE  left' \in [FaultKinds -> Nat]
<1>0. ASSUME NEW f \in FaultKinds, Fault(f) PROVE left' \in [FaultKinds -> Nat]
  BY <1>0 DEF Fault
<1>1. CASE Recompress \/ open_segment_File \/ Handshake \/ Ingest \/ Compress \/ ProcessCrash \/ PowerLoss \/ TailerCrash
  BY <1>0, <1>1 DEF Recompress, open_segment_File, Handshake, Ingest, Compress, ProcessCrash, PowerLoss, TailerCrash, FaultKinds
<1>2. CASE TailerStep
  BY <1>2 DEF TailerStep, open_tailer, NextBuffered, rescan, WalReader_open, RawFileStream_read,
     WalReader_resolve_boundary, fill_from_current_segment, Advance
<1>3. CASE Start \/ WalWriter_recover \/ EmptyMetadata \/ WriteMetadata \/ Failed
           \/ open_segment_Header \/ open_segment_Slots \/ open_segment_Flush \/ EndOfStream \/ ExecutionWalWriter_append
  BY <1>3 DEF Start, WalWriter_recover, EmptyMetadata, WriteMetadata, Failed,
     open_segment_Header, open_segment_Slots, open_segment_Flush, EndOfStream, ExecutionWalWriter_append
<1>4. CASE Rotate \/ NeedsNoRotation \/ HalfAppended \/ append \/ HalfPublished \/ publish_boundary \/ Commit
           \/ Finalize \/ PushFinal \/ Join
  BY <1>4 DEF Rotate, NeedsNoRotation, HalfAppended, append, HalfPublished, publish_boundary, Commit, Finalize,
     PushFinal, Join
<1> QED BY <1>1, <1>2, <1>3, <1>4 DEF CaptureNext

\* The clock and the history of the power, in every step but a loss of power.
LEMMA PowerKept ==
  ASSUME CaptureTypeOK, DiskInv, PendingInv, [CaptureNext]_captureVars
  PROVE  /\ PowerLoss => rec'.lost_power
         /\ ~PowerLoss => rec'.lost_power = rec.lost_power
<1>1. rec \in Recorder
  BY TypedFacts
<1>2. ~PowerLoss => rec'.lost_power = rec.lost_power
  BY <1>1, NextKinds, StoppedFacts, PublishDisk DEF QuietKind, OpenKind, StartKind, AcceptKind, StopKind, SameRec
<1>3. PowerLoss => rec'.lost_power
  <2> DEFINE x == Stopped
  <2>1. x \in Recorder /\ (PowerLoss => rec' = [x EXCEPT !.ts = 0, !.lost_power = TRUE])
    BY <1>1, StoppedFacts DEF PowerLoss
  <2> HIDE DEF x
  <2> QED BY <2>1 DEF Recorder
<1> QED BY <1>2, <1>3

LEMMA PendingKept ==
  ASSUME CaptureTypeOK, DiskInv, PendingInv, [CaptureNext]_captureVars
  PROVE  PendingInv'
<1>1. rec \in Recorder /\ ~IsRecord(NoRecord)
  BY TypedFacts, NewTyped
<1>2. CASE QuietKind
  <2>1. rec'.pending = rec.pending /\ rec'.last = rec.last /\ Follows(rec.phase, rec'.phase)
    BY <1>2 DEF QuietKind, SameRec
  <2>2. rec'.phase = "create" \/ rec'.phase = "finish" \/ rec'.phase \in {"down", "failed"}
        \/ rec'.phase \notin {"create", "finish", "down", "failed"}
    OBVIOUS
  <2> QED BY <1>1, <2>1, <2>2 DEF PendingInv, Follows, Idle, Repairing, Adding
<1>3. CASE OpenKind
  BY <1>3 DEF OpenKind, SameRec, PendingInv, Idle, Repairing, Adding
<1>4. CASE StartKind
  BY <1>4 DEF StartKind, PendingInv, Idle, Repairing, Adding
<1>5. CASE AcceptKind
  <2>1. IsRecord(rec'.pending)
    BY <1>5 DEF AcceptKind, FixedEvent, IsRecord
  <2> QED BY <1>5, <2>1 DEF AcceptKind, PendingInv, Idle, Repairing, Adding
<1>6. CASE StopKind \/ PowerLoss
  <2>1. rec'.phase = "down" /\ rec'.pending = NoRecord /\ rec'.last = 0
    <3> DEFINE x == Stopped
    <3>1. x \in Recorder /\ x.phase = "down" /\ x.pending = NoRecord /\ x.last = 0
      BY <1>1, StoppedFacts
    <3>2. rec' = x \/ rec' = [x EXCEPT !.ts = 0, !.lost_power = TRUE]
      BY <1>6 DEF StopKind, PowerLoss
    <3> HIDE DEF x
    <3> QED BY <3>1, <3>2 DEF Recorder
  <2> QED BY <2>1 DEF PendingInv, Idle, Repairing, Adding
<1>7. CASE publish_boundary
  BY <1>7, PublishDisk DEF PendingInv, Idle, Repairing, Adding
<1> QED BY <1>2, <1>3, <1>4, <1>5, <1>6, <1>7, NextKinds

-----------------------------------------------------------------------------
(* What the steps do to the log. *)

LEMMA LogSame ==
  ASSUME CaptureTypeOK, DiskGood, SameLog
  PROVE  Log' = Log
<1>1. /\ disk \in Seq(Segment) /\ disk' \in Seq(Segment) /\ Len(disk') = Len(disk)
      /\ \A i \in 1 .. Len(disk') : Readable(disk'[i]) = Readable(disk[i])
  BY TypedFacts DEF SameLog, DiskGood, last
<1>2. Recorded(disk') = Recorded(disk)
  BY <1>1, RecordedSame
<1> QED BY <1>2 DEF Log

LEMMA OpenLog ==
  ASSUME CaptureTypeOK, OpenKind
  PROVE  Log' = Log
<1>1. disk \in Seq(Segment) /\ disk' = Append(disk, NewSegment) /\ Recorded(disk) \in Seq(Frame)
  BY TypedFacts, RecordedTyped DEF OpenKind
<1>2. Readable(NewSegment) = <<>>
  BY NewTyped, ReadableFacts DEF NewSegment
<1>3. Recorded(disk') = Recorded(disk) \o <<>>
  BY <1>1, <1>2, NewTyped, RecordedAppend
<1> QED BY <1>1, <1>3, ConcatEmptySeq DEF Log

\* The log is what the earlier segments hold, then what the last one holds.
LEMMA LastLog ==
  ASSUME NEW d \in Seq(Segment), d # <<>>
  PROVE  LET n == Len(d) - 1
         IN  /\ Recorded(SubSeq(d, 1, n)) \in Seq(Frame)
             /\ Recorded(d) = Recorded(SubSeq(d, 1, n)) \o Readable(d[n+1])
<1> DEFINE n == Len(d) - 1
<1>1. n \in 0 .. Len(d) /\ n < Len(d) /\ n + 1 = Len(d) /\ n + 1 \in 0 .. Len(d)
  BY EmptySeq, LenProperties
<1>2. SubSeq(d, 1, n) \in Seq(Segment) /\ Recorded(SubSeq(d, 1, n + 1)) = Recorded(SubSeq(d, 1, n)) \o Readable(d[n+1])
  <2> HIDE DEF n
  <2> QED BY <1>1, RecordedFirst
<1>3. SubSeq(d, 1, n + 1) = d
  <2>1. SubSeq(d, 1, n + 1) \in Seq(Segment) /\ Len(SubSeq(d, 1, n + 1)) = Len(d)
        /\ \A i \in 1 .. Len(d) : SubSeq(d, 1, n + 1)[i] = d[i]
    BY <1>1, RecordedFirst
  <2> QED BY <2>1, SeqEqual
<1> QED BY <1>2, <1>3, RecordedTyped

\* When only the last segment changes, only the end of the log does.
LEMMA LastLogStep ==
  ASSUME CaptureTypeOK, DiskGood, disk # <<>>, disk' # <<>>, last' = last,
         \A i \in 1 .. last : i # last => Readable(disk'[i]) = Readable(disk[i])
  PROVE  \E r \in Seq(Frame) : Log = r \o Readable(current) /\ Log' = r \o Readable(current')
<1> DEFINE n == Len(disk) - 1
<1>1. disk \in Seq(Segment) /\ disk' \in Seq(Segment) /\ Len(disk') = Len(disk) /\ Len(disk) \in Nat /\ Len(disk) > 0
  BY TypedFacts, EmptySeq, LenProperties DEF DiskGood, last
<1>2. Recorded(disk) = Recorded(SubSeq(disk, 1, n)) \o Readable(disk[n+1]) /\ Recorded(SubSeq(disk, 1, n)) \in Seq(Frame)
  BY <1>1, LastLog
<1>3. Recorded(disk') = Recorded(SubSeq(disk', 1, n)) \o Readable(disk'[n+1])
  BY <1>1, LastLog
<1>4. Recorded(SubSeq(disk', 1, n)) = Recorded(SubSeq(disk, 1, n))
  <2>1. n \in 0 .. Len(disk)
    BY <1>1
  <2>2. /\ SubSeq(disk, 1, n) \in Seq(Segment) /\ Len(SubSeq(disk, 1, n)) = n
        /\ \A i \in 1 .. n : SubSeq(disk, 1, n)[i] = disk[i]
    BY <1>1, <2>1, RecordedFirst
  <2>3. /\ SubSeq(disk', 1, n) \in Seq(Segment) /\ Len(SubSeq(disk', 1, n)) = n
        /\ \A i \in 1 .. n : SubSeq(disk', 1, n)[i] = disk'[i]
    BY <1>1, <2>1, RecordedFirst
  <2>4. \A i \in 1 .. n : Readable(disk'[i]) = Readable(disk[i])
    BY <1>1 DEF last
  <2> QED BY <2>2, <2>3, <2>4, RecordedSame
<1>5. current = disk[n+1] /\ current' = disk'[n+1]
  BY <1>1 DEF current, last
<1> QED BY <1>2, <1>3, <1>4, <1>5 DEF Log

LEMMA PublishLog ==
  ASSUME CaptureTypeOK, DiskInv, PendingInv, publish_boundary
  PROVE  Log' = Append(Log, rec.pending)
<1>1. PICK r \in Seq(Frame) : Log = r \o Readable(current) /\ Log' = r \o Readable(current')
  BY PublishDisk, LastLogStep
<1>2. Readable(current) \in Seq(Frame) /\ Readable(current') = Append(Readable(current), rec.pending)
  BY PublishDisk, TypedFacts, ReadableFacts
<1>3. rec.pending \in Frame
  BY TypedFacts DEF Recorder
<1> QED BY <1>1, <1>2, <1>3

\* A loss of power takes away the end of what was written since the flush, and nothing else.
LEMMA PowerReads ==
  ASSUME CaptureTypeOK, DiskInv, PowerLoss, ~current.sealed, Covered(current, safe), Steady(current)
  PROVE  /\ Readable(current') \in Seq(Frame) /\ Readable(current) \in Seq(Frame)
         /\ safe.frames \in Nat /\ safe.frames <= Len(Readable(current'))
         /\ Len(Readable(current')) <= Len(Readable(current))
         /\ \A i \in 1 .. Len(Readable(current')) : Readable(current')[i] = Readable(current)[i]
         /\ \A i \in 1 .. Len(Readable(current)) : Readable(current)[i] = current.data[i] /\ i \in 1 .. Len(current.data)
<1> DEFINE s == current'
           m == s.meta
           f == safe.frames
           data == current.data
<1>1. /\ disk # <<>> /\ s \in Segment /\ s.data \in Survivors(data) /\ m \in safe.metas
      /\ Unsealed(current) /\ (s.header => current.header) /\ (current.header /\ safe.header => s.header)
  BY PowerLossDisk
<1>2. current \in Segment /\ f \in Nat /\ data \in Seq(Frame) /\ Len(data) \in Nat /\ m \in Sidecar
  <2>1. current \in Segment
    BY <1>1, TypedFacts
  <2> QED BY <1>1, <2>1, LenProperties DEF CaptureTypeOK, Segment
<1>3. Steady(current)
  OBVIOUS
<1>4. /\ f <= Len(data) /\ Whole(data, f) /\ (f > 0 => safe.header) /\ (safe.header => current.header)
      /\ IF valid_slot(select_boundary(m))
         THEN /\ valid_slot(Boundary(current)) /\ f <= select_boundary(m).committed
              /\ select_boundary(m).committed <= Boundary(current).committed
         ELSE data = <<>>
  BY <1>1 DEF Covered
<1>5. /\ s.data \in Seq(Frame) /\ Len(s.data) = Len(data)
      /\ \A i \in 1 .. Len(data) : s.data[i] \in {data[i], Zeros, Torn} /\ (i <= f => s.data[i] = data[i])
  <2>1. s.data \in Seq(Frame)
    BY <1>1 DEF Segment
  <2>2. s.data \in [1 .. Len(data) -> Range(data) \cup {Zeros, Torn}]
        /\ \A i \in 1 .. Len(data) : IF i <= f THEN s.data[i] = data[i] ELSE s.data[i] \in {data[i], Zeros, Torn}
    BY <1>1 DEF Survivors
  <2>3. Len(s.data) = Len(data)
    BY <1>2, <2>1, <2>2, LenProperties
  <2> QED BY <2>1, <2>2, <2>3
<1>6. /\ Readable(s) \in Seq(Frame) /\ Len(Readable(s)) <= Len(data) /\ Len(Readable(s)) \in Nat
      /\ \A i \in 1 .. Len(Readable(s)) : Readable(s)[i] = s.data[i] /\ IsRecord(s.data[i])
      /\ ~s.header => Readable(s) = <<>>
  BY <1>1, <1>5, ReadableFacts, LenProperties
<1>7. /\ Readable(current) \in Seq(Frame) /\ Len(Readable(current)) <= Len(data) /\ Len(Readable(current)) \in Nat
      /\ \A i \in 1 .. Len(Readable(current)) : Readable(current)[i] = data[i]
  BY <1>2, ReadableFacts, LenProperties
<1>8. \A i \in 1 .. Len(Readable(s)) : Readable(s)[i] = data[i]
  <2> SUFFICES ASSUME NEW i \in 1 .. Len(Readable(s)) PROVE Readable(s)[i] = data[i]
    OBVIOUS
  <2>1. i \in 1 .. Len(data)
    BY <1>2, <1>6
  <2>2. s.data[i] \in {data[i], Zeros, Torn} /\ Readable(s)[i] = s.data[i] /\ IsRecord(s.data[i])
    BY <1>5, <1>6, <2>1
  <2> QED BY <2>2, NewTyped
<1>9. CASE ~valid_slot(select_boundary(m))
  <2>1. Len(data) = 0
    BY <1>4, <1>9
  <2> QED BY <1>2, <1>4, <1>6, <1>7, <2>1
<1>10. CASE valid_slot(select_boundary(m))
  <2> DEFINE c == select_boundary(m).committed
             b == Boundary(current).committed
  <2>1. c \in Nat /\ b \in Nat /\ f <= c /\ c <= b /\ b <= Len(data)
    <3>1. select_boundary(m) \in Slot /\ Boundary(current) \in Slot
      BY <1>2, SelectFacts, LimitFacts
    <3> QED BY <1>3, <1>4, <1>10, <3>1 DEF Slot, Steady
  <2>2. Len(Readable(current)) = b
    BY <1>2, <1>3, <1>4, <1>10, ReadableSteady
  <2>3. Limit(s) = c
    <3>1. Limit(s) = Smaller(c, Len(s.data))
      BY <1>1, <1>10, LimitFacts DEF Boundary
    <3> QED BY <1>2, <1>5, <2>1, <3>1 DEF Smaller
  <2>4. Len(Readable(s)) <= c
    <3>1. CASE s.header
      BY <1>1, <2>3, <3>1, ReadableFacts
    <3>2. CASE ~s.header
      BY <1>6, <2>1, <3>2
    <3> QED BY <3>1, <3>2
  <2>5. f <= Len(Readable(s))
    <3>1. CASE f = 0
      BY <1>6, <3>1
    <3>2. CASE f > 0
      <4>1. s.header
        BY <1>1, <1>4, <3>2
      <4>2. Readable(s) = ValidPrefix(s, c)
        BY <2>3, <4>1 DEF Readable, open_ok, ReadAll, next, Limit
      <4>3. f <= Len(s.data) /\ Whole(s.data, f)
        BY <1>2, <1>4, <1>5 DEF Whole
      <4> HIDE DEF s, f, c
      <4> QED BY <1>1, <1>2, <2>1, <4>2, <4>3, ValidPrefixFacts
    <3> QED BY <1>2, <3>1, <3>2
  <2> HIDE DEF s, f, c, b, data
  <2>6. Len(Readable(s)) <= Len(Readable(current))
    BY <1>6, <2>1, <2>2, <2>4
  <2>7. \A i \in 1 .. Len(Readable(s)) : i \in 1 .. Len(Readable(current))
    BY <1>6, <1>7, <2>6
  <2>8. \A i \in 1 .. Len(Readable(current)) : i \in 1 .. Len(data)
    BY <1>2, <1>7
  <2> QED BY <1>2, <1>6, <1>7, <1>8, <2>5, <2>6, <2>7, <2>8 DEF s, f, data
<1> QED BY <1>9, <1>10

\* A machine that fails again before the recorder has written anything loses nothing more.
LEMMA PowerAgain ==
  ASSUME CaptureTypeOK, DiskInv, PowerLoss, ~current.sealed, safe = flush
  PROVE  SameLog /\ kept' = kept
<1> DEFINE s == current'
           data == current.data
           n == Len(data)
<1>1. /\ disk # <<>> /\ s \in Segment /\ s.data \in Survivors(data) /\ s.meta \in safe.metas
      /\ (s.header => current.header) /\ (current.header /\ safe.header => s.header)
      /\ s.sealed = current.sealed /\ s.zst = current.zst /\ last' = last
      /\ \A i \in 1 .. last : i # last => Readable(disk'[i]) = Readable(disk[i])
      /\ kept' = kept \ (Range(data) \ Range(SubSeq(data, 1, safe.frames)))
  BY PowerLossDisk
<1>2. safe.frames = n /\ safe.metas = {current.meta} /\ safe.header = current.header
  BY DEF flush
<1>3. current \in Segment /\ data \in Seq(Frame) /\ n \in Nat /\ disk \in Seq(Segment) /\ last \in 1 .. last
  <2>1. current \in Segment /\ disk \in Seq(Segment) /\ last \in 1 .. last
    BY <1>1, TypedFacts
  <2> QED BY <2>1, LenProperties DEF Segment
<1>4. s.data = data
  <2>1. s.data \in Seq(Frame)
    BY <1>1 DEF Segment
  <2>2. s.data \in [1 .. n -> Range(data) \cup {Zeros, Torn}] /\ \A i \in 1 .. n : s.data[i] = data[i]
    BY <1>1, <1>2, <1>3 DEF Survivors
  <2>3. Len(s.data) = n
    BY <1>3, <2>1, <2>2, LenProperties
  <2> HIDE DEF s, data, n
  <2> QED BY <1>3, <2>1, <2>2, <2>3, SeqEqual DEF n
<1>5. s.header = current.header
  <2>1. s.header \in BOOLEAN /\ current.header \in BOOLEAN
    BY <1>1, <1>3 DEF Segment
  <2> QED BY <1>1, <1>2, <2>1
<1>6. s = current
  <2>1. ASSUME NEW a \in Segment, NEW b \in Segment, a.header = b.header, a.data = b.data, a.meta = b.meta,
               a.sealed = b.sealed, a.zst = b.zst
        PROVE  a = b
    BY <2>1 DEF Segment
  <2> QED BY <1>1, <1>2, <1>3, <1>4, <1>5, <2>1
<1>7. SameLog
  BY <1>1, <1>3, <1>6 DEF current, SameLog
<1>8. SubSeq(data, 1, n) = data
  BY <1>3
<1> QED BY <1>1, <1>2, <1>7, <1>8

LEMMA PowerLog ==
  ASSUME CaptureTypeOK, DiskInv, SafeInv, PowerLoss, KeptReadable
  PROVE  /\ KeptReadable' /\ Log \in Seq(Frame) /\ Log' \in Seq(Frame) /\ Len(Log') <= Len(Log)
         /\ \A i \in 1 .. Len(Log') : Log'[i] = Log[i]
<1>1. /\ DiskGood /\ disk # <<>> /\ last' = last /\ disk' # <<>> /\ disk \in Seq(Segment) /\ disk' \in Seq(Segment)
      /\ \A i \in 1 .. last : i # last => Readable(disk'[i]) = Readable(disk[i])
  BY PowerLossDisk, TypedFacts DEF DiskGood
<1>2. Log \in Seq(Frame) /\ Log' \in Seq(Frame) /\ Len(Log) \in Nat /\ Len(Log') \in Nat
  BY <1>1, RecordedTyped DEF Log
<1>3. CASE current.sealed \/ (~current.sealed /\ safe = flush)
  <2>1. SameLog /\ kept' = kept
    BY <1>3, PowerLossDisk, PowerAgain
  <2>2. Log' = Log
    BY <1>1, <2>1, LogSame
  <2> QED BY <1>2, <2>1, <2>2 DEF Log, KeptReadable
<1>4. CASE ~current.sealed /\ Covered(current, safe) /\ Steady(current)
  <2>1. PICK r \in Seq(Frame) : Log = r \o Readable(current) /\ Log' = r \o Readable(current')
    BY <1>1, LastLogStep
  <2> DEFINE a == Readable(current)
             b == Readable(current')
             f == safe.frames
             data == current.data
  <2>2. /\ b \in Seq(Frame) /\ a \in Seq(Frame) /\ f \in Nat /\ f <= Len(b) /\ Len(b) <= Len(a)
        /\ \A i \in 1 .. Len(b) : b[i] = a[i]
        /\ \A i \in 1 .. Len(a) : a[i] = data[i] /\ i \in 1 .. Len(data)
    BY <1>4, PowerReads
  <2>3. data \in Seq(Frame)
    BY <1>1, TypedFacts DEF Segment
  <2>4. kept' = kept \ (Range(data) \ Range(SubSeq(data, 1, f)))
    BY <1>4, PowerLossDisk
  <2>5. KeptReadable = (kept \subseteq Range(Log)) /\ KeptReadable' = (kept' \subseteq Range(Log'))
    BY DEF KeptReadable, Log
  <2> HIDE DEF a, b, f, data
  <2>6. Log = r \o a /\ Log' = r \o b
    BY <2>1 DEF a, b
  <2>7. Len(r) \in Nat /\ Len(a) \in Nat /\ Len(b) \in Nat /\ Len(data) \in Nat
    BY <2>2, <2>3, LenProperties
  <2>8. /\ Len(Log) = Len(r) + Len(a) /\ Len(Log') = Len(r) + Len(b)
        /\ \A i \in 1 .. Len(r) : Log[i] = r[i] /\ Log'[i] = r[i]
        /\ \A i \in 1 .. Len(a) : Log[Len(r) + i] = a[i]
        /\ \A i \in 1 .. Len(b) : Log'[Len(r) + i] = b[i]
    BY <2>2, <2>6, <2>7
  <2> HIDE DEF Log
  <2>9. \A i \in 1 .. Len(Log') : Log'[i] = Log[i]
    <3> SUFFICES ASSUME NEW i \in 1 .. Len(Log') PROVE Log'[i] = Log[i]
      OBVIOUS
    <3>1. CASE i <= Len(r)
      <4>1. i \in 1 .. Len(r)
        BY <2>7, <2>8, <3>1
      <4> QED BY <2>8, <4>1
    <3>2. CASE i > Len(r)
      <4>1. PICK j \in 1 .. Len(b) : i = Len(r) + j
        <5>1. i - Len(r) \in 1 .. Len(b) /\ i = Len(r) + (i - Len(r))
          BY <2>7, <2>8, <3>2
        <5> QED BY <5>1
      <4>2. j \in 1 .. Len(a)
        BY <2>2, <2>7
      <4> QED BY <2>2, <2>8, <4>1, <4>2
    <3> QED BY <2>7, <2>8, <3>1, <3>2
  <2>10. ASSUME NEW x \in kept' PROVE x \in Range(Log')
    <3>1. x \in kept /\ (x \in Range(data) => x \in Range(SubSeq(data, 1, f)))
      BY <2>4, <2>10
    <3>2. PICK i \in 1 .. Len(Log) : x = Log[i]
      <4>1. DOMAIN Log = 1 .. Len(Log)
        BY <1>2, LenProperties
      <4> QED BY <2>5, <3>1, <4>1 DEF Range
    <3>3. DOMAIN Log' = 1 .. Len(Log')
      BY <1>2, LenProperties
    <3>4. CASE i <= Len(r)
      <4>1. i \in 1 .. Len(r) /\ i \in 1 .. Len(Log')
        BY <2>7, <2>8, <3>4
      <4> QED BY <2>8, <3>2, <3>3, <4>1 DEF Range
    <3>5. CASE i > Len(r)
      <4>1. PICK j \in 1 .. Len(a) : i = Len(r) + j
        <5>1. i - Len(r) \in 1 .. Len(a) /\ i = Len(r) + (i - Len(r))
          BY <2>7, <2>8, <3>5
        <5> QED BY <5>1
      <4>2. x = data[j] /\ j \in 1 .. Len(data)
        BY <2>2, <2>8, <3>2, <4>1
      <4>3. x \in Range(data)
        <5>1. DOMAIN data = 1 .. Len(data)
          BY <2>3, LenProperties
        <5> QED BY <4>2, <5>1 DEF Range
      <4>4. PICK y \in 1 .. f : x = data[y]
        <5>1. f <= Len(data)
          <6>1. \A y \in 1 .. Len(a) : y \in 1 .. Len(data)
            BY <2>2
          <6> QED BY <2>2, <2>7, <4>1, <6>1
        <5>2. DOMAIN SubSeq(data, 1, f) = 1 .. f /\ \A y \in 1 .. f : SubSeq(data, 1, f)[y] = data[y]
          BY <2>2, <2>3, <2>7, <5>1
        <5> QED BY <3>1, <4>3, <5>2 DEF Range
      <4>5. y \in 1 .. Len(b) /\ y \in 1 .. Len(a)
        BY <2>2, <2>7
      <4>6. x = b[y]
        BY <2>2, <4>4, <4>5
      <4>7. x = Log'[Len(r) + y] /\ Len(r) + y \in 1 .. Len(Log')
        BY <2>7, <2>8, <4>5, <4>6
      <4> QED BY <3>3, <4>7 DEF Range
    <3> QED BY <2>7, <2>8, <3>4, <3>5
  <2>11. KeptReadable'
    BY <2>5, <2>10
  <2> QED BY <1>2, <2>2, <2>7, <2>8, <2>9, <2>11
<1> QED BY <1>1, <1>3, <1>4 DEF SafeInv

-----------------------------------------------------------------------------
(* What has been flushed. *)

\* After a failure the recorder has nothing at hand.
LEMMA StoppedRec ==
  ASSUME CaptureTypeOK, StopKind \/ PowerLoss
  PROVE  rec'.phase = "down" /\ rec'.pending = NoRecord /\ rec'.session = rec.session /\ (StopKind => rec'.ts = rec.ts)
<1> DEFINE x == Stopped
<1>1. x \in Recorder /\ x.phase = "down" /\ x.pending = NoRecord /\ x.session = rec.session /\ x.ts = rec.ts
  BY TypedFacts, StoppedFacts
<1>2. (StopKind => rec' = x) /\ (PowerLoss => rec' = [x EXCEPT !.ts = 0, !.lost_power = TRUE])
  BY DEF StopKind, PowerLoss
<1> HIDE DEF x
<1> QED BY <1>1, <1>2 DEF Recorder

LEMMA SafeSame ==
  ASSUME SafeInv, safe' = safe, disk' = disk, disk # <<>> /\ rec.phase \in Idle => rec'.phase \in Idle,
         rec'.phase \in Ready \cup Adding => rec.phase \in Ready \cup Adding
  PROVE  SafeInv'
<1>1. last' = last /\ current' = current /\ flush' = flush
  BY CurrentSame DEF flush
<1> QED BY <1>1 DEF SafeInv

LEMMA SafeSealed ==
  ASSUME DiskInv', disk' # <<>> => Closed(current')
  PROVE  SafeInv'
BY DEF SafeInv, Closed

\* The recorder's steps that leave the log and what was flushed alone.
LEMMA SafeQuiet ==
  ASSUME CaptureTypeOK, DiskInv, PendingInv, SafeInv,
         \/ Start \/ Failed \/ Handshake \/ Ingest \/ EndOfStream \/ ExecutionWalWriter_append
         \/ NeedsNoRotation \/ PushFinal \/ Join \/ ProcessCrash \/ TailerCrash \/ TailerStep \/ UNCHANGED captureVars
  PROVE  SafeInv'
<1>1. rec \in Recorder
  BY TypedFacts
<1>2. safe' = safe /\ disk' = disk
  BY DEF Start, Failed, Handshake, Ingest, EndOfStream, ExecutionWalWriter_append, NeedsNoRotation, PushFinal,
     Join, ProcessCrash, TailerCrash, TailerStep, open_tailer, NextBuffered, rescan, WalReader_open,
     RawFileStream_read, WalReader_resolve_boundary, fill_from_current_segment, Advance, captureVars
<1>3. CASE rec' = rec
  BY <1>2, <1>3, SafeSame
<1>4. CASE Start \/ PushFinal \/ Join \/ ProcessCrash \/ Failed
  <2>1. /\ rec'.phase \in {"create", "recover", "join", "down"}
        /\ disk # <<>> /\ rec.phase \in Idle => rec'.phase \in Idle
    <3>1. CASE Start
      BY <1>1, <3>1 DEF Start, Recorder, Idle
    <3>2. CASE PushFinal
      BY <1>1, <3>2 DEF PushFinal, Recorder, Idle
    <3>3. CASE Join \/ ProcessCrash
      BY <1>1, <3>3, StoppedFacts DEF Join, ProcessCrash, Idle
    <3>4. CASE Failed
      BY <1>1, <3>4 DEF Failed, Go, Recorder, Idle
    <3> QED BY <1>4, <3>1, <3>2, <3>3, <3>4
  <2> QED BY <1>2, <2>1, SafeSame DEF Ready, Adding
<1>5. CASE Handshake \/ EndOfStream \/ NeedsNoRotation
  <2>1. rec.phase \in Ready
    BY <1>1, <1>5 DEF Handshake, EndOfStream, NeedsNoRotation, Ready
  <2> QED BY <1>2, <2>1, SafeSame DEF Ready, Idle
<1>6. CASE Ingest \/ ExecutionWalWriter_append
  <2>1. rec.phase \in Ready
    BY <1>6 DEF Ingest, ExecutionWalWriter_append, Ready
  <2> QED BY <1>2, <2>1, SafeSame DEF Ready, Idle
<1> QED BY <1>3, <1>4, <1>5, <1>6
       DEF TailerCrash, TailerStep, open_tailer, NextBuffered, rescan, WalReader_open, RawFileStream_read,
     WalReader_resolve_boundary, fill_from_current_segment, Advance, captureVars

\* A segment that is closed cannot lose anything.
LEMMA SafeClosed ==
  ASSUME CaptureTypeOK, DiskInv, PendingInv, SafeInv,
         WalWriter_recover \/ EmptyMetadata \/ WriteMetadata \/ Recompress \/ Rotate \/ Finalize \/ Compress
  PROVE  SafeInv'
<1>1. rec \in Recorder /\ disk \in Seq(Segment) /\ last \in Nat
  BY TypedFacts
<1>2. DiskInv'
  BY QuietSteps, OtherSteps DEF DiskGood
<1>3. ASSUME rec'.phase \in Repairing \cup {"create", "push", "join"} PROVE SafeInv'
  BY <1>2, <1>3, SafeSealed DEF DiskInv, CurrentInv
<1>4. ASSUME NEW p \in RecorderPhases, Go(p) PROVE rec'.phase = p
  BY <1>1, <1>4, GoFacts
<1>5. CASE WalWriter_recover
  <2>1. CASE recoverable(current)
    <3>1. rec'.phase = "empty_meta"
      BY <1>1, <1>5, <2>1 DEF WalWriter_recover, Recorder
    <3> QED BY <1>3, <3>1 DEF Repairing
  <2>2. CASE ~recoverable(current)
    <3>1. Go("failed") /\ safe' = safe /\ disk' = disk
      BY <1>5, <2>2 DEF WalWriter_recover
    <3>2. rec'.phase = "failed"
      BY <1>4, <3>1 DEF RecorderPhases
    <3> QED BY <3>1, <3>2, SafeSame DEF Ready, Adding, Idle
  <2> QED BY <2>1, <2>2
<1>6. CASE EmptyMetadata \/ WriteMetadata
  <2>1. rec'.phase \in Repairing
    BY <1>4, <1>6 DEF EmptyMetadata, WriteMetadata, RecorderPhases, Repairing
  <2> QED BY <1>3, <2>1
<1>7. CASE Recompress
  <2>1. CASE Go("create")
    BY <1>3, <1>4, <2>1 DEF RecorderPhases
  <2>2. CASE Go("failed") /\ UNCHANGED disk
    <3>1. rec'.phase = "failed" /\ safe' = safe
      BY <1>4, <1>7, <2>2 DEF Recompress, RecorderPhases
    <3> QED BY <2>2, <3>1, SafeSame DEF Ready, Adding, Idle
  <2> QED BY <1>7, <2>1, <2>2 DEF Recompress
<1>8. CASE Rotate \/ Finalize
  BY <1>2, <1>8, SealDisk, SafeSealed
<1>9. CASE Compress
  <2>1. safe' = safe /\ rec'.phase = rec.phase /\ jobs # <<>>
    BY <1>1, <1>9 DEF Compress, Recorder
  <2>2. CASE disk' = disk
    BY <2>1, <2>2, SafeSame
  <2>3. CASE disk' = [disk EXCEPT ![Head(jobs)] = compress_closed_segment(@)]
    <3> DEFINE k == Head(jobs)
    <3>1. k \in 1 .. last /\ Closed(disk[k]) /\ disk[k] \in Segment
      <4>1. k = jobs[1] /\ 1 \in 1 .. Len(jobs) /\ jobs \in Seq(1 .. last)
        BY <2>1, TypedFacts, EmptySeq, LenProperties
      <4> QED BY <4>1, TypedFacts, ElementOfSeq DEF DiskInv, QueueInv
    <3>2. Closed(compress_closed_segment(disk[k]))
      BY <3>1, CompressFacts
    <3> HIDE DEF k
    <3>3. /\ Len(disk') = Len(disk) /\ disk'[k] = compress_closed_segment(disk[k])
          /\ \A i \in 1 .. last : i # k => disk'[i] = disk[i]
      BY <1>1, <2>3, <3>1 DEF last, k
    <3>4. last' = last /\ last \in 1 .. last
      BY <1>1, <3>1, <3>3 DEF last
    <3>5. CASE k = last
      BY <1>2, <3>2, <3>3, <3>4, <3>5, SafeSealed DEF current
    <3>6. CASE k # last
      <4>1. current' = current /\ disk # <<>>
        BY <1>1, <3>1, <3>3, <3>4, <3>6, TypedFacts DEF current
      <4>2. flush' = flush
        BY <4>1 DEF flush
      <4> QED BY <2>1, <4>1, <4>2 DEF SafeInv
    <3> QED BY <3>5, <3>6
  <2> QED BY <1>9, <2>2, <2>3 DEF Compress
<1> QED BY <1>5, <1>6, <1>7, <1>8, <1>9

\* A flush covers the segment when every frame is committed.
LEMMA FlushCovers ==
  ASSUME NEW seg \in Segment, valid_slot(Boundary(seg)), Boundary(seg).committed = Len(seg.data),
         Whole(seg.data, Len(seg.data)), seg.header, NEW s,
         s = [header |-> seg.header, frames |-> Len(seg.data), metas |-> {seg.meta}]
  PROVE  Covered(seg, s) /\ \A m \in s.metas : valid_slot(select_boundary(m))
<1>1. Len(seg.data) \in Nat
  BY LenProperties DEF Segment
<1>2. s.header = seg.header /\ s.frames = Len(seg.data) /\ s.metas = {seg.meta}
  OBVIOUS
<1> QED BY <1>1, <1>2 DEF Covered, Boundary

\* A segment without frames is fit to be recovered.
LEMMA EmptySteady ==
  ASSUME NEW seg, seg.data = <<>>, valid_slot(Boundary(seg)) => seg.header /\ Boundary(seg).committed = 0
  PROVE  Steady(seg)
<1>1. Len(seg.data) = 0
  OBVIOUS
<1> QED BY <1>1 DEF Steady, Whole

LEMMA SafeOpening ==
  ASSUME CaptureTypeOK, DiskInv, PendingInv, SafeInv,
         open_segment_File \/ open_segment_Header \/ open_segment_Slots
  PROVE  SafeInv'
<1>1. rec \in Recorder
  BY TypedFacts
<1>2. rec'.phase \notin Ready \cup Adding
  BY <1>1, GoFacts DEF open_segment_File, open_segment_Header, open_segment_Slots, RecorderPhases, Ready, Adding
<1>3. NoMeta \in Sidecar /\ ~valid_slot(select_boundary(NoMeta))
  <2>1. NoMeta \in Sidecar /\ ~valid_slot(NoMeta[1]) /\ ~valid_slot(NoMeta[2])
    BY NewTyped DEF NoMeta, BadSlot, valid_slot
  <2> QED BY <2>1, SelectFacts
<1>4. CASE open_segment_File
  <2>1. current' = NewSegment /\ safe' = NothingSafe
    BY <1>4, OpenFileDisk DEF open_segment_File
  <2>2. Covered(NewSegment, NothingSafe)
    <3>1. NewSegment.data = <<>> /\ NewSegment.meta = NoMeta /\ Len(NewSegment.data) = 0
      BY DEF NewSegment
    <3>2. NothingSafe.frames = 0 /\ ~NothingSafe.header /\ NothingSafe.metas = {NoMeta}
      BY DEF NothingSafe
    <3> QED BY <1>3, <3>1, <3>2 DEF Covered, Whole
  <2>3. Steady(NewSegment)
    BY <1>3, EmptySteady DEF NewSegment, Boundary
  <2> QED BY <1>2, <2>1, <2>2, <2>3 DEF SafeInv
<1>5. CASE open_segment_Header
  <2>1. /\ disk # <<>> /\ current.data = <<>> /\ current'.data = <<>> /\ current'.header
        /\ current'.meta = NoMeta /\ current.meta = NoMeta /\ safe' = safe
    BY <1>5, OpeningDisk DEF open_segment_Header
  <2>2. ~current.sealed
    BY <1>5, <2>1 DEF open_segment_Header, DiskInv, CurrentInv, NewSegment
  <2>3. Covered(current, safe)
    BY <1>5, <2>1, <2>2 DEF SafeInv, open_segment_Header, Idle
  <2>4. Covered(current', safe')
    BY <2>1, <2>3 DEF Covered, Boundary
  <2>5. Steady(current')
    BY <1>3, <2>1, EmptySteady DEF Boundary
  <2> QED BY <1>2, <2>4, <2>5 DEF SafeInv
<1>6. CASE open_segment_Slots
  <2> DEFINE one == <<FirstSlots[1], BadSlot>>
  <2>1. /\ disk # <<>> /\ current.data = <<>> /\ current'.data = <<>> /\ current'.header
        /\ current'.meta = FirstSlots
    BY <1>6, OpeningDisk
  <2>2. ~current.sealed /\ current.meta = NoMeta
    BY <1>6, <2>1 DEF open_segment_Slots, DiskInv, CurrentInv, NewSegment
  <2>3. safe' = [safe EXCEPT !.metas = @ \cup {one, FirstSlots}]
    BY <1>6 DEF open_segment_Slots, Exposed
  <2>4. /\ safe'.metas = safe.metas \cup {one, FirstSlots} /\ safe'.frames = safe.frames
        /\ safe'.header = safe.header /\ safe.frames \in Nat
    BY <2>3 DEF CaptureTypeOK
  <2>5. \A m \in {one, FirstSlots} : valid_slot(select_boundary(m)) /\ select_boundary(m).committed = 0
    <3>1. one \in Sidecar /\ FirstSlots \in Sidecar
      BY NewTyped
    <3>2. /\ one[1] = make_slot(1, 0) /\ one[2] = BadSlot /\ FirstSlots[1] = make_slot(1, 0)
          /\ FirstSlots[2] = make_slot(2, 0)
      BY DEF FirstSlots
    <3>3. /\ valid_slot(make_slot(1, 0)) /\ make_slot(1, 0).committed = 0 /\ make_slot(2, 0).committed = 0
          /\ BadSlot.committed = 0
      BY DEF valid_slot, make_slot, BadSlot
    <3> HIDE DEF one
    <3> QED BY <3>1, <3>2, <3>3, SelectFacts
  <2> HIDE DEF one
  <2>6. Covered(current', safe')
    <3>1. Covered(current, safe)
      BY <1>6, <2>1, <2>2 DEF SafeInv, open_segment_Slots, Idle
    <3>2. safe.frames = 0 /\ \A m \in safe.metas : ~valid_slot(select_boundary(m))
      BY <1>3, <2>1, <2>2, <2>4, <3>1 DEF Covered, Boundary
    <3> QED BY <2>1, <2>4, <2>5, <3>1, <3>2 DEF Covered, Boundary, Whole
  <2>7. Steady(current')
    BY <2>1, <2>5, EmptySteady DEF Boundary
  <2> QED BY <1>2, <2>6, <2>7 DEF SafeInv
<1> QED BY <1>4, <1>5, <1>6

LEMMA SafeFlush ==
  ASSUME CaptureTypeOK, DiskInv, PendingInv, SafeInv, open_segment_Flush \/ Commit
  PROVE  SafeInv'
<1>1. rec \in Recorder /\ disk' = disk /\ disk # <<>> /\ current \in Segment /\ current' = current
  BY TypedFacts, CurrentSame DEF open_segment_Flush, Commit, DiskInv
<1>2. rec.phase \notin Idle
  BY DEF open_segment_Flush, Commit, Idle
<1>3. ASSUME safe' = flush PROVE SafeInv'
  <2>1. valid_slot(Boundary(current)) /\ Boundary(current).committed = Len(current.data)
        /\ Whole(current.data, Len(current.data)) /\ current.header
    <3>1. CASE open_segment_Flush
      <4>1. current = [NewSegment EXCEPT !.header = TRUE, !.meta = FirstSlots]
        BY <1>1, <3>1 DEF open_segment_Flush, DiskInv, CurrentInv
      <4>2. current.meta = FirstSlots /\ current.header /\ Len(current.data) = 0
        BY <4>1 DEF NewSegment
      <4>3. Named(FirstSlots, 2, 0) /\ FirstSlots \in Sidecar
        BY NewTyped DEF Named, FirstSlots, make_slot, SlotOf
      <4>4. valid_slot(select_boundary(FirstSlots)) /\ select_boundary(FirstSlots).committed = 0
        BY <4>3, NamedBoundary
      <4> QED BY <4>2, <4>4 DEF Boundary, Whole
    <3>2. CASE Commit
      <4>1. Writing(current, rec.generation, Len(current.data)) /\ rec.generation \in Nat /\ Len(current.data) \in Nat
        BY <1>1, <3>2, LenProperties DEF Commit, DiskInv, CurrentInv, Ready, Recorder, Segment
      <4> QED BY <1>1, <4>1, WritingFacts DEF Writing
    <3> QED BY <3>1, <3>2
  <2>2. Covered(current, safe') /\ \A m \in safe'.metas : valid_slot(select_boundary(m))
    BY <1>1, <1>3, <2>1, FlushCovers DEF flush
  <2>3. Steady(current)
    <3>1. Len(current.data) \in Nat
      BY <1>1, LenProperties DEF Segment
    <3> QED BY <2>1, <3>1 DEF Steady
  <2> QED BY <1>1, <2>2, <2>3 DEF SafeInv
<1>4. CASE open_segment_Flush
  BY <1>3, <1>4 DEF open_segment_Flush
<1>5. CASE Commit
  <2>1. safe' = flush \/ (safe' = safe /\ rec.phase \in Ready)
    BY <1>5 DEF Commit, Ready
  <2> QED BY <1>1, <1>2, <1>3, <2>1, SafeSame
<1> QED BY <1>4, <1>5

LEMMA SafeWriting ==
  ASSUME CaptureTypeOK, DiskInv, PendingInv, SafeInv, HalfAppended \/ append \/ HalfPublished \/ publish_boundary
  PROVE  SafeInv'
<1>1. rec \in Recorder /\ safe.frames \in Nat /\ safe.metas \subseteq Sidecar
  BY TypedFacts DEF CaptureTypeOK
<1>2. Steady(current')
  <2>1. DiskGood /\ disk' # <<>> /\ rec'.phase \in Ready \cup Adding
    BY <1>1, HalfAppendedDisk, AppendDisk, HalfPublishedDisk, PublishDisk, GoFacts
       DEF HalfAppended, append, HalfPublished, RecorderPhases, Ready, Adding
  <2>2. current' \in Segment /\ rec'.generation \in Nat
    BY <2>1, ElementOfSeq, EmptySeq, LenProperties DEF DiskGood, current, last, Recorder
  <2>3. Len(current'.data) \in Nat
    BY <2>2, LenProperties DEF Segment
  <2>4. \E n \in Nat : Writing(current', rec'.generation, n)
    BY <2>1, <2>3 DEF DiskGood, DiskInv, CurrentInv
  <2> QED BY <2>2, <2>4, WritingFacts
<1>3. /\ disk # <<>> /\ disk' # <<>> /\ valid_slot(Boundary(current)) /\ current \in Segment
      /\ rec.phase \in Ready \cup Adding
  BY HalfAppendedDisk, AppendDisk, HalfPublishedDisk, PublishDisk, TypedFacts
     DEF HalfAppended, append, HalfPublished, publish_boundary, Ready, Adding
<1>4. ~current.sealed /\ Len(current.data) \in Nat
  <2>1. Unsealed(current)
    BY <1>3 DEF DiskInv, CurrentInv, Writing
  <2> QED BY <1>3, <2>1, LenProperties DEF Unsealed, Segment
<1> SUFFICES Covered(current', safe') /\ \A m \in safe'.metas : valid_slot(select_boundary(m))
  BY <1>2 DEF SafeInv
<1>5. Covered(current, safe) /\ \A m \in safe.metas : valid_slot(select_boundary(m))
  BY <1>3, <1>4 DEF SafeInv, Ready, Adding, Idle
<1>6. /\ safe.frames <= Len(current.data) /\ Whole(current.data, safe.frames) /\ (safe.frames > 0 => safe.header)
      /\ (safe.header => current.header) /\ current.meta \in safe.metas
      /\ \A m \in safe.metas : /\ safe.frames <= select_boundary(m).committed
                               /\ select_boundary(m).committed <= Boundary(current).committed
  BY <1>5 DEF Covered
<1>7. safe.frames <= Boundary(current).committed
  BY <1>6 DEF Boundary
<1>8. CASE HalfAppended
  <2>1. /\ current'.meta = current.meta /\ current'.header = current.header
        /\ Len(current'.data) = Len(current.data) + 1
        /\ \A i \in 1 .. Len(current.data) : current'.data[i] = current.data[i]
    BY <1>8, HalfAppendedDisk
  <2>2. safe' = safe /\ safe.frames <= Len(current'.data) /\ Boundary(current') = Boundary(current)
    BY <1>1, <1>4, <1>6, <1>8, <2>1 DEF HalfAppended, Boundary
  <2>3. Whole(current'.data, safe.frames)
    BY <1>1, <1>4, <1>6, <2>1 DEF Whole
  <2> QED BY <1>3, <1>5, <1>6, <2>1, <2>2, <2>3 DEF Covered
<1>9. CASE append
  <2>1. /\ current'.meta = current.meta /\ current'.header = current.header
        /\ Len(current'.data) = Len(current.data) /\ Boundary(current).committed = Len(current.data) - 1
        /\ \A i \in 1 .. Len(current.data) - 1 : current'.data[i] = current.data[i]
    BY <1>9, AppendDisk
  <2>2. safe' = safe /\ safe.frames <= Len(current'.data) /\ Boundary(current') = Boundary(current)
    BY <1>1, <1>4, <1>6, <1>9, <2>1 DEF append, Boundary
  <2>3. Whole(current'.data, safe.frames)
    <3>1. \A i \in 1 .. safe.frames : i \in 1 .. Len(current.data) - 1
      BY <1>1, <1>4, <1>7, <2>1
    <3> QED BY <1>6, <2>1, <3>1 DEF Whole
  <2> QED BY <1>3, <1>5, <1>6, <2>1, <2>2, <2>3 DEF Covered
<1>10. CASE HalfPublished \/ publish_boundary
  <2>1. PICK m \in Sidecar :
          /\ current'.meta = m /\ safe' = [safe EXCEPT !.metas = @ \cup {m}] /\ current'.data = current.data
          /\ current'.header = current.header /\ valid_slot(Boundary(current'))
          /\ Boundary(current).committed <= Boundary(current').committed
    <3>1. CASE HalfPublished
      <4>1. /\ current'.meta = Published(BadSlot) /\ Published(BadSlot) \in Sidecar /\ current'.data = current.data
            /\ current'.header = current.header /\ valid_slot(Boundary(current'))
            /\ Boundary(current').committed = Boundary(current).committed
        BY <3>1, HalfPublishedDisk
      <4>2. safe' = [safe EXCEPT !.metas = @ \cup {Published(BadSlot)}]
        BY <3>1 DEF HalfPublished, Exposed
      <4>3. Boundary(current).committed \in Nat
        BY <1>3, LimitFacts DEF Slot
      <4> QED BY <4>1, <4>2, <4>3
    <3>2. CASE publish_boundary
      BY <3>2, PublishDisk
    <3> QED BY <1>10, <3>1, <3>2
  <2>2. safe'.metas = safe.metas \cup {m} /\ safe'.frames = safe.frames /\ safe'.header = safe.header
    BY <2>1 DEF CaptureTypeOK
  <2>3. select_boundary(m) = Boundary(current')
    BY <2>1 DEF Boundary
  <2>4. /\ Boundary(current).committed \in Nat /\ Boundary(current').committed \in Nat
        /\ \A x \in safe.metas : select_boundary(x).committed \in Nat
    BY <1>1, <1>3, <2>1, <2>3, SelectFacts, LimitFacts DEF Slot
  <2>5. \A x \in safe'.metas :
          /\ valid_slot(select_boundary(x)) /\ safe.frames <= select_boundary(x).committed
          /\ select_boundary(x).committed <= Boundary(current').committed
    <3> SUFFICES ASSUME NEW x \in safe'.metas
                 PROVE  /\ valid_slot(select_boundary(x)) /\ safe.frames <= select_boundary(x).committed
                        /\ select_boundary(x).committed <= Boundary(current').committed
      OBVIOUS
    <3>1. CASE x = m
      BY <1>1, <1>7, <2>1, <2>3, <2>4, <3>1
    <3>2. CASE x \in safe.metas
      BY <1>1, <1>5, <1>6, <2>1, <2>4, <3>2
    <3> QED BY <2>2, <3>1, <3>2
  <2> QED BY <1>6, <2>1, <2>2, <2>5 DEF Covered
<1> QED BY <1>8, <1>9, <1>10

LEMMA SafeKept ==
  ASSUME CaptureTypeOK, DiskInv, PendingInv, SafeInv, [CaptureNext]_captureVars
  PROVE  SafeInv'
<1>1. CASE PowerLoss
  <2>1. rec'.phase = "down" /\ safe' = flush'
    BY <1>1, TypedFacts, StoppedRec DEF PowerLoss
  <2> QED BY <2>1 DEF SafeInv, Idle, Ready, Adding
<1> QED BY <1>1, SafeQuiet, SafeClosed, SafeOpening, SafeFlush, SafeWriting DEF CaptureNext

-----------------------------------------------------------------------------
(* Types. *)

SafeType == [header : BOOLEAN, frames : Nat, metas : SUBSET Sidecar]

LEMMA SafeTyped ==
  ASSUME CaptureTypeOK, DiskInv, PendingInv, [CaptureNext]_captureVars
  PROVE  safe' \in SafeType
<1>1. safe \in SafeType
  BY DEF CaptureTypeOK, SafeType
<1>2. ASSUME disk # <<>> PROVE flush \in SafeType
  BY <1>2, TypedFacts, LenProperties DEF flush, SafeType, Segment
<1>3. ASSUME NEW M \in SUBSET Sidecar, Exposed(M) PROVE safe' \in SafeType
  BY <1>1, <1>3 DEF Exposed, SafeType
<1>4. CASE safe' = safe
  BY <1>1, <1>4
<1>5. CASE open_segment_File
  BY <1>5, NewTyped DEF open_segment_File, NothingSafe, SafeType
<1>6. CASE open_segment_Slots
  BY <1>3, <1>6, NewTyped DEF open_segment_Slots
<1>7. CASE open_segment_Flush \/ Commit \/ Rotate \/ Finalize
  <2>1. disk # <<>> /\ safe' \in {flush, safe}
    BY <1>7 DEF open_segment_Flush, Commit, Rotate, Finalize, DiskInv
  <2> QED BY <1>1, <1>2, <2>1
<1>8. CASE HalfPublished
  BY <1>3, <1>8, HalfPublishedDisk DEF HalfPublished
<1>9. CASE publish_boundary
  <2> DEFINE m == Published(make_slot(rec.generation + 1, Len(current.data)))
  <2>1. m \in Sidecar /\ Exposed({m})
    BY <1>9, PublishDisk DEF publish_boundary
  <2> QED BY <1>3, <2>1
<1>10. CASE UNCHANGED captureVars
  BY <1>4, <1>10 DEF captureVars
<1>11. CASE TailerCrash \/ TailerStep \/ ProcessCrash \/ Compress \/ PushFinal \/ Join
  BY <1>4, <1>11 DEF TailerCrash, TailerStep, open_tailer, NextBuffered, rescan, WalReader_open, RawFileStream_read,
     WalReader_resolve_boundary, fill_from_current_segment, Advance,
     ProcessCrash, Compress, PushFinal, Join
<1>12. CASE Start \/ WalWriter_recover \/ EmptyMetadata \/ WriteMetadata \/ Recompress \/ Failed
            \/ open_segment_Header \/ Handshake \/ Ingest \/ EndOfStream \/ ExecutionWalWriter_append
            \/ NeedsNoRotation \/ HalfAppended \/ append
  BY <1>4, <1>12 DEF Start, WalWriter_recover, EmptyMetadata, WriteMetadata, Recompress, Failed, open_segment_Header,
     Handshake, Ingest, EndOfStream, ExecutionWalWriter_append, NeedsNoRotation, HalfAppended, append
<1>13. CASE PowerLoss
  <2>1. disk' \in Seq(Segment) /\ disk' # <<>> /\ safe' = flush'
    BY <1>13, PowerLossDisk DEF DiskGood, PowerLoss
  <2>2. current' \in Segment
    BY <2>1, ElementOfSeq, EmptySeq, LenProperties DEF current, last
  <2> QED BY <2>1, <2>2, LenProperties DEF flush, SafeType, Segment
<1> QED BY <1>5, <1>6, <1>7, <1>8, <1>9, <1>10, <1>11, <1>12, <1>13 DEF CaptureNext

\* The history of the records that are safe grows by a commit and a rotation, and shrinks
\* when the power fails.
LEMMA KeptStep ==
  ASSUME [CaptureNext]_captureVars
  PROVE  /\ stream' = stream
         /\ kept' = kept \/ Rotate \/ publish_boundary \/ PowerLoss
<1>1. CASE UNCHANGED captureVars
  BY <1>1 DEF captureVars
<1>2. CASE TailerCrash \/ TailerStep \/ ProcessCrash \/ PowerLoss \/ Compress \/ PushFinal \/ Join \/ Finalize
  BY <1>2 DEF TailerCrash, TailerStep, open_tailer, NextBuffered, rescan, WalReader_open, RawFileStream_read,
     WalReader_resolve_boundary, fill_from_current_segment, Advance,
     ProcessCrash, PowerLoss, Compress, PushFinal, Join, Finalize, CaptureNext
<1>3. CASE Start \/ WalWriter_recover \/ EmptyMetadata \/ WriteMetadata \/ Recompress \/ Failed \/ open_segment_File
           \/ open_segment_Header \/ open_segment_Slots \/ open_segment_Flush
  BY <1>3 DEF Start, WalWriter_recover, EmptyMetadata, WriteMetadata, Recompress, Failed, open_segment_File,
     open_segment_Header, open_segment_Slots, open_segment_Flush, CaptureNext
<1>4. CASE Handshake \/ Ingest \/ EndOfStream \/ ExecutionWalWriter_append \/ Rotate \/ NeedsNoRotation
           \/ HalfAppended \/ append \/ HalfPublished \/ publish_boundary \/ Commit
  BY <1>4 DEF Handshake, Ingest, EndOfStream, ExecutionWalWriter_append, Rotate, NeedsNoRotation,
     HalfAppended, append, HalfPublished, publish_boundary, Commit, CaptureNext
<1> QED BY <1>1, <1>2, <1>3, <1>4 DEF CaptureNext

LEMMA BoundsKept ==
  ASSUME CaptureTypeOK, DiskInv, PendingInv, [CaptureNext]_captureVars
  PROVE  Len(jobs') <= QueueCapacity
<1>1. /\ disk \in Seq(Segment) /\ jobs \in Seq(1 .. last) /\ Len(jobs) \in Nat /\ Len(disk) \in Nat
      /\ Len(jobs) <= QueueCapacity /\ QueueCapacity \in Nat
  BY TypedFacts, LenProperties, CaptureAssumption DEF CaptureTypeOK
<1>3. Len(jobs') <= QueueCapacity
  <2>1. CASE jobs' = jobs
    BY <1>1, <2>1
  <2>2. CASE jobs' = <<>>
    BY <1>1, <2>2
  <2>3. CASE Compress
    BY <1>1, <2>3 DEF Compress
  <2>4. CASE Commit \/ PushFinal
    <3>1. jobs' = jobs \/ (rec.rotated # 0 /\ ~QueueFull /\ jobs' = Append(jobs, rec.rotated))
      BY <2>4 DEF Commit, PushFinal, DiskInv, QueueInv
    <3>2. rec.rotated # 0 => rec.rotated \in 1 .. last
      BY DEF DiskInv, QueueInv
    <3>3. CASE rec.rotated # 0 /\ ~QueueFull /\ jobs' = Append(jobs, rec.rotated)
      <4>1. Len(jobs') = Len(jobs) + 1
        BY <1>1, <3>2, <3>3, AppendProperties
      <4> QED BY <1>1, <3>3, <4>1 DEF QueueFull
    <3> QED BY <2>1, <3>1, <3>3
  <2>5. CASE UNCHANGED captureVars
    BY <2>1, <2>5 DEF captureVars
  <2>6. CASE TailerCrash \/ TailerStep \/ ProcessCrash \/ PowerLoss \/ Join \/ Finalize
    BY <2>1, <2>2, <2>6 DEF TailerCrash, TailerStep, open_tailer, NextBuffered, rescan, WalReader_open, RawFileStream_read,
       WalReader_resolve_boundary, fill_from_current_segment, Advance, ProcessCrash, PowerLoss, Join, Finalize
  <2>7. CASE Start \/ WalWriter_recover \/ EmptyMetadata \/ WriteMetadata \/ Recompress \/ Failed \/ open_segment_File
             \/ open_segment_Header \/ open_segment_Slots \/ open_segment_Flush
    BY <2>1, <2>7 DEF Start, WalWriter_recover, EmptyMetadata, WriteMetadata, Recompress, Failed, open_segment_File,
       open_segment_Header, open_segment_Slots, open_segment_Flush
  <2>8. CASE Handshake \/ Ingest \/ EndOfStream \/ ExecutionWalWriter_append \/ Rotate \/ NeedsNoRotation
             \/ HalfAppended \/ append \/ HalfPublished \/ publish_boundary
    BY <2>1, <2>8 DEF Handshake, Ingest, EndOfStream, ExecutionWalWriter_append, Rotate, NeedsNoRotation,
       HalfAppended, append, HalfPublished, publish_boundary
  <2> QED BY <2>3, <2>4, <2>5, <2>6, <2>7, <2>8 DEF CaptureNext
<1> QED BY <1>3

LEMMA KeptTyped ==
  ASSUME CaptureTypeOK, DiskInv, PendingInv, [CaptureNext]_captureVars
  PROVE  stream' \in {"market", "execution"} /\ kept' \subseteq Frame /\ left' \in [FaultKinds -> Nat]
<1>0. left' \in [FaultKinds -> Nat]
  BY LeftStep DEF CaptureTypeOK, captureVars
<1>1. kept \subseteq Frame /\ rec.pending \in Frame
  BY TypedFacts DEF CaptureTypeOK, Recorder
<1>2. CASE Rotate
  <2>1. disk # <<>> /\ current \in Segment
    BY <1>2, SealDisk, TypedFacts
  <2>2. Range(current.data) \subseteq Frame
    BY <2>1, ElementOfSeq, LenProperties DEF Range, Segment
  <2> QED BY <1>0, <1>1, <1>2, <2>2, KeptStep DEF Rotate, KeepFlushed, CaptureTypeOK
<1>3. CASE publish_boundary
  BY <1>0, <1>1, <1>3, KeptStep DEF publish_boundary, CaptureTypeOK
<1>4. CASE PowerLoss
  <2>1. kept' \subseteq kept
    BY <1>4 DEF PowerLoss
  <2> QED BY <1>0, <1>1, <2>1, KeptStep DEF CaptureTypeOK
<1>5. CASE kept' = kept
  BY <1>0, <1>1, <1>5, KeptStep DEF CaptureTypeOK
<1> QED BY <1>2, <1>3, <1>4, <1>5, KeptStep

-----------------------------------------------------------------------------
(* The log is what was received: nothing safe is lost, nothing missing in between. *)

LEMMA LogKinds ==
  ASSUME CaptureTypeOK, DiskInv, PendingInv, [CaptureNext]_captureVars
  PROVE  /\ Log \in Seq(Frame) /\ Log' \in Seq(Frame) /\ Len(Log) \in Nat /\ Len(Log') \in Nat
         /\ publish_boundary \/ PowerLoss \/ Log' = Log
         /\ last \in Nat /\ last' \in Nat /\ last' >= last
<1>1. DiskGood /\ disk \in Seq(Segment) /\ disk' \in Seq(Segment)
  BY NextKinds, TypedFacts DEF DiskGood
<1>2. Log \in Seq(Frame) /\ Log' \in Seq(Frame) /\ Len(Log) \in Nat /\ Len(Log') \in Nat
  BY <1>1, RecordedTyped DEF Log
<1>3. publish_boundary \/ PowerLoss \/ Log' = Log
  BY <1>1, NextKinds, LogSame, OpenLog DEF QuietKind, StartKind, AcceptKind, StopKind
<1>4. last \in Nat /\ last' \in Nat
  BY <1>1, LenProperties DEF last
<1>5. last' = last \/ last' = last + 1
  BY NextKinds, PublishDisk, PowerLossDisk DEF QuietKind, OpenKind, StartKind, AcceptKind, StopKind, SameLog
<1> QED BY <1>2, <1>3, <1>4, <1>5

LEMMA KeptKept ==
  ASSUME CaptureTypeOK, DiskInv, PendingInv, SafeInv, KeptReadable, [CaptureNext]_captureVars
  PROVE  KeptReadable'
<1>1. Log \in Seq(Frame) /\ Log' \in Seq(Frame) /\ Len(Log) \in Nat
  BY LogKinds
<1>2. kept \subseteq Range(Log)
  BY DEF KeptReadable, Log
<1> SUFFICES kept' \subseteq Range(Log')
  BY DEF KeptReadable, Log
<1>3. CASE PowerLoss
  BY <1>3, PowerKept, PowerLog DEF KeptReadable, Log
<1>4. CASE publish_boundary
  <2>1. Log' = Append(Log, rec.pending) /\ rec.pending \in Frame /\ kept' = kept \cup {rec.pending}
    BY <1>4, PublishLog, TypedFacts DEF publish_boundary, Recorder
  <2> HIDE DEF Log
  <2>2. Len(Log') = Len(Log) + 1 /\ Log'[Len(Log) + 1] = rec.pending /\ \A i \in 1 .. Len(Log) : Log'[i] = Log[i]
    BY <1>1, <2>1, AppendProperties
  <2>3. DOMAIN Log = 1 .. Len(Log) /\ DOMAIN Log' = 1 .. Len(Log) + 1
    BY <1>1, <2>2, LenProperties
  <2>4. Range(Log) \subseteq Range(Log')
    <3>1. \A i \in 1 .. Len(Log) : i \in 1 .. Len(Log) + 1
      BY <1>1
    <3> QED BY <2>2, <2>3, <3>1 DEF Range
  <2>5. rec.pending \in Range(Log')
    <3>1. Len(Log) + 1 \in 1 .. Len(Log) + 1
      BY <1>1
    <3> QED BY <2>2, <2>3, <3>1 DEF Range
  <2> QED BY <1>2, <2>1, <2>4, <2>5
<1>5. CASE Rotate
  <2>1. Log' = Log
    BY <1>5, QuietSteps, LogSame DEF QuietKind
  <2>2. kept' = kept \cup Range(current.data)
    BY <1>5 DEF Rotate, KeepFlushed
  <2>3. disk \in Seq(Segment) /\ disk # <<>> /\ Readable(current) = current.data /\ current.data \in Seq(Frame)
    BY <1>5, SealDisk, TypedFacts DEF Segment
  <2>4. PICK r \in Seq(Frame) : Log = r \o current.data
    <3>1. Len(disk) \in Nat /\ (Len(disk) - 1) + 1 = Len(disk)
      BY <2>3, LenProperties
    <3> QED BY <2>3, <3>1, LastLog DEF Log, current, last
  <2> DEFINE d == current.data
  <2> HIDE DEF Log, d
  <2>5. d \in Seq(Frame) /\ Log = r \o d /\ Len(r) \in Nat /\ Len(d) \in Nat
    BY <2>3, <2>4, LenProperties DEF d
  <2>6. \A i \in 1 .. Len(d) : d[i] = Log[Len(r) + i] /\ Len(r) + i \in 1 .. Len(Log)
    BY <2>5
  <2>7. Range(d) \subseteq Range(Log)
    <3>1. DOMAIN Log = 1 .. Len(Log) /\ DOMAIN d = 1 .. Len(d)
      BY <1>1, <2>5, LenProperties
    <3> QED BY <2>6, <3>1 DEF Range
  <2> QED BY <1>2, <2>1, <2>2, <2>7 DEF d
<1>6. CASE kept' = kept /\ Log' = Log
  BY <1>2, <1>6
<1> QED BY <1>3, <1>4, <1>5, <1>6, KeptStep, LogKinds

LEMMA ContiguousKept ==
  ASSUME CaptureTypeOK, DiskInv, PendingInv, SafeInv, KeptReadable, RecordsContiguous, FollowInv,
         [CaptureNext]_captureVars
  PROVE  RecordsContiguous'
<1> DEFINE Continues(x, y) == y.sess > x.sess \/ (y.sess = x.sess /\ y.src = x.src + 1)
<1>1. Log \in Seq(Frame) /\ Log' \in Seq(Frame) /\ Len(Log) \in Nat /\ Len(Log') \in Nat
  BY LogKinds
<1>2. \A i \in 1 .. Len(Log) - 1 : Continues(Log[i], Log[i+1])
  BY DEF RecordsContiguous, Log
<1> SUFFICES \A i \in 1 .. Len(Log') - 1 : Continues(Log'[i], Log'[i+1])
  BY DEF RecordsContiguous, Log
<1>3. CASE Log' = Log
  BY <1>2, <1>3
<1>4. CASE PowerLoss
  <2>1. Len(Log') <= Len(Log) /\ \A i \in 1 .. Len(Log') : Log'[i] = Log[i]
    BY <1>4, PowerKept, PowerLog
  <2> SUFFICES ASSUME NEW i \in 1 .. Len(Log') - 1 PROVE Continues(Log'[i], Log'[i+1])
    OBVIOUS
  <2>2. i \in 1 .. Len(Log) - 1 /\ i \in 1 .. Len(Log') /\ i + 1 \in 1 .. Len(Log')
    BY <1>1, <2>1
  <2> HIDE DEF Continues
  <2> QED BY <1>2, <2>1, <2>2
<1>5. CASE publish_boundary
  <2>1. Log' = Append(Log, rec.pending) /\ rec.pending \in Frame
    BY <1>5, PublishLog, TypedFacts DEF Recorder
  <2>2. Log # <<>> => Continues(Ended, rec.pending)
    <3>1. rec.phase = "publish" /\ IsRecord(rec.pending)
      BY <1>5 DEF publish_boundary, PendingInv, Adding
    <3>2. rec.pending # NoRecord
      BY <3>1, NewTyped
    <3>3. /\ rec.pending.sess = rec.session /\ rec.pending.src = rec.last
          /\ \/ Log = <<>> \/ Ended.sess < rec.session
             \/ Ended.sess = rec.session /\ Ended.src = rec.last - 1
      BY <3>1, <3>2 DEF FollowInv
    <3>4. rec.last \in Nat /\ rec.session \in Nat
      BY TypedFacts DEF Recorder
    <3>5. Log # <<>> => Ended \in Frame
      BY <1>1, EmptySeq, ElementOfSeq DEF Ended
    <3> QED BY <3>3, <3>4, <3>5 DEF Frame
  <2> HIDE DEF Log, Continues
  <2>3. Len(Log') = Len(Log) + 1 /\ Log'[Len(Log) + 1] = rec.pending /\ \A i \in 1 .. Len(Log) : Log'[i] = Log[i]
    BY <1>1, <2>1, AppendProperties
  <2> SUFFICES ASSUME NEW i \in 1 .. Len(Log') - 1 PROVE Continues(Log'[i], Log'[i+1])
    OBVIOUS
  <2>4. CASE i < Len(Log)
    <3>1. i \in 1 .. Len(Log) - 1 /\ i \in 1 .. Len(Log) /\ i + 1 \in 1 .. Len(Log)
      BY <1>1, <2>3, <2>4
    <3> QED BY <1>2, <2>3, <3>1
  <2>5. CASE i = Len(Log)
    <3>1. Log # <<>> /\ i \in 1 .. Len(Log)
      BY <1>1, <2>3, <2>5
    <3> QED BY <2>2, <2>3, <2>5, <3>1 DEF Ended
  <2> QED BY <1>1, <2>3, <2>4, <2>5
<1> QED BY <1>3, <1>4, <1>5, LogKinds

LEMMA SessionKept ==
  ASSUME CaptureTypeOK, DiskInv, PendingInv, SafeInv, KeptReadable, SessionInv, FollowInv,
         [CaptureNext]_captureVars
  PROVE  SessionInv'
<1>1. /\ Log \in Seq(Frame) /\ Log' \in Seq(Frame) /\ Len(Log) \in Nat /\ Len(Log') \in Nat
      /\ last \in Nat /\ last' \in Nat /\ last' >= last /\ rec.session \in Nat
  BY LogKinds, TypedFacts DEF Recorder
<1>2. /\ rec'.session <= last' + 1
      /\ disk' # <<>> /\ rec'.phase \in Ready \cup Adding \cup Opening => rec'.session <= last'
  <2>1. CASE QuietKind
    <3>1. rec'.session = rec.session /\ last' = last /\ Follows(rec.phase, rec'.phase)
      BY <2>1 DEF QuietKind, SameRec, SameLog
    <3>2. rec'.phase \in Ready \cup Adding \cup Opening => rec.phase \in Ready \cup Adding \cup Opening
      BY <3>1 DEF Follows, Ready, Adding, Opening
    <3>3. disk' # <<>> => disk # <<>>
      <4>1. Len(disk') = Len(disk) /\ disk \in Seq(Segment) /\ disk' \in Seq(Segment)
        BY <3>1, NextKinds, TypedFacts DEF last, DiskGood
      <4> QED BY <4>1, EmptySeq
    <3> QED BY <1>1, <3>1, <3>2, <3>3 DEF SessionInv
  <2>2. CASE OpenKind
    BY <1>1, <2>2 DEF OpenKind, SameRec, SessionInv
  <2>3. CASE StartKind
    BY <1>1, <2>3 DEF StartKind, SameLog, Ready, Adding, Opening
  <2>4. CASE AcceptKind
    <3>1. rec'.session = rec.session /\ last' = last /\ rec.phase \in Ready
      BY <2>4 DEF AcceptKind, SameLog, Ready
    <3>2. disk # <<>>
      BY <3>1 DEF DiskInv, Ready
    <3> QED BY <1>1, <3>1, <3>2 DEF SessionInv
  <2>5. CASE StopKind \/ PowerLoss
    BY <1>1, <2>5, StoppedRec DEF SessionInv, Ready, Adding, Opening
  <2>6. CASE publish_boundary
    <3>1. rec'.session = rec.session /\ last' = last /\ rec.phase \in Adding /\ disk # <<>>
      BY <2>6, PublishDisk DEF publish_boundary, Adding
    <3> QED BY <1>1, <3>1 DEF SessionInv
  <2> QED BY <2>1, <2>2, <2>3, <2>4, <2>5, <2>6, NextKinds
<1>3. \A k \in 1 .. Len(Log) : Log[k].sess <= last /\ Log[k].sess \in Nat
  <2>1. \A k \in 1 .. Len(Log) : Log[k] \in Frame
    BY <1>1, ElementOfSeq
  <2>2. \A x \in Frame : x.sess \in Nat
    BY DEF Frame
  <2> QED BY <2>1, <2>2 DEF SessionInv
<1>4. \A k \in 1 .. Len(Log') : Log'[k].sess <= last'
  <2>1. CASE Log' = Log
    BY <1>1, <1>3, <2>1
  <2>2. CASE PowerLoss
    <3>1. Len(Log') <= Len(Log) /\ \A i \in 1 .. Len(Log') : Log'[i] = Log[i]
      BY <2>2, PowerKept, PowerLog
    <3>2. \A i \in 1 .. Len(Log') : i \in 1 .. Len(Log)
      BY <1>1, <3>1
    <3> QED BY <1>1, <1>3, <3>1, <3>2
  <2>3. CASE publish_boundary
    <3>1. Log' = Append(Log, rec.pending) /\ rec.pending \in Frame /\ last' = last /\ disk # <<>>
      BY <2>3, PublishLog, PublishDisk, TypedFacts DEF Recorder
    <3>2. rec.pending.sess = rec.session /\ rec.session <= last
      <4>1. rec.phase = "publish" /\ IsRecord(rec.pending)
        BY <2>3 DEF publish_boundary, PendingInv, Adding
      <4>2. rec.pending # NoRecord
        BY <4>1, NewTyped
      <4> QED BY <3>1, <4>1, <4>2 DEF FollowInv, SessionInv, Adding
    <3> HIDE DEF Log
    <3>3. Len(Log') = Len(Log) + 1 /\ Log'[Len(Log) + 1] = rec.pending /\ \A i \in 1 .. Len(Log) : Log'[i] = Log[i]
      BY <1>1, <3>1, AppendProperties
    <3>4. \A k \in 1 .. Len(Log') : k \in 1 .. Len(Log) \/ k = Len(Log) + 1
      BY <1>1, <3>3
    <3> QED BY <1>3, <3>1, <3>2, <3>3, <3>4
  <2> QED BY <2>1, <2>2, <2>3, LogKinds
<1> QED BY <1>2, <1>4 DEF SessionInv

LEMMA FollowKept ==
  ASSUME CaptureTypeOK, DiskInv, PendingInv, SafeInv, SessionInv, FollowInv, [CaptureNext]_captureVars
  PROVE  FollowInv'
<1>1. /\ Log \in Seq(Frame) /\ Log' \in Seq(Frame) /\ Len(Log) \in Nat /\ last \in Nat
      /\ rec.session \in Nat /\ rec.last \in Nat /\ ~IsRecord(NoRecord)
  BY LogKinds, TypedFacts, NewTyped DEF Recorder
<1>2. Log # <<>> => Ended \in Frame /\ Ended.sess <= last /\ Len(Log) > 0
  <2>1. Log # <<>> => Len(Log) \in 1 .. Len(Log)
    BY <1>1, EmptySeq
  <2> QED BY <1>1, <2>1, ElementOfSeq DEF Ended, SessionInv
<1>3. Log' = Log => Ended' = Ended
  BY DEF Ended
<1>4. CASE QuietKind \/ OpenKind
  <2>1. Log' = Log /\ SameRec
    BY <1>4, NextKinds, LogSame, OpenLog DEF QuietKind, OpenKind
  <2>2. rec'.phase # "down" /\ rec'.phase # "failed" => rec.phase # "down" /\ rec.phase # "failed"
    BY <1>4 DEF QuietKind, OpenKind, Follows
  <2> QED BY <1>3, <2>1, <2>2 DEF FollowInv, SameRec
<1>5. CASE StartKind
  <2>1. Log' = Log
    BY <1>5, NextKinds, LogSame DEF StartKind
  <2>2. rec'.pending = NoRecord /\ rec'.last = 0 /\ rec'.session = last + 1
    BY <1>5 DEF StartKind, PendingInv, Idle
  <2>3. Log = <<>> \/ Ended.sess < last + 1
    BY <1>1, <1>2 DEF Frame
  <2> QED BY <1>3, <2>1, <2>2, <2>3 DEF FollowInv
<1>6. CASE AcceptKind
  <2>1. Log' = Log
    BY <1>6, NextKinds, LogSame DEF AcceptKind
  <2>2. /\ rec.phase = "read" /\ rec.pending = NoRecord /\ rec'.session = rec.session
        /\ rec'.last \in Nat \ {0} /\ (rec.last = 0 \/ rec'.last = rec.last + 1)
        /\ rec'.pending = FixedEvent(rec.session, rec'.last, rec.ts + 1)
    BY <1>6 DEF AcceptKind, PendingInv
  <2>3. rec'.pending.sess = rec.session /\ rec'.pending.src = rec'.last /\ rec'.pending # NoRecord
    <3>1. rec'.pending.sess = rec.session /\ rec'.pending.src = rec'.last
      BY <2>2 DEF FixedEvent
    <3>2. IsRecord(rec'.pending)
      BY <2>2, <3>1 DEF IsRecord
    <3> QED BY <1>1, <3>1, <3>2
  <2>4. \/ rec.last = 0 /\ (Log = <<>> \/ Ended.sess < rec.session)
        \/ Log # <<>> /\ rec.last > 0 /\ Ended.sess = rec.session /\ Ended.src = rec.last
    BY <2>2 DEF FollowInv
  <2>5. \/ Log = <<>> \/ Ended.sess < rec.session
        \/ Ended.sess = rec.session /\ Ended.src = rec'.last - 1
    <3>1. CASE Log = <<>> \/ Ended.sess < rec.session
      BY <3>1
    <3>2. CASE Log # <<>> /\ rec.last > 0 /\ Ended.sess = rec.session /\ Ended.src = rec.last
      BY <1>1, <2>2, <3>2
    <3> QED BY <2>4, <3>1, <3>2
  <2> QED BY <1>3, <2>1, <2>2, <2>3, <2>5 DEF FollowInv
<1>7. CASE StopKind \/ PowerLoss
  BY <1>7, StoppedRec DEF FollowInv
<1>8. CASE publish_boundary
  <2>1. Log' = Append(Log, rec.pending) /\ rec.pending \in Frame
    BY <1>8, PublishLog, TypedFacts DEF Recorder
  <2>2. rec'.pending = NoRecord /\ rec'.last = rec.last /\ rec'.session = rec.session
    BY <1>8, PublishDisk
  <2>3. rec.pending.sess = rec.session /\ rec.pending.src = rec.last /\ rec.last > 0
    <3>1. rec.phase = "publish" /\ IsRecord(rec.pending)
      BY <1>8 DEF publish_boundary, PendingInv, Adding
    <3>2. rec.pending # NoRecord
      BY <1>1, <3>1
    <3> QED BY <3>1, <3>2 DEF FollowInv, IsRecord
  <2>4. Log' # <<>> /\ Ended' = rec.pending
    <3> HIDE DEF Log
    <3>1. Len(Log') = Len(Log) + 1 /\ Log'[Len(Log) + 1] = rec.pending
      BY <1>1, <2>1, AppendProperties
    <3> QED BY <1>1, <3>1 DEF Ended
  <2> QED BY <2>2, <2>3, <2>4 DEF FollowInv
<1> QED BY <1>4, <1>5, <1>6, <1>7, <1>8, NextKinds

LEMMA TimeKept ==
  ASSUME CaptureTypeOK, DiskInv, PendingInv, SafeInv, TimeInv, [CaptureNext]_captureVars
  PROVE  TimeInv'
<1>1. /\ Log \in Seq(Frame) /\ Log' \in Seq(Frame) /\ Len(Log) \in Nat /\ rec.ts \in Nat /\ ~IsRecord(NoRecord)
      /\ \A k \in 1 .. Len(Log) : Log[k].ts \in Nat
  <2>1. Log \in Seq(Frame) /\ Log' \in Seq(Frame) /\ Len(Log) \in Nat /\ rec.ts \in Nat /\ ~IsRecord(NoRecord)
    BY LogKinds, TypedFacts, NewTyped DEF Recorder
  <2>2. \A k \in 1 .. Len(Log) : Log[k] \in Frame
    BY <2>1, ElementOfSeq
  <2>3. \A x \in Frame : x.ts \in Nat
    BY DEF Frame
  <2> QED BY <2>1, <2>2, <2>3
<1>2. CASE PowerLoss
  BY <1>2, PowerKept DEF TimeInv
<1> SUFFICES ASSUME ~PowerLoss, ~rec.lost_power PROVE TimeInv'
  BY <1>2, PowerKept DEF TimeInv
<1>3. /\ \A k \in 1 .. Len(Log) : Log[k].ts <= rec.ts
      /\ \A k \in 1 .. Len(Log) - 1 : Log[k].ts < Log[k+1].ts
      /\ rec.pending # NoRecord => rec.pending.ts = rec.ts /\ (Log # <<>> => Ended.ts < rec.ts)
  BY DEF TimeInv
<1>4. Log' = Log => Ended' = Ended
  BY DEF Ended
<1>5. CASE QuietKind \/ OpenKind \/ StartKind
  <2>1. Log' = Log /\ rec'.ts = rec.ts /\ rec'.pending = rec.pending
    BY <1>5, NextKinds, LogSame, OpenLog DEF QuietKind, OpenKind, StartKind, SameRec
  <2> QED BY <1>3, <1>4, <2>1 DEF TimeInv
<1>6. CASE AcceptKind
  <2>1. Log' = Log /\ rec'.ts = rec.ts + 1 /\ rec'.pending.ts = rec.ts + 1
    BY <1>6, NextKinds, LogSame DEF AcceptKind, FixedEvent
  <2>2. Log # <<>> => Ended.ts < rec.ts + 1
    <3>1. Log # <<>> => Len(Log) \in 1 .. Len(Log)
      BY <1>1, EmptySeq
    <3> QED BY <1>1, <1>3, <3>1 DEF Ended
  <2>3. \A k \in 1 .. Len(Log) : Log[k].ts <= rec.ts + 1
    BY <1>1, <1>3
  <2> QED BY <1>3, <1>4, <2>1, <2>2, <2>3 DEF TimeInv
<1>7. CASE StopKind
  <2>1. Log' = Log /\ rec'.ts = rec.ts /\ rec'.pending = NoRecord
    BY <1>7, NextKinds, LogSame, StoppedRec DEF StopKind
  <2> QED BY <1>3, <1>4, <2>1 DEF TimeInv
<1>8. CASE publish_boundary
  <2>1. Log' = Append(Log, rec.pending) /\ rec.pending \in Frame
    BY <1>8, PublishLog, TypedFacts DEF Recorder
  <2>2. rec'.pending = NoRecord /\ rec'.ts = rec.ts
    BY <1>8, PublishDisk
  <2>3. rec.pending.ts = rec.ts /\ (Log # <<>> => Ended.ts < rec.ts)
    <3>1. IsRecord(rec.pending)
      BY <1>8 DEF publish_boundary, PendingInv, Adding
    <3>2. rec.pending # NoRecord
      BY <1>1, <3>1
    <3> QED BY <1>3, <3>2
  <2> HIDE DEF Log
  <2>4. Len(Log') = Len(Log) + 1 /\ Log'[Len(Log) + 1] = rec.pending /\ \A i \in 1 .. Len(Log) : Log'[i] = Log[i]
    BY <1>1, <2>1, AppendProperties
  <2>5. \A k \in 1 .. Len(Log') : Log'[k].ts <= rec.ts
    <3>1. \A k \in 1 .. Len(Log') : k \in 1 .. Len(Log) \/ k = Len(Log) + 1
      BY <1>1, <2>4
    <3>2. rec.ts <= rec.ts
      BY <1>1
    <3> QED BY <1>3, <2>3, <2>4, <3>1, <3>2
  <2>6. \A k \in 1 .. Len(Log') - 1 : Log'[k].ts < Log'[k+1].ts
    <3> SUFFICES ASSUME NEW k \in 1 .. Len(Log') - 1 PROVE Log'[k].ts < Log'[k+1].ts
      OBVIOUS
    <3>1. CASE k < Len(Log)
      <4>1. k \in 1 .. Len(Log) - 1 /\ k \in 1 .. Len(Log) /\ k + 1 \in 1 .. Len(Log)
        BY <1>1, <2>4, <3>1
      <4> QED BY <1>3, <2>4, <4>1
    <3>2. CASE k = Len(Log)
      <4>1. Log # <<>> /\ k \in 1 .. Len(Log)
        BY <1>1, <2>4, <3>2
      <4> QED BY <2>3, <2>4, <3>2, <4>1 DEF Ended
    <3> QED BY <1>1, <2>4, <3>1, <3>2
  <2> QED BY <2>2, <2>5, <2>6 DEF TimeInv
<1> QED BY <1>5, <1>6, <1>7, <1>8, NextKinds

-----------------------------------------------------------------------------
(* What the recorder leaves alone. *)

\* What a step of the recorder keeps of a segment: whole frames stay or are cut off for good.
Keeps(a, b) ==
  /\ a.header => b.header
  /\ a.sealed => b.sealed /\ b.data = a.data
  /\ \A j \in 1 .. Len(a.data) : Whole(a.data, j) => (j <= Len(b.data) /\ b.data[j] = a.data[j]) \/ Gone(b, j)
  /\ \A j \in Nat : Gone(a, j) => Gone(b, j)

Modest(seg) == valid_slot(Boundary(seg)) => Boundary(seg).committed <= Len(seg.data)

\* ... and, until the power fails, of its boundary.
Kept(a, b) == Keeps(a, b) /\ (~rec.lost_power /\ Modest(a) => Modest(b))

LEMMA KeepsData ==
  ASSUME NEW a \in Segment, NEW b \in Segment, b.data = a.data, a.header => b.header, a.sealed => b.sealed,
         b.meta = a.meta \/ ~valid_slot(Boundary(b)) \/ Boundary(b).committed <= Len(b.data)
  PROVE  Kept(a, b)
<1>1. Len(a.data) \in Nat /\ Boundary(b) \in Slot
  BY LimitFacts, LenProperties DEF Segment
<1>2. \A j \in 1 .. Len(a.data) : j <= Len(b.data) /\ b.data[j] = a.data[j]
  BY <1>1
<1>3. ASSUME NEW j \in Nat, Gone(a, j) PROVE Gone(b, j)
  BY <1>1, <1>3 DEF Gone, Boundary, Slot
<1>4. Modest(a) => Modest(b)
  BY DEF Modest, Boundary
<1> QED BY <1>2, <1>3, <1>4 DEF Keeps, Kept

LEMMA KeepsTruncate ==
  ASSUME NEW a \in Segment, recoverable(a), Closed(a) \/ (Unsealed(a) /\ (rec.lost_power \/ Steady(a)))
  PROVE  Kept(a, truncate_to_valid(a))
<1> DEFINE b == truncate_to_valid(a)
           c == Boundary(a).committed
<1>1. a.data \in Seq(Frame) /\ Len(a.data) \in Nat /\ Boundary(a) \in Slot /\ c \in Nat /\ valid_slot(Boundary(a))
  BY LimitFacts, LenProperties DEF Segment, Slot, recoverable, Boundary
<1>2. b \in Segment /\ b.data = ValidPrefix(a, c) /\ b.sealed /\ b.header = a.header /\ b.meta = a.meta
  BY TruncateFacts DEF truncate_to_valid, Boundary, Segment, Unsealed
<1> HIDE DEF b
<1>3. /\ b.data \in Seq(Frame) /\ Len(b.data) \in Nat /\ Len(b.data) <= Len(a.data)
      /\ \A j \in 1 .. Len(b.data) : b.data[j] = a.data[j]
      /\ \A j \in Nat : j <= c /\ j <= Len(a.data) /\ Whole(a.data, j) => j <= Len(b.data)
  BY <1>1, <1>2, ValidPrefixFacts, LenProperties
<1>4. CASE Closed(a)
  <2>1. b.data = a.data
    <3>1. Len(a.data) <= Len(b.data)
      BY <1>1, <1>3, <1>4 DEF Closed
    <3>2. Len(b.data) = Len(a.data)
      BY <1>1, <1>3, <3>1
    <3> QED BY <1>1, <1>3, <3>2, SeqEqual
  <2> QED BY <1>2, <2>1, KeepsData, TruncateFacts DEF b
<1>5. CASE Unsealed(a) /\ (rec.lost_power \/ Steady(a))
  <2>1. ASSUME NEW j \in 1 .. Len(a.data), Whole(a.data, j)
        PROVE  (j <= Len(b.data) /\ b.data[j] = a.data[j]) \/ Gone(b, j)
    <3>1. CASE j <= Len(b.data)
      <4>1. j \in 1 .. Len(b.data)
        BY <1>1, <1>3, <3>1
      <4> QED BY <1>3, <3>1, <4>1
    <3>2. CASE ~(j <= Len(b.data))
      <4>1. j > Len(b.data) /\ j > c
        BY <1>1, <1>3, <2>1, <3>2
      <4> QED BY <1>2, <4>1 DEF Gone, Boundary
    <3> QED BY <3>1, <3>2
  <2>2. Steady(a) => Modest(b)
    BY <1>1, <1>2, <1>3 DEF Steady, Modest, Boundary
  <2> QED BY <1>2, <1>5, <2>1, <2>2 DEF Keeps, Kept, Gone, Unsealed, b
<1> QED BY <1>4, <1>5

\* What is written behind the whole frames of an open segment.
LEMMA KeepsWritten ==
  ASSUME NEW a \in Segment, NEW b \in Segment, NEW n \in Nat, ~a.sealed, a.header => b.header,
         b.meta = a.meta, Len(a.data) <= Len(b.data), n <= Len(b.data), \A i \in 1 .. n : b.data[i] = a.data[i],
         n = Len(a.data) \/ (n + 1 = Len(a.data) /\ ~IsRecord(a.data[n+1]))
  PROVE  Kept(a, b)
<1>1. Len(a.data) \in Nat /\ Len(b.data) \in Nat /\ Boundary(a) \in Slot
  BY LimitFacts, LenProperties DEF Segment
<1>2. ASSUME NEW j \in 1 .. Len(a.data), Whole(a.data, j)
      PROVE  j <= Len(b.data) /\ b.data[j] = a.data[j]
  <2>1. j # n + 1
    <3>1. CASE j = n + 1
      <4>1. n + 1 \in 1 .. j
        BY <1>1, <3>1
      <4>2. IsRecord(a.data[n+1])
        BY <1>2, <4>1 DEF Whole
      <4> QED BY <1>1, <1>2, <3>1, <4>2
    <3> QED BY <3>1
  <2>2. j \in 1 .. n
    BY <1>1, <2>1
  <2> QED BY <1>1, <2>2
<1>3. Modest(a) => Modest(b)
  BY <1>1 DEF Modest, Boundary, Slot
<1> QED BY <1>2, <1>3 DEF Keeps, Kept, Gone

\* One segment is changed.
LEMMA KeepsPut ==
  ASSUME CaptureTypeOK, NEW k \in 1 .. last, NEW s \in Segment, Kept(disk[k], s), disk' = [disk EXCEPT ![k] = s]
  PROVE  \A i \in 1 .. last : Kept(disk[i], disk'[i])
<1> SUFFICES ASSUME NEW i \in 1 .. last PROVE Kept(disk[i], disk'[i])
  OBVIOUS
<1>1. disk \in Seq(Segment) /\ disk[i] \in Segment /\ DOMAIN disk = 1 .. last
  BY TypedFacts, LenProperties DEF last
<1>2. CASE i = k
  BY <1>1, <1>2
<1>3. CASE i # k
  <2>1. disk'[i] = disk[i]
    BY <1>1, <1>3
  <2> QED BY <1>1, <2>1, KeepsData
<1> QED BY <1>2, <1>3

LEMMA KeepsAll ==
  ASSUME CaptureTypeOK, \A i \in 1 .. last : disk'[i] = disk[i]
  PROVE  \A i \in 1 .. last : Kept(disk[i], disk'[i])
<1>1. \A i \in 1 .. last : Kept(disk[i], disk[i])
  BY TypedFacts, KeepsData
<1> QED BY <1>1

\* Only the last segment is written, only a closed one is compressed.
LEMMA WriterKeeps ==
  ASSUME CaptureTypeOK, DiskInv, PendingInv, DiskGood,
         \/ open_segment_Header \/ open_segment_Slots \/ Rotate \/ Finalize
         \/ HalfAppended \/ append \/ HalfPublished \/ publish_boundary
  PROVE  \A i \in 1 .. last : Kept(disk[i], disk'[i])
<1>1. /\ disk # <<>> /\ disk \in Seq(Segment) /\ last \in 1 .. last /\ current \in Segment /\ CurrentInv
      /\ rec.generation \in Nat /\ current = disk[last] /\ Len(current.data) \in Nat /\ current.data \in Seq(Frame)
  <2>1. disk # <<>>
    BY DEF DiskInv, open_segment_Header, open_segment_Slots, Rotate, Finalize, HalfAppended, append, HalfPublished,
       publish_boundary
  <2> QED BY <2>1, TypedFacts, LenProperties DEF DiskInv, current, Recorder, Segment
<1>2. ASSUME NEW s \in Segment, Kept(current, s), disk' = [disk EXCEPT ![last] = s]
      PROVE  \A i \in 1 .. last : Kept(disk[i], disk'[i])
  BY <1>1, <1>2, KeepsPut
<1>3. CASE open_segment_Header
  <2> DEFINE s == [current EXCEPT !.header = TRUE]
  <2>1. s \in Segment /\ s.data = current.data /\ s.header /\ s.sealed = current.sealed /\ s.meta = current.meta
    BY <1>1 DEF Segment
  <2>2. disk' = [disk EXCEPT ![last] = s]
    BY <1>3 DEF open_segment_Header, current
  <2> HIDE DEF s
  <2> QED BY <1>1, <1>2, <2>1, <2>2, KeepsData
<1>4. CASE open_segment_Slots
  <2> DEFINE s == [current EXCEPT !.meta = FirstSlots]
  <2>1. s \in Segment /\ s.data = current.data /\ s.header = current.header /\ s.sealed = current.sealed /\ s.meta = FirstSlots
    BY <1>1, NewTyped DEF Segment
  <2>2. disk' = [disk EXCEPT ![last] = s]
    BY <1>4 DEF open_segment_Slots, current
  <2> HIDE DEF s
  <2>3. valid_slot(Boundary(s)) => Boundary(s).committed <= Len(s.data)
    <3>1. FirstSlots \in Sidecar /\ FirstSlots[1].committed = 0 /\ FirstSlots[2].committed = 0
      BY NewTyped DEF FirstSlots, make_slot
    <3> QED BY <1>1, <2>1, <3>1, SelectFacts DEF Boundary
  <2> QED BY <1>1, <1>2, <2>1, <2>2, <2>3, KeepsData
<1>5. CASE Rotate \/ Finalize
  <2> DEFINE s == [current EXCEPT !.sealed = TRUE]
  <2>1. s \in Segment /\ s.data = current.data /\ s.header = current.header /\ s.sealed /\ s.meta = current.meta
    BY <1>1 DEF Segment
  <2>2. disk' = [disk EXCEPT ![last] = s]
    BY <1>5 DEF Rotate, Finalize, current
  <2> HIDE DEF s
  <2> QED BY <1>1, <1>2, <2>1, <2>2, KeepsData
<1>6. CASE HalfAppended
  <2> DEFINE s == [current EXCEPT !.data = Append(@, Torn)]
             n == Len(current.data)
  <2>1. s \in Segment /\ s.data = Append(current.data, Torn) /\ s.header = current.header /\ s.meta = current.meta
    BY <1>1, NewTyped, AppendProperties DEF Segment
  <2>2. disk' = [disk EXCEPT ![last] = s]
    BY <1>6 DEF HalfAppended, current
  <2> HIDE DEF s
  <2>3. Len(s.data) = n + 1 /\ \A i \in 1 .. n : s.data[i] = current.data[i]
    BY <1>1, <2>1, NewTyped, AppendProperties
  <2>4. ~current.sealed
    BY <1>1, <1>6 DEF HalfAppended, CurrentInv, Ready, Writing, Unsealed
  <2>5. n \in Nat /\ n <= Len(s.data)
    BY <1>1, <2>3
  <2> HIDE DEF n
  <2>6. Kept(current, s)
    BY <1>1, <2>1, <2>3, <2>4, <2>5, KeepsWritten DEF n
  <2> QED BY <1>2, <2>1, <2>2, <2>6
<1>7. CASE append
  <2> DEFINE s == [current EXCEPT !.data[Len(current.data)] = rec.pending]
             n == Len(current.data) - 1
  <2>1. rec.phase = "append" /\ rec.pending \in Frame
    BY <1>7, TypedFacts DEF append, Recorder
  <2>2. ~current.sealed /\ Len(current.data) > 0 /\ ~IsRecord(current.data[Len(current.data)])
    BY <1>1, <2>1 DEF CurrentInv, Adding, Writing, Unsealed
  <2>3. n \in Nat /\ n + 1 = Len(current.data)
    BY <1>1, <2>2
  <2>4. s.data = [current.data EXCEPT ![Len(current.data)] = rec.pending]
    BY <1>1 DEF Segment
  <2>5. Len(s.data) = Len(current.data) /\ s.data \in Seq(Frame) /\ \A i \in 1 .. n : s.data[i] = current.data[i]
    <3> HIDE DEF s
    <3>1. DOMAIN current.data = 1 .. Len(current.data)
      BY <1>1, LenProperties
    <3>2. s.data \in Seq(Frame) /\ Len(s.data) = Len(current.data)
      BY <1>1, <2>1, <2>2, <2>4, ExceptSeq
    <3> QED BY <1>1, <2>3, <2>4, <3>1, <3>2
  <2>6. s \in Segment /\ s.header = current.header /\ s.meta = current.meta
    BY <1>1, <2>4, <2>5 DEF Segment
  <2>7. disk' = [disk EXCEPT ![last] = s]
    BY <1>7 DEF append, current
  <2> HIDE DEF s, n
  <2>8. ~IsRecord(current.data[n+1]) /\ n <= Len(s.data) /\ Len(current.data) <= Len(s.data)
    BY <1>1, <2>2, <2>3, <2>5
  <2>9. Kept(current, s)
    BY <1>1, <2>2, <2>3, <2>5, <2>6, <2>8, KeepsWritten
  <2> QED BY <1>2, <2>6, <2>7, <2>9
<1>8. CASE HalfPublished \/ publish_boundary
  <2>1. current' \in Segment /\ disk' = [disk EXCEPT ![last] = current'] /\ current'.data = current.data
        /\ current'.header = current.header /\ current'.sealed = current.sealed
    <3> DEFINE meta == IF HalfPublished THEN Published(BadSlot)
                       ELSE Published(make_slot(rec.generation + 1, Len(current.data)))
               s == [current EXCEPT !.meta = meta]
    <3>1. disk' = [disk EXCEPT ![last] = s]
      BY <1>8 DEF HalfPublished, publish_boundary, current
    <3>2. disk' \in Seq(Segment) /\ Len(disk') = Len(disk)
      BY <1>1, <3>1, LenProperties DEF DiskGood
    <3>3. last' = last /\ current' = disk'[last] /\ disk'[last] = s
      BY <1>1, <3>1, <3>2, LenProperties DEF last, current
    <3>4. s.data = current.data /\ s.header = current.header /\ s.sealed = current.sealed
      BY <1>1 DEF Segment
    <3> HIDE DEF s
    <3>5. s \in Segment
      BY <1>1, <3>2, <3>3, ElementOfSeq DEF last
    <3> QED BY <3>1, <3>3, <3>4, <3>5
  <2>2. rec'.phase \in Ready \cup Adding /\ rec'.generation \in Nat /\ disk' # <<>>
    <3>1. CASE HalfPublished
      BY <3>1, HalfPublishedDisk, TypedFacts, GoFacts DEF HalfPublished, Adding, DiskGood, Recorder, RecorderPhases
    <3>2. CASE publish_boundary
      BY <3>2, PublishDisk, TypedFacts DEF publish_boundary, Ready, DiskGood, Recorder
    <3> QED BY <1>8, <3>1, <3>2
  <2>3. Len(current'.data) \in Nat /\ CurrentInv'
    BY <2>1, <2>2, LenProperties DEF Segment, DiskGood, DiskInv
  <2>4. Boundary(current').committed <= Len(current'.data)
    <3>1. CASE rec'.phase \in Ready
      BY <2>1, <2>2, <2>3, <3>1, WritingFacts DEF CurrentInv
    <3>2. CASE rec'.phase \in Adding
      <4>1. Len(current'.data) - 1 \in Nat /\ Writing(current', rec'.generation, Len(current'.data) - 1)
        BY <2>3, <3>2 DEF CurrentInv
      <4> QED BY <2>1, <2>2, <2>3, <4>1, WritingFacts
    <3> QED BY <2>2, <3>1, <3>2
  <2> QED BY <1>1, <1>2, <2>1, <2>4, KeepsData
<1> QED BY <1>3, <1>4, <1>5, <1>6, <1>7, <1>8

\* Repairs and compression.
LEMMA RepairKeeps ==
  ASSUME CaptureTypeOK, DiskInv, WalWriter_recover \/ EmptyMetadata \/ WriteMetadata \/ Recompress \/ Compress
  PROVE  /\ \A i \in 1 .. last : Kept(disk[i], disk'[i])
         /\ WalWriter_recover => disk # <<>> /\ (disk' = disk \/ disk'[last].sealed)
<1>1. disk \in Seq(Segment) /\ rec \in Recorder /\ rec.generation \in Nat /\ DOMAIN disk = 1 .. last
      /\ \A i \in 1 .. last : disk[i] \in Segment
  BY TypedFacts, LenProperties DEF Recorder, last
<1>2. CASE disk' = disk
  BY <1>2, KeepsAll DEF WalWriter_recover, DiskInv
<1>3. ASSUME WalWriter_recover \/ EmptyMetadata \/ WriteMetadata \/ Recompress
      PROVE /\ disk # <<>> /\ current = disk[last] /\ last \in 1 .. last /\ current \in Segment
            /\ EmptyMetadata \/ WriteMetadata \/ Recompress => Closed(current)
            /\ Closed(current) \/ (Unsealed(current) /\ (rec.lost_power \/ Steady(current)))
  <2>1. disk # <<>>
    BY <1>3 DEF DiskInv, WalWriter_recover, EmptyMetadata, WriteMetadata, Recompress
  <2> QED BY <2>1, TypedFacts, CurrentKind
          DEF current, DiskInv, CurrentInv, EmptyMetadata, WriteMetadata, Recompress, Repairing
<1>4. CASE WalWriter_recover /\ disk' # disk
  <2>1. recoverable(current) /\ disk' = [disk EXCEPT ![last] = truncate_to_valid(current)]
    BY <1>4 DEF WalWriter_recover, current
  <2>3. disk # <<>> /\ current = disk[last] /\ last \in 1 .. last /\ current \in Segment
        /\ (Closed(current) \/ (Unsealed(current) /\ (rec.lost_power \/ Steady(current))))
    BY <1>3, <1>4
  <2>4. truncate_to_valid(current) \in Segment /\ Closed(truncate_to_valid(current)) /\ Kept(current, truncate_to_valid(current))
    BY <2>1, <2>3, TruncateFacts, KeepsTruncate
  <2>5. disk'[last] = truncate_to_valid(current)
    BY <1>1, <2>1, <2>3
  <2>6. disk'[last].sealed
    BY <2>4, <2>5 DEF Closed
  <2> QED BY <2>1, <2>3, <2>4, <2>6, KeepsPut
<1>5. ASSUME EmptyMetadata \/ WriteMetadata \/ Recompress, disk' # disk
      PROVE  \A i \in 1 .. last : Kept(disk[i], disk'[i])
  <2>1. last \in 1 .. last /\ current = disk[last] /\ current \in Segment
    BY <1>3, <1>5
  <2>2. ASSUME NEW s \in Segment, disk' = [disk EXCEPT ![last] = s], s.data = current.data, s.header = current.header,
               s.sealed = current.sealed,
               s.meta = current.meta \/ ~valid_slot(Boundary(s)) \/ Boundary(s).committed <= Len(s.data)
        PROVE  \A i \in 1 .. last : Kept(disk[i], disk'[i])
    BY <2>1, <2>2, KeepsData, KeepsPut
  <2>3. CASE EmptyMetadata
    <3> DEFINE s == [current EXCEPT !.meta = NoMeta]
    <3>1. s \in Segment /\ s.data = current.data /\ s.header = current.header /\ s.sealed = current.sealed /\ s.meta = NoMeta
      BY <2>1, NewTyped DEF Segment
    <3>2. disk' = [disk EXCEPT ![last] = s]
      BY <2>3 DEF EmptyMetadata, current
    <3> HIDE DEF s
    <3>3. NoMeta \in Sidecar /\ ~valid_slot(NoMeta[1]) /\ ~valid_slot(NoMeta[2])
      BY NewTyped DEF NoMeta, BadSlot, valid_slot
    <3>4. ~valid_slot(Boundary(s))
      BY <3>1, <3>3, SelectFacts DEF Boundary
    <3> QED BY <2>2, <3>1, <3>2, <3>4
  <2>4. CASE WriteMetadata
    <3> DEFINE n == Len(current.data)
               m == <<make_slot(rec.generation + 1, n), make_slot(rec.generation + 2, n)>>
               s == [current EXCEPT !.meta = m]
    <3>1. n \in Nat
      BY <2>1, LenProperties DEF Segment
    <3>2. m \in Sidecar /\ m[1].committed = n /\ m[2].committed = n
      BY <1>1, <3>1 DEF Sidecar, Slot, make_slot
    <3>3. disk' = [disk EXCEPT ![last] = s]
      BY <2>4 DEF WriteMetadata, write_recovered_metadata, current
    <3> HIDE DEF m
    <3>4. s \in Segment /\ s.data = current.data /\ s.header = current.header /\ s.sealed = current.sealed /\ s.meta = m
      BY <2>1, <3>2 DEF Segment
    <3> HIDE DEF s
    <3>5. valid_slot(Boundary(s)) => Boundary(s).committed <= Len(s.data)
      BY <3>1, <3>2, <3>4, SelectFacts DEF Boundary
    <3> QED BY <2>2, <3>3, <3>4, <3>5
  <2>5. CASE Recompress
    <3> DEFINE s == compress_closed_segment(current)
    <3>0. [disk EXCEPT ![last] = disk[last]] = disk
      BY <1>1
    <3>1. disk' = [disk EXCEPT ![last] = s]
      <4>1. disk' = [disk EXCEPT ![last] = IF disk[last].zst.present THEN disk[last] ELSE compress_closed_segment(disk[last])]
        BY <1>5, <2>5 DEF Recompress
      <4>2. ~disk[last].zst.present
        BY <1>5, <3>0, <4>1
      <4> QED BY <4>1, <4>2 DEF current
    <3>2. s \in Segment /\ s.data = current.data /\ s.header = current.header /\ s.sealed = current.sealed
          /\ s.meta = current.meta
      BY <2>1 DEF Segment, compress_closed_segment
    <3> HIDE DEF s
    <3> QED BY <2>2, <3>1, <3>2
  <2> QED BY <1>5, <2>3, <2>4, <2>5
<1>6. ASSUME Compress, disk' # disk
      PROVE  \A i \in 1 .. last : Kept(disk[i], disk'[i])
  <2> DEFINE k == Head(jobs)
             s == compress_closed_segment(disk[k])
  <2>1. disk' = [disk EXCEPT ![k] = s] /\ jobs # <<>>
    BY <1>6 DEF Compress
  <2>2. k \in 1 .. last
    BY <2>1, TypedFacts, HeadTailProperties
  <2>3. s \in Segment /\ s.data = disk[k].data /\ s.header = disk[k].header /\ s.sealed = disk[k].sealed
        /\ s.meta = disk[k].meta
    BY <1>1, <2>2 DEF Segment, compress_closed_segment
  <2> HIDE DEF s, k
  <2>4. Kept(disk[k], s)
    BY <1>1, <2>2, <2>3, KeepsData
  <2> QED BY <2>1, <2>2, <2>3, <2>4, KeepsPut
<1> QED BY <1>2, <1>4, <1>5, <1>6

\* A recorder that is not running leaves the last segment alone, until a recovery seals it.
Rests == \/ disk'[last].sealed
         \/ last' = last /\ rec'.phase \in Idle /\ disk'[last].data = disk[last].data

LEMMA RecorderKeeps ==
  ASSUME CaptureTypeOK, DiskInv, PendingInv, [CaptureNext]_captureVars, ~PowerLoss
  PROVE  /\ \A i \in 1 .. last : Kept(disk[i], disk'[i])
         /\ disk # <<>> /\ rec.phase \in Idle => Rests
         /\ last' = last \/ (last' = last + 1 /\ disk'[last'] = NewSegment)
<1>1. rec \in Recorder /\ last \in Nat /\ disk \in Seq(Segment) /\ DiskGood
  BY TypedFacts, NextKinds
<1>2. ASSUME disk' = disk, rec.phase \in Idle => rec'.phase \in Idle \/ disk = <<>>
      PROVE  /\ \A i \in 1 .. last : Kept(disk[i], disk'[i])
             /\ disk # <<>> /\ rec.phase \in Idle => Rests
             /\ last' = last
  BY <1>2, KeepsAll, CurrentSame DEF Rests
<1>3. CASE UNCHANGED captureVars \/ TailerCrash \/ TailerStep
  <2>1. disk' = disk /\ rec' = rec
    BY <1>3 DEF captureVars, TailerCrash, TailerStep, open_tailer, NextBuffered, rescan, WalReader_open,
       RawFileStream_read, WalReader_resolve_boundary, fill_from_current_segment, Advance
  <2> QED BY <1>2, <2>1
<1>4. CASE Start \/ Failed
  BY <1>1, <1>2, <1>4 DEF Start, Failed, Go, Recorder, Idle
<1>5. CASE ProcessCrash
  BY <1>1, <1>2, <1>5, StoppedFacts DEF ProcessCrash, Idle
<1>6. CASE open_segment_Flush \/ Handshake \/ Ingest \/ EndOfStream \/ ExecutionWalWriter_append \/ NeedsNoRotation
           \/ Commit \/ PushFinal \/ Join
  BY <1>2, <1>6 DEF open_segment_Flush, Handshake, Ingest, EndOfStream, ExecutionWalWriter_append, NeedsNoRotation,
     Commit, PushFinal, Join, Idle
<1>7. CASE open_segment_File
  <2>1. disk' = Append(disk, NewSegment) /\ rec.phase = "create"
    BY <1>7 DEF open_segment_File
  <2>2. last' = last + 1 /\ disk'[last'] = NewSegment /\ \A i \in 1 .. last : disk'[i] = disk[i]
    BY <1>1, <2>1, NewTyped, AppendProperties DEF last
  <2> QED BY <2>1, <2>2, KeepsAll DEF Idle
<1>8. CASE open_segment_Header \/ open_segment_Slots \/ Rotate \/ Finalize
           \/ HalfAppended \/ append \/ HalfPublished \/ publish_boundary
  <2>1. rec.phase \notin Idle
    BY <1>8 DEF open_segment_Header, open_segment_Slots, Rotate, Finalize, HalfAppended, append, HalfPublished,
       publish_boundary, Idle
  <2>2. last' = last
    BY <1>1, <1>8, LenProperties DEF open_segment_Header, open_segment_Slots, Rotate, Finalize, HalfAppended, append,
       HalfPublished, publish_boundary, last, DiskGood
  <2> QED BY <1>1, <1>8, <2>1, <2>2, WriterKeeps
<1>9. CASE EmptyMetadata \/ WriteMetadata \/ Recompress
  <2>1. rec.phase \notin Idle
    BY <1>9 DEF EmptyMetadata, WriteMetadata, Recompress, Idle
  <2>2. last' = last
    BY <1>1, <1>9, LenProperties DEF EmptyMetadata, WriteMetadata, Recompress, last, DiskGood
  <2> QED BY <1>9, <2>1, <2>2, RepairKeeps
<1>10. CASE WalWriter_recover
  <2>1. last' = last
    BY <1>1, <1>10, LenProperties DEF WalWriter_recover, last, DiskGood
  <2>2. disk' = disk => Rests
    <3>1. recoverable(current) => disk'[last].sealed
      <4>1. recoverable(current) => disk' = [disk EXCEPT ![last] = truncate_to_valid(current)]
        BY <1>10 DEF WalWriter_recover, current
      <4>2. recoverable(current) => truncate_to_valid(current).sealed
        <5>1. disk # <<>>
          BY <1>10 DEF WalWriter_recover, DiskInv
        <5>2. current \in Segment /\ (Closed(current) \/ Unsealed(current))
          BY <5>1, TypedFacts, CurrentKind
        <5> QED BY <5>2, TruncateFacts DEF Closed
      <4>3. disk # <<>> /\ last \in 1 .. last /\ DOMAIN disk = 1 .. last
        BY <1>1, <1>10, TypedFacts, LenProperties DEF WalWriter_recover, DiskInv, last
      <4> QED BY <4>1, <4>2, <4>3
    <3>2. ~recoverable(current) => rec'.phase = "failed"
      BY <1>1, <1>10 DEF WalWriter_recover, Go, Recorder
    <3> QED BY <2>1, <3>1, <3>2 DEF Rests, Idle
  <2> QED BY <1>10, <2>1, <2>2, RepairKeeps DEF Rests
<1>11. CASE Compress
  <2>1. last' = last
    BY <1>1, <1>11, LenProperties DEF Compress, last, DiskGood
  <2>2. rec'.phase = rec.phase
    BY <1>1, <1>11 DEF Compress, Recorder
  <2>3. disk # <<>> => disk'[last].data = disk[last].data
    <3>1. jobs # <<>> /\ (disk' = disk \/ disk' = [disk EXCEPT ![Head(jobs)] = compress_closed_segment(@)])
      BY <1>11 DEF Compress
    <3>2. Head(jobs) \in 1 .. last
      BY <3>1, TypedFacts, HeadTailProperties
    <3>3. compress_closed_segment(disk[Head(jobs)]).data = disk[Head(jobs)].data
      BY <3>2, TypedFacts DEF Segment, compress_closed_segment
    <3>4. DOMAIN disk = 1 .. last
      BY <1>1, LenProperties DEF last
    <3> QED BY <3>1, <3>2, <3>3, <3>4, TypedFacts
  <2> QED BY <1>11, <2>1, <2>2, <2>3, RepairKeeps DEF Rests
<1> QED BY <1>3, <1>4, <1>5, <1>6, <1>7, <1>8, <1>9, <1>10, <1>11 DEF CaptureNext

LEMMA NamedKept ==
  ASSUME CaptureTypeOK, DiskInv, PendingInv, NamedInv, [CaptureNext]_captureVars
  PROVE  NamedInv'
<1>1. CASE PowerLoss
  BY <1>1, PowerKept DEF NamedInv
<1>2. CASE ~PowerLoss /\ ~rec.lost_power
  <2>1. /\ \A i \in 1 .. last : Kept(disk[i], disk'[i]) /\ Modest(disk[i])
        /\ last \in Nat /\ (last' = last \/ (last' = last + 1 /\ disk'[last'] = NewSegment))
    BY <1>2, RecorderKeeps, TypedFacts DEF NamedInv, Modest
  <2>2. Modest(NewSegment)
    <3>1. NoMeta \in Sidecar /\ ~valid_slot(NoMeta[1]) /\ ~valid_slot(NoMeta[2]) /\ NewSegment.meta = NoMeta
      BY NewTyped DEF NoMeta, BadSlot, valid_slot, NewSegment
    <3> QED BY <3>1, SelectFacts DEF Modest, Boundary
  <2>3. ASSUME NEW i \in 1 .. last' PROVE Modest(disk'[i])
    <3>1. i \in 1 .. last \/ (i = last' /\ disk'[last'] = NewSegment)
      BY <2>1
    <3> QED BY <1>2, <2>1, <2>2, <3>1 DEF Kept
  <2> QED BY <2>3 DEF NamedInv, Modest
<1>3. CASE ~PowerLoss /\ rec.lost_power
  BY <1>3, PowerKept DEF NamedInv
<1> QED BY <1>1, <1>2, <1>3
-----------------------------------------------------------------------------
(* Where the tailer stands in the log. *)

CountBefore(d, c) == Len(Recorded(SubSeq(d, 1, Smaller(c.segment - 1, Len(d)))))
                + IF c.segment <= Len(d) THEN Smaller(c.frames, Len(Readable(d[c.segment]))) ELSE 0

CursorType == [segment : Nat \ {0}, frames : Nat]

LEMMA BeforeFacts ==
  ASSUME NEW d \in Seq(Segment), NEW c \in CursorType, c.segment <= Len(d)
  PROVE  LET b == Len(Recorded(SubSeq(d, 1, c.segment - 1)))
             r == Readable(d[c.segment])
         IN  /\ b \in Nat /\ Len(r) \in Nat /\ r \in Seq(Frame) /\ CountBefore(d, c) = b + Smaller(c.frames, Len(r))
             /\ b + Len(r) <= Len(Recorded(d)) /\ b + Len(r) = Len(Recorded(SubSeq(d, 1, c.segment)))
             /\ \A j \in 1 .. Len(r) : Recorded(d)[b+j] = r[j]
             /\ CountBefore(d, c) \in Nat /\ CountBefore(d, c) <= Len(Recorded(d))
<1> DEFINE k == c.segment
           b == Len(Recorded(SubSeq(d, 1, k - 1)))
           r == Readable(d[k])
<1>1. k \in 1 .. Len(d) /\ Len(d) \in Nat /\ c.frames \in Nat /\ Smaller(k - 1, Len(d)) = k - 1
  BY LenProperties DEF CursorType, Smaller
<1>2. d[k] \in Segment
  BY <1>1, ElementOfSeq
<1>3. r \in Seq(Frame)
  BY <1>2, ReadableFacts
<1>4. /\ b \in Nat /\ Len(r) \in Nat /\ b + Len(r) <= Len(Recorded(d)) /\ b + Len(r) = Len(Recorded(SubSeq(d, 1, k)))
      /\ \A j \in 1 .. Len(r) : Recorded(d)[b+j] = r[j]
  BY <1>1, RecordedWithin
<1>5. CountBefore(d, c) = b + Smaller(c.frames, Len(r))
  BY <1>1 DEF CountBefore
<1>6. Smaller(c.frames, Len(r)) \in Nat /\ Smaller(c.frames, Len(r)) <= Len(r)
  BY <1>1, <1>4 DEF Smaller
<1>7. Len(Recorded(d)) \in Nat
  BY RecordedTyped
<1> HIDE DEF b, r, k
<1>8. CountBefore(d, c) \in Nat /\ CountBefore(d, c) <= Len(Recorded(d))
  BY <1>4, <1>5, <1>6, <1>7
<1> QED BY <1>3, <1>4, <1>5, <1>8 DEF b, r, k

\* A tailer that has not moved stands at the start of the log.
LEMMA BeforeStart ==
  ASSUME NEW d \in Seq(Segment), NEW c, c = Cursor(1, 0)
  PROVE  CountBefore(d, c) = 0
<1>1. c.segment = 1 /\ c.frames = 0 /\ Len(d) \in Nat
  BY LenProperties DEF Cursor
<1>2. Smaller(c.segment - 1, Len(d)) = 0
  BY <1>1 DEF Smaller
<1>3. SubSeq(d, 1, 0) = <<>>
  BY EmptySeq
<1>4. Len(Recorded(SubSeq(d, 1, Smaller(c.segment - 1, Len(d))))) = 0
  <2>1. Recorded(SubSeq(d, 1, 0)) = <<>>
    BY <1>3, RecordedNone
  <2>2. Len(<<>>) = 0
    OBVIOUS
  <2> QED BY <1>2, <2>1, <2>2
<1>5. CASE c.segment <= Len(d)
  <2>1. Len(Readable(d[c.segment])) \in Nat
    BY <1>1, <1>5, ElementOfSeq, ReadableFacts, LenProperties
  <2>2. Smaller(c.frames, Len(Readable(d[c.segment]))) = 0
    BY <1>1, <2>1 DEF Smaller
  <2> QED BY <1>4, <1>5, <2>2 DEF CountBefore
<1>6. CASE ~(c.segment <= Len(d))
  BY <1>4, <1>6 DEF CountBefore
<1> QED BY <1>5, <1>6

LEMMA BeforeSame ==
  ASSUME NEW d \in Seq(Segment), NEW e \in Seq(Segment), NEW c \in CursorType,
         c.segment <= Len(d), c.segment <= Len(e),
         \A i \in 1 .. c.segment - 1 : Readable(d[i]) = Readable(e[i]),
         \/ Len(Readable(d[c.segment])) = Len(Readable(e[c.segment]))
         \/ c.frames <= Len(Readable(d[c.segment])) /\ c.frames <= Len(Readable(e[c.segment]))
  PROVE  CountBefore(d, c) = CountBefore(e, c)
<1> DEFINE k == c.segment - 1
           p == SubSeq(d, 1, k)
           q == SubSeq(e, 1, k)
<1>1. k \in 0 .. Len(d) /\ k \in 0 .. Len(e)
  BY LenProperties DEF CursorType
<1>2. /\ p \in Seq(Segment) /\ Len(p) = k /\ \A i \in 1 .. k : p[i] = d[i]
      /\ q \in Seq(Segment) /\ Len(q) = k /\ \A i \in 1 .. k : q[i] = e[i]
  BY <1>1, RecordedFirst
<1>3. Recorded(p) = Recorded(q)
  <2>1. \A i \in 1 .. Len(p) : Readable(p[i]) = Readable(q[i])
    BY <1>2
  <2> HIDE DEF p, q
  <2> QED BY <1>2, <2>1, RecordedSame
<1>4. /\ CountBefore(d, c) = Len(Recorded(p)) + Smaller(c.frames, Len(Readable(d[c.segment])))
      /\ CountBefore(e, c) = Len(Recorded(q)) + Smaller(c.frames, Len(Readable(e[c.segment])))
  BY BeforeFacts
<1>5. Len(Readable(d[c.segment])) \in Nat /\ Len(Readable(e[c.segment])) \in Nat /\ c.frames \in Nat
  BY BeforeFacts DEF CursorType
<1>6. Smaller(c.frames, Len(Readable(d[c.segment]))) = Smaller(c.frames, Len(Readable(e[c.segment])))
  BY <1>5 DEF Smaller
<1> QED BY <1>3, <1>4, <1>6

\* What the tailer has delivered, frame by frame.
LEMMA RunForm ==
  ASSUME NEW r \in Seq(Frame), NEW g \in Seq(Frame), NEW b \in Nat, b + Len(r) <= Len(g)
  PROVE  r = SubSeq(g, b + 1, b + Len(r)) <=> \A i \in 1 .. Len(r) : r[i] = g[b+i]
<1> DEFINE s == SubSeq(g, b + 1, b + Len(r))
<1>1. Len(r) \in Nat /\ Len(g) \in Nat
  BY LenProperties
<1>2. s \in Seq(Frame) /\ Len(s) = Len(r) /\ \A i \in 1 .. Len(r) : s[i] = g[b+i]
  BY <1>1
<1> HIDE DEF s
<1>3. (\A i \in 1 .. Len(r) : r[i] = g[b+i]) => r = s
  BY <1>1, <1>2, SeqEqual
<1>4. r = s => \A i \in 1 .. Len(r) : r[i] = g[b+i]
  BY <1>2
<1> QED BY <1>3, <1>4 DEF s

LEMMA TailFacts ==
  ASSUME CaptureTypeOK
  PROVE  /\ tail.cursor \in CursorType /\ tail.run \in Seq(Frame) /\ tail.base \in Nat /\ tail.buffer \in Seq(Frame)
         /\ tail.cursor.segment \in Nat \ {0} /\ tail.cursor.frames \in Nat /\ tail.catalog \in Nat
         /\ Len(tail.run) \in Nat /\ Len(tail.buffer) \in Nat /\ Log \in Seq(Frame) /\ Len(Log) \in Nat
         /\ last \in Nat /\ disk \in Seq(Segment) /\ FramesBefore(tail.cursor) = CountBefore(disk, tail.cursor)
<1>1. tail \in Tailer /\ disk \in Seq(Segment) /\ last \in Nat
  BY TypedFacts
<1>2. tail.cursor \in CursorType /\ tail.run \in Seq(Frame) /\ tail.base \in Nat /\ tail.buffer \in Seq(Frame)
      /\ tail.catalog \in Nat
  BY <1>1 DEF Tailer, CursorType
<1>3. tail.cursor.segment \in Nat \ {0} /\ tail.cursor.frames \in Nat
  BY <1>2 DEF CursorType
<1> QED BY <1>1, <1>2, <1>3, LenProperties, RecordedTyped DEF Log, FramesBefore, CountBefore

\* The tailer's reader, and the segment it reads.
LEMMA ReaderFacts ==
  ASSUME CaptureTypeOK
  PROVE  /\ tail.reader \in [frames : Seq(Frame), size : Nat, boundary : Nat]
         /\ tail.reader.frames \in Seq(Frame) /\ Len(tail.reader.frames) \in Nat
         /\ tail.reader.size \in Nat /\ tail.reader.boundary \in Nat
<1>1. tail.reader \in [frames : Seq(Frame), size : Nat, boundary : Nat]
  BY TypedFacts DEF Tailer
<1>2. tail.reader.frames \in Seq(Frame) /\ tail.reader.size \in Nat /\ tail.reader.boundary \in Nat
  BY <1>1
<1> QED BY <1>1, <1>2, LenProperties

LEMMA GotFacts ==
  ASSUME NEW r \in [frames : Seq(Frame), size : Nat, boundary : Nat]
  PROVE  /\ Got(r) \in Nat /\ Got(r) <= Len(r.frames) /\ Got(r) <= r.boundary /\ Len(r.frames) \in Nat
         /\ Got(r) = Len(r.frames) \/ Got(r) = r.boundary
BY LenProperties DEF Got, Smaller

\* A segment is closed and past, or it is the last one and what a process or the loss of power has left.
LEMMA SegmentKind ==
  ASSUME CaptureTypeOK, DiskInv, NEW k \in 1 .. last
  PROVE  /\ disk[k] \in Segment
         /\ \/ Closed(disk[k]) /\ disk[k].sealed /\ Past(k)
            \/ k = last /\ ~disk[k].sealed /\ (Steady(disk[k]) \/ (rec.lost_power /\ rec.phase \in Idle))
<1>1. last \in Nat /\ disk[k] \in Segment /\ disk # <<>>
  BY TypedFacts
<1>2. CASE k < last
  <2>1. Closed(disk[k])
    BY <1>1, <1>2 DEF DiskInv
  <2> QED BY <1>1, <1>2, <2>1 DEF Closed, Past
<1>3. CASE k = last
  BY <1>1, <1>3, CurrentKind DEF current, Closed, Unsealed, Past
<1> QED BY <1>1, <1>2, <1>3

\* Whole frames that no boundary cuts off can be read.
LEMMA WholeReadable ==
  ASSUME NEW seg \in Segment, seg.header, NEW i \in Nat, i <= Len(seg.data), Whole(seg.data, i),
         valid_slot(Boundary(seg)) => i <= Boundary(seg).committed
  PROVE  i <= Len(Readable(seg))
<1>1. Len(seg.data) \in Nat /\ Limit(seg) \in Nat /\ Boundary(seg) \in Slot
  BY LimitFacts, LenProperties DEF Segment
<1>2. i <= Limit(seg)
  BY <1>1, LimitFacts DEF Smaller, Slot
<1>3. Readable(seg) = ValidPrefix(seg, Limit(seg))
  BY ReadableFacts DEF ReadAll, next, Limit
<1> QED BY <1>1, <1>2, <1>3, ValidPrefixFacts

\* What was taken is whole in the segment too, as far as it is there.
LEMMA MatchesWhole ==
  ASSUME NEW seg \in Segment, NEW f \in Seq(Frame), Matches(seg, f), NEW i \in 1 .. Len(f), Whole(f, i)
  PROVE  (i <= Len(seg.data) /\ f[i] = seg.data[i] /\ Whole(seg.data, i)) \/ Gone(seg, i)
<1>1. Len(f) \in Nat /\ Len(seg.data) \in Nat
  BY LenProperties DEF Segment
<1>2. CASE Gone(seg, i)
  BY <1>2
<1>3. CASE ~Gone(seg, i)
  <2>1. i <= Len(seg.data) /\ f[i] = seg.data[i]
    BY <1>3 DEF Matches
  <2>2. ASSUME NEW j \in 1 .. i PROVE IsRecord(seg.data[j])
    <3>1. j \in 1 .. Len(f) /\ Whole(f, j) /\ IsRecord(f[j])
      BY <1>1 DEF Whole
    <3>2. ~Gone(seg, j)
      BY <1>1, <2>1 DEF Gone
    <3> QED BY <3>1, <3>2 DEF Matches
  <2> QED BY <2>1, <2>2 DEF Whole
<1> QED BY <1>2, <1>3

\* What the tailer relies on: the log only grows, and only where it is written.
Grows ==
  /\ DiskGood /\ last' >= last /\ tail' = tail /\ rec'.lost_power = rec.lost_power
  /\ \A i \in 1 .. last :
       \/ Readable(disk'[i]) = Readable(disk[i])
       \/ /\ i = last /\ rec.phase \in Growing /\ Len(Readable(disk[i])) <= Len(Readable(disk'[i]))
          /\ \A j \in 1 .. Len(Readable(disk[i])) : Readable(disk'[i])[j] = Readable(disk[i])[j]
  /\ Len(Log) <= Len(Log') /\ \A k \in 1 .. Len(Log) : Log'[k] = Log[k]
  /\ rec'.phase \in Growing => rec.phase \in Growing \/ last' > last

\* ... and what the recorder leaves alone.
Leaves ==
  /\ \A i \in 1 .. last : Keeps(disk[i], disk'[i])
  /\ disk # <<>> /\ rec.phase \in Idle => Rests

LEMMA PastKept ==
  ASSUME CaptureTypeOK, Grows, NEW k \in Nat, Past(k)
  PROVE  Past(k)'
<1>1. last \in Nat /\ last' \in Nat /\ last' >= last
  BY TypedFacts, LenProperties DEF Grows, DiskGood, last
<1> QED BY <1>1 DEF Past, Grows

LEMMA GrowsReader ==
  ASSUME CaptureTypeOK, DiskInv, Grows, Leaves, ReaderInv(tail),
         tail.phase \in {"ahead", "read"} => tail.cursor.segment <= tail.catalog /\ tail.catalog <= last
  PROVE  ReaderInv(tail)'
<1> DEFINE k == tail.cursor.segment
           a == disk[k]
           b == disk'[k]
           r == tail.reader
<1>1. /\ k \in Nat \ {0} /\ tail.catalog \in Nat /\ last \in Nat /\ last' \in Nat /\ last' >= last /\ tail' = tail
      /\ rec'.lost_power = rec.lost_power /\ disk' \in Seq(Segment) /\ last' = Len(disk')
  BY TailFacts, LenProperties DEF Grows, DiskGood, last
<1>2. CASE tail.phase \notin {"ahead", "read"}
  BY <1>1, <1>2 DEF ReaderInv
<1>3. CASE tail.phase \in {"ahead", "read"}
  <2>1. k \in 1 .. last /\ k \in 1 .. last' /\ tail.catalog <= last
    BY <1>1, <1>3
  <2>2. a \in Segment /\ b \in Segment /\ Len(a.data) \in Nat /\ Len(b.data) \in Nat
    <3>1. a \in Segment /\ b \in Segment
      BY <1>1, <2>1, TypedFacts, ElementOfSeq
    <3> QED BY <3>1, LenProperties DEF Segment
  <2>3. r \in [frames : Seq(Frame), size : Nat, boundary : Nat] /\ Len(r.frames) \in Nat /\ r.frames \in Seq(Frame)
    BY ReaderFacts
  <2>4. Keeps(a, b)
    BY <2>1 DEF Leaves
  <2>5. a.header /\ b.header
    BY <1>3, <2>4 DEF ReaderInv, Keeps
  <2>6. k < tail.catalog => a.sealed /\ b.data = a.data
    <3>1. k < tail.catalog => Closed(a)
      BY <1>1, <2>1 DEF DiskInv
    <3> QED BY <2>4, <3>1 DEF Closed, Keeps
  <2>7. k < tail.catalog => Complete(b, r)
    BY <1>3, <2>6 DEF ReaderInv, Complete
  <2>8. tail.phase = "ahead" => Matches(b, r.frames) /\ (~b.sealed => r.size = SegmentFrames)
    <3> SUFFICES ASSUME tail.phase = "ahead" PROVE Matches(b, r.frames) /\ (~b.sealed => r.size = SegmentFrames)
      OBVIOUS
    <3>1. Matches(a, r.frames) /\ (~a.sealed => r.size = SegmentFrames)
      BY DEF ReaderInv
    <3>2. ASSUME NEW i \in 1 .. Len(r.frames), Whole(r.frames, i)
          PROVE  (i <= Len(b.data) /\ r.frames[i] = b.data[i]) \/ Gone(b, i)
      <4>1. (i <= Len(a.data) /\ r.frames[i] = a.data[i] /\ Whole(a.data, i)) \/ Gone(a, i)
        BY <2>2, <2>3, <3>1, <3>2, MatchesWhole
      <4>2. i \in Nat /\ (i <= Len(a.data) => i \in 1 .. Len(a.data))
        BY <2>2, <2>3
      <4> QED BY <2>4, <4>1, <4>2 DEF Keeps
    <3> QED BY <2>4, <3>1, <3>2 DEF Matches, Keeps
  <2>9. ASSUME tail.phase = "read"
        PROVE  /\ k < tail.catalog => r.boundary = Len(b.data)
               /\ InLog(b, r) \/ (tail.dropped /\ Past(k)')
               /\ Stuck(r) \/ Secure(k, r.boundary)'
               /\ rec'.lost_power \/ tail.torn \/ tail.dropped \/ Explained(b, r)
    <3>1. /\ k < tail.catalog => r.boundary = Len(a.data)
          /\ InLog(a, r) \/ (tail.dropped /\ Past(k))
          /\ Stuck(r) \/ Secure(k, r.boundary)
          /\ rec.lost_power \/ tail.torn \/ tail.dropped \/ Explained(a, r)
      BY <2>9 DEF ReaderInv
    <3> DEFINE p == Readable(a)
               q == Readable(b)
    <3>2. /\ p \in Seq(Frame) /\ q \in Seq(Frame) /\ Len(p) \in Nat /\ Len(q) \in Nat
      BY <2>2, ReadableFacts, LenProperties
    <3>3. Len(p) <= Len(q) /\ (\A j \in 1 .. Len(p) : q[j] = p[j]) /\ (rec.phase \notin Growing => q = p)
      BY <2>1, <3>2 DEF Grows
    <3> HIDE DEF p, q
    <3>4. InLog(a, r) => InLog(b, r)
      <4> SUFFICES ASSUME InLog(a, r), NEW i \in 1 .. Got(r), Whole(r.frames, i)
                   PROVE  i <= Len(q) /\ r.frames[i] = q[i]
        BY DEF InLog, q
      <4>1. i <= Len(p) /\ r.frames[i] = p[i]
        BY DEF InLog, p
      <4>2. i \in 1 .. Len(p)
        BY <2>3, <3>2, <4>1, GotFacts
      <4> QED BY <3>2, <3>3, <4>1, <4>2
    <3>5. Past(k) => Past(k)'
      BY <1>1, PastKept
    <3>6. Secure(k, r.boundary) => Secure(k, r.boundary)'
      <4>1. CASE r.boundary <= Len(p)
        <5>1. r.boundary <= Len(q)
          BY <2>3, <3>2, <3>3, <4>1
        <5> QED BY <1>1, <5>1 DEF Secure, q
      <4>2. CASE a.sealed
        BY <1>1, <2>4, <4>2 DEF Keeps, Secure
      <4>3. CASE k = last /\ rec.phase \in Idle /\ FullyRead(a, r.boundary)
        <5>1. Rests /\ rec.phase \notin Growing
          BY <1>1, <2>1, <4>3, TypedFacts DEF Leaves, Idle, Growing, Opening, Adding
        <5>2. CASE b.sealed
          BY <1>1, <5>2 DEF Secure
        <5>3. CASE last' = last /\ rec'.phase \in Idle /\ b.data = a.data
          <6>1. q = p
            BY <3>3, <5>1
          <6>2. FullyRead(b, r.boundary)
            BY <4>3, <5>3, <6>1 DEF FullyRead, p, q
          <6> QED BY <1>1, <4>3, <5>3, <6>2 DEF Secure
        <5> QED BY <4>3, <5>1, <5>2, <5>3 DEF Rests
      <4> QED BY <4>1, <4>2, <4>3 DEF Secure, p
    <3>7. Explained(a, r) => Explained(b, r)
      <4>1. r.boundary <= Len(p) => r.boundary <= Len(q)
        BY <2>3, <3>2, <3>3
      <4> QED BY <4>1 DEF Explained, p, q
    <3> QED BY <1>1, <2>6, <3>1, <3>4, <3>5, <3>6, <3>7
  <2> QED BY <1>1, <1>3, <2>5, <2>7, <2>8, <2>9 DEF ReaderInv
<1> QED BY <1>2, <1>3

LEMMA GrowsTail ==
  ASSUME CaptureTypeOK, DiskInv, TailInv, Grows, Leaves
  PROVE  TailInv'
<1> DEFINE c == tail.cursor
           new == Readable(disk'[c.segment])
<1>1. /\ c \in CursorType /\ tail.run \in Seq(Frame) /\ tail.base \in Nat /\ tail.buffer \in Seq(Frame)
      /\ c.segment \in Nat \ {0} /\ c.frames \in Nat /\ tail.catalog \in Nat
      /\ Len(tail.run) \in Nat /\ Len(tail.buffer) \in Nat /\ Log \in Seq(Frame) /\ Len(Log) \in Nat
      /\ last \in Nat /\ disk \in Seq(Segment) /\ FramesBefore(c) = CountBefore(disk, c)
  BY TailFacts
<1>2. disk' \in Seq(Segment) /\ tail' = tail /\ last' \in Nat /\ last' >= last /\ rec'.lost_power = rec.lost_power
      /\ last = Len(disk) /\ last' = Len(disk')
  BY LenProperties DEF Grows, DiskGood, last
<1>3. FramesBefore(c)' = CountBefore(disk', c)
  BY <1>2 DEF FramesBefore, CountBefore
<1>4. Log' \in Seq(Frame) /\ Len(Log') \in Nat /\ Len(Log) <= Len(Log') /\ \A k \in 1 .. Len(Log) : Log'[k] = Log[k]
  BY <1>2, RecordedTyped DEF Grows, Log
<1>7. ReaderInv(tail)'
  <2>1. tail.phase \in {"ahead", "read"} => tail.cursor.segment <= tail.catalog /\ tail.catalog <= last
    BY DEF TailInv, PositionInv, Reading
  <2> QED BY <2>1, GrowsReader DEF TailInv
<1>5. CASE c.segment <= last
  <2>1. c.segment \in 1 .. last /\ c.segment <= Len(disk') /\ c.segment <= Len(disk)
    BY <1>1, <1>2, <1>5
  <2>2. /\ Cut(c) \in Seq(Frame) /\ Len(Cut(c)) \in Nat /\ new \in Seq(Frame) /\ Len(new) \in Nat
        /\ CountBefore(disk, c) \in Nat /\ CountBefore(disk, c) <= Len(Log)
    <3>1. /\ Cut(c) \in Seq(Frame) /\ Len(Cut(c)) \in Nat
          /\ CountBefore(disk, c) \in Nat /\ CountBefore(disk, c) <= Len(Log)
      BY <1>1, <2>1, BeforeFacts DEF Cut, Log
    <3>2. new \in Seq(Frame) /\ Len(new) \in Nat
      BY <1>1, <1>2, <2>1, BeforeFacts
    <3> QED BY <3>1, <3>2
  <2>3. Cut(c)' = new
    BY <1>2 DEF Cut
  <2>4. \/ new = Cut(c)
        \/ /\ c.segment = last /\ rec.phase \in Growing /\ Len(Cut(c)) <= Len(new)
           /\ \A j \in 1 .. Len(Cut(c)) : new[j] = Cut(c)[j]
    BY <2>1 DEF Grows, Cut
  <2>5. Len(Cut(c)) <= Len(new) /\ \A j \in 1 .. Len(Cut(c)) : new[j] = Cut(c)[j]
    BY <2>2, <2>4
  <2>6. c.segment = last /\ rec.phase \in Growing => c.frames <= Len(Cut(c))
    BY DEF TailInv, CursorInv
  <2>7. CursorInv'
    <3>1. c.segment = last' /\ rec'.phase \in Growing => c.segment = last /\ rec.phase \in Growing
      BY <1>1, <1>2, <1>5 DEF Grows
    <3>2. c.segment <= last'
      BY <1>1, <1>2, <1>5
    <3>3. c.segment = last' /\ rec'.phase \in Growing => c.frames <= Len(new)
      BY <1>1, <2>2, <2>5, <2>6, <3>1
    <3> QED BY <1>2, <2>3, <3>2, <3>3 DEF CursorInv
  <2>8. CountBefore(disk', c) = CountBefore(disk, c)
    <3>1. \A i \in 1 .. c.segment - 1 : Readable(disk[i]) = Readable(disk'[i])
      <4>1. \A i \in 1 .. c.segment - 1 : i \in 1 .. last /\ i # last
        BY <1>1, <1>5
      <4> QED BY <4>1 DEF Grows
    <3>2. \/ Len(Readable(disk[c.segment])) = Len(Readable(disk'[c.segment]))
          \/ c.frames <= Len(Readable(disk[c.segment])) /\ c.frames <= Len(Readable(disk'[c.segment]))
      BY <1>1, <2>2, <2>4, <2>5, <2>6 DEF Cut
    <3> QED BY <1>1, <1>2, <2>1, <3>1, <3>2, BeforeSame
  <2>9. ASSUME tail.phase # "stopped" PROVE PositionInv' /\ TailerExact'
    <3>1. PositionInv
      BY <2>9 DEF TailInv
    <3>7. TailerExact'
      <4> SUFFICES ASSUME ~tail.dropped PROVE TailerExact'
        BY <1>2 DEF TailerExact
      <4>1. tail.run = SubSeq(Log, tail.base + 1, tail.base + Len(tail.run))
        BY <2>9 DEF TailInv, TailerExact, Log
      <4>2. tail.base + Len(tail.run) = CountBefore(disk, c)
        BY <1>1, <3>1 DEF PositionInv
      <4>3. tail.base + Len(tail.run) <= Len(Log) /\ tail.base + Len(tail.run) <= Len(Log')
        BY <1>1, <1>4, <2>2, <4>2
      <4>4. \A i \in 1 .. Len(tail.run) : tail.run[i] = Log[tail.base + i]
        <5>1. tail.run \in Seq(Frame) /\ Log \in Seq(Frame) /\ tail.base \in Nat
          BY <1>1
        <5> HIDE DEF Log
        <5> QED BY <4>1, <4>3, <5>1, RunForm
      <4>5. \A i \in 1 .. Len(tail.run) : tail.run[i] = Log'[tail.base + i]
        <5>1. \A i \in 1 .. Len(tail.run) : tail.base + i \in 1 .. Len(Log)
          BY <1>1, <4>3
        <5> QED BY <1>4, <4>4, <5>1
      <4>6. tail.run = SubSeq(Log', tail.base + 1, tail.base + Len(tail.run))
        <5>1. tail.run \in Seq(Frame) /\ Log' \in Seq(Frame) /\ tail.base \in Nat
          BY <1>1, <1>4
        <5> HIDE DEF Log
        <5> QED BY <4>3, <4>5, <5>1, RunForm
      <4> QED BY <1>2, <4>6 DEF TailerExact, Log
    <3>8. ~(tail.dropped /\ Past(c.segment)) /\ tail.buffer # <<>> =>
            /\ c.frames + Len(tail.buffer) <= Len(new)
            /\ tail.buffer = SubSeq(new, c.frames + 1, c.frames + Len(tail.buffer))
      <4> SUFFICES ASSUME ~(tail.dropped /\ Past(c.segment)), tail.buffer # <<>>
                   PROVE  /\ c.frames + Len(tail.buffer) <= Len(new)
                          /\ tail.buffer = SubSeq(new, c.frames + 1, c.frames + Len(tail.buffer))
        OBVIOUS
      <4>1. /\ c.frames + Len(tail.buffer) <= Len(Cut(c))
            /\ tail.buffer = SubSeq(Cut(c), c.frames + 1, c.frames + Len(tail.buffer))
        BY <3>1 DEF PositionInv
      <4>2. c.frames + Len(tail.buffer) <= Len(new)
        BY <1>1, <2>2, <2>5, <4>1
      <4>3. \A i \in 1 .. Len(tail.buffer) : tail.buffer[i] = Cut(c)[c.frames + i]
        <5>1. tail.buffer \in Seq(Frame) /\ Cut(c) \in Seq(Frame) /\ c.frames \in Nat
          BY <1>1, <2>2
        <5> HIDE DEF c
        <5> QED BY <4>1, <5>1, RunForm
      <4>4. \A i \in 1 .. Len(tail.buffer) : c.frames + i \in 1 .. Len(Cut(c))
        <5>1. c.frames + Len(tail.buffer) <= Len(Cut(c))
          BY <4>1
        <5>2. ASSUME NEW a \in Nat, NEW b \in Nat, NEW n \in Nat, a + b <= n
              PROVE  \A i \in 1 .. b : a + i \in 1 .. n
          BY <5>2
        <5>3. c.frames \in Nat /\ Len(tail.buffer) \in Nat /\ Len(Cut(c)) \in Nat
          BY <1>1, <2>2
        <5> QED BY <5>1, <5>2, <5>3
      <4>5. \A i \in 1 .. Len(tail.buffer) : tail.buffer[i] = new[c.frames + i]
        BY <2>5, <4>3, <4>4
      <4>6. tail.buffer \in Seq(Frame) /\ new \in Seq(Frame) /\ c.frames \in Nat
        BY <1>1, <2>2
      <4> HIDE DEF new, c
      <4>7. tail.buffer = SubSeq(new, c.frames + 1, c.frames + Len(tail.buffer))
        BY <4>2, <4>5, <4>6, RunForm
      <4> QED BY <4>2, <4>7
    <3>9. tail.phase \in Reading =>
            c.segment <= tail.catalog /\ tail.catalog <= last /\ tail.buffer = <<>>
      BY <3>1 DEF PositionInv
    <3>10. tail.phase = "advance" /\ c.segment < tail.catalog => c.frames >= Len(new)
      <4> SUFFICES ASSUME tail.phase = "advance", c.segment < tail.catalog PROVE c.frames >= Len(new)
        OBVIOUS
      <4>1. c.segment # last
        BY <1>1, <3>9 DEF Reading
      <4>2. c.frames >= Len(Cut(c))
        BY <3>1 DEF PositionInv
      <4> QED BY <2>4, <4>1, <4>2
    <3>11. tail.phase \in Reading => tail.catalog <= last'
      BY <1>1, <1>2, <3>9
    <3>12. c.segment <= last'
      BY <1>1, <1>2, <1>5
    <3>13. Past(c.segment) => Past(c.segment)'
      BY <1>1, <1>2, PastKept
    <3> QED BY <1>1, <1>2, <1>3, <2>3, <2>8, <3>1, <3>7, <3>8, <3>9, <3>10, <3>11, <3>12, <3>13 DEF PositionInv
  <2>10. CorruptOnlyWhenOvertaken'
    BY <1>2 DEF TailInv, CorruptOnlyWhenOvertaken
  <2> QED BY <1>2, <1>7, <2>7, <2>9, <2>10 DEF TailInv, TailerExact
<1>6. CASE ~(c.segment <= last)
  <2>1. c = Cursor(1, 0)
    BY <1>6 DEF TailInv, CursorInv
  <2>2. CountBefore(disk, c) = 0 /\ CountBefore(disk', c) = 0
    BY <1>1, <1>2, <2>1, BeforeStart
  <2>3. c.segment = 1 /\ c.frames = 0 /\ last = 0
    <3>1. c.segment = 1 /\ c.frames = 0
      BY <2>1 DEF Cursor
    <3> QED BY <1>1, <1>6, <3>1
  <2>4. CursorInv'
    <3>1. c.segment <= last' => Len(new) \in Nat
      BY <1>1, <1>2, BeforeFacts
    <3>2. c.segment = last' => c.frames <= Len(new)
      BY <1>2, <2>3, <3>1
    <3>3. Cut(c)' = new
      BY <1>2 DEF Cut
    <3> QED BY <1>2, <2>1, <3>2, <3>3 DEF CursorInv
  <2>5. ASSUME tail.phase # "stopped" PROVE PositionInv' /\ TailerExact'
    <3>1. PositionInv
      BY <2>5 DEF TailInv
    <3>2. ~tail.dropped => tail.base + Len(tail.run) = 0
      BY <1>1, <2>2, <3>1 DEF PositionInv
    <3>3. ~tail.dropped => Len(tail.run) = 0 /\ tail.base = 0
      BY <1>1, <3>2
    <3>4. ~tail.dropped => tail.run = <<>>
      BY <1>1, <3>3, EmptySeq
    <3>5. tail.buffer = <<>> /\ tail.phase \notin Reading
      BY <1>1, <1>6, <2>3, <3>1 DEF PositionInv, Past
    <3>6. SubSeq(Log', 1, 0) = <<>>
      BY <1>4, EmptySeq
    <3>7. TailerExact'
      <4>1. ~tail.dropped => tail.run = SubSeq(Log', tail.base + 1, tail.base + Len(tail.run))
        <5> SUFFICES ASSUME ~tail.dropped PROVE tail.run = SubSeq(Log', tail.base + 1, tail.base + Len(tail.run))
          OBVIOUS
        <5>1. tail.run = <<>> /\ tail.base + 1 = 1 /\ tail.base + Len(tail.run) = 0
          BY <3>3, <3>4
        <5> QED BY <3>6, <5>1
      <4> QED BY <1>2, <4>1 DEF TailerExact, Log
    <3>8. tail.phase = "absent" => tail.buffer = <<>> /\ tail.run = <<>> /\ tail.base = 0
      BY <3>1 DEF PositionInv
    <3>9. tail.phase # "advance"
      BY <3>5 DEF Reading
    <3> QED BY <1>2, <1>3, <2>1, <2>2, <3>2, <3>5, <3>7, <3>8, <3>9 DEF PositionInv
  <2>6. CorruptOnlyWhenOvertaken'
    BY <1>2 DEF TailInv, CorruptOnlyWhenOvertaken
  <2> QED BY <1>2, <1>7, <2>4, <2>5, <2>6 DEF TailInv, TailerExact
<1> QED BY <1>5, <1>6

LEMMA RecorderGrows ==
  ASSUME CaptureTypeOK, DiskInv, PendingInv, [CaptureNext]_captureVars, tail' = tail, ~PowerLoss
  PROVE  Grows
<1>1. DiskGood /\ rec'.lost_power = rec.lost_power
  BY NextKinds, PowerKept
<1>2. /\ Log \in Seq(Frame) /\ Len(Log) \in Nat /\ last \in Nat /\ last' >= last
  BY LogKinds
<1>3. CASE SameLog /\ Log' = Log /\ (rec'.phase \in Growing => rec.phase \in Growing)
  <2>1. Len(Log) <= Len(Log') /\ \A k \in 1 .. Len(Log) : Log'[k] = Log[k]
    BY <1>2, <1>3
  <2> QED BY <1>1, <1>2, <1>3, <2>1 DEF Grows, SameLog
<1>4. CASE QuietKind \/ StartKind \/ AcceptKind \/ StopKind
  <2>1. SameLog /\ Log' = Log
    BY <1>1, <1>4, LogSame DEF QuietKind, StartKind, AcceptKind, StopKind
  <2>2. rec'.phase \in Growing => rec.phase \in Growing
    <3>1. CASE QuietKind
      BY <3>1 DEF QuietKind, Follows, Growing, Opening, Adding
    <3>2. CASE StartKind \/ AcceptKind
      BY <3>2 DEF StartKind, AcceptKind, Growing, Opening, Adding
    <3>3. CASE StopKind
      BY <3>3, StoppedRec DEF Growing, Opening, Adding
    <3> QED BY <1>4, <3>1, <3>2, <3>3
  <2> QED BY <1>3, <2>1, <2>2
<1>5. CASE OpenKind
  <2>1. Log' = Log /\ last' = last + 1 /\ disk' = Append(disk, NewSegment) /\ disk \in Seq(Segment)
    BY <1>5, OpenLog, TypedFacts DEF OpenKind
  <2>2. \A i \in 1 .. last : disk'[i] = disk[i]
    BY <2>1, NewTyped, AppendProperties DEF last
  <2>3. Len(Log) <= Len(Log') /\ \A k \in 1 .. Len(Log) : Log'[k] = Log[k]
    BY <1>2, <2>1
  <2>4. last' > last
    BY <1>2, <2>1
  <2> QED BY <1>1, <1>2, <2>2, <2>3, <2>4 DEF Grows
<1>6. CASE publish_boundary
  <2>1. Log' = Append(Log, rec.pending) /\ rec.pending \in Frame
    BY <1>6, PublishLog, TypedFacts DEF Recorder
  <2>2. Len(Log) <= Len(Log') /\ \A k \in 1 .. Len(Log) : Log'[k] = Log[k]
    <3> HIDE DEF Log
    <3>1. Len(Log') = Len(Log) + 1 /\ \A i \in 1 .. Len(Log) : Log'[i] = Log[i]
      BY <1>2, <2>1, AppendProperties
    <3> QED BY <1>2, <3>1
  <2>3. /\ last' = last /\ Readable(current') = Append(Readable(current), rec.pending) /\ disk # <<>>
        /\ \A i \in 1 .. last : i # last => disk'[i] = disk[i]
    BY <1>6, PublishDisk
  <2>4. rec.phase \in Growing
    BY <1>6 DEF publish_boundary, Growing, Adding
  <2>5. Readable(current) \in Seq(Frame) /\ current = disk[last] /\ current' = disk'[last]
    BY <2>3, TypedFacts, ReadableFacts DEF current
  <2>6. /\ Len(Readable(disk[last])) <= Len(Readable(disk'[last]))
        /\ \A j \in 1 .. Len(Readable(disk[last])) : Readable(disk'[last])[j] = Readable(disk[last])[j]
    <3> DEFINE a == Readable(disk[last])
               b == Readable(disk'[last])
    <3>1. a \in Seq(Frame) /\ b = Append(a, rec.pending)
      BY <2>3, <2>5
    <3> HIDE DEF a, b
    <3>2. Len(b) = Len(a) + 1 /\ Len(a) \in Nat /\ \A j \in 1 .. Len(a) : b[j] = a[j]
      BY <2>1, <3>1, AppendProperties, LenProperties
    <3>3. Len(a) <= Len(b)
      BY <3>2
    <3> QED BY <3>2, <3>3 DEF a, b
  <2> QED BY <1>1, <1>2, <2>2, <2>3, <2>4, <2>6 DEF Grows
<1> QED BY <1>4, <1>5, <1>6, NextKinds

\* The tailer moves in its own steps only, and ends with the machine.
LEMMA TailMoves ==
  ASSUME [CaptureNext]_captureVars
  PROVE  tail' = tail \/ PowerLoss \/ TailerCrash \/ TailerStep
<1>1. CASE UNCHANGED captureVars
  BY <1>1 DEF captureVars
<1>2. CASE ProcessCrash \/ Compress \/ PushFinal \/ Join \/ Finalize
  BY <1>2 DEF ProcessCrash, Compress, PushFinal, Join, Finalize
<1>3. CASE Start \/ WalWriter_recover \/ EmptyMetadata \/ WriteMetadata \/ Recompress \/ Failed \/ open_segment_File
           \/ open_segment_Header \/ open_segment_Slots \/ open_segment_Flush
  BY <1>3 DEF Start, WalWriter_recover, EmptyMetadata, WriteMetadata, Recompress, Failed, open_segment_File,
     open_segment_Header, open_segment_Slots, open_segment_Flush
<1>4. CASE Handshake \/ Ingest \/ EndOfStream \/ ExecutionWalWriter_append \/ Rotate \/ NeedsNoRotation
           \/ HalfAppended \/ append \/ HalfPublished \/ publish_boundary \/ Commit
  BY <1>4 DEF Handshake, Ingest, EndOfStream, ExecutionWalWriter_append, Rotate, NeedsNoRotation,
     HalfAppended, append, HalfPublished, publish_boundary, Commit
<1> QED BY <1>1, <1>2, <1>3, <1>4 DEF CaptureNext

LEMMA StoppedTailerFacts ==
  ASSUME CaptureTypeOK
  PROVE  /\ StoppedTailer \in Tailer /\ StoppedTailer.phase = "stopped" /\ StoppedTailer.cursor = tail.cursor
         /\ StoppedTailer.buffer = <<>> /\ StoppedTailer.run = <<>> /\ ~StoppedTailer.corrupt
         /\ StoppedTailer.reader.frames = <<>>
<1>1. tail \in Tailer /\ <<>> \in Seq(Frame)
  BY TypedFacts, EmptySeq
<1>2. NoReader \in [frames : Seq(Frame), size : Nat, boundary : Nat] /\ NoReader.frames = <<>>
  BY <1>1 DEF NoReader
<1> HIDE DEF NoReader
<1> QED BY <1>1, <1>2 DEF StoppedTailer, Tailer

LEMMA StoppedTail ==
  ASSUME CaptureTypeOK, DiskInv, TailInv, tail.phase # "absent", PowerLoss \/ TailerCrash
  PROVE  TailInv' /\ tail' \in Tailer
<1>1. tail' = StoppedTailer
  BY DEF PowerLoss, TailerCrash
<1>2. /\ tail' \in Tailer /\ tail'.phase = "stopped" /\ tail'.cursor = tail.cursor
      /\ tail'.buffer = <<>> /\ tail'.run = <<>> /\ ~tail'.corrupt /\ tail'.reader.frames = <<>>
  BY <1>1, StoppedTailerFacts
<1>3. last' = last /\ (rec'.phase \in Growing => rec.phase \in Growing /\ disk' = disk)
  <2>1. CASE PowerLoss
    BY <2>1, PowerLossDisk, StoppedRec DEF Growing, Opening, Adding
  <2>2. CASE TailerCrash
    BY <2>2 DEF TailerCrash, last
  <2> QED BY <2>1, <2>2
<1>4. CursorInv'
  BY <1>2, <1>3 DEF TailInv, CursorInv, Cut
<1>5. ReaderInv(tail)'
  BY <1>2 DEF ReaderInv
<1> QED BY <1>2, <1>4, <1>5 DEF TailInv, TailerExact, CorruptOnlyWhenOvertaken

LEMMA AbsentTail ==
  ASSUME CaptureTypeOK, DiskInv, TailInv, tail.phase = "absent", PowerLoss
  PROVE  TailInv' /\ tail' \in Tailer
<1>1. tail' = tail /\ tail \in Tailer /\ tail.base \in Nat
  BY TypedFacts DEF PowerLoss, Tailer
<1> DEFINE c == tail.cursor
<1>2. PositionInv /\ c = Cursor(1, 0) /\ tail.buffer = <<>> /\ tail.run = <<>> /\ tail.base = 0
  BY DEF TailInv, PositionInv
<1>3. last' = last /\ disk' \in Seq(Segment) /\ rec'.phase = "down" /\ rec'.lost_power
  <2>1. last' = last /\ disk' \in Seq(Segment) /\ rec'.phase = "down"
    BY PowerLossDisk, StoppedRec DEF DiskGood
  <2> DEFINE x == Stopped
  <2>2. x \in Recorder /\ rec' = [x EXCEPT !.ts = 0, !.lost_power = TRUE]
    BY TypedFacts, StoppedFacts DEF PowerLoss
  <2> HIDE DEF x
  <2>3. rec'.lost_power
    BY <2>2 DEF Recorder
  <2> QED BY <2>1, <2>3
<1>4. FramesBefore(c)' = 0
  BY <1>1, <1>2, <1>3, BeforeStart DEF FramesBefore, CountBefore
<1>5. CursorInv'
  BY <1>1, <1>2, <1>3 DEF CursorInv, Growing, Opening, Adding
<1>6. SubSeq(Log', 1, 0) = <<>> /\ Len(<<>>) = 0
  BY <1>3, RecordedTyped, EmptySeq DEF Log
<1>7. TailerExact'
  BY <1>1, <1>2, <1>6 DEF TailerExact, Log
<1>8. PositionInv'
  BY <1>1, <1>2, <1>4, <1>6 DEF PositionInv, Reading
<1>9. ReaderInv(tail)'
  BY <1>1 DEF ReaderInv, TailInv
<1> QED BY <1>1, <1>3, <1>5, <1>7, <1>8, <1>9 DEF TailInv, CorruptOnlyWhenOvertaken

-----------------------------------------------------------------------------
(* The tailer's own steps. *)

\* A buffer holds the records that follow the cursor.
BufferAhead(t) == /\ t.cursor.segment <= last /\ t.cursor.frames + Len(t.buffer) <= Len(Cut(t.cursor))
            /\ t.buffer = SubSeq(Cut(t.cursor), t.cursor.frames + 1, t.cursor.frames + Len(t.buffer))

\* What a running tailer knows, said of a state it may be in next.
Standing(t) ==
  /\ t.cursor.segment <= last \/ t.cursor = Cursor(1, 0)
  /\ t.cursor.segment = last /\ rec.phase \in Growing => t.cursor.frames <= Len(Cut(t.cursor))
  /\ ~t.dropped => /\ t.run = SubSeq(Log, t.base + 1, t.base + Len(t.run))
                   /\ t.base + Len(t.run) = CountBefore(disk, t.cursor)
  /\ t.buffer # <<>> => BufferAhead(t) \/ (t.dropped /\ Past(t.cursor.segment))
  /\ t.phase \in Reading => t.cursor.segment <= t.catalog /\ t.catalog <= last /\ t.buffer = <<>>
  /\ t.phase = "advance" /\ t.cursor.segment < t.catalog => t.cursor.frames >= Len(Cut(t.cursor))
  /\ t.corrupt => rec.lost_power \/ t.torn \/ t.dropped
  /\ t.phase # "absent" /\ t.phase # "stopped"
  /\ ReaderInv(t)

LEMMA StandingNow ==
  ASSUME TailInv, tail.phase # "stopped", tail.phase # "absent"
  PROVE  Standing(tail)
BY DEF TailInv, Standing, BufferAhead, CursorInv, PositionInv, TailerExact, CorruptOnlyWhenOvertaken, FramesBefore, CountBefore,
   Log

LEMMA StandingNext ==
  ASSUME NEW d, tail' = d, Standing(d), disk' = disk, rec' = rec
  PROVE  TailInv'
<1>1. last' = last /\ (Log)' = Log
  BY DEF last, Log
<1>2. CursorInv'
  BY <1>1 DEF CursorInv, Standing, Cut
<1>3. TailerExact'
  BY <1>1 DEF TailerExact, Standing, Log
<1>4. PositionInv'
  BY <1>1 DEF PositionInv, Standing, BufferAhead, Cut, FramesBefore, CountBefore, Past
<1>5. CorruptOnlyWhenOvertaken'
  BY DEF CorruptOnlyWhenOvertaken, Standing
<1>6. ReaderInv(tail)'
  BY <1>1 DEF ReaderInv, Standing, Secure, Past
<1> QED BY <1>2, <1>3, <1>4, <1>5, <1>6 DEF TailInv, Standing

\* The tailer stays where it is.
LEMMA SamePlace ==
  ASSUME Standing(tail), NEW d, d.cursor = tail.cursor, d.run = tail.run, d.base = tail.base, d.buffer = tail.buffer,
         tail.dropped => d.dropped, d.phase \in Reading \cup {"next"},
         d.phase \in Reading => tail.cursor.segment <= d.catalog /\ d.catalog <= last /\ tail.buffer = <<>>,
         d.phase = "advance" /\ tail.cursor.segment < d.catalog => tail.cursor.frames >= Len(Cut(tail.cursor)),
         d.corrupt => rec.lost_power \/ d.torn \/ d.dropped, ReaderInv(d)
  PROVE  Standing(d)
<1>1. d.phase # "absent" /\ d.phase # "stopped"
  BY DEF Reading
<1> QED BY <1>1 DEF Standing, BufferAhead

LEMMA DeliverFacts ==
  ASSUME NEW t \in Tailer, t.buffer # <<>>
  PROVE  LET d == Deliver(t)
         IN  /\ d \in Tailer /\ d.phase = "next" /\ d.buffer = Tail(t.buffer) /\ d.catalog = 0
             /\ d.run = Append(t.run, t.buffer[1]) /\ d.base = t.base /\ d.corrupt = t.corrupt
             /\ d.cursor = Cursor(t.cursor.segment, t.cursor.frames + 1)
             /\ d.torn = t.torn /\ d.dropped = t.dropped /\ ReaderInv(d)
<1>1. /\ t.buffer \in Seq(Frame) /\ t.run \in Seq(Frame) /\ t.cursor \in CursorType /\ t.cursor.frames \in Nat
      /\ Head(t.buffer) = t.buffer[1]
  BY DEF Tailer, CursorType
<1>2. Tail(t.buffer) \in Seq(Frame) /\ Head(t.buffer) \in Frame
  BY <1>1
<1>3. Append(t.run, Head(t.buffer)) \in Seq(Frame)
  BY <1>1, <1>2
<1>4. [t.cursor EXCEPT !.frames = @ + 1] = Cursor(t.cursor.segment, t.cursor.frames + 1)
  BY <1>1 DEF Cursor, CursorType
<1>5. Cursor(t.cursor.segment, t.cursor.frames + 1) \in CursorType
  BY <1>1 DEF Cursor, CursorType
<1>6. NoReader \in [frames : Seq(Frame), size : Nat, boundary : Nat] /\ NoReader.frames = <<>>
  BY EmptySeq DEF NoReader
<1> DEFINE d == Deliver(t)
<1> HIDE DEF NoReader
<1>7. /\ d \in Tailer /\ d.phase = "next" /\ d.buffer = Tail(t.buffer) /\ d.catalog = 0
      /\ d.run = Append(t.run, t.buffer[1]) /\ d.base = t.base /\ d.corrupt = t.corrupt
      /\ d.cursor = Cursor(t.cursor.segment, t.cursor.frames + 1)
      /\ d.torn = t.torn /\ d.dropped = t.dropped /\ d.reader = NoReader
  BY <1>1, <1>2, <1>3, <1>4, <1>5, <1>6 DEF Deliver, Tailer, CursorType
<1> HIDE DEF d
<1>8. ReaderInv(d)
  BY <1>6, <1>7 DEF ReaderInv
<1> QED BY <1>7, <1>8 DEF d

LEMMA DeliverStands ==
  ASSUME CaptureTypeOK, TailInv, tail.phase # "stopped",
         NEW t \in Tailer, t.cursor = tail.cursor, t.run = tail.run, t.base = tail.base, t.corrupt = tail.corrupt,
         t.torn = tail.torn, t.dropped = tail.dropped,
         t.buffer # <<>>, BufferAhead(t) \/ (t.dropped /\ Past(t.cursor.segment)), NEW d \in Tailer, d = Deliver(t)
  PROVE  Standing(d)
<1> DEFINE c == tail.cursor
           e == d.cursor
           r == Cut(c)
           b == Len(Recorded(SubSeq(disk, 1, c.segment - 1)))
           n == c.frames
           o == Len(tail.run)
           m == Len(t.buffer)
<1>1. /\ c \in CursorType /\ tail.run \in Seq(Frame) /\ tail.base \in Nat
      /\ c.segment \in Nat \ {0} /\ n \in Nat /\ o \in Nat
      /\ Log \in Seq(Frame) /\ Len(Log) \in Nat /\ last \in Nat /\ disk \in Seq(Segment)
      /\ FramesBefore(c) = CountBefore(disk, c) /\ last = Len(disk)
  BY TailFacts DEF last
<1>2. /\ d.phase = "next" /\ d.buffer = Tail(t.buffer) /\ d.catalog = 0
      /\ d.run = Append(tail.run, t.buffer[1]) /\ d.base = tail.base /\ d.corrupt = tail.corrupt
      /\ d.cursor = Cursor(c.segment, n + 1) /\ d.torn = tail.torn /\ d.dropped = tail.dropped /\ ReaderInv(d)
  BY DeliverFacts
<1>3. t.buffer \in Seq(Frame) /\ m \in Nat /\ m > 0
  BY LenProperties, EmptySeq DEF Tailer
<1>8. e \in CursorType /\ e.segment = c.segment /\ e.frames = n + 1
  BY <1>1, <1>2 DEF Cursor, CursorType
<1>10. d.run \in Seq(Frame) /\ Len(d.run) = o + 1 /\ d.run[o+1] = t.buffer[1]
       /\ \A i \in 1 .. o : d.run[i] = tail.run[i]
  <2>1. t.buffer[1] \in Frame
    BY <1>3, ElementOfSeq
  <2> QED BY <1>1, <1>2, <2>1, AppendProperties
<1>11. d.buffer \in Seq(Frame) /\ Len(d.buffer) = m - 1 /\ \A i \in 1 .. m - 1 : d.buffer[i] = t.buffer[i+1]
  BY <1>2, <1>3, HeadTailProperties
<1>5. d.corrupt => rec.lost_power \/ d.torn \/ d.dropped
  BY <1>2 DEF TailInv, CorruptOnlyWhenOvertaken
<1>6. d.phase \notin Reading /\ d.phase # "advance" /\ d.phase # "absent" /\ d.phase # "stopped"
  BY <1>2 DEF Reading
<1>7. CASE t.dropped /\ Past(c.segment)
  <2>1. c.segment <= last /\ ~(c.segment = last /\ rec.phase \in Growing)
    BY <1>1, <1>7 DEF Past
  <2> QED BY <1>2, <1>5, <1>6, <1>7, <1>8, <2>1 DEF Standing
<1>4. ASSUME BufferAhead(t)
      PROVE  /\ e.segment <= last /\ e.frames <= Len(Cut(e)) /\ BufferAhead(d)
             /\ ~tail.dropped => /\ d.run = SubSeq(Log, d.base + 1, d.base + Len(d.run))
                                 /\ d.base + Len(d.run) = CountBefore(disk, e)
  <2>4. c.segment <= last /\ n + m <= Len(r) /\ t.buffer = SubSeq(r, n + 1, n + m)
    BY <1>4 DEF BufferAhead
  <2>5. /\ b \in Nat /\ Len(r) \in Nat /\ CountBefore(disk, c) = b + Smaller(n, Len(r)) /\ b + Len(r) <= Len(Log)
    BY <1>1, <2>4, BeforeFacts DEF Log, Cut
  <2>6. r \in Seq(Frame) /\ \A j \in 1 .. Len(r) : Log[b+j] = r[j]
    BY <1>1, <2>4, BeforeFacts DEF Log, Cut
  <2>9. CountBefore(disk, e) = b + Smaller(n + 1, Len(r)) /\ Cut(e) = r
    <3>1. e.segment <= Len(disk) /\ e.segment - 1 = c.segment - 1 /\ disk[e.segment] = disk[c.segment]
      BY <1>1, <2>4, <1>8
    <3> HIDE DEF e
    <3>2. CountBefore(disk, e) = Len(Recorded(SubSeq(disk, 1, e.segment - 1))) + Smaller(e.frames, Len(Readable(disk[e.segment])))
      BY <1>1, <1>8, <3>1, BeforeFacts
    <3> QED BY <1>8, <3>1, <3>2 DEF Cut
  <2>12. \A i \in 1 .. m : t.buffer[i] = r[n+i]
    <3> DEFINE q == t.buffer
    <3>1. q \in Seq(Frame) /\ r \in Seq(Frame) /\ n \in Nat /\ n + Len(q) <= Len(r) /\ q = SubSeq(r, n + 1, n + Len(q))
      BY <1>1, <1>3, <2>4, <2>6
    <3> HIDE DEF q, r, n
    <3>2. \A i \in 1 .. Len(q) : q[i] = r[n+i]
      BY <3>1, RunForm
    <3> QED BY <3>2 DEF q
  <2>7. ~tail.dropped => tail.base + o = CountBefore(disk, c) /\ \A i \in 1 .. o : tail.run[i] = Log[tail.base+i]
    <3> SUFFICES ASSUME ~tail.dropped
                 PROVE  tail.base + o = CountBefore(disk, c) /\ \A i \in 1 .. o : tail.run[i] = Log[tail.base+i]
      OBVIOUS
    <3>1. tail.base + o = CountBefore(disk, c)
      BY <1>1 DEF TailInv, PositionInv
    <3>2. tail.run = SubSeq(Log, tail.base + 1, tail.base + Len(tail.run))
      BY DEF TailInv, TailerExact, Log
    <3>3. tail.base + Len(tail.run) <= Len(Log)
      BY <1>1, <2>4, <3>1, BeforeFacts DEF Log
    <3> HIDE DEF Log
    <3> QED BY <1>1, <3>1, <3>2, <3>3, RunForm
  <2> HIDE DEF b, r, n, o, m, c, e, Log
  <2>14. Smaller(n, Len(r)) = n /\ Smaller(n + 1, Len(r)) = n + 1 /\ n + 1 <= Len(r)
    BY <1>1, <1>3, <2>4, <2>5 DEF Smaller
  <2>0. d.base = tail.base /\ Len(d.run) = o + 1 /\ b \in Nat /\ n \in Nat /\ o \in Nat /\ tail.base \in Nat
        /\ Len(r) \in Nat
    BY <1>1, <1>2, <2>5, <1>10
  <2>15. ASSUME ~tail.dropped
         PROVE  /\ d.run = SubSeq(Log, d.base + 1, d.base + Len(d.run))
                /\ d.base + Len(d.run) = CountBefore(disk, e)
    <3>1. tail.base + o = b + n /\ CountBefore(disk, e) = b + n + 1 /\ b + n + 1 <= Len(Log)
      BY <1>1, <2>0, <2>5, <2>7, <2>9, <2>14, <2>15
    <3>2. d.base + Len(d.run) = CountBefore(disk, e) /\ d.base + Len(d.run) <= Len(Log) /\ d.base \in Nat
      BY <2>0, <3>1
    <3>3. ASSUME NEW i \in 1 .. o + 1 PROVE d.run[i] = Log[d.base+i]
      <4>1. CASE i = o + 1
        <5>0. tail.base + o = b + n
          BY <3>1
        <5>1. d.base + i = b + (n + 1)
          BY <4>1, <2>0, <5>0
        <5>2. n + 1 \in 1 .. Len(r)
          BY <2>0, <2>14
        <5>3. 1 \in 1 .. m
          BY <1>3
        <5> QED BY <4>1, <5>1, <5>2, <5>3, <2>6, <1>10, <2>12
      <4>2. CASE i # o + 1
        <5>1. i \in 1 .. o
          BY <4>2, <1>1
        <5> QED BY <5>1, <1>2, <1>10, <2>7, <2>15
      <4> QED BY <4>1, <4>2
    <3>4. \A i \in 1 .. Len(d.run) : d.run[i] = Log[d.base+i]
      BY <2>0, <3>3
    <3>5. d.run \in Seq(Frame) /\ Log \in Seq(Frame)
      BY <1>1, <1>10
    <3>6. d.run = SubSeq(Log, d.base + 1, d.base + Len(d.run))
      BY <3>2, <3>4, <3>5, RunForm
    <3> QED BY <3>2, <3>6
  <2>19. /\ n + 1 + (m - 1) <= Len(r) /\ m - 1 \in Nat
         /\ \A i \in 1 .. m - 1 : i + 1 \in 1 .. m /\ n + 1 + i = n + (i + 1)
    BY <1>1, <1>3, <2>4, <2>5
  <2>20. \A i \in 1 .. m - 1 : d.buffer[i] = r[n+1+i]
    BY <1>11, <2>12, <2>19
  <2>21. d.buffer = SubSeq(r, n + 1 + 1, n + 1 + Len(d.buffer))
    BY <1>1, <2>6, <1>11, <2>19, <2>20, RunForm
  <2>22. BufferAhead(d)
    BY <2>4, <1>8, <2>9, <1>11, <2>19, <2>21 DEF BufferAhead, e
  <2> QED BY <1>8, <2>4, <2>9, <2>14, <2>15, <2>22
<1>9. CASE BufferAhead(t)
  BY <1>2, <1>4, <1>5, <1>6, <1>9 DEF Standing
<1> QED BY <1>7, <1>9

LEMMA NextBufferedTail ==
  ASSUME CaptureTypeOK, TailInv, NextBuffered
  PROVE  TailInv' /\ tail' \in Tailer
<1>1. tail \in Tailer /\ tail.phase = "next" /\ tail.buffer # <<>> /\ disk' = disk /\ rec' = rec /\ tail' = Deliver(tail)
  BY TypedFacts DEF NextBuffered
<1>2. BufferAhead(tail) \/ (tail.dropped /\ Past(tail.cursor.segment))
  BY <1>1, StandingNow DEF Standing
<1> DEFINE d == Deliver(tail)
<1>3. d \in Tailer
  BY <1>1, DeliverFacts
<1> HIDE DEF d
<1>4. Standing(d)
  BY <1>1, <1>2, <1>3, DeliverStands DEF d
<1> QED BY <1>1, <1>3, <1>4, StandingNext DEF d

LEMMA RescanTail ==
  ASSUME CaptureTypeOK, TailInv, rescan
  PROVE  TailInv' /\ tail' \in Tailer
<1> DEFINE d == [tail EXCEPT !.phase = "fill", !.catalog = last]
<1>1. /\ tail \in Tailer /\ tail.phase = "next" /\ tail.buffer = <<>> /\ disk' = disk /\ rec' = rec
      /\ last \in Nat /\ tail.cursor.segment <= last /\ tail' = d
  BY TypedFacts DEF rescan, scan, last
<1>2. /\ d \in Tailer /\ d.phase = "fill" /\ d.catalog = last /\ d.cursor = tail.cursor /\ d.run = tail.run
      /\ d.base = tail.base /\ d.buffer = tail.buffer /\ d.corrupt = tail.corrupt /\ d.torn = tail.torn
      /\ d.dropped = tail.dropped /\ d.reader = tail.reader
  BY <1>1 DEF Tailer
<1> HIDE DEF d
<1>3. Standing(tail)
  BY <1>1, StandingNow
<1>4. ReaderInv(d) /\ (d.corrupt => rec.lost_power \/ d.torn \/ d.dropped)
  BY <1>1, <1>2, <1>3 DEF Standing, ReaderInv
<1>5. Standing(d)
  <2>1. d.phase \in Reading \cup {"next"} /\ d.phase # "advance" /\ last <= last
    BY <1>1, <1>2 DEF Reading
  <2> QED BY <1>1, <1>2, <1>3, <1>4, <2>1, SamePlace
<1> QED BY <1>1, <1>2, <1>5, StandingNext

\* The reader is opened on a segment that has its header; one that has a successor is complete.
LEMMA OpenReaderTail ==
  ASSUME CaptureTypeOK, DiskInv, TailInv, WalReader_open
  PROVE  TailInv' /\ tail' \in Tailer
<1> DEFINE c == tail.cursor
           k == c.segment
           seg == disk[k]
           r == [tail.reader EXCEPT !.size = physical_data(seg)]
<1>1. /\ tail \in Tailer /\ tail.phase = "fill" /\ disk' = disk /\ rec' = rec
      /\ tail' = IF seg.header THEN [tail EXCEPT !.phase = "ahead", !.reader = r] ELSE [tail EXCEPT !.phase = "advance"]
  BY TypedFacts DEF WalReader_open, segment, open_ok
<1>2. Standing(tail)
  BY <1>1, StandingNow
<1>3. k \in Nat \ {0} /\ c.frames \in Nat /\ tail.catalog \in Nat /\ last \in Nat
  BY TailFacts
<1>4. /\ k <= tail.catalog /\ tail.catalog <= last /\ tail.buffer = <<>> /\ tail.reader.frames = <<>>
      /\ tail.corrupt => rec.lost_power \/ tail.torn \/ tail.dropped
  BY <1>1, <1>2 DEF Standing, ReaderInv, Reading
<1>5. k \in 1 .. last
  BY <1>3, <1>4
<1>6. seg \in Segment /\ Len(seg.data) \in Nat
  BY <1>5, TypedFacts, LenProperties DEF Segment
<1>7. k < tail.catalog => Closed(seg)
  BY <1>3, <1>4 DEF DiskInv
<1>8. physical_data(seg) \in Nat /\ (k < tail.catalog => physical_data(seg) = Len(seg.data))
      /\ (~seg.sealed => physical_data(seg) = SegmentFrames)
  BY <1>6, <1>7, CaptureAssumption DEF physical_data, Closed
<1>9. ASSUME NEW d \in Tailer, tail' = d, d.phase \in {"ahead", "advance"}, d.catalog = tail.catalog, d.cursor = c, d.run = tail.run,
             d.base = tail.base, d.buffer = tail.buffer, d.corrupt = tail.corrupt, d.torn = tail.torn, d.dropped = tail.dropped,
             d.phase = "advance" => k >= tail.catalog, ReaderInv(d)
      PROVE  TailInv' /\ tail' \in Tailer
  <2>1. d.phase \in Reading \cup {"next"} /\ (d.phase = "advance" => ~(k < d.catalog))
    BY <1>3, <1>9 DEF Reading
  <2>2. Standing(d)
    BY <1>2, <1>4, <1>9, <2>1, SamePlace
  <2> QED BY <1>1, <1>9, <2>2, StandingNext
<1>10. CASE seg.header
  <2> DEFINE d == [tail EXCEPT !.phase = "ahead", !.reader = r]
  <2>1. r \in [frames : Seq(Frame), size : Nat, boundary : Nat] /\ r.frames = <<>> /\ r.size = physical_data(seg)
    BY <1>4, <1>8, ReaderFacts
  <2> HIDE DEF r
  <2>2. /\ d \in Tailer /\ d.phase = "ahead" /\ d.catalog = tail.catalog /\ d.cursor = c /\ d.run = tail.run
        /\ d.base = tail.base /\ d.buffer = tail.buffer /\ d.corrupt = tail.corrupt /\ d.torn = tail.torn
        /\ d.dropped = tail.dropped /\ d.reader = r
    BY <1>1, <2>1 DEF Tailer
  <2>3. tail' = d
    BY <1>1, <1>10
  <2> HIDE DEF d
  <2>4. ReaderInv(d)
    <3>1. Len(r.frames) = 0
      BY <2>1
    <3>2. Matches(seg, r.frames) /\ (k < tail.catalog => Complete(seg, r))
      BY <1>6, <1>8, <2>1, <3>1 DEF Matches, Complete
    <3> QED BY <1>8, <1>10, <2>1, <2>2, <3>2 DEF ReaderInv
  <2> QED BY <1>9, <2>2, <2>3, <2>4
<1>11. CASE ~seg.header
  <2> DEFINE d == [tail EXCEPT !.phase = "advance"]
  <2>2. /\ d \in Tailer /\ d.phase = "advance" /\ d.catalog = tail.catalog /\ d.cursor = c /\ d.run = tail.run
        /\ d.base = tail.base /\ d.buffer = tail.buffer /\ d.corrupt = tail.corrupt /\ d.torn = tail.torn
        /\ d.dropped = tail.dropped /\ d.reader = tail.reader
    BY <1>1 DEF Tailer
  <2>3. tail' = d
    BY <1>1, <1>11
  <2> HIDE DEF d
  <2>4. ReaderInv(d)
    BY <1>4, <2>2 DEF ReaderInv
  <2>5. k >= tail.catalog
    BY <1>3, <1>7, <1>11 DEF Closed
  <2> QED BY <1>9, <2>2, <2>3, <2>4, <2>5
<1> QED BY <1>10, <1>11

\* A frame that is read is what the segment holds, or no record.
LEMMA FrameFacts ==
  ASSUME NEW seg \in Segment, NEW i \in Nat \ {0}
  PROVE  /\ FrameAt(seg, i) \in Frame
         /\ i <= Len(seg.data) => FrameAt(seg, i) = seg.data[i]
         /\ ~(i <= Len(seg.data)) => FrameAt(seg, i) = IF seg.sealed THEN Torn ELSE Zeros
         /\ IsRecord(FrameAt(seg, i)) => i <= Len(seg.data)
<1>1. seg.data \in Seq(Frame) /\ Len(seg.data) \in Nat /\ seg.sealed \in BOOLEAN
  BY LenProperties DEF Segment
<1>2. CASE i <= Len(seg.data)
  <2>1. FrameAt(seg, i) = seg.data[i]
    BY <1>1, <1>2 DEF FrameAt
  <2>2. seg.data[i] \in Frame
    BY <1>1, <1>2, ElementOfSeq
  <2> QED BY <1>2, <2>1, <2>2
<1>3. CASE ~(i <= Len(seg.data))
  <2>1. i > Len(seg.data)
    BY <1>1, <1>3
  <2>2. FrameAt(seg, i) = IF seg.sealed THEN Torn ELSE Zeros
    BY <1>1, <1>3, <2>1 DEF FrameAt
  <2> QED BY <1>3, <2>2, NewTyped
<1> QED BY <1>2, <1>3

\* One frame more.
Further(r, f) == [r EXCEPT !.frames = Append(r.frames, f)]

LEMMA FurtherFacts ==
  ASSUME NEW r \in [frames : Seq(Frame), size : Nat, boundary : Nat], NEW f \in Frame
  PROVE  LET q == Further(r, f)
             n == Len(r.frames)
         IN  /\ q \in [frames : Seq(Frame), size : Nat, boundary : Nat] /\ q.size = r.size /\ q.boundary = r.boundary
             /\ n \in Nat /\ Len(q.frames) = n + 1 /\ q.frames[n+1] = f /\ \A i \in 1 .. n : q.frames[i] = r.frames[i]
             /\ \A i \in 1 .. n : Whole(q.frames, i) => Whole(r.frames, i)
             /\ Whole(q.frames, n + 1) => Whole(r.frames, n) /\ IsRecord(f)
<1> DEFINE q == Further(r, f)
           n == Len(r.frames)
<1>1. /\ q \in [frames : Seq(Frame), size : Nat, boundary : Nat] /\ q.size = r.size /\ q.boundary = r.boundary
      /\ q.frames = Append(r.frames, f)
  BY DEF Further
<1>2. n \in Nat /\ Len(q.frames) = n + 1 /\ q.frames[n+1] = f /\ \A i \in 1 .. n : q.frames[i] = r.frames[i]
  BY <1>1, AppendProperties, LenProperties
<1> HIDE DEF q, n
<1>3. ASSUME NEW i \in 1 .. n, Whole(q.frames, i) PROVE Whole(r.frames, i)
  BY <1>2, <1>3 DEF Whole
<1>4. ASSUME Whole(q.frames, n + 1) PROVE Whole(r.frames, n) /\ IsRecord(f)
  BY <1>2, <1>4 DEF Whole
<1> QED BY <1>1, <1>2, <1>3, <1>4 DEF q, n

\* The segment as the reader knows it.
LEMMA TakenFacts ==
  ASSUME CaptureTypeOK, tail.cursor.segment \in 1 .. last
  PROVE  LET r == tail.reader
         IN  /\ Taken \in Segment /\ Taken.data = r.frames
             /\ Scanned \in Seq(Frame) /\ Len(Scanned) \in Nat /\ Len(Scanned) <= Got(r)
             /\ \A i \in 1 .. Len(Scanned) : Scanned[i] = r.frames[i]
             /\ Whole(r.frames, Len(Scanned))
             /\ \A i \in Nat : i <= Got(r) /\ Whole(r.frames, i) => i <= Len(Scanned)
<1> DEFINE r == tail.reader
<1>1. r \in [frames : Seq(Frame), size : Nat, boundary : Nat] /\ r.frames \in Seq(Frame) /\ r.boundary \in Nat
      /\ Len(r.frames) \in Nat
  BY ReaderFacts
<1>2. disk[tail.cursor.segment] \in Segment
  BY TypedFacts
<1>3. Taken \in Segment /\ Taken.data = r.frames
  BY <1>1, <1>2 DEF Taken, segment, Segment
<1> HIDE DEF r
<1>4. Scanned = ValidPrefix(Taken, r.boundary)
  BY DEF Scanned, r
<1>5. /\ Scanned \in Seq(Frame) /\ Len(Scanned) <= r.boundary /\ Len(Scanned) <= Len(r.frames)
      /\ \A i \in 1 .. Len(Scanned) : Scanned[i] = r.frames[i] /\ IsRecord(r.frames[i])
      /\ \A i \in Nat : i <= r.boundary /\ i <= Len(r.frames) /\ Whole(r.frames, i) => i <= Len(Scanned)
  BY <1>1, <1>3, <1>4, ValidPrefixFacts
<1>6. Len(Scanned) \in Nat
  BY <1>5, LenProperties
<1>7. Len(Scanned) <= Got(r) /\ \A i \in Nat : i <= Got(r) => i <= r.boundary /\ i <= Len(r.frames)
  BY <1>1, <1>5, <1>6 DEF Got, Smaller
<1>8. Whole(r.frames, Len(Scanned))
  BY <1>5 DEF Whole
<1> QED BY <1>3, <1>5, <1>6, <1>7, <1>8 DEF r

\* What a read adds, before the sidecar has been read.
LEMMA AheadKept ==
  ASSUME NEW seg \in Segment, NEW r \in [frames : Seq(Frame), size : Nat, boundary : Nat], Matches(seg, r.frames)
  PROVE  Matches(seg, Further(r, FrameAt(seg, Len(r.frames) + 1)).frames)
<1> DEFINE n == Len(r.frames)
           f == FrameAt(seg, n + 1)
           q == Further(r, f)
<1>1. n \in Nat /\ n + 1 \in Nat \ {0}
  BY LenProperties
<1>2. f \in Frame /\ (n + 1 <= Len(seg.data) => f = seg.data[n+1]) /\ (IsRecord(f) => n + 1 <= Len(seg.data))
  BY <1>1, FrameFacts
<1> HIDE DEF f
<1>3. /\ Len(q.frames) = n + 1 /\ q.frames[n+1] = f /\ (\A i \in 1 .. n : q.frames[i] = r.frames[i])
      /\ (\A i \in 1 .. n : Whole(q.frames, i) => Whole(r.frames, i))
      /\ (Whole(q.frames, n + 1) => IsRecord(f))
  BY <1>2, FurtherFacts
<1> HIDE DEF q
<1>4. ASSUME NEW i \in 1 .. n + 1, Whole(q.frames, i)
      PROVE  (i <= Len(seg.data) /\ q.frames[i] = seg.data[i]) \/ Gone(seg, i)
  <2>1. CASE i = n + 1
    BY <1>2, <1>3, <1>4, <2>1
  <2>2. CASE i # n + 1
    <3>1. i \in 1 .. n
      BY <1>1, <2>2
    <3> QED BY <1>3, <1>4, <3>1 DEF Matches, n
  <2> QED BY <2>1, <2>2
<1>5. \A i \in 1 .. Len(q.frames) : Whole(q.frames, i) => (i <= Len(seg.data) /\ q.frames[i] = seg.data[i]) \/ Gone(seg, i)
  BY <1>3, <1>4
<1> QED BY <1>5 DEF Matches, q, f, n

\* ... and after it.
LEMMA ReadKept ==
  ASSUME CaptureTypeOK, DiskInv, NEW k \in 1 .. last, disk[k].header,
         NEW r \in [frames : Seq(Frame), size : Nat, boundary : Nat], Len(r.frames) < r.boundary, Whole(r.frames, Len(r.frames)),
         Secure(k, r.boundary), NEW q, q = Further(r, FrameAt(disk[k], Len(r.frames) + 1))
  PROVE  /\ InLog(disk[k], r) => InLog(disk[k], q)
         /\ Explained(disk[k], r) => Explained(disk[k], q)
<1> DEFINE seg == disk[k]
           n == Len(r.frames)
           f == FrameAt(seg, n + 1)
           p == Readable(seg)
<1>1. n \in Nat /\ n + 1 \in Nat \ {0} /\ r.boundary \in Nat /\ n + 1 <= r.boundary
  BY LenProperties
<1>2. /\ seg \in Segment
      /\ Closed(seg) \/ ~seg.sealed
  BY SegmentKind
<1>3. f \in Frame /\ (n + 1 <= Len(seg.data) => f = seg.data[n+1]) /\ (IsRecord(f) => n + 1 <= Len(seg.data))
      /\ Len(seg.data) \in Nat
  BY <1>1, <1>2, FrameFacts, LenProperties DEF Segment
<1>4. /\ p \in Seq(Frame) /\ Len(p) \in Nat /\ Len(p) <= Len(seg.data)
      /\ \A i \in 1 .. Len(p) : p[i] = seg.data[i] /\ IsRecord(seg.data[i])
  BY <1>2, ReadableFacts, LenProperties
<1>0. q = Further(r, f)
  OBVIOUS
<1> HIDE DEF f
<1>5. /\ q.boundary = r.boundary /\ Len(q.frames) = n + 1 /\ q.frames[n+1] = f
      /\ \A i \in 1 .. n : q.frames[i] = r.frames[i]
      /\ \A i \in 1 .. n : Whole(q.frames, i) => Whole(r.frames, i)
      /\ Whole(q.frames, n + 1) => IsRecord(f)
  <2> DEFINE g == Further(r, f)
  <2>0. f \in Frame
    BY <1>3
  <2>1. /\ g.boundary = r.boundary /\ Len(g.frames) = n + 1 /\ g.frames[n+1] = f
        /\ \A i \in 1 .. n : g.frames[i] = r.frames[i]
        /\ \A i \in 1 .. n : Whole(g.frames, i) => Whole(r.frames, i)
        /\ Whole(g.frames, n + 1) => IsRecord(f)
    BY <2>0, FurtherFacts
  <2> HIDE DEF g, n
  <2>2. q = g
    BY <1>0 DEF g
  <2> QED BY <2>1, <2>2
<1>6. Got(r) = n /\ Got(q) = n + 1
  BY <1>1, <1>5 DEF Got, Smaller
<1>7. ASSUME InLog(seg, r) PROVE InLog(seg, q)
  <2>1. \A i \in 1 .. n : i <= Len(p) /\ r.frames[i] = p[i]
    <3>1. \A i \in 1 .. n : Whole(r.frames, i)
      BY <1>1 DEF Whole
    <3> QED BY <1>6, <1>7, <3>1 DEF InLog
  <2>2. ASSUME IsRecord(f) PROVE n + 1 <= Len(p) /\ f = p[n+1]
    <3>1. n + 1 <= Len(seg.data) /\ f = seg.data[n+1]
      BY <1>3, <2>2
    <3>2. Whole(seg.data, n + 1)
      <4>1. ASSUME NEW i \in 1 .. n + 1 PROVE IsRecord(seg.data[i])
        <5>1. CASE i = n + 1
          BY <2>2, <3>1, <5>1
        <5>2. CASE i # n + 1
          <6>1. i \in 1 .. n
            BY <1>1, <5>2
          <6>2. i \in 1 .. Len(p)
            BY <1>1, <1>4, <2>1, <6>1
          <6> QED BY <1>4, <6>2
        <5> QED BY <5>1, <5>2
      <4> QED BY <4>1 DEF Whole
    <3>3. n + 1 <= Len(p)
      <4>1. CASE r.boundary <= Len(p)
        BY <1>1, <1>4, <4>1
      <4>2. CASE seg.sealed
        <5>1. p = seg.data
          BY <1>2, <4>2, ReadableClosed
        <5> QED BY <3>1, <5>1
      <4>3. CASE FullyRead(seg, r.boundary)
        <5>1. n + 1 \in 1 .. r.boundary
          BY <1>1
        <5> QED BY <3>1, <3>2, <4>3, <5>1 DEF FullyRead
      <4> QED BY <4>1, <4>2, <4>3 DEF Secure
    <3>4. n + 1 \in 1 .. Len(p)
      BY <1>1, <1>4, <3>3
    <3> QED BY <1>4, <3>1, <3>3, <3>4
  <2>3. ASSUME NEW i \in 1 .. n + 1, Whole(q.frames, i) PROVE i <= Len(p) /\ q.frames[i] = p[i]
    <3>1. CASE i = n + 1
      BY <1>5, <2>2, <2>3, <3>1
    <3>2. CASE i # n + 1
      <4>1. i \in 1 .. n
        BY <1>1, <3>2
      <4> QED BY <1>5, <2>1, <4>1
    <3> QED BY <3>1, <3>2
  <2> HIDE DEF n
  <2> QED BY <1>6, <2>3 DEF InLog
<1>8. ASSUME Explained(seg, r) PROVE Explained(seg, q)
  <2>1. r.boundary <= Len(p) /\ \A i \in 1 .. n : IsRecord(r.frames[i]) \/ r.frames[i] = Zeros
    BY <1>6, <1>8 DEF Explained, Stuck
  <2>2. n + 1 \in 1 .. Len(p) /\ n + 1 <= Len(seg.data)
    BY <1>1, <1>3, <1>4, <2>1
  <2>3. IsRecord(f)
    BY <1>3, <1>4, <2>2
  <2>4. ASSUME NEW i \in 1 .. n + 1 PROVE IsRecord(q.frames[i]) \/ q.frames[i] = Zeros
    <3>1. CASE i = n + 1
      BY <1>5, <2>3, <3>1
    <3>2. CASE i # n + 1
      <4>1. i \in 1 .. n
        BY <1>1, <3>2
      <4> QED BY <1>5, <2>1, <4>1
    <3> QED BY <3>1, <3>2
  <2> HIDE DEF n
  <2> QED BY <1>5, <1>6, <2>1, <2>4 DEF Explained
<1> QED BY <1>7, <1>8

\* The tailer's stream takes one more frame.
LEMMA StreamTail ==
  ASSUME CaptureTypeOK, DiskInv, TailInv, RawFileStream_read
  PROVE  TailInv' /\ tail' \in Tailer
<1> DEFINE c == tail.cursor
           k == c.segment
           seg == disk[k]
           r == tail.reader
           n == Len(r.frames)
           f == FrameAt(seg, n + 1)
           q == Further(r, f)
           d == [tail EXCEPT !.reader = q]
<1>1. tail \in Tailer /\ tail.phase \in {"ahead", "read"} /\ disk' = disk /\ rec' = rec
  BY TypedFacts DEF RawFileStream_read
<1>2. tail' = d
  BY <1>1 DEF RawFileStream_read, segment, Further, Tailer
<1>3. Standing(tail) /\ ReaderInv(tail)
  BY <1>1, StandingNow DEF Standing
<1>4. /\ k \in Nat \ {0} /\ tail.catalog \in Nat /\ last \in Nat /\ k <= tail.catalog /\ tail.catalog <= last
      /\ tail.buffer = <<>> /\ (tail.corrupt => rec.lost_power \/ tail.torn \/ tail.dropped)
  BY <1>1, <1>3, TailFacts DEF Standing, Reading
<1>5. k \in 1 .. last
  BY <1>4
<1>6. seg \in Segment /\ Len(seg.data) \in Nat
  BY <1>5, TypedFacts, LenProperties DEF Segment
<1>7. r \in [frames : Seq(Frame), size : Nat, boundary : Nat] /\ n \in Nat /\ n + 1 \in Nat \ {0} /\ r.boundary \in Nat
  BY ReaderFacts
<1>8. f \in Frame /\ (n + 1 <= Len(seg.data) => f = seg.data[n+1])
  BY <1>6, <1>7, FrameFacts
<1>9. /\ q \in [frames : Seq(Frame), size : Nat, boundary : Nat] /\ q.size = r.size /\ q.boundary = r.boundary
      /\ Len(q.frames) = n + 1 /\ q.frames[n+1] = f /\ \A i \in 1 .. n : q.frames[i] = r.frames[i]
  <2>1. r \in [frames : Seq(Frame), size : Nat, boundary : Nat] /\ f \in Frame
    BY <1>7, <1>8
  <2> HIDE DEF r, f
  <2> QED BY <2>1, FurtherFacts
<1> HIDE DEF q
<1>10. /\ d \in Tailer /\ d.phase = tail.phase /\ d.catalog = tail.catalog /\ d.cursor = c /\ d.run = tail.run
       /\ d.base = tail.base /\ d.buffer = tail.buffer /\ d.corrupt = tail.corrupt /\ d.torn = tail.torn
       /\ d.dropped = tail.dropped /\ d.reader = q
  BY <1>1, <1>9 DEF Tailer
<1>11. tail.phase = "read" => n < r.boundary /\ Whole(r.frames, n)
  <2> SUFFICES ASSUME tail.phase = "read" PROVE n < r.boundary /\ Whole(r.frames, n)
    OBVIOUS
  <2>1. ~(Len(Scanned) < n) /\ ~(n >= r.boundary)
    BY DEF RawFileStream_read, ScanEnds
  <2>2. Len(Scanned) \in Nat /\ Len(Scanned) <= Got(r) /\ Whole(r.frames, Len(Scanned))
    BY <1>5, TakenFacts
  <2>3. Got(r) <= n /\ Got(r) \in Nat
    BY <1>7, GotFacts
  <2>4. Len(Scanned) = n
    BY <1>7, <2>1, <2>2, <2>3
  <2> QED BY <1>7, <2>1, <2>2, <2>4
<1>12. seg.header /\ (k < tail.catalog => Complete(seg, q))
  <2>1. seg.header /\ (k < tail.catalog => Complete(seg, r))
    BY <1>1, <1>3 DEF ReaderInv
  <2>2. ASSUME k < tail.catalog PROVE Complete(seg, q)
    <3>1. r.size = Len(seg.data) /\ \A i \in 1 .. n : r.frames[i] = seg.data[i]
      BY <2>1, <2>2 DEF Complete
    <3>2. n < Len(seg.data)
      <4>1. CASE tail.phase = "ahead"
        BY <3>1, <4>1 DEF RawFileStream_read
      <4>2. CASE tail.phase = "read"
        <5>1. r.boundary = Len(seg.data)
          BY <1>3, <2>2, <4>2 DEF ReaderInv
        <5> QED BY <1>11, <4>2, <5>1
      <4> QED BY <1>1, <4>1, <4>2
    <3>3. n + 1 <= Len(seg.data) /\ f = seg.data[n+1]
      <4> HIDE DEF f, n
      <4>1. n + 1 <= Len(seg.data)
        BY <1>6, <1>7, <3>2
      <4> QED BY <1>8, <4>1
    <3>4. ASSUME NEW i \in 1 .. n + 1 PROVE q.frames[i] = seg.data[i]
      <4>1. CASE i = n + 1
        BY <1>9, <3>3, <4>1
      <4>2. CASE i # n + 1
        <5>1. i \in 1 .. n
          BY <1>7, <4>2
        <5> QED BY <1>9, <3>1, <5>1
      <4> QED BY <4>1, <4>2
    <3> QED BY <1>9, <3>1, <3>3, <3>4 DEF Complete
  <2> QED BY <2>1, <2>2
<1>13. tail.phase = "ahead" => Matches(seg, q.frames) /\ (~seg.sealed => q.size = SegmentFrames)
  <2> SUFFICES ASSUME tail.phase = "ahead" PROVE Matches(seg, q.frames) /\ (~seg.sealed => q.size = SegmentFrames)
    OBVIOUS
  <2>1. Matches(seg, r.frames) /\ (~seg.sealed => r.size = SegmentFrames)
    BY <1>3 DEF ReaderInv
  <2>2. Matches(seg, q.frames)
    BY <1>6, <1>7, <2>1, AheadKept DEF q
  <2> QED BY <1>9, <2>1, <2>2
<1>14. ASSUME tail.phase = "read"
       PROVE  /\ k < tail.catalog => q.boundary = Len(seg.data)
              /\ InLog(seg, q) \/ (tail.dropped /\ Past(k))
              /\ Secure(k, q.boundary)
              /\ rec.lost_power \/ tail.torn \/ tail.dropped \/ Explained(seg, q)
  <2>1. /\ k < tail.catalog => r.boundary = Len(seg.data)
        /\ InLog(seg, r) \/ (tail.dropped /\ Past(k))
        /\ Stuck(r) \/ Secure(k, r.boundary)
        /\ rec.lost_power \/ tail.torn \/ tail.dropped \/ Explained(seg, r)
    BY <1>3, <1>14 DEF ReaderInv
  <2>2. ~Stuck(r)
    <3>1. Got(r) = n
      BY <1>7, <1>11, <1>14 DEF Got, Smaller
    <3> QED BY <1>11, <1>14, <3>1 DEF Stuck
  <2>3. (InLog(seg, r) => InLog(seg, q)) /\ (Explained(seg, r) => Explained(seg, q))
    <3>1. Secure(k, r.boundary) /\ seg.header /\ n < r.boundary /\ Whole(r.frames, n)
      BY <1>11, <1>12, <1>14, <2>1, <2>2
    <3>2. q = Further(r, FrameAt(disk[k], Len(r.frames) + 1))
      BY DEF q
    <3> QED BY <1>5, <1>7, <3>1, <3>2, ReadKept
  <2> QED BY <1>9, <2>1, <2>2, <2>3
<1> HIDE DEF d
<1>15. ReaderInv(d)
  BY <1>1, <1>10, <1>12, <1>13, <1>14 DEF ReaderInv
<1>16. Standing(d)
  <2>1. d.phase \in Reading \cup {"next"} /\ d.phase # "advance"
    BY <1>1, <1>10 DEF Reading
  <2> QED BY <1>3, <1>4, <1>10, <1>15, <2>1, SamePlace
<1> QED BY <1>1, <1>2, <1>10, <1>16, StandingNext

\* What the reader knows once it has read the sidecar.
Bounded(r, b) == [r EXCEPT !.boundary = b]

LEMMA ResolveFacts ==
  ASSUME NEW seg \in Segment, NEW size \in Nat
  PROVE  LET b == resolve_boundary(seg, size)
         IN  /\ b \in Nat /\ b <= size
             /\ valid_slot(Boundary(seg)) => b <= Boundary(seg).committed /\ (b = size \/ b = Boundary(seg).committed)
             /\ ~valid_slot(Boundary(seg)) => b = size
<1>1. Boundary(seg) \in Slot
  BY LimitFacts
<1>2. Boundary(seg).committed \in Nat
  BY <1>1 DEF Slot
<1> QED BY <1>2 DEF resolve_boundary, Boundary, Smaller

\* Frames that a recovery has cut off are within the boundary only when no slot was valid.
LEMMA ResolvedInLog ==
  ASSUME CaptureTypeOK, DiskInv, NEW k \in 1 .. last, disk[k].header, tail.cursor.segment = k,
         Matches(disk[k], tail.reader.frames),
         NEW q, q = Bounded(tail.reader, resolve_boundary(disk[k], tail.reader.size)),
         ~InLog(disk[k], q)
  PROVE  ~valid_slot(Boundary(disk[k])) /\ Overtaken(q.boundary) /\ Past(k)
<1> DEFINE seg == disk[k]
           r == tail.reader
           b == resolve_boundary(seg, r.size)
<1>1. /\ r \in [frames : Seq(Frame), size : Nat, boundary : Nat] /\ r.frames \in Seq(Frame) /\ Len(r.frames) \in Nat
      /\ r.size \in Nat
  BY ReaderFacts
<1>2. seg \in Segment /\ Len(seg.data) \in Nat /\ (seg.sealed => Past(k)) /\ Boundary(seg) \in Slot
  BY SegmentKind, LimitFacts, LenProperties DEF Segment
<1>3. b \in Nat /\ (valid_slot(Boundary(seg)) => b <= Boundary(seg).committed)
  BY <1>1, <1>2, ResolveFacts
<1> HIDE DEF b
<1>4. q.frames = r.frames /\ q.boundary = b /\ q \in [frames : Seq(Frame), size : Nat, boundary : Nat]
  BY <1>1, <1>3 DEF Bounded, b
<1>5. Got(q) \in Nat /\ Got(q) <= Len(r.frames) /\ Got(q) <= b /\ Got(q) = Smaller(Len(r.frames), b)
  BY <1>4, GotFacts DEF Got
<1>6. PICK i \in 1 .. Got(q) : Whole(r.frames, i) /\ ~(i <= Len(Readable(seg)) /\ r.frames[i] = Readable(seg)[i])
  BY <1>4 DEF InLog
<1>7. i \in 1 .. Len(r.frames) /\ i <= b /\ i \in Nat \ {0}
  BY <1>1, <1>3, <1>5
<1>8. Gone(seg, i)
  <2> SUFFICES ASSUME ~Gone(seg, i) PROVE FALSE
    OBVIOUS
  <2>1. i <= Len(seg.data) /\ r.frames[i] = seg.data[i] /\ Whole(seg.data, i)
    BY <1>1, <1>2, <1>6, <1>7, MatchesWhole
  <2>2. valid_slot(Boundary(seg)) => i <= Boundary(seg).committed
    <3>1. Boundary(seg).committed \in Nat
      BY <1>2 DEF Slot
    <3> QED BY <1>3, <1>7, <3>1
  <2>3. i <= Len(Readable(seg))
    BY <1>2, <1>7, <2>1, <2>2, WholeReadable
  <2>4. i \in 1 .. Len(Readable(seg))
    BY <1>2, <1>7, <2>3, ReadableFacts, LenProperties
  <2> QED BY <1>2, <1>6, <2>1, <2>3, <2>4, ReadableFacts
<1>9. seg.sealed /\ ~(i <= Len(seg.data)) /\ ~valid_slot(Boundary(seg))
  <2>1. Boundary(seg).committed \in Nat
    BY <1>2 DEF Slot
  <2> QED BY <1>2, <1>3, <1>7, <1>8, <2>1 DEF Gone
<1>10. r.frames[i] \notin {Zeros, FrameAt(seg, i)}
  <2>1. IsRecord(r.frames[i])
    BY <1>6, <1>7 DEF Whole
  <2>2. FrameAt(seg, i) = Torn
    BY <1>2, <1>7, <1>9, FrameFacts
  <2> QED BY <2>1, <2>2, NewTyped
<1>11. Overtaken(b)
  BY <1>5, <1>6, <1>10 DEF Overtaken, segment
<1> QED BY <1>2, <1>4, <1>9, <1>11

\* A reader that met no valid slot has met an empty segment, or one that a loss of power left.
LEMMA ResolvedSecure ==
  ASSUME CaptureTypeOK, DiskInv, NEW k \in 1 .. last, disk[k].header,
         NEW r \in [frames : Seq(Frame), size : Nat, boundary : Nat], Matches(disk[k], r.frames),
         ~disk[k].sealed => r.size = SegmentFrames, r.frames # <<>> \/ r.size = 0,
         NEW q, q = Bounded(r, resolve_boundary(disk[k], r.size))
  PROVE  /\ Stuck(q) \/ Secure(k, q.boundary)
         /\ ~disk[k].sealed /\ ~rec.lost_power => Stuck(q) \/ q.boundary <= Len(Readable(disk[k]))
<1> DEFINE seg == disk[k]
           b == resolve_boundary(seg, r.size)
<1>1. r.frames \in Seq(Frame) /\ Len(r.frames) \in Nat /\ r.size \in Nat /\ SegmentFrames \in Nat \ {0}
  BY LenProperties, CaptureAssumption
<1>2. /\ seg \in Segment /\ Len(seg.data) \in Nat /\ Boundary(seg) \in Slot
      /\ \/ seg.sealed
         \/ k = last /\ ~seg.sealed /\ (Steady(seg) \/ (rec.lost_power /\ rec.phase \in Idle))
  <2>1. seg \in Segment
    BY SegmentKind
  <2> QED BY <2>1, SegmentKind, LimitFacts, LenProperties DEF Segment
<1>3. /\ b \in Nat /\ (valid_slot(Boundary(seg)) => b <= Boundary(seg).committed)
      /\ (~valid_slot(Boundary(seg)) => b = r.size) /\ Boundary(seg).committed \in Nat
  BY <1>1, <1>2, ResolveFacts DEF Slot
<1> HIDE DEF b
<1>4. q.frames = r.frames /\ q.boundary = b /\ q \in [frames : Seq(Frame), size : Nat, boundary : Nat]
  BY <1>1, <1>3 DEF Bounded, b
<1>5. CASE seg.sealed
  BY <1>5 DEF Secure
<1>6. CASE ~seg.sealed /\ Steady(seg) /\ valid_slot(Boundary(seg))
  <2>1. Len(Readable(seg)) = Boundary(seg).committed
    BY <1>2, <1>6, ReadableSteady
  <2> QED BY <1>3, <1>4, <1>6, <2>1 DEF Secure
<1>7. CASE ~seg.sealed /\ Steady(seg) /\ ~valid_slot(Boundary(seg))
  <2>1. Len(seg.data) = 0 /\ b = SegmentFrames /\ r.frames # <<>>
    BY <1>1, <1>3, <1>7 DEF Steady
  <2>2. Len(r.frames) >= 1
    BY <1>1, <2>1, EmptySeq
  <2>3. Got(q) \in Nat /\ Got(q) >= 1
    BY <1>1, <1>3, <1>4, <2>1, <2>2 DEF Got, Smaller
  <2>4. ~IsRecord(r.frames[1])
    <3> SUFFICES ASSUME IsRecord(r.frames[1]) PROVE FALSE
      OBVIOUS
    <3>1. Whole(r.frames, 1) /\ 1 \in 1 .. Len(r.frames)
      BY <1>1, <2>2 DEF Whole
    <3> QED BY <1>7, <2>1, <3>1 DEF Matches, Gone
  <2>5. Stuck(q)
    <3>1. 1 \in 1 .. Got(q)
      BY <2>3
    <3> QED BY <1>4, <2>4, <3>1 DEF Stuck, Whole
  <2> QED BY <2>5
<1>8. CASE k = last /\ ~seg.sealed /\ rec.lost_power /\ rec.phase \in Idle
  <2>1. ASSUME NEW i \in 1 .. b, i <= Len(seg.data), Whole(seg.data, i) PROVE i <= Len(Readable(seg))
    <3>1. i \in Nat /\ (valid_slot(Boundary(seg)) => i <= Boundary(seg).committed)
      BY <1>3, <2>1
    <3> QED BY <1>2, <2>1, <3>1, WholeReadable
  <2>2. FullyRead(seg, b)
    BY <2>1 DEF FullyRead
  <2> QED BY <1>4, <1>8, <2>2 DEF Secure
<1> QED BY <1>2, <1>5, <1>6, <1>7, <1>8

\* Unless it was overtaken, or the power failed, the tailer meets nothing but records and zeros.
LEMMA ResolvedExplained ==
  ASSUME CaptureTypeOK, DiskInv, NamedInv, ~rec.lost_power, NEW k \in 1 .. last, disk[k].header, tail.cursor.segment = k,
         Matches(disk[k], tail.reader.frames),
         ~disk[k].sealed => tail.reader.size = SegmentFrames, tail.reader.frames # <<>> \/ tail.reader.size = 0,
         NEW q, q = Bounded(tail.reader, resolve_boundary(disk[k], tail.reader.size)),
         ~Overtaken(q.boundary),
         valid_slot(Boundary(disk[k])) \/ tail.reader.size <= physical_data(disk[k])
  PROVE  Explained(disk[k], q)
<1> DEFINE seg == disk[k]
           r == tail.reader
           b == resolve_boundary(seg, r.size)
<1>1. /\ r \in [frames : Seq(Frame), size : Nat, boundary : Nat] /\ r.frames \in Seq(Frame) /\ Len(r.frames) \in Nat
      /\ r.size \in Nat
  BY ReaderFacts
<1>2. /\ seg \in Segment /\ (Closed(seg) \/ (~seg.sealed /\ Steady(seg)))
  BY SegmentKind
<1>3. Len(seg.data) \in Nat /\ Boundary(seg).committed \in Nat
  BY <1>2, LimitFacts, LenProperties DEF Segment, Slot
<1>4. /\ b \in Nat /\ (valid_slot(Boundary(seg)) => b <= Boundary(seg).committed)
      /\ (~valid_slot(Boundary(seg)) => b = r.size)
  BY <1>1, <1>2, ResolveFacts
<1> HIDE DEF b
<1>5. q.frames = r.frames /\ q.boundary = b /\ q \in [frames : Seq(Frame), size : Nat, boundary : Nat]
  BY <1>1, <1>4 DEF Bounded, b
<1>6. Got(q) \in Nat /\ Got(q) <= Len(r.frames) /\ Got(q) <= b /\ Got(q) = Smaller(Len(r.frames), b)
  BY <1>5, GotFacts DEF Got
<1>7. valid_slot(Boundary(seg)) => b <= Len(seg.data)
  <2>1. valid_slot(Boundary(seg)) => Boundary(seg).committed <= Len(seg.data)
    BY DEF NamedInv
  <2> QED BY <1>3, <1>4, <2>1
<1>8. seg.sealed => b <= Len(seg.data) /\ Whole(seg.data, Len(seg.data)) /\ Readable(seg) = seg.data
  <2> SUFFICES ASSUME seg.sealed PROVE b <= Len(seg.data) /\ Whole(seg.data, Len(seg.data)) /\ Readable(seg) = seg.data
    OBVIOUS
  <2>1. Closed(seg) /\ physical_data(seg) = Len(seg.data)
    BY <1>2 DEF physical_data
  <2> QED BY <1>2, <1>4, <1>7, <2>1, ReadableClosed DEF Closed
<1>9. ASSUME NEW i \in 1 .. Got(q) PROVE IsRecord(r.frames[i]) \/ r.frames[i] = Zeros
  <2>1. i \in Nat \ {0} /\ i <= b
    BY <1>4, <1>6
  <2>2. r.frames[i] = Zeros \/ r.frames[i] = FrameAt(seg, i)
    BY <1>5, <1>6 DEF Overtaken, segment
  <2>3. CASE i <= Len(seg.data)
    <3>1. FrameAt(seg, i) = seg.data[i]
      BY <1>2, <2>1, <2>3, FrameFacts
    <3>2. IsRecord(seg.data[i])
      <4>1. CASE seg.sealed
        BY <1>3, <1>8, <2>1, <2>3, <4>1 DEF Whole
      <4>2. CASE ~seg.sealed
        <5>1. valid_slot(Boundary(seg)) /\ Whole(seg.data, Boundary(seg).committed)
          BY <1>2, <1>3, <2>1, <2>3, <4>2 DEF Steady, Closed
        <5>2. i \in 1 .. Boundary(seg).committed
          BY <1>3, <1>4, <2>1, <5>1
        <5> QED BY <5>1, <5>2 DEF Whole
      <4> QED BY <4>1, <4>2
    <3> QED BY <2>2, <3>1, <3>2
  <2>4. CASE ~(i <= Len(seg.data))
    <3>1. ~seg.sealed
      BY <1>3, <1>4, <1>8, <2>1, <2>4
    <3>2. FrameAt(seg, i) = Zeros
      BY <1>2, <2>1, <2>4, <3>1, FrameFacts
    <3> QED BY <2>2, <3>2
  <2> QED BY <2>3, <2>4
<1>10. Stuck(q) \/ b <= Len(Readable(seg))
  <2>1. CASE seg.sealed
    BY <1>8, <2>1
  <2>2. CASE ~seg.sealed
    BY <1>1, <1>5, <2>2, ResolvedSecure
  <2> QED BY <2>1, <2>2
<1> QED BY <1>5, <1>9, <1>10 DEF Explained

\* The sidecar is read.
LEMMA ResolveTail ==
  ASSUME CaptureTypeOK, DiskInv, NamedInv, TailInv, WalReader_resolve_boundary
  PROVE  TailInv' /\ tail' \in Tailer
<1> DEFINE c == tail.cursor
           k == c.segment
           seg == disk[k]
           r == tail.reader
           b == resolve_boundary(seg, r.size)
           named == valid_slot(Boundary(seg))
           q == Bounded(r, b)
           torn == tail.torn \/ (named /\ Overtaken(b))
           dropped == tail.dropped \/ (~named /\ (r.size > physical_data(seg) \/ Overtaken(b)))
           d == [tail EXCEPT !.phase = "read", !.reader = q, !.torn = torn, !.dropped = dropped]
<1>1. tail \in Tailer /\ tail.phase = "ahead" /\ disk' = disk /\ rec' = rec /\ (r.frames # <<>> \/ r.size = 0)
  BY TypedFacts DEF WalReader_resolve_boundary
<1>2. tail' = d
  BY <1>1 DEF WalReader_resolve_boundary, segment, Bounded, Boundary, Tailer
<1>3. Standing(tail) /\ ReaderInv(tail)
  BY <1>1, StandingNow DEF Standing
<1>4. /\ k \in Nat \ {0} /\ tail.catalog \in Nat /\ last \in Nat /\ k <= tail.catalog /\ tail.catalog <= last
      /\ tail.buffer = <<>> /\ (tail.corrupt => rec.lost_power \/ tail.torn \/ tail.dropped)
  BY <1>1, <1>3, TailFacts DEF Standing, Reading
<1>5. k \in 1 .. last
  BY <1>4
<1>6. seg \in Segment /\ Len(seg.data) \in Nat /\ Boundary(seg) \in Slot
  <2>1. seg \in Segment
    BY <1>5, TypedFacts
  <2> QED BY <2>1, LimitFacts, LenProperties DEF Segment
<1>7. r \in [frames : Seq(Frame), size : Nat, boundary : Nat] /\ r.size \in Nat
  BY ReaderFacts
<1>8. /\ seg.header /\ (k < tail.catalog => Complete(seg, r))
      /\ Matches(seg, r.frames) /\ (~seg.sealed => r.size = SegmentFrames)
  BY <1>1, <1>3 DEF ReaderInv
<1>9. /\ b \in Nat /\ b <= r.size /\ (named => b = r.size \/ b = Boundary(seg).committed) /\ (~named => b = r.size)
  BY <1>6, <1>7, ResolveFacts
<1>10. k < tail.catalog => b = Len(seg.data) /\ Complete(seg, q)
  <2> SUFFICES ASSUME k < tail.catalog PROVE b = Len(seg.data) /\ Complete(seg, q)
    OBVIOUS
  <2>1. Closed(seg) /\ Complete(seg, r) /\ r.size = Len(seg.data)
    BY <1>4, <1>8 DEF DiskInv, Complete
  <2>2. Boundary(seg).committed \in Nat /\ (named => Boundary(seg).committed >= Len(seg.data))
    BY <1>6, <2>1 DEF Closed, Slot
  <2> HIDE DEF b, named
  <2>3. b = Len(seg.data)
    BY <1>6, <1>9, <2>1, <2>2
  <2> QED BY <1>7, <2>1, <2>3 DEF Complete, Bounded
<1>11. /\ q \in [frames : Seq(Frame), size : Nat, boundary : Nat] /\ q.frames = r.frames /\ q.boundary = b
  BY <1>7, <1>9 DEF Bounded
<1>12. InLog(seg, q) \/ (dropped /\ Past(k))
  <2>1. ~InLog(seg, q) => ~named /\ Overtaken(q.boundary) /\ Past(k)
    BY <1>5, <1>8, ResolvedInLog
  <2> HIDE DEF q, b, named
  <2> QED BY <1>11, <2>1
<1>13. Stuck(q) \/ Secure(k, q.boundary)
  BY <1>1, <1>5, <1>7, <1>8, ResolvedSecure
<1>14. rec.lost_power \/ torn \/ dropped \/ Explained(seg, q)
  <2> SUFFICES ASSUME ~rec.lost_power, ~torn, ~dropped PROVE Explained(seg, q)
    OBVIOUS
  <2>1. ~Overtaken(b) /\ (named \/ ~(r.size > physical_data(seg)))
    OBVIOUS
  <2>2. physical_data(seg) \in Nat
    BY <1>6, CaptureAssumption DEF physical_data
  <2>3. named \/ r.size <= physical_data(seg)
    BY <1>7, <2>1, <2>2
  <2> QED BY <1>1, <1>5, <1>8, <1>11, <2>1, <2>3, ResolvedExplained
<1>15. torn \in BOOLEAN /\ dropped \in BOOLEAN
  BY <1>1 DEF Tailer
<1> HIDE DEF q, torn, dropped
<1>16. /\ d \in Tailer /\ d.phase = "read" /\ d.catalog = tail.catalog /\ d.cursor = c /\ d.run = tail.run
       /\ d.base = tail.base /\ d.buffer = tail.buffer /\ d.corrupt = tail.corrupt /\ d.torn = torn
       /\ d.dropped = dropped /\ d.reader = q
  BY <1>1, <1>11, <1>15 DEF Tailer
<1>17. (tail.torn => torn) /\ (tail.dropped => dropped)
  BY DEF torn, dropped
<1> HIDE DEF d
<1>18. ReaderInv(d)
  BY <1>8, <1>10, <1>11, <1>12, <1>13, <1>14, <1>16 DEF ReaderInv
<1>19. Standing(d)
  <2>1. d.phase \in Reading \cup {"next"} /\ d.phase # "advance"
    BY <1>16 DEF Reading
  <2> QED BY <1>3, <1>4, <1>16, <1>17, <1>18, <2>1, SamePlace
<1> QED BY <1>1, <1>2, <1>16, <1>19, StandingNext

\* A reader meets a torn frame inside a boundary only where the power failed.
LEMMA CleanUnlessPower ==
  ASSUME CaptureTypeOK, DiskInv, ~rec.lost_power, NEW i \in 1 .. last, disk[i].header
  PROVE  ReadAll(disk[i]).clean
<1>1. disk[i] \in Segment /\ last \in Nat /\ (disk = <<>> => last = 0)
  BY TypedFacts
<1>2. disk # <<>> /\ (Closed(disk[i]) \/ (i = last /\ Steady(disk[i])))
  <2>1. disk # <<>>
    BY <1>1
  <2>2. CASE i < last
    BY <2>1, <2>2, <1>1 DEF DiskInv
  <2>3. CASE i = last
    BY <2>1, <2>3, CurrentKind DEF current
  <2> QED BY <2>1, <2>2, <2>3, <1>1
<1> QED BY <1>1, <1>2, ReadableClosed, ReadableSteady

LEMMA UndeliveredFacts ==
  ASSUME NEW s \in Seq(Frame), NEW n \in Nat, NEW w \in Seq(Frame),
         w = SubSeq(s, n + 1, Smaller(Len(s), n + BufferCapacity))
  PROVE  /\ w = <<>> => n >= Len(s)
         /\ Len(w) < BufferCapacity => Len(s) < n + BufferCapacity
         /\ w # <<>> => n + Len(w) <= Len(s) /\ w = SubSeq(s, n + 1, n + Len(w))
<1>1. Len(s) \in Nat /\ BufferCapacity \in Nat \ {0} /\ Len(w) \in Nat
  BY LenProperties, CaptureAssumption
<1> DEFINE k == Smaller(Len(s), n + BufferCapacity)
<1>2. k \in Nat /\ k <= Len(s) /\ (n < Len(s) => k > n)
  BY <1>1 DEF Smaller
<1> HIDE DEF k
<1>3. w = SubSeq(s, n + 1, k)
  BY DEF k
<1>4. CASE n + 1 <= k
  <2>1. Len(w) = k - (n + 1) + 1
    <3> DEFINE m == n + 1
    <3>1. m \in 1 .. Len(s) /\ k \in 1 .. Len(s) /\ m <= k
      BY <1>1, <1>2, <1>4
    <3> HIDE DEF m
    <3>2. Len(SubSeq(s, m, k)) = k - m + 1
      BY <3>1, <1>1
    <3> QED BY <3>2, <1>3 DEF m
  <2>2. Len(w) = k - n /\ n + Len(w) = k /\ Len(w) > 0
    BY <2>1, <1>2, <1>4
  <2>3. w # <<>>
    <3>1. Len(<<>>) = 0
      OBVIOUS
    <3>2. Len(w) # 0
      <4>1. Len(w) > 0
        BY <2>2
      <4> QED BY <4>1
    <3> QED BY <3>1, <3>2
  <2>4. Len(w) < BufferCapacity => Len(s) < n + BufferCapacity
    BY <1>1, <1>2, <2>2 DEF k, Smaller
  <2> QED BY <2>2, <2>3, <2>4, <1>2, <1>3
<1>5. CASE ~(n + 1 <= k)
  <2>1. w = <<>>
    BY <1>2, <1>3, <1>5, SubSeqEmpty
  <2> QED BY <2>1, <1>1, <1>2, <1>5
<1> QED BY <1>4, <1>5

\* The scan has ended.
LEMMA FillTail ==
  ASSUME CaptureTypeOK, DiskInv, TailInv, fill_from_current_segment
  PROVE  TailInv' /\ tail' \in Tailer
<1> DEFINE c == tail.cursor
           k == c.segment
           seg == disk[k]
           r == tail.reader
           m == Len(Scanned)
           clean == m = r.boundary \/ r.frames[m+1] = Zeros
           new == SubSeq(Scanned, c.frames + 1, Smaller(m, c.frames + BufferCapacity))
<1>1. tail \in Tailer /\ tail.phase = "read" /\ disk' = disk /\ rec' = rec /\ ScanEnds
  BY TypedFacts DEF fill_from_current_segment
<1>2. Standing(tail) /\ ReaderInv(tail)
  BY <1>1, StandingNow DEF Standing
<1>3. /\ k \in Nat \ {0} /\ tail.catalog \in Nat /\ last \in Nat /\ k <= tail.catalog /\ tail.catalog <= last
      /\ tail.buffer = <<>> /\ (tail.corrupt => rec.lost_power \/ tail.torn \/ tail.dropped) /\ c.frames \in Nat
  BY <1>1, <1>2, TailFacts DEF Standing, Reading
<1>4. k \in 1 .. last
  BY <1>3
<1>5. seg \in Segment /\ Len(seg.data) \in Nat /\ Cut(c) = Readable(seg)
  BY <1>4, TypedFacts, LenProperties DEF Segment, Cut
<1>6. r \in [frames : Seq(Frame), size : Nat, boundary : Nat] /\ r.boundary \in Nat /\ Len(r.frames) \in Nat
  BY ReaderFacts
<1>7. /\ Taken.data = r.frames
      /\ Scanned \in Seq(Frame) /\ m \in Nat /\ m <= Got(r)
      /\ \A i \in 1 .. m : Scanned[i] = r.frames[i]
      /\ Whole(r.frames, m)
      /\ \A i \in Nat : i <= Got(r) /\ Whole(r.frames, i) => i <= m
  BY <1>4, TakenFacts
<1>8. Got(r) \in Nat /\ Got(r) <= Len(r.frames) /\ Got(r) <= r.boundary
  BY <1>6, GotFacts
<1>9. m < Len(r.frames) \/ Len(r.frames) >= r.boundary \/ m >= c.frames + BufferCapacity
  BY <1>1 DEF ScanEnds
<1>10. BufferCapacity \in Nat \ {0}
  BY CaptureAssumption
<1>11. tail' = IF Len(new) < BufferCapacity /\ ~clean
               THEN [tail EXCEPT !.phase = "next", !.catalog = 0, !.reader = NoReader, !.corrupt = TRUE]
               ELSE IF new = <<>> THEN [tail EXCEPT !.phase = "advance", !.reader = NoReader]
               ELSE Deliver([tail EXCEPT !.buffer = new])
  <2> DEFINE read == next(Taken, r.boundary)
  <2>1. read.records = Scanned /\ read.clean = clean
    BY <1>7 DEF next, Scanned
  <2>2. Undelivered(read, c.frames) = new
    BY <2>1 DEF Undelivered
  <2>3. tail' = Filled(read)
    BY DEF fill_from_current_segment, WalTailer_fill, ExecutionWalTailer_fill, next_raw
  <2> HIDE DEF read, new, clean
  <2> QED BY <2>1, <2>2, <2>3 DEF Filled
<1>12. new \in Seq(Frame) /\ Len(new) \in Nat
  <2> DEFINE s == Scanned
  <2>1. s \in Seq(Frame) /\ m = Len(s)
    BY <1>7
  <2> HIDE DEF s
  <2>2. SubSeq(s, c.frames + 1, Smaller(Len(s), c.frames + BufferCapacity)) \in Seq(Frame)
    <3>1. Len(s) \in Nat
      BY <2>1, LenProperties
    <3> QED BY <1>3, <1>10, <2>1, <3>1, SubSeqProperties DEF Smaller
  <2>3. new \in Seq(Frame)
    BY <2>1, <2>2 DEF s
  <2> QED BY <2>3, LenProperties
<1>13. /\ new = <<>> => c.frames >= m
       /\ Len(new) < BufferCapacity => m < c.frames + BufferCapacity
       /\ new # <<>> => c.frames + Len(new) <= m /\ new = SubSeq(Scanned, c.frames + 1, c.frames + Len(new))
  <2> DEFINE s == Scanned
             n == c.frames
             w == new
  <2>1. s \in Seq(Frame) /\ n \in Nat /\ w \in Seq(Frame) /\ w = SubSeq(s, n + 1, Smaller(Len(s), n + BufferCapacity))
    BY <1>3, <1>7, <1>12
  <2> HIDE DEF s, n, w
  <2>2. /\ w = <<>> => n >= Len(s)
        /\ Len(w) < BufferCapacity => Len(s) < n + BufferCapacity
        /\ w # <<>> => n + Len(w) <= Len(s) /\ w = SubSeq(s, n + 1, n + Len(w))
    BY <2>1, UndeliveredFacts
  <2> QED BY <2>2 DEF s, n, w
<1>14. NoReader \in [frames : Seq(Frame), size : Nat, boundary : Nat] /\ NoReader.frames = <<>>
  BY EmptySeq DEF NoReader
<1> HIDE DEF new, NoReader
<1>15. ASSUME NEW d \in Tailer, tail' = d, d.phase \in {"next", "advance"}, d.cursor = c, d.run = tail.run,
              d.base = tail.base, d.buffer = tail.buffer, d.torn = tail.torn, d.dropped = tail.dropped, d.reader = NoReader,
              d.phase = "advance" => d.catalog = tail.catalog /\ (k < tail.catalog => c.frames >= Len(Cut(c))),
              d.corrupt => rec.lost_power \/ tail.torn \/ tail.dropped
       PROVE  TailInv' /\ tail' \in Tailer
  <2>1. ReaderInv(d)
    BY <1>14, <1>15 DEF ReaderInv
  <2>2. d.phase \in Reading \cup {"next"} /\ (d.phase \in Reading => d.phase = "advance")
    BY <1>15 DEF Reading
  <2>3. Standing(d)
    BY <1>2, <1>3, <1>15, <2>1, <2>2, SamePlace
  <2> QED BY <1>1, <1>15, <2>3, StandingNext
<1>16. CASE Len(new) < BufferCapacity /\ ~clean
  <2> DEFINE d == [tail EXCEPT !.phase = "next", !.catalog = 0, !.reader = NoReader, !.corrupt = TRUE]
  <2>1. tail' = d
    BY <1>11, <1>16
  <2>2. /\ d \in Tailer /\ d.phase = "next" /\ d.cursor = c /\ d.run = tail.run /\ d.base = tail.base
        /\ d.buffer = tail.buffer /\ d.torn = tail.torn /\ d.dropped = tail.dropped /\ d.reader = NoReader
    BY <1>1, <1>14 DEF Tailer
  <2> HIDE DEF d
  <2>3. rec.lost_power \/ tail.torn \/ tail.dropped
    <3> SUFFICES ASSUME Explained(seg, r) PROVE FALSE
      BY <1>1, <1>2 DEF ReaderInv
    <3>1. m + 1 \in 1 .. Got(r)
      <4>1. m < r.boundary
        BY <1>6, <1>7, <1>8, <1>16
      <4>2. m < Len(r.frames)
        BY <1>3, <1>6, <1>7, <1>9, <1>10, <1>13, <1>16, <4>1
      <4>3. m < Got(r)
        BY <1>6, <1>7, <4>1, <4>2 DEF Got, Smaller
      <4> HIDE DEF m
      <4> QED BY <1>7, <1>8, <4>3
    <3>2. IsRecord(r.frames[m+1])
      BY <1>16, <3>1 DEF Explained
    <3> HIDE DEF m
    <3>3. Whole(r.frames, m + 1)
      <4>1. ASSUME NEW i \in 1 .. m + 1 PROVE IsRecord(r.frames[i])
        <5>1. i = m + 1 \/ i \in 1 .. m
          BY <1>7
        <5> QED BY <1>7, <3>2, <5>1 DEF Whole
      <4> QED BY <4>1 DEF Whole
    <3>4. m + 1 \in Nat /\ m + 1 <= Got(r)
      BY <1>7, <1>8, <3>1
    <3>5. m + 1 <= m
      BY <1>7, <3>3, <3>4
    <3> QED BY <1>7, <3>5
  <2> QED BY <1>15, <2>1, <2>2, <2>3
<1>17. CASE ~(Len(new) < BufferCapacity /\ ~clean) /\ new = <<>>
  <2> DEFINE d == [tail EXCEPT !.phase = "advance", !.reader = NoReader]
  <2>1. tail' = d
    BY <1>11, <1>17
  <2>2. /\ d \in Tailer /\ d.phase = "advance" /\ d.catalog = tail.catalog /\ d.cursor = c /\ d.run = tail.run
        /\ d.base = tail.base /\ d.corrupt = tail.corrupt
        /\ d.buffer = tail.buffer /\ d.torn = tail.torn /\ d.dropped = tail.dropped /\ d.reader = NoReader
    BY <1>1, <1>14 DEF Tailer
  <2> HIDE DEF d
  <2>3. ASSUME k < tail.catalog PROVE c.frames >= Len(Cut(c))
    <3>1. Closed(seg)
      BY <1>3, <2>3 DEF DiskInv
    <3>2. Complete(seg, r) /\ r.boundary = Len(seg.data)
      BY <1>1, <1>2, <2>3 DEF ReaderInv
    <3>3. Len(r.frames) <= Len(seg.data) /\ \A i \in 1 .. Len(r.frames) : IsRecord(r.frames[i])
      BY <1>5, <1>6, <3>1, <3>2 DEF Complete, Closed, Whole
    <3>4. Got(r) = Len(r.frames)
      BY <1>5, <1>6, <3>2, <3>3 DEF Got, Smaller
    <3>5. Len(r.frames) <= m
      BY <1>6, <1>7, <3>3, <3>4 DEF Whole
    <3>6. Cut(c) = seg.data
      BY <1>5, <3>1, ReadableClosed
    <3> HIDE DEF m
    <3>7. c.frames >= m
      BY <1>13, <1>17
    <3>8. ~(m < Len(r.frames)) /\ ~(m >= c.frames + BufferCapacity)
      BY <1>3, <1>6, <1>7, <1>10, <3>5, <3>7
    <3>9. Len(r.frames) >= r.boundary
      BY <1>9, <3>8
    <3> QED BY <1>3, <1>5, <1>6, <1>7, <3>2, <3>5, <3>6, <3>7, <3>9
  <2> QED BY <1>3, <1>15, <2>1, <2>2, <2>3
<1>18. CASE ~(Len(new) < BufferCapacity /\ ~clean) /\ new # <<>>
  <2> DEFINE t == [tail EXCEPT !.buffer = new]
             d == Deliver(t)
  <2>1. t \in Tailer /\ t.cursor = c /\ t.run = tail.run /\ t.base = tail.base /\ t.corrupt = tail.corrupt
        /\ t.torn = tail.torn /\ t.dropped = tail.dropped /\ t.buffer = new
    BY <1>1, <1>12 DEF Tailer
  <2>2. tail' = d
    BY <1>11, <1>18
  <2> HIDE DEF t
  <2>3. d \in Tailer
    BY <1>18, <2>1, DeliverFacts
  <2>4. BufferAhead(t) \/ (t.dropped /\ Past(k))
    <3>1. CASE InLog(seg, r)
      <4> DEFINE p == Cut(c)
                 n == c.frames
                 s == Scanned
      <4>1. p \in Seq(Frame) /\ Len(p) \in Nat
        BY <1>5, ReadableFacts, LenProperties
      <4>2. \A i \in 1 .. m : i <= Len(p) /\ s[i] = p[i]
        <5>1. ASSUME NEW i \in 1 .. m PROVE i \in 1 .. Got(r) /\ Whole(r.frames, i)
          BY <1>7, <1>8 DEF Whole
        <5> QED BY <1>5, <1>7, <3>1, <5>1 DEF InLog
      <4>3. n + Len(new) <= m /\ new = SubSeq(s, n + 1, n + Len(new)) /\ n \in Nat /\ s \in Seq(Frame) /\ m = Len(s)
        BY <1>3, <1>7, <1>13, <1>18
      <4>4. \A i \in 1 .. Len(new) : new[i] = s[n+i]
        <5> HIDE DEF s, n, m
        <5> QED BY <1>12, <4>3, RunForm
      <4> HIDE DEF s, n, m, p
      <4>5. m <= Len(p)
        <5>1. m = 0 \/ m \in 1 .. m
          BY <1>7
        <5> QED BY <1>7, <4>1, <4>2, <5>1
      <4>6. \A i \in 1 .. Len(new) : n + i \in 1 .. m
        BY <1>7, <1>12, <4>3
      <4>7. \A i \in 1 .. Len(new) : new[i] = p[n+i]
        BY <4>2, <4>4, <4>6
      <4>8. n + Len(new) <= Len(p)
        BY <1>7, <1>12, <4>1, <4>3, <4>5
      <4>9. new = SubSeq(p, n + 1, n + Len(new))
        BY <1>12, <4>1, <4>3, <4>7, <4>8, RunForm
      <4> QED BY <1>3, <1>4, <2>1, <4>8, <4>9 DEF BufferAhead, n, p
    <3>2. CASE ~InLog(seg, r)
      BY <1>1, <1>2, <2>1, <3>2 DEF ReaderInv
    <3> QED BY <3>1, <3>2
  <2>5. tail.phase # "stopped"
    BY <1>1
  <2> HIDE DEF d
  <2>6. Standing(d)
    BY <1>18, <2>1, <2>3, <2>4, <2>5, DeliverStands DEF d
  <2> QED BY <1>1, <2>2, <2>3, <2>6, StandingNext
<1> QED BY <1>16, <1>17, <1>18

LEMMA AdvanceTail ==
  ASSUME CaptureTypeOK, TailInv, Advance
  PROVE  TailInv' /\ tail' \in Tailer
<1> DEFINE c == tail.cursor
           e == IF c.segment < tail.catalog THEN Cursor(c.segment + 1, 0) ELSE c
           d == [tail EXCEPT !.phase = "next", !.catalog = 0, !.cursor = e]
<1>1. tail \in Tailer /\ tail.phase = "advance" /\ disk' = disk /\ rec' = rec /\ tail' = d
  BY TypedFacts DEF Advance, Later
<1>2. Standing(tail)
  BY <1>1, StandingNow
<1>3. /\ c \in CursorType /\ c.segment \in Nat \ {0} /\ c.frames \in Nat /\ tail.catalog \in Nat /\ last \in Nat
      /\ disk \in Seq(Segment) /\ last = Len(disk)
  BY <1>1, TailFacts DEF last
<1>4. /\ c.segment <= tail.catalog /\ tail.catalog <= last /\ tail.buffer = <<>>
      /\ c.segment < tail.catalog => c.frames >= Len(Cut(c))
      /\ tail.reader.frames = <<>>
  BY <1>1, <1>2 DEF Standing, Reading, ReaderInv
<1>5. e \in CursorType /\ e.segment <= last
  BY <1>3, <1>4 DEF Cursor, CursorType
<1>6. CountBefore(disk, e) = CountBefore(disk, c) /\ (e.segment = last /\ rec.phase \in Growing => e.frames <= Len(Cut(e)))
  <2>1. CASE c.segment < tail.catalog
    <3> DEFINE b == Len(Recorded(SubSeq(disk, 1, c.segment - 1)))
               r == Cut(c)
               s == Cut(e)
    <3>1. e.segment = c.segment + 1 /\ e.frames = 0 /\ e.segment - 1 = c.segment
      BY <2>1, <1>3 DEF Cursor
    <3>2. /\ b \in Nat /\ Len(r) \in Nat /\ CountBefore(disk, c) = b + Smaller(c.frames, Len(r))
          /\ b + Len(r) = Len(Recorded(SubSeq(disk, 1, c.segment)))
      <4>1. c.segment <= Len(disk)
        BY <1>3, <1>4
      <4> QED BY <1>3, <4>1, BeforeFacts DEF Cut
    <3>3. Len(s) \in Nat /\ CountBefore(disk, e) = Len(Recorded(SubSeq(disk, 1, c.segment))) + Smaller(0, Len(s))
      <4> HIDE DEF e
      <4> QED BY <1>3, <1>5, <3>1, BeforeFacts DEF Cut
    <3> HIDE DEF b, r, s, e
    <3>4. Smaller(c.frames, Len(r)) = Len(r) /\ Smaller(0, Len(s)) = 0
      BY <1>3, <1>4, <2>1, <3>2, <3>3 DEF Smaller, r
    <3>5. CountBefore(disk, e) = CountBefore(disk, c) /\ e.frames <= Len(s)
      BY <3>1, <3>2, <3>3, <3>4
    <3> QED BY <3>5 DEF s
  <2>2. CASE ~(c.segment < tail.catalog)
    BY <1>2, <2>2 DEF Standing
  <2> QED BY <2>1, <2>2
<1>7. /\ d \in Tailer /\ d.phase = "next" /\ d.catalog = 0 /\ d.cursor = e /\ d.run = tail.run /\ d.base = tail.base
      /\ d.buffer = <<>> /\ d.corrupt = tail.corrupt /\ d.torn = tail.torn /\ d.dropped = tail.dropped
      /\ d.reader = tail.reader
  BY <1>1, <1>4, <1>5 DEF Tailer, CursorType
<1> HIDE DEF e, d
<1>8. Standing(d)
  <2>1. ReaderInv(d)
    BY <1>4, <1>7 DEF ReaderInv
  <2>2. d.phase \notin Reading /\ d.phase # "advance"
    BY <1>7 DEF Reading
  <2> QED BY <1>2, <1>5, <1>6, <1>7, <2>1, <2>2 DEF Standing
<1> QED BY <1>1, <1>7, <1>8, StandingNext

\* A cursor that was saved is one the tailer has passed.
LEMMA PassedFacts ==
  ASSUME CaptureTypeOK, CursorInv, NEW e \in Passed
  PROVE  /\ e \in CursorType /\ (e.segment <= last \/ e = Cursor(1, 0))
         /\ e.segment = last /\ rec.phase \in Growing => e.frames <= Len(Cut(e))
         /\ CountBefore(disk, e) \in Nat
<1> DEFINE c == tail.cursor
<1>1. /\ c \in CursorType /\ c.segment \in Nat \ {0} /\ c.frames \in Nat /\ last \in Nat
      /\ disk \in Seq(Segment) /\ last = Len(disk) /\ SegmentFrames \in Nat
  BY TailFacts, CaptureAssumption DEF last
<1>2. /\ e \in CursorType
      /\ \/ e.segment < c.segment
         \/ e.segment = c.segment /\ e.frames <= c.frames
  BY <1>1 DEF Passed, Cursor, CursorType
<1>3. c.segment <= last \/ (c.segment = 1 /\ c.frames = 0)
  BY DEF CursorInv, Cursor
<1>4. e.segment \in Nat \ {0} /\ e.frames \in Nat /\ e = [segment |-> e.segment, frames |-> e.frames]
  BY <1>2 DEF CursorType
<1>5. e.segment <= last \/ e = Cursor(1, 0)
  <2>1. CASE c.segment <= last
    BY <2>1, <1>1, <1>2, <1>4
  <2>2. CASE c.segment = 1 /\ c.frames = 0
    <3>1. e.segment = 1 /\ e.frames = 0
      BY <2>2, <1>2, <1>4
    <3> QED BY <3>1, <1>4 DEF Cursor
  <2> QED BY <2>1, <2>2, <1>3
<1>6. ASSUME e.segment = last, rec.phase \in Growing PROVE e.frames <= Len(Cut(e))
  <2>1. c.segment = last /\ e.frames <= c.frames
    BY <1>1, <1>2, <1>3, <1>4, <1>6
  <2>2. c.frames <= Len(Cut(c)) /\ Cut(c) = Cut(e)
    BY <2>1, <1>6 DEF CursorInv, Cut
  <2>3. Len(Cut(e)) \in Nat
    <3>1. disk[e.segment] \in Segment
      BY <1>1, <1>4, <1>6, ElementOfSeq
    <3> QED BY <3>1, ReadableFacts, LenProperties DEF Cut
  <2> QED BY <2>1, <2>2, <2>3, <1>1, <1>4
<1>7. CountBefore(disk, e) \in Nat
  <2>1. CASE e.segment <= last
    BY <2>1, <1>1, <1>2, BeforeFacts
  <2>2. CASE e = Cursor(1, 0)
    BY <2>2, <1>1, BeforeStart
  <2> QED BY <2>1, <2>2, <1>5
<1> QED BY <1>2, <1>5, <1>6, <1>7

LEMMA OpenTail ==
  ASSUME CaptureTypeOK, TailInv, open_tailer
  PROVE  TailInv' /\ tail' \in Tailer
<1>1. /\ tail \in Tailer /\ tail.phase = "stopped" /\ disk' = disk /\ rec' = rec
      /\ tail.run = <<>> /\ tail.buffer = <<>> /\ CursorInv
      /\ (tail.corrupt => rec.lost_power \/ tail.torn \/ tail.dropped) /\ tail.reader.frames = <<>>
  BY TypedFacts DEF open_tailer, TailInv, CorruptOnlyWhenOvertaken, ReaderInv
<1>2. PICK e \in Passed : tail' = [tail EXCEPT !.phase = "next", !.cursor = e, !.base = FramesBefore(e)]
  BY DEF open_tailer
<1> DEFINE d == [tail EXCEPT !.phase = "next", !.cursor = e, !.base = FramesBefore(e)]
<1>3. /\ e \in CursorType /\ (e.segment <= last \/ e = Cursor(1, 0))
      /\ e.segment = last /\ rec.phase \in Growing => e.frames <= Len(Cut(e))
      /\ FramesBefore(e) \in Nat /\ FramesBefore(e) = CountBefore(disk, e)
  <2>1. FramesBefore(e) = CountBefore(disk, e)
    BY DEF FramesBefore, CountBefore
  <2> QED BY <1>1, <2>1, PassedFacts
<1>4. /\ d \in Tailer /\ d.phase = "next" /\ d.cursor = e /\ d.run = <<>> /\ d.base = CountBefore(disk, e)
      /\ d.buffer = <<>> /\ d.corrupt = tail.corrupt /\ d.torn = tail.torn /\ d.dropped = tail.dropped
      /\ d.reader = tail.reader
  BY <1>1, <1>3 DEF Tailer, CursorType
<1>5. tail' = d
  BY <1>2
<1> HIDE DEF d
<1>6. d.base + Len(d.run) = d.base /\ SubSeq(Log, d.base + 1, d.base) = <<>>
  BY <1>3, <1>4, TailFacts, SubSeqEmpty
<1>7. Standing(d)
  <2>1. ReaderInv(d)
    BY <1>1, <1>4 DEF ReaderInv
  <2>2. d.phase \notin Reading /\ d.phase # "advance"
    BY <1>4 DEF Reading
  <2> QED BY <1>1, <1>3, <1>4, <1>6, <2>1, <2>2 DEF Standing
<1> QED BY <1>1, <1>4, <1>5, <1>7, StandingNext

LEMMA TailKept ==
  ASSUME CaptureTypeOK, DiskInv, PendingInv, NamedInv, TailInv, [CaptureNext]_captureVars
  PROVE  TailInv' /\ tail' \in Tailer
<1>1. CASE PowerLoss \/ TailerCrash
  BY <1>1, StoppedTail, AbsentTail DEF TailerCrash
<1>2. CASE TailerStep
  BY <1>2, OpenTail, NextBufferedTail, RescanTail, OpenReaderTail, StreamTail, ResolveTail, FillTail, AdvanceTail DEF TailerStep
<1>3. CASE tail' = tail /\ ~PowerLoss
  <2>1. Grows /\ Leaves
    BY <1>3, RecorderGrows, RecorderKeeps DEF Leaves, Kept
  <2> QED BY <1>3, <2>1, GrowsTail, TypedFacts
<1> QED BY <1>1, <1>2, <1>3, TailMoves

-----------------------------------------------------------------------------
(* The invariant of the capture. *)

LEMMA CaptureStarts ==
  ASSUME CaptureInit
  PROVE  CaptureInv
<1>1. PICK s \in Scenarios :
        /\ stream = s.stream /\ left = s.faults
        /\ tail = [phase |-> IF s.tailed THEN "next" ELSE "absent", cursor |-> Cursor(1, 0), catalog |-> 0,
                   reader |-> NoReader, buffer |-> <<>>, run |-> <<>>, base |-> 0,
                   corrupt |-> FALSE, torn |-> FALSE, dropped |-> FALSE]
  BY DEF CaptureInit
<1>2. disk = <<>> /\ rec = Process /\ safe = NothingSafe /\ jobs = <<>> /\ kept = {}
  BY DEF CaptureInit
<1>3. last = 0 /\ Len(disk) = 0 /\ Len(jobs) = 0 /\ Log = <<>> /\ Len(Log) = 0 /\ disk \in Seq(Segment)
  BY <1>2, RecordedNone, EmptySeq DEF last, Log
<1>4. s \in [stream : {"market", "execution"}, tailed : BOOLEAN, faults : [FaultKinds -> Nat]]
      /\ QueueCapacity \in Nat /\ MaxEvents \in Nat
  BY CaptureAssumption
<1>5. stream \in {"market", "execution"} /\ left \in [FaultKinds -> Nat]
  BY <1>1, <1>4
<1>6. tail \in Tailer
  BY <1>1, EmptySeq DEF Tailer, Cursor, NoReader
<1>7. rec \in Recorder /\ NoRecord \in Frame
  BY <1>2, <1>4 DEF Process, Recorder, RecorderPhases, NoRecord, Zeros, FixedEvent, Frame
<1>8. safe \in [header : BOOLEAN, frames : Nat, metas : SUBSET Sidecar]
  BY <1>2, NewTyped DEF NothingSafe, NoMeta, Sidecar, BadSlot, Slot
<1>9. CaptureTypeOK
  <2>1. jobs \in Seq(1 .. Len(disk)) /\ kept \subseteq Frame
    BY <1>2, EmptySeq
  <2> QED BY <1>3, <1>4, <1>5, <1>6, <1>7, <1>8, <2>1 DEF CaptureTypeOK
<1>10. rec.phase = "down" /\ rec.pending = NoRecord /\ rec.last = 0 /\ rec.rotated = 0 /\ rec.session = 0 /\ ~rec.lost_power
  BY <1>2 DEF Process
<1>11. DiskInv
  BY <1>2, <1>3, <1>10 DEF DiskInv, QueueInv
<1>12. PendingInv /\ SafeInv
  BY <1>2, <1>10 DEF PendingInv, SafeInv, Adding
<1>13. KeptReadable /\ RecordsContiguous
  BY <1>2, <1>3 DEF KeptReadable, RecordsContiguous, Log
<1>14. SessionInv /\ FollowInv /\ TimeInv
  BY <1>2, <1>3, <1>10 DEF SessionInv, FollowInv, TimeInv
<1>15. TailInv
  <2>1. tail.cursor = Cursor(1, 0) /\ tail.run = <<>> /\ tail.base = 0 /\ tail.buffer = <<>> /\ ~tail.corrupt
        /\ tail.phase \in {"next", "absent"} /\ tail.reader.frames = <<>>
    BY <1>1 DEF NoReader
  <2>2. FramesBefore(tail.cursor) = 0
    BY <1>3, <2>1, BeforeStart DEF FramesBefore, CountBefore
  <2>3. CursorInv
    BY <1>10, <2>1 DEF CursorInv, Growing, Opening, Adding
  <2>4. SubSeq(Log, 1, 0) = <<>> /\ Len(<<>>) = 0
    BY <1>3, EmptySeq
  <2>5. TailerExact
    BY <2>1, <2>4 DEF TailerExact, Log
  <2>6. PositionInv
    BY <2>1, <2>2, <2>4 DEF PositionInv, Reading
  <2>7. ReaderInv(tail)
    BY <2>1 DEF ReaderInv
  <2> QED BY <2>1, <2>3, <2>5, <2>6, <2>7 DEF TailInv, CorruptOnlyWhenOvertaken
<1>16. NamedInv
  BY <1>3 DEF NamedInv
<1> QED BY <1>9, <1>11, <1>12, <1>13, <1>14, <1>15, <1>16 DEF CaptureInv, LogInv

LEMMA CaptureContinues ==
  ASSUME CaptureInv, [CaptureNext]_captureVars
  PROVE  CaptureInv'
<1>1. /\ CaptureTypeOK /\ DiskInv /\ PendingInv /\ SafeInv /\ NamedInv /\ TailInv
      /\ KeptReadable /\ RecordsContiguous /\ SessionInv /\ FollowInv /\ TimeInv
  BY DEF CaptureInv, LogInv
<1>2. disk' \in Seq(Segment) /\ DiskInv' /\ jobs' \in Seq(1 .. last') /\ rec' \in Recorder
  BY <1>1, NextKinds DEF DiskGood
<1>3. TailInv' /\ tail' \in Tailer
  BY <1>1, TailKept
<1>7. NamedInv'
  BY <1>1, NamedKept
<1>4. CaptureTypeOK'
  <2>1. safe' \in [header : BOOLEAN, frames : Nat, metas : SUBSET Sidecar]
    BY <1>1, SafeTyped DEF SafeType
  <2>2. Len(jobs') <= QueueCapacity
    BY <1>1, BoundsKept
  <2>3. stream' \in {"market", "execution"} /\ kept' \subseteq Frame /\ left' \in [FaultKinds -> Nat]
    BY <1>1, KeptTyped
  <2> QED BY <1>2, <1>3, <2>1, <2>2, <2>3 DEF CaptureTypeOK, last
<1>5. PendingInv' /\ SafeInv'
  BY <1>1, PendingKept, SafeKept
<1>6. KeptReadable' /\ RecordsContiguous' /\ SessionInv' /\ FollowInv' /\ TimeInv'
  BY <1>1, KeptKept, ContiguousKept, SessionKept, FollowKept, TimeKept
<1> QED BY <1>2, <1>3, <1>4, <1>5, <1>6, <1>7 DEF CaptureInv, LogInv

\* The capture keeps the invariant through every step of the recorder, the compressor and the
\* tailer, and through every failure.
LEMMA CaptureInvariant == CaptureSpec => []CaptureInv
<1>1. CaptureInit => CaptureInv
  BY CaptureStarts
<1>2. CaptureInv /\ [CaptureNext]_captureVars => CaptureInv'
  BY CaptureContinues
<1> QED BY <1>1, <1>2, PTL DEF CaptureSpec

\* The state of recorder, compressor and tailer keeps its shape, and the compression queue is
\* never overfilled and names segments that exist.
THEOREM CaptureTypes == CaptureSpec => []CaptureTypeOK
<1>1. CaptureInv => CaptureTypeOK
  BY DEF CaptureInv
<1> QED BY <1>1, CaptureInvariant, PTL

\* A record whose boundary was published is found again after any death of the process, and
\* one that was flushed after a loss of power (wal_writer.cpp: append, publish_boundary,
\* recover).
THEOREM CommittedSurvives == CaptureSpec => []KeptReadable
<1>1. CaptureInv => KeptReadable
  BY DEF CaptureInv, LogInv
<1> QED BY <1>1, CaptureInvariant, PTL

\* The log has no holes, whatever was rotated, lost or recovered (sequence_tracker.hpp,
\* wal_writer.cpp).
THEOREM LogHasNoHoles == CaptureSpec => []RecordsContiguous
<1>1. CaptureInv => RecordsContiguous
  BY DEF CaptureInv, LogInv
<1> QED BY <1>1, CaptureInvariant, PTL

\* Only closed segments are compressed, and a copy stays what its segment is, through rotation,
\* crash and recovery; only one that was there when the power failed, and that nobody had
\* flushed, may be empty (wal_writer.cpp: compress_closed_segment).
THEOREM CopiesAreFaithful == CaptureSpec => []ZstFaithful
<1>1. CaptureInv => ZstFaithful
  <2> SUFFICES ASSUME CaptureInv, NEW i \in 1 .. Len(disk), disk[i].zst.present
               PROVE  disk[i].sealed /\ (disk[i].zst.data = disk[i].data \/ disk[i].zst.exposed)
    BY DEF ZstFaithful
  <2>1. CaptureTypeOK /\ DiskInv /\ last \in Nat /\ i \in 1 .. last /\ disk # <<>>
    BY TypedFacts DEF CaptureInv, last
  <2>2. CASE i = last
    BY <2>1, <2>2, CurrentKind DEF current, Closed, Unsealed
  <2>3. CASE i # last
    <3>1. i \in 1 .. last - 1
      BY <2>1, <2>3
    <3> QED BY <2>1, <3>1 DEF DiskInv, Closed
  <2> QED BY <2>2, <2>3
<1> QED BY <1>1, CaptureInvariant, PTL

\* The tailer delivers exactly the log, from where it was started, although it takes frames
\* from the file before it reads the sidecar, and the recorder goes on in between; unless it
\* read the sidecar while a recovery had it empty and had cut what the tailer took to be there
\* (wal_tailer.hpp: next, fill_from_current_segment; wal_reader.cpp: open, resolve_boundary).
THEOREM TailerFollows == CaptureSpec => []TailerExact
<1>1. CaptureInv => TailerExact
  BY DEF CaptureInv, TailInv
<1> QED BY <1>1, CaptureInvariant, PTL

\* A tailer that reports corruption reads a log that lost its power, or was overtaken between
\* the read of a frame and that of the sidecar in one of the two ways torn and dropped record.
THEOREM CorruptionIsReal == CaptureSpec => []CorruptOnlyWhenOvertaken
<1>1. CaptureInv => CorruptOnlyWhenOvertaken
  BY DEF CaptureInv, TailInv
<1> QED BY <1>1, CaptureInvariant, PTL

-----------------------------------------------------------------------------
(* Replay. *)

Polled == [events : Seq(Frame), error : {"none", "segment_open_failed", "order_regression", "corrupt_frame"}]
NothingPolled == [events |-> <<>>, error |-> "none"]

LEMMA PollTyped ==
  ASSUME NEW a \in Polled, NEW seg \in Segment
  PROVE  poll(a, seg) \in Polled
<1> DEFINE j == a.events \o ReadAll(seg).records
           back == {i \in 2 .. Len(j) : event_order_regression(j[i-1], j[i])}
<1>1. a.events \in Seq(Frame) /\ ReadAll(seg).records \in Seq(Frame)
  BY ReadableFacts DEF Polled
<1>2. j \in Seq(Frame) /\ Len(j) \in Nat
  BY <1>1, ConcatProperties, LenProperties
<1>3. CASE a.error # "none" \/ ~open_ok(seg)
  BY <1>3 DEF poll, Polled
<1>4. CASE a.error = "none" /\ open_ok(seg) /\ back # {}
  <2>1. Min(back) \in back /\ Min(back) \in 2 .. Len(j)
    <3>1. back \in SUBSET Nat /\ back \subseteq 2 .. Len(j)
      <4> HIDE DEF j
      <4> QED BY <1>2
    <3> HIDE DEF back, j
    <3> QED BY <3>1, <1>4, MinOf
  <2> DEFINE m == Min(back) - 1
             t == SubSeq(j, 1, m)
  <2>2. m \in 1 .. Len(j)
    <3> HIDE DEF back, j
    <3> QED BY <2>1, <1>2
  <2>3. t \in Seq(Frame)
    <3> HIDE DEF m, j
    <3> QED BY <2>2, <1>2, SubSeqProperties
  <2>4. poll(a, seg) = [a EXCEPT !.events = t, !.error = "order_regression"]
    BY <1>4 DEF poll
  <2> HIDE DEF t
  <2> QED BY <2>3, <2>4 DEF Polled
<1>5. CASE a.error = "none" /\ open_ok(seg) /\ back = {}
  <2>1. poll(a, seg) = [a EXCEPT !.events = j, !.error = IF ReadAll(seg).clean THEN "none" ELSE "corrupt_frame"]
    BY <1>5 DEF poll
  <2> HIDE DEF j
  <2> QED BY <2>1, <1>2 DEF Polled
<1> QED BY <1>3, <1>4, <1>5

\* A replay is the fold of poll over the segments.
LEMMA PolledSteps ==
  ASSUME NEW d \in Seq(Segment)
  PROVE  \E f \in [0 .. Len(d) -> Polled] :
           /\ f[0] = NothingPolled
           /\ \A k \in 1 .. Len(d) : f[k] = poll(f[k-1], d[k])
           /\ replay(d) = f[Len(d)]
<1> DEFINE n == Len(d)
           P(g) == g = [k \in 0 .. n |-> IF k = 0 THEN [events |-> <<>>, error |-> "none"] ELSE poll(g[k-1], d[k])]
           c == CHOOSE g : P(g)
           step == [k \in Nat |-> [a \in Polled |-> IF k \in 1 .. n THEN poll(a, d[k]) ELSE a]]
<1>1. n \in Nat /\ NothingPolled \in Polled /\ \A k \in 1 .. n : d[k] \in Segment
  BY ElementOfSeq, EmptySeq, LenProperties DEF NothingPolled, Polled
<1>2. step \in [Nat -> [Polled -> Polled]]
  <2>1. \A k \in 1 .. n : \A a \in Polled : poll(a, d[k]) \in Polled
    BY <1>1, PollTyped
  <2> QED BY <2>1
<1>3. PICK g \in [0 .. n -> Polled] : Steps(g, n, NothingPolled, step)
  <2> HIDE DEF step, n
  <2> QED BY <1>1, <1>2, StepsExist
<1>4. \A k \in 1 .. n : g[k] = poll(g[k-1], d[k]) /\ k - 1 \in 0 .. n
  <2> SUFFICES ASSUME NEW k \in 1 .. n PROVE g[k] = poll(g[k-1], d[k]) /\ k - 1 \in 0 .. n
    OBVIOUS
  <2>1. k \in 0 .. n /\ k # 0 /\ k \in Nat /\ k - 1 \in 0 .. n
    BY <1>1
  <2>2. g[k] = step[k][g[k-1]]
    <3> HIDE DEF step
    <3> QED BY <1>3, <2>1 DEF Steps
  <2>3. g[k-1] \in Polled
    BY <1>3, <2>1
  <2> QED BY <2>1, <2>2, <2>3
<1>5. g[0] = NothingPolled
  <2> HIDE DEF step
  <2> QED BY <1>3, <1>1 DEF Steps
<1>6. P(g)
  <2> DEFINE h == [k \in 0 .. n |-> IF k = 0 THEN [events |-> <<>>, error |-> "none"] ELSE poll(g[k-1], d[k])]
  <2>1. ASSUME NEW k \in 0 .. n PROVE g[k] = h[k]
    <3>1. CASE k = 0
      BY <3>1, <1>5 DEF NothingPolled
    <3>2. CASE k # 0
      <4>1. k \in 1 .. n
        BY <3>2, <1>1
      <4> QED BY <4>1, <3>2, <1>4
    <3> QED BY <3>1, <3>2
  <2> QED BY <2>1
<1>7. P(c)
  <2> HIDE DEF P
  <2> QED BY <1>6
<1>8. replay(d) = c[n]
  BY DEF replay
<1> HIDE DEF c
<1> DEFINE B == {k \in 0 .. n : c[k] = g[k]}
<1>9. 0 .. n \subseteq B
  <2>1. 0 \in B
    BY <1>1, <1>5, <1>7 DEF NothingPolled
  <2>2. \A k \in 0 .. n : k < n /\ k \in B => k + 1 \in B
    <3> SUFFICES ASSUME NEW k \in 0 .. n, k < n, c[k] = g[k] PROVE k + 1 \in B
      OBVIOUS
    <3>1. k + 1 \in 1 .. n /\ k + 1 \in 0 .. n /\ (k + 1) - 1 = k /\ k + 1 # 0
      BY <1>1
    <3>2. c[k+1] = poll(c[k], d[k+1])
      BY <3>1, <1>7
    <3> QED BY <3>1, <3>2, <1>4
  <2> HIDE DEF B
  <2> QED BY <2>1, <2>2, <1>1, InductUpTo
<1>10. c[n] = g[n]
  <2>1. n \in B
    BY <1>1, <1>9
  <2> QED BY <2>1
<1> QED BY <1>4, <1>5, <1>8, <1>10

\* The first segments' records begin the log.
LEMMA RecordedPrefix ==
  ASSUME NEW d \in Seq(Segment)
  PROVE  \A k \in 0 .. Len(d) :
           LET r == Recorded(SubSeq(d, 1, k))
           IN  /\ r \in Seq(Frame) /\ Len(r) \in Nat /\ Len(r) <= Len(Recorded(d))
               /\ \A j \in 1 .. Len(r) : r[j] = Recorded(d)[j]
<1> DEFINE R(k) == Recorded(SubSeq(d, 1, k))
           g == Recorded(d)
           B == {k \in 0 .. Len(d) : Len(R(k)) <= Len(g) /\ \A j \in 1 .. Len(R(k)) : R(k)[j] = g[j]}
<1>1. Len(d) \in Nat /\ g \in Seq(Frame) /\ Len(g) \in Nat
  BY RecordedTyped, LenProperties
<1>2. \A k \in 0 .. Len(d) : R(k) \in Seq(Frame) /\ Len(R(k)) \in Nat
  BY RecordedFirst, RecordedTyped
<1>3. 0 \in B
  <2>1. R(0) = <<>>
    <3>1. SubSeq(d, 1, 0) = <<>>
      BY EmptySeq
    <3> QED BY <3>1, RecordedNone
  <2>2. Len(R(0)) = 0
    BY <2>1
  <2> HIDE DEF R, g
  <2> QED BY <1>1, <2>2
<1>4. \A k \in 0 .. Len(d) : k < Len(d) /\ k \in B => k + 1 \in B
  <2> SUFFICES ASSUME NEW k \in 0 .. Len(d), k < Len(d), k \in B PROVE k + 1 \in B
    OBVIOUS
  <2> DEFINE s == Readable(d[k+1])
  <2>1. k + 1 \in 0 .. Len(d) /\ k + 1 \in 1 .. Len(d) /\ (k + 1) - 1 = k
    BY <1>1
  <2>2. R(k+1) = R(k) \o s
    BY RecordedFirst
  <2>3. Len(s) \in Nat /\ Len(R(k)) + Len(s) <= Len(g) /\ \A j \in 1 .. Len(s) : g[Len(R(k))+j] = s[j]
    <3> DEFINE c == k + 1
    <3>1. c \in 1 .. Len(d) /\ c - 1 = k
      BY <2>1
    <3> HIDE DEF c
    <3>2. /\ Len(Readable(d[c])) \in Nat
          /\ Len(Recorded(SubSeq(d, 1, c - 1))) + Len(Readable(d[c])) <= Len(Recorded(d))
          /\ \A j \in 1 .. Len(Readable(d[c])) :
               Recorded(d)[Len(Recorded(SubSeq(d, 1, c - 1)))+j] = Readable(d[c])[j]
      BY <3>1, RecordedWithin
    <3> QED BY <3>1, <3>2 DEF c
  <2>4. s \in Seq(Frame)
    BY <2>1, ElementOfSeq, ReadableFacts
  <2>5. \A j \in 1 .. Len(R(k)) : R(k)[j] = g[j]
    OBVIOUS
  <2>6. R(k) \in Seq(Frame) /\ Len(R(k)) \in Nat
    BY <1>2
  <2> HIDE DEF R, g, s
  <2>7. Len(R(k+1)) = Len(R(k)) + Len(s)
        /\ \A j \in 1 .. Len(R(k)) + Len(s) : R(k+1)[j] = IF j <= Len(R(k)) THEN R(k)[j] ELSE s[j - Len(R(k))]
    BY <2>2, <2>4, <2>6, ConcatProperties
  <2>8. \A j \in 1 .. Len(R(k+1)) : R(k+1)[j] = g[j]
    <3> SUFFICES ASSUME NEW j \in 1 .. Len(R(k)) + Len(s) PROVE R(k+1)[j] = g[j]
      BY <2>7
    <3>1. CASE j <= Len(R(k))
      BY <3>1, <2>5, <2>6, <2>7
    <3>2. CASE ~(j <= Len(R(k)))
      <4>1. j - Len(R(k)) \in 1 .. Len(s) /\ Len(R(k)) + (j - Len(R(k))) = j
        BY <3>2, <2>3, <2>6
      <4> QED BY <4>1, <3>2, <2>3, <2>7
    <3> QED BY <3>1, <3>2
  <2> QED BY <2>1, <2>3, <2>7, <2>8
<1>5. 0 .. Len(d) \subseteq B
  <2> HIDE DEF B
  <2> QED BY <1>1, <1>3, <1>4, InductUpTo
<1> QED BY <1>2, <1>5

\* A replay without error gives the whole log; where the times rise and every segment can be
\* opened and ends cleanly, there is none.
LEMMA ReplayFacts ==
  ASSUME NEW d \in Seq(Segment)
  PROVE  /\ replay(d).error = "none" => replay(d).events = Recorded(d)
         /\ /\ \A i \in 1 .. Len(d) : open_ok(d[i]) /\ ReadAll(d[i]).clean
            /\ \A k \in 1 .. Len(Recorded(d)) - 1 : Recorded(d)[k].ts < Recorded(d)[k+1].ts
            => replay(d).error = "none"
<1> DEFINE n == Len(d)
           g == Recorded(d)
           R(k) == Recorded(SubSeq(d, 1, k))
           Fine == /\ \A i \in 1 .. Len(d) : open_ok(d[i]) /\ ReadAll(d[i]).clean
                   /\ \A k \in 1 .. Len(g) - 1 : g[k].ts < g[k+1].ts
<1>1. PICK f \in [0 .. n -> Polled] :
        f[0] = NothingPolled /\ (\A k \in 1 .. n : f[k] = poll(f[k-1], d[k])) /\ replay(d) = f[n]
  BY PolledSteps
<1> DEFINE B == {k \in 0 .. n : (f[k].error = "none" => f[k].events = R(k)) /\ (Fine => f[k].error = "none")}
<1>2. n \in Nat /\ g \in Seq(Frame) /\ Len(g) \in Nat /\ \A i \in 1 .. n : d[i] \in Segment
  BY RecordedTyped, LenProperties, ElementOfSeq
<1>3. \A i \in 1 .. Len(g) : g[i] \in Frame /\ g[i].ts \in Nat
  <2>1. \A i \in 1 .. Len(g) : g[i] \in Frame
    BY <1>2, ElementOfSeq
  <2>2. \A x \in Frame : x.ts \in Nat
    BY DEF Frame
  <2> QED BY <2>1, <2>2
<1>4. 0 \in B
  <2>1. R(0) = <<>>
    BY EmptySeq, RecordedNone
  <2> HIDE DEF R, Fine
  <2> QED BY <2>1, <1>1, <1>2 DEF NothingPolled
<1>5. \A k \in 0 .. n : k < n /\ k \in B => k + 1 \in B
  <2> SUFFICES ASSUME NEW k \in 0 .. n, k < n, k \in B PROVE k + 1 \in B
    OBVIOUS
  <2> DEFINE s == d[k+1]
             a == f[k]
             j == a.events \o ReadAll(s).records
             back == {i \in 2 .. Len(j) : event_order_regression(j[i-1], j[i])}
  <2>1. k + 1 \in 0 .. n /\ k + 1 \in 1 .. n /\ (k + 1) - 1 = k
    BY <1>2
  <2>2. f[k+1] = poll(a, s) /\ a \in Polled /\ s \in Segment
    BY <1>1, <1>2, <2>1
  <2>3. R(k+1) = R(k) \o Readable(s)
    BY RecordedFirst
  <2>4. /\ R(k+1) \in Seq(Frame) /\ Len(R(k+1)) \in Nat /\ Len(R(k+1)) <= Len(g)
        /\ \A i \in 1 .. Len(R(k+1)) : R(k+1)[i] = g[i]
    BY <2>1, RecordedPrefix
  <2>5. (a.error = "none" => a.events = R(k)) /\ (Fine => a.error = "none")
    OBVIOUS
  <2> HIDE DEF R, Fine
  <2>6. CASE a.error # "none" \/ ~open_ok(s)
    <3>1. poll(a, s).error # "none"
      BY <2>2, <2>6 DEF poll, Polled
    <3>2. ~Fine
      BY <2>1, <2>5, <2>6 DEF Fine
    <3> QED BY <3>1, <3>2, <2>1, <2>2
  <2>7. CASE a.error = "none" /\ open_ok(s)
    <3>1. j = R(k+1)
      <4>1. ReadAll(s).records = Readable(s)
        BY <2>2, <2>7, ReadableFacts DEF open_ok
      <4> QED BY <4>1, <2>3, <2>5, <2>7
    <3>2. CASE back # {}
      <4>1. poll(a, s).error # "none"
        <5>1. poll(a, s) = [a EXCEPT !.events = SubSeq(j, 1, Min(back) - 1), !.error = "order_regression"]
          BY <2>7, <3>2 DEF poll
        <5> HIDE DEF j, back
        <5> QED BY <5>1, <2>2 DEF Polled
      <4>2. ~Fine
        <5> SUFFICES ASSUME Fine, NEW i \in 2 .. Len(j), event_order_regression(j[i-1], j[i]) PROVE FALSE
          BY <3>2
        <5>1. Len(j) = Len(R(k+1))
          BY <3>1
        <5>2. i - 1 \in 1 .. Len(g) - 1 /\ i \in 1 .. Len(g) /\ i - 1 \in 1 .. Len(g) /\ (i - 1) + 1 = i
              /\ i - 1 \in 1 .. Len(R(k+1)) /\ i \in 1 .. Len(R(k+1))
          BY <1>2, <2>4, <5>1
        <5>3. j[i-1] = g[i-1] /\ j[i] = g[i]
          BY <2>4, <3>1, <5>2
        <5> HIDE DEF j, g
        <5>4. g[i-1].ts < g[i].ts
          BY <5>2 DEF Fine
        <5>5. g[i-1].ts \in Nat /\ g[i].ts \in Nat
          BY <5>2, <1>3
        <5> QED BY <5>3, <5>4, <5>5 DEF event_order_regression
      <4> QED BY <4>1, <4>2, <2>1, <2>2
    <3>3. CASE back = {}
      <4>1. poll(a, s) = [a EXCEPT !.events = j, !.error = IF ReadAll(s).clean THEN "none" ELSE "corrupt_frame"]
        BY <2>7, <3>3 DEF poll
      <4>2. Fine => ReadAll(s).clean
        BY <2>1 DEF Fine
      <4> HIDE DEF j
      <4>3. poll(a, s).events = j /\ (poll(a, s).error = "none" <=> ReadAll(s).clean)
        BY <4>1, <2>2 DEF Polled
      <4> QED BY <4>2, <4>3, <3>1, <2>1, <2>2
    <3> QED BY <3>2, <3>3
  <2> QED BY <2>6, <2>7
<1>6. 0 .. n \subseteq B
  <2> HIDE DEF B
  <2> QED BY <1>2, <1>4, <1>5, InductUpTo
<1>7. n \in B
  BY <1>2, <1>6
<1>8. SubSeq(d, 1, n) = d
  BY SubSeqFull
<1> QED BY <1>1, <1>7, <1>8

\* What a stopped capture leaves behind is replayed without loss, and without error unless the
\* power failed or a segment was never finished (replay_engine.cpp, replay_adapter.cpp).
THEOREM ReplayIsFaithful == CaptureSpec => []ReplayFaithful
<1>1. CaptureInv => ReplayFaithful
  <2> SUFFICES ASSUME CaptureInv PROVE ReplayFaithful
    OBVIOUS
  <2>1. /\ CaptureTypeOK /\ DiskInv /\ KeptReadable /\ TimeInv
        /\ disk \in Seq(Segment) /\ last = Len(disk)
    BY TypedFacts DEF CaptureInv, LogInv, last
  <2> DEFINE a == replay(disk)
             r == run(disk)
  <2>2. r.ok = (a.error = "none") /\ (a.error = "none" => r.digest = a.events)
    BY DEF run
  <2>3. CASE a.error = "none"
    BY <2>1, <2>2, <2>3, ReplayFacts DEF ReplayFaithful, KeptReadable
  <2>4. CASE a.error # "none"
    <3> SUFFICES ASSUME ~rec.lost_power, \A i \in 1 .. Len(disk) : open_ok(disk[i]) PROVE FALSE
      BY <2>2, <2>4 DEF ReplayFaithful
    <3>1. \A i \in 1 .. Len(disk) : ReadAll(disk[i]).clean
      BY <2>1, CleanUnlessPower DEF open_ok
    <3>2. \A k \in 1 .. Len(Recorded(disk)) - 1 : Recorded(disk)[k].ts < Recorded(disk)[k+1].ts
      BY <2>1 DEF TimeInv, Log
    <3> QED BY <2>1, <2>4, <3>1, <3>2, ReplayFacts
  <2> QED BY <2>3, <2>4
<1> QED BY <1>1, CaptureInvariant, PTL
=============================================================================
