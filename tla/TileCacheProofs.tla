-------------------------- MODULE TileCacheProofs --------------------------
(***************************************************************************)
(* Theorems of TileCache for every cache, every set of keys and sizes, and *)
(* every clock.  The searches and the loop of ts_cache_update are          *)
(* recursive functions: what they compute is shown by induction on the     *)
(* length of the range or of the sequence, in the form of a smallest       *)
(* counterexample.                                                         *)
(***************************************************************************)
EXTENDS TileCache, SequenceTheorems, WellFoundedInduction, TLAPS

-----------------------------------------------------------------------------
(* Induction.  The library's induction theorems take an operator; that < on *)
(* the naturals is well-founded can be cited without one.                  *)
Less == {p \in Nat \X Nat : p[1] < p[2]}

LEMMA LessWellFounded == IsWellFoundedOn(Less, Nat)
<1>1. OpToRel(<, Nat) = Less
  BY DEF OpToRel, Less
<1>. QED  BY <1>1, NatLessThanWellFounded

(* A set of naturals that holds 0 and every successor holds them all. *)
LEMMA Induction ==
  ASSUME NEW S \in SUBSET Nat, 0 \in S, \A n \in S : n + 1 \in S
  PROVE  S = Nat
<1>. SUFFICES ASSUME Nat \ S # {} PROVE FALSE
  OBVIOUS
<1>1. PICK x \in Nat \ S : \A y \in Nat \ S : <<y, x>> \notin Less
  BY LessWellFounded, WFMin
<1>2. x - 1 \in Nat
  OBVIOUS
<1>3. <<x - 1, x>> \in Less
  BY <1>2 DEF Less
<1>4. x - 1 \in S
  BY <1>1, <1>2, <1>3
<1>. QED  BY <1>4

(* A function on 0..N that is given by its value at 0 and by a step. *)
Stepping(N, V, v, step) ==
  N \in Nat /\ v \in V /\ step \in [1..N -> [V -> V]]

LEMMA Iterates ==
  ASSUME NEW N, NEW V, NEW v, NEW step, Stepping(N, V, v, step)
  PROVE  \E f \in [0..N -> V] :
           f = [n \in 0..N |-> IF n = 0 THEN v ELSE step[n][f[n - 1]]]
<1>. USE DEF Stepping
<1>. DEFINE Upto(n) ==
       \E f \in [0..N -> V] :
         \A i \in 0..N : i <= n => f[i] = IF i = 0 THEN v ELSE step[i][f[i - 1]]
<1>. DEFINE S == {n \in Nat : Upto(n)}
<1>1. 0 \in S
  <2>. DEFINE f == [i \in 0..N |-> v]
  <2>1. f \in [0..N -> V]
    OBVIOUS
  <2>2. \A i \in 0..N : i <= 0 => f[i] = IF i = 0 THEN v ELSE step[i][f[i - 1]]
    OBVIOUS
  <2>. HIDE DEF f
  <2>. QED  BY <2>1, <2>2
<1>2. ASSUME NEW n \in S PROVE n + 1 \in S
  <2>1. PICK f \in [0..N -> V] :
          \A i \in 0..N : i <= n => f[i] = IF i = 0 THEN v ELSE step[i][f[i - 1]]
    OBVIOUS
  <2>. DEFINE g == [i \in 0..N |-> IF i <= n THEN f[i] ELSE step[i][f[i - 1]]]
  <2>2. g \in [0..N -> V]
    <3>1. ASSUME NEW i \in 0..N, ~(i <= n) PROVE step[i][f[i - 1]] \in V
      <4>1. i \in 1..N /\ i - 1 \in 0..N
        BY <3>1
      <4>. QED  BY <4>1
    <3>. QED  BY <3>1
  <2>3. ASSUME NEW i \in 0..N, i <= n + 1
        PROVE  g[i] = IF i = 0 THEN v ELSE step[i][g[i - 1]]
    <3>1. i # 0 => i - 1 \in 0..N /\ i - 1 <= n
      BY <2>3
    <3>2. i # 0 => g[i - 1] = f[i - 1]
      BY <3>1
    <3>3. g[i] = IF i <= n THEN f[i] ELSE step[i][f[i - 1]]
      OBVIOUS
    <3>. QED  BY <2>1, <3>1, <3>2, <3>3
  <2>4. Upto(n + 1)
    BY <2>2, <2>3
  <2>. QED  BY <2>4
<1>3. Upto(N)
  <2>. HIDE DEF Upto
  <2>1. S = Nat
    BY <1>1, <1>2, Induction
  <2>. QED  BY <2>1
<1>4. PICK f \in [0..N -> V] :
        \A i \in 0..N : i <= N => f[i] = IF i = 0 THEN v ELSE step[i][f[i - 1]]
  BY <1>3
<1>5. f = [n \in 0..N |-> IF n = 0 THEN v ELSE step[n][f[n - 1]]]
  BY <1>4
<1>. QED  BY <1>5

(* A function on ranges that stops with a value, or goes on with a smaller *)
(* range: the loops of both searches.                                      *)
Narrowing(s, Stop, stop, next) ==
  /\ stop \in [Ranges(s) -> Nat] /\ next \in [Ranges(s) -> Ranges(s)]
  /\ \A r \in Ranges(s) : r \notin Stop =>
       r[1] < r[2] /\ next[r][2] - next[r][1] < r[2] - r[1]

LEMMA Narrows ==
  ASSUME NEW s, Len(s) \in Nat, NEW Stop, NEW stop, NEW next,
         Narrowing(s, Stop, stop, next)
  PROVE  \E f \in [Ranges(s) -> Nat] :
           f = [r \in Ranges(s) |-> IF r \in Stop THEN stop[r] ELSE f[next[r]]]
<1>. DEFINE N == Len(s)
            D == Ranges(s)
            V == Nat
<1>. USE DEF Narrowing
<1>. DEFINE Upto(n) ==
       \E f \in [D -> V] :
         \A r \in D : r[2] - r[1] <= n =>
           f[r] = IF r \in Stop THEN stop[r] ELSE f[next[r]]
<1>. DEFINE S == {n \in Nat : Upto(n)}
<1>0. \A r \in D : r[1] \in 0..N /\ r[2] \in 0..N /\ next[r] \in D
  BY DEF Ranges
<1>1. 0 \in S
  <2>1. stop \in [D -> V] /\ \A r \in D : r[2] - r[1] <= 0 => r \in Stop
    BY <1>0
  <2>. QED  BY <2>1
<1>2. ASSUME NEW n \in S PROVE n + 1 \in S
  <2>1. PICK f \in [D -> V] :
          \A r \in D : r[2] - r[1] <= n =>
            f[r] = IF r \in Stop THEN stop[r] ELSE f[next[r]]
    OBVIOUS
  <2>. DEFINE g == [r \in D |->
                     IF r[2] - r[1] <= n THEN f[r]
                     ELSE IF r \in Stop THEN stop[r] ELSE f[next[r]]]
  <2>2. g \in [D -> V]
    BY <1>0
  <2>3. ASSUME NEW r \in D, r[2] - r[1] <= n + 1
        PROVE  g[r] = IF r \in Stop THEN stop[r] ELSE g[next[r]]
    <3>1. g[r] = IF r[2] - r[1] <= n THEN f[r]
                 ELSE IF r \in Stop THEN stop[r] ELSE f[next[r]]
      OBVIOUS
    <3>2. g[r] = IF r \in Stop THEN stop[r] ELSE f[next[r]]
      BY <2>1, <3>1
    <3>3. ASSUME r \notin Stop
          PROVE  next[r] \in D /\ next[r][2] - next[r][1] <= n
      <4>1. r[1] \in Int /\ r[2] \in Int /\ next[r] \in D
        BY <1>0
      <4>2. next[r][1] \in Int /\ next[r][2] \in Int
        BY <1>0, <4>1
      <4>3. next[r][2] - next[r][1] < r[2] - r[1]
        BY <3>3
      <4>. QED  BY SMTT(30), <2>3, <4>1, <4>2, <4>3
    <3>4. r \notin Stop => g[next[r]] = f[next[r]]
      BY <3>3
    <3>. QED  BY <3>2, <3>4
  <2>. HIDE DEF g
  <2>4. Upto(n + 1)
    BY <2>2, <2>3
  <2>. HIDE DEF Upto
  <2>. QED  BY <2>4
<1>3. Upto(N)
  <2>. HIDE DEF Upto
  <2>1. S = Nat
    BY <1>1, <1>2, Induction
  <2>. QED  BY <2>1
<1>4. PICK f \in [D -> V] :
        \A r \in D : r[2] - r[1] <= N =>
          f[r] = IF r \in Stop THEN stop[r] ELSE f[next[r]]
  BY <1>3
<1>5. \A r \in D : f[r] = IF r \in Stop THEN stop[r] ELSE f[next[r]]
  BY <1>0, <1>4
<1>6. f = [r \in D |-> IF r \in Stop THEN stop[r] ELSE f[next[r]]]
  BY <1>5
<1>. QED  BY <1>6

-----------------------------------------------------------------------------
(* The searches. *)
Sorted(s) == \A i, j \in DOMAIN s : i < j => s[i].key < s[j].key

Keyed == [key : Keys, user : Buffers, size : Nat,
          last_access : 0..Modulus - 1, freq : 0..MaxFreq]

LEMMA KeyedType ==
  ASSUME NEW s \in Seq(Keyed)
  PROVE  /\ Len(s) \in Nat /\ DOMAIN s = 1..Len(s)
         /\ \A i \in DOMAIN s : s[i] \in Keyed
         /\ \A i \in DOMAIN s : /\ s[i].key \in Keys /\ s[i].key \in Nat
                               /\ s[i].user \in Buffers /\ s[i].size \in Nat
                               /\ s[i].last_access \in 0..Modulus - 1
                               /\ s[i].freq \in 0..MaxFreq
<1>1. Len(s) \in Nat /\ DOMAIN s = 1..Len(s) /\ \A i \in DOMAIN s : s[i] \in Keyed
  OBVIOUS
<1>. QED  BY <1>1, CacheAssumption DEF Keyed

LEMMA Halves ==
  ASSUME NEW s, Len(s) \in Nat, NEW r \in Ranges(s), r[1] < r[2]
  PROVE  /\ r[1] \in 0..Len(s) /\ r[2] \in 0..Len(s) /\ r = <<r[1], r[2]>>
         /\ Middle(r) \in 1..Len(s) /\ r[1] < Middle(r) /\ Middle(r) <= r[2]
         /\ Lower(r) \in Ranges(s) /\ Lower(r)[1] = r[1] /\ Lower(r)[2] = Middle(r) - 1
         /\ Upper(r) \in Ranges(s) /\ Upper(r)[1] = Middle(r) /\ Upper(r)[2] = r[2]
<1>1. /\ r[1] \in 0..Len(s) /\ r[2] \in 0..Len(s) /\ r = <<r[1], r[2]>>
      /\ Middle(r) \in 1..Len(s) /\ r[1] < Middle(r) /\ Middle(r) <= r[2]
  BY DEF Ranges, Middle
<1>. QED  BY <1>1 DEF Lower, Upper, Ranges

(* What a function on the ranges has, it has by induction on their length. *)
LEMMA ByLength ==
  ASSUME NEW s, Len(s) \in Nat, NEW Good \in SUBSET Ranges(s),
         \A r \in Ranges(s) : r[1] >= r[2] => r \in Good,
         \A r \in Ranges(s) :
           r[1] < r[2] /\ Lower(r) \in Good /\ Upper(r) \in Good => r \in Good
  PROVE  Good = Ranges(s)
<1>. DEFINE S == {n \in Nat : \A r \in Ranges(s) : r[2] - r[1] <= n => r \in Good}
<1>0. \A r \in Ranges(s) : r[1] \in 0..Len(s) /\ r[2] \in 0..Len(s)
  BY DEF Ranges
<1>1. 0 \in S
  BY <1>0
<1>2. ASSUME NEW n \in S PROVE n + 1 \in S
  <2>1. ASSUME NEW r \in Ranges(s), r[2] - r[1] <= n + 1 PROVE r \in Good
    <3>1. CASE r[1] >= r[2]
      BY <3>1
    <3>2. CASE r[1] < r[2]
      <4>1. /\ Lower(r) \in Ranges(s) /\ Lower(r)[2] - Lower(r)[1] <= n
            /\ Upper(r) \in Ranges(s) /\ Upper(r)[2] - Upper(r)[1] <= n
        BY <1>0, <2>1, <3>2, Halves
      <4>. QED  BY <3>2, <4>1
    <3>. QED  BY <1>0, <3>1, <3>2
  <2>. QED  BY <2>1
<1>3. S = Nat
  <2>1. S \in SUBSET Nat
    OBVIOUS
  <2>. HIDE DEF S
  <2>. QED  BY <1>1, <1>2, <2>1, Induction
<1>4. \A r \in Ranges(s) : r \in Good
  <2>. SUFFICES ASSUME NEW r \in Ranges(s) PROVE r \in Good
    OBVIOUS
  <2>1. Len(s) \in S
    BY <1>3
  <2>. QED  BY <1>0, <2>1
<1>. QED  BY <1>4

(* The function that BinarySearch(s, key) takes its value from. *)
Searches(s, key, f) ==
  f = [r \in Ranges(s) |->
        IF r[1] >= r[2] THEN 0
        ELSE IF s[Middle(r)].key < key THEN f[Upper(r)]
        ELSE IF s[Middle(r)].key > key THEN f[Lower(r)]
        ELSE Middle(r)]

LEMMA SearchDefined ==
  ASSUME NEW s, Len(s) \in Nat, NEW key
  PROVE  \E f : Searches(s, key, f) /\ BinarySearch(s, key) = f[<<0, Len(s)>>]
<1>. DEFINE D == Ranges(s)
            left(r)  == s[Middle(r)].key < key
            right(r) == s[Middle(r)].key > key
            Stop == {r \in D : r[1] >= r[2] \/ (~left(r) /\ ~right(r))}
            stop == [r \in D |-> IF r[1] >= r[2] THEN 0 ELSE Middle(r)]
            next == [r \in D |-> IF r[1] >= r[2] THEN r
                                 ELSE IF left(r) THEN Upper(r) ELSE Lower(r)]
<1>1. stop \in [D -> Nat] /\ next \in [D -> D]
  <2>1. ASSUME NEW r \in D, ~(r[1] >= r[2])
        PROVE  Middle(r) \in Nat /\ Lower(r) \in D /\ Upper(r) \in D
    <3>1. r[1] < r[2]
      BY <2>1 DEF Ranges
    <3>. QED  BY <3>1, Halves
  <2>. QED  BY <2>1
<1>2. ASSUME NEW r \in D, r \notin Stop
      PROVE  r[1] < r[2] /\ next[r][2] - next[r][1] < r[2] - r[1]
  <2>1. r[1] < r[2] /\ ~(r[1] >= r[2])
    BY <1>2 DEF Ranges
  <2>2. next[r] = Lower(r) \/ next[r] = Upper(r)
    BY <2>1
  <2>. HIDE DEF next
  <2>. QED  BY <2>1, <2>2, Halves
<1>3. PICK f \in [D -> Nat] :
        f = [r \in D |-> IF r \in Stop THEN stop[r] ELSE f[next[r]]]
  <2>. HIDE DEF Stop, stop, next
  <2>1. Narrowing(s, Stop, stop, next)
    BY <1>1, <1>2 DEF Narrowing
  <2>. QED  BY <2>1, Narrows
<1>4. \A r \in D : f[r] = IF r \in Stop THEN stop[r] ELSE f[next[r]]
  <2>. HIDE DEF Stop, stop, next
  <2>. QED  BY <1>3
<1>5. ASSUME NEW r \in D
      PROVE  f[r] = IF r[1] >= r[2] THEN 0
                    ELSE IF s[Middle(r)].key < key THEN f[Upper(r)]
                    ELSE IF s[Middle(r)].key > key THEN f[Lower(r)]
                    ELSE Middle(r)
  BY <1>4
<1>6. Searches(s, key, f)
  BY <1>3, <1>5 DEF Searches
<1>. DEFINE g == CHOOSE h : Searches(s, key, h)
<1>7. Searches(s, key, g)
  BY <1>6, Zenon
<1>8. BinarySearch(s, key) = g[<<0, Len(s)>>]
  BY Zenon DEF BinarySearch, Searches
<1>. QED  BY <1>7, <1>8, Zenon

(* binary_search finds a key exactly when a slot has it. *)
LEMMA SearchFinds ==
  ASSUME NEW s \in Seq(Keyed), Sorted(s), NEW key \in Keys
  PROVE  /\ BinarySearch(s, key) \in 0..Len(s)
         /\ BinarySearch(s, key) # 0 => s[BinarySearch(s, key)].key = key
         /\ BinarySearch(s, key) = 0 => \A j \in DOMAIN s : s[j].key # key
<1>1. /\ Len(s) \in Nat /\ DOMAIN s = 1..Len(s) /\ key \in Nat
      /\ \A i \in 1..Len(s) : s[i].key \in Nat
  BY KeyedType, CacheAssumption
<1>2. PICK f : Searches(s, key, f) /\ BinarySearch(s, key) = f[<<0, Len(s)>>]
  BY <1>1, SearchDefined
<1>. DEFINE Good == {r \in Ranges(s) :
       /\ f[r] \in 0..Len(s)
       /\ f[r] # 0 => s[f[r]].key = key
       /\ f[r] = 0 => \A j \in r[1] + 1..r[2] : s[j].key # key}
<1>3. \A r \in Ranges(s) : r[1] \in 0..Len(s) /\ r[2] \in 0..Len(s)
  BY DEF Ranges
<1>4. ASSUME NEW r \in Ranges(s), r[1] >= r[2] PROVE r \in Good
  <2>1. f[r] = 0
    BY <1>2, <1>4 DEF Searches
  <2>. QED  BY <1>1, <1>3, <1>4, <2>1
<1>5. ASSUME NEW r \in Ranges(s), r[1] < r[2], Lower(r) \in Good, Upper(r) \in Good
      PROVE  r \in Good
  <2>. DEFINE m == Middle(r)
  <2>1. m \in 1..Len(s) /\ r[1] < m /\ m <= r[2] /\ ~(r[1] >= r[2])
    BY <1>1, <1>3, <1>5, Halves
  <2>2. f[r] = IF s[m].key < key THEN f[Upper(r)]
               ELSE IF s[m].key > key THEN f[Lower(r)] ELSE m
    BY <1>2, <2>1 DEF Searches
  <2>3. /\ Lower(r)[1] = r[1] /\ Lower(r)[2] = m - 1
        /\ Upper(r)[1] = m /\ Upper(r)[2] = r[2]
    BY <1>1, <1>5, Halves
  <2>. HIDE DEF m
  <2>4. CASE s[m].key < key
    <3>1. \A j \in r[1] + 1..m : s[j].key # key
      <4>. SUFFICES ASSUME NEW j \in r[1] + 1..m PROVE s[j].key # key
        OBVIOUS
      <4>1. j \in 1..Len(s) /\ (j = m \/ j < m)
        BY <1>3, <2>1
      <4>2. s[j].key <= s[m].key
        BY <1>1, <2>1, <4>1 DEF Sorted
      <4>. QED  BY <1>1, <2>1, <2>4, <4>1, <4>2
    <3>2. \A j \in r[1] + 1..r[2] : j \in r[1] + 1..m \/ j \in m + 1..r[2]
      BY <1>3, <2>1
    <3>. QED  BY <1>5, <2>2, <2>3, <2>4, <3>1, <3>2
  <2>5. CASE s[m].key > key
    <3>1. \A j \in m..r[2] : s[j].key # key
      <4>. SUFFICES ASSUME NEW j \in m..r[2] PROVE s[j].key # key
        OBVIOUS
      <4>1. j \in 1..Len(s) /\ (j = m \/ m < j)
        BY <1>3, <2>1
      <4>2. s[m].key <= s[j].key
        BY <1>1, <2>1, <4>1 DEF Sorted
      <4>. QED  BY <1>1, <2>1, <2>5, <4>1, <4>2
    <3>2. \A j \in r[1] + 1..r[2] : j \in r[1] + 1..m - 1 \/ j \in m..r[2]
      BY <1>3, <2>1
    <3>3. ~(s[m].key < key)
      BY <1>1, <2>1, <2>5
    <3>. QED  BY <1>5, <2>2, <2>3, <2>5, <3>1, <3>2, <3>3
  <2>6. CASE ~(s[m].key < key) /\ ~(s[m].key > key)
    <3>1. f[r] = m /\ s[m].key = key
      BY <1>1, <2>1, <2>2, <2>6
    <3>. QED  BY <2>1, <3>1
  <2>. QED  BY <2>4, <2>5, <2>6
<1>6. Good = Ranges(s)
  <2>1. Good \in SUBSET Ranges(s)
    OBVIOUS
  <2>. HIDE DEF Good
  <2>. QED  BY <1>1, <1>4, <1>5, <2>1, ByLength
<1>7. <<0, Len(s)>> \in Good
  BY SMTT(30), <1>1, <1>6 DEF Ranges
<1>. QED  BY <1>1, <1>2, <1>7

(* The function that InsertionPoint(s, key) takes its value from. *)
Inserts(s, key, f) ==
  f = [r \in Ranges(s) |->
        IF r[1] >= r[2] THEN r[2]
        ELSE IF s[Middle(r)].key < key THEN f[Upper(r)] ELSE f[Lower(r)]]

LEMMA InsertDefined ==
  ASSUME NEW s, Len(s) \in Nat, NEW key
  PROVE  \E f : Inserts(s, key, f) /\ InsertionPoint(s, key) = f[<<0, Len(s)>>]
<1>. DEFINE D == Ranges(s)
            Stop == {r \in D : r[1] >= r[2]}
            stop == [r \in D |-> r[2]]
            next == [r \in D |-> IF r[1] >= r[2] THEN r
                                 ELSE IF s[Middle(r)].key < key THEN Upper(r)
                                 ELSE Lower(r)]
<1>1. stop \in [D -> Nat] /\ next \in [D -> D]
  <2>1. ASSUME NEW r \in D
        PROVE  r[2] \in Nat /\ (~(r[1] >= r[2]) => Lower(r) \in D /\ Upper(r) \in D)
    <3>1. r[1] \in Nat /\ r[2] \in Nat
      BY DEF Ranges
    <3>. QED  BY <3>1, Halves
  <2>. QED  BY <2>1
<1>2. ASSUME NEW r \in D, r \notin Stop
      PROVE  r[1] < r[2] /\ next[r][2] - next[r][1] < r[2] - r[1]
  <2>1. r[1] < r[2] /\ ~(r[1] >= r[2])
    BY <1>2 DEF Ranges
  <2>2. next[r] = Lower(r) \/ next[r] = Upper(r)
    BY <2>1
  <2>. HIDE DEF next
  <2>. QED  BY <2>1, <2>2, Halves
<1>3. PICK f \in [D -> Nat] :
        f = [r \in D |-> IF r \in Stop THEN stop[r] ELSE f[next[r]]]
  <2>. HIDE DEF Stop, stop, next
  <2>1. Narrowing(s, Stop, stop, next)
    BY <1>1, <1>2 DEF Narrowing
  <2>. QED  BY <2>1, Narrows
<1>4. \A r \in D : f[r] = IF r \in Stop THEN stop[r] ELSE f[next[r]]
  <2>. HIDE DEF Stop, stop, next
  <2>. QED  BY <1>3
<1>5. ASSUME NEW r \in D
      PROVE  f[r] = IF r[1] >= r[2] THEN r[2]
                    ELSE IF s[Middle(r)].key < key THEN f[Upper(r)] ELSE f[Lower(r)]
  BY <1>4
<1>6. Inserts(s, key, f)
  BY <1>3, <1>5 DEF Inserts
<1>. DEFINE g == CHOOSE h : Inserts(s, key, h)
<1>7. Inserts(s, key, g)
  BY <1>6, Zenon
<1>8. InsertionPoint(s, key) = g[<<0, Len(s)>>]
  BY Zenon DEF InsertionPoint, Inserts
<1>. QED  BY <1>7, <1>8, Zenon

(* insertion_point separates the smaller keys from the others. *)
LEMMA InsertSeparates ==
  ASSUME NEW s \in Seq(Keyed), Sorted(s), NEW key \in Keys
  PROVE  /\ InsertionPoint(s, key) \in 0..Len(s)
         /\ \A j \in 1..InsertionPoint(s, key) : s[j].key < key
         /\ \A j \in InsertionPoint(s, key) + 1..Len(s) : s[j].key >= key
<1>1. /\ Len(s) \in Nat /\ DOMAIN s = 1..Len(s) /\ key \in Nat
      /\ \A i \in 1..Len(s) : s[i].key \in Nat
  BY KeyedType, CacheAssumption
<1>2. PICK f : Inserts(s, key, f) /\ InsertionPoint(s, key) = f[<<0, Len(s)>>]
  BY <1>1, InsertDefined
<1>. DEFINE Good == {r \in Ranges(s) : r[1] <= r[2] =>
       /\ f[r] \in r[1]..r[2]
       /\ \A j \in r[1] + 1..f[r] : s[j].key < key
       /\ \A j \in f[r] + 1..r[2] : s[j].key >= key}
<1>3. \A r \in Ranges(s) : r[1] \in 0..Len(s) /\ r[2] \in 0..Len(s)
  BY DEF Ranges
<1>4. ASSUME NEW r \in Ranges(s), r[1] >= r[2] PROVE r \in Good
  <2>1. f[r] = r[2]
    BY <1>2, <1>4 DEF Inserts
  <2>. QED  BY <1>1, <1>3, <1>4, <2>1
<1>5. ASSUME NEW r \in Ranges(s), r[1] < r[2], Lower(r) \in Good, Upper(r) \in Good
      PROVE  r \in Good
  <2>. DEFINE m == Middle(r)
  <2>1. m \in 1..Len(s) /\ r[1] < m /\ m <= r[2] /\ ~(r[1] >= r[2])
    BY <1>1, <1>3, <1>5, Halves
  <2>2. f[r] = IF s[m].key < key THEN f[Upper(r)] ELSE f[Lower(r)]
    BY <1>2, <2>1 DEF Inserts
  <2>3. /\ Lower(r)[1] = r[1] /\ Lower(r)[2] = m - 1
        /\ Upper(r)[1] = m /\ Upper(r)[2] = r[2]
    BY <1>1, <1>5, Halves
  <2>. HIDE DEF m
  <2>4. CASE s[m].key < key
    <3>1. /\ f[r] \in m..r[2]
          /\ \A j \in m + 1..f[r] : s[j].key < key
          /\ \A j \in f[r] + 1..r[2] : s[j].key >= key
      BY <1>5, <2>1, <2>2, <2>3, <2>4
    <3>2. ASSUME NEW j \in r[1] + 1..f[r] PROVE s[j].key < key
      <4>1. CASE j <= m
        <5>1. j \in 1..Len(s) /\ (j = m \/ j < m)
          BY <1>3, <2>1, <4>1
        <5>2. s[j].key <= s[m].key
          BY SMTT(30), <1>1, <2>1, <5>1 DEF Sorted
        <5>. QED  BY <1>1, <2>1, <2>4, <5>1, <5>2
      <4>2. CASE ~(j <= m)
        BY <1>3, <2>1, <3>1, <4>2
      <4>. QED  BY <4>1, <4>2
    <3>. QED  BY <1>3, <2>1, <3>1, <3>2
  <2>5. CASE ~(s[m].key < key)
    <3>1. /\ f[r] \in r[1]..m - 1
          /\ \A j \in r[1] + 1..f[r] : s[j].key < key
          /\ \A j \in f[r] + 1..m - 1 : s[j].key >= key
      BY <1>3, <1>5, <2>1, <2>2, <2>3, <2>5
    <3>2. ASSUME NEW j \in f[r] + 1..r[2] PROVE s[j].key >= key
      <4>1. CASE j >= m
        <5>1. j \in 1..Len(s) /\ (j = m \/ m < j)
          BY <1>3, <2>1, <3>1, <4>1
        <5>2. s[m].key <= s[j].key
          BY <1>1, <2>1, <5>1 DEF Sorted
        <5>. QED  BY <1>1, <2>1, <2>5, <5>1, <5>2
      <4>2. CASE ~(j >= m)
        BY <1>3, <2>1, <3>1, <4>2
      <4>. QED  BY <4>1, <4>2
    <3>. QED  BY <1>3, <2>1, <3>1, <3>2
  <2>. QED  BY <2>4, <2>5
<1>6. Good = Ranges(s)
  <2>1. Good \in SUBSET Ranges(s)
    OBVIOUS
  <2>. HIDE DEF Good
  <2>. QED  BY <1>1, <1>4, <1>5, <2>1, ByLength
<1>7. <<0, Len(s)>> \in Good
  BY <1>1, <1>6 DEF Ranges
<1>. DEFINE p == <<0, Len(s)>>
<1>8. p \in Good /\ p[1] = 0 /\ p[2] = Len(s)
  BY <1>7
<1>. HIDE DEF p
<1>9. /\ f[p] \in 0..Len(s)
      /\ \A j \in 1..f[p] : s[j].key < key
      /\ \A j \in f[p] + 1..Len(s) : s[j].key >= key
  BY <1>1, <1>8
<1>10. f[p] = InsertionPoint(s, key)
  BY <1>2 DEF p
<1>. HIDE DEF Good
<1>. QED  BY <1>9, <1>10

-----------------------------------------------------------------------------
(* Memory. *)
Sums(s, I, f) ==
  f = [n \in 0..Len(s) |->
        IF n = 0 THEN 0
        ELSE IF n \in I THEN f[n - 1] + s[n].size ELSE f[n - 1]]

LEMMA SumsStep ==
  ASSUME NEW s, Len(s) \in Nat, NEW I, NEW f, Sums(s, I, f)
  PROVE  /\ f[0] = 0
         /\ \A n \in 1..Len(s) :
              f[n] = IF n \in I THEN f[n - 1] + s[n].size ELSE f[n - 1]
<1>1. 0 \in 0..Len(s) /\ \A n \in 1..Len(s) : n \in 0..Len(s) /\ n # 0
  OBVIOUS
<1>. QED  BY <1>1 DEF Sums

LEMMA SumsNext ==
  ASSUME NEW s, Len(s) \in Nat, NEW I, NEW f, Sums(s, I, f),
         NEW n \in Nat, n + 1 \in 1..Len(s)
  PROVE  f[n + 1] = IF n + 1 \in I THEN f[n] + s[n + 1].size ELSE f[n]
<1>1. (n + 1) - 1 = n
  OBVIOUS
<1>. QED  BY <1>1, SumsStep

LEMMA MemoryDefined ==
  ASSUME NEW s, Len(s) \in Nat, NEW I, \A n \in 1..Len(s) : s[n].size \in Nat
  PROVE  \E f \in [0..Len(s) -> Nat] : Sums(s, I, f) /\ Memory(s, I) = f[Len(s)]
<1>. DEFINE step == [n \in 1..Len(s) |-> [m \in Nat |->
                      IF n \in I THEN m + s[n].size ELSE m]]
<1>1. step \in [1..Len(s) -> [Nat -> Nat]]
  OBVIOUS
<1>2. PICK f \in [0..Len(s) -> Nat] :
        f = [n \in 0..Len(s) |-> IF n = 0 THEN 0 ELSE step[n][f[n - 1]]]
  <2>. HIDE DEF step
  <2>1. Stepping(Len(s), Nat, 0, step)
    BY <1>1 DEF Stepping
  <2>. QED  BY <2>1, Iterates
<1>3. ASSUME NEW n \in 0..Len(s)
      PROVE  f[n] = IF n = 0 THEN 0
                    ELSE IF n \in I THEN f[n - 1] + s[n].size ELSE f[n - 1]
  <2>1. f[n] = IF n = 0 THEN 0 ELSE step[n][f[n - 1]]
    <3>. HIDE DEF step
    <3>. QED  BY <1>2
  <2>2. n # 0 => n \in 1..Len(s) /\ f[n - 1] \in Nat
    <3>1. n # 0 => n \in 1..Len(s) /\ n - 1 \in 0..Len(s)
      OBVIOUS
    <3>. HIDE DEF step
    <3>. QED  BY <3>1
  <2>3. n # 0 => step[n][f[n - 1]] = IF n \in I THEN f[n - 1] + s[n].size ELSE f[n - 1]
    BY <2>2
  <2>. HIDE DEF step
  <2>. QED  BY <2>1, <2>3
<1>4. Sums(s, I, f)
  <2>1. DOMAIN f = 0..Len(s) /\ f = [n \in 0..Len(s) |-> f[n]]
    OBVIOUS
  <2>. QED  BY <1>3, <2>1 DEF Sums
<1>. DEFINE g == CHOOSE h : Sums(s, I, h)
<1>5. Sums(s, I, g)
  BY <1>4, Zenon
<1>6. Memory(s, I) = g[Len(s)]
  BY Zenon DEF Memory, Sums
<1>7. g \in [0..Len(s) -> Nat]
  <2>. DEFINE S == {n \in Nat : n \in 0..Len(s) => g[n] \in Nat}
  <2>. HIDE DEF g
  <2>1. 0 \in S
    BY <1>5, SumsStep
  <2>2. ASSUME NEW n \in S PROVE n + 1 \in S
    <3>1. CASE n + 1 \in 0..Len(s)
      <4>1. n \in 0..Len(s) /\ n + 1 \in 1..Len(s) /\ (n + 1) - 1 = n /\ g[n] \in Nat
        BY <3>1
      <4>2. g[n + 1] = IF n + 1 \in I THEN g[n] + s[n + 1].size ELSE g[n]
        BY <1>5, <4>1, SumsStep
      <4>. QED  BY <4>1, <4>2
    <3>. QED  BY <3>1
  <2>3. S = Nat
    <3>1. S \in SUBSET Nat
      OBVIOUS
    <3>. HIDE DEF S
    <3>. QED  BY <2>1, <2>2, <3>1, Induction
  <2>4. \A n \in 0..Len(s) : g[n] \in Nat
    BY <2>3
  <2>5. g = [n \in 0..Len(s) |-> g[n]]
    BY <1>5 DEF Sums
  <2>. QED  BY <2>4, <2>5
<1>. HIDE DEF g
<1>. QED  BY <1>5, <1>6, <1>7

(* Sums over equal beginnings are equal. *)
SamePrefix(s, I, t, J, N) ==
  /\ N \in Nat /\ Len(s) \in Nat /\ Len(t) \in Nat
  /\ N <= Len(s) /\ N <= Len(t)
  /\ \A i \in 1..N : s[i].size = t[i].size /\ (i \in I <=> i \in J)

LEMMA PrefixSums ==
  ASSUME NEW s, NEW I, NEW f, Sums(s, I, f), NEW t, NEW J, NEW g, Sums(t, J, g),
         NEW N, SamePrefix(s, I, t, J, N)
  PROVE  \A n \in 0..N : f[n] = g[n]
<1>. USE DEF SamePrefix
<1>. DEFINE S == {n \in Nat : n \in 0..N => f[n] = g[n]}
<1>1. 0 \in S
  BY SumsStep
<1>2. ASSUME NEW n \in S PROVE n + 1 \in S
  <2>1. CASE n + 1 \in 0..N
    <3>1. /\ n \in 0..N /\ n + 1 \in 1..N /\ (n + 1) - 1 = n /\ f[n] = g[n]
          /\ n + 1 \in 1..Len(s) /\ n + 1 \in 1..Len(t)
      BY <2>1
    <3>2. f[n + 1] = IF n + 1 \in I THEN f[n] + s[n + 1].size ELSE f[n]
      BY <3>1, SumsStep
    <3>3. g[n + 1] = IF n + 1 \in J THEN g[n] + t[n + 1].size ELSE g[n]
      BY <3>1, SumsStep
    <3>. QED  BY <3>1, <3>2, <3>3
  <2>. QED  BY <2>1
<1>3. S = Nat
  <2>1. S \in SUBSET Nat
    OBVIOUS
  <2>. HIDE DEF S
  <2>. QED  BY <1>1, <1>2, <2>1, Induction
<1>. QED  BY <1>3

(* A slot appended adds its size. *)
LEMMA MemoryAppend ==
  ASSUME NEW s \in Seq(Keyed), NEW e \in Keyed
  PROVE  Memory(Append(s, e), DOMAIN Append(s, e)) = Memory(s, DOMAIN s) + e.size
<1>. DEFINE t == Append(s, e)
<1>1. /\ Len(s) \in Nat /\ DOMAIN s = 1..Len(s)
      /\ \A i \in 1..Len(s) : s[i].size \in Nat
  BY KeyedType
<1>2. /\ t \in Seq(Keyed) /\ Len(t) = Len(s) + 1 /\ DOMAIN t = 1..Len(s) + 1
      /\ \A i \in 1..Len(s) : t[i] = s[i]
      /\ t[Len(s) + 1] = e
  OBVIOUS
<1>. HIDE DEF t
<1>3. /\ Len(t) \in Nat /\ \A i \in 1..Len(t) : t[i].size \in Nat
  BY <1>2, KeyedType
<1>4. PICK f \in [0..Len(s) -> Nat] :
        Sums(s, DOMAIN s, f) /\ Memory(s, DOMAIN s) = f[Len(s)]
  BY <1>1, MemoryDefined
<1>5. PICK g \in [0..Len(t) -> Nat] :
        Sums(t, DOMAIN t, g) /\ Memory(t, DOMAIN t) = g[Len(t)]
  BY <1>3, MemoryDefined
<1>6. f[Len(s)] = g[Len(s)]
  <2>1. \A i \in 1..Len(s) : s[i].size = t[i].size /\ (i \in DOMAIN s <=> i \in DOMAIN t)
    BY <1>1, <1>2
  <2>2. SamePrefix(s, DOMAIN s, t, DOMAIN t, Len(s))
    BY <1>1, <1>2, <1>3, <2>1 DEF SamePrefix
  <2>3. \A n \in 0..Len(s) : f[n] = g[n]
    BY <1>4, <1>5, <2>2, PrefixSums
  <2>. QED  BY <1>1, <2>3
<1>7. g[Len(t)] = g[Len(s)] + e.size
  <2>1. Len(t) \in 1..Len(t) /\ Len(t) \in DOMAIN t /\ Len(t) - 1 = Len(s) /\ t[Len(t)] = e
    BY <1>1, <1>2
  <2>2. g[Len(t)] = IF Len(t) \in DOMAIN t THEN g[Len(t) - 1] + t[Len(t)].size
                    ELSE g[Len(t) - 1]
    BY SMTT(30), <1>3, <1>5, <2>1, SumsStep
  <2>. QED  BY <2>1, <2>2
<1>. QED  BY <1>4, <1>5, <1>6, <1>7 DEF t

(* The memory depends on the sizes only. *)
LEMMA MemorySame ==
  ASSUME NEW s \in Seq(Keyed), NEW t \in Seq(Keyed), Len(s) = Len(t), NEW I,
         \A i \in 1..Len(s) : s[i].size = t[i].size
  PROVE  Memory(s, I) = Memory(t, I)
<1>1. /\ Len(s) \in Nat /\ \A i \in 1..Len(s) : s[i].size \in Nat /\ t[i].size \in Nat
  BY KeyedType
<1>2. PICK f \in [0..Len(s) -> Nat] : Sums(s, I, f) /\ Memory(s, I) = f[Len(s)]
  BY <1>1, MemoryDefined
<1>3. PICK g \in [0..Len(t) -> Nat] : Sums(t, I, g) /\ Memory(t, I) = g[Len(t)]
  BY <1>1, MemoryDefined
<1>4. SamePrefix(s, I, t, I, Len(s))
  BY <1>1 DEF SamePrefix
<1>5. \A n \in 0..Len(s) : f[n] = g[n]
  BY <1>2, <1>3, <1>4, PrefixSums
<1>. QED  BY <1>1, <1>2, <1>3, <1>5

(* What InsertAt of the community modules makes of a sequence. *)
Inserted(t, s, p, e) ==
  /\ t \in Seq(Keyed) /\ Len(t) = Len(s) + 1 /\ DOMAIN t = 1..Len(s) + 1
  /\ \A i \in 1..p : t[i] = s[i]
  /\ t[p + 1] = e
  /\ \A i \in p + 2..Len(s) + 1 : t[i] = s[i - 1]

LEMMA InsertAtIs ==
  ASSUME NEW s \in Seq(Keyed), NEW e \in Keyed, NEW p \in 0..Len(s)
  PROVE  Inserted(InsertAt(s, p + 1, e), s, p, e)
<1>. DEFINE S == Keyed
<1>. DEFINE front == SubSeq(s, 1, p)
            back == SubSeq(s, p + 1, Len(s))
            mid == front \o <<e>>
<1>1. /\ front \in Seq(S) /\ Len(front) = p
      /\ \A i \in 1..p : front[i] = s[i]
  OBVIOUS
<1>2. /\ back \in Seq(S) /\ Len(back) = Len(s) - p
      /\ \A i \in 1..Len(s) - p : back[i] = s[p + i]
  OBVIOUS
<1>3. /\ mid \in Seq(S) /\ Len(mid) = p + 1 /\ mid[p + 1] = e
      /\ \A i \in 1..p : mid[i] = s[i]
  <2>. HIDE DEF front
  <2>. QED  BY <1>1
<1>4. InsertAt(s, p + 1, e) = mid \o back
  <2>1. (p + 1) - 1 = p
    OBVIOUS
  <2>2. InsertAt(s, p + 1, e) = SubSeq(s, 1, (p + 1) - 1) \o <<e>> \o SubSeq(s, p + 1, Len(s))
    BY Zenon DEF InsertAt
  <2>. QED  BY <2>1, <2>2, Zenon
<1>. DEFINE t == mid \o back
<1>. HIDE DEF mid, back
<1>5. t \in Seq(S) /\ Len(t) = Len(s) + 1 /\ DOMAIN t = 1..Len(s) + 1
  BY <1>2, <1>3
<1>6. \A i \in 1..p + 1 : t[i] = mid[i]
  BY <1>2, <1>3
<1>7. ASSUME NEW i \in p + 2..Len(s) + 1 PROVE t[i] = s[i - 1]
  <2>1. t[i] = back[i - (p + 1)]
    BY <1>2, <1>3
  <2>2. i - (p + 1) \in 1..Len(s) - p /\ p + (i - (p + 1)) = i - 1
    OBVIOUS
  <2>. QED  BY <1>2, <2>1, <2>2
<1>8. (\A i \in 1..p : t[i] = s[i]) /\ t[p + 1] = e
  BY <1>3, <1>6
<1>. HIDE DEF t
<1>9. InsertAt(s, p + 1, e) = t
  BY <1>4 DEF t
<1>. QED  BY <1>5, <1>7, <1>8, <1>9 DEF Inserted

(* A slot inserted anywhere adds its size. *)
LEMMA MemoryInsert ==
  ASSUME NEW s \in Seq(Keyed), NEW e \in Keyed, NEW p \in 0..Len(s),
         NEW t, Inserted(t, s, p, e)
  PROVE  Memory(t, DOMAIN t) = Memory(s, DOMAIN s) + e.size
<1>1. /\ Len(s) \in Nat /\ DOMAIN s = 1..Len(s) /\ e.size \in Nat
      /\ \A i \in 1..Len(s) : s[i].size \in Nat
  BY KeyedType DEF Keyed
<1>2. /\ t \in Seq(Keyed) /\ Len(t) = Len(s) + 1 /\ DOMAIN t = 1..Len(s) + 1
      /\ \A i \in 1..p : t[i] = s[i]
      /\ t[p + 1] = e
      /\ \A i \in p + 2..Len(s) + 1 : t[i] = s[i - 1]
  BY DEF Inserted
<1>3. /\ Len(t) \in Nat /\ \A i \in 1..Len(t) : t[i].size \in Nat
  BY <1>2, KeyedType
<1>4. PICK f \in [0..Len(s) -> Nat] :
        Sums(s, DOMAIN s, f) /\ Memory(s, DOMAIN s) = f[Len(s)]
  BY <1>1, MemoryDefined
<1>5. PICK g \in [0..Len(t) -> Nat] :
        Sums(t, DOMAIN t, g) /\ Memory(t, DOMAIN t) = g[Len(t)]
  BY <1>3, MemoryDefined
<1>6. \A n \in 0..p : f[n] = g[n]
  <2>1. SamePrefix(s, DOMAIN s, t, DOMAIN t, p)
    BY <1>1, <1>2, <1>3 DEF SamePrefix
  <2>. QED  BY <1>4, <1>5, <2>1, PrefixSums
<1>7. \A n \in 1..Len(s) : f[n] = f[n - 1] + s[n].size
  BY <1>1, <1>4, SumsStep
<1>8. \A n \in 1..Len(t) : g[n] = g[n - 1] + t[n].size
  <2>1. DOMAIN t = 1..Len(t)
    BY <1>2
  <2>2. \A n \in 1..Len(t) :
          g[n] = IF n \in DOMAIN t THEN g[n - 1] + t[n].size ELSE g[n - 1]
    BY <1>3, <1>5, SumsStep
  <2>. QED  BY <2>1, <2>2
<1>. DEFINE S == {n \in Nat : n \in p..Len(s) => g[n + 1] = f[n] + e.size}
<1>9. S = Nat
  <2>1. ASSUME NEW n \in S PROVE n + 1 \in S
    <3>1. CASE n + 1 \in p + 1..Len(s)
      <4>. HIDE DEF S
      <4>0. n \in Nat /\ p \in Nat
        BY <1>1 DEF S
      <4>1. /\ n \in p..Len(s) /\ n + 1 \in 1..Len(s) /\ (n + 1) + 1 \in 1..Len(t)
            /\ (n + 1) + 1 \in p + 2..Len(s) + 1
            /\ (n + 1) - 1 = n /\ ((n + 1) + 1) - 1 = n + 1
        BY <1>1, <1>2, <3>1, <4>0
      <4>. USE DEF S
      <4>2. f[n + 1] = f[n] + s[n + 1].size
        BY <1>7, <4>1
      <4>3. g[(n + 1) + 1] = g[n + 1] + s[n + 1].size
        BY <1>2, <1>8, <4>1
      <4>. HIDE DEF S
      <4>4. f[n] \in Nat
        <5>1. n \in 0..Len(s)
          BY <1>1, <4>0, <4>1
        <5>. QED  BY <1>4, <5>1
      <4>5. s[n + 1].size \in Nat
        BY <1>1, <4>1
      <4>. USE DEF S
      <4>. QED  BY <1>1, <4>1, <4>2, <4>3, <4>4, <4>5
    <3>2. CASE n + 1 = p
      <4>1. p + 1 \in 1..Len(t) /\ (p + 1) - 1 = p /\ p \in 0..p
        BY <1>1, <1>2
      <4>2. g[p + 1] = g[p] + e.size /\ g[p] = f[p]
        BY <1>2, <1>6, <1>8, <4>1
      <4>. QED  BY <3>2, <4>2
    <3>3. CASE n + 1 \notin p..Len(s)
      BY <3>3
    <3>. QED  BY <1>1, <3>1, <3>2, <3>3
  <2>2. 0 \in S
    <3>1. CASE p = 0
      <4>1. 1 \in 1..Len(t) /\ 0 \in 0..p /\ t[1] = e /\ 1 - 1 = 0 /\ 0 + 1 = 1
        BY <1>1, <1>2, <3>1
      <4>2. g[1] = g[0] + e.size /\ g[0] = f[0]
        BY <1>6, <1>8, <4>1
      <4>. QED  BY <4>1, <4>2
    <3>2. CASE p # 0
      BY <3>2
    <3>. QED  BY <3>1, <3>2
  <2>3. S \in SUBSET Nat
    OBVIOUS
  <2>. HIDE DEF S
  <2>. QED  BY <2>1, <2>2, <2>3, Induction
<1>10. Len(s) \in S
  BY <1>1, <1>9
<1>11. g[Len(s) + 1] = f[Len(s)] + e.size
  BY <1>1, <1>10
<1>. QED  BY <1>2, <1>4, <1>5, <1>11

-----------------------------------------------------------------------------
(* The loop of ts_cache_update. *)
Closes(s, f) ==
  f = [n \in 0..Len(s) |->
        IF n = 0 THEN <<>>
        ELSE IF n \in Expired(s) THEN f[n - 1] ELSE Append(f[n - 1], s[n])]

LEMMA KeptDefined ==
  ASSUME NEW s \in Seq(Keyed)
  PROVE  \E f : Closes(s, f) /\ Kept(s) = f[Len(s)]
<1>0. Len(s) \in Nat /\ \A n \in 1..Len(s) : s[n] \in Keyed
  BY KeyedType
<1>. DEFINE step == [n \in 1..Len(s) |-> [q \in Seq(Keyed) |->
                      IF n \in Expired(s) THEN q ELSE Append(q, s[n])]]
<1>1. step \in [1..Len(s) -> [Seq(Keyed) -> Seq(Keyed)]]
  BY <1>0
<1>2. PICK f \in [0..Len(s) -> Seq(Keyed)] :
        f = [n \in 0..Len(s) |-> IF n = 0 THEN <<>> ELSE step[n][f[n - 1]]]
  <2>1. <<>> \in Seq(Keyed)
    OBVIOUS
  <2>. HIDE DEF step
  <2>2. Stepping(Len(s), Seq(Keyed), <<>>, step)
    BY <1>0, <1>1, <2>1 DEF Stepping
  <2>. QED  BY <2>2, Iterates
<1>3. ASSUME NEW n \in 0..Len(s)
      PROVE  f[n] = IF n = 0 THEN <<>>
                    ELSE IF n \in Expired(s) THEN f[n - 1] ELSE Append(f[n - 1], s[n])
  <2>1. f[n] = IF n = 0 THEN <<>> ELSE step[n][f[n - 1]]
    <3>. HIDE DEF step
    <3>. QED  BY <1>2
  <2>2. n # 0 => n \in 1..Len(s) /\ f[n - 1] \in Seq(Keyed)
    <3>1. n # 0 => n \in 1..Len(s) /\ n - 1 \in 0..Len(s)
      BY <1>0
    <3>. HIDE DEF step
    <3>. QED  BY <3>1
  <2>3. n # 0 => step[n][f[n - 1]] =
                   IF n \in Expired(s) THEN f[n - 1] ELSE Append(f[n - 1], s[n])
    BY <2>2
  <2>. HIDE DEF step
  <2>. QED  BY <2>1, <2>3
<1>4. Closes(s, f)
  <2>1. f = [n \in 0..Len(s) |-> f[n]]
    <3>. HIDE DEF step
    <3>. QED  OBVIOUS
  <2>. QED  BY <1>3, <2>1 DEF Closes
<1>. DEFINE g == CHOOSE h : Closes(s, h)
<1>5. Closes(s, g)
  BY <1>4, Zenon
<1>6. Kept(s) = g[Len(s)]
  BY Zenon DEF Kept, Closes
<1>. QED  BY <1>5, <1>6, Zenon

(* What the loop has kept of the first n slots. *)
Closed(s, q, n) ==
  /\ q \in Seq(Keyed) /\ Len(q) <= n
  /\ \A j \in 1..Len(q) : \E i \in (1..n) \ Expired(s) : q[j] = s[i]
  /\ \A i \in (1..n) \ Expired(s) : \E j \in 1..Len(q) : q[j] = s[i]
  /\ Sorted(q)

LEMMA ClosedAppend ==
  ASSUME NEW s \in Seq(Keyed), Sorted(s), NEW n \in Nat, n + 1 \in 1..Len(s),
         n + 1 \notin Expired(s), NEW q, Closed(s, q, n)
  PROVE  Closed(s, Append(q, s[n + 1]), n + 1)
<1>. DEFINE e == s[n + 1]
            t == Append(q, e)
<1>1. /\ q \in Seq(Keyed) /\ Len(q) \in Nat /\ Len(q) <= n /\ e \in Keyed
      /\ DOMAIN s = 1..Len(s) /\ DOMAIN q = 1..Len(q) /\ Len(s) \in Nat
  BY KeyedType DEF Closed
<1>2. /\ t \in Seq(Keyed) /\ Len(t) = Len(q) + 1 /\ DOMAIN t = 1..Len(q) + 1
      /\ t[Len(q) + 1] = e /\ \A j \in 1..Len(q) : t[j] = q[j]
  <2>. HIDE DEF e
  <2>. QED  BY <1>1
<1>. HIDE DEF t
<1>3. Len(t) <= n + 1
  BY <1>1, <1>2
<1>4. ASSUME NEW j \in 1..Len(t)
      PROVE  \E i \in (1..n + 1) \ Expired(s) : t[j] = s[i]
  <2>1. CASE j = Len(q) + 1
    BY <1>1, <1>2, <2>1
  <2>2. CASE j # Len(q) + 1
    <3>1. j \in 1..Len(q)
      BY <1>1, <1>2, <2>2
    <3>2. PICK i \in (1..n) \ Expired(s) : q[j] = s[i]
      BY <3>1 DEF Closed
    <3>. QED  BY <1>2, <3>1, <3>2
  <2>. QED  BY <2>1, <2>2
<1>5. ASSUME NEW i \in (1..n + 1) \ Expired(s)
      PROVE  \E j \in 1..Len(t) : t[j] = s[i]
  <2>1. CASE i = n + 1
    <3>1. Len(q) + 1 \in 1..Len(t)
      BY <1>1, <1>2
    <3>. QED  BY <1>2, <2>1, <3>1
  <2>2. CASE i # n + 1
    <3>1. i \in (1..n) \ Expired(s)
      BY <2>2
    <3>2. PICK j \in 1..Len(q) : q[j] = s[i]
      BY <3>1 DEF Closed
    <3>3. j \in 1..Len(t)
      BY <1>1, <1>2
    <3>. QED  BY <1>2, <3>2, <3>3
  <2>. QED  BY <2>1, <2>2
<1>6. Sorted(t)
  <2>. SUFFICES ASSUME NEW i \in DOMAIN t, NEW j \in DOMAIN t, i < j
                PROVE  t[i].key < t[j].key
    BY DEF Sorted
  <2>1. i \in 1..Len(q) /\ t[i] = q[i]
    BY <1>1, <1>2
  <2>2. CASE j = Len(q) + 1
    <3>1. PICK k \in (1..n) \ Expired(s) : q[i] = s[k]
      BY <2>1 DEF Closed
    <3>2. k \in DOMAIN s /\ n + 1 \in DOMAIN s /\ k < n + 1
      BY <1>1
    <3>3. s[k].key < s[n + 1].key
      BY <3>2 DEF Sorted
    <3>. QED  BY <1>2, <2>1, <2>2, <3>1, <3>3
  <2>3. CASE j # Len(q) + 1
    <3>1. j \in 1..Len(q) /\ t[j] = q[j]
      BY <1>1, <1>2, <2>3
    <3>2. q[i].key < q[j].key
      BY <1>1, <2>1, <3>1 DEF Closed, Sorted
    <3>. QED  BY <2>1, <3>1, <3>2
  <2>. QED  BY <2>2, <2>3
<1>. QED  BY <1>2, <1>3, <1>4, <1>5, <1>6 DEF Closed, t

(* What ts_cache_update leaves: the slots that have not expired, still      *)
(* sorted, and their memory.                                               *)
LEMMA KeptIs ==
  ASSUME NEW s \in Seq(Keyed), Sorted(s)
  PROVE  /\ Closed(s, Kept(s), Len(s))
         /\ Memory(Kept(s), DOMAIN Kept(s)) =
              Memory(s, DOMAIN s) - Memory(s, Expired(s))
         /\ Memory(s, DOMAIN s) \in Nat /\ Memory(s, Expired(s)) \in Nat
<1>1. /\ Len(s) \in Nat /\ DOMAIN s = 1..Len(s)
      /\ \A n \in 1..Len(s) : s[n] \in Keyed /\ s[n].size \in Nat
  BY KeyedType
<1>2. PICK f : Closes(s, f) /\ Kept(s) = f[Len(s)]
  BY KeptDefined
<1>3. PICK g \in [0..Len(s) -> Nat] :
        Sums(s, DOMAIN s, g) /\ Memory(s, DOMAIN s) = g[Len(s)]
  BY <1>1, MemoryDefined
<1>4. PICK h \in [0..Len(s) -> Nat] :
        Sums(s, Expired(s), h) /\ Memory(s, Expired(s)) = h[Len(s)]
  BY <1>1, MemoryDefined
<1>5. /\ f[0] = <<>> /\ g[0] = 0 /\ h[0] = 0
  <2>1. 0 \in 0..Len(s)
    BY <1>1
  <2>. QED  BY <1>1, <1>2, <1>3, <1>4, <2>1, SumsStep DEF Closes
<1>. DEFINE Holds(n) ==
       Closed(s, f[n], n) /\ Memory(f[n], DOMAIN f[n]) = g[n] - h[n]
<1>. DEFINE S == {n \in Nat : n \in 0..Len(s) => Holds(n)}
<1>6. 0 \in S
  <2>1. Closed(s, <<>>, 0)
    BY DEF Closed, Sorted
  <2>2. Memory(<<>>, DOMAIN <<>>) = 0
    <3>1. Len(<<>>) = 0 /\ Len(<<>>) \in Nat
      OBVIOUS
    <3>2. PICK m : Sums(<<>>, DOMAIN <<>>, m) /\ Memory(<<>>, DOMAIN <<>>) = m[Len(<<>>)]
      BY <3>1, MemoryDefined
    <3>. QED  BY <3>1, <3>2, SumsStep
  <2>. QED  BY <1>5, <2>1, <2>2
<1>7. ASSUME NEW n \in S PROVE n + 1 \in S
  <2>. SUFFICES ASSUME n + 1 \in 0..Len(s) PROVE Holds(n + 1)
    OBVIOUS
  <2>1. /\ n \in Nat /\ n \in 0..Len(s) /\ n + 1 \in 1..Len(s) /\ n + 1 # 0
        /\ (n + 1) - 1 = n
    BY <1>1
  <2>2. Holds(n)
    BY <2>1
  <2>. HIDE DEF S
  <2>3. f[n + 1] = IF n + 1 \in Expired(s) THEN f[n] ELSE Append(f[n], s[n + 1])
    BY <1>2, <2>1 DEF Closes
  <2>4. g[n + 1] = g[n] + s[n + 1].size
    <3>1. g[n + 1] = IF n + 1 \in DOMAIN s THEN g[n] + s[n + 1].size ELSE g[n]
      BY <1>1, <1>3, <2>1, SumsStep
    <3>. QED  BY <1>1, <2>1, <3>1
  <2>5. h[n + 1] = IF n + 1 \in Expired(s) THEN h[n] + s[n + 1].size ELSE h[n]
    <3>1. Len(s) \in Nat /\ Sums(s, Expired(s), h)
      BY <1>1, <1>4
    <3>2. n \in Nat /\ n + 1 \in 1..Len(s)
      BY <2>1

    <3>. HIDE DEF Holds
    <3>. QED  BY <3>1, <3>2, SumsNext
  <2>6. g[n] \in Nat /\ h[n] \in Nat /\ s[n + 1].size \in Nat /\ s[n + 1] \in Keyed
    BY <1>1, <2>1
  <2>7. CASE n + 1 \in Expired(s)
    <3>1. f[n + 1] = f[n] /\ h[n + 1] = h[n] + s[n + 1].size
      BY <2>3, <2>5, <2>7
    <3>2. Closed(s, f[n], n + 1)
      <4>1. (1..n + 1) \ Expired(s) = (1..n) \ Expired(s)
        BY <2>1, <2>7
      <4>2. Len(f[n]) <= n + 1
        BY <2>1, <2>2 DEF Closed
      <4>. QED  BY <2>2, <4>1, <4>2 DEF Closed
    <3>3. g[n + 1] - h[n + 1] = g[n] - h[n]
      BY <2>4, <2>6, <3>1
    <3>. QED  BY <2>2, <3>1, <3>2, <3>3
  <2>8. CASE n + 1 \notin Expired(s)
    <3>1. f[n + 1] = Append(f[n], s[n + 1]) /\ h[n + 1] = h[n]
      BY <2>3, <2>5, <2>8
    <3>2. Closed(s, f[n + 1], n + 1)
      BY <2>1, <2>2, <2>8, <3>1, ClosedAppend
    <3>3. f[n] \in Seq(Keyed)
      BY <2>2 DEF Closed
    <3>4. Memory(f[n + 1], DOMAIN f[n + 1]) = Memory(f[n], DOMAIN f[n]) + s[n + 1].size
      BY <2>6, <3>1, <3>3, MemoryAppend
    <3>. QED  BY <2>2, <2>4, <2>6, <3>1, <3>2, <3>4
  <2>. QED  BY <2>7, <2>8
<1>8. S = Nat
  <2>1. S \in SUBSET Nat
    OBVIOUS
  <2>. HIDE DEF S
  <2>. QED  BY <1>6, <1>7, <2>1, Induction
<1>9. Holds(Len(s))
  BY <1>1, <1>8
<1>. QED  BY <1>1, <1>2, <1>3, <1>4, <1>9

-----------------------------------------------------------------------------
(* The clock.  age is computed modulo 2^32 and divided by the period. *)
LEMMA ModType ==
  ASSUME NEW x \in Int
  PROVE  x % Modulus \in 0..Modulus - 1
BY CacheAssumption

LEMMA Quotient ==
  ASSUME NEW x \in Int
  PROVE  \E q \in Int : x = q * Modulus + (x % Modulus)
<1>1. Modulus \in Nat /\ Modulus > 0
  BY CacheAssumption
<1>2. x \div Modulus \in Int /\ x = (x \div Modulus) * Modulus + (x % Modulus)
  BY <1>1
<1>. QED  BY <1>2

(* An age grows no faster than the clock, also across the end of its range. *)
LEMMA AgeGrows ==
  ASSUME NEW t \in Int, NEW l \in Int, NEW d \in Nat
  PROVE  (((t + d) % Modulus) - l) % Modulus <= ((t - l) % Modulus) + d
<1>. DEFINE M == Modulus
            now == (t + d) % M
            a == (t - l) % M
            b == (now - l) % M
<1>1. M \in Nat /\ M > 0 /\ now \in 0..M - 1 /\ a \in 0..M - 1 /\ b \in 0..M - 1
  <2>1. M \in Nat /\ M > 0
    BY CacheAssumption
  <2>2. now \in 0..M - 1 /\ a \in 0..M - 1
    <3>1. t + d \in Int /\ t - l \in Int
      OBVIOUS
    <3>. QED  BY <3>1, ModType
  <2>. HIDE DEF now
  <2>3. now - l \in Int
    BY <2>1, <2>2
  <2>4. b \in 0..M - 1
    BY <2>3, ModType
  <2>. QED  BY <2>1, <2>2, <2>4
<1>2. PICK p \in Int : t + d = p * M + now
  BY Quotient
<1>3. PICK q \in Int : t - l = q * M + a
  BY Quotient
<1>4. PICK r \in Int : now - l = r * M + b
  BY <1>1, Quotient
<1>. HIDE DEF M, now, a, b
<1>. DEFINE k == (q - p) - r
<1>5. b = (a + d) + k * M
  <2>1. now = (t + d) - p * M /\ t = l + q * M + a
    BY <1>1, <1>2, <1>3
  <2>2. b = ((a + d) + q * M) - p * M - r * M
    BY <1>1, <1>4, <2>1
  <2>3. k * M = (q * M - p * M) - r * M
    BY <1>1
  <2>. QED  BY <1>1, <2>2, <2>3
<1>6. ~(b > a + d)
  <2>. SUFFICES ASSUME b > a + d PROVE FALSE
    OBVIOUS
  <2>1. k \in Int
    OBVIOUS
  <2>. HIDE DEF k
  <2>2. k * M > 0 /\ k * M < M
    BY <1>1, <1>5, <2>1
  <2>3. CASE k <= 0
    <3>1. k * M <= 0
      BY <1>1, <2>1, <2>3
    <3>. QED  BY <1>1, <2>1, <2>2, <3>1
  <2>4. CASE k >= 1
    <3>1. k * M >= M
      BY <1>1, <2>1, <2>4
    <3>. QED  BY <1>1, <2>1, <2>2, <3>1
  <2>. QED  BY <2>1, <2>3, <2>4
<1>. QED  BY <1>1, <1>6 DEF now, a, b, M

LEMMA Periods ==
  ASSUME NEW a \in Nat
  PROVE  a \div DecayTime \in Nat /\ (a < DecayTime => a \div DecayTime = 0)
BY CacheAssumption

-----------------------------------------------------------------------------
(* The inductive invariant.  A slot cannot be older than its key is idle:   *)
(* what decay takes from a slot it takes after a whole period.             *)
AgeOf(i) == (time_seconds - slots[i].last_access) % Modulus

IdleCovers ==
  \A i \in DOMAIN slots :
    idle[slots[i].key] = DecayTime \/ AgeOf(i) <= idle[slots[i].key]

Inv == TypeOK /\ MemAccounted /\ BuffersOwned /\ Sorted(slots) /\ IdleCovers

Assigned == {<<slots[i].key, slots[i].user>> : i \in DOMAIN slots}

LEMMA SeqOfKeyed ==
  ASSUME NEW s \in Seq(Slots)
  PROVE  s \in Seq(Keyed)
<1>1. Slots \subseteq Keyed
  BY CacheAssumption DEF Slots, Keyed
<1>. QED  BY <1>1

LEMMA SlotsType ==
  ASSUME TypeOK
  PROVE  /\ slots \in Seq(Keyed) /\ Len(slots) \in Nat /\ DOMAIN slots = 1..Len(slots)
         /\ time_seconds \in 0..Modulus - 1
         /\ \A i \in DOMAIN slots :
              /\ slots[i] \in Slots
              /\ slots[i].key \in Keys /\ slots[i].key \in Nat
              /\ slots[i].user \in Buffers /\ slots[i].size \in Nat
              /\ slots[i].last_access \in 0..Modulus - 1
              /\ slots[i].freq \in 1..MaxFreq
<1>1. slots \in Seq(Slots) /\ time_seconds \in 0..Modulus - 1
  BY DEF TypeOK
<1>2. \A i \in DOMAIN slots : slots[i] \in Slots
  BY <1>1
<1>3. slots \in Seq(Keyed) /\ Len(slots) \in Nat /\ DOMAIN slots = 1..Len(slots)
  BY <1>1, SeqOfKeyed
<1>. QED  BY <1>1, <1>2, <1>3, CacheAssumption DEF Slots

LEMMA InitInv == Init => Inv
<1>. SUFFICES ASSUME Init PROVE Inv
  OBVIOUS
<1>1. slots = <<>> /\ Len(<<>>) = 0 /\ DOMAIN slots = {} /\ Len(<<>>) \in Nat
  BY DEF Init
<1>2. TypeOK
  BY CacheAssumption DEF Init, TypeOK
<1>3. MemAccounted
  <2>1. PICK m : Sums(<<>>, DOMAIN <<>>, m) /\ Memory(<<>>, DOMAIN <<>>) = m[Len(<<>>)]
    BY <1>1, MemoryDefined
  <2>2. Memory(slots, DOMAIN slots) = 0
    BY <1>1, <2>1, SumsStep
  <2>. QED  BY <2>2, CacheAssumption DEF Init, MemAccounted
<1>. QED  BY <1>1, <1>2, <1>3 DEF Init, Inv, BuffersOwned, Users, Sorted, IdleCovers

(* ts_cache_get touches one slot and only its counter and access time. *)
LEMMA HitSlots ==
  ASSUME Inv, NEW k \in Keys, Hit(k)
  PROVE  \E i \in DOMAIN slots :
           /\ slots[i].key = k /\ answer' = <<k, slots[i].user>>
           /\ slots' \in Seq(Slots) /\ Len(slots') = Len(slots) /\ DOMAIN slots' = DOMAIN slots
           /\ \A j \in DOMAIN slots :
                /\ slots'[j].key = slots[j].key /\ slots'[j].user = slots[j].user
                /\ slots'[j].size = slots[j].size
                /\ j # i => slots'[j] = slots[j]
           /\ slots'[i].last_access = time_seconds
<1>1. /\ slots \in Seq(Slots) /\ slots \in Seq(Keyed) /\ Len(slots) \in Nat
      /\ DOMAIN slots = 1..Len(slots) /\ Sorted(slots)
      /\ \A j \in DOMAIN slots : slots[j] \in Slots
  BY SlotsType DEF Inv, TypeOK
<1>. DEFINE i == BinarySearch(slots, k)
<1>2. i # 0 /\ i \in 0..Len(slots) /\ slots[i].key = k
  BY <1>1, SearchFinds DEF Hit
<1>3. i \in DOMAIN slots
  BY <1>1, <1>2
<1>4. PICK f \in Incremented(slots[i].freq) :
        slots' = [slots EXCEPT ![i].freq = f, ![i].last_access = time_seconds]
  BY DEF Hit
<1>5. answer' = <<k, slots[i].user>>
  BY DEF Hit
<1>. HIDE DEF i
<1>6. slots[i] \in Slots /\ slots[i].freq \in 1..MaxFreq /\ MaxFreq \in Int
  BY <1>1, <1>3, CacheAssumption DEF Slots
<1>7. f \in 1..MaxFreq
  BY <1>4, <1>6 DEF Incremented
<1>. DEFINE e == [slots[i] EXCEPT !.freq = f, !.last_access = time_seconds]
<1>8. /\ e \in Slots /\ e.key = slots[i].key /\ e.user = slots[i].user
      /\ e.size = slots[i].size /\ e.last_access = time_seconds
  <2>1. time_seconds \in 0..Modulus - 1
    BY DEF Inv, TypeOK
  <2>. QED  BY <1>6, <1>7, <2>1 DEF Slots
<1>9. slots' = [slots EXCEPT ![i] = e]
  BY <1>3, <1>4
<1>. HIDE DEF e
<1>10. /\ slots' \in Seq(Slots) /\ Len(slots') = Len(slots) /\ DOMAIN slots' = DOMAIN slots
       /\ \A j \in DOMAIN slots : slots'[j] = IF j = i THEN e ELSE slots[j]
  BY <1>1, <1>3, <1>8, <1>9
<1>. QED  BY <1>2, <1>3, <1>5, <1>8, <1>10

(* One key has one slot. *)
LEMMA OneSlot ==
  ASSUME Inv, NEW i \in DOMAIN slots, NEW j \in DOMAIN slots,
         slots[i].key = slots[j].key
  PROVE  i = j
<1>1. i \in Nat /\ j \in Nat /\ slots[i].key \in Nat /\ slots[j].key \in Nat
  BY SlotsType DEF Inv
<1>2. i < j => slots[i].key < slots[j].key
  BY DEF Inv, Sorted
<1>3. j < i => slots[j].key < slots[i].key
  BY DEF Inv, Sorted
<1>. QED  BY <1>1, <1>2, <1>3

LEMMA HitStep ==
  ASSUME Inv, NEW k \in Keys, Hit(k)
  PROVE  Inv' /\ Assigned' = Assigned /\ \E b \in Buffers : <<k, b>> \in Assigned /\ answer' = <<k, b>>
<1>1. PICK i \in DOMAIN slots :
        /\ slots[i].key = k /\ answer' = <<k, slots[i].user>>
        /\ slots' \in Seq(Slots) /\ Len(slots') = Len(slots) /\ DOMAIN slots' = DOMAIN slots
        /\ \A j \in DOMAIN slots :
             /\ slots'[j].key = slots[j].key /\ slots'[j].user = slots[j].user
             /\ slots'[j].size = slots[j].size
             /\ j # i => slots'[j] = slots[j]
        /\ slots'[i].last_access = time_seconds
  BY HitSlots
<1>2. UNCHANGED <<used_mem, capacity, time_seconds, setBacks, allocated>>
      /\ idle' = [idle EXCEPT ![k] = 0]
  BY DEF Hit
<1>3. slots[i].user \in Buffers /\ DOMAIN slots = 1..Len(slots) /\ slots \in Seq(Keyed)
  BY SlotsType DEF Inv
<1>4. TypeOK'
  <2>1. answer' \in Keys \X (Buffers \cup {"miss"})
    BY <1>1, <1>3
  <2>2. idle' \in [Keys -> 0..DecayTime]
    BY <1>2, CacheAssumption DEF Inv, TypeOK
  <2>. QED  BY <1>1, <1>2, <2>1, <2>2 DEF Inv, TypeOK
<1>5. MemAccounted'
  <2>1. slots' \in Seq(Keyed)
    BY <1>1, SeqOfKeyed
  <2>2. \A j \in 1..Len(slots) : slots[j].size = slots'[j].size
    BY <1>1, <1>3
  <2>3. Memory(slots, DOMAIN slots) = Memory(slots', DOMAIN slots)
    BY <1>1, <1>3, <2>1, <2>2, MemorySame
  <2>. QED  BY <1>1, <1>2, <2>3 DEF Inv, MemAccounted
<1>6. BuffersOwned'
  <2>1. Users(slots') = Users(slots)
    BY <1>1 DEF Users
  <2>. QED  BY <1>1, <1>2, <2>1 DEF Inv, BuffersOwned
<1>7. Sorted(slots')
  BY <1>1 DEF Inv, Sorted
<1>8. IdleCovers'
  <2>. SUFFICES ASSUME NEW j \in DOMAIN slots'
                PROVE  idle'[slots'[j].key] = DecayTime \/ AgeOf(j)' <= idle'[slots'[j].key]
    BY DEF IdleCovers
  <2>1. j \in DOMAIN slots /\ slots'[j].key = slots[j].key /\ slots[j].key \in Keys
    BY <1>1, SlotsType DEF Inv
  <2>2. CASE j = i
    <3>1. idle'[k] = 0
      BY <1>2 DEF Inv, TypeOK
    <3>2. AgeOf(j)' = 0
      <4>1. time_seconds \in Int /\ time_seconds - time_seconds = 0 /\ 0 % Modulus = 0
        BY SlotsType, CacheAssumption DEF Inv
      <4>. QED  BY <1>1, <1>2, <2>2, <4>1 DEF AgeOf
    <3>. QED  BY <1>1, <2>1, <2>2, <3>1, <3>2
  <2>3. CASE j # i
    <3>1. slots[j].key # k
      BY <1>1, <2>1, <2>3, OneSlot
    <3>2. idle'[slots[j].key] = idle[slots[j].key]
      BY <1>2, <2>1, <3>1 DEF Inv, TypeOK
    <3>3. AgeOf(j)' = AgeOf(j)
      BY <1>1, <1>2, <2>1, <2>3 DEF AgeOf
    <3>. QED  BY <2>1, <3>2, <3>3 DEF Inv, IdleCovers
  <2>. QED  BY <2>2, <2>3
<1>9. Assigned' = Assigned
  BY <1>1 DEF Assigned
<1>10. <<k, slots[i].user>> \in Assigned
  BY <1>1 DEF Assigned
<1>. QED  BY <1>1, <1>3, <1>4, <1>5, <1>6, <1>7, <1>8, <1>9, <1>10 DEF Inv

(* serve_tile after a miss: the key is not cached. *)
LEMMA MissIsMiss ==
  ASSUME Inv, NEW k \in Keys, Miss(k)
  PROVE  \A j \in DOMAIN slots : slots[j].key # k
<1>1. slots \in Seq(Keyed) /\ Sorted(slots)
  BY SlotsType DEF Inv
<1>. QED  BY <1>1, SearchFinds DEF Miss

(* ts_cache_set puts the new slot where its key belongs. *)
LEMMA InsertSlots ==
  ASSUME Inv, NEW k \in Keys, \A j \in DOMAIN slots : slots[j].key # k,
         NEW b \in Buffers, Insert(k, b)
  PROVE  \E p \in 0..Len(slots), e \in Slots :
           /\ e.key = k /\ e.user = b /\ e.size = SizeOf[k] /\ e.last_access = time_seconds
           /\ Inserted(slots', slots, p, e)
           /\ slots' \in Seq(Slots)
           /\ Sorted(slots')
<1>1. /\ slots \in Seq(Keyed) /\ Len(slots) \in Nat /\ DOMAIN slots = 1..Len(slots)
      /\ Sorted(slots) /\ time_seconds \in 0..Modulus - 1
      /\ \A j \in DOMAIN slots : slots[j] \in Slots /\ slots[j].key \in Nat
  BY SlotsType DEF Inv
<1>. DEFINE p == InsertionPoint(slots, k)
            e == [key |-> k, user |-> b, size |-> SizeOf[k],
                  last_access |-> time_seconds, freq |-> LfuInit]
<1>2. /\ p \in 0..Len(slots)
      /\ \A j \in 1..p : slots[j].key < k
      /\ \A j \in p + 1..Len(slots) : slots[j].key >= k
  BY <1>1, InsertSeparates
<1>3. /\ e \in Slots /\ e \in Keyed
      /\ e.key = k /\ e.user = b /\ e.size = SizeOf[k] /\ e.last_access = time_seconds
  BY <1>1, CacheAssumption DEF Slots, Keyed
<1>4. slots' = InsertAt(slots, p + 1, e)
  BY DEF Insert
<1>. HIDE DEF p, e
<1>5. Inserted(slots', slots, p, e)
  BY <1>1, <1>2, <1>3, <1>4, InsertAtIs
<1>6. /\ slots' \in Seq(Keyed) /\ Len(slots') = Len(slots) + 1
      /\ DOMAIN slots' = 1..Len(slots) + 1
      /\ \A i \in 1..p : slots'[i] = slots[i]
      /\ slots'[p + 1] = e
      /\ \A i \in p + 2..Len(slots) + 1 : slots'[i] = slots[i - 1]
  BY <1>5 DEF Inserted
<1>7. ASSUME NEW i \in 1..Len(slots) + 1
      PROVE  \/ i \in 1..p /\ i \in 1..Len(slots)
             \/ i = p + 1
             \/ i \in p + 2..Len(slots) + 1 /\ i - 1 \in p + 1..Len(slots) /\ i - 1 \in 1..Len(slots)
  BY <1>1, <1>2
<1>8. slots' \in Seq(Slots)
  <2>1. \A i \in 1..Len(slots) + 1 : slots'[i] \in Slots
    BY <1>1, <1>3, <1>6, <1>7
  <2>. QED  BY <1>6, <2>1
<1>9. Sorted(slots')
  <2>. SUFFICES ASSUME NEW i \in DOMAIN slots', NEW j \in DOMAIN slots', i < j
                PROVE  slots'[i].key < slots'[j].key
    BY DEF Sorted
  <2>0. i \in 1..Len(slots) + 1 /\ j \in 1..Len(slots) + 1 /\ k \in Nat /\ p \in Nat
    BY <1>2, <1>6, CacheAssumption
  <2>. DEFINE Old(n, m) == m \in 1..Len(slots) /\ slots'[n] = slots[m]
  <2>1. CASE i \in 1..p /\ j \in 1..p
    <3>1. i \in DOMAIN slots /\ j \in DOMAIN slots /\ slots'[i] = slots[i] /\ slots'[j] = slots[j]
      BY <1>1, <1>2, <1>6, <2>1
    <3>. QED  BY <1>1, <3>1 DEF Sorted
  <2>2. CASE i \in 1..p /\ j = p + 1
    BY <1>2, <1>3, <1>6, <2>2
  <2>3. CASE i \in 1..p /\ j \in p + 2..Len(slots) + 1
    <3>1. i \in DOMAIN slots /\ j - 1 \in DOMAIN slots /\ i < j - 1
      BY <1>1, <1>2, <2>0, <2>3
    <3>2. slots'[i] = slots[i] /\ slots'[j] = slots[j - 1]
      BY <1>6, <2>3
    <3>. QED  BY <1>1, <3>1, <3>2 DEF Sorted
  <2>4. CASE i = p + 1 /\ j \in p + 2..Len(slots) + 1
    <3>1. j - 1 \in DOMAIN slots /\ j - 1 \in p + 1..Len(slots)
      BY <1>1, <1>2, <2>0, <2>4
    <3>2. slots[j - 1].key >= k /\ slots[j - 1].key # k /\ slots[j - 1].key \in Nat
      BY <1>1, <1>2, <3>1
    <3>3. slots'[i].key = k /\ slots'[j] = slots[j - 1]
      BY <1>3, <1>6, <2>4
    <3>. QED  BY <2>0, <3>2, <3>3
  <2>5. CASE i \in p + 2..Len(slots) + 1 /\ j \in p + 2..Len(slots) + 1
    <3>1. i - 1 \in DOMAIN slots /\ j - 1 \in DOMAIN slots /\ i - 1 < j - 1
      BY <1>1, <2>0, <2>5
    <3>2. slots'[i] = slots[i - 1] /\ slots'[j] = slots[j - 1]
      BY <1>6, <2>5
    <3>. QED  BY <1>1, <3>1, <3>2 DEF Sorted
  <2>. QED  BY <1>7, <2>0, <2>1, <2>2, <2>3, <2>4, <2>5
<1>. QED  BY <1>2, <1>3, <1>5, <1>8, <1>9

(* A miss whose buffer the cache takes. *)
LEMMA InsertStep ==
  ASSUME Inv, NEW k \in Keys, Miss(k), NEW b \in Buffers \ allocated,
         used_mem + SizeOf[k] <= MaxMem, Insert(k, b),
         allocated' = allocated \cup {b}
  PROVE  /\ Inv' /\ Assigned' = Assigned \cup {<<k, b>>}
         /\ \A a \in Assigned : a[2] # b
<1>1. \A j \in DOMAIN slots : slots[j].key # k
  BY MissIsMiss
<1>2. PICK p \in 0..Len(slots), e \in Slots :
        /\ e.key = k /\ e.user = b /\ e.size = SizeOf[k] /\ e.last_access = time_seconds
        /\ Inserted(slots', slots, p, e)
        /\ slots' \in Seq(Slots)
        /\ Sorted(slots')
  BY <1>1, InsertSlots
<1>3. /\ Len(slots') = Len(slots) + 1 /\ DOMAIN slots' = 1..Len(slots) + 1
      /\ \A i \in 1..p : slots'[i] = slots[i]
      /\ slots'[p + 1] = e
      /\ \A i \in p + 2..Len(slots) + 1 : slots'[i] = slots[i - 1]
  BY <1>2 DEF Inserted
<1>4. /\ Len(slots) \in Nat /\ DOMAIN slots = 1..Len(slots) /\ slots \in Seq(Keyed)
      /\ time_seconds \in 0..Modulus - 1
  BY SlotsType DEF Inv
<1>5. /\ answer' = <<k, "miss">> /\ idle' = [idle EXCEPT ![k] = 0]
      /\ UNCHANGED <<time_seconds, setBacks>>
      /\ used_mem' = used_mem + SizeOf[k]
      /\ capacity' = IF Len(slots) = capacity THEN 2 * capacity ELSE capacity
  BY DEF Miss, Insert
(* A slot is the new one or an old one, and every old one is there. *)
<1>6. ASSUME NEW i \in DOMAIN slots', i # p + 1
      PROVE  \E m \in DOMAIN slots : slots'[i] = slots[m] /\ m = IF i <= p THEN i ELSE i - 1
  <2>1. CASE i <= p
    <3>1. i \in 1..p /\ i \in DOMAIN slots
      BY <1>3, <1>4, <2>1
    <3>. QED  BY <1>3, <2>1, <3>1
  <2>2. CASE ~(i <= p)
    <3>1. i \in p + 2..Len(slots) + 1 /\ i - 1 \in DOMAIN slots
      BY <1>3, <1>4, <1>6, <2>2
    <3>. QED  BY <1>3, <2>2, <3>1
  <2>. QED  BY <2>1, <2>2
<1>7. ASSUME NEW m \in DOMAIN slots
      PROVE  \E i \in DOMAIN slots' : slots'[i] = slots[m]
  <2>1. CASE m <= p
    <3>1. m \in 1..p /\ m \in DOMAIN slots'
      BY <1>3, <1>4, <2>1
    <3>. QED  BY <1>3, <3>1
  <2>2. CASE ~(m <= p)
    <3>1. /\ m + 1 \in p + 2..Len(slots) + 1 /\ m + 1 \in DOMAIN slots' /\ (m + 1) - 1 = m
      BY <1>3, <1>4, <2>2
    <3>. QED  BY <1>3, <3>1
  <2>. QED  BY <2>1, <2>2
<1>8. p + 1 \in DOMAIN slots'
  BY <1>3, <1>4
<1>9. TypeOK'
  <2>1. used_mem' \in Nat
    <3>1. SizeOf[k] \in Nat /\ used_mem \in Nat
      BY CacheAssumption DEF Inv, TypeOK
    <3>. QED  BY <1>5, <3>1
  <2>2. capacity' \in Nat /\ Len(slots') <= capacity'
    <3>1. capacity \in Nat /\ Len(slots) <= capacity
      BY DEF Inv, TypeOK
    <3>2. capacity # 0
      BY DEF Inv, TypeOK
    <3>. QED  BY <1>3, <1>4, <1>5, <3>1, <3>2
  <2>3. idle' \in [Keys -> 0..DecayTime]
    BY <1>5, CacheAssumption DEF Inv, TypeOK
  <2>. QED  BY <1>2, <1>5, <2>1, <2>2, <2>3 DEF Inv, TypeOK
<1>10. MemAccounted'
  <2>1. e \in Keyed
    BY <1>2, CacheAssumption DEF Slots, Keyed
  <2>2. Memory(slots', DOMAIN slots') = Memory(slots, DOMAIN slots) + SizeOf[k]
    BY <1>2, <1>4, <2>1, MemoryInsert
  <2>. QED  BY <1>5, <2>2 DEF Inv, MemAccounted
<1>11. BuffersOwned'
  <2>1. allocated = Users(slots) /\ \A m \in DOMAIN slots : slots[m].user # b
    BY DEF Inv, BuffersOwned, Users
  <2>2. Users(slots') = Users(slots) \cup {b}
    <3>1. Users(slots') \subseteq Users(slots) \cup {b}
      BY <1>2, <1>3, <1>6 DEF Users
    <3>2. Users(slots) \cup {b} \subseteq Users(slots')
      BY <1>2, <1>3, <1>7, <1>8 DEF Users
    <3>. QED  BY <3>1, <3>2
  <2>3. ASSUME NEW i \in DOMAIN slots', NEW j \in DOMAIN slots', i # j
        PROVE  slots'[i].user # slots'[j].user
    <3>1. CASE i = p + 1
      BY <1>2, <1>3, <1>6, <2>1, <2>3, <3>1
    <3>2. CASE j = p + 1
      BY <1>2, <1>3, <1>6, <2>1, <2>3, <3>2
    <3>3. CASE i # p + 1 /\ j # p + 1
      <4>1. PICK m \in DOMAIN slots : slots'[i] = slots[m] /\ m = IF i <= p THEN i ELSE i - 1
        BY <1>6, <3>3
      <4>2. PICK n \in DOMAIN slots : slots'[j] = slots[n] /\ n = IF j <= p THEN j ELSE j - 1
        BY <1>6, <3>3
      <4>3. m # n
        BY <1>3, <1>4, <2>3, <3>3, <4>1, <4>2
      <4>. QED  BY <4>1, <4>2, <4>3 DEF Inv, BuffersOwned
    <3>. QED  BY <3>1, <3>2, <3>3
  <2>. QED  BY <2>1, <2>2, <2>3 DEF BuffersOwned
<1>12. IdleCovers'
  <2>. SUFFICES ASSUME NEW j \in DOMAIN slots'
                PROVE  idle'[slots'[j].key] = DecayTime \/ AgeOf(j)' <= idle'[slots'[j].key]
    BY DEF IdleCovers
  <2>1. CASE j = p + 1
    <3>1. idle'[k] = 0
      BY <1>5 DEF Inv, TypeOK
    <3>2. AgeOf(j)' = 0
      <4>1. time_seconds \in Int /\ time_seconds - time_seconds = 0 /\ 0 % Modulus = 0
        BY <1>4, CacheAssumption
      <4>. QED  BY <1>2, <1>3, <1>5, <2>1, <4>1 DEF AgeOf
    <3>. QED  BY <1>2, <1>3, <2>1, <3>1, <3>2
  <2>2. CASE j # p + 1
    <3>1. PICK m \in DOMAIN slots : slots'[j] = slots[m]
      BY <1>6, <2>2
    <3>2. slots[m].key # k /\ slots[m].key \in Keys
      BY <1>1, SlotsType DEF Inv
    <3>3. idle'[slots[m].key] = idle[slots[m].key]
      BY <1>5, <3>2 DEF Inv, TypeOK
    <3>4. AgeOf(j)' = AgeOf(m)
      BY <1>5, <3>1 DEF AgeOf
    <3>. QED  BY <3>1, <3>3, <3>4 DEF Inv, IdleCovers
  <2>. QED  BY <2>1, <2>2
<1>13. Assigned' = Assigned \cup {<<k, b>>}
  <2>1. Assigned' \subseteq Assigned \cup {<<k, b>>}
    BY <1>2, <1>3, <1>6 DEF Assigned
  <2>2. Assigned \cup {<<k, b>>} \subseteq Assigned'
    BY <1>2, <1>3, <1>7, <1>8 DEF Assigned
  <2>. QED  BY <2>1, <2>2
<1>14. \A a \in Assigned : a[2] # b
  BY DEF Inv, BuffersOwned, Users, Assigned
<1>. QED  BY <1>2, <1>9, <1>10, <1>11, <1>12, <1>13, <1>14 DEF Inv

(* A miss whose buffer the cache refuses leaves the cache as it is. *)
LEMMA RefusedStep ==
  ASSUME Inv, NEW k \in Keys, Miss(k), UNCHANGED cacheVars
  PROVE  Inv' /\ Assigned' = Assigned
<1>1. \A j \in DOMAIN slots : slots[j].key # k
  BY MissIsMiss
<1>2. /\ answer' = <<k, "miss">> /\ idle' = [idle EXCEPT ![k] = 0]
      /\ UNCHANGED <<time_seconds, setBacks>> /\ UNCHANGED cacheVars
  BY DEF Miss
<1>3. TypeOK'
  <2>1. idle' \in [Keys -> 0..DecayTime]
    BY <1>2, CacheAssumption DEF Inv, TypeOK
  <2>. QED  BY <1>2, <2>1 DEF Inv, TypeOK, cacheVars
<1>4. IdleCovers'
  <2>1. ASSUME NEW j \in DOMAIN slots
        PROVE  idle'[slots[j].key] = idle[slots[j].key]
    BY <1>1, <1>2, SlotsType DEF Inv, TypeOK
  <2>2. slots' = slots /\ time_seconds' = time_seconds
    BY <1>2 DEF cacheVars
  <2>. QED  BY <2>1, <2>2 DEF Inv, IdleCovers, AgeOf
<1>. QED  BY <1>2, <1>3, <1>4
          DEF Inv, MemAccounted, BuffersOwned, Users, Sorted, Assigned, cacheVars

-----------------------------------------------------------------------------
(* Decay. *)
LEMMA DecayedSlot ==
  ASSUME TypeOK, NEW i \in DOMAIN slots, NEW now \in 0..Modulus - 1
  PROVE  LET e == Decayed(slots[i], now)
             age == (now - slots[i].last_access) % Modulus IN
         /\ e \in Keyed /\ e.key = slots[i].key /\ e.user = slots[i].user
         /\ e.size = slots[i].size
         /\ age < DecayTime => e = slots[i]
<1>. DEFINE x == slots[i]
            age == (now - x.last_access) % Modulus
            periods == age \div DecayTime
            freq == IF periods > x.freq THEN 0 ELSE x.freq - periods
            e == Decayed(x, now)
<1>1. /\ x \in Slots /\ x.freq \in 1..MaxFreq /\ x.last_access \in 0..Modulus - 1
  BY SlotsType
<1>. HIDE DEF x
<1>2. age \in Nat
  <2>1. now - x.last_access \in Int
    BY <1>1, CacheAssumption
  <2>. QED  BY <2>1, ModType, CacheAssumption
<1>. HIDE DEF age
<1>3. periods \in Nat /\ (age < DecayTime => periods = 0)
  BY <1>2, Periods
<1>. HIDE DEF periods
<1>4. freq \in 0..MaxFreq /\ (periods = 0 => freq = x.freq)
  BY <1>1, <1>3, CacheAssumption
<1>5. e = [x EXCEPT !.freq = freq,
                    !.last_access = IF freq # x.freq THEN now ELSE @]
  BY DEF Decayed, age, periods
<1>. HIDE DEF freq, e
<1>6. /\ e \in Keyed /\ e.key = x.key /\ e.user = x.user /\ e.size = x.size
  BY <1>1, <1>4, <1>5 DEF Slots, Keyed
<1>7. ASSUME periods = 0 PROVE e = x
  <2>1. freq = x.freq
    BY <1>4, <1>7
  <2>2. e = [x EXCEPT !.freq = x.freq, !.last_access = x.last_access]
    BY <1>5, <2>1
  <2>. QED  BY <1>1, <2>2 DEF Slots
<1>. QED  BY <1>3, <1>6, <1>7 DEF e, x, age

(* An update either makes a key idle for a whole period or lets its slot   *)
(* alone.                                                                  *)
LEMMA YoungStays ==
  ASSUME Inv, NEW d \in ClockSteps, Update(d), NEW i \in DOMAIN slots,
         idle'[slots[i].key] # DecayTime
  PROVE  LET now == (time_seconds + d) % Modulus
             age == (now - slots[i].last_access) % Modulus IN
         age < DecayTime /\ age <= idle'[slots[i].key]
<1>. DEFINE k == slots[i].key
            now == (time_seconds + d) % Modulus
            age == (now - slots[i].last_access) % Modulus
<1>1. /\ k \in Keys /\ slots[i].last_access \in Int /\ time_seconds \in Int
      /\ idle[k] \in 0..DecayTime /\ d \in Int /\ DecayTime \in Nat
  BY SlotsType, CacheAssumption DEF Inv, TypeOK
<1>2. idle'[k] = IF d < 0 \/ idle[k] + d >= DecayTime THEN DecayTime ELSE idle[k] + d
  BY <1>1 DEF Update
<1>3. d \in Nat /\ idle[k] + d < DecayTime /\ idle'[k] = idle[k] + d /\ idle[k] # DecayTime
  BY <1>1, <1>2
<1>4. AgeOf(i) <= idle[k]
  BY <1>3 DEF Inv, IdleCovers
<1>5. age <= AgeOf(i) + d
  BY <1>1, <1>3, AgeGrows DEF AgeOf
<1>6. AgeOf(i) \in Int /\ age \in Int
  <2>1. time_seconds - slots[i].last_access \in Int /\ now \in Int
    BY <1>1, ModType
  <2>. HIDE DEF now
  <2>2. now - slots[i].last_access \in Int
    BY <1>1, <2>1
  <2>. QED  BY <2>1, <2>2, ModType DEF AgeOf
<1>. HIDE DEF k, age
<1>7. age < DecayTime /\ age <= idle'[k]
  BY <1>1, <1>3, <1>4, <1>5, <1>6
<1>. QED  BY <1>7 DEF k, age

LEMMA AgedIs ==
  ASSUME Inv, NEW now \in 0..Modulus - 1, NEW s, s = Aged(now)
  PROVE  /\ s \in Seq(Keyed) /\ Len(s) = Len(slots) /\ DOMAIN s = DOMAIN slots
         /\ Sorted(s)
         /\ \A i \in DOMAIN slots :
              /\ s[i] = Decayed(slots[i], now)
              /\ s[i].key = slots[i].key /\ s[i].user = slots[i].user
              /\ s[i].size = slots[i].size
<1>1. /\ Len(slots) \in Nat /\ DOMAIN slots = 1..Len(slots) /\ TypeOK
  BY SlotsType DEF Inv
<1>2. /\ DOMAIN s = DOMAIN slots
      /\ \A i \in DOMAIN slots : s[i] = Decayed(slots[i], now)
      /\ s = [i \in 1..Len(slots) |-> s[i]]
  BY <1>1 DEF Aged
<1>3. \A i \in DOMAIN slots :
        /\ s[i] \in Keyed /\ s[i].key = slots[i].key /\ s[i].user = slots[i].user
        /\ s[i].size = slots[i].size
  BY <1>1, <1>2, DecayedSlot
<1>4. s \in Seq(Keyed) /\ Len(s) = Len(slots)
  BY <1>1, <1>2, <1>3
<1>5. Sorted(s)
  <2>. SUFFICES ASSUME NEW i \in DOMAIN slots, NEW j \in DOMAIN slots, i < j
                PROVE  s[i].key < s[j].key
    BY <1>2, Zenon DEF Sorted
  <2>1. slots[i].key < slots[j].key
    BY DEF Inv, Sorted
  <2>. QED  BY <1>3, <2>1
<1>. QED  BY <1>2, <1>3, <1>4, <1>5

(* ts_cache_update keeps the invariant, and drops only what is idle. *)
LEMMA UpdateStep ==
  ASSUME Inv, NEW d \in ClockSteps, Update(d)
  PROVE  /\ Inv' /\ Assigned' \subseteq Assigned /\ answer' = answer
         /\ \A k \in Keys : Cached(k) /\ ~Cached(k)' => idle'[k] = DecayTime
<1>. DEFINE now == (time_seconds + d) % Modulus
            s == Aged(now)
<1>1. now \in 0..Modulus - 1
  <2>1. time_seconds + d \in Int
    BY SlotsType, CacheAssumption DEF Inv
  <2>. QED  BY <2>1, ModType
<1>2. /\ time_seconds' = now /\ slots' = Kept(s)
      /\ used_mem' = used_mem - Memory(slots, Expired(s))
      /\ allocated' = allocated \ {slots[i].user : i \in Expired(s)}
      /\ UNCHANGED <<capacity, answer>>
      /\ setBacks' = IF d < 0 THEN setBacks + 1 ELSE setBacks
      /\ d < 0 => setBacks < MaxSetBacks
      /\ idle' = [k \in Keys |-> IF d < 0 \/ idle[k] + d >= DecayTime
                                 THEN DecayTime ELSE idle[k] + d]
  BY DEF Update
<1>3. \A i \in DOMAIN slots : idle'[slots[i].key] # DecayTime =>
        LET age == (now - slots[i].last_access) % Modulus IN
        age < DecayTime /\ age <= idle'[slots[i].key]
  BY YoungStays
<1>. HIDE DEF now
<1>4. /\ s \in Seq(Keyed) /\ Len(s) = Len(slots) /\ DOMAIN s = DOMAIN slots
      /\ Sorted(s)
      /\ \A i \in DOMAIN slots :
           /\ s[i] = Decayed(slots[i], now)
           /\ s[i].key = slots[i].key /\ s[i].user = slots[i].user
           /\ s[i].size = slots[i].size
  <2>. HIDE DEF s
  <2>1. s = Aged(now)
    BY DEF s
  <2>. QED  BY <1>1, <2>1, AgedIs
<1>. HIDE DEF s
<1>5. /\ slots \in Seq(Keyed) /\ Len(slots) \in Nat /\ DOMAIN slots = 1..Len(slots)
      /\ \A i \in DOMAIN slots : slots[i].freq \in 1..MaxFreq /\ slots[i].key \in Keys
  BY SlotsType DEF Inv
<1>6. /\ Closed(s, slots', Len(slots))
      /\ Memory(slots', DOMAIN slots') = Memory(s, DOMAIN s) - Memory(s, Expired(s))
      /\ Memory(s, DOMAIN s) \in Nat /\ Memory(s, Expired(s)) \in Nat
  BY <1>2, <1>4, KeptIs
<1>7. /\ slots' \in Seq(Keyed) /\ Len(slots') <= Len(slots) /\ Len(slots') \in Nat
      /\ DOMAIN slots' = 1..Len(slots')
      /\ \A j \in DOMAIN slots' : \E i \in DOMAIN slots \ Expired(s) : slots'[j] = s[i]
      /\ \A i \in DOMAIN slots \ Expired(s) : \E j \in DOMAIN slots' : slots'[j] = s[i]
      /\ Sorted(slots')
  <2>1. slots' \in Seq(Keyed) /\ DOMAIN slots' = 1..Len(slots') /\ Len(slots') \in Nat
    BY <1>6 DEF Closed
  <2>. QED  BY <1>5, <1>6, <2>1 DEF Closed
<1>8. Expired(s) \subseteq DOMAIN slots
  BY <1>4 DEF Expired
<1>9. ASSUME NEW i \in DOMAIN slots, idle'[slots[i].key] # DecayTime
      PROVE  s[i] = slots[i] /\ i \notin Expired(s)
  <2>1. TypeOK /\ (now - slots[i].last_access) % Modulus < DecayTime
    BY <1>3, <1>9 DEF Inv
  <2>2. s[i] = slots[i]
    BY <1>1, <1>4, <2>1, DecayedSlot
  <2>. QED  BY <1>5, <2>2 DEF Expired
<1>10. slots' \in Seq(Slots)
  <2>1. ASSUME NEW j \in DOMAIN slots' PROVE slots'[j] \in Slots
    <3>1. PICK i \in DOMAIN slots \ Expired(s) : slots'[j] = s[i]
      BY <1>7
    <3>2. s[i] \in Keyed /\ s[i].freq # 0 /\ s[i].freq \in 0..MaxFreq
      BY <1>4, KeyedType DEF Expired
    <3>. QED  BY <3>1, <3>2, CacheAssumption DEF Keyed, Slots
  <2>. QED  BY <1>7, <2>1
<1>11. /\ Memory(slots, DOMAIN slots) = Memory(s, DOMAIN s)
       /\ Memory(slots, Expired(s)) = Memory(s, Expired(s))
  <2>1. \A i \in 1..Len(slots) : slots[i].size = s[i].size
    BY <1>4, <1>5
  <2>. QED  BY <1>4, <1>5, <2>1, MemorySame
<1>12. MemAccounted' /\ used_mem' \in Nat
  <2>1. used_mem' = Memory(slots', DOMAIN slots')
    BY <1>2, <1>6, <1>11 DEF Inv, MemAccounted
  <2>2. PICK f \in [0..Len(slots') -> Nat] :
          Memory(slots', DOMAIN slots') = f[Len(slots')]
    BY <1>7, KeyedType, MemoryDefined
  <2>3. used_mem' \in Nat
    BY <1>7, <2>1, <2>2
  <2>4. used_mem' <= MaxMem
    BY <1>2, <1>6, <1>11, CacheAssumption DEF Inv, TypeOK, MemAccounted
  <2>. QED  BY <2>1, <2>3, <2>4 DEF MemAccounted
<1>13. TypeOK'
  <2>1. capacity' \in Nat \ {0} /\ Len(slots') <= capacity'
    BY <1>2, <1>5, <1>7 DEF Inv, TypeOK
  <2>2. idle' \in [Keys -> 0..DecayTime]
    <3>1. ASSUME NEW k \in Keys
          PROVE  (IF d < 0 \/ idle[k] + d >= DecayTime THEN DecayTime ELSE idle[k] + d)
                   \in 0..DecayTime
      <4>1. idle[k] \in 0..DecayTime /\ d \in Int /\ DecayTime \in Nat
        BY CacheAssumption DEF Inv, TypeOK
      <4>. QED  BY <4>1
    <3>. QED  BY <1>2, <3>1
  <2>3. setBacks' \in 0..MaxSetBacks
    BY <1>2, CacheAssumption DEF Inv, TypeOK
  <2>4. allocated' \subseteq Buffers /\ (answer' = <<>> \/ answer' \in Keys \X (Buffers \cup {"miss"}))
    BY <1>2 DEF Inv, TypeOK
  <2>. QED  BY <1>1, <1>2, <1>10, <1>12, <2>1, <2>2, <2>3, <2>4 DEF TypeOK
<1>14. BuffersOwned'
  <2>1. allocated = Users(slots)
        /\ \A i, j \in DOMAIN slots : i # j => slots[i].user # slots[j].user
    BY DEF Inv, BuffersOwned
  <2>2. Users(slots') = {slots[i].user : i \in DOMAIN slots \ Expired(s)}
    <3>1. ASSUME NEW j \in DOMAIN slots'
          PROVE  \E i \in DOMAIN slots \ Expired(s) : slots'[j].user = slots[i].user
      <4>1. PICK i \in DOMAIN slots \ Expired(s) : slots'[j] = s[i]
        BY <1>7
      <4>. QED  BY <1>4, <4>1
    <3>2. ASSUME NEW i \in DOMAIN slots \ Expired(s)
          PROVE  slots[i].user \in Users(slots')
      <4>1. PICK j \in DOMAIN slots' : slots'[j] = s[i]
        BY <1>7
      <4>2. slots'[j].user = slots[i].user
        BY <1>4, <4>1
      <4>. QED  BY <4>1, <4>2 DEF Users
    <3>3. Users(slots') \subseteq {slots[i].user : i \in DOMAIN slots \ Expired(s)}
      BY <3>1 DEF Users
    <3>. QED  BY <3>2, <3>3
  <2>3. allocated' = {slots[i].user : i \in DOMAIN slots \ Expired(s)}
    BY <1>2, <1>8, <2>1 DEF Users
  <2>4. ASSUME NEW i \in DOMAIN slots', NEW j \in DOMAIN slots', i # j
        PROVE  slots'[i].user # slots'[j].user
    <3>1. PICK m \in DOMAIN slots : slots'[i] = s[m]
      BY <1>7
    <3>2. PICK n \in DOMAIN slots : slots'[j] = s[n]
      BY <1>7
    <3>3. slots'[i].key # slots'[j].key
      <4>1. i \in Nat /\ j \in Nat /\ slots'[i].key \in Nat /\ slots'[j].key \in Nat
        <5>1. i \in Nat /\ j \in Nat
          <6>1. DOMAIN slots' = 1..Len(slots')
            BY <1>7
          <6>. QED  BY <6>1
        <5>2. \A l \in DOMAIN slots : slots[l].key \in Nat
          BY <1>5, CacheAssumption
        <5>. QED  BY <1>4, <3>1, <3>2, <5>1, <5>2
      <4>2. i < j => slots'[i].key < slots'[j].key
        BY <1>7 DEF Sorted
      <4>3. j < i => slots'[j].key < slots'[i].key
        BY <1>7 DEF Sorted
      <4>. QED  BY <2>4, <4>1, <4>2, <4>3
    <3>4. m # n
      BY <3>1, <3>2, <3>3
    <3>. QED  BY <1>4, <2>1, <3>1, <3>2, <3>4
  <2>. QED  BY <2>2, <2>3, <2>4 DEF BuffersOwned
<1>15. IdleCovers'
  <2>. SUFFICES ASSUME NEW j \in DOMAIN slots', idle'[slots'[j].key] # DecayTime
                PROVE  AgeOf(j)' <= idle'[slots'[j].key]
    BY DEF IdleCovers
  <2>1. PICK i \in DOMAIN slots : slots'[j] = s[i]
    BY <1>7
  <2>2. slots'[j].key = slots[i].key
    BY <1>4, <2>1
  <2>3. s[i] = slots[i] /\ (now - slots[i].last_access) % Modulus <= idle'[slots[i].key]
    BY <1>3, <1>9, <2>2
  <2>4. AgeOf(j)' = (now - slots[i].last_access) % Modulus
    BY <1>2, <2>1, <2>3 DEF AgeOf
  <2>. QED  BY <2>2, <2>3, <2>4
<1>16. Assigned' \subseteq Assigned
  <2>1. ASSUME NEW j \in DOMAIN slots'
        PROVE  <<slots'[j].key, slots'[j].user>> \in Assigned
    <3>1. PICK i \in DOMAIN slots : slots'[j] = s[i]
      BY <1>7
    <3>2. slots'[j].key = slots[i].key /\ slots'[j].user = slots[i].user
      BY <1>4, <3>1
    <3>. QED  BY <3>2 DEF Assigned
  <2>. QED  BY <2>1 DEF Assigned
<1>17. ASSUME NEW k \in Keys, Cached(k), ~Cached(k)' PROVE idle'[k] = DecayTime
  <2>. SUFFICES ASSUME idle'[k] # DecayTime PROVE FALSE
    OBVIOUS
  <2>1. PICK i \in DOMAIN slots : slots[i].key = k
    BY <1>17 DEF Cached
  <2>2. i \in DOMAIN slots \ Expired(s)
    BY <1>9, <2>1
  <2>3. PICK j \in DOMAIN slots' : slots'[j] = s[i]
    BY <1>7, <2>2
  <2>. QED  BY <1>4, <1>17, <2>1, <2>3 DEF Cached
<1>. QED  BY <1>2, <1>7, <1>12, <1>13, <1>14, <1>15, <1>16, <1>17 DEF Inv

-----------------------------------------------------------------------------
LEMMA NextInv == Inv /\ [Next]_vars => Inv'
<1>. SUFFICES ASSUME Inv, [Next]_vars PROVE Inv'
  OBVIOUS
<1>1. ASSUME NEW d \in ClockSteps, Update(d) PROVE Inv'
  BY <1>1, UpdateStep
<1>2. ASSUME NEW k \in Keys, Hit(k) PROVE Inv'
  BY <1>2, HitStep
<1>3. ASSUME NEW k \in Keys, Miss(k) PROVE Inv'
  <2>1. CASE UNCHANGED cacheVars
    BY <1>3, <2>1, RefusedStep
  <2>2. CASE \E b \in Buffers \ allocated :
               /\ used_mem + SizeOf[k] <= MaxMem
               /\ Insert(k, b)
               /\ allocated' = allocated \cup {b}
    BY <1>3, <2>2, InsertStep
  <2>. QED  BY <1>3, <2>1, <2>2 DEF Miss, Refused
<1>4. CASE UNCHANGED vars
  BY <1>4 DEF vars, cacheVars, Inv, TypeOK, MemAccounted, BuffersOwned, Users, Sorted,
              IdleCovers, AgeOf
<1>. QED  BY <1>1, <1>2, <1>3, <1>4 DEF Next

LEMMA AlwaysInv == Spec => []Inv
BY InitInv, NextInv, PTL DEF Spec

(* Every slot is of its type and no slot is written beyond the array, for  *)
(* every capacity the cache begins with.                                   *)
THEOREM TypeCorrect == Spec => []TypeOK
<1>1. Inv => TypeOK
  BY DEF Inv
<1>. QED  BY <1>1, AlwaysInv, PTL

(* used_mem is what the slots take, through every insertion and expiry, and *)
(* never exceeds the limit.                                                 *)
THEOREM MemoryIsAccounted == Spec => []MemAccounted
<1>1. Inv => MemAccounted
  BY DEF Inv
<1>. QED  BY <1>1, AlwaysInv, PTL

(* A buffer is freed once and never leaked. *)
THEOREM BuffersAreOwned == Spec => []BuffersOwned
<1>1. Inv => BuffersOwned
  BY DEF Inv
<1>. QED  BY <1>1, AlwaysInv, PTL

(* Only a key that was not used for a whole period is dropped, across the  *)
(* end of the range of the clock, unless the clock was set back.           *)
THEOREM OnlyIdleExpires == Spec => ExpiresOnlyIdle
<1>1. ASSUME Inv, [Next]_vars
      PROVE  [\A k \in Keys : Cached(k) /\ ~Cached(k)' => idle'[k] = DecayTime]_vars
  <2>1. ASSUME NEW d \in ClockSteps, Update(d), NEW k \in Keys, Cached(k), ~Cached(k)'
        PROVE  idle'[k] = DecayTime
    BY <1>1, <2>1, UpdateStep
  <2>2. ASSUME Assigned \subseteq Assigned', NEW k \in Keys, Cached(k)
        PROVE  Cached(k)'
    <3>1. PICK i \in DOMAIN slots : slots[i].key = k
      BY <2>2 DEF Cached
    <3>2. <<k, slots[i].user>> \in Assigned'
      BY <2>2, <3>1 DEF Assigned
    <3>3. PICK j \in DOMAIN slots' : <<slots'[j].key, slots'[j].user>> = <<k, slots[i].user>>
      BY <3>2 DEF Assigned
    <3>. QED  BY <3>3 DEF Cached
  <2>3. ASSUME NEW k \in Keys, Hit(k) \/ Miss(k) PROVE Assigned \subseteq Assigned'
    <3>1. CASE Hit(k)
      BY <1>1, <3>1, HitStep
    <3>2. CASE Miss(k) /\ UNCHANGED cacheVars
      BY <1>1, <3>2, RefusedStep
    <3>3. CASE Miss(k) /\ \E b \in Buffers \ allocated :
                 /\ used_mem + SizeOf[k] <= MaxMem
                 /\ Insert(k, b)
                 /\ allocated' = allocated \cup {b}
      BY <1>1, <3>3, InsertStep
    <3>. QED  BY <2>3, <3>1, <3>2, <3>3 DEF Miss, Refused
  <2>. QED  BY <1>1, <2>1, <2>2, <2>3 DEF Next
<1>. QED  BY <1>1, AlwaysInv, PTL DEF Spec, ExpiresOnlyIdle

(* The sorted slots with their binary searches are the map of CacheMap. *)
THEOREM CacheIsMap == Spec => ImplementsMap
<1>. USE DEF Assigned
<1>1. Init => Map!Init
  BY DEF Init, Map!Init
<1>2. ASSUME Inv, [Next]_vars PROVE [Map!Next]_(Map!mapVars)
  <2>1. ASSUME NEW d \in ClockSteps, Update(d) PROVE Map!Expire
    BY <1>2, <2>1, UpdateStep DEF Map!Expire
  <2>2. ASSUME NEW k \in Keys, Hit(k) PROVE Map!Hit(k)
    BY <1>2, <2>2, HitStep DEF Map!Hit
  <2>3. ASSUME NEW k \in Keys, Miss(k) PROVE Map!Miss(k)
    <3>1. ~Map!Cached(k) /\ answer' = <<k, "miss">>
      <4>1. \A j \in DOMAIN slots : slots[j].key # k
        BY <1>2, <2>3, MissIsMiss
      <4>. QED  BY <2>3, <4>1 DEF Miss, Map!Cached
    <3>2. CASE UNCHANGED cacheVars
      BY <1>2, <2>3, <3>1, <3>2, RefusedStep DEF Map!Miss
    <3>3. CASE \E b \in Buffers \ allocated :
                 /\ used_mem + SizeOf[k] <= MaxMem
                 /\ Insert(k, b)
                 /\ allocated' = allocated \cup {b}
      BY <1>2, <2>3, <3>1, <3>3, InsertStep DEF Map!Miss
    <3>. QED  BY <2>3, <3>2, <3>3 DEF Miss, Refused
  <2>4. CASE UNCHANGED vars
    BY <2>4 DEF vars, cacheVars, Map!mapVars
  <2>. QED  BY <1>2, <2>1, <2>2, <2>3, <2>4 DEF Next, Map!Next
<1>. QED  BY <1>1, <1>2, AlwaysInv, PTL DEF Spec, ImplementsMap, Map!Spec
=============================================================================
