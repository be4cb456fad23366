------------------------------ MODULE FoundProofs ------------------------------
(***************************************************************************)
(* What is found for a request is sound, for any texts, documents,         *)
(* memories and capabilities: the context pipeline, retrieval, the recall  *)
(* of memories and the intake, as parts of MCRequests.  Each of their      *)
(* steps computes a whole answer from sorted lists and folds over them;    *)
(* the proofs say what a sorted list and a fold are, and from that what    *)
(* the answer is.                                                          *)
(***************************************************************************)
EXTENDS MCRequests, FiniteSetTheorems, SequenceTheorems, WellFoundedInduction, TLAPS

(* Each step is a step of every part, or leaves it as it is. *)
LEMMA PartsStep ==
  ASSUME [Next]_vars
  PROVE  /\ [ContextNext]_contextVars /\ [RetrievalNext]_retrievalVars
         /\ [RecallNext]_recallVars /\ [IntakeNext]_intakeVars
BY DEF Next, vars, restVars

------------------------------------------------------------------------------
(* Induction *)

LEMMA LeastNumber ==
  ASSUME NEW T, T \subseteq Nat, T # {}
  PROVE  \E x \in T : \A y \in T : x <= y
<1>1. PICK x \in T : \A y \in T : ~(<<y, x>> \in OpToRel(<, Nat))
  <2>1. \E x \in T : \A y \in T : ~(<<y, x>> \in OpToRel(<, Nat))
    BY WFMin, NatLessThanWellFounded, Zenon
  <2> QED
    BY <2>1
<1>2. \A y \in T : ~(y < x)
  BY <1>1, Zenon DEF OpToRel
<1> QED
  BY <1>2

(* What holds of 0, and of each number up to n if it does of the one       *)
(* before, holds of all of them.                                           *)
LEMMA UpTo ==
  ASSUME NEW n \in Nat, NEW T, 0 \in T, \A k \in 0 .. n - 1 : k \in T => k + 1 \in T
  PROVE  \A k \in 0 .. n : k \in T
<1> DEFINE U == {k \in 0 .. n : k \notin T}
<1> SUFFICES ASSUME U # {} PROVE FALSE
  OBVIOUS
<1>1. PICK k \in U : \A m \in U : k <= m
  <2>1. U \subseteq Nat
    OBVIOUS
  <2> HIDE DEF U
  <2> QED
    BY <2>1, LeastNumber
<1>2. k # 0 /\ k - 1 \in 0 .. n - 1 /\ k - 1 \notin U /\ (k - 1) + 1 = k
  BY <1>1
<1> QED
  BY <1>1, <1>2

------------------------------------------------------------------------------
(* Places in an order *)

(* R puts every two elements of D in an order. *)
StrictOrder(R, D) ==
  /\ \A i \in D : <<i, i>> \notin R
  /\ \A i, j \in D : i # j => <<i, j>> \in R \/ <<j, i>> \in R
  /\ \A i, j, k \in D : <<i, j>> \in R /\ <<j, k>> \in R => <<i, k>> \in R

Before(R, D, i) == {j \in D : <<j, i>> \in R}

Rank(R, D, i) == Cardinality(Before(R, D, i))

(***************************************************************************)
(* What is before another has fewer before it.                             *)
(***************************************************************************)
LEMMA RanksFollow ==
  ASSUME NEW D, IsFiniteSet(D), NEW R, StrictOrder(R, D), NEW i \in D, NEW j \in D
  PROVE  /\ Rank(R, D, i) \in 0 .. Cardinality(D) - 1
         /\ <<i, j>> \in R <=> Rank(R, D, i) < Rank(R, D, j)
         /\ Rank(R, D, i) = Rank(R, D, j) => i = j
<1>1. ASSUME NEW a \in D
      PROVE  /\ IsFiniteSet(Before(R, D, a)) /\ Rank(R, D, a) \in Nat
             /\ Rank(R, D, a) < Cardinality(D) /\ Cardinality(D) \in Nat
  <2>1. Before(R, D, a) \subseteq D /\ a \notin Before(R, D, a)
    BY DEF Before, StrictOrder
  <2> DEFINE B == Before(R, D, a)
  <2> HIDE DEF B
  <2>2. /\ IsFiniteSet(B) /\ Cardinality(B) <= Cardinality(D)
        /\ Cardinality(D) = Cardinality(B) => D = B
    BY <2>1, FS_Subset DEF B
  <2>3. Cardinality(B) \in Nat /\ Cardinality(D) \in Nat
    BY <2>2, FS_CardinalityType
  <2>4. D # B
    BY <2>1 DEF B
  <2> QED
    BY <2>2, <2>3, <2>4 DEF Rank, B
<1>2. ASSUME NEW a \in D, NEW b \in D, <<a, b>> \in R
      PROVE  Rank(R, D, a) < Rank(R, D, b)
  <2>1. Before(R, D, a) \subseteq Before(R, D, b)
    BY <1>2 DEF Before, StrictOrder
  <2>2. a \in Before(R, D, b) /\ a \notin Before(R, D, a)
    BY <1>2 DEF Before, StrictOrder
  <2>3. Before(R, D, a) # Before(R, D, b)
    BY <2>2
  <2> QED
    BY <1>1, <2>1, <2>3, FS_Subset DEF Rank
<1>3. i = j \/ <<i, j>> \in R \/ <<j, i>> \in R
  BY DEF StrictOrder
<1> QED
  BY <1>1, <1>2, <1>3

(***************************************************************************)
(* Each rank is taken: n elements have n ranks below n, all different.     *)
(***************************************************************************)
LEMMA RanksAreTaken ==
  ASSUME NEW D, IsFiniteSet(D), NEW R, StrictOrder(R, D), NEW k \in 1 .. Cardinality(D)
  PROVE  \E i \in D : Rank(R, D, i) = k - 1
<1> DEFINE n == Cardinality(D)
           ranks == 0 .. n - 1
           rank == [i \in D |-> Rank(R, D, i)]
<1>1. n \in Nat
  BY FS_CardinalityType
<1>2. \A i \in D : Rank(R, D, i) \in ranks
  BY RanksFollow
<1>3. \A i, j \in D : Rank(R, D, i) = Rank(R, D, j) => i = j
  BY RanksFollow
<1>4. rank \in Injection(D, ranks)
  BY <1>2, <1>3 DEF Injection, IsInjective
<1>5. IsFiniteSet(ranks) /\ Cardinality(ranks) = n
  <2> HIDE DEF n
  <2>1. 0 \in Int /\ n - 1 \in Int
    BY <1>1
  <2>2. IsFiniteSet(ranks) /\ Cardinality(ranks) = IF 0 > n - 1 THEN 0 ELSE (n - 1) - 0 + 1
    BY <2>1, FS_Interval
  <2> QED
    BY <1>1, <2>2
<1> HIDE DEF ranks
<1>6. rank \in Surjection(D, ranks)
  BY <1>4, <1>5, FS_Injection
<1>7. \A r \in ranks : \E i \in D : rank[i] = r
  BY <1>6 DEF Surjection
<1>8. k - 1 \in ranks
  BY <1>1 DEF ranks
<1> QED
  BY <1>7, <1>8

(* The elements of D by rank. *)
InOrder(R, D) == [k \in 1 .. Cardinality(D) |-> CHOOSE i \in D : Rank(R, D, i) = k - 1]

(* Places that put the elements of D in the order R. *)
Ordered(p, R, D) ==
  /\ p \in [1 .. Cardinality(D) -> D]
  /\ \A a, b \in 1 .. Cardinality(D) : a < b <=> <<p[a], p[b]>> \in R
  /\ \A a, b \in 1 .. Cardinality(D) : p[a] = p[b] => a = b
  /\ \A i \in D : \E k \in 1 .. Cardinality(D) : p[k] = i

(***************************************************************************)
(* The elements by rank are in order, each at one place.                   *)
(***************************************************************************)
LEMMA RanksOrder ==
  ASSUME NEW D, IsFiniteSet(D), NEW R, StrictOrder(R, D)
  PROVE  Ordered(InOrder(R, D), R, D)
<1> DEFINE n == Cardinality(D)
           p == InOrder(R, D)
<1>1. n \in Nat
  BY FS_CardinalityType
<1>2. \A k \in 1 .. n : p[k] \in D /\ Rank(R, D, p[k]) = k - 1
  <2> TAKE k \in 1 .. n
  <2>1. \E i \in D : Rank(R, D, i) = k - 1
    BY RanksAreTaken
  <2>2. p[k] = CHOOSE i \in D : Rank(R, D, i) = k - 1
    BY DEF InOrder
  <2> QED
    BY <2>1, <2>2
<1>3. p \in [1 .. n -> D]
  BY <1>2 DEF InOrder
<1>4. \A i, j \in D : /\ Rank(R, D, i) \in 0 .. n - 1
                      /\ <<i, j>> \in R <=> Rank(R, D, i) < Rank(R, D, j)
                      /\ Rank(R, D, i) = Rank(R, D, j) => i = j
  BY RanksFollow
<1> HIDE DEF p, n
<1>5. \A a, b \in 1 .. n : a < b <=> <<p[a], p[b]>> \in R
  <2> TAKE a, b \in 1 .. n
  <2>1. Rank(R, D, p[a]) = a - 1 /\ Rank(R, D, p[b]) = b - 1
    BY <1>2
  <2>2. <<p[a], p[b]>> \in R <=> a - 1 < b - 1
    BY <1>2, <1>4, <2>1
  <2> QED
    BY <1>1, <2>2
<1>6. \A a, b \in 1 .. n : p[a] = p[b] => a = b
  <2> TAKE a, b \in 1 .. n
  <2> HAVE p[a] = p[b]
  <2>1. a - 1 = b - 1
    BY <1>2
  <2> QED
    BY <1>1, <2>1
<1>7. \A i \in D : \E k \in 1 .. n : p[k] = i
  <2> TAKE i \in D
  <2> DEFINE k == Rank(R, D, i) + 1
  <2>1. Rank(R, D, i) \in 0 .. n - 1
    BY <1>4
  <2>2. k \in 1 .. n /\ k - 1 = Rank(R, D, i)
    BY <1>1, <2>1
  <2>3. p[k] \in D /\ Rank(R, D, p[k]) = Rank(R, D, i)
    BY <1>2, <2>2
  <2>4. p[k] = i
    BY <1>4, <2>3
  <2> QED
    BY <2>2, <2>4
<1> QED
  BY <1>3, <1>5, <1>6, <1>7 DEF Ordered, p, n

(***************************************************************************)
(* The smaller of two numbers, as Min gives it.                            *)
(***************************************************************************)
LEMMA MinOfTwo ==
  ASSUME NEW a \in Int, NEW b \in Int
  PROVE  Min({a, b}) = IF a <= b THEN a ELSE b
BY DEF Min

LEMMA MaxOfTwo ==
  ASSUME NEW a \in Int, NEW b \in Int
  PROVE  Max({a, b}) = IF a >= b THEN a ELSE b
BY DEF Max

LEMMA PlacesCount ==
  ASSUME NEW n \in Nat
  PROVE  IsFiniteSet(1 .. n) /\ Cardinality(1 .. n) = n
<1>1. 1 \in Int /\ n \in Int
  OBVIOUS
<1>2. IsFiniteSet(1 .. n) /\ Cardinality(1 .. n) = IF 1 > n THEN 0 ELSE n - 1 + 1
  BY <1>1, FS_Interval
<1> QED
  BY <1>2

------------------------------------------------------------------------------
(* Sorted lists *)

(* What a list has at the first m places of p. *)
At(list, p, m) == [i \in 1 .. m |-> list[p[i]]]

(* The places of a list by falling score, and as they stand. *)
ByScore(score, n) ==
  {q \in (1 .. n) \X (1 .. n) :
     score[q[1]] > score[q[2]] \/ (score[q[1]] = score[q[2]] /\ q[1] < q[2])}

(***************************************************************************)
(* Places by falling score are in a strict order, and so are places by     *)
(* falling pairs and memories by falling key below.                        *)
(***************************************************************************)
LEMMA ScoresOrder ==
  ASSUME NEW n \in Nat, NEW score \in [1 .. n -> Int]
  PROVE  StrictOrder(ByScore(score, n), 1 .. n)
<1>1. \A i, j \in 1 .. n : /\ <<i, j>> \in ByScore(score, n) <=>
                                score[i] > score[j] \/ (score[i] = score[j] /\ i < j)
                           /\ score[i] \in Int /\ score[j] \in Int
  BY DEF ByScore
<1> HIDE DEF ByScore
<1> QED
  BY <1>1 DEF StrictOrder

(***************************************************************************)
(* The first of a list are at the places that come first in an order of    *)
(* all of its places, which does not depend on how many are taken.         *)
(***************************************************************************)
LEMMA TopIsOrdered ==
  ASSUME NEW S, NEW list \in Seq(S), NEW score \in [1 .. Len(list) -> Int], NEW k \in Nat
  PROVE  LET p == InOrder(ByScore(score, Len(list)), 1 .. Len(list))
             m == IF k <= Len(list) THEN k ELSE Len(list)
         IN  /\ Ordered(p, ByScore(score, Len(list)), 1 .. Len(list))
             /\ Top(list, score, k) = At(list, p, m)
<1> DEFINE n == Len(list)
           D == 1 .. n
           R == ByScore(score, n)
           p == InOrder(R, D)
           m == IF k <= n THEN k ELSE n
<1>1. n \in Nat /\ DOMAIN list = D
  OBVIOUS
<1>2. IsFiniteSet(D) /\ Cardinality(D) = n
  BY <1>1, PlacesCount
<1>3. StrictOrder(R, D)
  BY <1>1, ScoresOrder
<1>4. Ordered(p, R, D)
  BY <1>2, <1>3, RanksOrder
<1>5. Min({k, n}) = m
  BY <1>1, MinOfTwo
<1>6. \A i \in D : {j \in D : score[j] > score[i] \/ (score[j] = score[i] /\ j < i)}
                     = Before(R, D, i)
  BY DEF Before, ByScore
<1> DEFINE first(i) == CHOOSE j \in D :
                 Cardinality({h \in D : score[h] > score[j] \/ (score[h] = score[j] /\ h < j)}) = i - 1
<1>7. Top(list, score, k) = [i \in 1 .. m |-> list[first(i)]]
  BY <1>1, <1>5 DEF Top
<1>8. \A i \in 1 .. m : first(i) = p[i]
  <2> TAKE i \in 1 .. m
  <2>1. i \in 1 .. n
    BY <1>1
  <2>2. p[i] = CHOOSE j \in D : Rank(R, D, j) = i - 1
    BY <1>2, <2>1 DEF InOrder
  <2>3. \A j \in D : Cardinality({h \in D : score[h] > score[j] \/ (score[h] = score[j] /\ h < j)})
                       = Rank(R, D, j)
    BY <1>6 DEF Rank
  <2> HIDE DEF D, R
  <2> QED
    BY <2>2, <2>3
<1> QED
  BY <1>4, <1>7, <1>8 DEF At

(* The places of a list by falling pairs, and as they stand. *)
ByPair(key, n) ==
  {q \in (1 .. n) \X (1 .. n) :
     Above(key[q[1]], key[q[2]]) \/ (key[q[1]] = key[q[2]] /\ q[1] < q[2])}

LEMMA PairsOrder ==
  ASSUME NEW n \in Nat, NEW key \in [1 .. n -> Int \X Int]
  PROVE  StrictOrder(ByPair(key, n), 1 .. n)
<1>1. \A i, j \in 1 .. n : <<i, j>> \in ByPair(key, n) <=>
                             Above(key[i], key[j]) \/ (key[i] = key[j] /\ i < j)
  BY DEF ByPair
<1>2. \A i \in 1 .. n : key[i] = <<key[i][1], key[i][2]>> /\ key[i][1] \in Int /\ key[i][2] \in Int
  OBVIOUS
<1>3. \A i, j \in 1 .. n : key[i] = key[j] <=> key[i][1] = key[j][1] /\ key[i][2] = key[j][2]
  BY <1>2
<1>4. \A i, j \in 1 .. n : <<i, j>> \in ByPair(key, n) <=>
        \/ key[i][1] > key[j][1]
        \/ key[i][1] = key[j][1] /\ key[i][2] > key[j][2]
        \/ key[i][1] = key[j][1] /\ key[i][2] = key[j][2] /\ i < j
  <2> TAKE i, j \in 1 .. n
  <2>1. <<i, j>> \in ByPair(key, n) <=> Above(key[i], key[j]) \/ (key[i] = key[j] /\ i < j)
    BY <1>1
  <2>2. key[i] = key[j] <=> key[i][1] = key[j][1] /\ key[i][2] = key[j][2]
    BY <1>3
  <2> QED
    BY <2>1, <2>2 DEF Above
<1> DEFINE major == [i \in 1 .. n |-> key[i][1]]
           minor == [i \in 1 .. n |-> key[i][2]]
<1>5. major \in [1 .. n -> Int] /\ minor \in [1 .. n -> Int]
  BY <1>2
<1>6. \A i, j \in 1 .. n : <<i, j>> \in ByPair(key, n) <=>
        \/ major[i] > major[j]
        \/ major[i] = major[j] /\ minor[i] > minor[j]
        \/ major[i] = major[j] /\ minor[i] = minor[j] /\ i < j
  BY <1>4
<1> HIDE DEF major, minor
<1>7. \A i \in 1 .. n : major[i] \in Int /\ minor[i] \in Int
  BY <1>5
<1>8. \A i \in 1 .. n : <<i, i>> \notin ByPair(key, n)
  <2> TAKE i \in 1 .. n
  <2> DEFINE a == major[i]
             b == minor[i]
  <2>1. a \in Int /\ b \in Int
    BY <1>7
  <2>2. <<i, i>> \in ByPair(key, n) <=> a > a \/ (a = a /\ b > b) \/ (a = a /\ b = b /\ i < i)
    BY <1>6
  <2> HIDE DEF a, b
  <2>3. ~(a > a) /\ ~(b > b) /\ ~(i < i)
    BY <2>1
  <2> QED
    BY <2>2, <2>3
<1>9. \A i, j \in 1 .. n : i # j => <<i, j>> \in ByPair(key, n) \/ <<j, i>> \in ByPair(key, n)
  <2> TAKE i, j \in 1 .. n
  <2> DEFINE a == major[i]
             b == major[j]
             d == minor[i]
             e == minor[j]
  <2>1. a \in Int /\ b \in Int /\ d \in Int /\ e \in Int /\ i \in Int /\ j \in Int
    BY <1>7
  <2>2. /\ <<i, j>> \in ByPair(key, n) <=> a > b \/ (a = b /\ d > e) \/ (a = b /\ d = e /\ i < j)
        /\ <<j, i>> \in ByPair(key, n) <=> b > a \/ (b = a /\ e > d) \/ (b = a /\ e = d /\ j < i)
    BY <1>6
  <2> HIDE DEF a, b, d, e
  <2> QED
    BY <2>1, <2>2
<1>10. \A i, j, k \in 1 .. n : <<i, j>> \in ByPair(key, n) /\ <<j, k>> \in ByPair(key, n)
                               => <<i, k>> \in ByPair(key, n)
  <2> TAKE i, j, k \in 1 .. n
  <2> HAVE <<i, j>> \in ByPair(key, n) /\ <<j, k>> \in ByPair(key, n)
  <2> DEFINE a == major[i]
             b == major[j]
             c == major[k]
             d == minor[i]
             e == minor[j]
             f == minor[k]
  <2>1. a \in Int /\ b \in Int /\ c \in Int /\ d \in Int /\ e \in Int /\ f \in Int
    BY <1>7
  <2>2. a > b \/ (a = b /\ d > e) \/ (a = b /\ d = e /\ i < j)
    BY <1>6
  <2>3. b > c \/ (b = c /\ e > f) \/ (b = c /\ e = f /\ j < k)
    BY <1>6
  <2>4. <<i, k>> \in ByPair(key, n) <=>
          a > c \/ (a = c /\ d > f) \/ (a = c /\ d = f /\ i < k)
    BY <1>6
  <2>5. i \in Int /\ j \in Int /\ k \in Int
    OBVIOUS
  <2> HIDE DEF a, b, c, d, e, f
  <2>6. a > c \/ (a = c /\ d > f) \/ (a = c /\ d = f /\ i < k)
    <3>1. CASE a > b
      BY <2>1, <2>3, <3>1
    <3>2. CASE a = b /\ d > e
      BY <2>1, <2>3, <3>2
    <3>3. CASE a = b /\ d = e /\ i < j
      BY <2>1, <2>3, <2>5, <3>3
    <3> QED
      BY <2>2, <3>1, <3>2, <3>3
  <2> QED
    BY <2>4, <2>6
<1> QED
  BY <1>8, <1>9, <1>10 DEF StrictOrder

(***************************************************************************)
(* A sorted list is the list at its places in order.                       *)
(***************************************************************************)
LEMMA StableSortIsOrdered ==
  ASSUME NEW S, NEW s \in Seq(S), NEW key \in [1 .. Len(s) -> Int \X Int]
  PROVE  LET p == InOrder(ByPair(key, Len(s)), 1 .. Len(s))
         IN  /\ Ordered(p, ByPair(key, Len(s)), 1 .. Len(s))
             /\ StableSort(s, key) = At(s, p, Len(s))
<1> DEFINE n == Len(s)
           D == 1 .. n
           R == ByPair(key, n)
           p == InOrder(R, D)
<1>1. n \in Nat /\ DOMAIN s = D
  OBVIOUS
<1>2. IsFiniteSet(D) /\ Cardinality(D) = n
  BY <1>1, PlacesCount
<1>3. StrictOrder(R, D)
  BY <1>1, PairsOrder
<1>4. Ordered(p, R, D)
  BY <1>2, <1>3, RanksOrder
<1>6. \A i \in D : {j \in D : Above(key[j], key[i]) \/ (key[j] = key[i] /\ j < i)}
                     = Before(R, D, i)
  BY DEF Before, ByPair
<1> DEFINE first(i) == CHOOSE j \in D :
                 Cardinality({h \in D : Above(key[h], key[j]) \/ (key[h] = key[j] /\ h < j)}) = i - 1
<1>7. StableSort(s, key) = [i \in 1 .. n |-> s[first(i)]]
  BY <1>1 DEF StableSort
<1>8. \A i \in 1 .. n : first(i) = p[i]
  <2> TAKE i \in 1 .. n
  <2>2. p[i] = CHOOSE j \in D : Rank(R, D, j) = i - 1
    BY <1>2 DEF InOrder
  <2>3. \A j \in D : Cardinality({h \in D : Above(key[h], key[j]) \/ (key[h] = key[j] /\ h < j)})
                       = Rank(R, D, j)
    BY <1>6 DEF Rank
  <2> HIDE DEF D, R
  <2> QED
    BY <2>2, <2>3
<1> QED
  BY <1>4, <1>7, <1>8 DEF At

(***************************************************************************)
(* A list at places that hold each of its own has what the list has.       *)
(***************************************************************************)
LEMMA OrderedIsThere ==
  ASSUME NEW S, NEW s \in Seq(S), NEW R, NEW p, Ordered(p, R, 1 .. Len(s)),
         NEW m \in 0 .. Len(s), NEW t, t = At(s, p, m)
  PROVE  /\ t \in Seq(S) /\ Len(t) = m /\ DOMAIN t = 1 .. m
         /\ \A i \in 1 .. m : p[i] \in 1 .. Len(s) /\ t[i] = s[p[i]]
         /\ m = Len(s) => \A j \in 1 .. Len(s) : \E i \in 1 .. m : p[i] = j
<1>1. Len(s) \in Nat /\ Cardinality(1 .. Len(s)) = Len(s)
  BY PlacesCount
<1> DEFINE D == 1 .. Len(s)
<1>6. p \in [D -> D]
  BY <1>1 DEF Ordered
<1>2. \A i \in 1 .. m : p[i] \in 1 .. Len(s)
  BY <1>1, <1>6
<1>3. t \in [1 .. m -> S] /\ \A i \in 1 .. m : t[i] = s[p[i]]
  BY <1>2 DEF At
<1>4. t \in Seq(S) /\ Len(t) = m
  BY <1>1, <1>3
<1>5. \A j \in 1 .. Len(s) : \E k \in 1 .. Len(s) : p[k] = j
  BY <1>1 DEF Ordered
<1> QED
  BY <1>2, <1>3, <1>4, <1>5

------------------------------------------------------------------------------
(* The foremost of a set *)

(* Pairs of a key and a number, the larger key first. *)
ByKey(K) == {q \in K \X K : q[1][1] > q[2][1] \/ (q[1][1] = q[2][1] /\ q[1][2] < q[2][2])}

Keyed(S, key) == {<<key[m], m>> : m \in S}

LEMMA KeysOrder ==
  ASSUME NEW S, S \subseteq Nat, NEW key, \A m \in S : key[m] \in Int
  PROVE  StrictOrder(ByKey(Keyed(S, key)), Keyed(S, key))
<1> DEFINE K == Keyed(S, key)
<1>1. \A x, y \in K : <<x, y>> \in ByKey(K) <=> x[1] > y[1] \/ (x[1] = y[1] /\ x[2] < y[2])
  BY DEF ByKey
<1>2. \A x \in K : x = <<x[1], x[2]>> /\ x[1] \in Int /\ x[2] \in Int
  BY DEF Keyed
<1>3. \A x, y \in K : x # y => x[1] # y[1] \/ x[2] # y[2]
  BY <1>2
<1> HIDE DEF K
<1>4. \A x \in K : <<x, x>> \notin ByKey(K)
  BY <1>1, <1>2
<1>5. \A x, y \in K : x # y => <<x, y>> \in ByKey(K) \/ <<y, x>> \in ByKey(K)
  <2> TAKE x, y \in K
  <2> HAVE x # y
  <2>1. x[1] \in Int /\ x[2] \in Int /\ y[1] \in Int /\ y[2] \in Int
    BY <1>2
  <2>2. x[1] # y[1] \/ x[2] # y[2]
    BY <1>3
  <2> QED
    BY <1>1, <2>1, <2>2
<1>6. \A x, y, z \in K : <<x, y>> \in ByKey(K) /\ <<y, z>> \in ByKey(K) => <<x, z>> \in ByKey(K)
  <2> TAKE x, y, z \in K
  <2>1. /\ x[1] \in Int /\ x[2] \in Int /\ y[1] \in Int /\ y[2] \in Int
        /\ z[1] \in Int /\ z[2] \in Int
    BY <1>2
  <2> QED
    BY <1>1, <2>1
<1> QED
  BY <1>4, <1>5, <1>6 DEF StrictOrder, K

(***************************************************************************)
(* The foremost of a finite set of numbers: each once, by falling key, as  *)
(* many as are asked for or there are, and none left out has a larger key. *)
(***************************************************************************)
LEMMA ForemostIsBest ==
  ASSUME NEW S, S \subseteq Nat, IsFiniteSet(S), NEW key, \A m \in S : key[m] \in Int,
         NEW n \in Nat
  PROVE  LET f == Foremost(S, n, key)
         IN  /\ f \in Seq(S) /\ Len(f) <= n
             /\ \A i, j \in 1 .. Len(f) : i < j => f[i] # f[j] /\ key[f[i]] >= key[f[j]]
             /\ \A m \in S : (\A i \in 1 .. Len(f) : f[i] # m) =>
                  Len(f) = n /\ \A i \in 1 .. Len(f) : key[f[i]] >= key[m]
<1> DEFINE K == Keyed(S, key)
           R == ByKey(K)
           c == Cardinality(K)
           p == InOrder(R, K)
           len == IF n <= c THEN n ELSE c
           order == [k \in 1 .. c |-> p[k][2]]
           f == Foremost(S, n, key)
<1>0. \A m \in S : m \in Int
  OBVIOUS
<1>1. IsFiniteSet(K) /\ c \in Nat
  <2> DEFINE pair == [m \in S |-> <<key[m], m>>]
  <2>1. pair \in Surjection(S, K)
    BY DEF Surjection, Keyed
  <2> HIDE DEF pair
  <2>2. IsFiniteSet(K)
    BY <2>1, FS_Surjection
  <2> QED
    BY <2>2, FS_CardinalityType
<1>2. \A x \in K : x = <<x[1], x[2]>> /\ x[1] = key[x[2]] /\ x[2] \in S /\ x[1] \in Int
  BY DEF Keyed
<1>3. \A x, y \in K : <<x, y>> \in R <=> x[1] > y[1] \/ (x[1] = y[1] /\ x[2] < y[2])
  BY DEF ByKey
<1>4. Ordered(p, R, K)
  <2>1. StrictOrder(R, K)
    BY KeysOrder
  <2> QED
    BY <1>1, <2>1, RanksOrder
<1>5. \A x \in K : {q \in K : q[1] > x[1] \/ (q[1] = x[1] /\ q[2] < x[2])} = Before(R, K, x)
  BY <1>3 DEF Before
<1>6. f = SubSeq(order, 1, Min({n, c}))
  <2> DEFINE first(k) == CHOOSE x \in K :
               Cardinality({q \in K : q[1] > x[1] \/ (q[1] = x[1] /\ q[2] < x[2])}) = k - 1
             named == [k \in 1 .. c |-> first(k)[2]]
  <2>1. f = SubSeq(named, 1, Min({n, Len(named)}))
    BY DEF Foremost, Keyed
  <2>2. \A k \in 1 .. c : first(k) = p[k]
    <3> TAKE k \in 1 .. c
    <3>1. p[k] = CHOOSE x \in K : Rank(R, K, x) = k - 1
      BY DEF InOrder
    <3>2. \A x \in K : Cardinality({q \in K : q[1] > x[1] \/ (q[1] = x[1] /\ q[2] < x[2])})
                         = Rank(R, K, x)
      BY <1>5 DEF Rank
    <3> HIDE DEF K, R
    <3> QED
      BY <3>1, <3>2
  <2>3. named = order
    <3> HIDE DEF first, p, c
    <3> QED
      BY <2>2
  <2>4. Len(order) = c
    BY <1>1
  <2> HIDE DEF named, order
  <2> QED
    BY <2>1, <2>3, <2>4
<1> HIDE DEF K, R, p, f, order
<1>7. p \in [1 .. c -> K]
  BY <1>4 DEF Ordered
<1>8. order \in [1 .. c -> S]
  BY <1>2, <1>7 DEF order
<1>9. f \in Seq(S) /\ Len(f) = len /\ \A i \in 1 .. len : f[i] = p[i][2]
  <2>1. Min({n, c}) = len
    BY <1>1, MinOfTwo
  <2>2. order \in Seq(S) /\ Len(order) = c
    BY <1>1, <1>8
  <2>3. len \in 0 .. c
    BY <1>1
  <2>4. /\ SubSeq(order, 1, len) \in Seq(S) /\ Len(SubSeq(order, 1, len)) = len
        /\ \A i \in 1 .. len : SubSeq(order, 1, len)[i] = order[i]
    <3> HIDE DEF len
    <3> QED
      BY <1>1, <2>2, <2>3, SubSeqProperties
  <2>5. \A i \in 1 .. len : order[i] = p[i][2]
    BY <1>1 DEF order
  <2> QED
    BY <1>6, <2>1, <2>4, <2>5
<1>10. \A i, j \in 1 .. c : i < j => p[i][2] # p[j][2] /\ p[i][1] >= p[j][1]
  <2> TAKE i, j \in 1 .. c
  <2> HAVE i < j
  <2>1. <<p[i], p[j]>> \in R
    BY <1>4 DEF Ordered
  <2>2. p[i] \in K /\ p[j] \in K
    BY <1>7
  <2>3. p[i][1] > p[j][1] \/ (p[i][1] = p[j][1] /\ p[i][2] < p[j][2])
    BY <1>3, <2>1, <2>2
  <2>4. /\ p[i][1] \in Int /\ p[j][1] \in Int /\ p[i][2] \in S /\ p[j][2] \in S
        /\ p[i][1] = key[p[i][2]] /\ p[j][1] = key[p[j][2]]
    BY <1>2, <2>2
  <2>5. p[i][2] # p[j][2]
    <3> SUFFICES ASSUME p[i][2] = p[j][2] PROVE FALSE
      OBVIOUS
    <3>1. p[i][1] = p[j][1]
      BY <2>4
    <3>2. p[i][2] \in Int /\ p[j][2] \in Int
      BY <1>0, <2>4
    <3>3. ~(p[i][1] > p[j][1])
      BY <2>4, <3>1
    <3>4. ~(p[i][2] < p[j][2])
      BY <3>2
    <3> QED
      BY <2>3, <3>3, <3>4
  <2>6. p[i][1] >= p[j][1]
    BY <2>3, <2>4
  <2> QED
    BY <2>5, <2>6
<1>11. \A i \in 1 .. c : p[i][1] = key[p[i][2]]
  BY <1>2, <1>7
<1>12. \A i, j \in 1 .. Len(f) : i < j => f[i] # f[j] /\ key[f[i]] >= key[f[j]]
  BY <1>1, <1>9, <1>10, <1>11
<1>13. \A m \in S : \E k \in 1 .. c : p[k][2] = m
  <2> TAKE m \in S
  <2>1. <<key[m], m>> \in K
    BY DEF K, Keyed
  <2>2. \E k \in 1 .. c : p[k] = <<key[m], m>>
    BY <1>4, <2>1 DEF Ordered
  <2> QED
    BY <2>2
<1>14. ASSUME NEW m \in S, \A i \in 1 .. Len(f) : f[i] # m
       PROVE  Len(f) = n /\ \A i \in 1 .. Len(f) : key[f[i]] >= key[m]
  <2>1. PICK k \in 1 .. c : p[k][2] = m
    BY <1>13
  <2>2. ~(k <= len)
    BY <1>1, <1>9, <1>14, <2>1
  <2>3. len = n /\ n < k
    BY <1>1, <2>2
  <2>4. \A i \in 1 .. n : key[f[i]] >= key[m]
    BY <1>1, <1>9, <1>10, <1>11, <2>1, <2>3
  <2> QED
    BY <1>9, <2>3, <2>4
<1> QED
  BY <1>1, <1>9, <1>12, <1>14 DEF f

------------------------------------------------------------------------------
(* Intake *)

(***************************************************************************)
(* What more phrases are found to say includes what fewer are.             *)
(***************************************************************************)
LEMMA MoreIsSaid ==
  ASSUME NEW more, NEW less, less \subseteq more
  PROVE  /\ \A phrases : Says(less, phrases) => Says(more, phrases)
         /\ Found(less) \subseteq Found(more)
BY DEF Says, Found

(***************************************************************************)
(* A request with more in it has no lower risk.                            *)
(***************************************************************************)
LEMMA RiskGrows ==
  ASSUME NEW more, NEW less, less \subseteq more
  PROVE  Risk(less) <= Risk(more)
<1>1. Says(less, Destroys) => Says(more, Destroys)
  BY MoreIsSaid
<1>2. Says(less, Write) => Says(more, Write)
  BY MoreIsSaid
<1>3. Says(less, Installs) => Says(more, Installs)
  BY MoreIsSaid
<1> QED
  BY <1>1, <1>2, <1>3 DEF Risk, RiskOfWriting

(***************************************************************************)
(* And needs no less evidence.                                             *)
(***************************************************************************)
LEMMA NeedsGrow ==
  ASSUME NEW more, NEW less, less \subseteq more
  PROVE  Needs(less) \subseteq Needs(more)
<1>1. \A phrases : Says(less, phrases) => Says(more, phrases)
  BY MoreIsSaid
<1> DEFINE kinds == {"sources", "primary", "tests", "computation", "schema"}
<1>2. \A said : Needs(said) \subseteq kinds
  BY DEF Needs
<1>3. \A said : /\ "primary" \in Needs(said) <=> Says(said, Verify)
                /\ "sources" \in Needs(said) <=> Says(said, Web)
                /\ "tests" \in Needs(said) <=> Says(said, Code)
                /\ "computation" \in Needs(said) <=> Says(said, Math)
                /\ "schema" \in Needs(said) <=> Says(said, Data)
  BY DEF Needs
<1> QED
  BY <1>1, <1>2, <1>3

(***************************************************************************)
(* A capability finds a tool exactly when one that stands for it is usable *)
(* and then the tool is usable.                                            *)
(***************************************************************************)
LEMMA RouteFinds ==
  ASSUME IntakeAssumption, registry \subseteq DOMAIN ToolTier, NEW c \in Capability,
         NEW granted \in PermissionTier, NEW preferred
  PROVE  LET tool == route_capability(c, granted, preferred)
         IN  /\ tool # NoRoute => Usable(tool, granted)
             /\ tool # NoRoute <=> \/ preferred # NoRoute /\ Usable(preferred, granted)
                                   \/ \E t \in ToSet(Candidates[c]) \cup {c} : Usable(t, granted)
<1> DEFINE list == Candidates[c]
           usable == {i \in DOMAIN list : Usable(list[i], granted)}
           tool == route_capability(c, granted, preferred)
<1>1. list \in Seq(STRING)
  BY DEF IntakeAssumption
<1>2. DOMAIN list \subseteq Nat
  BY <1>1
<1>3. usable # {} => Min(usable) \in usable
  <2> SUFFICES ASSUME usable # {} PROVE Min(usable) \in usable
    OBVIOUS
  <2>1. usable \subseteq Nat
    BY <1>2
  <2>2. PICK x \in usable : \A y \in usable : x <= y
    <3> HIDE DEF usable
    <3> QED
      BY <2>1, LeastNumber
  <2> HIDE DEF usable
  <2> QED
    BY <2>2 DEF Min
<1>4. \A t : Usable(t, granted) => t # NoRoute
  BY DEF Usable, IntakeAssumption
<1>5. ToSet(list) = {list[i] : i \in DOMAIN list}
  BY DEF ToSet
<1>6. tool = IF preferred # NoRoute /\ Usable(preferred, granted) THEN preferred
             ELSE IF usable # {} THEN list[Min(usable)] ELSE Direct(c, granted)
  BY DEF route_capability
<1>7. CASE preferred # NoRoute /\ Usable(preferred, granted)
  BY <1>6, <1>7
<1>8. CASE ~(preferred # NoRoute /\ Usable(preferred, granted)) /\ usable # {}
  <2>1. tool = list[Min(usable)] /\ Min(usable) \in DOMAIN list /\ Usable(list[Min(usable)], granted)
    BY <1>3, <1>6, <1>8
  <2>2. list[Min(usable)] \in ToSet(list)
    BY <1>5, <2>1
  <2> HIDE DEF usable, tool
  <2> QED
    BY <1>4, <2>1, <2>2 DEF tool
<1>9. CASE ~(preferred # NoRoute /\ Usable(preferred, granted)) /\ usable = {}
  <2>1. tool = IF Usable(c, granted) THEN c ELSE NoRoute
    BY <1>6, <1>9 DEF Direct
  <2>2. \A t \in ToSet(list) : ~Usable(t, granted)
    BY <1>5, <1>9
  <2> HIDE DEF usable, tool
  <2> QED
    BY <1>4, <1>9, <2>1, <2>2 DEF tool
<1> QED
  BY <1>7, <1>8, <1>9

(***************************************************************************)
(* A route that is granted, when the capability was.                       *)
(***************************************************************************)
LEMMA RouteWasGranted ==
  ASSUME IntakeAssumption, registry \subseteq DOMAIN ToolTier, NEW c \in Capability,
         NEW granted \in PermissionTier, NEW preferred, NEW tool,
         tool = route_capability(c, granted, preferred)
  PROVE  /\ tool # NoRoute => Usable(tool, granted)
         /\ tool = NoRoute =>
              \A t \in ToSet(Candidates[c]) \cup {c} : t \in registry => ToolTier[t] > granted
         /\ \A more \in granted .. SYSTEM :
              tool # NoRoute => route_capability(c, more, preferred) # NoRoute
<1>1. \A t \in registry : ToolTier[t] \in Nat
  BY DEF IntakeAssumption, PermissionTier, READ, SYSTEM
<1>2. granted \in Nat
  BY DEF PermissionTier, READ, SYSTEM
<1>3. \A t, g : Usable(t, g) <=> t \in registry /\ g >= ToolTier[t]
  BY DEF Usable, check_permission
<1>4. ASSUME tool = NoRoute, NEW t \in ToSet(Candidates[c]) \cup {c}, t \in registry
      PROVE  ToolTier[t] > granted
  <2>1. ~Usable(t, granted)
    BY <1>4, RouteFinds
  <2> QED
    BY <1>1, <1>2, <1>3, <1>4, <2>1
<1>5. ASSUME NEW more \in granted .. SYSTEM, tool # NoRoute
      PROVE  route_capability(c, more, preferred) # NoRoute
  <2>1. more \in PermissionTier /\ more >= granted /\ more \in Nat
    BY <1>2 DEF PermissionTier, READ, SYSTEM
  <2>2. \A t : Usable(t, granted) => Usable(t, more)
    BY <1>1, <1>2, <1>3, <2>1
  <2>3. \/ preferred # NoRoute /\ Usable(preferred, granted)
        \/ \E t \in ToSet(Candidates[c]) \cup {c} : Usable(t, granted)
    BY <1>5, RouteFinds
  <2> QED
    BY <2>1, <2>2, <2>3, RouteFinds
<1> QED
  BY <1>4, <1>5, RouteFinds

(* What was received is understood, what is routed was asked for, and a    *)
(* tool that is registered has a tier.                                     *)
IntakeInv ==
  /\ registry \subseteq DOMAIN ToolTier
  /\ understanding \in {NoRequest, understand(original_request)}
  /\ route = NoRequest \/
       /\ route.capability \in Capability /\ route.granted \in PermissionTier
       /\ route.tool = route_capability(route.capability, route.granted, route.preferred)

(***************************************************************************)
(* A request and its routing are kept as they were computed.               *)
(***************************************************************************)
LEMMA IntakeKeeps ==
  ASSUME IntakeInv, [IntakeNext]_intakeVars
  PROVE  IntakeInv'
<1>1. CASE Receive
  <2>1. understanding' = understand(original_request')
    BY <1>1 DEF Receive
  <2>2. registry' = registry /\ route' = route
    BY <1>1 DEF Receive
  <2> QED
    BY <2>1, <2>2 DEF IntakeInv, route_capability, Usable, Direct
<1>2. CASE Route
  <2>1. UNCHANGED <<original_request, understanding, registry>>
    BY <1>2 DEF Route
  <2>2. PICK c \in Capability, g \in PermissionTier, p \in (DOMAIN ToolTier) \cup {NoRoute} :
          route' = [capability |-> c, granted |-> g, preferred |-> p,
                    tool |-> route_capability(c, g, p)]
    BY <1>2 DEF Route
  <2> QED
    BY <2>1, <2>2 DEF IntakeInv, route_capability, Usable, Direct
<1>3. CASE UNCHANGED intakeVars
  BY <1>3 DEF IntakeInv, intakeVars, route_capability, Usable, Direct
<1> QED
  BY <1>1, <1>2, <1>3 DEF IntakeNext

(***************************************************************************)
(* From what is kept follows what is said of the intake, for what was      *)
(* computed of less of the request too.                                    *)
(***************************************************************************)
LEMMA IntakeFollows ==
  ASSUME IntakeAssumption, IntakeInv
  PROVE  IntakeIsSound
<1>1. RiskIsMonotone
  <2> SUFFICES ASSUME understanding # NoRequest, NEW said \in SUBSET original_request
               PROVE  LET less == understand(said)
                      IN  /\ less.risk_level <= understanding.risk_level
                          /\ less.required_evidence \subseteq understanding.required_evidence
                          /\ less.requires_verification => understanding.requires_verification
    BY DEF RiskIsMonotone
  <2>1. understanding = understand(original_request)
    BY DEF IntakeInv
  <2>2. Risk(said) <= Risk(original_request) /\ Needs(said) \subseteq Needs(original_request)
    BY RiskGrows, NeedsGrow
  <2>3. \A phrases : Says(said, phrases) => Says(original_request, phrases)
    BY MoreIsSaid
  <2> QED
    BY <2>1, <2>2, <2>3 DEF understand
<1>2. RouteIsGranted
  <2> SUFFICES ASSUME route # NoRequest PROVE RouteIsGranted
    BY DEF RouteIsGranted
  <2>1. /\ registry \subseteq DOMAIN ToolTier
        /\ route.capability \in Capability /\ route.granted \in PermissionTier
        /\ route.tool = route_capability(route.capability, route.granted, route.preferred)
    BY DEF IntakeInv
  <2> QED
    BY <2>1, RouteWasGranted DEF RouteIsGranted
<1> QED
  BY <1>1, <1>2 DEF IntakeIsSound

------------------------------------------------------------------------------
(* Recall *)

(***************************************************************************)
(* What is fixed of a memory, and its score.                               *)
(***************************************************************************)
IsRecord(c) ==
  /\ DOMAIN c = {"type", "user", "project", "global", "semantic", "keyword", "exact",
                 "importance", "verification", "accesses", "freshness"}
  /\ c.type \in DOMAIN halfLife /\ c.semantic \in 0 .. 100 /\ c.keyword \in 0 .. 100
  /\ c.importance \in Int /\ c.accesses \in Nat

RecallTypes ==
  /\ Memory \subseteq Nat /\ IsFiniteSet(Memory)
  /\ \A m \in Memory : IsRecord(memories[m])
  /\ clock \in Nat /\ changes \in Nat /\ indexed \subseteq Memory

LEMMA FreshnessIsTyped ==
  ASSUME RecallAssumption, RecallTypes, NEW m \in Memory
  PROVE  /\ compute_freshness(m) \in Int
         /\ memories[m].freshness \in {"CONTRADICTED", "SUPERSEDED"} => compute_freshness(m) = 0
<1> DEFINE c == memories[m]
           half == halfLife[c.type]
           faded == Faded(clock \div half)
           boost == Boost(c.accesses)
<1>1. c.type \in DOMAIN halfLife
  BY DEF RecallTypes, IsRecord
<1>2. half \in Nat \ {0} /\ clock \in Nat
  BY <1>1 DEF RecallAssumption, RecallTypes
<1>3. clock \div half \in Nat
  <2> HIDE DEF half
  <2> QED
    BY <1>2
<1>4. \A n \in Nat : Faded(n) \in Int
  BY DEF Faded
<1>5. faded \in Int
  <2> HIDE DEF half
  <2> QED
    BY <1>3, <1>4
<1>6. boost \in Int
  BY DEF Boost
<1>7. compute_freshness(m) =
        CASE c.freshness \in {"EXPIRED", "SUPERSEDED", "CONTRADICTED"} -> 0
          [] c.freshness = "STALE" -> 20
          [] OTHER -> Max({5, Min({100, faded + boost})})
  BY DEF compute_freshness
<1> HIDE DEF faded, boost
<1> DEFINE most == Min({100, faded + boost})
<1>8. most \in Int /\ most <= 100
  BY <1>5, <1>6, MinOfTwo
<1> HIDE DEF most
<1>9. Max({5, most}) \in Int /\ Max({5, most}) <= 100
  BY <1>8, MaxOfTwo
<1> DEFINE else == Max({5, most})
<1>10. compute_freshness(m) =
        CASE c.freshness \in {"EXPIRED", "SUPERSEDED", "CONTRADICTED"} -> 0
          [] c.freshness = "STALE" -> 20 [] OTHER -> else
  BY <1>7 DEF most
<1>11. else \in Int /\ else <= 100
  BY <1>9
<1> HIDE DEF else, c
<1>12. CASE c.freshness \in {"EXPIRED", "SUPERSEDED", "CONTRADICTED"}
  <2>1. compute_freshness(m) = 0
    BY <1>10, <1>12
  <2> QED
    BY <2>1
<1>13. CASE c.freshness \notin {"EXPIRED", "SUPERSEDED", "CONTRADICTED"}
  <2>1. compute_freshness(m) = IF c.freshness = "STALE" THEN 20 ELSE else
    BY <1>10, <1>13
  <2> QED
    BY <1>11, <1>13, <2>1 DEF c
<1> QED
  BY <1>12, <1>13

(***************************************************************************)
(* A score is a number; and 5000 less leaves a memory whose freshness says *)
(* that it was contradicted or superseded below the threshold, be all else *)
(* at its best, for its freshness then counts for nothing.                 *)
(***************************************************************************)
LEMMA ScoreIsTyped ==
  ASSUME RecallAssumption, RecallTypes, NEW m \in Memory, NEW search
  PROVE  /\ Composite(m, search) \in Int
         /\ memories[m].freshness \in {"CONTRADICTED", "SUPERSEDED"} /\ Readable(m) =>
              Composite(m, search) < MinScore
<1> DEFINE c == memories[m]
           sum == 30 * c.semantic + 15 * c.keyword + 15 * Relevance
                    + 10 * ScopeMatch(c, search) + 10 * c.importance
                    + 10 * Quality(c) + 10 * compute_freshness(m) - Penalty(m)
<1>1. Composite(m, search) = Max({0, Min({10000, sum})})
  BY DEF Composite
<1> DEFINE refuted == c.freshness \in {"CONTRADICTED", "SUPERSEDED"}
           s == c.semantic
           k == c.keyword
           scope == ScopeMatch(c, search)
           i == c.importance
           q == Quality(c)
           fresh == compute_freshness(m)
           penalty == Penalty(m)
<1>2. s \in 0 .. 100 /\ k \in 0 .. 100 /\ i \in Int /\ (Readable(m) => i \in 0 .. 100)
  BY DEF RecallTypes, IsRecord, Readable
<1>3. scope \in 0 .. 100
  BY DEF ScopeMatch
<1>4. q \in 0 .. 100
  BY DEF Quality
<1>5. penalty \in Int /\ (refuted => penalty = 5000)
  <2>1. Penalty(m) = IF Refuted(m) THEN 5000 ELSE IF Outdated(m) THEN 3000 ELSE 0
    BY DEF Penalty
  <2>2. refuted => Refuted(m)
    BY DEF Refuted
  <2> HIDE DEF refuted
  <2> QED
    BY <2>1, <2>2
<1>6. fresh \in Int /\ (refuted => fresh = 0)
  BY FreshnessIsTyped
<1>7. sum = 30 * s + 15 * k + 15 * 50 + 10 * scope + 10 * i + 10 * q + 10 * fresh - penalty
  BY DEF Relevance
<1> HIDE DEF c, refuted, scope, s, k, i, q, fresh, penalty, sum
<1>8. sum \in Int
  <2>1. s \in Int /\ k \in Int /\ i \in Int /\ scope \in Int /\ q \in Int
    BY <1>2, <1>3, <1>4
  <2> QED
    BY <1>5, <1>6, <1>7, <2>1
<1>9. refuted /\ Readable(m) => sum < 3500
  <2> SUFFICES ASSUME refuted, Readable(m) PROVE sum < 3500
    OBVIOUS
  <2>1. /\ s \in 0 .. 100 /\ k \in 0 .. 100 /\ i \in 0 .. 100 /\ q \in 0 .. 100
        /\ fresh = 0 /\ penalty = 5000
    BY <1>2, <1>4, <1>5, <1>6
  <2> QED
    BY <1>3, <1>7, <2>1
<1> DEFINE most == Min({10000, sum})
<1>10. most = IF 10000 <= sum THEN 10000 ELSE sum
  BY <1>8, MinOfTwo
<1>11. most \in Int
  BY <1>8, <1>10
<1> HIDE DEF most
<1>12. Max({0, most}) = IF 0 >= most THEN 0 ELSE most
  BY <1>11, MaxOfTwo
<1> QED
  BY <1>1, <1>8, <1>9, <1>10, <1>11, <1>12 DEF MinScore, most, refuted, c

(***************************************************************************)
(* A set that has all elements of a list without repetition has as many    *)
(* as the list is long, at least.                                          *)
(***************************************************************************)
LEMMA AsManyAs ==
  ASSUME NEW T, IsFiniteSet(T), NEW n \in Nat, NEW f,
         \A i \in 1 .. n : f[i] \in T, \A i, j \in 1 .. n : i < j => f[i] # f[j]
  PROVE  n <= Cardinality(T)
<1> DEFINE places == 1 .. n
           g == [i \in places |-> f[i]]
<1>1. IsFiniteSet(places) /\ Cardinality(places) = n
  BY PlacesCount
<1>2. \A i, j \in places : f[i] = f[j] => i = j
  OBVIOUS
<1>3. g \in Injection(places, T)
  BY <1>2 DEF Injection, IsInjective
<1> HIDE DEF places
<1> QED
  BY <1>1, <1>3, FS_Injection

(***************************************************************************)
(* A search of the stores returns what is admitted, and of the memories in *)
(* the vector store leaves out only those that others crowd out.           *)
(***************************************************************************)
LEMMA SearchFinds ==
  ASSUME RecallAssumption, RecallTypes, NEW type, NEW search, NEW limit \in Nat
  PROVE  /\ \A m \in HybridSearch(type, search, limit) :
              m \in Memory /\ Admitted(m, type, search)
         /\ \A m \in indexed \ HybridSearch(type, search, limit) :
              Admitted(m, type, search) =>
                limit <= Cardinality({o \in indexed \ {m} :
                                        /\ Admitted(o, type, search)
                                        /\ memories[o].semantic >= memories[m].semantic})
<1> DEFINE admitted == {m \in Memory : Admitted(m, type, search)}
           near == {m \in indexed : Admitted(m, type, search)}
           exact == {m \in Memory : Admitted(m, type, search) /\ memories[m].exact}
           similar == Foremost(near, 2 * limit, Similarity)
           matching == Foremost(exact, 2 * limit, Importance)
           rest == ToSet(matching) \ ToSet(similar)
           further == Foremost(rest, 2 * limit, Importance)
           merged == similar \o further
           found == ToSet(SubSeq(merged, 1, Min({limit, Len(merged)})))
<1>1. HybridSearch(type, search, limit) = found
  BY DEF HybridSearch, Rows
<1>2. /\ Memory \subseteq Nat /\ IsFiniteSet(Memory)
      /\ \A m \in Memory : Similarity[m] \in Int /\ Importance[m] \in Int
      /\ \A m \in Memory : Similarity[m] = memories[m].semantic
  <2>1. /\ Memory \subseteq Nat /\ IsFiniteSet(Memory)
        /\ \A m \in Memory :
             memories[m].semantic \in 0 .. 100 /\ memories[m].importance \in Int
    BY DEF RecallTypes, IsRecord
  <2>2. \A m \in Memory : /\ Similarity[m] = memories[m].semantic
                           /\ Importance[m] = memories[m].importance
    BY DEF Similarity, Importance
  <2> QED
    BY <2>1, <2>2
<1>3. 2 * limit \in Nat
  OBVIOUS
<1>4. \A S : S \subseteq Memory => S \subseteq Nat /\ IsFiniteSet(S)
  BY <1>2, FS_Subset
<1>5. near \subseteq Memory /\ near \subseteq admitted /\ exact \subseteq Memory /\ exact \subseteq admitted
  BY DEF RecallTypes
<1> HIDE DEF near, exact
<1>6. /\ similar \in Seq(near)
      /\ \A i, j \in 1 .. Len(similar) :
           i < j => similar[i] # similar[j] /\ Similarity[similar[i]] >= Similarity[similar[j]]
      /\ \A m \in near : (\A i \in 1 .. Len(similar) : similar[i] # m) =>
           /\ Len(similar) = 2 * limit
           /\ \A i \in 1 .. Len(similar) : Similarity[similar[i]] >= Similarity[m]
  <2> \A m \in near : Similarity[m] \in Int
    BY <1>2, <1>5
  <2> QED
    BY <1>3, <1>4, <1>5, ForemostIsBest
<1>7. matching \in Seq(exact)
  <2> \A m \in exact : Importance[m] \in Int
    BY <1>2, <1>5
  <2> QED
    BY <1>3, <1>4, <1>5, ForemostIsBest
<1> HIDE DEF similar, matching
<1>8. rest \subseteq exact
  BY <1>7 DEF ToSet
<1> HIDE DEF rest
<1>9. further \in Seq(rest)
  <2>1. rest \subseteq Memory
    BY <1>5, <1>8
  <2>2. \A m \in rest : Importance[m] \in Int
    BY <1>2, <2>1
  <2> QED
    BY <1>3, <1>4, <2>1, <2>2, ForemostIsBest
<1> HIDE DEF further
<1>10. similar \in Seq(admitted) /\ further \in Seq(admitted)
  <2>1. near \subseteq admitted /\ rest \subseteq admitted
    BY <1>5, <1>8
  <2> HIDE DEF admitted
  <2> QED
    BY <1>6, <1>9, <2>1
<1>11. /\ merged \in Seq(admitted) /\ Len(merged) = Len(similar) + Len(further)
       /\ \A i \in 1 .. Len(similar) : merged[i] = similar[i]
  <2> HIDE DEF admitted
  <2> QED
    BY <1>10, ConcatProperties
<1> DEFINE len == IF limit <= Len(merged) THEN limit ELSE Len(merged)
           first == SubSeq(merged, 1, len)
<1>12. found = ToSet(first)
  <2>1. Len(merged) \in Nat
    BY <1>11
  <2> HIDE DEF merged
  <2>2. Min({limit, Len(merged)}) = len
    BY <2>1, MinOfTwo
  <2> QED
    BY <2>2
<1>13. /\ first \in Seq(admitted) /\ Len(first) = len /\ len \in 0 .. Len(merged)
       /\ \A i \in 1 .. len : first[i] = merged[i]
  <2>1. Len(merged) \in Nat /\ len \in 0 .. Len(merged)
    BY <1>11
  <2> HIDE DEF merged, admitted, len
  <2>2. \A i \in 1 .. len : merged[i] \in admitted
    BY <1>11, <2>1 DEF merged
  <2>3. 1 \in Int /\ len \in Int
    BY <2>1
  <2> QED
    BY <2>1, <2>2, <2>3, SubSeqProperties
<1> HIDE DEF first
<1>14. found = {first[i] : i \in 1 .. len}
  <2>1. DOMAIN first = 1 .. len
    <3> HIDE DEF admitted, len, merged
    <3> QED
      BY <1>13
  <2>2. ToSet(first) = {first[i] : i \in DOMAIN first}
    BY DEF ToSet
  <2> QED
    BY <1>12, <2>1, <2>2
<1> HIDE DEF found, merged, len
<1>15. \A m \in found : m \in Memory /\ Admitted(m, type, search)
  BY <1>13, <1>14
<1>16. ASSUME NEW m \in indexed \ found, Admitted(m, type, search)
       PROVE  limit <= Cardinality({o \in indexed \ {m} :
                                      /\ Admitted(o, type, search)
                                      /\ memories[o].semantic >= memories[m].semantic})
  <2> DEFINE T == {o \in indexed \ {m} : /\ Admitted(o, type, search)
                                         /\ memories[o].semantic >= memories[m].semantic}
  <2>1. m \in near
    BY <1>16 DEF near, RecallTypes
  <2>2. IsFiniteSet(T)
    <3>1. T \subseteq Memory
      BY DEF RecallTypes
    <3> HIDE DEF T
    <3> QED
      BY <1>4, <3>1
  <2>3. \A i \in 1 .. Len(similar) : i <= limit => similar[i] # m
    <3> SUFFICES ASSUME NEW i \in 1 .. Len(similar), i <= limit, similar[i] = m PROVE FALSE
      OBVIOUS
    <3>1. i \in 1 .. len /\ merged[i] = m
      BY <1>11, <1>10, <1>13 DEF len
    <3> QED
      BY <1>13, <1>14, <1>16, <3>1
  <2>4. limit <= Len(similar) /\ \A i \in 1 .. limit : Similarity[similar[i]] >= Similarity[m]
    <3>1. Len(similar) \in Nat
      BY <1>10
    <3>2. CASE \A i \in 1 .. Len(similar) : similar[i] # m
      <4>1. /\ Len(similar) = 2 * limit
            /\ \A i \in 1 .. Len(similar) : Similarity[similar[i]] >= Similarity[m]
        BY <1>6, <2>1, <3>2
      <4>2. limit <= Len(similar)
        BY <4>1
      <4> QED
        BY <3>1, <4>1, <4>2
    <3>3. ASSUME NEW i \in 1 .. Len(similar), similar[i] = m
          PROVE  limit <= Len(similar) /\ \A k \in 1 .. limit : Similarity[similar[k]] >= Similarity[m]
      <4>1. limit < i
        BY <2>3, <3>1, <3>3
      <4>2. \A k \in 1 .. limit : k \in 1 .. Len(similar) /\ k < i
        BY <3>1, <3>3, <4>1
      <4> QED
        BY <1>6, <3>1, <3>3, <4>1, <4>2
    <3> QED
      BY <3>2, <3>3
  <2>5. \A i \in 1 .. limit : i \in 1 .. Len(similar)
    BY <1>10, <2>4
  <2>6. \A i \in 1 .. limit : similar[i] \in near
    BY <1>6, <2>5
  <2>7. \A i \in 1 .. limit : similar[i] \in T
    <3> TAKE i \in 1 .. limit
    <3>1. similar[i] \in indexed /\ Admitted(similar[i], type, search) /\ similar[i] # m
      BY <2>3, <2>5, <2>6 DEF near
    <3>2. similar[i] \in Memory /\ m \in Memory
      BY <1>5, <2>1, <2>6
    <3>3. memories[similar[i]].semantic >= memories[m].semantic
      BY <1>2, <2>4, <3>2
    <3> QED
      BY <3>1, <3>3
  <2>8. \A i, j \in 1 .. limit : i < j => similar[i] # similar[j]
    BY <1>6, <2>5
  <2> HIDE DEF T
  <2>9. limit <= Cardinality(T)
    BY <2>2, <2>7, <2>8, AsManyAs
  <2> QED
    BY <2>9 DEF T
<1> QED
  BY <1>1, <1>15, <1>16

(* The memories that crowd out m. *)
Crowd(m, t, search) ==
  {o \in indexed \ {m} :
     Admitted(o, t, search) /\ memories[o].semantic >= memories[m].semantic}

(***************************************************************************)
(* A memory that is wanted and not crowded out is among the candidates.    *)
(***************************************************************************)
LEMMA CandidatesFind ==
  ASSUME RecallAssumption, RecallTypes, NEW search, search.limit \in Nat
  PROVE  /\ \A m \in CandidateMemories(search) :
              m \in Memory /\ \E t \in KindsOf(search) : Admitted(m, t, search)
         /\ \A m \in indexed \ CandidateMemories(search), t \in KindsOf(search) :
              Admitted(m, t, search) =>
                Reach(search) <= Cardinality(Crowd(m, t, search))
<1> DEFINE reach == Reach(search)
<1>1. reach \in Nat
  BY DEF Reach
<1>2. CandidateMemories(search)
        = UNION {HybridSearch(t, search, reach) : t \in KindsOf(search)}
  BY DEF CandidateMemories
<1> HIDE DEF reach
<1>3. \A t : /\ \A m \in HybridSearch(t, search, reach) : m \in Memory /\ Admitted(m, t, search)
             /\ \A m \in indexed \ HybridSearch(t, search, reach) :
                  Admitted(m, t, search) => reach <= Cardinality(Crowd(m, t, search))
  BY <1>1, SearchFinds DEF Crowd
<1>4. \A m \in CandidateMemories(search) :
        m \in Memory /\ \E t \in KindsOf(search) : Admitted(m, t, search)
  BY <1>2, <1>3
<1>5. ASSUME NEW m \in indexed \ CandidateMemories(search),
             NEW t \in KindsOf(search), Admitted(m, t, search)
      PROVE  reach <= Cardinality(Crowd(m, t, search))
  <2>1. m \notin HybridSearch(t, search, reach)
    BY <1>2, <1>5
  <2> QED
    BY <1>3, <1>5, <2>1
<1> QED
  BY <1>4, <1>5 DEF reach

(***************************************************************************)
(* What a search returns of a pool of memories: the best above the         *)
(* threshold.                                                              *)
(***************************************************************************)
LEMMA BestIsBest ==
  ASSUME RecallAssumption, RecallTypes, NEW pool, pool \subseteq Memory, NEW search, search.limit \in Nat,
         NEW f, f = Best(pool, search)
  PROVE  /\ f \in Seq(pool)
         /\ \A i \in DOMAIN f : f[i] \in pool /\ Composite(f[i], search) >= MinScore
         /\ \A i, j \in DOMAIN f : i < j => /\ f[i] # f[j]
                                            /\ Composite(f[i], search) >= Composite(f[j], search)
         /\ \A m \in pool \ ToSet(f) : Composite(m, search) >= MinScore =>
              /\ Len(f) = search.limit
              /\ \A i \in DOMAIN f : Composite(f[i], search) >= Composite(m, search)
<1> DEFINE S == Sufficient(pool, search)
           key == [m \in Memory |-> Composite(m, search)]
<1>1. S \subseteq pool /\ \A m \in pool : m \in S <=> Composite(m, search) >= MinScore
  BY DEF Sufficient
<1> DEFINE limit == search.limit
<1>2. Memory \subseteq Nat /\ IsFiniteSet(Memory)
  BY DEF RecallTypes
<1>3. S \subseteq Nat /\ S \subseteq Memory /\ IsFiniteSet(S)
  BY <1>1, <1>2, FS_Subset
<1>4. \A m \in S : key[m] = Composite(m, search) /\ key[m] \in Int
  BY <1>3, ScoreIsTyped
<1>5. f = Foremost(S, limit, key)
  BY DEF Best
<1> HIDE DEF S, key, limit
<1>6. /\ f \in Seq(S)
      /\ \A i, j \in 1 .. Len(f) : i < j => f[i] # f[j] /\ key[f[i]] >= key[f[j]]
      /\ \A m \in S : (\A i \in 1 .. Len(f) : f[i] # m) =>
           Len(f) = limit /\ \A i \in 1 .. Len(f) : key[f[i]] >= key[m]
  <2>1. \A m \in S : key[m] \in Int
    BY <1>4
  <2> DEFINE g == Foremost(S, limit, key)
  <2>2. /\ g \in Seq(S)
        /\ \A i, j \in 1 .. Len(g) : i < j => g[i] # g[j] /\ key[g[i]] >= key[g[j]]
        /\ \A m \in S : (\A i \in 1 .. Len(g) : g[i] # m) =>
             Len(g) = limit /\ \A i \in 1 .. Len(g) : key[g[i]] >= key[m]
    BY <1>3, <2>1, ForemostIsBest DEF limit
  <2> QED
    BY <1>5, <2>2
<1>7. DOMAIN f = 1 .. Len(f) /\ \A i \in 1 .. Len(f) : f[i] \in S
  BY <1>6
<1>8. f \in Seq(pool)
  BY <1>1, <1>6
<1>9. \A i, j \in DOMAIN f : i < j => /\ f[i] # f[j]
                                      /\ Composite(f[i], search) >= Composite(f[j], search)
  <2> TAKE i, j \in DOMAIN f
  <2> HAVE i < j
  <2>1. i \in 1 .. Len(f) /\ j \in 1 .. Len(f) /\ f[i] \in S /\ f[j] \in S
    BY <1>7
  <2>2. f[i] # f[j] /\ key[f[i]] >= key[f[j]]
    BY <1>6, <2>1
  <2> QED
    BY <1>4, <2>1, <2>2
<1>10. ASSUME NEW m \in pool \ ToSet(f), Composite(m, search) >= MinScore
       PROVE  Len(f) = limit /\ \A i \in DOMAIN f : Composite(f[i], search) >= Composite(m, search)
  <2>1. m \in S
    BY <1>1, <1>10
  <2>2. \A i \in 1 .. Len(f) : f[i] # m
    BY <1>7, <1>10 DEF ToSet
  <2>3. Len(f) = limit /\ \A i \in 1 .. Len(f) : key[f[i]] >= key[m]
    BY <1>6, <2>1, <2>2
  <2> QED
    BY <1>4, <1>7, <2>1, <2>3
<1> QED
  BY <1>1, <1>7, <1>8, <1>9, <1>10 DEF limit

(* What is known of the memories, and that the last search was sound. *)
RecallInv == RecallTypes /\ RecallIsSound

(***************************************************************************)
(* A search marks and indexes memories, and leaves the rest.               *)
(***************************************************************************)
LEMMA RetrieveKeepsTypes ==
  ASSUME RecallAssumption, RecallTypes, retrieve
  PROVE  RecallTypes'
<1>1. PICK search \in Searches :
        LET found == Best(CandidateMemories(search), search)
        IN  /\ \A t \in KindsOf(search) :
                 \A m \in ToSet(Rows(t, search, 2 * Reach(search))) : Readable(m)
            /\ recalled' = [search |-> search,
                            found |-> [i \in DOMAIN found |->
                                         [memory |-> found[i], score |-> Composite(found[i], search)]]]
            /\ memories' = [m \in Memory |->
                              IF m \in ToSet(found)
                              THEN [memories[m] EXCEPT !.accesses = Min({@ + 1, MaxAccesses})]
                              ELSE memories[m]]
            /\ indexed' = indexed \union ToSet(found)
            /\ UNCHANGED <<clock, changes>>
  BY DEF retrieve
<1> DEFINE pool == CandidateMemories(search)
           found == Best(pool, search)
<1>2. search.limit \in Nat
  BY DEF RecallAssumption
<1>3. pool \subseteq Memory
  BY <1>2, CandidatesFind
<1>4. \A i \in DOMAIN found : found[i] \in Memory
  <2> HIDE DEF pool, found
  <2> QED
    BY <1>2, <1>3, BestIsBest DEF found
<1>5. ToSet(found) \subseteq Memory
  BY <1>4 DEF ToSet
<1>6. \A n \in Nat : Min({n + 1, MaxAccesses}) \in Nat
  BY MinOfTwo DEF RecallAssumption
<1>7. clock' = clock /\ changes' = changes /\ Memory' = Memory
  BY <1>1 DEF Memory
<1>8. indexed' \subseteq Memory
  BY <1>1, <1>5 DEF RecallTypes
<1> HIDE DEF found, pool
<1>9. ASSUME NEW m \in Memory PROVE IsRecord(memories'[m])
  <2> DEFINE c == memories[m]
  <2>1. IsRecord(c)
    BY DEF RecallTypes
  <2>2. CASE memories'[m] = c
    BY <2>1, <2>2
  <2>3. CASE memories'[m] = [c EXCEPT !.accesses = Min({@ + 1, MaxAccesses})]
    <3>1. Min({c.accesses + 1, MaxAccesses}) \in Nat
      BY <1>6, <2>1 DEF IsRecord
    <3> QED
      BY <2>1, <2>3, <3>1 DEF IsRecord
  <2>4. memories'[m] = IF m \in ToSet(found)
                       THEN [c EXCEPT !.accesses = Min({@ + 1, MaxAccesses})] ELSE c
    BY <1>1 DEF found, pool
  <2> QED
    BY <2>2, <2>3, <2>4
<1> QED
  BY <1>7, <1>8, <1>9 DEF RecallTypes

(***************************************************************************)
(* A search is sound in the state it leaves, with the memories it returned *)
(* marked and indexed.                                                     *)
(***************************************************************************)
LEMMA RetrieveIsSound ==
  ASSUME RecallAssumption, RecallTypes, retrieve
  PROVE  RecallIsSound'
<1>1. PICK search \in Searches :
        LET found == Best(CandidateMemories(search), search)
        IN  /\ \A t \in KindsOf(search) :
                 \A m \in ToSet(Rows(t, search, 2 * Reach(search))) : Readable(m)
            /\ recalled' = [search |-> search,
                            found |-> [i \in DOMAIN found |->
                                         [memory |-> found[i], score |-> Composite(found[i], search)]]]
            /\ memories' = [m \in Memory |->
                              IF m \in ToSet(found)
                              THEN [memories[m] EXCEPT !.accesses = Min({@ + 1, MaxAccesses})]
                              ELSE memories[m]]
            /\ indexed' = indexed \union ToSet(found)
            /\ UNCHANGED <<clock, changes>>
  BY DEF retrieve
<1> DEFINE pool == CandidateMemories(search)
           found == Best(pool, search)
           kinds == KindsOf(search)
           reach == Reach(search)
<1>2. search.limit \in Nat /\ reach \in Nat
  BY DEF RecallAssumption, Reach
<1>3. /\ \A m \in pool : m \in Memory /\ \E t \in kinds : Admitted(m, t, search)
      /\ \A m \in indexed \ pool, t \in kinds :
           Admitted(m, t, search) => reach <= Cardinality(Crowd(m, t, search))
  BY <1>2, CandidatesFind
<1>4. /\ recalled'.search = search /\ DOMAIN recalled'.found = DOMAIN found
      /\ \A i \in DOMAIN found : /\ recalled'.found[i].memory = found[i]
                                 /\ recalled'.found[i].score = Composite(found[i], search)
      /\ indexed' = indexed \cup ToSet(found)
      /\ Memory' = Memory /\ clock' = clock
  BY <1>1 DEF Memory
<1> HIDE DEF reach, kinds, pool, found
<1>5. /\ found \in Seq(pool)
      /\ \A i \in DOMAIN found : found[i] \in pool /\ Composite(found[i], search) >= MinScore
      /\ \A i, j \in DOMAIN found : i < j => /\ found[i] # found[j]
                                             /\ Composite(found[i], search) >= Composite(found[j], search)
      /\ \A m \in pool \ ToSet(found) : Composite(m, search) >= MinScore =>
           /\ Len(found) = search.limit
           /\ \A i \in DOMAIN found : Composite(found[i], search) >= Composite(m, search)
  <2>1. pool \subseteq Memory
    BY <1>3
  <2> QED
    BY <1>2, <2>1, BestIsBest DEF found
<1>6. Recalled' = ToSet(found)
  BY <1>4 DEF Recalled, ToSet
<1>7. Len(recalled'.found) = Len(found)
  <2>1. DOMAIN found = 1 .. Len(found) /\ Len(found) \in Nat
    BY <1>5
  <2>2. recalled'.found = [i \in DOMAIN found |->
                             [memory |-> found[i], score |-> Composite(found[i], search)]]
    BY <1>1 DEF found, pool
  <2> QED
    BY <2>1, <2>2
<1>8. ASSUME NEW m \in Memory
      PROVE  /\ m \notin ToSet(found) => memories'[m] = memories[m]
             /\ \A f \in {"type", "user", "project", "global", "semantic", "importance",
                          "freshness"} : memories'[m][f] = memories[m][f]
  <2> DEFINE c == memories[m]
  <2>1. IsRecord(c)
    BY DEF RecallTypes
  <2>2. memories'[m] = IF m \in ToSet(found)
                       THEN [c EXCEPT !.accesses = Min({@ + 1, MaxAccesses})] ELSE c
    BY <1>1 DEF found, pool
  <2>3. m \notin ToSet(found) => memories'[m] = c
    BY <2>2
  <2>4. ASSUME NEW x, memories'[m] = [c EXCEPT !.accesses = x],
               NEW f \in {"type", "user", "project", "global", "semantic", "importance", "freshness"}
        PROVE  memories'[m][f] = c[f]
    BY <2>1, <2>4 DEF IsRecord
  <2> QED
    BY <2>2, <2>3, <2>4
<1>9. \A m \in Memory : \A t : Admitted(m, t, search)' <=> Admitted(m, t, search)
  <2> TAKE m \in Memory
  <2> TAKE t
  <2>1. /\ memories'[m].freshness = memories[m].freshness /\ memories'[m].type = memories[m].type
        /\ memories'[m].user = memories[m].user /\ memories'[m].project = memories[m].project
        /\ memories'[m].global = memories[m].global
    BY <1>8
  <2> QED
    BY <2>1 DEF Admitted
<1>10. ASSUME NEW m \in Memory \ ToSet(found)
       PROVE  ScoreOf(m)' = Composite(m, search)
  <2>1. memories'[m] = memories[m]
    BY <1>8
  <2>2. compute_freshness(m)' = compute_freshness(m)
    BY <1>4, <2>1 DEF compute_freshness
  <2>3. Penalty(m)' = Penalty(m)
    BY <2>1 DEF Penalty, Refuted, Outdated
  <2>4. ScopeMatch(memories[m], search)' = ScopeMatch(memories[m], search)
    BY <2>1 DEF ScopeMatch
  <2>5. Quality(memories[m])' = Quality(memories[m])
    BY <2>1 DEF Quality
  <2> QED
    BY <1>4, <2>1, <2>2, <2>3, <2>4, <2>5 DEF ScoreOf, Composite
<1>11. ASSUME NEW m \in indexed' \ Recalled', NEW t \in kinds,
              Wanted(m, t)', ~Crowded(m, t)', (ScoreOf(m)') >= MinScore
       PROVE  /\ Len(recalled'.found) = search.limit
              /\ \A i \in DOMAIN recalled'.found : recalled'.found[i].score >= ScoreOf(m)'
  <2>1. m \in indexed /\ m \in Memory \ ToSet(found)
    BY <1>4, <1>6, <1>11 DEF RecallTypes
  <2>2. ScoreOf(m)' = Composite(m, search)
    BY <1>10, <2>1
  <2>3. Admitted(m, t, search)
    <3>1. Admitted(m, t, search)'
      BY <1>4, <1>11 DEF Wanted, Admitted
    <3> QED
      BY <1>9, <2>1, <3>1
  <2>4. m \in pool
    <3> SUFFICES ASSUME m \notin pool PROVE FALSE
      OBVIOUS
    <3>1. reach <= Cardinality(Crowd(m, t, search))
      BY <1>3, <2>1, <2>3
    <3> DEFINE more == {o \in indexed' \ {m} :
                          Wanted(o, t)' /\ memories'[o].semantic >= memories'[m].semantic}
    <3>2. Crowd(m, t, search) \subseteq more
      <4> SUFFICES ASSUME NEW o \in Crowd(m, t, search) PROVE o \in more
        OBVIOUS
      <4>1. /\ o \in indexed \ {m} /\ o \in Memory /\ Admitted(o, t, search)
            /\ memories[o].semantic >= memories[m].semantic
        BY DEF Crowd, RecallTypes
      <4>2. memories'[o].semantic = memories[o].semantic /\ memories'[m].semantic = memories[m].semantic
        BY <1>8, <2>1, <4>1
      <4>3. Admitted(o, t, search)'
        BY <1>9, <4>1
      <4>4. Wanted(o, t)'
        BY <1>4, <4>3 DEF Wanted, Admitted
      <4> QED
        BY <1>4, <4>1, <4>2, <4>4
    <3>3. IsFiniteSet(more)
      <4>1. IsFiniteSet(Memory') /\ indexed' \subseteq Memory'
        BY RetrieveKeepsTypes DEF RecallTypes
      <4>2. more \subseteq Memory'
        BY <4>1
      <4> HIDE DEF more
      <4> QED
        BY <4>1, <4>2, FS_Subset
    <3>4. ~(reach <= Cardinality(more))
      <4>1. Crowded(m, t)' <=> Reach(recalled'.search) <= Cardinality(more)
        BY DEF Crowded, Reach
      <4>2. Crowded(m, t)' <=> reach <= Cardinality(more)
        BY <1>4, <4>1 DEF reach
      <4> HIDE DEF more
      <4> QED
        BY <1>11, <4>2
    <3> HIDE DEF more
    <3>5. IsFiniteSet(Crowd(m, t, search)) /\ Cardinality(Crowd(m, t, search)) <= Cardinality(more)
      BY <3>2, <3>3, FS_Subset
    <3>6. Cardinality(Crowd(m, t, search)) \in Nat /\ Cardinality(more) \in Nat
      BY <3>3, <3>5, FS_CardinalityType
    <3> QED
      BY <1>2, <3>1, <3>4, <3>5, <3>6
  <2>5. /\ Len(found) = search.limit
        /\ \A i \in DOMAIN found : Composite(found[i], search) >= Composite(m, search)
    BY <1>5, <1>11, <2>1, <2>2, <2>4
  <2> QED
    BY <1>4, <1>7, <2>2, <2>5
<1>12. \A i, j \in DOMAIN recalled'.found :
         i < j => /\ recalled'.found[i].memory # recalled'.found[j].memory
                  /\ recalled'.found[i].score >= recalled'.found[j].score
  BY <1>4, <1>5
<1>13. \A m \in Recalled' : m \in pool /\ Composite(m, search) >= MinScore
  BY <1>5, <1>6 DEF ToSet
<1>14. ASSUME NEW m \in Recalled'
       PROVE  /\ search.user # Nobody => memories'[m].user \in {search.user, Nobody}
              /\ search.project # NoProject =>
                   memories'[m].project = search.project \/ memories'[m].global
  <2>1. PICK t \in kinds : m \in Memory /\ Admitted(m, t, search)
    BY <1>3, <1>13
  <2>2. /\ memories'[m].user = memories[m].user /\ memories'[m].project = memories[m].project
        /\ memories'[m].global = memories[m].global
    BY <1>8, <2>1
  <2> QED
    BY <2>1, <2>2 DEF Admitted
<1>15. RecallIsBest'
  <2>1. KindsOf(recalled.search)' = kinds
    BY <1>4 DEF kinds, KindsOf
  <2> QED
    BY <1>4, <1>11, <1>12, <1>14, <2>1 DEF RecallIsBest
<1>16. ContradictedIsNotRecalled'
  <2> SUFFICES ASSUME NEW m \in Recalled', Readable(m)',
                      memories'[m].freshness \in {"CONTRADICTED", "SUPERSEDED"}
               PROVE  FALSE
    BY DEF ContradictedIsNotRecalled
  <2>1. m \in Memory /\ Composite(m, search) >= MinScore
    BY <1>3, <1>13
  <2>2. memories[m].freshness \in {"CONTRADICTED", "SUPERSEDED"} /\ Readable(m)
    BY <1>8, <2>1 DEF Readable
  <2>3. Composite(m, search) \in Int /\ Composite(m, search) < MinScore
    BY <2>1, <2>2, ScoreIsTyped
  <2> QED
    BY <2>1, <2>3 DEF MinScore
<1> QED
  BY <1>15, <1>16 DEF RecallIsSound

(***************************************************************************)
(* A change leaves records: it sets statuses, or what a patch gives.       *)
(***************************************************************************)
LEMMA ChangeKeepsTypes ==
  ASSUME RecallAssumption, RecallTypes, NEW m \in Memory, invalidate(m) \/ update_memory(m)
  PROVE  RecallTypes' /\ recalled' = NoSearch
<1> DEFINE c == memories[m]
<1>1. IsRecord(c)
  BY DEF RecallTypes
<1>2. /\ Change(m)
      /\ \E r : memories' = [memories EXCEPT ![m] = r] /\ IsRecord(r)
  <2>1. CASE invalidate(m)
    <3>1. PICK status \in FreshnessStatus :
            memories' = [memories EXCEPT
              ![m].freshness = status,
              ![m].verification = CASE status = "CONTRADICTED" -> "DISPUTED"
                                    [] status = "EXPIRED" -> "EXPIRED" [] OTHER -> @]
      BY <2>1 DEF invalidate
    <3> DEFINE verdict == CASE status = "CONTRADICTED" -> "DISPUTED"
                            [] status = "EXPIRED" -> "EXPIRED" [] OTHER -> c.verification
               r == [c EXCEPT !.freshness = status, !.verification = verdict]
    <3>2. memories' = [memories EXCEPT ![m] = r]
      BY <3>1
    <3>3. IsRecord(r)
      <4> HIDE DEF verdict
      <4> QED
        BY <1>1 DEF IsRecord
    <3> QED
      BY <2>1, <3>2, <3>3 DEF invalidate
  <2>2. CASE update_memory(m)
    <3>1. PICK p \in Patches :
            memories' = [memories EXCEPT ![m] =
                          [f \in DOMAIN @ |-> IF f \in DOMAIN p THEN p[f] ELSE @[f]]]
      BY <2>2 DEF update_memory
    <3> DEFINE r == [f \in DOMAIN c |-> IF f \in DOMAIN p THEN p[f] ELSE c[f]]
    <3>2. memories' = [memories EXCEPT ![m] = r]
      BY <3>1
    <3>3. /\ DOMAIN p \subseteq Patchable
          /\ "keyword" \in DOMAIN p => p["keyword"] \in 0 .. 100
          /\ "importance" \in DOMAIN p => p["importance"] \in Int
      BY DEF RecallAssumption
    <3>4. DOMAIN r = DOMAIN c /\ r.type = c.type /\ r.semantic = c.semantic /\ r.accesses = c.accesses
      BY <1>1, <3>3 DEF IsRecord, Patchable
    <3>5. r.keyword \in 0 .. 100 /\ r.importance \in Int
      BY <1>1, <3>3 DEF IsRecord
    <3>6. IsRecord(r)
      <4> HIDE DEF r, c
      <4> QED
        BY <1>1, <3>4, <3>5 DEF IsRecord
    <3> HIDE DEF r
    <3> QED
      BY <2>2, <3>2, <3>6 DEF update_memory
  <2> QED
    BY <2>1, <2>2
<1>3. PICK r : memories' = [memories EXCEPT ![m] = r] /\ IsRecord(r)
  BY <1>2
<1>4. Memory' = Memory /\ \A o \in Memory : IsRecord(memories'[o])
  BY <1>3 DEF Memory, RecallTypes
<1>5. recalled' = NoSearch /\ clock' = clock /\ changes' = changes + 1 /\ indexed' = indexed \union {m}
  BY <1>2 DEF Change
<1>6. indexed' \subseteq Memory /\ changes' \in Nat /\ clock' \in Nat
  <2>1. indexed \subseteq Memory /\ changes \in Nat /\ clock \in Nat
    BY DEF RecallTypes
  <2> QED
    BY <1>5, <2>1
<1> QED
  BY <1>4, <1>5, <1>6 DEF RecallTypes

(***************************************************************************)
(* A search is sound; whatever else happens forgets it, or leaves it.      *)
(***************************************************************************)
LEMMA RecallKeeps ==
  ASSUME RecallAssumption, RecallInv, [RecallNext]_recallVars
  PROVE  RecallInv'
<1>1. CASE retrieve
  BY <1>1, RetrieveKeepsTypes, RetrieveIsSound DEF RecallInv
<1>2. ASSUME recalled' = NoSearch, RecallTypes' PROVE RecallInv'
  <2>1. Recalled' = {}
    BY <1>2 DEF Recalled, NoSearch
  <2>2. NoSearch' = NoSearch
    BY DEF NoSearch
  <2>3. RecallIsSound'
    BY <1>2, <2>1, <2>2 DEF RecallIsSound, RecallIsBest, ContradictedIsNotRecalled
  <2> QED
    BY <1>2, <2>3 DEF RecallInv
<1>3. ASSUME NEW m \in Memory, invalidate(m) \/ update_memory(m) PROVE RecallInv'
  BY <1>2, <1>3, ChangeKeepsTypes DEF RecallInv
<1>4. CASE TimePasses
  BY <1>2, <1>4 DEF TimePasses, RecallInv, RecallTypes, Memory
<1>5. CASE Restart
  BY <1>2, <1>5 DEF Restart, RecallInv, RecallTypes, Memory
<1>6. CASE UNCHANGED recallVars
  <2>1. RecallTypes'
    BY <1>6 DEF RecallInv, RecallTypes, Memory, recallVars
  <2>2. UNCHANGED <<memories, clock, changes, indexed, recalled>>
    BY <1>6 DEF recallVars
  <2>3. RecallIsBest'
    <3>1. Recalled' = Recalled /\ NoSearch' = NoSearch
          /\ KindsOf(recalled.search)' = KindsOf(recalled.search)
      BY <2>2 DEF Recalled, KindsOf, NoSearch
    <3>2. \A m, t : Wanted(m, t)' <=> Wanted(m, t)
      BY <2>2 DEF Wanted, Admitted
    <3>3. \A m, t : Crowded(m, t)' <=> Crowded(m, t)
      <4> TAKE m, t
      <4>1. {o \in indexed' \ {m} : Wanted(o, t)' /\ memories'[o].semantic >= memories'[m].semantic}
              = {o \in indexed \ {m} : Wanted(o, t) /\ memories[o].semantic >= memories[m].semantic}
        BY <2>2, <3>2
      <4> QED
        BY <2>2, <4>1 DEF Crowded, Reach
    <3>4. \A m : ScoreOf(m)' = ScoreOf(m)
      <4> TAKE m
      <4>1. compute_freshness(m)' = compute_freshness(m)
        BY <2>2 DEF compute_freshness
      <4>2. Penalty(m)' = Penalty(m)
        BY <2>2 DEF Penalty, Refuted, Outdated
      <4>3. ScopeMatch(memories[m], recalled.search)' = ScopeMatch(memories[m], recalled.search)
        BY <2>2 DEF ScopeMatch
      <4>4. Quality(memories[m])' = Quality(memories[m])
        BY <2>2 DEF Quality
      <4> QED
        BY <2>2, <4>1, <4>2, <4>3, <4>4 DEF ScoreOf, Composite
    <3> QED
      BY <2>2, <3>1, <3>2, <3>3, <3>4 DEF RecallInv, RecallIsSound, RecallIsBest
  <2>4. ContradictedIsNotRecalled'
    BY <2>2 DEF RecallInv, RecallIsSound, ContradictedIsNotRecalled, Recalled, Readable
  <2> QED
    BY <2>1, <2>3, <2>4 DEF RecallInv, RecallIsSound
<1> QED
  BY <1>1, <1>3, <1>4, <1>5, <1>6 DEF RecallNext

------------------------------------------------------------------------------
(* Folds over lists *)

(***************************************************************************)
(* A nonempty set of the places of a list has a last.                      *)
(***************************************************************************)
LEMMA LastPlace ==
  ASSUME NEW n \in Nat, NEW s \in SUBSET (1 .. n), s # {}
  PROVE  Max(s) \in s /\ \A i \in s : i <= Max(s)
<1> DEFINE left == {n - i : i \in s}
<1>1. left \subseteq Nat /\ left # {}
  <2>1. \A i \in s : n - i \in Nat
    OBVIOUS
  <2> QED
    BY <2>1
<1>2. PICK x \in left : \A y \in left : x <= y
  <2> HIDE DEF left
  <2> QED
    BY <1>1, LeastNumber
<1>3. PICK i \in s : x = n - i
  BY <1>2
<1>4. \A j \in s : n - i <= n - j
  BY <1>2, <1>3
<1>5. \A j \in s : i >= j
  BY <1>4
<1> QED
  BY <1>5 DEF Max

(* The first places come before the next one. *)
LEMMA LastOfFirst ==
  ASSUME NEW n \in Nat
  PROVE  Max(1 .. n + 1) = n + 1 /\ (1 .. n + 1) \ {n + 1} = 1 .. n
<1>1. /\ Max(1 .. n + 1) \in 1 .. n + 1
      /\ \A i \in 1 .. n + 1 : i <= Max(1 .. n + 1)
  <2>1. n + 1 \in Nat /\ 1 .. n + 1 \in SUBSET (1 .. n + 1) /\ 1 .. n + 1 # {}
    OBVIOUS
  <2> QED
    BY <2>1, LastPlace
<1> QED
  BY <1>1

(* What a fold over n elements makes of any of them, where step maps what  *)
(* there is and the place of the next element to what there is then.       *)
IsFold(h, D, base, step) ==
  h = [s \in D |-> IF s = {} THEN base ELSE step[<<h[s \ {Max(s)}], Max(s)>>]]

(***************************************************************************)
(* Such a fold exists: it is there for the sets of at most k places, for   *)
(* one k after the other.                                                  *)
(***************************************************************************)
LEMMA FoldExists ==
  ASSUME NEW n \in Nat, NEW A, NEW base \in A, NEW step \in [A \X (1 .. n) -> A]
  PROVE  \E h \in [SUBSET (1 .. n) -> A] : IsFold(h, SUBSET (1 .. n), base, step)
<1> DEFINE D(k) == {s \in SUBSET (1 .. n) : Cardinality(s) <= k}
           T == {k \in Nat : \E h \in [D(k) -> A] : IsFold(h, D(k), base, step)}
<1>1. \A s \in SUBSET (1 .. n) : IsFiniteSet(s) /\ Cardinality(s) \in Nat /\ Cardinality(s) <= n
  <2> DEFINE places == 1 .. n
  <2>1. IsFiniteSet(places) /\ Cardinality(places) = n
    BY PlacesCount
  <2> HIDE DEF places
  <2>2. \A s \in SUBSET places : IsFiniteSet(s) /\ Cardinality(s) <= n /\ Cardinality(s) \in Nat
    BY <2>1, FS_Subset, FS_CardinalityType
  <2> QED
    BY <2>2 DEF places
<1>2. 0 \in T
  <2> DEFINE h == [s \in D(0) |-> base]
  <2>1. \A s \in D(0) : s = {}
    BY <1>1, FS_EmptySet
  <2>2. IsFold(h, D(0), base, step) /\ h \in [D(0) -> A]
    BY <2>1 DEF IsFold
  <2> HIDE DEF h, D
  <2> QED
    BY <2>2
<1>3. ASSUME NEW k \in 0 .. n - 1, k \in T PROVE k + 1 \in T
  <2>1. PICK h \in [D(k) -> A] : IsFold(h, D(k), base, step)
    BY <1>3
  <2> DEFINE e == [s \in D(k + 1) |-> IF s = {} THEN base ELSE step[<<h[s \ {Max(s)}], Max(s)>>]]
  <2>2. D(k) \subseteq D(k + 1)
    BY <1>1
  <2>3. \A s \in D(k) : e[s] = h[s]
    BY <2>1, <2>2 DEF IsFold
  <2>4. \A s \in D(k + 1) : s # {} => s \ {Max(s)} \in D(k) /\ Max(s) \in 1 .. n
    <3> SUFFICES ASSUME NEW s \in D(k + 1), s # {} PROVE s \ {Max(s)} \in D(k) /\ Max(s) \in 1 .. n
      OBVIOUS
    <3>1. Max(s) \in s
      BY LastPlace
    <3>2. Cardinality(s \ {Max(s)}) = Cardinality(s) - 1
      BY <1>1, <3>1, FS_RemoveElement
    <3>3. Cardinality(s) <= k + 1 /\ Cardinality(s) \in Nat
      BY <1>1
    <3>4. Cardinality(s \ {Max(s)}) <= k
      BY <3>2, <3>3
    <3> QED
      BY <3>1, <3>4
  <2>5. e \in [D(k + 1) -> A]
    <3>1. \A s \in D(k + 1) : s # {} => <<h[s \ {Max(s)}], Max(s)>> \in A \X (1 .. n)
      BY <2>1, <2>4
    <3> HIDE DEF D
    <3> QED
      BY <3>1
  <2>6. IsFold(e, D(k + 1), base, step)
    <3> DEFINE e2 == [s \in D(k + 1) |-> IF s = {} THEN base ELSE step[<<e[s \ {Max(s)}], Max(s)>>]]
    <3>1. \A s \in D(k + 1) : s # {} => e[s \ {Max(s)}] = h[s \ {Max(s)}]
      BY <2>3, <2>4
    <3> HIDE DEF D
    <3>2. \A s \in D(k + 1) : e[s] = e2[s]
      BY <3>1
    <3>3. e = e2
      BY <3>2
    <3> HIDE DEF e
    <3> QED
      BY <3>3 DEF IsFold
  <2> HIDE DEF D, e
  <2>7. \E g \in [D(k + 1) -> A] : IsFold(g, D(k + 1), base, step)
    BY <2>5, <2>6
  <2> QED
    BY <2>7
<1>4. n \in T
  <2>1. \A k \in 0 .. n - 1 : k \in T => k + 1 \in T
    BY <1>3
  <2> HIDE DEF T
  <2>2. \A k \in 0 .. n : k \in T
    BY <1>2, <2>1, UpTo
  <2> QED
    BY <2>2
<1>5. D(n) = SUBSET (1 .. n)
  BY <1>1
<1> HIDE DEF D
<1> QED
  BY <1>4, <1>5

(* The values a fold takes, from none of n elements to all of them. *)
IsRun(f, n, A, base, step, last) ==
  /\ f \in [0 .. n -> A] /\ f[0] = base /\ f[n] = last
  /\ \A k \in 0 .. n - 1 : f[k + 1] = step[<<f[k], k + 1>>]

(* A function on the sets of places that follows the steps, as far as they *)
(* lead.                                                                   *)
Follows(iter, n, A, base, step) ==
  /\ iter[{}] = base
  /\ \A s \in SUBSET (1 .. n) : s # {} /\ iter[s \ {Max(s)}] \in A =>
       iter[s] = step[<<iter[s \ {Max(s)}], Max(s)>>]

(***************************************************************************)
(* It runs through the values of the fold.                                 *)
(***************************************************************************)
LEMMA FoldRuns ==
  ASSUME NEW n \in Nat, NEW A, NEW base \in A, NEW step \in [A \X (1 .. n) -> A], NEW iter,
         Follows(iter, n, A, base, step)
  PROVE  \E f : IsRun(f, n, A, base, step, iter[1 .. n])
<1> DEFINE T == {k \in 0 .. n : iter[1 .. k] \in A}
           f == [k \in 0 .. n |-> iter[1 .. k]]
<1>1. 1 .. 0 = {}
  OBVIOUS
<1>2. 0 \in T
  BY <1>1 DEF Follows
<1>3. ASSUME NEW k \in 0 .. n - 1, iter[1 .. k] \in A
      PROVE  iter[1 .. k + 1] = step[<<iter[1 .. k], k + 1>>] /\ iter[1 .. k + 1] \in A
  <2> DEFINE s == 1 .. k + 1
  <2>1. k \in Nat /\ k + 1 \in 1 .. n
    OBVIOUS
  <2>2. s \in SUBSET (1 .. n) /\ s # {}
    BY <2>1
  <2>3. Max(s) = k + 1 /\ s \ {Max(s)} = 1 .. k
    BY <2>1, LastOfFirst
  <2> HIDE DEF s
  <2>4. iter[s \ {Max(s)}] \in A
    BY <1>3, <2>3
  <2>5. iter[s] = step[<<iter[s \ {Max(s)}], Max(s)>>]
    BY <2>2, <2>4 DEF Follows
  <2>6. iter[s] = step[<<iter[1 .. k], k + 1>>]
    BY <2>3, <2>5
  <2>7. <<iter[1 .. k], k + 1>> \in A \X (1 .. n)
    BY <1>3, <2>1
  <2>8. step[<<iter[1 .. k], k + 1>>] \in A
    BY <2>7
  <2> QED
    BY <2>6, <2>8 DEF s
<1>4. \A k \in 0 .. n - 1 : k \in T => k + 1 \in T
  <2> TAKE k \in 0 .. n - 1
  <2> HAVE k \in T
  <2>1. k + 1 \in 0 .. n
    OBVIOUS
  <2>2. iter[1 .. k + 1] \in A
    BY <1>3
  <2> QED
    BY <2>1, <2>2
<1>5. \A k \in 0 .. n : k \in T
  <2> HIDE DEF T
  <2> QED
    BY <1>2, <1>4, UpTo
<1>6. f \in [0 .. n -> A] /\ f[0] = base
  BY <1>1, <1>5 DEF Follows
<1>7. ASSUME NEW k \in 0 .. n - 1 PROVE f[k + 1] = step[<<f[k], k + 1>>]
  <2>1. k \in 0 .. n /\ k + 1 \in 0 .. n
    OBVIOUS
  <2>2. iter[1 .. k + 1] = step[<<iter[1 .. k], k + 1>>]
    BY <1>3, <1>5, <2>1
  <2> QED
    BY <2>1, <2>2
<1>8. f[n] = iter[1 .. n]
  OBVIOUS
<1> HIDE DEF f
<1> QED
  BY <1>6, <1>7, <1>8 DEF IsRun

------------------------------------------------------------------------------
(* The context *)

Candidate == [text : Text, authority : Int, version : Seq(Nat)]

Selections == [items : Seq(Candidate), used : Nat, omitted : Nat]

NoSelection == [items |-> <<>>, used |-> 0, omitted |-> 0]

IsSelecting(h, budget, list) ==
  h = [s \in SUBSET (DOMAIN list) |->
         IF s = {} THEN NoSelection ELSE Fit(budget, h[s \ {Max(s)}], list[Max(s)])]

LEMMA FitIsTyped ==
  ASSUME ContextAssumption, NEW budget, NEW selection \in Selections, NEW item \in Candidate
  PROVE  /\ Fit(budget, selection, item) \in Selections
         /\ Fit(budget, selection, item).omitted = 0 =>
              /\ selection.omitted = 0
              /\ Fit(budget, selection, item).items = Append(selection.items, item)
<1>1. Tokens[item.text] \in Nat
  BY DEF ContextAssumption, Candidate
<1>2. Append(selection.items, item) \in Seq(Candidate)
  BY DEF Selections
<1>3. selection.used \in Nat /\ selection.omitted \in Nat
  BY DEF Selections
<1>4. CASE selection.used + Tokens[item.text] <= budget
  <2>1. Fit(budget, selection, item)
          = [items |-> Append(selection.items, item), used |-> selection.used + Tokens[item.text],
             omitted |-> selection.omitted]
    BY <1>4 DEF Fit, Selections
  <2>2. selection.used + Tokens[item.text] \in Nat
    BY <1>1, <1>3
  <2>3. Fit(budget, selection, item) \in Selections
    BY <1>2, <1>3, <2>1, <2>2 DEF Selections
  <2> QED
    BY <2>1, <2>3
<1>5. CASE ~(selection.used + Tokens[item.text] <= budget)
  <2>1. Fit(budget, selection, item)
          = [items |-> selection.items, used |-> selection.used, omitted |-> selection.omitted + 1]
    BY <1>5 DEF Fit, Selections
  <2>2. selection.omitted + 1 \in Nat /\ selection.omitted + 1 # 0
    BY <1>3
  <2>3. selection.items \in Seq(Candidate)
    BY DEF Selections
  <2>4. Fit(budget, selection, item) \in Selections
    BY <1>3, <2>1, <2>2, <2>3 DEF Selections
  <2> QED
    BY <2>1, <2>2, <2>4
<1> QED
  BY <1>4, <1>5

(***************************************************************************)
(* The selection of a context runs through one bundle for each candidate.  *)
(***************************************************************************)
LEMMA SelectRuns ==
  ASSUME ContextAssumption, NEW budget, NEW list \in Seq(Candidate)
  PROVE  \E f : IsRun(f, Len(list), Selections, NoSelection,
                      [a \in Selections \X (1 .. Len(list)) |-> Fit(budget, a[1], list[a[2]])],
                      Select(budget, list))
<1> DEFINE n == Len(list)
           step == [a \in Selections \X (1 .. n) |-> Fit(budget, a[1], list[a[2]])]
           iter == CHOOSE h : IsSelecting(h, budget, list)
<1>1. n \in Nat /\ DOMAIN list = 1 .. n /\ \A i \in 1 .. n : list[i] \in Candidate
  OBVIOUS
<1> HIDE DEF n
<1>2. NoSelection \in Selections
  BY DEF NoSelection, Selections
<1>3. step \in [Selections \X (1 .. n) -> Selections]
  BY <1>1, FitIsTyped
<1>4. \A h : \A s \in SUBSET (1 .. n) : s # {} /\ h[s \ {Max(s)}] \in Selections =>
        step[<<h[s \ {Max(s)}], Max(s)>>] = Fit(budget, h[s \ {Max(s)}], list[Max(s)])
  <2> TAKE h
  <2> TAKE s \in SUBSET (1 .. n)
  <2> HAVE s # {} /\ h[s \ {Max(s)}] \in Selections
  <2>1. Max(s) \in 1 .. n
    BY <1>1, LastPlace
  <2> QED
    BY <2>1
<1>5. \E h : IsSelecting(h, budget, list)
  <2> HIDE DEF step
  <2>1. PICK h \in [SUBSET (1 .. n) -> Selections] : IsFold(h, SUBSET (1 .. n), NoSelection, step)
    BY <1>1, <1>2, <1>3, FoldExists
  <2> DEFINE e == [s \in SUBSET (1 .. n) |->
                     IF s = {} THEN NoSelection ELSE Fit(budget, h[s \ {Max(s)}], list[Max(s)])]
  <2>2. \A s \in SUBSET (1 .. n) : h[s] = e[s]
    BY <1>4, <2>1 DEF IsFold
  <2>3. h = e
    BY <2>1, <2>2
  <2> QED
    BY <1>1, <2>3 DEF IsSelecting
<1>6. IsSelecting(iter, budget, list)
  BY <1>5
<1>7. Select(budget, list) = iter[1 .. n]
  BY <1>1 DEF Select, FoldLeft, MapThenFoldSet, IsSelecting, NoSelection
<1> HIDE DEF iter
<1>8. Follows(iter, n, Selections, NoSelection, step)
  <2> HIDE DEF step
  <2>1. \A s \in SUBSET (1 .. n) :
          iter[s] = IF s = {} THEN NoSelection ELSE Fit(budget, iter[s \ {Max(s)}], list[Max(s)])
    BY <1>1, <1>6 DEF IsSelecting
  <2> QED
    BY <1>4, <2>1 DEF Follows
<1> DEFINE last == Select(budget, list)
<1>9. \E f : IsRun(f, n, Selections, NoSelection, step, last)
  <2> HIDE DEF step, last
  <2>1. last = iter[1 .. n]
    BY <1>7 DEF last
  <2> QED
    BY <1>1, <1>2, <1>3, <1>8, <2>1, FoldRuns
<1> QED
  BY <1>9 DEF n

(***************************************************************************)
(* Unless something is omitted, everything is selected, as it stands.      *)
(***************************************************************************)
LEMMA SelectKeeps ==
  ASSUME ContextAssumption, NEW budget, NEW list \in Seq(Candidate)
  PROVE  /\ Select(budget, list) \in Selections
         /\ Select(budget, list).omitted = 0 => Select(budget, list).items = list
<1> DEFINE n == Len(list)
           step == [a \in Selections \X (1 .. n) |-> Fit(budget, a[1], list[a[2]])]
           last == Select(budget, list)
<1>1. n \in Nat /\ \A i \in 1 .. n : list[i] \in Candidate
  OBVIOUS
<1>2. PICK f : IsRun(f, n, Selections, NoSelection, step, last)
  BY SelectRuns
<1> HIDE DEF n, last
<1>3. f \in [0 .. n -> Selections] /\ f[0] = NoSelection /\ f[n] = last
  BY <1>2 DEF IsRun
<1>4. \A k \in 0 .. n - 1 : f[k + 1] = Fit(budget, f[k], list[k + 1])
  <2> TAKE k \in 0 .. n - 1
  <2>1. k \in 0 .. n /\ k + 1 \in 1 .. n
    BY <1>1
  <2>2. <<f[k], k + 1>> \in Selections \X (1 .. n)
    BY <1>3, <2>1
  <2>3. f[k + 1] = step[<<f[k], k + 1>>]
    BY <1>2 DEF IsRun
  <2> QED
    BY <2>2, <2>3
<1> HIDE DEF step
<1> DEFINE Full(k) == f[k].omitted = 0 =>
                         Len(f[k].items) = k /\ \A i \in 1 .. k : f[k].items[i] = list[i]
           T == {k \in 0 .. n : Full(k)}
<1>5. 0 \in T
  BY <1>1, <1>3 DEF NoSelection
<1>6. ASSUME NEW k \in 0 .. n - 1, k \in T PROVE k + 1 \in T
  <2>1. k \in 0 .. n /\ k + 1 \in 0 .. n /\ k + 1 \in 1 .. n /\ k \in Nat
    BY <1>1
  <2> SUFFICES ASSUME f[k + 1].omitted = 0
               PROVE  /\ Len(f[k + 1].items) = k + 1
                      /\ \A i \in 1 .. k + 1 : f[k + 1].items[i] = list[i]
    BY <2>1
  <2>2. f[k] \in Selections /\ list[k + 1] \in Candidate
    BY <1>1, <1>3, <2>1
  <2>3. f[k].omitted = 0 /\ f[k + 1].items = Append(f[k].items, list[k + 1])
    <3>1. f[k + 1] = Fit(budget, f[k], list[k + 1])
      BY <1>4
    <3> DEFINE sel == f[k]
               item == list[k + 1]
    <3>2. sel \in Selections /\ item \in Candidate
      BY <2>2
    <3> HIDE DEF sel, item
    <3>3. Fit(budget, sel, item).omitted = 0 =>
            sel.omitted = 0 /\ Fit(budget, sel, item).items = Append(sel.items, item)
      BY <3>2, FitIsTyped
    <3> QED
      BY <3>1, <3>3 DEF sel, item
  <2>4. Len(f[k].items) = k /\ \A i \in 1 .. k : f[k].items[i] = list[i]
    BY <1>6, <2>3
  <2>5. f[k].items \in Seq(Candidate)
    BY <2>2 DEF Selections
  <2> DEFINE g == f[k].items
             e == list[k + 1]
  <2>6. /\ Len(Append(g, e)) = k + 1 /\ Append(g, e)[k + 1] = e
        /\ \A i \in 1 .. k : Append(g, e)[i] = g[i]
    <3>1. g \in Seq(Candidate) /\ e \in Candidate /\ Len(g) = k
      BY <2>2, <2>4, <2>5
    <3> HIDE DEF e, g
    <3>2. \A s \in Seq(Candidate) : \A x \in Candidate :
            /\ Len(Append(s, x)) = Len(s) + 1 /\ Append(s, x)[Len(s) + 1] = x
            /\ \A i \in 1 .. Len(s) : Append(s, x)[i] = s[i]
      BY AppendProperties
    <3> QED
      BY <3>1, <3>2
  <2>7. \A i \in 1 .. k + 1 : i \in 1 .. k \/ i = k + 1
    BY <2>1
  <2> QED
    BY <2>3, <2>4, <2>6, <2>7
<1>7. \A k \in 0 .. n : k \in T
  <2>1. \A k \in 0 .. n - 1 : k \in T => k + 1 \in T
    BY <1>6
  <2> HIDE DEF T
  <2> QED
    BY <1>1, <1>5, <2>1, UpTo
<1>8. last \in Selections /\ Full(n)
  BY <1>1, <1>3, <1>7
<1>9. ASSUME last.omitted = 0 PROVE last.items = list
  <2>1. last.items \in Seq(Candidate)
    BY <1>8 DEF Selections
  <2>2. Len(last.items) = Len(list) /\ \A i \in 1 .. Len(list) : last.items[i] = list[i]
    BY <1>3, <1>8, <1>9 DEF n
  <2> QED
    BY <2>1, <2>2, SeqEqual
<1> QED
  BY <1>8, <1>9 DEF last

Deduplicated(unique, c) ==
  IF \E i \in DOMAIN unique : unique[i].text = c.text THEN unique ELSE Append(unique, c)

IsDeduplicating(h, list) ==
  h = [s \in SUBSET (DOMAIN list) |->
         IF s = {} THEN <<>> ELSE Deduplicated(h[s \ {Max(s)}], list[Max(s)])]

(***************************************************************************)
(* What is left when duplicates are dropped is a list of candidates.       *)
(***************************************************************************)
LEMMA DeduplicateIsTyped ==
  ASSUME NEW list \in Seq(Candidate)
  PROVE  deduplicate(list) \in Seq(Candidate)
<1> DEFINE n == Len(list)
           A == Seq(Candidate)
           step == [a \in A \X (1 .. n) |-> Deduplicated(a[1], list[a[2]])]
           iter == CHOOSE h : IsDeduplicating(h, list)
           last == deduplicate(list)
<1>1. n \in Nat /\ DOMAIN list = 1 .. n /\ \A i \in 1 .. n : list[i] \in Candidate
  OBVIOUS
<1>2. <<>> \in A
  OBVIOUS
<1>3. step \in [A \X (1 .. n) -> A]
  <2>1. \A unique \in A, c \in Candidate : Deduplicated(unique, c) \in A
    BY DEF Deduplicated
  <2> HIDE DEF A, n
  <2> QED
    BY <1>1, <2>1
<1> HIDE DEF n, A
<1>4. \A h : \A s \in SUBSET (1 .. n) : s # {} /\ h[s \ {Max(s)}] \in A =>
        step[<<h[s \ {Max(s)}], Max(s)>>] = Deduplicated(h[s \ {Max(s)}], list[Max(s)])
  <2> TAKE h
  <2> TAKE s \in SUBSET (1 .. n)
  <2> HAVE s # {} /\ h[s \ {Max(s)}] \in A
  <2>1. Max(s) \in 1 .. n
    BY <1>1, LastPlace
  <2> QED
    BY <2>1
<1>5. \E h : IsDeduplicating(h, list)
  <2> HIDE DEF step
  <2>1. PICK h \in [SUBSET (1 .. n) -> A] : IsFold(h, SUBSET (1 .. n), <<>>, step)
    BY <1>1, <1>2, <1>3, FoldExists
  <2> DEFINE e == [s \in SUBSET (1 .. n) |->
                     IF s = {} THEN <<>> ELSE Deduplicated(h[s \ {Max(s)}], list[Max(s)])]
  <2>2. \A s \in SUBSET (1 .. n) : h[s] = e[s]
    BY <1>4, <2>1 DEF IsFold
  <2>3. h = e
    BY <2>1, <2>2
  <2> QED
    BY <1>1, <2>3 DEF IsDeduplicating
<1>6. IsDeduplicating(iter, list)
  BY <1>5
<1>7. last = iter[1 .. n]
  BY <1>1 DEF deduplicate, FoldLeft, MapThenFoldSet, IsDeduplicating, Deduplicated
<1> HIDE DEF iter, step, last
<1>8. Follows(iter, n, A, <<>>, step)
  <2>1. \A s \in SUBSET (1 .. n) :
          iter[s] = IF s = {} THEN <<>> ELSE Deduplicated(iter[s \ {Max(s)}], list[Max(s)])
    BY <1>1, <1>6 DEF IsDeduplicating
  <2> QED
    BY <1>4, <2>1 DEF Follows
<1>9. PICK f : IsRun(f, n, A, <<>>, step, last)
  BY <1>1, <1>2, <1>3, <1>7, <1>8, FoldRuns
<1>10. last \in A
  BY <1>1, <1>9 DEF IsRun
<1> QED
  BY <1>10 DEF last, A

LEMMA StableSortIsTyped ==
  ASSUME NEW S, NEW s \in Seq(S), NEW key \in [1 .. Len(s) -> Int \X Int]
  PROVE  StableSort(s, key) \in Seq(S) /\ Len(StableSort(s, key)) = Len(s)
<1> DEFINE n == Len(s)
           R == ByPair(key, n)
           p == InOrder(R, 1 .. n)
           t == StableSort(s, key)
<1>1. Ordered(p, R, 1 .. n) /\ t = At(s, p, n)
  BY StableSortIsOrdered
<1>2. n \in 0 .. Len(s)
  OBVIOUS
<1> HIDE DEF R, p, t
<1>3. t \in Seq(S) /\ Len(t) = n
  BY <1>1, <1>2, OrderedIsThere
<1> QED
  BY <1>3 DEF t

LEMMA ScoreOfCandidate ==
  ASSUME ContextAssumption, NEW c \in Candidate, NEW version
  PROVE  Score(c, version) \in Int /\ c.authority \in Int
<1>1. Overlap[c.text] \in Int /\ c.authority \in Int /\ Terms \in Nat \ {0}
  BY DEF ContextAssumption, Candidate
<1>2. VersionMatch(c, version) \in Int
  BY DEF VersionMatch
<1>3. (2500 * Overlap[c.text]) \div Terms \in Int
  BY <1>1
<1> DEFINE base == 4125 + ((2500 * Overlap[c.text]) \div Terms) + 250 * c.authority
<1>4. base \in Int
  BY <1>1, <1>3
<1>5. Score(c, version) = (base * VersionMatch(c, version)) \div 10
  BY DEF Score
<1> HIDE DEF base
<1>6. base * VersionMatch(c, version) \in Int
  BY <1>2, <1>4
<1>7. (base * VersionMatch(c, version)) \div 10 \in Int
  BY <1>6
<1> QED
  BY <1>1, <1>5, <1>7

(* The keys of the reranker. *)
RankKey(list, version) == [i \in 1 .. Len(list) |-> <<Score(list[i], version), list[i].authority>>]

LEMMA RankKeyIsTyped ==
  ASSUME ContextAssumption, NEW list \in Seq(Candidate), NEW version
  PROVE  RankKey(list, version) \in [1 .. Len(list) -> Int \X Int]
<1>1. \A i \in 1 .. Len(list) : list[i] \in Candidate
  OBVIOUS
<1>2. \A i \in 1 .. Len(list) : Score(list[i], version) \in Int /\ list[i].authority \in Int
  BY <1>1, ScoreOfCandidate
<1> QED
  BY <1>2 DEF RankKey

(***************************************************************************)
(* Reranking sorts candidates by score and authority, and cuts.            *)
(***************************************************************************)
LEMMA RerankIsTyped ==
  ASSUME ContextAssumption, NEW list \in Seq(Candidate), NEW version
  PROVE  /\ rerank(list, version) = Cut(StableSort(list, RankKey(list, version)))
         /\ rerank(list, version) \in Seq(Candidate)
<1> DEFINE ranked == StableSort(list, RankKey(list, version))
<1>1. ranked \in Seq(Candidate)
  BY RankKeyIsTyped, StableSortIsTyped
<1>2. rerank(list, version) = Cut(ranked)
  <2>1. DOMAIN list = 1 .. Len(list)
    OBVIOUS
  <2> QED
    BY <2>1 DEF rerank, RankKey
<1> HIDE DEF ranked
<1>3. Cut(ranked) \in Seq(Candidate)
  <2> DEFINE k == Min({Len(ranked), TopK})
  <2>1. Len(ranked) \in Int /\ TopK \in Int
    BY <1>1 DEF ContextAssumption
  <2>2. k \in Int /\ k <= Len(ranked)
    <3>1. k = IF Len(ranked) <= TopK THEN Len(ranked) ELSE TopK
      BY <2>1, MinOfTwo
    <3> HIDE DEF k
    <3> QED
      BY <2>1, <3>1
  <2>3. Cut(ranked) = SubSeq(ranked, 1, k)
    BY DEF Cut
  <2> HIDE DEF k
  <2>4. \A i \in 1 .. k : ranked[i] \in Candidate
    BY <1>1, <2>1, <2>2
  <2> QED
    BY <2>2, <2>3, <2>4, SubSeqProperties
<1> QED
  BY <1>2, <1>3 DEF ranked

LEMMA OrderedEvidenceIsTyped ==
  ASSUME NEW items \in Seq(Candidate)
  PROVE  order_evidence(items) \in Seq(Candidate)
<1> DEFINE key == [i \in 1 .. Len(items) |-> <<items[i].authority, 0>>]
           best == StableSort(items, key)
<1>1. key \in [1 .. Len(items) -> Int \X Int]
  <2>1. \A i \in 1 .. Len(items) : items[i] \in Candidate
    OBVIOUS
  <2>2. \A i \in 1 .. Len(items) : items[i].authority \in Int
    BY <2>1 DEF Candidate
  <2> QED
    BY <2>2
<1>2. best \in Seq(Candidate) /\ Len(best) = Len(items)
  <2> HIDE DEF key
  <2> QED
    BY <1>1, StableSortIsTyped
<1>3. order_evidence(items) = IF Len(items) <= 2 THEN items
                              ELSE <<best[1]>> \o SubSeq(best, 3, Len(best)) \o <<best[2]>>
  <2>1. DOMAIN items = 1 .. Len(items)
    OBVIOUS
  <2> QED
    BY <2>1 DEF order_evidence
<1> HIDE DEF best
<1>4. ASSUME ~(Len(items) <= 2)
      PROVE  <<best[1]>> \o SubSeq(best, 3, Len(best)) \o <<best[2]>> \in Seq(Candidate)
  <2>1. Len(best) \in Nat /\ 1 \in 1 .. Len(best) /\ 2 \in 1 .. Len(best)
    BY <1>2, <1>4
  <2>2. \A i \in 1 .. Len(best) : best[i] \in Candidate
    BY <1>2
  <2>3. <<best[1]>> \in Seq(Candidate) /\ <<best[2]>> \in Seq(Candidate)
    BY <2>1, <2>2
  <2>4. SubSeq(best, 3, Len(best)) \in Seq(Candidate)
    BY <2>1, <2>2, SubSeqProperties
  <2> QED
    BY <2>3, <2>4
<1> QED
  BY <1>3, <1>4

(***************************************************************************)
(* What is judged sufficient was covered by the evidence in order, and     *)
(* this is what the context has unless something was omitted.              *)
(***************************************************************************)
LEMMA ContextIsCovered ==
  ASSUME ContextAssumption, NEW asked, NEW list \in Seq(Candidate), NEW c,
         c = Context(asked, list), c.status = "SUFFICIENT"
  PROVE  \/ c.omitted > 0
         \/ evaluate_coverage(create_context_plan(asked.task), c.evidence).complete
<1> DEFINE required == create_context_plan(asked.task)
           unique == deduplicate(rerank(list, asked.version))
           ordered == order_evidence(unique)
           coverage == evaluate_coverage(required, ordered)
           bundle == Select(PrimaryBudget(asked.limit, required), ordered)
<1>1. /\ c.status = evaluate_sufficiency(coverage, Contradictions(unique))
      /\ c.evidence = bundle.items /\ c.omitted = bundle.omitted
  BY DEF Context
<1>2. coverage.complete
  <2> HIDE DEF coverage
  <2> QED
    BY <1>1 DEF evaluate_sufficiency
<1>3. unique \in Seq(Candidate)
  BY RerankIsTyped, DeduplicateIsTyped
<1>4. ordered \in Seq(Candidate)
  <2> HIDE DEF unique
  <2> QED
    BY <1>3, OrderedEvidenceIsTyped
<1> HIDE DEF ordered
<1>5. bundle \in Selections /\ (bundle.omitted = 0 => bundle.items = ordered)
  BY <1>4, SelectKeeps
<1> HIDE DEF bundle
<1>6. bundle.omitted \in Nat
  BY <1>5 DEF Selections
<1>7. CASE bundle.omitted = 0
  BY <1>1, <1>2, <1>5, <1>7
<1>8. CASE bundle.omitted # 0
  BY <1>1, <1>6, <1>8
<1> QED
  BY <1>7, <1>8

(***************************************************************************)
(* There is one way to put a set in order: of the first place where two    *)
(* differ, each has what comes later in the other.                         *)
(***************************************************************************)
LEMMA OrderIsUnique ==
  ASSUME NEW D, IsFiniteSet(D), NEW R, StrictOrder(R, D), NEW f, Ordered(f, R, D),
         NEW g, Ordered(g, R, D)
  PROVE  f = g
<1> DEFINE n == Cardinality(D)
           differ == {k \in 1 .. n : f[k] # g[k]}
<1>1. n \in Nat
  BY FS_CardinalityType
<1>2. f \in [1 .. n -> D] /\ g \in [1 .. n -> D]
  BY DEF Ordered
<1>3. differ = {}
  <2> SUFFICES ASSUME differ # {} PROVE FALSE
    OBVIOUS
  <2>1. PICK k \in differ : \A m \in differ : k <= m
    <3>1. differ \subseteq Nat
      OBVIOUS
    <3> HIDE DEF differ
    <3> QED
      BY <3>1, LeastNumber
  <2>2. k \in 1 .. n /\ f[k] # g[k] /\ f[k] \in D /\ g[k] \in D
    BY <1>2
  <2> HIDE DEF n
  <2>3. \A m \in 1 .. n : m < k => f[m] = g[m]
    BY <1>1, <2>1, <2>2
  <2>4. PICK i \in 1 .. n : g[i] = f[k]
    BY <2>2 DEF Ordered, n
  <2>5. PICK j \in 1 .. n : f[j] = g[k]
    BY <2>2 DEF Ordered, n
  <2>6. k < i
    <3>1. i # k
      BY <2>2, <2>4
    <3>2. ~(i < k)
      <4> SUFFICES ASSUME i < k PROVE FALSE
        OBVIOUS
      <4>1. f[i] = f[k]
        BY <2>3, <2>4
      <4>2. i = k
        BY <2>2, <4>1 DEF Ordered, n
      <4> QED
        BY <3>1, <4>2
    <3> QED
      BY <1>1, <2>2, <3>1, <3>2
  <2>7. k < j
    <3>1. j # k
      BY <2>2, <2>5
    <3>2. ~(j < k)
      <4> SUFFICES ASSUME j < k PROVE FALSE
        OBVIOUS
      <4>1. g[j] = g[k]
        BY <2>3, <2>5
      <4>2. j = k
        BY <2>2, <4>1 DEF Ordered, n
      <4> QED
        BY <3>1, <4>2
    <3> QED
      BY <1>1, <2>2, <3>1, <3>2
  <2>8. <<g[k], f[k]>> \in R
    <3>1. <<g[k], g[i]>> \in R
      BY <2>2, <2>6 DEF Ordered, n
    <3> QED
      BY <2>4, <3>1
  <2>9. <<f[k], g[k]>> \in R
    <3>1. <<f[k], f[j]>> \in R
      BY <2>2, <2>7 DEF Ordered, n
    <3> QED
      BY <2>5, <3>1
  <2> QED
    BY <2>2, <2>8, <2>9 DEF StrictOrder
<1>4. \A k \in 1 .. n : f[k] = g[k]
  BY <1>3
<1> HIDE DEF n, differ
<1>5. f = [k \in 1 .. n |-> f[k]] /\ g = [k \in 1 .. n |-> g[k]]
  BY <1>2
<1> QED
  BY <1>4, <1>5

(***************************************************************************)
(* An order of the places of a list is onto them.                          *)
(***************************************************************************)
LEMMA OrderIsBijection ==
  ASSUME NEW n \in Nat, NEW p \in Orders(n)
  PROVE  /\ p \in [1 .. n -> 1 .. n]
         /\ \A i, j \in 1 .. n : p[i] = p[j] => i = j
         /\ \A i \in 1 .. n : \E j \in 1 .. n : p[j] = i
<1> DEFINE places == 1 .. n
<1>1. p \in [places -> places] /\ \A i, j \in places : p[i] = p[j] => i = j
  BY DEF Orders
<1>2. IsFiniteSet(places)
  BY PlacesCount
<1> HIDE DEF places
<1>3. p \in Injection(places, places)
  BY <1>1 DEF Injection, IsInjective
<1>4. p \in Surjection(places, places)
  BY <1>2, <1>3, FS_Injection
<1>5. \A i \in places : \E j \in places : p[j] = i
  BY <1>4 DEF Surjection
<1> QED
  BY <1>1, <1>5 DEF places

NoTies(key, n) == \A i, j \in 1 .. n : i # j => key[i] # key[j]

(***************************************************************************)
(* Where no keys are equal, a list is sorted alike however it stood.       *)
(***************************************************************************)
LEMMA SortedAlike ==
  ASSUME NEW S, NEW s \in Seq(S), NEW key \in [1 .. Len(s) -> Int \X Int],
         NoTies(key, Len(s)), NEW p \in Orders(Len(s))
  PROVE  StableSort(Reordered(s, p), At(key, p, Len(s))) = StableSort(s, key)
<1> DEFINE n == Len(s)
           t == Reordered(s, p)
           kt == At(key, p, Len(s))
           D == 1 .. n
           R == ByPair(key, n)
           Q == ByPair(kt, n)
           o == InOrder(R, D)
           q == InOrder(Q, D)
           g == [k \in 1 .. n |-> p[q[k]]]
<1>1. n \in Nat /\ IsFiniteSet(D) /\ Cardinality(D) = n
  BY PlacesCount
<1>2. /\ p \in [D -> D]
      /\ \A i, j \in D : p[i] = p[j] => i = j
      /\ \A i \in D : \E j \in D : p[j] = i
  BY <1>1, OrderIsBijection
<1>3. t \in Seq(S) /\ Len(t) = n /\ \A i \in D : t[i] = s[p[i]]
  <2>1. t = [i \in D |-> s[p[i]]]
    BY DEF Reordered
  <2>2. \A i \in D : s[p[i]] \in S
    <3>1. \A j \in D : s[j] \in S
      OBVIOUS
    <3> HIDE DEF D
    <3> QED
      BY <1>2, <3>1
  <2> QED
    BY <1>1, <2>1, <2>2
<1>4. kt \in [1 .. Len(t) -> Int \X Int] /\ \A i \in D : kt[i] = key[p[i]]
  BY <1>2, <1>3 DEF At
<1>5. Ordered(o, R, D) /\ StableSort(s, key) = At(s, o, n)
  BY StableSortIsOrdered
<1>6. Ordered(q, Q, D) /\ StableSort(t, kt) = At(t, q, n)
  <2> DEFINE m == Len(t)
  <2>1. /\ Ordered(InOrder(ByPair(kt, m), 1 .. m), ByPair(kt, m), 1 .. m)
        /\ StableSort(t, kt) = At(t, InOrder(ByPair(kt, m), 1 .. m), m)
    <3>1. t \in Seq(S)
      BY <1>3
    <3>2. kt \in [1 .. Len(t) -> Int \X Int]
      BY <1>4
    <3> HIDE DEF n, D, R, Q, o, q, g
    <3> QED
      BY <3>1, <3>2, StableSortIsOrdered
  <2>2. m = n
    BY <1>3
  <2> HIDE DEF m, n
  <2> QED
    BY <2>1, <2>2
<1>7. StrictOrder(R, D)
  BY <1>1, PairsOrder
<1>8. \A i, j \in D : <<i, j>> \in Q <=> <<p[i], p[j]>> \in R
  <2> TAKE i, j \in D
  <2>1. p[i] \in D /\ p[j] \in D /\ kt[i] = key[p[i]] /\ kt[j] = key[p[j]]
    BY <1>2, <1>4
  <2>2. <<i, j>> \in Q <=> Above(kt[i], kt[j]) \/ (kt[i] = kt[j] /\ i < j)
    BY DEF ByPair
  <2>3. <<p[i], p[j]>> \in R <=> Above(key[p[i]], key[p[j]]) \/ (key[p[i]] = key[p[j]] /\ p[i] < p[j])
    BY <2>1 DEF ByPair
  <2>4. CASE i = j
    BY <1>1, <2>1, <2>2, <2>3, <2>4
  <2>5. CASE i # j
    <3>1. key[p[i]] # key[p[j]]
      BY <1>2, <2>1, <2>5 DEF NoTies
    <3> QED
      BY <2>1, <2>2, <2>3, <3>1
  <2> QED
    BY <2>4, <2>5
<1>9. q \in [1 .. n -> D]
  BY <1>1, <1>6 DEF Ordered
<1> HIDE DEF R, Q, o, q
<1>10. Ordered(g, R, D)
  <2>1. g \in [1 .. n -> D] /\ \A k \in 1 .. n : g[k] = p[q[k]] /\ q[k] \in D
    BY <1>2, <1>9
  <2>2. \A a, b \in 1 .. n : a < b <=> <<g[a], g[b]>> \in R
    <3> TAKE a, b \in 1 .. n
    <3>1. a < b <=> <<q[a], q[b]>> \in Q
      BY <1>1, <1>6 DEF Ordered
    <3> QED
      BY <1>8, <2>1, <3>1
  <2>3. \A a, b \in 1 .. n : g[a] = g[b] => a = b
    <3> TAKE a, b \in 1 .. n
    <3>1. q[a] = q[b] => a = b
      BY <1>1, <1>6 DEF Ordered
    <3> QED
      BY <1>2, <2>1, <3>1
  <2>4. \A i \in D : \E k \in 1 .. n : g[k] = i
    <3> TAKE i \in D
    <3>1. PICK j \in D : p[j] = i
      BY <1>2
    <3>2. PICK k \in 1 .. n : q[k] = j
      BY <1>1, <1>6 DEF Ordered
    <3> QED
      BY <2>1, <3>1, <3>2
  <2> HIDE DEF g
  <2> QED
    BY <1>1, <2>1, <2>2, <2>3, <2>4 DEF Ordered
<1>11. g = o
  <2> HIDE DEF g, D
  <2> QED
    BY <1>1, <1>5, <1>7, <1>10, OrderIsUnique
<1>12. \A i \in 1 .. n : t[q[i]] = s[o[i]]
  <2> TAKE i \in 1 .. n
  <2>1. q[i] \in D /\ g[i] = p[q[i]]
    BY <1>9
  <2>2. t[q[i]] = s[g[i]]
    BY <1>3, <2>1
  <2> QED
    BY <1>11, <2>2
<1> QED
  BY <1>5, <1>6, <1>12 DEF At

(***************************************************************************)
(* Candidates that do not tie are ranked alike however they are listed.    *)
(***************************************************************************)
LEMMA RerankedAlike ==
  ASSUME ContextAssumption, NEW list \in Seq(Candidate), NEW version,
         \A i, j \in DOMAIN list : i # j => \/ Score(list[i], version) # Score(list[j], version)
                                            \/ list[i].authority # list[j].authority,
         NEW p \in Orders(Len(list))
  PROVE  rerank(Reordered(list, p), version) = rerank(list, version)
<1> DEFINE n == Len(list)
           t == Reordered(list, p)
           key == RankKey(list, version)
           kt == At(key, p, n)
<1>1. n \in Nat /\ DOMAIN list = 1 .. n /\ \A i \in 1 .. n : list[i] \in Candidate
  OBVIOUS
<1>2. key \in [1 .. n -> Int \X Int]
  BY RankKeyIsTyped
<1>3. \A i \in 1 .. n : key[i] = <<Score(list[i], version), list[i].authority>>
  BY DEF RankKey
<1>4. NoTies(key, n)
  <2> SUFFICES \A i, j \in 1 .. n : i # j => key[i] # key[j]
    BY DEF NoTies
  <2> TAKE i, j \in 1 .. n
  <2> HAVE i # j
  <2>1. \/ Score(list[i], version) # Score(list[j], version)
        \/ list[i].authority # list[j].authority
    BY <1>1
  <2>2. /\ key[i] = <<Score(list[i], version), list[i].authority>>
        /\ key[j] = <<Score(list[j], version), list[j].authority>>
    BY <1>3
  <2> HIDE DEF key
  <2> QED
    BY <2>1, <2>2
<1>5. \A i \in 1 .. n : p[i] \in 1 .. n
  BY DEF Orders
<1>6. t = [i \in 1 .. n |-> list[p[i]]]
  BY <1>1 DEF Reordered
<1>7. t \in Seq(Candidate) /\ Len(t) = n /\ \A i \in 1 .. n : t[i] = list[p[i]]
  <2>1. \A i \in 1 .. n : list[p[i]] \in Candidate
    BY <1>1, <1>5
  <2> HIDE DEF t
  <2> QED
    BY <1>1, <1>6, <2>1
<1>8. RankKey(t, version) = kt
  <2> HIDE DEF t, key
  <2>1. RankKey(t, version) = [i \in 1 .. n |-> <<Score(t[i], version), t[i].authority>>]
    BY <1>7 DEF RankKey
  <2>2. \A i \in 1 .. n : <<Score(t[i], version), t[i].authority>> = key[p[i]]
    BY <1>3, <1>5, <1>7
  <2> QED
    BY <2>1, <2>2 DEF At
<1> HIDE DEF key, kt, t
<1>9. StableSort(t, kt) = StableSort(list, key)
  <2>1. kt = At(key, p, Len(list)) /\ t = Reordered(list, p) /\ list \in Seq(Candidate)
    BY DEF kt, t
  <2>2. key \in [1 .. Len(list) -> Int \X Int] /\ NoTies(key, Len(list))
    BY <1>2, <1>4
  <2> HIDE DEF n
  <2> QED
    BY <2>1, <2>2, SortedAlike
<1>10. /\ rerank(t, version) = Cut(StableSort(t, kt))
       /\ rerank(list, version) = Cut(StableSort(list, key))
  BY <1>7, <1>8, RerankIsTyped DEF key
<1> QED
  BY <1>9, <1>10 DEF t

(* The candidates are what candidates are, and the context that was built  *)
(* is the one of the task that was asked for.                              *)
ContextInv ==
  /\ wanted.list \in Seq(Candidate)
  /\ built # NoContext => built = Context(wanted, wanted.list)

(***************************************************************************)
(* A context is kept as it was computed.                                   *)
(***************************************************************************)
LEMMA ContextKeeps ==
  ASSUME ContextInv, [ContextNext]_contextVars
  PROVE  ContextInv'
<1>1. CASE build_context
  BY <1>1 DEF build_context, ContextInv
<1>2. CASE UNCHANGED contextVars
  BY <1>2 DEF contextVars, ContextInv
<1> QED
  BY <1>1, <1>2 DEF ContextNext

(***************************************************************************)
(* From this follows what is said of it, for any order of the candidates.  *)
(***************************************************************************)
LEMMA ContextFollows ==
  ASSUME ContextAssumption, ContextInv
  PROVE  ContextIsSound
<1>1. wanted.list \in Seq(Candidate) /\ (built # NoContext => built = Context(wanted, wanted.list))
  BY DEF ContextInv
<1>2. SufficientIsCoveredOrOmitted
  BY <1>1, ContextIsCovered DEF SufficientIsCoveredOrOmitted
<1>3. ListingDoesNotMatter
  <2> SUFFICES ASSUME built # NoContext, Untied(wanted.list), NEW p \in Orders(Len(wanted.list))
               PROVE  Context(wanted, Reordered(wanted.list, p)) = built
    BY DEF ListingDoesNotMatter
  <2>1. rerank(Reordered(wanted.list, p), wanted.version) = rerank(wanted.list, wanted.version)
    BY <1>1, RerankedAlike DEF Untied
  <2>2. Context(wanted, Reordered(wanted.list, p)) = Context(wanted, wanted.list)
    BY <2>1 DEF Context
  <2> QED
    BY <1>1, <2>2
<1> QED
  BY <1>2, <1>3 DEF ContextIsSound

------------------------------------------------------------------------------
(* Retrieval: the documents and their scores *)

(***************************************************************************)
(* A place further down has no larger share.                               *)
(***************************************************************************)
LEMMA SmallerQuotient ==
  ASSUME NEW a \in Nat, NEW b \in Nat \ {0}, NEW c \in Nat \ {0}, b <= c
  PROVE  a \div c <= a \div b
<1> DEFINE q == a \div c
           r == a % c
           u == a \div b
           v == a % b
<1>1. q \in Int /\ r \in Int /\ a = c * q + r /\ r >= 0 /\ q >= 0
  OBVIOUS
<1>2. u \in Int /\ v \in Int /\ a = b * u + v /\ v < b /\ u >= 0
  OBVIOUS
<1> HIDE DEF q, r, u, v
<1>3. b * q <= c * q
  BY <1>1
<1>4. b * q <= a
  BY <1>1, <1>3
<1>5. ASSUME q > u PROVE FALSE
  <2>1. q >= u + 1
    BY <1>1, <1>2, <1>5
  <2>2. b * q >= b * (u + 1)
    BY <1>1, <1>2, <2>1
  <2>3. b * (u + 1) = b * u + b
    BY <1>2
  <2>4. b * u \in Int /\ b * q \in Int /\ b * (u + 1) \in Int
    BY <1>1, <1>2
  <2> QED
    BY <1>2, <1>4, <2>2, <2>3, <2>4
<1> QED
  BY <1>1, <1>2, <1>5 DEF q, u

(***************************************************************************)
(* The share of a rank is a number, and a later rank has no larger one.    *)
(***************************************************************************)
LEMMA SharesFall ==
  ASSUME RetrievalAssumption
  PROVE  /\ \A i \in Nat : RankShare(i) \in Nat
         /\ \A i, j \in Nat : i <= j => RankShare(j) <= RankShare(i)
<1>1. RankScale \in Nat
  BY DEF RetrievalAssumption
<1>2. ASSUME NEW i \in Nat PROVE RankShare(i) \in Nat
  <2>1. 60 + i \in Nat \ {0}
    OBVIOUS
  <2>2. \A b \in Nat \ {0} : RankScale \div b \in Nat
    BY <1>1
  <2> QED
    BY <2>1, <2>2 DEF RankShare
<1>3. ASSUME NEW i \in Nat, NEW j \in Nat, i <= j PROVE RankShare(j) <= RankShare(i)
  <2>1. 60 + i \in Nat \ {0} /\ 60 + j \in Nat \ {0} /\ 60 + i <= 60 + j
    BY <1>3
  <2> QED
    BY <1>1, <2>1, SmallerQuotient DEF RankShare
<1> QED
  BY <1>2, <1>3

(* What the last request left of documents and vectors.                    *)
Content == {"query"} \cup {d.content : d \in Document}

Cache == {c \in Seq(Content) : Len(c) <= MaxCache /\ IsInjective(c)}

RetrievalTypes ==
  scoring \in Scorings /\ corpus \in Seq(Document) /\ embedded \in Cache

LEMMA ScoresAreTyped ==
  ASSUME RetrievalAssumption, RetrievalTypes, NEW docs \in Seq(Document)
  PROVE  /\ Scores(docs, scoring.keyword) \in [1 .. Len(docs) -> Int]
         /\ Scores(docs, scoring.semantic) \in [1 .. Len(docs) -> Int]
         /\ Scores(docs, scoring.rerank) \in [1 .. Len(docs) -> Int]
<1>1. DOMAIN docs = 1 .. Len(docs) /\ \A i \in 1 .. Len(docs) : docs[i] \in Document
  OBVIOUS
<1>2. \A d \in Document : /\ scoring.keyword[d.content] \in Int
                          /\ scoring.semantic[d.content] \in Int
                          /\ scoring.rerank[d.content] \in Int
  BY DEF RetrievalAssumption, RetrievalTypes
<1> QED
  BY <1>1, <1>2 DEF Scores

(* The documents at some places of a list, each once. *)
Picked(t, docs) ==
  /\ t \in Seq(ToSet(docs))
  /\ \E p \in [1 .. Len(t) -> 1 .. Len(docs)] :
       /\ \A i \in 1 .. Len(t) : t[i] = docs[p[i]]
       /\ \A i, j \in 1 .. Len(t) : p[i] = p[j] => i = j

(***************************************************************************)
(* The first of a list by score are picked from it.                        *)
(***************************************************************************)
LEMMA TopIsPicked ==
  ASSUME NEW S, NEW list \in Seq(S), NEW score \in [1 .. Len(list) -> Int], NEW k \in Nat
  PROVE  Picked(Top(list, score, k), list) /\ Len(Top(list, score, k)) <= k
<1> DEFINE n == Len(list)
           R == ByScore(score, n)
           p == InOrder(R, 1 .. n)
           m == IF k <= n THEN k ELSE n
           t == Top(list, score, k)
<1>1. Ordered(p, R, 1 .. n) /\ t = At(list, p, m)
  BY TopIsOrdered
<1>2. n \in Nat /\ Cardinality(1 .. n) = n /\ m \in 0 .. n /\ m <= k
  BY PlacesCount
<1>3. DOMAIN list = 1 .. n /\ list \in Seq(ToSet(list))
  BY DEF ToSet
<1> HIDE DEF R, p, m, t
<1>4. /\ t \in Seq(ToSet(list)) /\ Len(t) = m
      /\ \A i \in 1 .. m : p[i] \in 1 .. n /\ t[i] = list[p[i]]
  BY <1>1, <1>2, <1>3, OrderedIsThere
<1>5. \A i, j \in 1 .. n : p[i] = p[j] => i = j
  BY <1>1, <1>2 DEF Ordered
<1> DEFINE g == [i \in 1 .. m |-> p[i]]
<1>6. g \in [1 .. m -> 1 .. n] /\ (\A i \in 1 .. m : t[i] = list[g[i]])
  BY <1>4
<1>7. \A i, j \in 1 .. m : g[i] = g[j] => i = j
  BY <1>2, <1>5
<1> HIDE DEF g
<1>8. Picked(t, list)
  BY <1>4, <1>6, <1>7 DEF Picked
<1> QED
  BY <1>2, <1>4, <1>8 DEF t

(***************************************************************************)
(* So are the keyword list, the semantic list and the reranked list.       *)
(***************************************************************************)
LEMMA ListsArePicked ==
  ASSUME RetrievalAssumption, RetrievalTypes, NEW docs \in Seq(Document), NEW k \in Nat
  PROVE  /\ Picked(KeywordList(docs, k), docs) /\ Picked(SemanticList(docs, k), docs)
         /\ Picked(Rerank(docs, k), docs)
<1> DEFINE keyword == Scores(docs, scoring.keyword)
           semantic == Scores(docs, scoring.semantic)
           rank == Scores(docs, scoring.rerank)
           found == {i \in DOMAIN docs : keyword[i] > 0}
           m == Min({k, Cardinality(found)})
<1>1. /\ keyword \in [1 .. Len(docs) -> Int] /\ semantic \in [1 .. Len(docs) -> Int]
      /\ rank \in [1 .. Len(docs) -> Int]
  BY ScoresAreTyped
<1>2. KeywordList(docs, k) = Top(docs, keyword, m)
  BY DEF KeywordList
<1>3. SemanticList(docs, k) = Top(docs, semantic, k) /\ Rerank(docs, k) = Top(docs, rank, k)
  BY DEF SemanticList, Rerank
<1>4. m \in Nat
  <2>1. IsFiniteSet(DOMAIN docs)
    BY PlacesCount
  <2>2. IsFiniteSet(found)
    BY <2>1, FS_Subset
  <2> HIDE DEF found
  <2> DEFINE c == Cardinality(found)
  <2>3. c \in Nat
    BY <2>2, FS_CardinalityType
  <2> HIDE DEF c
  <2>4. Min({k, c}) \in Nat
    BY <2>3, MinOfTwo
  <2> QED
    BY <2>4 DEF c
<1> HIDE DEF keyword, semantic, rank, m
<1> QED
  BY <1>1, <1>2, <1>3, <1>4, TopIsPicked

(***************************************************************************)
(* Documents picked from a list are in it, and have ids of their own if    *)
(* those of the list have.                                                 *)
(***************************************************************************)
LEMMA PickedIsThere ==
  ASSUME NEW docs \in Seq(Document), NEW t, Picked(t, docs)
  PROVE  /\ t \in Seq(Document) /\ ToSet(t) \subseteq ToSet(docs)
         /\ DistinctIds(docs) => DistinctIds(t)
<1>1. ToSet(docs) \subseteq Document
  BY DEF ToSet
<1>2. t \in Seq(ToSet(docs))
  BY DEF Picked
<1>3. t \in Seq(Document) /\ ToSet(t) \subseteq ToSet(docs)
  <2> DEFINE D == ToSet(docs)
  <2>1. t \in Seq(D) /\ D \subseteq Document
    BY <1>1, <1>2
  <2> HIDE DEF D
  <2>2. t \in Seq(Document) /\ \A i \in DOMAIN t : t[i] \in D
    BY <2>1
  <2>3. ToSet(t) \subseteq D
    BY <2>2 DEF ToSet
  <2> QED
    BY <2>2, <2>3 DEF D
<1>4. ASSUME DistinctIds(docs) PROVE DistinctIds(t)
  <2>1. PICK p \in [1 .. Len(t) -> 1 .. Len(docs)] :
          /\ \A i \in 1 .. Len(t) : t[i] = docs[p[i]]
          /\ \A i, j \in 1 .. Len(t) : p[i] = p[j] => i = j
    BY DEF Picked
  <2>2. DOMAIN t = 1 .. Len(t) /\ DOMAIN docs = 1 .. Len(docs)
    BY <1>3
  <2> SUFFICES ASSUME NEW i \in 1 .. Len(t), NEW j \in 1 .. Len(t), t[i].id = t[j].id
               PROVE  i = j
    BY <2>2 DEF DistinctIds
  <2>3. p[i] \in DOMAIN docs /\ p[j] \in DOMAIN docs /\ docs[p[i]].id = docs[p[j]].id
    BY <2>1, <2>2
  <2>4. p[i] = p[j]
    BY <1>4, <2>3 DEF DistinctIds
  <2> QED
    BY <2>1, <2>4
<1> QED
  BY <1>3, <1>4

------------------------------------------------------------------------------
(* Retrieval: the embeddings *)

(***************************************************************************)
(* A vector more is there once, and the oldest gives way to it.            *)
(***************************************************************************)
LEMMA EmbedIsTyped ==
  ASSUME RetrievalAssumption, NEW cache \in Cache, NEW x \in Content
  PROVE  Embed(cache, x) \in Cache
<1>1. /\ cache \in Seq(Content) /\ Len(cache) <= MaxCache /\ MaxCache \in Nat \ {0}
      /\ DOMAIN cache = 1 .. Len(cache) /\ Len(cache) \in Nat
      /\ \A i, j \in 1 .. Len(cache) : cache[i] = cache[j] => i = j
  BY DEF Cache, IsInjective, RetrievalAssumption
<1> DEFINE left == IF Len(cache) >= MaxCache THEN Tail(cache) ELSE cache
<1>2. /\ left \in Seq(Content) /\ Len(left) < MaxCache /\ Len(left) \in Nat
      /\ \A i, j \in 1 .. Len(left) : left[i] = left[j] => i = j
      /\ \A i \in 1 .. Len(left) : \E j \in 1 .. Len(cache) : left[i] = cache[j]
  <2>1. CASE Len(cache) >= MaxCache
    <3>1. cache # <<>>
      BY <1>1, <2>1
    <3>2. /\ Tail(cache) \in Seq(Content) /\ Len(Tail(cache)) = Len(cache) - 1
          /\ \A i \in 1 .. Len(cache) - 1 : Tail(cache)[i] = cache[i + 1] /\ i + 1 \in 1 .. Len(cache)
      BY <1>1, <3>1, HeadTailProperties
    <3>3. \A i, j \in 1 .. Len(cache) - 1 : Tail(cache)[i] = Tail(cache)[j] => i = j
      <4> TAKE i, j \in 1 .. Len(cache) - 1
      <4> HAVE Tail(cache)[i] = Tail(cache)[j]
      <4>1. i + 1 = j + 1
        BY <1>1, <3>2
      <4> QED
        BY <1>1, <4>1
    <3> QED
      BY <1>1, <2>1, <3>2, <3>3
  <2>2. CASE ~(Len(cache) >= MaxCache)
    BY <1>1, <2>2
  <2> QED
    BY <2>1, <2>2
<1> HIDE DEF left
<1>3. CASE x \in ToSet(cache)
  BY <1>3 DEF Embed
<1>4. CASE x \notin ToSet(cache)
  <2> DEFINE more == Append(left, x)
  <2>1. Embed(cache, x) = more
    BY <1>4 DEF Embed, left
  <2>2. /\ more \in Seq(Content) /\ Len(more) = Len(left) + 1
        /\ \A i \in 1 .. Len(left) : more[i] = left[i]
        /\ more[Len(left) + 1] = x
    BY <1>2, AppendProperties
  <2>3. \A i \in 1 .. Len(left) : left[i] # x
    BY <1>1, <1>2, <1>4 DEF ToSet
  <2> HIDE DEF more
  <2>4. \A i \in 1 .. Len(left) + 1 : i \in 1 .. Len(left) \/ i = Len(left) + 1
    BY <1>2
  <2>5. \A i, j \in 1 .. Len(left) + 1 : more[i] = more[j] => i = j
    BY <1>2, <2>2, <2>3, <2>4
  <2>6. DOMAIN more = 1 .. Len(left) + 1
    BY <1>2, <2>2
  <2>7. IsInjective(more)
    BY <2>5, <2>6 DEF IsInjective
  <2>8. Len(more) <= MaxCache
    BY <1>1, <1>2, <2>2
  <2> QED
    BY <2>1, <2>2, <2>7, <2>8 DEF Cache
<1> QED
  BY <1>3, <1>4

IsEmbedding(h, cache, docs) ==
  h = [s \in SUBSET (DOMAIN docs) |->
         IF s = {} THEN cache ELSE Embed(h[s \ {Max(s)}], docs[Max(s)].content)]

(***************************************************************************)
(* And so for all vectors of a request, one after the other.               *)
(***************************************************************************)
LEMMA EmbedAllIsTyped ==
  ASSUME RetrievalAssumption, NEW cache \in Cache, NEW docs \in Seq(Document)
  PROVE  EmbedAll(cache, docs) \in Cache
<1> DEFINE n == Len(docs)
           step == [a \in Cache \X (1 .. n) |-> Embed(a[1], docs[a[2]].content)]
           iter == CHOOSE h : IsEmbedding(h, cache, docs)
           last == EmbedAll(cache, docs)
<1>1. n \in Nat /\ DOMAIN docs = 1 .. n /\ \A i \in 1 .. n : docs[i].content \in Content
  <2>1. \A i \in 1 .. n : docs[i] \in Document
    OBVIOUS
  <2> QED
    BY <2>1 DEF Content
<1> HIDE DEF n
<1>3. step \in [Cache \X (1 .. n) -> Cache]
  BY <1>1, EmbedIsTyped
<1>4. \A h : \A s \in SUBSET (1 .. n) : s # {} /\ h[s \ {Max(s)}] \in Cache =>
        step[<<h[s \ {Max(s)}], Max(s)>>] = Embed(h[s \ {Max(s)}], docs[Max(s)].content)
  <2> TAKE h
  <2> TAKE s \in SUBSET (1 .. n)
  <2> HAVE s # {} /\ h[s \ {Max(s)}] \in Cache
  <2>1. Max(s) \in 1 .. n
    BY <1>1, LastPlace
  <2> QED
    BY <2>1
<1>5. \E h : IsEmbedding(h, cache, docs)
  <2> HIDE DEF step
  <2>1. PICK h \in [SUBSET (1 .. n) -> Cache] : IsFold(h, SUBSET (1 .. n), cache, step)
    BY <1>1, <1>3, FoldExists
  <2> DEFINE e == [s \in SUBSET (1 .. n) |->
                     IF s = {} THEN cache ELSE Embed(h[s \ {Max(s)}], docs[Max(s)].content)]
  <2>2. \A s \in SUBSET (1 .. n) : h[s] = e[s]
    BY <1>4, <2>1 DEF IsFold
  <2>3. h = e
    BY <2>1, <2>2
  <2> QED
    BY <1>1, <2>3 DEF IsEmbedding
<1>6. IsEmbedding(iter, cache, docs)
  BY <1>5
<1>7. last = iter[1 .. n]
  BY <1>1 DEF EmbedAll, FoldLeft, MapThenFoldSet, IsEmbedding
<1> HIDE DEF iter, step, last
<1>8. Follows(iter, n, Cache, cache, step)
  <2>1. \A s \in SUBSET (1 .. n) :
          iter[s] = IF s = {} THEN cache ELSE Embed(iter[s \ {Max(s)}], docs[Max(s)].content)
    BY <1>1, <1>6 DEF IsEmbedding
  <2> QED
    BY <1>4, <2>1 DEF Follows
<1>9. PICK f : IsRun(f, n, Cache, cache, step, last)
  BY <1>1, <1>3, <1>7, <1>8, FoldRuns
<1>10. last \in Cache
  BY <1>1, <1>9 DEF IsRun
<1> QED
  BY <1>10 DEF last

------------------------------------------------------------------------------
(* Retrieval: the pool *)

(* A document with its share, and the lists that have no id twice.         *)
Entry(D) == [doc : D, share : Int]

Pools(D) ==
  {p \in Seq(Entry(D)) : \A i, j \in 1 .. Len(p) : p[i].doc.id = p[j].doc.id => i = j}

(***************************************************************************)
(* What either list adds to the pool keeps every id in it once: a document *)
(* that is listed keeps its place, another goes to the end.                *)
(***************************************************************************)
LEMMA PoolIsTyped ==
  ASSUME NEW D, NEW pool \in Pools(D), NEW s \in Entry(D)
  PROVE  SetEntry(pool, s) \in Pools(D) /\ AddShare(pool, s) \in Pools(D)
<1>1. /\ pool \in Seq(Entry(D)) /\ DOMAIN pool = 1 .. Len(pool) /\ Len(pool) \in Nat
      /\ \A i \in 1 .. Len(pool) : pool[i] \in Entry(D)
      /\ \A i, j \in 1 .. Len(pool) : pool[i].doc.id = pool[j].doc.id => i = j
  BY DEF Pools
<1>2. CASE Listed(pool, s)
  <2> DEFINE n == Len(pool)
             set == [i \in 1 .. n |-> IF pool[i].doc.id = s.doc.id THEN s ELSE pool[i]]
             more == [i \in 1 .. n |->
                        IF pool[i].doc.id = s.doc.id THEN [pool[i] EXCEPT !.share = @ + s.share]
                        ELSE pool[i]]
  <2>1. SetEntry(pool, s) = set /\ AddShare(pool, s) = more
    BY <1>1, <1>2 DEF SetEntry, AddShare
  <2>2. /\ set \in Seq(Entry(D)) /\ Len(set) = n
        /\ \A i \in 1 .. n : set[i].doc.id = pool[i].doc.id
    <3>1. \A i \in 1 .. n : set[i] \in Entry(D) /\ set[i].doc.id = pool[i].doc.id
      BY <1>1
    <3>2. set \in [1 .. n -> Entry(D)]
      BY <3>1
    <3> QED
      BY <1>1, <3>1, <3>2
  <2>3. /\ more \in Seq(Entry(D)) /\ Len(more) = n
        /\ \A i \in 1 .. n : more[i].doc.id = pool[i].doc.id
    <3>1. \A e \in Entry(D) : /\ [e EXCEPT !.share = @ + s.share] \in Entry(D)
                              /\ [e EXCEPT !.share = @ + s.share].doc = e.doc
      BY DEF Entry
    <3>2. \A i \in 1 .. n : more[i] \in Entry(D) /\ more[i].doc.id = pool[i].doc.id
      BY <1>1, <3>1
    <3>3. more \in [1 .. n -> Entry(D)]
      BY <3>2
    <3> QED
      BY <1>1, <3>2, <3>3
  <2> HIDE DEF set, more
  <2> QED
    BY <1>1, <2>1, <2>2, <2>3 DEF Pools
<1>3. CASE ~Listed(pool, s)
  <2> DEFINE more == Append(pool, s)
             n == Len(pool)
  <2>1. SetEntry(pool, s) = more /\ AddShare(pool, s) = more
    BY <1>3 DEF SetEntry, AddShare
  <2>2. /\ more \in Seq(Entry(D)) /\ Len(more) = n + 1
        /\ \A i \in 1 .. n : more[i] = pool[i]
        /\ more[n + 1] = s
    BY <1>1, AppendProperties
  <2>3. \A i \in 1 .. n : pool[i].doc.id # s.doc.id
    BY <1>1, <1>3 DEF Listed
  <2> HIDE DEF more
  <2>4. \A i \in 1 .. n + 1 : i \in 1 .. n \/ i = n + 1
    BY <1>1
  <2>5. \A i, j \in 1 .. n + 1 : more[i].doc.id = more[j].doc.id => i = j
    BY <1>1, <2>2, <2>3, <2>4
  <2> QED
    BY <2>1, <2>2, <2>5 DEF Pools
<1> QED
  BY <1>2, <1>3

(* What the keyword list makes of an empty pool, and the semantic list of  *)
(* what is there then.                                                     *)
FirstPool(list) == FoldLeft(SetEntry, <<>>, list)

SecondPool(base, list) == FoldLeft(LAMBDA p, s : AddShare(p, s), base, list)

(* The steps of either, from a pool and the place of the next document.    *)
SetNext(D, list) == [a \in Pools(D) \X (1 .. Len(list)) |-> SetEntry(a[1], list[a[2]])]

AddNext(D, list) == [a \in Pools(D) \X (1 .. Len(list)) |-> AddShare(a[1], list[a[2]])]

IsSetting(h, list) ==
  h = [s \in SUBSET (DOMAIN list) |->
         IF s = {} THEN <<>> ELSE SetEntry(h[s \ {Max(s)}], list[Max(s)])]

IsAdding(h, base, list) ==
  h = [s \in SUBSET (DOMAIN list) |->
         IF s = {} THEN base ELSE AddShare(h[s \ {Max(s)}], list[Max(s)])]

(***************************************************************************)
(* The pool after the keyword list is reached one document after the       *)
(* other, with every id in it once.                                        *)
(***************************************************************************)
LEMMA FirstPoolRuns ==
  ASSUME NEW D, NEW list \in Seq(Entry(D))
  PROVE  \E f : IsRun(f, Len(list), Pools(D), <<>>, SetNext(D, list), FirstPool(list))
<1> DEFINE n == Len(list)
           step == SetNext(D, list)
           iter == CHOOSE h : IsSetting(h, list)
           last == FirstPool(list)
<1>1. n \in Nat /\ DOMAIN list = 1 .. n /\ \A i \in 1 .. n : list[i] \in Entry(D)
  OBVIOUS
<1>2. <<>> \in Pools(D)
  BY DEF Pools
<1>3. step \in [Pools(D) \X (1 .. n) -> Pools(D)]
  BY <1>1, PoolIsTyped DEF SetNext
<1>4. \A h : \A s \in SUBSET (1 .. n) : s # {} /\ h[s \ {Max(s)}] \in Pools(D) =>
        step[<<h[s \ {Max(s)}], Max(s)>>] = SetEntry(h[s \ {Max(s)}], list[Max(s)])
  <2> TAKE h
  <2> TAKE s \in SUBSET (1 .. n)
  <2> HAVE s # {} /\ h[s \ {Max(s)}] \in Pools(D)
  <2>1. Max(s) \in 1 .. n
    BY <1>1, LastPlace
  <2> QED
    BY <2>1 DEF SetNext
<1> HIDE DEF n
<1>5. \E h : IsSetting(h, list)
  <2> HIDE DEF step
  <2>1. PICK h \in [SUBSET (1 .. n) -> Pools(D)] : IsFold(h, SUBSET (1 .. n), <<>>, step)
    BY <1>1, <1>2, <1>3, FoldExists
  <2> DEFINE e == [s \in SUBSET (1 .. n) |->
                     IF s = {} THEN <<>> ELSE SetEntry(h[s \ {Max(s)}], list[Max(s)])]
  <2>2. \A s \in SUBSET (1 .. n) : h[s] = e[s]
    BY <1>4, <2>1 DEF IsFold
  <2>3. h = e
    BY <2>1, <2>2
  <2> QED
    BY <1>1, <2>3 DEF IsSetting
<1>6. IsSetting(iter, list)
  BY <1>5
<1>7. last = iter[1 .. n]
  BY <1>1 DEF FirstPool, FoldLeft, MapThenFoldSet, IsSetting
<1> HIDE DEF iter, step, last
<1>8. Follows(iter, n, Pools(D), <<>>, step)
  <2>1. \A s \in SUBSET (1 .. n) :
          iter[s] = IF s = {} THEN <<>> ELSE SetEntry(iter[s \ {Max(s)}], list[Max(s)])
    BY <1>1, <1>6 DEF IsSetting
  <2> QED
    BY <1>4, <2>1 DEF Follows
<1>9. \E f : IsRun(f, n, Pools(D), <<>>, step, last)
  BY <1>1, <1>2, <1>3, <1>7, <1>8, FoldRuns
<1> QED
  BY <1>9 DEF n, step, last

(***************************************************************************)
(* And the pool after the semantic list, from what was there before.       *)
(***************************************************************************)
LEMMA SecondPoolRuns ==
  ASSUME NEW D, NEW list \in Seq(Entry(D)), NEW base \in Pools(D)
  PROVE  \E f : IsRun(f, Len(list), Pools(D), base, AddNext(D, list), SecondPool(base, list))
<1> DEFINE n == Len(list)
           step == AddNext(D, list)
           iter == CHOOSE h : IsAdding(h, base, list)
           last == SecondPool(base, list)
<1>1. n \in Nat /\ DOMAIN list = 1 .. n /\ \A i \in 1 .. n : list[i] \in Entry(D)
  OBVIOUS
<1>2. base \in Pools(D)
  OBVIOUS
<1>3. step \in [Pools(D) \X (1 .. n) -> Pools(D)]
  BY <1>1, PoolIsTyped DEF AddNext
<1>4. \A h : \A s \in SUBSET (1 .. n) : s # {} /\ h[s \ {Max(s)}] \in Pools(D) =>
        step[<<h[s \ {Max(s)}], Max(s)>>] = AddShare(h[s \ {Max(s)}], list[Max(s)])
  <2> TAKE h
  <2> TAKE s \in SUBSET (1 .. n)
  <2> HAVE s # {} /\ h[s \ {Max(s)}] \in Pools(D)
  <2>1. Max(s) \in 1 .. n
    BY <1>1, LastPlace
  <2> QED
    BY <2>1 DEF AddNext
<1> HIDE DEF n
<1>5. \E h : IsAdding(h, base, list)
  <2> HIDE DEF step
  <2>1. PICK h \in [SUBSET (1 .. n) -> Pools(D)] : IsFold(h, SUBSET (1 .. n), base, step)
    BY <1>1, <1>2, <1>3, FoldExists
  <2> DEFINE e == [s \in SUBSET (1 .. n) |->
                     IF s = {} THEN base ELSE AddShare(h[s \ {Max(s)}], list[Max(s)])]
  <2>2. \A s \in SUBSET (1 .. n) : h[s] = e[s]
    BY <1>4, <2>1 DEF IsFold
  <2>3. h = e
    BY <2>1, <2>2
  <2> QED
    BY <1>1, <2>3 DEF IsAdding
<1>6. IsAdding(iter, base, list)
  BY <1>5
<1>7. last = iter[1 .. n]
  BY <1>1 DEF SecondPool, FoldLeft, MapThenFoldSet, IsAdding
<1> HIDE DEF iter, step, last
<1>8. Follows(iter, n, Pools(D), base, step)
  <2>1. \A s \in SUBSET (1 .. n) :
          iter[s] = IF s = {} THEN base ELSE AddShare(iter[s \ {Max(s)}], list[Max(s)])
    BY <1>1, <1>6 DEF IsAdding
  <2> QED
    BY <1>4, <2>1 DEF Follows
<1>9. \E f : IsRun(f, n, Pools(D), base, step, last)
  BY <1>1, <1>2, <1>3, <1>7, <1>8, FoldRuns
<1> QED
  BY <1>9 DEF n, step, last

------------------------------------------------------------------------------
(* Retrieval: the pool that is fused and cut *)

(* What the lists of a request add, as Fuse lists it.                      *)
KeywordShares(docs, strategy, depth) ==
  LET list == KeywordList(docs, depth.keyword)
  IN  [i \in DOMAIN list |->
         [doc |-> list[i], share |-> IF strategy = "RRF" THEN RankShare(i)
                                     ELSE 4 * scoring.keyword[list[i].content]]]

SemanticShares(docs, strategy, depth) ==
  LET list == SemanticList(docs, depth.semantic)
  IN  [i \in DOMAIN list |->
         [doc |-> list[i], share |-> IF strategy = "RRF" THEN RankShare(i)
                                     ELSE 6 * scoring.semantic[list[i].content]]]

PoolOf(docs, strategy, depth) ==
  SecondPool(FirstPool(KeywordShares(docs, strategy, depth)), SemanticShares(docs, strategy, depth))

ShareIn(pool) == [i \in 1 .. Len(pool) |-> pool[i].share]

(* The documents of the pool at the first m places of an order o.          *)
DocsAt(pool, o, m) == [i \in 1 .. m |-> pool[o[i]].doc]

(***************************************************************************)
(* A list that is picked adds whole documents with numbers for shares.     *)
(***************************************************************************)
LEMMA SharesAreTyped ==
  ASSUME RetrievalAssumption, RetrievalTypes, NEW docs \in Seq(Document), NEW strategy,
         NEW depth \in Depths
  PROVE  /\ KeywordShares(docs, strategy, depth) \in Seq(Entry(ToSet(docs)))
         /\ SemanticShares(docs, strategy, depth) \in Seq(Entry(ToSet(docs)))
<1>1. depth.keyword \in Nat /\ depth.semantic \in Nat
  BY DEF RetrievalAssumption
<1>2. \A d \in Document : scoring.keyword[d.content] \in Int /\ scoring.semantic[d.content] \in Int
  BY DEF RetrievalAssumption, RetrievalTypes
<1>3. \A i \in Nat : RankShare(i) \in Int
  BY SharesFall
<1> DEFINE D == ToSet(docs)
           K == KeywordList(docs, depth.keyword)
           S == SemanticList(docs, depth.semantic)
<1>4. K \in Seq(D) /\ S \in Seq(D) /\ D \subseteq Document
  <2>1. Picked(K, docs) /\ Picked(S, docs)
    BY <1>1, ListsArePicked
  <2>2. D \subseteq Document
    BY DEF ToSet
  <2> QED
    BY <2>1, <2>2 DEF Picked
<1> HIDE DEF K, S, D
<1>5. /\ Len(K) \in Nat /\ DOMAIN K = 1 .. Len(K) /\ \A i \in 1 .. Len(K) : K[i] \in D
      /\ Len(S) \in Nat /\ DOMAIN S = 1 .. Len(S) /\ \A i \in 1 .. Len(S) : S[i] \in D
  BY <1>4
<1>6. KeywordShares(docs, strategy, depth) \in Seq(Entry(D))
  <2> DEFINE e == [i \in 1 .. Len(K) |->
                     [doc |-> K[i], share |-> IF strategy = "RRF" THEN RankShare(i)
                                              ELSE 4 * scoring.keyword[K[i].content]]]
  <2>1. KeywordShares(docs, strategy, depth) = e
    BY <1>5 DEF KeywordShares, K
  <2>2. \A i \in 1 .. Len(K) : e[i] \in Entry(D)
    <3> TAKE i \in 1 .. Len(K)
    <3>1. K[i] \in D /\ K[i] \in Document /\ i \in Nat
      BY <1>4, <1>5
    <3>2. RankShare(i) \in Int /\ 4 * scoring.keyword[K[i].content] \in Int
      BY <1>2, <1>3, <3>1
    <3> QED
      BY <3>1, <3>2 DEF Entry
  <2>3. e \in [1 .. Len(K) -> Entry(D)]
    BY <2>2
  <2> HIDE DEF e
  <2>4. e \in Seq(Entry(D))
    BY <1>5, <2>3
  <2> QED
    BY <2>1, <2>4
<1>7. SemanticShares(docs, strategy, depth) \in Seq(Entry(D))
  <2> DEFINE e == [i \in 1 .. Len(S) |->
                     [doc |-> S[i], share |-> IF strategy = "RRF" THEN RankShare(i)
                                              ELSE 6 * scoring.semantic[S[i].content]]]
  <2>1. SemanticShares(docs, strategy, depth) = e
    BY <1>5 DEF SemanticShares, S
  <2>2. \A i \in 1 .. Len(S) : e[i] \in Entry(D)
    <3> TAKE i \in 1 .. Len(S)
    <3>1. S[i] \in D /\ S[i] \in Document /\ i \in Nat
      BY <1>4, <1>5
    <3>2. RankShare(i) \in Int /\ 6 * scoring.semantic[S[i].content] \in Int
      BY <1>2, <1>3, <3>1
    <3> QED
      BY <3>1, <3>2 DEF Entry
  <2>3. e \in [1 .. Len(S) -> Entry(D)]
    BY <2>2
  <2> HIDE DEF e
  <2>4. e \in Seq(Entry(D))
    BY <1>5, <2>3
  <2> QED
    BY <2>1, <2>4
<1> QED
  BY <1>6, <1>7 DEF D

(***************************************************************************)
(* The pool of a request has every id once, and its first documents by the *)
(* order of the shares are what is fused.                                  *)
(***************************************************************************)
LEMMA FuseIsOrdered ==
  ASSUME RetrievalAssumption, RetrievalTypes, NEW docs \in Seq(Document), NEW strategy,
         NEW depth \in Depths
  PROVE  LET pool == PoolOf(docs, strategy, depth)
             R == ByScore(ShareIn(pool), Len(pool))
             o == InOrder(R, 1 .. Len(pool))
             m == IF depth.fused <= Len(pool) THEN depth.fused ELSE Len(pool)
         IN  /\ pool \in Pools(ToSet(docs)) /\ m \in 0 .. Len(pool)
             /\ Ordered(o, R, 1 .. Len(pool))
             /\ Fuse(docs, strategy, depth) = DocsAt(pool, o, m)
<1> DEFINE pool == PoolOf(docs, strategy, depth)
           n == Len(pool)
           R == ByScore(ShareIn(pool), n)
           o == InOrder(R, 1 .. n)
           m == IF depth.fused <= n THEN depth.fused ELSE n
           D == ToSet(docs)
           K == KeywordShares(docs, strategy, depth)
           S == SemanticShares(docs, strategy, depth)
           count == Min({depth.fused, n})
           best == Top(pool, ShareIn(pool), n)
<1>1. pool \in Pools(D)
  <2>1. K \in Seq(Entry(D)) /\ S \in Seq(Entry(D))
    BY SharesAreTyped
  <2>2. pool = SecondPool(FirstPool(K), S)
    BY DEF PoolOf
  <2> HIDE DEF K, S, D, pool
  <2> DEFINE base == FirstPool(K)
             over == SecondPool(base, S)
  <2>3. base \in Pools(D)
    <3> HIDE DEF base
    <3>1. \E f : IsRun(f, Len(K), Pools(D), <<>>, SetNext(D, K), base)
      BY <2>1, FirstPoolRuns DEF base
    <3>2. Len(K) \in Nat
      BY <2>1
    <3> QED
      BY <3>1, <3>2 DEF IsRun
  <2> HIDE DEF base
  <2>4. \E f : IsRun(f, Len(S), Pools(D), base, AddNext(D, S), over)
    BY <2>1, <2>3, SecondPoolRuns
  <2>5. Len(S) \in Nat
    BY <2>1
  <2> HIDE DEF over
  <2>6. over \in Pools(D)
    BY <2>4, <2>5 DEF IsRun
  <2> QED
    BY <2>2, <2>6 DEF base, over
<1>2. Fuse(docs, strategy, depth) = [i \in 1 .. count |-> best[i].doc]
  <2> DEFINE flat == [p \in DOMAIN pool |-> pool[p].share]
  <2>1. pool \in Seq(Entry(D))
    BY <1>1 DEF Pools
  <2>2. DOMAIN pool = 1 .. n
    <3> HIDE DEF pool, D
    <3> QED
      BY <2>1
  <2>3. flat = ShareIn(pool)
    BY <2>2 DEF ShareIn
  <2>4. Fuse(docs, strategy, depth) = [i \in 1 .. count |-> Top(pool, flat, n)[i].doc]
    BY DEF Fuse, Shares, PoolOf, FirstPool, SecondPool, KeywordShares, SemanticShares
  <2> HIDE DEF pool, count, n, flat
  <2> QED
    BY <2>3, <2>4 DEF n
<1> HIDE DEF pool, D, K, S
<1>3. /\ pool \in Seq(Entry(D)) /\ n \in Nat /\ depth.fused \in Nat
      /\ \A i \in 1 .. n : pool[i] \in Entry(D)
  BY <1>1 DEF Pools, RetrievalAssumption
<1>4. ShareIn(pool) \in [1 .. n -> Int]
  BY <1>3 DEF ShareIn, Entry
<1> DEFINE score == ShareIn(pool)
           all == IF n <= n THEN n ELSE n
<1>5. Ordered(o, R, 1 .. n) /\ best = At(pool, o, n)
  <2> HIDE DEF score
  <2>1. /\ Ordered(InOrder(ByScore(score, n), 1 .. n), ByScore(score, n), 1 .. n)
        /\ Top(pool, score, n) = At(pool, InOrder(ByScore(score, n), 1 .. n), all)
    BY <1>3, <1>4, TopIsOrdered DEF score
  <2>2. all = n
    BY <1>3
  <2> QED
    BY <2>1, <2>2 DEF score
<1>6. count = m /\ m \in 0 .. n
  <2> HIDE DEF n
  <2> QED
    BY <1>3, MinOfTwo
<1> HIDE DEF best, count, m, o, R, n
<1>7. \A i \in 1 .. m : best[i] = pool[o[i]]
  <2>1. \A i \in 1 .. m : i \in 1 .. n
    BY <1>3, <1>6
  <2> QED
    BY <1>5, <2>1 DEF At
<1>8. [i \in 1 .. count |-> best[i].doc] = DocsAt(pool, o, m)
  BY <1>6, <1>7 DEF DocsAt
<1> QED
  BY <1>1, <1>2, <1>5, <1>6, <1>8 DEF pool, n, R, o, m, D

(***************************************************************************)
(* So no id is fused twice, and only what was searched is.                 *)
(***************************************************************************)
LEMMA FuseIsOnce ==
  ASSUME RetrievalAssumption, RetrievalTypes, NEW docs \in Seq(Document), NEW strategy,
         NEW depth \in Depths
  PROVE  /\ Fuse(docs, strategy, depth) \in Seq(Document)
         /\ ToSet(Fuse(docs, strategy, depth)) \subseteq ToSet(docs)
         /\ DistinctIds(Fuse(docs, strategy, depth))
<1> DEFINE pool == PoolOf(docs, strategy, depth)
           n == Len(pool)
           R == ByScore(ShareIn(pool), n)
           o == InOrder(R, 1 .. n)
           m == IF depth.fused <= n THEN depth.fused ELSE n
           D == ToSet(docs)
           t == DocsAt(pool, o, m)
<1>1. /\ pool \in Pools(D) /\ m \in 0 .. n /\ Ordered(o, R, 1 .. n)
      /\ Fuse(docs, strategy, depth) = t
  BY FuseIsOrdered
<1>2. D \subseteq Document
  BY DEF ToSet
<1> HIDE DEF pool, R, o, m, D
<1>3. /\ n \in Nat /\ \A i \in 1 .. n : pool[i] \in Entry(D)
      /\ \A i, j \in 1 .. n : pool[i].doc.id = pool[j].doc.id => i = j
  BY <1>1 DEF Pools
<1> HIDE DEF n
<1>4. Cardinality(1 .. n) = n
  BY <1>3, PlacesCount
<1>5. /\ \A i \in 1 .. n : o[i] \in 1 .. n
      /\ \A i, j \in 1 .. n : o[i] = o[j] => i = j
  BY <1>1, <1>4 DEF Ordered
<1>6. m \in Nat /\ \A i \in 1 .. m : i \in 1 .. n
  BY <1>1, <1>3
<1>7. \A i \in 1 .. m : t[i] = pool[o[i]].doc /\ t[i] \in D
  <2> TAKE i \in 1 .. m
  <2>1. t[i] = pool[o[i]].doc
    BY DEF DocsAt
  <2>2. pool[o[i]] \in Entry(D)
    BY <1>3, <1>5, <1>6
  <2> QED
    BY <2>1, <2>2 DEF Entry
<1>8. t \in [1 .. m -> D]
  BY <1>7 DEF DocsAt
<1>9. \A i, j \in 1 .. m : t[i].id = t[j].id => i = j
  <2> TAKE i, j \in 1 .. m
  <2> HAVE t[i].id = t[j].id
  <2>1. pool[o[i]].doc.id = pool[o[j]].doc.id /\ o[i] \in 1 .. n /\ o[j] \in 1 .. n
    BY <1>5, <1>6, <1>7
  <2>2. o[i] = o[j]
    BY <1>3, <2>1
  <2> QED
    BY <1>5, <1>6, <2>2
<1> HIDE DEF t
<1>10. t \in Seq(Document) /\ DOMAIN t = 1 .. m
  BY <1>2, <1>6, <1>8
<1>11. ToSet(t) \subseteq D
  BY <1>7, <1>10 DEF ToSet
<1>12. DistinctIds(t)
  BY <1>9, <1>10 DEF DistinctIds
<1> QED
  BY <1>1, <1>10, <1>11, <1>12 DEF D

(***************************************************************************)
(* Nor is one returned twice after the pool was ranked again.              *)
(***************************************************************************)
LEMMA ResultsAreOnce ==
  ASSUME RetrievalAssumption, RetrievalTypes, NEW docs \in Seq(Document), NEW strategy,
         NEW depth \in Depths
  PROVE  LET results == Rerank(Fuse(docs, strategy, depth), depth.reranked)
         IN  DistinctIds(results) /\ ToSet(results) \subseteq ToSet(docs)
<1> DEFINE pool == Fuse(docs, strategy, depth)
           results == Rerank(pool, depth.reranked)
<1>1. pool \in Seq(Document) /\ ToSet(pool) \subseteq ToSet(docs) /\ DistinctIds(pool)
  BY FuseIsOnce
<1>2. depth.reranked \in Nat
  BY DEF RetrievalAssumption
<1> HIDE DEF pool
<1>3. Picked(results, pool)
  BY <1>1, <1>2, ListsArePicked
<1> HIDE DEF results
<1>4. ToSet(results) \subseteq ToSet(pool) /\ DistinctIds(results)
  BY <1>1, <1>3, PickedIsThere
<1> QED
  BY <1>1, <1>4 DEF pool, results

------------------------------------------------------------------------------
(* Retrieval: rank fusion *)

(***************************************************************************)
(* Documents with ids of their own are added to the empty pool one by one. *)
(***************************************************************************)
LEMMA FirstPoolIsTheList ==
  ASSUME NEW D, NEW list \in Pools(D)
  PROVE  FirstPool(list) \in Pools(D) /\ FirstPool(list) = list
<1> DEFINE n == Len(list)
<1>1. /\ list \in Seq(Entry(D)) /\ n \in Nat /\ DOMAIN list = 1 .. n
      /\ \A i \in 1 .. n : list[i] \in Entry(D)
      /\ \A i, j \in 1 .. n : list[i].doc.id = list[j].doc.id => i = j
  BY DEF Pools
<1> DEFINE step == SetNext(D, list)
           last == FirstPool(list)
<1>2. PICK f : IsRun(f, n, Pools(D), <<>>, step, last)
  BY <1>1, FirstPoolRuns
<1> DEFINE T == {k \in 0 .. n : Len(f[k]) = k /\ \A i \in 1 .. k : f[k][i] = list[i]}
<1>3. f \in [0 .. n -> Pools(D)] /\ f[0] = <<>> /\ f[n] = last
  BY <1>2 DEF IsRun
<1> HIDE DEF n, last
<1>4. 0 \in T
  BY <1>1, <1>3
<1>5. ASSUME NEW k \in 0 .. n - 1, k \in T PROVE k + 1 \in T
  <2> DEFINE p == f[k]
             q == f[k + 1]
             s == list[k + 1]
  <2>1. k \in 0 .. n /\ k + 1 \in 0 .. n /\ k + 1 \in 1 .. n /\ k \in Nat
    BY <1>1
  <2>2. p \in Pools(D) /\ q \in Pools(D) /\ s \in Entry(D)
    BY <1>1, <1>3, <2>1
  <2>3. q = SetEntry(p, s)
    <3>1. q = step[<<p, k + 1>>]
      BY <1>2 DEF IsRun
    <3> HIDE DEF p, q, s
    <3>2. step[<<p, k + 1>>] = SetEntry(p, s)
      BY <2>1, <2>2 DEF SetNext, n, s
    <3> QED
      BY <3>1, <3>2
  <2>4. Len(p) = k /\ \A i \in 1 .. k : p[i] = list[i]
    BY <1>5
  <2>5. p \in Seq(Entry(D)) /\ DOMAIN p = 1 .. k
    BY <2>2, <2>4 DEF Pools
  <2>6. ~Listed(p, s)
    <3> SUFFICES ASSUME NEW i \in 1 .. k, p[i].doc.id = s.doc.id PROVE FALSE
      BY <2>5 DEF Listed
    <3>1. list[i].doc.id = list[k + 1].doc.id /\ i \in 1 .. n
      BY <1>1, <2>1, <2>4
    <3> QED
      BY <1>1, <2>1, <3>1
  <2>7. q = Append(p, s)
    BY <2>3, <2>6 DEF SetEntry
  <2> HIDE DEF p, q
  <2>8. Len(q) = k + 1 /\ (\A i \in 1 .. k : q[i] = p[i]) /\ q[k + 1] = s
    BY <2>2, <2>4, <2>5, <2>7, AppendProperties
  <2>9. \A i \in 1 .. k + 1 : q[i] = list[i]
    <3> TAKE i \in 1 .. k + 1
    <3>1. i \in 1 .. k \/ i = k + 1
      BY <2>1
    <3> QED
      BY <2>4, <2>8, <3>1
  <2> QED
    BY <2>1, <2>8, <2>9 DEF q
<1>6. n \in T
  <2>1. \A k \in 0 .. n - 1 : k \in T => k + 1 \in T
    BY <1>5
  <2> HIDE DEF T
  <2>2. \A k \in 0 .. n : k \in T
    BY <1>1, <1>4, <2>1, UpTo
  <2> QED
    BY <1>1, <2>2
<1>7. last \in Pools(D) /\ Len(last) = n /\ \A i \in 1 .. n : last[i] = list[i]
  BY <1>1, <1>3, <1>6
<1>8. last \in Seq(Entry(D))
  BY <1>7 DEF Pools
<1>9. last = list
  BY <1>1, <1>7, <1>8 DEF n
<1> QED
  BY <1>7, <1>9 DEF last

(* A pool P of what the keyword list K and the first k of the semantic     *)
(* list S gave: K in its order, then what only S has in the order of S,    *)
(* each with the shares of its ranks.                                      *)
OfKeyword(K, i) == IF i <= Len(K) THEN RankShare(i) ELSE 0

BothShares(P, K, S, k) ==
  /\ \A i \in 1 .. Len(P) : \A j \in 1 .. k :
       P[i].doc = S[j] => P[i].share = OfKeyword(K, i) + RankShare(j)
  /\ \A i \in 1 .. Len(P) :
       (\A j \in 1 .. k : P[i].doc # S[j]) => i <= Len(K) /\ P[i].share = RankShare(i)

InTurn(P, K, S, k) ==
  \A h, i \in 1 .. Len(P) : \A j, l \in 1 .. k :
    i < h /\ i > Len(K) /\ P[i].doc = S[j] /\ P[h].doc = S[l] => j < l

Joined(P, K, S, k) ==
  /\ Len(P) >= Len(K)
  /\ \A i \in 1 .. Len(K) : P[i].doc = K[i]
  /\ \A j \in 1 .. k : \E i \in 1 .. Len(P) : P[i].doc = S[j]
  /\ BothShares(P, K, S, k) /\ InTurn(P, K, S, k)

(* Two documents of one id are one. *)
OneOfEachId(D) == \A d, e \in D : d.id = e.id => d = e

(***************************************************************************)
(* The next of the semantic list keeps it so, whether the keyword list has *)
(* it or not.                                                              *)
(***************************************************************************)
LEMMA JoinedStays ==
  ASSUME RetrievalAssumption, NEW D, OneOfEachId(D), NEW K \in Seq(D), NEW S \in Seq(D),
         \A i, j \in 1 .. Len(S) : S[i] = S[j] => i = j,
         NEW k \in 0 .. Len(S) - 1, NEW P \in Pools(D), Joined(P, K, S, k)
  PROVE  Joined(AddShare(P, [doc |-> S[k + 1], share |-> RankShare(k + 1)]), K, S, k + 1)
<1> DEFINE s == [doc |-> S[k + 1], share |-> RankShare(k + 1)]
           n == Len(P)
           a == Len(K)
           Q == AddShare(P, s)
<1>1. /\ P \in Seq(Entry(D)) /\ n \in Nat /\ a \in Nat /\ DOMAIN P = 1 .. n
      /\ \A i \in 1 .. n : P[i] \in Entry(D) /\ P[i].doc \in D /\ P[i].share \in Int
      /\ \A i, j \in 1 .. n : P[i].doc.id = P[j].doc.id => i = j
  <2>1. /\ P \in Seq(Entry(D)) /\ n \in Nat /\ a \in Nat /\ DOMAIN P = 1 .. n
        /\ \A i \in 1 .. n : P[i] \in Entry(D)
        /\ \A i, j \in 1 .. n : P[i].doc.id = P[j].doc.id => i = j
    BY DEF Pools
  <2>2. \A e \in Entry(D) : e.doc \in D /\ e.share \in Int
    BY DEF Entry
  <2> QED
    BY <2>1, <2>2
<1>2. \A i \in Nat : RankShare(i) \in Int
  BY SharesFall
<1>3. /\ k \in Nat /\ k + 1 \in 1 .. Len(S) /\ \A j \in 1 .. Len(S) : S[j] \in D
      /\ \A j \in 1 .. k : j \in 1 .. Len(S) /\ S[j] # S[k + 1]
      /\ \A j \in 1 .. k + 1 : j \in 1 .. k \/ j = k + 1
  OBVIOUS
<1>4. s \in Entry(D)
  BY <1>2, <1>3 DEF Entry
<1>5. /\ n >= a
      /\ \A i \in 1 .. a : P[i].doc = K[i]
      /\ \A j \in 1 .. k : \E i \in 1 .. n : P[i].doc = S[j]
      /\ BothShares(P, K, S, k) /\ InTurn(P, K, S, k)
  BY DEF Joined
<1>6. /\ \A i \in 1 .. n : \A j \in 1 .. k :
           P[i].doc = S[j] => P[i].share = OfKeyword(K, i) + RankShare(j)
      /\ \A i \in 1 .. n :
           (\A j \in 1 .. k : P[i].doc # S[j]) => i <= a /\ P[i].share = RankShare(i)
  BY <1>5 DEF BothShares
<1>7. \A h, i \in 1 .. n : \A j, l \in 1 .. k :
        i < h /\ i > a /\ P[i].doc = S[j] /\ P[h].doc = S[l] => j < l
  BY <1>5 DEF InTurn
<1>8. \A i \in 1 .. n : P[i].doc.id = S[k + 1].id <=> P[i].doc = S[k + 1]
  BY <1>1, <1>3 DEF OneOfEachId
<1>9. CASE Listed(P, s)
  <2> DEFINE e == [i \in 1 .. n |->
                     IF P[i].doc.id = s.doc.id THEN [P[i] EXCEPT !.share = @ + s.share] ELSE P[i]]
  <2>1. Q = e
    BY <1>1, <1>9 DEF AddShare
  <2>2. PICK x \in 1 .. n : P[x].doc = S[k + 1]
    BY <1>1, <1>8, <1>9 DEF Listed
  <2>3. x <= a /\ P[x].share = RankShare(x)
    <3>1. \A j \in 1 .. k : P[x].doc # S[j]
      BY <1>3, <2>2
    <3> QED
      BY <1>6, <3>1
  <2>4. \A i \in 1 .. n : P[i].doc = S[k + 1] <=> i = x
    BY <1>1, <2>2
  <2>5. \A i \in 1 .. n : /\ e[i].doc = P[i].doc
                          /\ i # x => e[i].share = P[i].share
    <3> TAKE i \in 1 .. n
    <3>1. P[i] \in Entry(D)
      BY <1>1
    <3>2. [P[i] EXCEPT !.share = @ + s.share].doc = P[i].doc
      BY <3>1 DEF Entry
    <3>3. i # x => e[i] = P[i]
      BY <1>8, <2>4
    <3> QED
      BY <3>2, <3>3
  <2>6. e[x].share = RankShare(x) + RankShare(k + 1)
    <3>1. P[x] \in Entry(D)
      BY <1>1
    <3>2. [P[x] EXCEPT !.share = @ + s.share].share = P[x].share + RankShare(k + 1)
      BY <3>1 DEF Entry
    <3>3. e[x] = [P[x] EXCEPT !.share = @ + s.share]
      BY <2>2
    <3> QED
      BY <2>3, <3>2, <3>3
  <2>7. Len(e) = n
    BY <1>1
  <2> HIDE DEF e, n, a, s, Q
  <2>8. BothShares(e, K, S, k + 1)
    <3>1. ASSUME NEW i \in 1 .. n, NEW j \in 1 .. k + 1, e[i].doc = S[j]
          PROVE  e[i].share = OfKeyword(K, i) + RankShare(j)
      <4>1. CASE j = k + 1
        <5>1. i = x
          BY <2>4, <2>5, <3>1, <4>1
        <5>2. OfKeyword(K, i) = RankShare(x)
          BY <2>3, <5>1 DEF OfKeyword, a
        <5> QED
          BY <2>6, <4>1, <5>1, <5>2
      <4>2. CASE j \in 1 .. k
        <5>1. P[i].doc = S[j] /\ S[j] # S[k + 1]
          BY <1>3, <2>5, <3>1, <4>2
        <5>2. i # x
          BY <2>2, <5>1
        <5> QED
          BY <1>6, <2>5, <4>2, <5>1, <5>2
      <4> QED
        BY <1>3, <4>1, <4>2
    <3>2. ASSUME NEW i \in 1 .. n, \A j \in 1 .. k + 1 : e[i].doc # S[j]
          PROVE  i <= a /\ e[i].share = RankShare(i)
      <4>1. k + 1 \in 1 .. k + 1 /\ \A j \in 1 .. k : j \in 1 .. k + 1
        BY <1>3
      <4>2. P[i].doc # S[k + 1] /\ \A j \in 1 .. k : P[i].doc # S[j]
        BY <2>5, <3>2, <4>1
      <4>3. i # x
        BY <2>2, <4>2
      <4> QED
        BY <1>6, <2>5, <4>2, <4>3
    <3> QED
      BY <2>7, <3>1, <3>2 DEF BothShares, a
  <2>9. InTurn(e, K, S, k + 1)
    <3> SUFFICES ASSUME NEW h \in 1 .. n, NEW i \in 1 .. n, NEW j \in 1 .. k + 1, NEW l \in 1 .. k + 1,
                        i < h, i > a, e[i].doc = S[j], e[h].doc = S[l]
                 PROVE  j < l
      BY <2>7 DEF InTurn, a
    <3>1. i # x /\ h # x
      BY <1>1, <2>3
    <3>2. P[i].doc = S[j] /\ P[h].doc = S[l]
      BY <2>5
    <3>3. j # k + 1 /\ l # k + 1
      BY <2>4, <3>1, <3>2
    <3>4. j \in 1 .. k /\ l \in 1 .. k
      BY <1>3, <3>3
    <3> QED
      BY <1>7, <3>2, <3>4
  <2>10. \A i \in 1 .. a : e[i].doc = K[i]
    <3> TAKE i \in 1 .. a
    <3>1. i \in 1 .. n
      BY <1>1, <1>5
    <3> QED
      BY <1>5, <2>5, <3>1
  <2>11. \A j \in 1 .. k + 1 : \E i \in 1 .. n : e[i].doc = S[j]
    <3> TAKE j \in 1 .. k + 1
    <3>1. CASE j = k + 1
      BY <2>2, <2>5, <3>1
    <3>2. CASE j \in 1 .. k
      BY <1>5, <2>5, <3>2
    <3> QED
      BY <1>3, <3>1, <3>2
  <2>12. Joined(e, K, S, k + 1)
    BY <1>5, <2>7, <2>8, <2>9, <2>10, <2>11 DEF Joined, a
  <2> QED
    BY <2>1, <2>12 DEF Q, s
<1>10. CASE ~Listed(P, s)
  <2> DEFINE e == Append(P, s)
  <2>1. Q = e
    BY <1>10 DEF AddShare
  <2>2. /\ Len(e) = n + 1 /\ e[n + 1] = s
        /\ \A i \in 1 .. n : e[i] = P[i]
    BY <1>1, <1>4, AppendProperties
  <2>3. \A i \in 1 .. n : P[i].doc # S[k + 1]
    BY <1>1, <1>10 DEF Listed
  <2>4. e[n + 1].doc = S[k + 1] /\ e[n + 1].share = RankShare(k + 1)
    BY <2>2
  <2>5. \A i \in 1 .. n + 1 : i \in 1 .. n \/ i = n + 1
    BY <1>1
  <2> HIDE DEF e, n, a, s, Q
  <2>6. BothShares(e, K, S, k + 1)
    <3>1. ASSUME NEW i \in 1 .. n + 1, NEW j \in 1 .. k + 1, e[i].doc = S[j]
          PROVE  e[i].share = OfKeyword(K, i) + RankShare(j)
      <4>1. CASE i = n + 1
        <5>1. j = k + 1
          BY <1>3, <2>4, <3>1, <4>1
        <5>2. OfKeyword(K, i) = 0
          BY <1>1, <1>5, <4>1 DEF OfKeyword, a
        <5>3. RankShare(k + 1) \in Int
          BY <1>2, <1>3
        <5> QED
          BY <2>4, <4>1, <5>1, <5>2, <5>3
      <4>2. CASE i \in 1 .. n
        <5>1. P[i].doc = S[j] /\ e[i] = P[i]
          BY <2>2, <3>1, <4>2
        <5>2. j \in 1 .. k
          BY <1>3, <2>3, <4>2, <5>1
        <5> QED
          BY <1>6, <4>2, <5>1, <5>2
      <4> QED
        BY <2>5, <4>1, <4>2
    <3>2. ASSUME NEW i \in 1 .. n + 1, \A j \in 1 .. k + 1 : e[i].doc # S[j]
          PROVE  i <= a /\ e[i].share = RankShare(i)
      <4>1. k + 1 \in 1 .. k + 1 /\ \A j \in 1 .. k : j \in 1 .. k + 1
        BY <1>3
      <4>2. i \in 1 .. n
        BY <2>4, <2>5, <3>2, <4>1
      <4>3. e[i] = P[i] /\ \A j \in 1 .. k : P[i].doc # S[j]
        BY <2>2, <3>2, <4>1, <4>2
      <4> QED
        BY <1>6, <4>2, <4>3
    <3> QED
      BY <2>2, <3>1, <3>2 DEF BothShares, a
  <2>7. InTurn(e, K, S, k + 1)
    <3> SUFFICES ASSUME NEW h \in 1 .. n + 1, NEW i \in 1 .. n + 1,
                        NEW j \in 1 .. k + 1, NEW l \in 1 .. k + 1,
                        i < h, i > a, e[i].doc = S[j], e[h].doc = S[l]
                 PROVE  j < l
      BY <2>2 DEF InTurn, a
    <3>1. i \in 1 .. n
      BY <1>1
    <3>2. P[i].doc = S[j]
      BY <2>2, <3>1
    <3>3. j \in 1 .. k
      BY <1>3, <2>3, <3>1, <3>2
    <3>4. CASE h = n + 1
      <4>1. l = k + 1
        BY <1>3, <2>4, <3>4
      <4> QED
        BY <1>3, <3>3, <4>1
    <3>5. CASE h \in 1 .. n
      <4>1. P[h].doc = S[l]
        BY <2>2, <3>5
      <4>2. l \in 1 .. k
        BY <1>3, <2>3, <3>5, <4>1
      <4> QED
        BY <1>7, <3>1, <3>2, <3>3, <3>5, <4>1, <4>2
    <3> QED
      BY <2>5, <3>4, <3>5
  <2>8. \A i \in 1 .. a : e[i].doc = K[i]
    <3> TAKE i \in 1 .. a
    <3>1. i \in 1 .. n
      BY <1>1, <1>5
    <3> QED
      BY <1>5, <2>2, <3>1
  <2>9. \A j \in 1 .. k + 1 : \E i \in 1 .. n + 1 : e[i].doc = S[j]
    <3> TAKE j \in 1 .. k + 1
    <3>1. CASE j = k + 1
      <4>1. n + 1 \in 1 .. n + 1
        BY <1>1
      <4> QED
        BY <2>4, <3>1, <4>1
    <3>2. CASE j \in 1 .. k
      <4>1. PICK i \in 1 .. n : P[i].doc = S[j]
        BY <1>5, <3>2
      <4>2. i \in 1 .. n + 1 /\ e[i] = P[i]
        BY <1>1, <2>2
      <4> QED
        BY <4>1, <4>2
    <3> QED
      BY <1>3, <3>1, <3>2
  <2>10. n + 1 >= a
    BY <1>1, <1>5
  <2>11. Joined(e, K, S, k + 1)
    BY <2>2, <2>6, <2>7, <2>8, <2>9, <2>10 DEF Joined, a
  <2> QED
    BY <2>1, <2>11 DEF Q, s
<1> QED
  BY <1>9, <1>10

(* A list without a document twice. *)
Once(list) == \A i, j \in 1 .. Len(list) : list[i] = list[j] => i = j

(***************************************************************************)
(* What such a list prefers has a place in it, ahead of the other's.       *)
(***************************************************************************)
LEMMA PreferredPlace ==
  ASSUME NEW D, NEW list \in Seq(D), Once(list), NEW x, NEW y, Prefers(list, x, y)
  PROVE  \E i \in 1 .. Len(list) :
           /\ list[i] = x
           /\ \A j \in 1 .. Len(list) : list[j] = y => i < j
<1>1. /\ x \in ToSet(list) /\ (y \in ToSet(list) => Place(list, x) < Place(list, y))
      /\ DOMAIN list = 1 .. Len(list) /\ Len(list) \in Nat
  BY DEF Prefers
<1>2. \A d : d \in ToSet(list) => Place(list, d) \in 1 .. Len(list) /\ list[Place(list, d)] = d
  <2> TAKE d
  <2> HAVE d \in ToSet(list)
  <2>1. \E i \in DOMAIN list : list[i] = d
    BY DEF ToSet
  <2> QED
    BY <1>1, <2>1 DEF Place
<1> DEFINE i == Place(list, x)
<1>3. i \in 1 .. Len(list) /\ list[i] = x
  BY <1>1, <1>2
<1>4. ASSUME NEW j \in 1 .. Len(list), list[j] = y PROVE i < j
  <2>1. y \in ToSet(list)
    BY <1>1, <1>4 DEF ToSet
  <2>2. Place(list, y) = j
    BY <1>2, <1>4, <2>1 DEF Once
  <2> QED
    BY <1>1, <2>1, <2>2
<1> HIDE DEF i
<1> QED
  BY <1>3, <1>4

(***************************************************************************)
(* And a document that stands ahead of another wherever that other is, is  *)
(* preferred to it.                                                        *)
(***************************************************************************)
LEMMA AheadIsPreferred ==
  ASSUME NEW D, NEW list \in Seq(D), Once(list), NEW i \in 1 .. Len(list), NEW j \in 1 .. Len(list),
         i < j
  PROVE  Prefers(list, list[i], list[j])
<1>1. DOMAIN list = 1 .. Len(list) /\ Len(list) \in Nat
  OBVIOUS
<1>2. list[i] \in ToSet(list) /\ list[j] \in ToSet(list)
  BY <1>1 DEF ToSet
<1>3. \A l \in 1 .. Len(list) : Place(list, list[l]) = l
  <2> TAKE l \in 1 .. Len(list)
  <2>1. \E h \in DOMAIN list : list[h] = list[l]
    BY <1>1
  <2>2. Place(list, list[l]) \in 1 .. Len(list) /\ list[Place(list, list[l])] = list[l]
    BY <1>1, <2>1 DEF Place
  <2> QED
    BY <2>2 DEF Once
<1> QED
  BY <1>2, <1>3 DEF Prefers

(***************************************************************************)
(* What both lists prefer has the larger share, or an equal one and the    *)
(* place ahead.                                                            *)
(***************************************************************************)
LEMMA PreferredIsAhead ==
  ASSUME RetrievalAssumption, NEW D, NEW K \in Seq(D), NEW S \in Seq(D), Once(K), Once(S),
         NEW P \in Pools(D), Joined(P, K, S, Len(S)), NEW x, NEW y,
         Prefers(K, x, y), Prefers(S, x, y),
         NEW iy \in 1 .. Len(P), P[iy].doc = y
  PROVE  \E ix \in 1 .. Len(P) : P[ix].doc = x /\ <<ix, iy>> \in ByScore(ShareIn(P), Len(P))
<1> DEFINE a == Len(K)
           b == Len(S)
           n == Len(P)
<1>1. PICK ax \in 1 .. a : K[ax] = x /\ \A j \in 1 .. a : K[j] = y => ax < j
  BY PreferredPlace
<1>2. PICK bx \in 1 .. b : S[bx] = x /\ \A j \in 1 .. b : S[j] = y => bx < j
  BY PreferredPlace
<1>3. /\ n >= a /\ \A i \in 1 .. a : P[i].doc = K[i]
      /\ \A i \in 1 .. n : \A j \in 1 .. b :
           P[i].doc = S[j] => P[i].share = OfKeyword(K, i) + RankShare(j)
      /\ \A i \in 1 .. n :
           (\A j \in 1 .. b : P[i].doc # S[j]) => i <= a /\ P[i].share = RankShare(i)
  BY DEF Joined, BothShares
<1>4. a \in Nat /\ b \in Nat /\ n \in Nat
  BY DEF Pools
<1> HIDE DEF a, b, n
<1>5. ax \in 1 .. n /\ P[ax].doc = x
  BY <1>1, <1>3, <1>4
<1>6. P[ax].share = RankShare(ax) + RankShare(bx)
  <2>1. OfKeyword(K, ax) = RankShare(ax)
    BY <1>4 DEF OfKeyword, a
  <2> QED
    BY <1>2, <1>3, <1>5, <2>1
<1>7. /\ \A i \in Nat : RankShare(i) \in Nat
      /\ \A i, j \in Nat : i <= j => RankShare(j) <= RankShare(i)
  BY SharesFall
<1>8. ax < iy
  <2>1. CASE iy <= a
    <3>1. iy \in 1 .. a
      BY <1>4, <2>1 DEF n
    <3>2. K[iy] = y
      BY <1>3, <3>1
    <3> QED
      BY <1>1, <3>1, <3>2
  <2>2. CASE iy > a
    BY <1>1, <1>4, <2>2 DEF n
  <2> QED
    BY <1>4, <2>1, <2>2 DEF n
<1>9. ax \in Nat /\ bx \in Nat /\ iy \in Nat /\ iy \in 1 .. n
  BY <1>4 DEF n
<1>10. /\ RankShare(ax) \in Nat /\ RankShare(bx) \in Nat /\ RankShare(iy) \in Nat
       /\ RankShare(iy) <= RankShare(ax)
  BY <1>7, <1>8, <1>9
<1>11. P[iy].share \in Int /\ P[iy].share <= P[ax].share
  <2>1. CASE \E j \in 1 .. b : P[iy].doc = S[j]
    <3>1. PICK j \in 1 .. b : P[iy].doc = S[j]
      BY <2>1
    <3>2. bx < j /\ j \in Nat
      BY <1>2, <1>4, <3>1
    <3>3. RankShare(j) \in Nat /\ RankShare(j) <= RankShare(bx)
      BY <1>7, <1>9, <3>2
    <3>4. P[iy].share = OfKeyword(K, iy) + RankShare(j)
      BY <1>3, <1>9, <3>1
    <3>5. OfKeyword(K, iy) \in Nat /\ OfKeyword(K, iy) <= RankShare(ax)
      BY <1>10 DEF OfKeyword
    <3> QED
      BY <1>6, <1>10, <3>3, <3>4, <3>5
  <2>2. CASE \A j \in 1 .. b : P[iy].doc # S[j]
    <3>1. P[iy].share = RankShare(iy)
      BY <1>3, <1>9, <2>2
    <3> QED
      BY <1>6, <1>10, <3>1
  <2> QED
    BY <2>1, <2>2
<1> DEFINE score == ShareIn(P)
<1>12. score[ax] = P[ax].share /\ score[iy] = P[iy].share
  BY <1>5, <1>9 DEF ShareIn, n
<1>13. P[ax].share \in Int
  BY <1>6, <1>10
<1> HIDE DEF score
<1>14. <<ax, iy>> \in ByScore(score, n)
  <2>1. score[ax] > score[iy] \/ (score[ax] = score[iy] /\ ax < iy)
    BY <1>8, <1>11, <1>12, <1>13
  <2> QED
    BY <1>5, <1>9, <2>1 DEF ByScore
<1> QED
  BY <1>5, <1>14 DEF score, n

(***************************************************************************)
(* So it is in the first documents of the pool if they have the other, and *)
(* before it.                                                              *)
(***************************************************************************)
LEMMA FirstsRespectBoth ==
  ASSUME RetrievalAssumption, NEW D, NEW K \in Seq(D), NEW S \in Seq(D), Once(K), Once(S),
         NEW P \in Pools(D), Joined(P, K, S, Len(S)), NEW x, NEW y,
         Prefers(K, x, y), Prefers(S, x, y),
         NEW o, Ordered(o, ByScore(ShareIn(P), Len(P)), 1 .. Len(P)), NEW m \in 0 .. Len(P),
         y \in ToSet(DocsAt(P, o, m))
  PROVE  Prefers(DocsAt(P, o, m), x, y)
<1> DEFINE n == Len(P)
           R == ByScore(ShareIn(P), n)
           t == DocsAt(P, o, m)
<1>1. /\ n \in Nat /\ \A i \in 1 .. n : P[i] \in Entry(D)
      /\ \A i, j \in 1 .. n : P[i].doc.id = P[j].doc.id => i = j
  BY DEF Pools
<1>2. Cardinality(1 .. n) = n /\ m \in Nat /\ \A i \in 1 .. m : i \in 1 .. n
  BY <1>1, PlacesCount
<1> HIDE DEF R
<1>3. /\ \A i \in 1 .. n : o[i] \in 1 .. n
      /\ \A i, j \in 1 .. n : i < j <=> <<o[i], o[j]>> \in R
      /\ \A i, j \in 1 .. n : o[i] = o[j] => i = j
      /\ \A i \in 1 .. n : \E j \in 1 .. n : o[j] = i
  BY <1>2 DEF Ordered, R
<1>4. \A i \in 1 .. m : t[i] = P[o[i]].doc /\ o[i] \in 1 .. n /\ P[o[i]].doc \in D
  <2> TAKE i \in 1 .. m
  <2>1. o[i] \in 1 .. n
    BY <1>2, <1>3
  <2>2. P[o[i]] \in Entry(D)
    BY <1>1, <2>1
  <2> QED
    BY <2>1, <2>2 DEF Entry, DocsAt
<1>5. t \in [1 .. m -> D]
  BY <1>4 DEF DocsAt
<1> HIDE DEF n, t
<1>6. t \in Seq(D) /\ Len(t) = m /\ DOMAIN t = 1 .. m
  BY <1>2, <1>5
<1>7. Once(t)
  <2> SUFFICES ASSUME NEW i \in 1 .. m, NEW j \in 1 .. m, t[i] = t[j] PROVE i = j
    BY <1>6 DEF Once
  <2>1. o[i] \in 1 .. n /\ o[j] \in 1 .. n /\ P[o[i]].doc.id = P[o[j]].doc.id
    BY <1>4
  <2>2. o[i] = o[j]
    BY <1>1, <2>1
  <2> QED
    BY <1>2, <1>3, <2>2
<1>8. PICK qy \in 1 .. m : t[qy] = y
  BY <1>6 DEF ToSet, t
<1>9. o[qy] \in 1 .. n /\ P[o[qy]].doc = y
  BY <1>4, <1>8
<1>10. PICK ix \in 1 .. n : P[ix].doc = x /\ <<ix, o[qy]>> \in R
  BY <1>9, PreferredIsAhead DEF n, R
<1>11. PICK qx \in 1 .. n : o[qx] = ix
  BY <1>3
<1>12. qx < qy
  BY <1>2, <1>3, <1>10, <1>11
<1>13. qx \in 1 .. m
  BY <1>1, <1>2, <1>12
<1>14. t[qx] = x
  BY <1>4, <1>10, <1>11, <1>13
<1>15. Prefers(t, t[qx], t[qy])
  BY <1>6, <1>7, <1>12, <1>13, AheadIsPreferred
<1> QED
  BY <1>8, <1>14, <1>15 DEF t

(***************************************************************************)
(* The pool of a request by rank, over documents with ids of their own,    *)
(* joins both of its lists.                                                *)
(***************************************************************************)
LEMMA PoolIsJoined ==
  ASSUME RetrievalAssumption, RetrievalTypes, NEW docs \in Seq(Document), DistinctIds(docs),
         NEW depth \in Depths
  PROVE  LET D == ToSet(docs)
             K == KeywordList(docs, depth.keyword)
             S == SemanticList(docs, depth.semantic)
         IN  /\ OneOfEachId(D)
             /\ K \in Seq(D) /\ S \in Seq(D) /\ Once(K) /\ Once(S)
             /\ Joined(PoolOf(docs, "RRF", depth), K, S, Len(S))
<1> DEFINE D == ToSet(docs)
           K == KeywordList(docs, depth.keyword)
           S == SemanticList(docs, depth.semantic)
           kw == KeywordShares(docs, "RRF", depth)
           sem == SemanticShares(docs, "RRF", depth)
<1>1. depth.keyword \in Nat /\ depth.semantic \in Nat
  BY DEF RetrievalAssumption
<1>2. Picked(K, docs) /\ Picked(S, docs)
  BY <1>1, ListsArePicked
<1>3. kw \in Seq(Entry(D)) /\ sem \in Seq(Entry(D))
  BY SharesAreTyped
<1>4. /\ kw = [i \in DOMAIN K |-> [doc |-> K[i], share |-> RankShare(i)]]
      /\ sem = [i \in DOMAIN S |-> [doc |-> S[i], share |-> RankShare(i)]]
      /\ PoolOf(docs, "RRF", depth) = SecondPool(FirstPool(kw), sem)
  BY DEF KeywordShares, SemanticShares, PoolOf
<1>5. OneOfEachId(D)
  <2> SUFFICES ASSUME NEW d \in D, NEW e \in D, d.id = e.id PROVE d = e
    BY DEF OneOfEachId
  <2>1. PICK i, j \in DOMAIN docs : d = docs[i] /\ e = docs[j]
    BY DEF ToSet
  <2> QED
    BY <2>1 DEF DistinctIds
<1> HIDE DEF K, S
<1>6. K \in Seq(D) /\ S \in Seq(D)
  BY <1>2 DEF Picked
<1>7. DistinctIds(K) /\ DistinctIds(S)
  BY <1>2, PickedIsThere
<1> HIDE DEF D, kw, sem
<1>8. /\ DOMAIN K = 1 .. Len(K) /\ Len(K) \in Nat /\ DOMAIN S = 1 .. Len(S) /\ Len(S) \in Nat
  BY <1>6
<1>9. Once(K) /\ Once(S)
  BY <1>7, <1>8 DEF Once, DistinctIds
<1>10. /\ DOMAIN kw = 1 .. Len(K) /\ DOMAIN sem = 1 .. Len(S)
       /\ \A i \in 1 .. Len(K) : kw[i] = [doc |-> K[i], share |-> RankShare(i)]
       /\ \A i \in 1 .. Len(S) : sem[i] = [doc |-> S[i], share |-> RankShare(i)]
  BY <1>4, <1>8
<1>11. Len(kw) = Len(K) /\ Len(sem) = Len(S)
  BY <1>3, <1>8, <1>10
<1>12. kw \in Pools(D)
  <2> SUFFICES ASSUME NEW i \in 1 .. Len(K), NEW j \in 1 .. Len(K), kw[i].doc.id = kw[j].doc.id
               PROVE  i = j
    BY <1>3, <1>11 DEF Pools
  <2>1. K[i].id = K[j].id
    BY <1>10
  <2> QED
    BY <1>7, <1>8, <2>1 DEF DistinctIds
<1>13. FirstPool(kw) = kw
  BY <1>12, FirstPoolIsTheList
<1> DEFINE step == AddNext(D, sem)
           last == SecondPool(kw, sem)
           n == Len(S)
<1>14. PICK f : IsRun(f, Len(sem), Pools(D), kw, step, last)
  BY <1>3, <1>12, SecondPoolRuns
<1> HIDE DEF last
<1>15. /\ f \in [0 .. n -> Pools(D)] /\ f[0] = kw /\ f[n] = last
       /\ \A k \in 0 .. n - 1 : f[k + 1] = step[<<f[k], k + 1>>]
  BY <1>11, <1>14 DEF IsRun
<1> DEFINE T == {k \in 0 .. n : Joined(f[k], K, S, k)}
<1>16. 0 \in T
  <2>1. \A i \in 1 .. Len(kw) : kw[i].doc = K[i] /\ kw[i].share = RankShare(i) /\ i <= Len(K)
    BY <1>8, <1>10, <1>11
  <2>2. 1 .. 0 = {}
    OBVIOUS
  <2>3. BothShares(kw, K, S, 0) /\ InTurn(kw, K, S, 0)
    BY <2>1, <2>2 DEF BothShares, InTurn
  <2>4. Joined(kw, K, S, 0)
    BY <1>8, <1>11, <2>1, <2>2, <2>3 DEF Joined
  <2> QED
    BY <1>8, <1>15, <2>4
<1>17. ASSUME NEW k \in 0 .. n - 1, k \in T PROVE k + 1 \in T
  <2>1. k \in 0 .. n /\ k + 1 \in 0 .. n /\ k + 1 \in 1 .. n
    BY <1>8
  <2> DEFINE p == f[k]
             q == f[k + 1]
  <2>2. p \in Pools(D) /\ q = step[<<p, k + 1>>] /\ Joined(p, K, S, k)
    BY <1>15, <1>17, <2>1
  <2> HIDE DEF p, q
  <2>3. step[<<p, k + 1>>] = AddShare(p, sem[k + 1])
    BY <1>11, <2>1, <2>2 DEF AddNext
  <2>4. sem[k + 1] = [doc |-> S[k + 1], share |-> RankShare(k + 1)]
    BY <1>10, <2>1
  <2>5. \A i, j \in 1 .. Len(S) : S[i] = S[j] => i = j
    BY <1>9 DEF Once
  <2>6. Joined(AddShare(p, [doc |-> S[k + 1], share |-> RankShare(k + 1)]), K, S, k + 1)
    BY <1>5, <1>6, <2>2, <2>5, JoinedStays
  <2> QED
    BY <2>1, <2>2, <2>3, <2>4, <2>6 DEF q
<1>18. n \in T
  <2>1. \A k \in 0 .. n - 1 : k \in T => k + 1 \in T
    BY <1>17
  <2> HIDE DEF T
  <2>2. \A k \in 0 .. n : k \in T
    BY <1>8, <1>16, <2>1, UpTo
  <2> QED
    BY <1>8, <2>2
<1>19. Joined(last, K, S, n)
  BY <1>15, <1>18
<1> QED
  BY <1>4, <1>5, <1>6, <1>9, <1>13, <1>19 DEF D, K, S, last

(***************************************************************************)
(* In rank fusion over documents with ids of their own, what both lists    *)
(* prefer is in the pool before what they prefer it to.                    *)
(***************************************************************************)
LEMMA FuseRespectsBoth ==
  ASSUME RetrievalAssumption, RetrievalTypes, NEW docs \in Seq(Document), DistinctIds(docs),
         NEW depth \in Depths, NEW x, NEW y,
         Prefers(KeywordList(docs, depth.keyword), x, y),
         Prefers(SemanticList(docs, depth.semantic), x, y),
         y \in ToSet(Fuse(docs, "RRF", depth))
  PROVE  Prefers(Fuse(docs, "RRF", depth), x, y)
<1> DEFINE D == ToSet(docs)
           K == KeywordList(docs, depth.keyword)
           S == SemanticList(docs, depth.semantic)
           P == PoolOf(docs, "RRF", depth)
           R == ByScore(ShareIn(P), Len(P))
           o == InOrder(R, 1 .. Len(P))
           m == IF depth.fused <= Len(P) THEN depth.fused ELSE Len(P)
           t == Fuse(docs, "RRF", depth)
<1>1. /\ K \in Seq(D) /\ S \in Seq(D) /\ Once(K) /\ Once(S) /\ Joined(P, K, S, Len(S))
  BY PoolIsJoined
<1>2. /\ P \in Pools(D) /\ m \in 0 .. Len(P) /\ Ordered(o, R, 1 .. Len(P))
      /\ t = DocsAt(P, o, m)
  BY FuseIsOrdered
<1>3. Prefers(K, x, y) /\ Prefers(S, x, y) /\ y \in ToSet(t)
  OBVIOUS
<1> HIDE DEF D, K, S, P, o, m, t
<1>4. Ordered(o, ByScore(ShareIn(P), Len(P)), 1 .. Len(P)) /\ y \in ToSet(DocsAt(P, o, m))
  BY <1>2, <1>3
<1>5. Prefers(DocsAt(P, o, m), x, y)
  BY <1>1, <1>2, <1>3, <1>4, FirstsRespectBoth
<1> QED
  BY <1>2, <1>5 DEF t

------------------------------------------------------------------------------
(* Retrieval: a request *)

(* What is kept is typed, and the last answer was sound. *)
RetrievalInv == RetrievalTypes /\ RetrievalIsSound

(***************************************************************************)
(* A request leaves the documents it searched and the vectors it needed,   *)
(* and answers soundly.                                                    *)
(***************************************************************************)
LEMMA SearchIsSound ==
  ASSUME RetrievalAssumption, RetrievalInv, search_hybrid
  PROVE  RetrievalInv'
<1>0. RetrievalTypes
  BY DEF RetrievalInv
<1>1. PICK brought \in Corpora, strategy \in Strategies, depth \in Depths :
        LET docs == Documents(brought)
            pool == Fuse(docs, strategy, depth)
        IN  /\ corpus' = docs
            /\ embedded' = EmbedAll(IF docs = <<>> THEN embedded ELSE Embed(embedded, "query"), docs)
            /\ answer' = [brought |-> brought, strategy |-> strategy, depth |-> depth, pool |-> pool,
                          results |-> Rerank(pool, depth.reranked)]
            /\ UNCHANGED scoring
  BY DEF search_hybrid
<1> DEFINE docs == Documents(brought)
           pool == Fuse(docs, strategy, depth)
           first == IF docs = <<>> THEN embedded ELSE Embed(embedded, "query")
           results == Rerank(pool, depth.reranked)
<1>2. docs \in Seq(Document) /\ (brought # <<>> => docs = brought)
  <2>1. brought \in Seq(Document) /\ corpus \in Seq(Document)
    BY <1>0 DEF RetrievalAssumption, RetrievalTypes
  <2> QED
    BY <2>1 DEF Documents
<1>3. /\ corpus' = docs /\ embedded' = EmbedAll(first, docs) /\ scoring' = scoring
      /\ answer' = [brought |-> brought, strategy |-> strategy, depth |-> depth, pool |-> pool,
                    results |-> results]
  BY <1>1
<1>4. first \in Cache
  <2>1. embedded \in Cache /\ "query" \in Content
    BY <1>0 DEF RetrievalTypes, Content
  <2>2. Embed(embedded, "query") \in Cache
    BY <2>1, EmbedIsTyped
  <2> QED
    BY <2>1, <2>2
<1> HIDE DEF docs, first
<1>5. EmbedAll(first, docs) \in Cache
  BY <1>2, <1>4, EmbedAllIsTyped
<1>6. RetrievalTypes'
  <2>1. scoring' \in Scorings /\ corpus' \in Seq(Document)
    BY <1>0, <1>2, <1>3 DEF RetrievalTypes
  <2>2. embedded' \in Cache
    BY <1>3, <1>5
  <2> QED
    BY <2>1, <2>2 DEF RetrievalTypes, Cache, Content, Document
<1>7. DistinctIds(results) /\ ToSet(results) \subseteq ToSet(docs)
  BY <1>0, <1>2, ResultsAreOnce
<1> DEFINE K == KeywordList(docs, depth.keyword)
           S == SemanticList(docs, depth.semantic)
<1>8. ASSUME strategy = "RRF", DistinctIds(docs), NEW x, NEW y,
             Prefers(K, x, y), Prefers(S, x, y), y \in ToSet(pool)
      PROVE  Prefers(pool, x, y)
  BY <1>0, <1>2, <1>8, FuseRespectsBoth
<1>9. /\ KeywordList(corpus, answer.depth.keyword)' = K
      /\ SemanticList(corpus, answer.depth.semantic)' = S
  BY <1>3 DEF KeywordList, SemanticList, Scores
<1> HIDE DEF pool, results, K, S
<1>10. FusionRespectsBoth'
  <2> SUFFICES ASSUME answer'.strategy = "RRF", DistinctIds(corpus'), NEW x, NEW y,
                      Prefers(K, x, y), Prefers(S, x, y), y \in ToSet(answer'.pool)
               PROVE  Prefers(answer'.pool, x, y)
    BY <1>9 DEF FusionRespectsBoth
  <2>1. answer'.strategy = strategy /\ answer'.pool = pool /\ corpus' = docs
    BY <1>3
  <2> QED
    BY <1>8, <2>1
<1>11. ResultsAreOwnAndOnce'
  <2>1. answer'.results = results /\ answer'.brought = brought
    BY <1>3
  <2>2. DistinctIds(answer'.results)
    BY <1>7, <2>1
  <2>3. answer'.brought # <<>> => ToSet(answer'.results) \subseteq ToSet(answer'.brought)
    BY <1>2, <1>7, <2>1
  <2> QED
    BY <2>2, <2>3 DEF ResultsAreOwnAndOnce
<1>12. EmbeddingsAreBounded'
  BY <1>3, <1>5 DEF EmbeddingsAreBounded, Cache
<1> QED
  BY <1>6, <1>10, <1>11, <1>12 DEF RetrievalInv, RetrievalIsSound

(***************************************************************************)
(* A step of the retrieval is a request, or leaves it as it was.           *)
(***************************************************************************)
LEMMA RetrievalKeeps ==
  ASSUME RetrievalAssumption, RetrievalInv, [RetrievalNext]_retrievalVars
  PROVE  RetrievalInv'
<1>1. CASE search_hybrid
  BY <1>1, SearchIsSound
<1>2. CASE UNCHANGED retrievalVars
  <2>1. UNCHANGED <<scoring, corpus, embedded, answer>>
    BY <1>2 DEF retrievalVars
  <2>2. RetrievalTypes'
    BY <2>1 DEF RetrievalInv, RetrievalTypes, Cache, Content, Document
  <2>3. FusionRespectsBoth'
    <3>1. /\ KeywordList(corpus, answer.depth.keyword)' = KeywordList(corpus, answer.depth.keyword)
          /\ SemanticList(corpus, answer.depth.semantic)' = SemanticList(corpus, answer.depth.semantic)
      BY <2>1 DEF KeywordList, SemanticList, Scores
    <3> QED
      BY <2>1, <3>1 DEF RetrievalInv, RetrievalIsSound, FusionRespectsBoth
  <2>4. ResultsAreOwnAndOnce' /\ EmbeddingsAreBounded'
    BY <2>1 DEF RetrievalInv, RetrievalIsSound, ResultsAreOwnAndOnce, EmbeddingsAreBounded
  <2> QED
    BY <2>2, <2>3, <2>4 DEF RetrievalInv, RetrievalIsSound
<1> QED
  BY <1>1, <1>2 DEF RetrievalNext

------------------------------------------------------------------------------
(* All of them *)

FoundInv == ContextInv /\ RetrievalInv /\ RecallInv /\ IntakeInv

(***************************************************************************)
(* The parts begin as they should, whichever the behaviour is about.       *)
(***************************************************************************)
LEMMA ContextBegins ==
  ASSUME ContextAssumption, Init
  PROVE  ContextInv
<1>1. CASE part = "context"
  <2>1. wanted \in [task : Topic, list : Lists, limit : Limits, version : TaskVersions]
        /\ built = NoContext
    BY <1>1 DEF Init, ContextInit
  <2>2. wanted.list \in Lists
    BY <2>1
  <2> QED
    BY <2>1, <2>2 DEF ContextInv, ContextAssumption, Candidate
<1>2. CASE part # "context"
  <2>1. /\ built = NoContext
        /\ wanted = [task |-> "other", list |-> <<>>, limit |-> 0, version |-> NoVersion]
    BY <1>2 DEF Init
  <2> QED
    BY <2>1 DEF ContextInv
<1> QED
  BY <1>1, <1>2

LEMMA RetrievalBegins ==
  ASSUME RetrievalAssumption, Init
  PROVE  RetrievalInv
<1>1. scoring \in Scorings /\ corpus = <<>> /\ embedded = <<>> /\ answer = Unanswered
  BY DEF Init, RetrievalInit
<1>2. corpus \in Seq(Document) /\ embedded \in Cache
  BY <1>1 DEF RetrievalAssumption, Cache, IsInjective
<1> QED
  BY <1>1, <1>2 DEF RetrievalInv, RetrievalTypes, RetrievalIsSound, FusionRespectsBoth,
                    ResultsAreOwnAndOnce, EmbeddingsAreBounded, Cache

LEMMA RecallBegins ==
  ASSUME RecallAssumption, Init
  PROVE  RecallInv
<1>1. PICK c \in Collections : memories = [m \in DOMAIN c |-> remember(c[m])]
  BY DEF Init, RecallInit
<1>2. clock = 0 /\ changes = 0 /\ indexed = Memory /\ recalled = NoSearch
  BY DEF Init, RecallInit
<1>3. Memory = DOMAIN c /\ Memory \subseteq Nat /\ IsFiniteSet(Memory)
  BY <1>1 DEF Memory, RecallAssumption
<1>4. ASSUME NEW m \in Memory PROVE IsRecord(memories[m])
  <2>1. memories[m] = remember(c[m])
    BY <1>1, <1>3
  <2>2. /\ c[m].type \in DOMAIN halfLife
        /\ {c[m].semantic, c[m].keyword, c[m].importance} \subseteq 0 .. 100
    BY <1>3 DEF RecallAssumption
  <2> DEFINE fresh == CASE c[m].verification \in {"SUPERSEDED", "EXPIRED"} -> c[m].verification
                        [] c[m].verification = "DISPUTED" -> "CONTRADICTED"
                        [] OTHER -> "CURRENT"
  <2>3. memories[m] =
          [type |-> c[m].type, user |-> c[m].user, project |-> c[m].project, global |-> c[m].global,
           semantic |-> c[m].semantic, keyword |-> c[m].keyword, exact |-> c[m].exact,
           importance |-> c[m].importance, verification |-> c[m].verification, accesses |-> 0,
           freshness |-> fresh]
    BY <2>1 DEF remember
  <2> HIDE DEF fresh
  <2> QED
    BY <2>2, <2>3 DEF IsRecord
<1>5. RecallTypes
  BY <1>2, <1>3, <1>4 DEF RecallTypes
<1>6. Recalled = {}
  BY <1>2 DEF Recalled, NoSearch
<1> QED
  BY <1>2, <1>5, <1>6 DEF RecallInv, RecallIsSound, RecallIsBest, ContradictedIsNotRecalled

LEMMA IntakeBegins ==
  ASSUME Init
  PROVE  IntakeInv
<1>1. /\ understanding = NoRequest /\ route = NoRequest
      /\ registry \in {DOMAIN ToolTier} \union {(DOMAIN ToolTier) \ {t} : t \in DOMAIN ToolTier}
  BY DEF Init, IntakeInit
<1> QED
  BY <1>1 DEF IntakeInv

(***************************************************************************)
(* The invariants of the four parts hold together.                         *)
(***************************************************************************)
LEMMA FoundInvariant == Spec => []FoundInv
<1>1. Init => FoundInv
  BY ContextAssumption, RetrievalAssumption, RecallAssumption,
     ContextBegins, RetrievalBegins, RecallBegins, IntakeBegins DEF FoundInv
<1>2. FoundInv /\ [Next]_vars => FoundInv'
  BY RetrievalAssumption, RecallAssumption,
     PartsStep, ContextKeeps, RetrievalKeeps, RecallKeeps, IntakeKeeps DEF FoundInv
<1> QED
  BY <1>1, <1>2, PTL DEF Spec

(***************************************************************************)
(* A context that build_context calls sufficient covers what its task      *)
(* needs unless evidence was left out for want of room, and the order in   *)
(* which candidates are listed decides nothing unless two of them tie: for *)
(* any texts, budgets and tasks.                                           *)
(***************************************************************************)
THEOREM ContextSound == Spec => []ContextIsSound
<1>1. FoundInv => ContextIsSound
  BY ContextAssumption, ContextFollows DEF FoundInv
<1> QED
  BY <1>1, FoundInvariant, PTL

(***************************************************************************)
(* search_hybrid fuses what both lists prefer ahead of what they prefer it *)
(* to, returns no document twice, and none of another request to one that  *)
(* brought its own, and the cache of embeddings keeps its bound: for any   *)
(* documents, scores and depths.                                           *)
(***************************************************************************)
THEOREM RetrievalSound == Spec => []RetrievalIsSound
<1>1. FoundInv => RetrievalIsSound
  BY DEF FoundInv, RetrievalInv
<1> QED
  BY <1>1, FoundInvariant, PTL

(***************************************************************************)
(* A search of the memory returns the best, and leaves out none better     *)
(* unless others as similar crowd it out of the candidates; none of        *)
(* another user or project is returned to one that is named, and none      *)
(* whose freshness says that it was contradicted or superseded unless its  *)
(* importance was set beyond the range: for any memories and any patches   *)
(* of them, limits, users and projects.                                    *)
(***************************************************************************)
THEOREM RecallSound == Spec => []RecallIsSound
<1>1. FoundInv => RecallIsSound
  BY DEF FoundInv, RecallInv
<1> QED
  BY <1>1, FoundInvariant, PTL

(***************************************************************************)
(* More said never makes a request safer to the intake, and the router     *)
(* finds a registered tool within the tier granted if there is one, and    *)
(* never one beyond it: for any phrases, tools and capabilities.           *)
(***************************************************************************)
THEOREM IntakeSound == Spec => []IntakeIsSound
<1>1. FoundInv => IntakeIsSound
  BY IntakeAssumption, IntakeFollows DEF FoundInv
<1> QED
  BY <1>1, FoundInvariant, PTL

(***************************************************************************)
(* What is found for a request is sound, in all four parts.                *)
(***************************************************************************)
THEOREM WhatIsFoundIsSound == Spec => []FoundIsSound
BY ContextSound, RetrievalSound, RecallSound, IntakeSound, PTL DEF FoundIsSound
==============================================================================
