--------------------------- MODULE OperationsProofs ---------------------------
(***************************************************************************)
(* What surrounds the agent keeps its accounts: the invariants of the      *)
(* parts of MCOperations, for any number of proposals, credentials, cached *)
(* keys, tenants, hooks and sockets.  The parts share no variable; each    *)
(* has its own inductive invariant, which the steps of the others leave    *)
(* alone.                                                                  *)
(***************************************************************************)
EXTENDS MCOperations, FiniteSetTheorems, SequenceTheorems, WellFoundedInduction, TLAPS

(* Each step is a step of every part, or leaves it as it is. *)
LEMMA PartsStep ==
  ASSUME [Next]_vars
  PROVE  /\ [GPUNext]_gpuVars /\ [ImprovementNext]_improvementVars /\ [GatesNext]_gatesVars
         /\ [ConnectionsNext]_connectionsVars /\ [AccountsNext]_accountsVars
         /\ [StoresNext]_storesVars /\ [ClientNext]_clientVars
BY DEF Next, vars, restVars

(* Induction, by the least number that is not in a set. *)
LEMMA LeastNumber ==
  ASSUME NEW T, T \subseteq Nat, T # {}
  PROVE  \E x \in T : \A y \in T : x <= y
<1>1. \E x \in T : \A y \in T : ~(<<y, x>> \in OpToRel(<, Nat))
  BY WFMin, NatLessThanWellFounded, Zenon
<1>2. PICK x \in T : \A y \in T : ~(<<y, x>> \in OpToRel(<, Nat))
  BY <1>1
<1>3. \A y \in T : ~(y < x)
  BY <1>2, Zenon DEF OpToRel
<1> QED
  BY <1>3

LEMMA EveryNumber ==
  ASSUME NEW T, T \subseteq Nat, 0 \in T, \A n \in T : n + 1 \in T
  PROVE  \A n \in Nat : n \in T
<1> SUFFICES ASSUME Nat \ T # {} PROVE FALSE
  OBVIOUS
<1>1. PICK n \in Nat \ T : \A m \in Nat \ T : n <= m
  BY LeastNumber
<1>2. n - 1 \in Nat /\ n - 1 \notin Nat \ T /\ (n - 1) + 1 = n
  BY <1>1
<1> QED
  BY <1>1, <1>2

------------------------------------------------------------------------------
(* Memory of the devices *)

(* The sum of the amounts of a set of grants: MapThenSumSet, taken apart.  *)
Pick(s) == CHOOSE x \in s : TRUE

Sums(S) ==
  CHOOSE iter : iter = [s \in SUBSET S |-> IF s = {} THEN 0
                                           ELSE Pick(s).amount + iter[s \ {Pick(s)}]]

SumOf(S) == MapThenSumSet(LAMBDA h : h.amount, S)

IsSums(f, D) ==
  /\ f = [s \in D |-> f[s]]
  /\ \A s \in D : f[s] = IF s = {} THEN 0 ELSE Pick(s).amount + f[s \ {Pick(s)}]

LEMMA SumIsTheLast == ASSUME NEW S PROVE SumOf(S) = Sums(S)[S]
BY DEF SumOf, MapThenSumSet, MapThenFoldSet, Sums, Pick

LEMMA OneFewer ==
  ASSUME NEW s, IsFiniteSet(s), s # {}
  PROVE  /\ Pick(s) \in s /\ IsFiniteSet(s \ {Pick(s)})
         /\ Cardinality(s) \in Nat /\ Cardinality(s \ {Pick(s)}) \in Nat
         /\ Cardinality(s) = Cardinality(s \ {Pick(s)}) + 1
<1>1. Pick(s) \in s
  BY DEF Pick
<1>2. IsFiniteSet(s \ {Pick(s)}) /\ Cardinality(s \ {Pick(s)}) = Cardinality(s) - 1
  BY <1>1, FS_RemoveElement
<1>3. Cardinality(s) \in Nat /\ Cardinality(s \ {Pick(s)}) \in Nat
  BY <1>2, FS_CardinalityType
<1> QED
  BY <1>1, <1>2, <1>3

LEMMA SumsExist ==
  ASSUME NEW S, IsFiniteSet(S)
  PROVE  IsSums(Sums(S), SUBSET S)
<1> DEFINE D(n) == {s \in SUBSET S : Cardinality(s) <= n}
           T == {n \in Nat : \E f : IsSums(f, D(n))}
<1>1. \A s \in SUBSET S : IsFiniteSet(s) /\ Cardinality(s) \in Nat /\ Cardinality(s) <= Cardinality(S)
  BY FS_Subset, FS_CardinalityType
<1>2. 0 \in T
  <2> DEFINE f == [s \in D(0) |-> 0]
  <2>1. \A s \in D(0) : s = {}
    BY <1>1, FS_EmptySet
  <2>2. IsSums(f, D(0))
    BY <2>1 DEF IsSums
  <2> HIDE DEF f, D
  <2> QED
    BY <2>2
<1>3. ASSUME NEW n \in T PROVE n + 1 \in T
  <2>1. PICK f : IsSums(f, D(n))
    OBVIOUS
  <2> DEFINE g == [s \in D(n + 1) |-> IF s = {} THEN 0 ELSE Pick(s).amount + f[s \ {Pick(s)}]]
  <2>2. D(n) \subseteq D(n + 1)
    BY <1>1
  <2>3. \A s \in D(n) : g[s] = f[s]
    BY <2>1, <2>2 DEF IsSums
  <2>4. ASSUME NEW s \in D(n + 1), s # {} PROVE s \ {Pick(s)} \in D(n)
    BY <1>1, <2>4, OneFewer
  <2>5. \A s \in D(n + 1) : g[s] = IF s = {} THEN 0 ELSE Pick(s).amount + g[s \ {Pick(s)}]
    BY <2>3, <2>4
  <2>6. IsSums(g, D(n + 1))
    BY <2>5 DEF IsSums
  <2>7. n \in Nat /\ n + 1 \in Nat
    OBVIOUS
  <2> HIDE DEF g, D
  <2> QED
    BY <2>6, <2>7
<1>4. Cardinality(S) \in T
  <2> HIDE DEF T
  <2>1. T \subseteq Nat
    BY DEF T
  <2> QED
    BY <1>1, <1>2, <1>3, <2>1, EveryNumber, FS_CardinalityType
<1>5. PICK f : IsSums(f, D(Cardinality(S)))
  BY <1>4
<1>6. D(Cardinality(S)) = SUBSET S
  BY <1>1
<1>7. f = [s \in SUBSET S |-> IF s = {} THEN 0 ELSE Pick(s).amount + f[s \ {Pick(s)}]]
  BY <1>5, <1>6 DEF IsSums
<1> HIDE DEF D, T
<1> DEFINE Is(i) == i = [s \in SUBSET S |-> IF s = {} THEN 0 ELSE Pick(s).amount + i[s \ {Pick(s)}]]
<1>8. Is(f) /\ Sums(S) = CHOOSE i : Is(i)
  BY <1>7 DEF Sums
<1>9. Is(Sums(S))
  <2> HIDE DEF Is
  <2> QED
    BY <1>8
<1> QED
  BY <1>9 DEF IsSums

(* What a set sums to does not depend on the set it is a part of. *)
LEMMA SumsAgree ==
  ASSUME NEW S, IsFiniteSet(S)
  PROVE  \A s \in SUBSET S : Sums(S)[s] = SumOf(s)
<1> DEFINE T == {n \in Nat : \A s \in SUBSET S :
                    Cardinality(s) = n => \A R \in SUBSET S : s \subseteq R => Sums(R)[s] = SumOf(s)}
<1>1. \A s \in SUBSET S : IsFiniteSet(s) /\ Cardinality(s) \in Nat
  BY FS_Subset, FS_CardinalityType
<1>2. ASSUME NEW s \in SUBSET S, NEW R \in SUBSET S, s \subseteq R
      PROVE  Sums(R)[s] = IF s = {} THEN 0 ELSE Pick(s).amount + Sums(R)[s \ {Pick(s)}]
  BY <1>1, <1>2, SumsExist DEF IsSums
<1>3. ASSUME NEW s \in SUBSET S
      PROVE  SumOf(s) = IF s = {} THEN 0 ELSE Pick(s).amount + Sums(s)[s \ {Pick(s)}]
  BY <1>2, SumIsTheLast
<1>4. 0 \in T
  <2>1. \A s \in SUBSET S : Cardinality(s) = 0 => s = {}
    BY <1>1, FS_EmptySet
  <2> QED
    BY <1>2, <1>3, <2>1
<1>5. ASSUME NEW n \in T PROVE n + 1 \in T
  <2> SUFFICES ASSUME NEW s \in SUBSET S, Cardinality(s) = n + 1, NEW R \in SUBSET S, s \subseteq R
               PROVE  Sums(R)[s] = SumOf(s)
    OBVIOUS
  <2> DEFINE u == s \ {Pick(s)}
  <2>1. s # {}
    BY FS_EmptySet
  <2>2. u \in SUBSET S /\ Cardinality(u) = n /\ u \subseteq R /\ u \subseteq s
    BY <1>1, <2>1, OneFewer
  <2>3. Sums(R)[u] = SumOf(u) /\ Sums(s)[u] = SumOf(u)
    BY <2>2
  <2>4. Sums(R)[s] = Pick(s).amount + Sums(R)[u] /\ SumOf(s) = Pick(s).amount + Sums(s)[u]
    BY <1>2, <1>3, <2>1
  <2> QED
    BY <2>3, <2>4
<1> HIDE DEF T
<1>6. T \subseteq Nat
  BY DEF T
<1>7. \A n \in Nat : n \in T
  BY <1>4, <1>5, <1>6, EveryNumber
<1>8. ASSUME NEW s \in SUBSET S PROVE Sums(S)[s] = SumOf(s)
  <2>1. Cardinality(s) \in T
    BY <1>1, <1>7
  <2> QED
    BY <2>1 DEF T
<1> QED
  BY <1>8

LEMMA SumWithoutPick ==
  ASSUME NEW S, IsFiniteSet(S)
  PROVE  SumOf(S) = IF S = {} THEN 0 ELSE Pick(S).amount + SumOf(S \ {Pick(S)})
<1>1. SumOf(S) = IF S = {} THEN 0 ELSE Pick(S).amount + Sums(S)[S \ {Pick(S)}]
  BY SumsExist, SumIsTheLast DEF IsSums
<1>2. Sums(S)[S \ {Pick(S)}] = SumOf(S \ {Pick(S)})
  BY SumsAgree
<1> QED
  BY <1>1, <1>2

(* Any element may be taken out first. *)
LEMMA SumWithout ==
  ASSUME NEW S, IsFiniteSet(S), \A h \in S : h.amount \in Nat
  PROVE  /\ SumOf(S) \in Nat /\ (S = {} => SumOf(S) = 0)
         /\ \A x \in S : SumOf(S) = x.amount + SumOf(S \ {x})
<1> DEFINE Takes(s) == SumOf(s) \in Nat /\ \A x \in s : SumOf(s) = x.amount + SumOf(s \ {x})
           T == {n \in Nat : \A s \in SUBSET S : Cardinality(s) <= n => Takes(s)}
<1>1. \A s \in SUBSET S : IsFiniteSet(s) /\ Cardinality(s) \in Nat
  BY FS_Subset, FS_CardinalityType
<1>2. \A s \in SUBSET S : SumOf(s) = IF s = {} THEN 0 ELSE Pick(s).amount + SumOf(s \ {Pick(s)})
  BY <1>1, SumWithoutPick
<1>3. SumOf({}) = 0
  BY <1>2
<1>4. 0 \in T
  <2>1. \A s \in SUBSET S : Cardinality(s) <= 0 => s = {}
    BY <1>1, FS_EmptySet
  <2>2. Takes({})
    BY <1>3
  <2> HIDE DEF Takes
  <2> QED
    BY <2>1, <2>2
<1>5. ASSUME NEW n \in T PROVE n + 1 \in T
  <2> SUFFICES ASSUME NEW s \in SUBSET S, Cardinality(s) <= n + 1 PROVE Takes(s)
    OBVIOUS
  <2> DEFINE p == Pick(s)
  <2>1. CASE s = {}
    BY <1>3, <2>1
  <2>2. CASE s # {}
    <3>1. p \in s
      BY <1>1, <2>2, OneFewer
    <3>2. \A x \in s, u \in SUBSET S : u \subseteq s \ {x} => Takes(u)
      <4> SUFFICES ASSUME NEW x \in s, NEW u \in SUBSET S, u \subseteq s \ {x} PROVE Takes(u)
        OBVIOUS
      <4>1. IsFiniteSet(s \ {x}) /\ Cardinality(s \ {x}) = Cardinality(s) - 1
        BY <1>1, FS_RemoveElement
      <4>2. Cardinality(u) <= Cardinality(s \ {x})
        BY <4>1, FS_Subset
      <4>3. Cardinality(u) <= n
        BY <1>1, <4>1, <4>2
      <4> QED
        BY <4>3
    <3>3. SumOf(s) = p.amount + SumOf(s \ {p}) /\ p.amount \in Nat /\ SumOf(s \ {p}) \in Nat
      BY <1>2, <2>2, <3>1, <3>2
    <3>4. ASSUME NEW x \in s, x # p PROVE SumOf(s) = x.amount + SumOf(s \ {x})
      <4> DEFINE r == SumOf(s \ {p, x})
      <4>1. x \in s \ {p} /\ p \in s \ {x}
            /\ (s \ {p}) \ {x} = s \ {p, x} /\ (s \ {x}) \ {p} = s \ {p, x}
        BY <3>1, <3>4
      <4>2. Takes(s \ {p}) /\ Takes(s \ {x}) /\ Takes(s \ {p, x})
        BY <3>1, <3>2
      <4>3. SumOf(s \ {p}) = x.amount + r /\ SumOf(s \ {x}) = p.amount + r
        BY <4>1, <4>2
      <4>4. x.amount \in Nat /\ r \in Nat
        BY <4>2
      <4> QED
        BY <3>3, <4>3, <4>4
    <3>5. SumOf(s) \in Nat
      BY <3>1, <3>3
    <3> QED
      BY <3>3, <3>4, <3>5
  <2> QED
    BY <2>1, <2>2
<1> HIDE DEF T
<1>6. T \subseteq Nat
  BY DEF T
<1>7. Cardinality(S) \in T
  BY <1>1, <1>4, <1>5, <1>6, EveryNumber
<1>8. Takes(S)
  BY <1>1, <1>7 DEF T
<1> QED
  BY <1>3, <1>8

DevicesInv ==
  /\ allocated \in [Device -> Nat] /\ exclusive \in [Device -> GPUTask \union {NoTask}]
  /\ held \subseteq Grant /\ IsFiniteSet(held)
  /\ DeviceMemoryIsAccounted

LEMMA HeldIsASum == \A d : HeldOn(d) = SumOf(On(d)) /\ (HeldOn(d))' = SumOf((On(d))')
<1>1. \A d : HeldOn(d) = SumOf(On(d))
  BY DEF HeldOn, SumOf, MapThenSumSet, MapThenFoldSet
<1>2. \A d : (HeldOn(d))' = SumOf((On(d))')
  BY DEF HeldOn, SumOf, MapThenSumSet, MapThenFoldSet
<1> QED
  BY <1>1, <1>2

LEMMA AmountsAreNumbers == Total \in Nat /\ Amounts \subseteq Nat /\ NoTask \notin GPUTask
BY GPUAssumption

LEMMA SumOfMore ==
  ASSUME NEW S, IsFiniteSet(S), \A h \in S : h.amount \in Nat, NEW g, g.amount \in Nat, g \notin S
  PROVE  SumOf(S \union {g}) = g.amount + SumOf(S)
<1>1. IsFiniteSet(S \union {g}) /\ (S \union {g}) \ {g} = S
  BY FS_AddElement
<1> QED
  BY <1>1, SumWithout

LEMMA AllocatingIsAccounted ==
  ASSUME DevicesInv, NEW t \in GPUTask, NEW amount \in Amounts, NEW whole \in BOOLEAN,
         allocate_gpu(t, amount, whole)
  PROVE  DevicesInv'
<1> DEFINE d == Min(Suits(amount, whole))
           n == IF whole THEN Total ELSE amount
           g == [task |-> t, device |-> d, amount |-> n]
<1>1. d \in Suits(amount, whole)
  <2>1. Suits(amount, whole) # {} /\ Suits(amount, whole) \subseteq Nat
    BY GPUAssumption DEF allocate_gpu, Suits
  <2>2. \E x \in Suits(amount, whole) : \A y \in Suits(amount, whole) : x <= y
    BY <2>1, LeastNumber
  <2> QED
    BY <2>2 DEF Min
<1>2. d \in Device /\ Fits(d, amount, whole)
  BY <1>1 DEF Suits
<1>3. /\ held' = held \union {g} /\ muddled' = muddled
      /\ allocated' = [allocated EXCEPT ![d] = allocated[d] + n]
      /\ exclusive' = IF whole THEN [exclusive EXCEPT ![d] = t] ELSE exclusive
  <2>1. allocated[d] \in Nat /\ Total \in Nat /\ 0 + Total = Total
    BY <1>2, AmountsAreNumbers DEF DevicesInv
  <2>2. whole => allocated[d] = 0
    BY <1>2 DEF Fits, Idle
  <2> QED
    BY <2>1, <2>2 DEF allocate_gpu
<1>4. n \in Nat /\ n \in Amounts \union {Total} /\ g \in Grant /\ g \notin held
  <2>1. \A h \in held : h.task # t
    BY DEF allocate_gpu
  <2>2. n \in Nat /\ n \in Amounts \union {Total}
    BY AmountsAreNumbers
  <2> HIDE DEF d, n
  <2> QED
    BY <1>2, <2>1, <2>2 DEF Grant
<1>5. allocated[d] + n <= Total
  BY <1>2, AmountsAreNumbers DEF Fits, Idle, DevicesInv
<1> HIDE DEF d, n
<1>6. /\ allocated' \in [Device -> Nat] /\ exclusive' \in [Device -> GPUTask \union {NoTask}]
      /\ held' \subseteq Grant /\ IsFiniteSet(held')
  <2>1. IsFiniteSet(held') /\ held' \subseteq Grant
    BY <1>3, <1>4, FS_AddElement DEF DevicesInv
  <2>2. allocated[d] \in Nat /\ allocated[d] + n \in Nat
    BY <1>2, <1>4 DEF DevicesInv
  <2>3. allocated' \in [Device -> Nat]
    BY <1>3, <2>2 DEF DevicesInv
  <2>4. exclusive' \in [Device -> GPUTask \union {NoTask}]
    BY <1>3 DEF DevicesInv
  <2> QED
    BY <2>1, <2>3, <2>4
<1>7. ASSUME NEW e \in Device \ muddled
      PROVE  allocated'[e] = (HeldOn(e))' /\ (HeldOn(e))' <= Total
  <2>1. allocated[e] = SumOf(On(e)) /\ SumOf(On(e)) <= Total
    BY HeldIsASum DEF DevicesInv, DeviceMemoryIsAccounted
  <2>2. CASE e # d
    <3>1. (On(e))' = On(e)
      BY <1>3, <2>2 DEF On
    <3>2. allocated'[e] = allocated[e]
      BY <1>3, <2>2 DEF DevicesInv
    <3> QED
      BY <2>1, <3>1, <3>2, HeldIsASum
  <2>3. CASE e = d
    <3>1. (On(e))' = On(e) \union {g} /\ g \notin On(e)
      BY <1>3, <1>4, <2>3 DEF On
    <3>2. IsFiniteSet(On(e)) /\ \A h \in On(e) : h.amount \in Nat
      BY FS_Subset, AmountsAreNumbers DEF DevicesInv, On, Grant
    <3>3. SumOf((On(e))') = n + SumOf(On(e))
      BY <1>4, <3>1, <3>2, SumOfMore
    <3>4. allocated'[e] = allocated[e] + n /\ allocated[e] \in Nat
      BY <1>2, <1>3, <2>3 DEF DevicesInv
    <3>5. (HeldOn(e))' = allocated'[e] /\ allocated'[e] <= Total
      BY <1>4, <1>5, <2>1, <2>3, <3>3, <3>4, HeldIsASum
    <3> QED
      BY <3>5
  <2> QED
    BY <2>2, <2>3
<1> QED
  BY <1>3, <1>6, <1>7 DEF DevicesInv, DeviceMemoryIsAccounted

LEMMA ReleasingIsAccounted ==
  ASSUME DevicesInv, NEW h \in held, NEW id \in {h.task, NoTask}, release_gpu(h, id)
  PROVE  DevicesInv'
<1> DEFINE d == h.device
           reset == exclusive[d] = id \/ exclusive[d] # NoTask
           rest == IF reset THEN 0 ELSE Max({0, allocated[d] - h.amount})
<1>1. /\ held' = held \ {h}
      /\ exclusive' = IF reset THEN [exclusive EXCEPT ![d] = NoTask] ELSE exclusive
      /\ allocated' = [allocated EXCEPT ![d] = rest]
      /\ muddled' = IF reset /\ On(d) # {h} THEN muddled \union {d} ELSE muddled
  BY DEF release_gpu
<1>2. d \in Device /\ h.amount \in Nat /\ allocated[d] \in Nat
  BY AmountsAreNumbers DEF DevicesInv, Grant
<1>3. \A a \in Nat, b \in Nat : /\ Max({0, a - b}) \in Nat
                                /\ \A c \in Nat : a = b + c => Max({0, a - b}) = c
  BY DEF Max
<1>4. rest \in Nat
  BY <1>2, <1>3
<1>5. ASSUME NEW e \in Device \ muddled'
      PROVE  allocated'[e] = (HeldOn(e))' /\ (HeldOn(e))' <= Total
  <2>1. allocated[e] = SumOf(On(e)) /\ SumOf(On(e)) <= Total
    BY <1>1, <1>5, HeldIsASum DEF DevicesInv, DeviceMemoryIsAccounted
  <2>2. CASE e # d
    <3>1. (On(e))' = On(e)
      BY <1>1, <2>2 DEF On
    <3>2. allocated'[e] = allocated[e]
      BY <1>1, <2>2 DEF DevicesInv
    <3> QED
      BY <2>1, <3>1, <3>2, HeldIsASum
  <2>3. CASE e = d
    <3>1. (On(e))' = On(e) \ {h} /\ h \in On(e)
      BY <1>1, <2>3 DEF On
    <3>2. IsFiniteSet(On(e)) /\ \A x \in On(e) : x.amount \in Nat
      BY FS_Subset, AmountsAreNumbers DEF DevicesInv, On, Grant
    <3>3. IsFiniteSet(On(e) \ {h}) /\ \A x \in On(e) \ {h} : x.amount \in Nat
      BY <3>2, FS_RemoveElement
    <3>4. SumOf(On(e)) = h.amount + SumOf(On(e) \ {h}) /\ SumOf(On(e) \ {h}) \in Nat
      BY <3>1, <3>2, <3>3, SumWithout
    <3>5. allocated'[e] = rest
      BY <1>1, <1>2, <2>3 DEF DevicesInv
    <3>6. CASE reset
      <4>1. On(e) \ {h} = {}
        BY <1>1, <2>3, <3>6
      <4>2. SumOf(On(e) \ {h}) = 0
        BY <3>3, <4>1, SumWithout
      <4>3. rest = 0
        BY <3>6
      <4> HIDE DEF rest
      <4>4. allocated'[e] = 0 /\ (HeldOn(e))' = 0
        BY <3>1, <3>5, <4>2, <4>3, HeldIsASum
      <4> QED
        BY <4>4, AmountsAreNumbers
    <3>7. CASE ~reset
      <4>0. rest = Max({0, allocated[d] - h.amount})
        BY <3>7
      <4>1. rest = SumOf(On(e) \ {h})
        <5> DEFINE c == SumOf(On(e) \ {h})
        <5>1. allocated[d] = h.amount + c /\ c \in Nat
          BY <2>1, <2>3, <3>4
        <5> HIDE DEF c, d
        <5>2. Max({0, allocated[d] - h.amount}) = c
          BY <1>2, <1>3, <5>1
        <5> QED
          BY <4>0, <5>2 DEF c
      <4>2. SumOf(On(e) \ {h}) <= Total
        BY <1>2, <2>1, <3>4, AmountsAreNumbers
      <4> HIDE DEF rest
      <4> QED
        BY <3>1, <3>5, <4>1, <4>2, HeldIsASum
    <3> QED
      BY <3>6, <3>7
  <2> QED
    BY <2>2, <2>3
<1> HIDE DEF rest
<1>6. /\ allocated' \in [Device -> Nat] /\ exclusive' \in [Device -> GPUTask \union {NoTask}]
      /\ held' \subseteq Grant /\ IsFiniteSet(held')
  <2>1. IsFiniteSet(held') /\ held' \subseteq Grant
    BY <1>1, FS_RemoveElement DEF DevicesInv
  <2> QED
    BY <1>1, <1>4, <2>1 DEF DevicesInv
<1> QED
  BY <1>5, <1>6 DEF DevicesInv, DeviceMemoryIsAccounted

LEMMA DevicesKeepInv == DevicesInv /\ [GPUNext]_gpuVars => DevicesInv'
<1> SUFFICES ASSUME DevicesInv, [GPUNext]_gpuVars PROVE DevicesInv'
  OBVIOUS
<1>1. CASE UNCHANGED gpuVars
  <2>1. \A d : (On(d))' = On(d)
    BY <1>1 DEF gpuVars, On
  <2>2. \A d : (HeldOn(d))' = HeldOn(d)
    BY <2>1, HeldIsASum
  <2> QED
    BY <1>1, <2>2 DEF gpuVars, DevicesInv, DeviceMemoryIsAccounted
<1>2. CASE GPUNext
  BY <1>2, AllocatingIsAccounted, ReleasingIsAccounted DEF GPUNext, Release
<1> QED
  BY <1>1, <1>2

LEMMA DevicesStart == GPUInit => DevicesInv
<1> SUFFICES ASSUME GPUInit PROVE DevicesInv
  OBVIOUS
<1>1. \A d : On(d) = {}
  BY DEF GPUInit, On
<1>2. IsFiniteSet({}) /\ SumOf({}) = 0
  BY FS_EmptySet, SumWithout
<1>3. \A d \in Device : allocated[d] = HeldOn(d) /\ HeldOn(d) <= Total
  BY <1>1, <1>2, AmountsAreNumbers, HeldIsASum DEF GPUInit
<1> QED
  BY <1>2, <1>3 DEF GPUInit, DevicesInv, DeviceMemoryIsAccounted

------------------------------------------------------------------------------
(* Budgets and the pool of workers *)

Accounted == DOMAIN ChargeOrder

AccountsInv ==
  /\ spend \in [Accounted -> Nat \union {-1}] /\ owed \in [Accounted -> Nat] /\ passedOver \subseteq Accounted
  /\ workers \in Nat /\ BudgetsAreCharged /\ PoolWithinSize

(* The first budget an expense puts over its limit is charged, and stops it. *)
LEMMA TheFirstStops ==
  ASSUME NEW n \in Nat, NEW i \in Budgeted \ Charged(n)
  PROVE  \E j \in Over(n) \intersect Charged(n) : j < i
<1>1. Over(n) \subseteq Budgeted /\ Budgeted \subseteq Nat
  BY DEF Over, Budgeted, ChargeOrder
<1>2. PICK k \in Over(n) : ~(i <= k)
  BY DEF Charged
<1>3. PICK j \in Over(n) : \A m \in Over(n) : j <= m
  BY <1>1, <1>2, LeastNumber
<1>4. j \in Charged(n)
  BY <1>1, <1>3 DEF Charged
<1>5. j \in Nat /\ k \in Nat /\ i \in Nat /\ j <= k
  BY <1>1, <1>2, <1>3
<1> QED
  BY <1>2, <1>3, <1>4, <1>5

LEMMA ChargingKeepsBudgets ==
  ASSUME AccountsInv, NEW n \in Nat, record_expense(n)
  PROVE  AccountsInv'
<1>1. ASSUME NEW i \in Accounted
      PROVE  /\ spend'[i] = IF i \in Charged(n) THEN spend[i] + n ELSE spend[i]
             /\ owed'[i] = IF i \in Budgeted THEN owed[i] + n ELSE owed[i]
             /\ i \in passedOver' <=> i \in passedOver \/ (i \in Budgeted \ Charged(n) /\ n > 0)
             /\ spend[i] \in Nat \union {-1} /\ owed[i] \in Nat
  BY DEF record_expense, Accounted, AccountsInv
<1>2. \A i \in Accounted : i \in Budgeted <=> spend[i] # -1
  BY DEF Budgeted, Accounted
<1>3. \A i \in Accounted : i \in Budgeted' <=> spend'[i] # -1
  BY DEF Budgeted, Accounted
<1>4. Charged(n) \subseteq Budgeted
  BY DEF Charged
<1>5. /\ spend' \in [Accounted -> Nat \union {-1}] /\ owed' \in [Accounted -> Nat]
      /\ passedOver' \subseteq Accounted
  <2>1. \A i \in Accounted : spend'[i] \in Nat \union {-1} /\ owed'[i] \in Nat
    BY <1>1, <1>2, <1>4
  <2>2. spend' = [i \in Accounted |-> spend'[i]] /\ owed' = [i \in Accounted |-> owed'[i]]
    BY DEF record_expense, Accounted
  <2>3. passedOver' \subseteq Accounted
    BY DEF record_expense, Accounted, AccountsInv, Budgeted
  <2> QED
    BY <2>1, <2>2, <2>3
<1>6. ASSUME NEW i \in Accounted, spend'[i] # -1
      PROVE  /\ i \notin passedOver' => spend'[i] = owed'[i]
             /\ i \in passedOver' => spend'[i] < owed'[i] /\ \E j \in stopped' : j < i
  <2>1. i \in Budgeted /\ spend[i] \in Nat
    BY <1>1, <1>2, <1>4, <1>6
  <2>2. /\ i \notin passedOver => spend[i] = owed[i]
        /\ i \in passedOver => spend[i] < owed[i] /\ \E j \in stopped : j < i
    BY <2>1 DEF AccountsInv, BudgetsAreCharged
  <2>3. stopped' = stopped \union (Over(n) \intersect Charged(n))
    BY DEF record_expense
  <2>4. CASE i \in Charged(n)
    BY <1>1, <2>1, <2>2, <2>3, <2>4
  <2>5. CASE i \notin Charged(n)
    <3>1. \E j \in stopped' : j < i
      BY <2>1, <2>3, <2>5, TheFirstStops
    <3>2. owed'[i] = owed[i] + n /\ spend'[i] = spend[i] /\ owed[i] \in Nat
      BY <1>1, <2>1, <2>5
    <3>3. i \in passedOver' <=> i \in passedOver \/ n > 0
      BY <1>1, <2>1, <2>5
    <3>4. CASE n = 0
      BY <2>1, <2>2, <3>1, <3>2, <3>3, <3>4
    <3>5. CASE n > 0
      BY <2>1, <2>2, <3>1, <3>2, <3>3, <3>5
    <3> QED
      BY <3>4, <3>5
  <2> QED
    BY <2>4, <2>5
<1>7. BudgetsAreCharged'
  <2>1. Budgeted' \subseteq Accounted
    BY DEF Budgeted, Accounted
  <2> QED
    BY <1>3, <1>6, <2>1 DEF BudgetsAreCharged
<1>8. workers' = workers
  BY DEF record_expense, poolVars
<1> QED
  BY <1>5, <1>7, <1>8 DEF AccountsInv, PoolWithinSize

LEMMA ScalingKeepsPool ==
  ASSUME NEW depth \in Depths, NEW flag \in BOOLEAN, workers \in Nat, PoolWithinSize,
         ScaleUp(depth, flag) \/ ScaleDown(depth, flag)
  PROVE  workers' \in Nat /\ PoolWithinSize'
<1>1. min_workers \in Nat /\ max_workers \in Nat /\ min_workers <= max_workers
  BY AccountsAssumption
<1>2. CASE ScaleDown(depth, flag)
  <2>1. workers' = Max({min_workers, workers - 1}) /\ workers > min_workers
    BY <1>2 DEF ScaleDown, Scales
  <2>2. \A a \in Nat, b \in Nat : a >= b => Max({b, a}) = a
    BY DEF Max
  <2>3. workers - 1 \in Nat /\ workers - 1 >= min_workers
    BY <1>1, <2>1
  <2>4. workers' = workers - 1
    BY <1>1, <2>1, <2>2, <2>3
  <2> QED
    BY <1>1, <2>3, <2>4 DEF PoolWithinSize
<1>3. CASE ScaleUp(depth, flag)
  <2>1. workers' = Target(depth) /\ Target(depth) > workers
    BY <1>3 DEF ScaleUp, Scales
  <2>2. depth \div tasks_per_worker \in Nat
    BY AccountsAssumption
  <2> DEFINE wanted == (depth \div tasks_per_worker) + 1
  <2>3. wanted \in Nat
    BY <2>2
  <2> HIDE DEF wanted
  <2>4. \A a \in Nat, b \in Nat : Max({a, b}) \in Nat
    BY DEF Max
  <2>5. Max({workers + 2, wanted}) \in Nat
    BY <2>3, <2>4
  <2>6. \A a \in Nat, b \in Nat : Min({a, b}) \in Nat /\ Min({a, b}) <= a
    BY DEF Min
  <2>7. Target(depth) \in Nat /\ Target(depth) <= max_workers
    BY <1>1, <2>5, <2>6 DEF Target, wanted
  <2> QED
    BY <1>1, <2>1, <2>7 DEF PoolWithinSize
<1> QED
  BY <1>2, <1>3

LEMMA AccountsKeepInv == AccountsInv /\ [AccountsNext]_accountsVars => AccountsInv'
<1> SUFFICES ASSUME AccountsInv, [AccountsNext]_accountsVars PROVE AccountsInv'
  OBVIOUS
<1>1. ASSUME UNCHANGED <<budgetVars, workers>> PROVE AccountsInv'
  BY <1>1 DEF budgetVars, AccountsInv, BudgetsAreCharged, Budgeted, PoolWithinSize
<1>2. CASE initialize_task \/ (\E k \in Kind, n \in Uses : record_usage(k, n)) \/ Cools
           \/ UNCHANGED accountsVars
  BY <1>1, <1>2 DEF initialize_task, record_usage, Cools, accountsVars, poolVars
<1>3. ASSUME NEW i \in Accounted, set_budget(i) PROVE AccountsInv'
  <2>1. /\ spend' = [spend EXCEPT ![i] = 0] /\ owed' = [owed EXCEPT ![i] = 0]
        /\ passedOver' = passedOver \ {i} /\ stopped' = stopped /\ workers' = workers
    BY <1>3 DEF set_budget, poolVars
  <2>2. /\ spend' \in [Accounted -> Nat \union {-1}] /\ owed' \in [Accounted -> Nat]
        /\ passedOver' \subseteq Accounted /\ spend'[i] = 0 /\ owed'[i] = 0
        /\ \A j \in Accounted \ {i} : spend'[j] = spend[j] /\ owed'[j] = owed[j]
    BY <2>1 DEF AccountsInv
  <2>3. BudgetsAreCharged'
    BY <2>1, <2>2 DEF BudgetsAreCharged, Budgeted, AccountsInv, Accounted
  <2> QED
    BY <2>1, <2>2, <2>3 DEF AccountsInv, PoolWithinSize
<1>4. ASSUME NEW n \in Costs, record_expense(n) PROVE AccountsInv'
  BY <1>4, ChargingKeepsBudgets, AccountsAssumption
<1>5. ASSUME NEW depth \in Depths, NEW flag \in BOOLEAN,
             ScaleUp(depth, flag) \/ ScaleDown(depth, flag)
      PROVE  AccountsInv'
  <2>1. workers' \in Nat /\ PoolWithinSize'
    BY <1>5, ScalingKeepsPool DEF AccountsInv
  <2>2. UNCHANGED budgetVars
    BY <1>5 DEF ScaleUp, ScaleDown, Scales
  <2> QED
    BY <2>1, <2>2 DEF budgetVars, AccountsInv, BudgetsAreCharged, Budgeted
<1> QED
  BY <1>2, <1>3, <1>4, <1>5 DEF AccountsNext, Accounted

LEMMA AccountsStart == AccountsInit => AccountsInv
BY AccountsAssumption
   DEF AccountsInit, AccountsInv, Accounted, BudgetsAreCharged, Budgeted, PoolWithinSize

(* What is held on a device, spent and scaled is accounted for: the total   *)
(* of each device is what its tasks hold, unless it was reset under one of  *)
(* them (gpu_scheduler.py); a budget misses only what an earlier one over   *)
(* its limit kept from it (cost_governance.py); and the pool stays within   *)
(* its size (autoscaler.py).                                                *)
THEOREM ResourcesStayAccounted == Spec => []ResourcesAreAccounted
<1> DEFINE Inv == DevicesInv /\ AccountsInv
<1>1. Init => Inv
  BY DevicesStart, AccountsStart DEF Init
<1>2. Inv /\ [Next]_vars => Inv'
  BY PartsStep, DevicesKeepInv, AccountsKeepInv
<1>3. Inv => ResourcesAreAccounted
  BY DEF DevicesInv, AccountsInv, ResourcesAreAccounted
<1> QED
  BY <1>1, <1>2, <1>3, PTL DEF Spec

------------------------------------------------------------------------------
(* Proposals, deployments and deliveries *)

(* A validation that runs is of a proposal the safety scan let pass. *)
ImprovementInv ==
  /\ DOMAIN proposal_status = Proposal /\ DOMAIN report = Proposal /\ DOMAIN judged = Proposal
  /\ DOMAIN phase = Validation /\ DOMAIN subject = Validation
  /\ \A v \in Validation :
       phase[v] \in {"benchmarks", "regression"} => subject[v] \in Proposal \ Dangerous
  /\ PromotionIsEarned

LEMMA ImprovementKeepsInv == ImprovementInv /\ [ImprovementNext]_improvementVars => ImprovementInv'
<1> SUFFICES ASSUME ImprovementInv, [ImprovementNext]_improvementVars PROVE ImprovementInv'
  OBVIOUS
<1> USE DEF ImprovementInv, PromotionIsEarned, Judged
<1>1. ASSUME NEW v \in Validation, NEW p \in Proposal, validate_proposal(v, p) PROVE ImprovementInv'
  <2>1. CASE p \in Dangerous
    BY <1>1, <2>1 DEF validate_proposal, Concludes
  <2>2. CASE p \notin Dangerous
    BY <1>1, <2>2 DEF validate_proposal
  <2> QED
    BY <2>1, <2>2
<1>2. ASSUME NEW v \in Validation, RunOne(v) PROVE ImprovementInv'
  BY <1>2 DEF RunOne
<1>3. ASSUME NEW v \in Validation, NEW p \in Proposal \ Dangerous,
             Rejects(v, p) \/ Concludes(v, p, "APPROVED_CANDIDATE", "passed"), UNCHANGED subject
      PROVE  ImprovementInv'
  BY <1>3 DEF Rejects, Concludes
<1>4. ASSUME NEW v \in Validation, BenchmarksEnd(v) PROVE ImprovementInv'
  <2>1. CASE BelowRate(v)
    BY <1>3, <1>4, <2>1 DEF BenchmarksEnd
  <2>2. CASE ~BelowRate(v)
    BY <1>4, <2>2 DEF BenchmarksEnd
  <2> QED
    BY <2>1, <2>2
<1>5. ASSUME NEW v \in Validation, RegressionEnds(v) PROVE ImprovementInv'
  BY <1>3, <1>5 DEF RegressionEnds
<1>6. ASSUME NEW p \in Proposal, promote_candidate(p) PROVE ImprovementInv'
  BY <1>6 DEF promote_candidate, IsCandidate
<1>7. CASE UNCHANGED improvementVars
  BY <1>7 DEF improvementVars
<1> QED
  BY <1>1, <1>2, <1>4, <1>5, <1>6, <1>7 DEF ImprovementNext

Deployment ==
  [status : {"PENDING", "STAGING_VERIFIED", "DEPLOYED", "ROLLED_BACK"}, health : BOOLEAN,
   production : BOOLEAN, reversible : BOOLEAN]

(* A validation that no promotion has used yet is one more than those used. *)
GatesInv ==
  /\ deployment \subseteq Deployment
  /\ validations \in Nat /\ promotions \in Nat /\ accepted \in Nat /\ delivered \in BOOLEAN
  /\ promotions <= validations
  /\ \A rec \in deployment :
       /\ rec.status = "STAGING_VERIFIED" => promotions < validations
       /\ rec.status = "DEPLOYED" => rec.production /\ rec.health
  /\ accepted <= 1 /\ (~delivered => accepted = 0)

LEMMA GatesKeepInv == GatesInv /\ [GatesNext]_gatesVars => GatesInv'
<1> SUFFICES ASSUME GatesInv, [GatesNext]_gatesVars PROVE GatesInv'
  OBVIOUS
<1> USE DEF GatesInv, Deployment
<1>1. CASE create_deployment
  BY <1>1, GatesAssumption DEF create_deployment, webhookVars
<1>2. ASSUME NEW rec \in deployment, run_staging_validation(rec) PROVE GatesInv'
  <2> DEFINE new == [rec EXCEPT !.health = TRUE, !.status = "STAGING_VERIFIED"]
  <2>1. new \in Deployment /\ new.status = "STAGING_VERIFIED"
    OBVIOUS
  <2>2. /\ deployment' = {new} /\ validations' = validations + 1 /\ promotions' = promotions
        /\ UNCHANGED webhookVars
    BY <1>2 DEF run_staging_validation, Becomes
  <2> HIDE DEF new
  <2> QED
    BY <2>1, <2>2 DEF webhookVars
<1>3. ASSUME NEW rec \in deployment, promote_to_production(rec) PROVE GatesInv'
  <2> DEFINE new == [rec EXCEPT !.production = TRUE, !.status = "DEPLOYED"]
  <2>1. new \in Deployment /\ new.status = "DEPLOYED" /\ new.production /\ new.health = rec.health
    OBVIOUS
  <2>2. /\ deployment' = {new} /\ validations' = validations /\ promotions' = promotions + 1
        /\ UNCHANGED webhookVars /\ rec.health /\ rec.status = "STAGING_VERIFIED"
    BY <1>3 DEF promote_to_production, Becomes, StagingPassed
  <2> HIDE DEF new
  <2> QED
    <3>1. deployment' \subseteq Deployment
      BY <2>1, <2>2
    <3>2. promotions' <= validations' /\ promotions' \in Nat /\ validations' \in Nat
      BY <2>2
    <3>3. UNCHANGED <<delivered, accepted>>
      BY <2>2 DEF webhookVars
    <3>4. \A x \in deployment' : x = new
      BY <2>2
    <3> QED
      BY <2>1, <2>2, <3>1, <3>2, <3>3, <3>4
<1>4. ASSUME NEW rec \in deployment, rollback(rec) PROVE GatesInv'
  BY <1>4 DEF rollback, Becomes, webhookVars
<1>5. ASSUME UNCHANGED <<releaseVars, webhookVars>> PROVE GatesInv'
  BY <1>5 DEF releaseVars, webhookVars
<1>6. ASSUME NEW fresh, NEW signed, verify_webhook_event(fresh, signed) PROVE GatesInv'
  BY <1>6 DEF verify_webhook_event, releaseVars
<1>7. CASE UNCHANGED gatesVars
  BY <1>5, <1>7 DEF gatesVars
<1>8. CASE \/ trigger_incident
           \/ \E rec \in incident : \/ collect_logs_and_diagnose(rec) \/ propose_remediation(rec)
                                    \/ apply_remediation_and_verify(rec)
           \/ create_preview \/ approve_action \/ deny_action
           \/ register_approval_request \/ process_mobile_approval
  BY <1>5, <1>8
  DEF trigger_incident, collect_logs_and_diagnose, propose_remediation, apply_remediation_and_verify,
      IncidentBecomes, create_preview, approve_action, deny_action, ApprovalBecomes,
      register_approval_request, process_mobile_approval, MobileBecomes
<1> QED
  BY <1>1, <1>2, <1>3, <1>4, <1>6, <1>7, <1>8 DEF GatesNext

(***************************************************************************)
(* Nothing takes effect before it has passed its gate: a promoted proposal *)
(* was passed by the last validation that ended, each production           *)
(* deployment has a staging validation of its own and has passed its       *)
(* health check, and a webhook delivery is accepted once at most.          *)
(***************************************************************************)
THEOREM NothingUnearnedTakesEffect == Spec => []EffectsAreEarned
<1> DEFINE Inv == ImprovementInv /\ GatesInv
<1>1. Init => Inv
  <2>1. ImprovementInit => ImprovementInv
    BY DEF ImprovementInit, ImprovementInv, PromotionIsEarned, Judged
  <2>2. GatesInit => GatesInv
    <3> SUFFICES ASSUME GatesInit PROVE GatesInv
      OBVIOUS
    <3>1. validations = 0 /\ promotions = 0 /\ accepted = 0 /\ delivered = FALSE
      BY DEF GatesInit
    <3>2. promotions <= validations
      BY <3>1
    <3>3. accepted <= 1
      BY <3>1
    <3>4. deployment = {}
      BY DEF GatesInit
    <3> QED
      BY <3>1, <3>2, <3>3, <3>4 DEF GatesInv
  <2> QED
    BY <2>1, <2>2 DEF Init
<1>2. Inv /\ [Next]_vars => Inv'
  BY PartsStep, ImprovementKeepsInv, GatesKeepInv
<1>3. Inv => EffectsAreEarned
  BY DEF ImprovementInv, GatesInv, EffectsAreEarned, EffectsAreGated, EachDeploymentValidated,
         DeliveredOnce
<1> QED
  BY <1>1, <1>2, <1>3, PTL DEF Spec

------------------------------------------------------------------------------
(* Credentials, connectors and the quota *)

LEMMA MinOfTwo ==
  ASSUME NEW a \in Int, NEW b \in Int
  PROVE  /\ Min({a, b}) \in {a, b} /\ Min({a, b}) <= a /\ Min({a, b}) <= b
BY DEF Min

(* What has passed and what is left are no more than what the quota gave *)
(* until it was last refilled.                                           *)
QuotaInv ==
  /\ tokens \in Nat /\ refilled \in Nat /\ now \in Nat /\ passed \in Nat
  /\ refilled <= now /\ passed + tokens <= max_requests + refilled

HealthStatus == {"none", "CONNECTED", "AUTHENTICATION_REQUIRED", "DISCONNECTED"}

LinksInv ==
  /\ credentials \in [Ref -> SUBSET User] /\ health \in [Connector -> HealthStatus]
  /\ VaultFollowsCredentials

LEMMA RoutingKeepsQuota ==
  ASSUME QuotaInv, NEW c, NEW u, NEW refs, NEW supported, route_and_execute(c, u, refs, supported)
  PROVE  QuotaInv'
<1> DEFINE full == tokens + (now - refilled)
<1>1. max_requests \in Nat /\ full \in Nat
  BY ConnectionsAssumption DEF QuotaInv
<1>2. Refilled \in Nat /\ Refilled <= full
  <2> HIDE DEF full
  <2>0. max_requests \in Int /\ full \in Int
    BY <1>1
  <2>1. Min({max_requests, full}) \in {max_requests, full} /\ Min({max_requests, full}) <= full
    BY <2>0, MinOfTwo
  <2> QED
    BY <1>1, <2>1 DEF Refilled, full
<1>3. refilled' = now /\ now' = now
  BY DEF route_and_execute, Noted
<1>4. \/ tokens' = Refilled - 1 /\ Refilled >= 1 /\ passed' = passed + 1
      \/ tokens' = Refilled /\ passed' = passed
  BY DEF route_and_execute
<1> HIDE DEF full
<1>5. passed + full <= max_requests + now
  BY <1>1 DEF QuotaInv, full
<1> QED
  BY <1>1, <1>2, <1>3, <1>4, <1>5 DEF QuotaInv

LEMMA ConnectingKeepsLinks ==
  ASSUME LinksInv, NEW c \in Connector, NEW u, NEW refs, UNCHANGED <<credentials, vault>>,
         \/ ConnectTo(c, u, refs)
         \/ linked' = linked \ {c} /\ Reports(c, "DISCONNECTED")
         \/ UNCHANGED connectorVars
  PROVE  LinksInv'
<1> USE DEF LinksInv, VaultFollowsCredentials
<1>1. ASSUME NEW status \in HealthStatus, health' = [health EXCEPT ![c] = status],
             \/ linked' = linked \union {c} /\ status = "CONNECTED"
             \/ linked' = linked \ {c} /\ status # "CONNECTED"
      PROVE  LinksInv'
  <2>1. /\ health'[c] = status /\ \A d \in Connector \ {c} : health'[d] = health[d]
        /\ health' \in [Connector -> HealthStatus]
    BY <1>1
  <2>2. \A d \in Connector \ {c} : d \in linked' <=> d \in linked
    BY <1>1
  <2> QED
    BY <1>1, <2>1, <2>2
<1>2. "CONNECTED" \in HealthStatus /\ "AUTHENTICATION_REQUIRED" \in HealthStatus /\ "DISCONNECTED" \in HealthStatus
  BY DEF HealthStatus
<1>3. CASE UNCHANGED connectorVars
  BY <1>3 DEF connectorVars
<1>4. CASE linked' = linked \ {c} /\ Reports(c, "DISCONNECTED")
  BY <1>1, <1>2, <1>4 DEF Reports
<1>5. CASE ConnectTo(c, u, refs)
  BY <1>1, <1>2, <1>5 DEF ConnectTo, Reports
<1> QED
  BY <1>3, <1>4, <1>5

LEMMA RegisteringKeepsLinks ==
  ASSUME LinksInv, NEW r \in Ref, NEW u \in User, Registered(r, u), UNCHANGED connectorVars
  PROVE  LinksInv'
BY DEF LinksInv, VaultFollowsCredentials, Registered, connectorVars

ConnectionsInv ==
  QuotaInv /\ LinksInv /\ (\A s \in sessions : s[1] \in User)

LEMMA ConnectionsKeepInv == ConnectionsInv /\ [ConnectionsNext]_connectionsVars => ConnectionsInv'
<1> SUFFICES ASSUME ConnectionsInv, [ConnectionsNext]_connectionsVars PROVE ConnectionsInv'
  OBVIOUS
<1> USE DEF ConnectionsInv
<1>1. ASSUME UNCHANGED <<quotaVars, now>> PROVE QuotaInv'
  BY <1>1 DEF QuotaInv, quotaVars
<1>2. ASSUME NEW r \in Ref, NEW u \in User, register_credential(r, u) PROVE ConnectionsInv'
  BY <1>1, <1>2, RegisteringKeepsLinks DEF register_credential
<1>3. ASSUME NEW r \in Ref, NEW s \in sessions, verify_and_exchange_code(s, r) PROVE ConnectionsInv'
  BY <1>1, <1>3, RegisteringKeepsLinks DEF verify_and_exchange_code
<1>4. ASSUME NEW r \in Ref, revoke_credential(r) PROVE ConnectionsInv'
  <2>1. LinksInv'
    BY <1>4 DEF LinksInv, VaultFollowsCredentials, revoke_credential, SecretsWithout, connectorVars
  <2> QED
    BY <1>1, <1>4, <2>1 DEF revoke_credential
<1>5. ASSUME NEW u \in User, generate_authorization_url(u) PROVE ConnectionsInv'
  <2>1. LinksInv'
    BY <1>5 DEF LinksInv, VaultFollowsCredentials, generate_authorization_url, connectorVars
  <2> QED
    BY <1>1, <1>5, <2>1 DEF generate_authorization_url
<1>6. ASSUME NEW c \in Connector, NEW ctx, connect_integration(c, ctx[1], ctx[2]) PROVE ConnectionsInv'
  BY <1>1, <1>6, ConnectingKeepsLinks DEF connect_integration, credentialVars
<1>7. ASSUME NEW c \in Connector, disconnect_integration(c) PROVE ConnectionsInv'
  BY <1>1, <1>7, ConnectingKeepsLinks DEF disconnect_integration, credentialVars
<1>8. ASSUME NEW c \in Connector, NEW ctx, NEW supported,
             route_and_execute(c, ctx[1], ctx[2], supported)
      PROVE  ConnectionsInv'
  <2>1. /\ UNCHANGED credentialVars
        /\ ConnectTo(c, ctx[1], ctx[2]) \/ UNCHANGED connectorVars
    BY <1>8 DEF route_and_execute, execute
  <2> QED
    BY <1>8, <2>1, ConnectingKeepsLinks, RoutingKeepsQuota DEF credentialVars
<1>9. CASE QuotaTick
  <2>1. QuotaInv'
    BY <1>9 DEF QuotaTick, QuotaInv, quotaVars
  <2> QED
    BY <1>9, <2>1 DEF QuotaTick, LinksInv, VaultFollowsCredentials, connectorVars, credentialVars
<1>10. CASE UNCHANGED connectionsVars
  <2>1. LinksInv'
    BY <1>10 DEF connectionsVars, connectorVars, credentialVars, LinksInv, VaultFollowsCredentials
  <2> QED
    BY <1>1, <1>10, <2>1 DEF connectionsVars, credentialVars
<1> QED
  BY <1>2, <1>3, <1>4, <1>5, <1>6, <1>7, <1>8, <1>9, <1>10 DEF ConnectionsNext

------------------------------------------------------------------------------
(* The database and the cache *)

CacheEntry == [value : Value, expires : Nat]

(* Of each key the cache has one entry at most, and while no secret is     *)
(* wanted instead, that is the entry wanted last, or it has expired.       *)
CacheInv ==
  /\ time \in Nat
  /\ cache \in [Key -> SUBSET CacheEntry] /\ latest \in [Key -> SUBSET CacheEntry]
  /\ \A k \in Key : \A x, y \in cache[k] : x = y
  /\ CacheIsCurrent

Caches(k, c, l) ==
  time' = time /\ cache' = [cache EXCEPT ![k] = c] /\ latest' = [latest EXCEPT ![k] = l]

Current(c, l) ==
  /\ c \subseteq CacheEntry /\ l \subseteq CacheEntry /\ \A x, y \in c : x = y
  /\ \/ \E x \in l : x.value \in Secrets
     \/ \A e \in CacheEntry : ~Expired(e) => (e \in c <=> e \in l)

LEMMA CacheKeepsInv ==
  CacheInv /\ (\/ TimePasses \/ UNCHANGED cacheVars
               \/ \E k \in Key : get(k) \/ invalidate(k) \/ \E v \in Value, ttl \in Lifetimes : set(k, v, ttl))
    => CacheInv'
<1> SUFFICES ASSUME CacheInv PROVE
      (\/ TimePasses \/ UNCHANGED cacheVars
       \/ \E k \in Key : get(k) \/ invalidate(k) \/ \E v \in Value, ttl \in Lifetimes : set(k, v, ttl))
        => CacheInv'
  OBVIOUS
<1> USE DEF CacheInv
<1>0. \A k \in Key : (\A entry \in latest[k] : entry.value \notin Secrets) =>
                       \A e \in CacheEntry : ~Expired(e) => (e \in cache[k] <=> e \in latest[k])
  BY DEF CacheIsCurrent, Cached
<1>1. ASSUME TimePasses PROVE CacheInv'
  <2>1. time' = time + 1 /\ cache' = cache /\ latest' = latest
    BY <1>1 DEF TimePasses
  <2>2. \A e \in CacheEntry : ~Expired(e)' => ~Expired(e)
    BY <2>1 DEF Expired, CacheEntry
  <2>3. CacheIsCurrent'
    BY <1>0, <2>1, <2>2 DEF CacheIsCurrent, Cached
  <2> QED
    BY <2>1, <2>3
<1>2. ASSUME UNCHANGED cacheVars PROVE CacheInv'
  BY <1>2 DEF cacheVars, CacheIsCurrent, Cached, Expired
<1>3. ASSUME NEW k \in Key, NEW c, NEW l, Caches(k, c, l), Current(c, l)
      PROVE  CacheInv'
  <2> USE DEF Caches, Current
  <2>1. \A e \in CacheEntry : Expired(e)' = Expired(e)
    BY <1>3 DEF Expired
  <2>2. cache'[k] = c /\ latest'[k] = l
        /\ \A j \in Key \ {k} : cache'[j] = cache[j] /\ latest'[j] = latest[j]
    BY <1>3
  <2>3. \A j \in Key : (\A entry \in latest'[j] : entry.value \notin Secrets) =>
                         \A e \in CacheEntry : ~Expired(e) => (e \in cache'[j] <=> e \in latest'[j])
    BY <1>0, <1>3, <2>2
  <2>4. cache' \in [Key -> SUBSET CacheEntry] /\ latest' \in [Key -> SUBSET CacheEntry]
    BY <1>3
  <2>5. CacheIsCurrent'
    BY <2>1, <2>3, <2>4 DEF CacheIsCurrent, Cached
  <2> QED
    BY <1>3, <2>2, <2>4, <2>5
<1>4. ASSUME NEW k \in Key, get(k) PROVE CacheInv'
  <2>1. /\ cache' = [cache EXCEPT ![k] = {}] /\ latest' = [latest EXCEPT ![k] = latest[k]]
        /\ time' = time /\ latest[k] \in SUBSET CacheEntry
        /\ \A e \in cache[k] : Expired(e)
    BY <1>4 DEF get
  <2>2. \/ \E x \in latest[k] : x.value \in Secrets
        \/ \A e \in CacheEntry : ~Expired(e) => (e \in {} <=> e \in latest[k])
    BY <1>0, <2>1
  <2>3. Caches(k, {}, latest[k]) /\ Current({}, latest[k])
    BY <2>1, <2>2 DEF Caches, Current
  <2> QED
    BY <1>3, <2>3
<1>5. ASSUME NEW k \in Key, invalidate(k) PROVE CacheInv'
  <2>1. Caches(k, {}, {}) /\ Current({}, {})
    BY <1>5 DEF invalidate, Caches, Current
  <2> QED
    BY <1>3, <2>1
<1>6. ASSUME NEW k \in Key, NEW v \in Value, NEW ttl \in Lifetimes, set(k, v, ttl) PROVE CacheInv'
  <2>1. Entry(v, ttl) \in CacheEntry /\ Entry(v, ttl).value = v
    BY StoresAssumption DEF Entry, CacheEntry
  <2>2. latest' = [latest EXCEPT ![k] = {Entry(v, ttl)}] /\ time' = time
    BY <1>6 DEF set
  <2>3. CASE v \in Secrets
    <3>1. cache' = [cache EXCEPT ![k] = cache[k]] /\ cache[k] \in SUBSET CacheEntry
      BY <1>6, <2>3 DEF set
    <3>2. Caches(k, cache[k], {Entry(v, ttl)}) /\ Current(cache[k], {Entry(v, ttl)})
      BY <2>1, <2>2, <2>3, <3>1 DEF Caches, Current
    <3> QED
      BY <1>3, <3>2
  <2>4. CASE v \notin Secrets
    <3>1. cache' = [cache EXCEPT ![k] = {Entry(v, ttl)}]
      BY <1>6, <2>4 DEF set, Stored
    <3>2. Caches(k, {Entry(v, ttl)}, {Entry(v, ttl)}) /\ Current({Entry(v, ttl)}, {Entry(v, ttl)})
      BY <2>1, <2>2, <3>1 DEF Caches, Current
    <3> QED
      BY <1>3, <3>2
  <2> QED
    BY <2>3, <2>4
<1> QED
  BY <1>1, <1>2, <1>4, <1>5, <1>6

(* An entity only one tenant saves has that tenant's data. *)
DatabaseInv ==
  /\ entities \in [Entity -> SUBSET [tenant : Tenant, from : Tenant, version : Nat]]
  /\ \A e \in Entity \ shared : \A x \in entities[e] : x.from = x.tenant
  /\ \A e \in Entity : \A x, y \in entities[e] : x = y

LEMMA SavingKeepsDatabase ==
  ASSUME DatabaseInv, NEW e \in Entity, NEW t \in Tenant, save_entity(e, t) PROVE DatabaseInv'
<1> USE DEF DatabaseInv
<1>1. CASE /\ entities' = [entities EXCEPT ![e] = {[tenant |-> t, from |-> t, version |-> 1]}]
           /\ UNCHANGED shared
  BY <1>1
<1>2. ASSUME NEW old \in entities[e],
             entities' = [entities EXCEPT ![e] = {[old EXCEPT !.from = t, !.version = old.version + 1]}],
             shared' = IF old.tenant = t THEN shared ELSE shared \union {e}
      PROVE  DatabaseInv'
  <2> DEFINE new == [old EXCEPT !.from = t, !.version = old.version + 1]
  <2>0. old \in [tenant : Tenant, from : Tenant, version : Nat]
    OBVIOUS
  <2>1. new \in [tenant : Tenant, from : Tenant, version : Nat] /\ new.from = t /\ new.tenant = old.tenant
    <3>1. ASSUME NEW n \in Nat
          PROVE  /\ [old EXCEPT !.from = t, !.version = n] \in [tenant : Tenant, from : Tenant, version : Nat]
                 /\ [old EXCEPT !.from = t, !.version = n].from = t
                 /\ [old EXCEPT !.from = t, !.version = n].tenant = old.tenant
      BY <2>0
    <3>2. old.version + 1 \in Nat
      BY <2>0
    <3> QED
      BY <3>1, <3>2
  <2>2. entities' = [entities EXCEPT ![e] = {new}]
    BY <1>2
  <2> HIDE DEF new
  <2> QED
    BY <1>2, <2>1, <2>2
<1> QED
  BY <1>1, <1>2 DEF save_entity

LEMMA StoresKeepInv ==
  CacheInv /\ DatabaseInv /\ [StoresNext]_storesVars => CacheInv' /\ DatabaseInv'
<1> SUFFICES ASSUME CacheInv, DatabaseInv, [StoresNext]_storesVars PROVE CacheInv' /\ DatabaseInv'
  OBVIOUS
<1>1. ASSUME UNCHANGED databaseVars PROVE DatabaseInv'
  BY <1>1 DEF databaseVars, DatabaseInv
<1>2. ASSUME NEW e \in Entity, NEW t \in Tenant, save_entity(e, t) PROVE CacheInv' /\ DatabaseInv'
  BY <1>2, SavingKeepsDatabase, CacheKeepsInv DEF save_entity
<1>3. ASSUME NEW e \in Entity, NEW t \in Tenant, delete_entity(e, t) PROVE CacheInv' /\ DatabaseInv'
  <2>1. entities' = [entities EXCEPT ![e] = {}] /\ shared' = shared \ {e} /\ UNCHANGED cacheVars
    BY <1>3 DEF delete_entity
  <2>2. DatabaseInv'
    BY <2>1 DEF DatabaseInv
  <2> QED
    BY <2>1, <2>2, CacheKeepsInv
<1>4. CASE TimePasses \/ UNCHANGED storesVars
           \/ \E k \in Key : get(k) \/ invalidate(k) \/ \E v \in Value, ttl \in Lifetimes : set(k, v, ttl)
  <2>1. UNCHANGED databaseVars
    BY <1>4 DEF TimePasses, get, invalidate, set, storesVars
  <2> QED
    BY <1>1, <1>4, <2>1, CacheKeepsInv DEF storesVars
<1> QED
  BY <1>2, <1>3, <1>4 DEF StoresNext

(***************************************************************************)
(* Where one thing is kept in two places they agree: the router lets pass  *)
(* no more than its quota, the vault has the secrets of the credentials,   *)
(* a connector's health is that of its connection, the cache has what was  *)
(* last set, and a tenant reads what it saved.                             *)
(***************************************************************************)
THEOREM StoresStayCurrent == Spec => []StoresAreCurrent
<1> DEFINE Inv == ConnectionsInv /\ CacheInv /\ DatabaseInv
<1>1. Init => Inv
  <2> SUFFICES ASSUME Init PROVE Inv
    OBVIOUS
  <2>1. QuotaInv
    <3>1. tokens = max_requests /\ refilled = 0 /\ now = 0 /\ passed = 0
      BY DEF Init, ConnectionsInit
    <3> QED
      BY <3>1, ConnectionsAssumption DEF QuotaInv
  <2>2. LinksInv /\ \A s \in sessions : s[1] \in User
    <3>1. /\ credentials = [r \in Ref |-> {}] /\ vault = {} /\ sessions = {}
          /\ health = [c \in Connector |-> "none"]
      BY DEF Init, ConnectionsInit
    <3>2. "none" \in HealthStatus
      BY DEF HealthStatus
    <3> QED
      BY <3>1, <3>2 DEF LinksInv, VaultFollowsCredentials
  <2>3. CacheInv
    <3>1. time = 0 /\ cache = [k \in Key |-> {}] /\ latest = [k \in Key |-> {}]
      BY DEF Init, StoresInit
    <3> QED
      BY <3>1 DEF CacheInv, CacheIsCurrent, Cached
  <2>4. DatabaseInv
    BY DEF Init, StoresInit, DatabaseInv
  <2> QED
    BY <2>1, <2>2, <2>3, <2>4 DEF ConnectionsInv
<1>2. Inv /\ [Next]_vars => Inv'
  BY PartsStep, ConnectionsKeepInv, StoresKeepInv
<1>3. Inv => StoresAreCurrent
  <2> SUFFICES ASSUME Inv PROVE StoresAreCurrent
    OBVIOUS
  <2>1. CallsWithinQuota
    BY ConnectionsAssumption DEF ConnectionsInv, QuotaInv, CallsWithinQuota
  <2>2. TenantReadsItsOwn
    BY DEF DatabaseInv, TenantReadsItsOwn, get_entity
  <2> QED
    BY <2>1, <2>2 DEF ConnectionsInv, LinksInv, CacheInv, StoresAreCurrent
<1> QED
  BY <1>1, <1>2, <1>3, PTL DEF Spec

------------------------------------------------------------------------------
(* The browser's end of the chat *)

ReadyState == {"unused", "connecting", "open", "closing", "closed"}

ClientTypeOK ==
  /\ given \subseteq Hook /\ shown \in ChatView \union {0}
  /\ owner \in [Socket -> Hook] /\ ready \in [Socket -> ReadyState]
  /\ wsRef \in [Hook -> Socket \union {0}]
  /\ timers \subseteq Socket /\ \A s \in timers : ready[s] = "closed"
  /\ queue \in [Hook -> Seq(Nat)] /\ sent \in [Hook -> Seq(Nat)]
  /\ requested \in [Hook -> Nat] /\ reconnects \in Nat

(* The latest socket of a hook is its own; while it is open nothing waits. *)
QueueInv ==
  \A h \in Hook : wsRef[h] # 0 =>
    /\ owner[wsRef[h]] = h /\ ready[wsRef[h]] # "unused"
    /\ ready[wsRef[h]] = "open" => queue[h] = <<>>

(* What a hook has, or has still to give up: sockets, and timers to make one. *)
Active(h) ==
  {s \in Socket : owner[s] = h /\ (ready[s] \in {"connecting", "open", "closing"} \/ s \in timers)}

Mounted(h) == IF h # Modal /\ h <= shown THEN 1 ELSE 0

ActiveInv ==
  \A h \in Hook : IsFiniteSet(Active(h)) /\ Cardinality(Active(h)) <= Mounted(h) + reconnects

ClientInv == ClientTypeOK /\ QueueInv /\ SentInOrder /\ ActiveInv

LEMMA NextSocketIsUnused == Unused # {} => NextSocket \in Unused
<1> SUFFICES ASSUME Unused # {} PROVE NextSocket \in Unused
  OBVIOUS
<1>1. Unused \subseteq Nat
  BY ClientAssumption DEF Unused
<1>2. \E s \in Unused : \A t \in Unused : s <= t
  BY <1>1, LeastNumber
<1> QED
  BY <1>2 DEF NextSocket

(* connect, from ready states that differ from ready at sockets in use. *)
SameUnused(r) ==
  r \in [Socket -> ReadyState] /\ \A s \in Socket : r[s] = "unused" <=> ready[s] = "unused"

Connects(h, r, n) ==
  /\ ready' = [r EXCEPT ![n] = "connecting"] /\ owner' = [owner EXCEPT ![n] = h]
  /\ wsRef' = [wsRef EXCEPT ![h] = n]

LEMMA ConnectStep ==
  ASSUME ClientTypeOK, NEW h \in Hook, NEW r, SameUnused(r), connect(h, r)
  PROVE  /\ \/ h \notin given /\ ready' = r /\ owner' = owner /\ wsRef' = wsRef
            \/ \E n \in Socket : r[n] = "unused" /\ ready[n] = "unused" /\ Connects(h, r, n)
         /\ owner' \in [Socket -> Hook] /\ ready' \in [Socket -> ReadyState]
         /\ wsRef' \in [Hook -> Socket \union {0}]
<1>1. CASE h \notin given
  BY <1>1 DEF connect, ClientTypeOK, SameUnused
<1>2. CASE h \in given
  <2> DEFINE n == NextSocket
  <2>1. n \in Socket /\ ready[n] = "unused" /\ r[n] = "unused"
    BY <1>2, NextSocketIsUnused DEF connect, Unused, SameUnused
  <2>2. Connects(h, r, n)
    BY <1>2 DEF connect, Connects
  <2> HIDE DEF n
  <2>3. /\ owner' \in [Socket -> Hook] /\ ready' \in [Socket -> ReadyState]
        /\ wsRef' \in [Hook -> Socket \union {0}]
    BY <2>1, <2>2 DEF Connects, ClientTypeOK, SameUnused, ReadyState
  <2> QED
    BY <2>1, <2>2, <2>3
<1> QED
  BY <1>1, <1>2

LEMMA CloseIsOfOneInUse ==
  ASSUME ClientTypeOK, NEW h
  PROVE  /\ SameUnused(ready) /\ SameUnused(Closing(h, ready))
         /\ \A s \in Socket : \/ Closing(h, ready)[s] = ready[s]
                              \/ Closing(h, ready)[s] = "closing" /\ ready[s] \in Live
BY DEF ClientTypeOK, SameUnused, Closing, Live, ReadyState

(* Numbers in order *)
Counted(n) == [i \in 1 .. n |-> i]

LEMMA CountedAppend ==
  ASSUME NEW n \in Nat
  PROVE  Counted(n) \in Seq(Nat) /\ Append(Counted(n), n + 1) = Counted(n + 1)
<1>1. Counted(n) \in Seq(Nat) /\ Len(Counted(n)) = n
  BY DEF Counted
<1>2. Counted(n + 1) \in Seq(Nat) /\ Len(Counted(n + 1)) = n + 1
  BY DEF Counted
<1> DEFINE c == Append(Counted(n), n + 1)
<1>3. /\ c \in Seq(Nat) /\ Len(c) = n + 1 /\ c[n + 1] = n + 1
      /\ \A i \in 1 .. n : c[i] = Counted(n)[i]
  BY <1>1, AppendProperties
<1>4. \A i \in 1 .. (n + 1) : c[i] = Counted(n + 1)[i]
  BY <1>3 DEF Counted
<1> HIDE DEF c
<1>5. c = Counted(n + 1)
  BY <1>2, <1>3, <1>4, SeqEqual
<1> QED
  BY <1>1, <1>5 DEF c

LEMMA Regrouped ==
  ASSUME NEW a \in Seq(Nat), NEW b \in Seq(Nat), NEW c \in Seq(Nat)
  PROVE  a \o (b \o c) = (a \o b) \o c
OBVIOUS

LEMMA CountOne ==
  ASSUME NEW n \in Nat, NEW a \in Seq(Nat), NEW b \in Seq(Nat), a \o b = Counted(n)
  PROVE  /\ a \o Append(b, n + 1) = Counted(n + 1)
         /\ b = <<>> => Append(a, n + 1) \o b = Counted(n + 1)
         /\ (a \o b) \o <<>> = Counted(n)
<1>0. n + 1 \in Nat /\ <<n + 1>> \in Seq(Nat)
  OBVIOUS
<1>1. a \o Append(b, n + 1) = a \o (b \o <<n + 1>>)
  BY <1>0, AppendIsConcat
<1>2. a \o (b \o <<n + 1>>) = (a \o b) \o <<n + 1>>
  BY <1>0, Regrouped
<1>3. Counted(n) \o <<n + 1>> = Counted(n + 1)
  BY <1>0, CountedAppend, AppendIsConcat
<1>4. a \o <<>> = a
  BY ConcatEmptySeq
<1>5. ASSUME b = <<>> PROVE Append(a, n + 1) \o b = Counted(n + 1)
  <2>1. a = Counted(n)
    BY <1>4, <1>5
  <2>2. Append(a, n + 1) \in Seq(Nat) /\ Append(a, n + 1) = Counted(n + 1)
    BY <1>0, <2>1, CountedAppend, AppendProperties
  <2>3. Append(a, n + 1) \o <<>> = Append(a, n + 1)
    BY <2>2, ConcatEmptySeq
  <2> QED
    BY <1>5, <2>2, <2>3
<1>6. (a \o b) \o <<>> = Counted(n)
  BY CountedAppend, ConcatEmptySeq
<1> QED
  BY <1>1, <1>2, <1>3, <1>5, <1>6

(* The steps that make a socket, or would if the hook had a session id. *)
ConnectFrom(h, r) ==
  /\ connect(h, r) /\ SameUnused(r)
  /\ \A s \in Socket : r[s] = ready[s] \/ (r[s] = "closing" /\ ready[s] \in Live)
  /\ timers' \subseteq timers /\ UNCHANGED <<given, queue, requested, sent>>
  /\ shown' \in ChatView \union {0} /\ reconnects' \in Nat

LEMMA EveryConnect ==
  ASSUME ClientTypeOK, Mount \/ reconnect \/ (\E s \in Socket : TimerFires(s))
  PROVE  \E h \in Hook, r \in {ready, Closing(shown, ready)} : ConnectFrom(h, r)
<1>0. ChatView \subseteq Hook /\ \A x \in ChatView \union {0} : x # 0 => x \in Hook
  BY DEF Hook
<1>1. SameUnused(ready) /\ SameUnused(Closing(shown, ready))
      /\ \A s \in Socket : \/ Closing(shown, ready)[s] = ready[s]
                           \/ Closing(shown, ready)[s] = "closing" /\ ready[s] \in Live
  BY CloseIsOfOneInUse
<1>2. CASE Mount
  <2>1. shown' = shown + 1 /\ shown + 1 \in ChatView /\ timers' \subseteq timers
        /\ UNCHANGED <<given, queue, requested, sent, reconnects>>
    BY <1>2 DEF Mount
  <2>2. connect(shown + 1, ready) \/ connect(shown + 1, Closing(shown, ready))
    BY <1>2 DEF Mount
  <2>3. ConnectFrom(shown + 1, ready) \/ ConnectFrom(shown + 1, Closing(shown, ready))
    BY <1>1, <2>1, <2>2 DEF ConnectFrom, ClientTypeOK
  <2> QED
    BY <1>0, <2>1, <2>3
<1>3. CASE reconnect
  <2>1. ConnectFrom(shown, Closing(shown, ready))
    BY <1>1, <1>3 DEF ConnectFrom, ClientTypeOK, reconnect
  <2> QED
    BY <1>0, <1>3, <2>1 DEF reconnect, ClientTypeOK
<1>4. ASSUME NEW s \in Socket, TimerFires(s)
      PROVE  \E h \in Hook, r \in {ready, Closing(shown, ready)} : ConnectFrom(h, r)
  <2>1. ConnectFrom(owner[s], ready)
    BY <1>1, <1>4 DEF ConnectFrom, ClientTypeOK, TimerFires, TimersAfter
  <2> QED
    BY <2>1 DEF ClientTypeOK
<1> QED
  BY <1>2, <1>3, <1>4

(* The steps that change none of what the invariant is about, but that a *)
(* message is sent or queued.                                            *)
SendFrom(h) == send(h) /\ UNCHANGED <<given, shown, linkVars, reconnects>>

LEMMA EveryClientStep ==
  ASSUME ClientTypeOK, [ClientNext]_clientVars
  PROVE  \/ \E h \in Hook, r \in {ready, Closing(shown, ready)} : ConnectFrom(h, r)
         \/ \E h \in Hook : SendFrom(h)
         \/ \E s \in Socket : onopen(s) \/ (onclose(s) /\ ready[s] \in Live \union {"closing"})
         \/ UNCHANGED <<given, shown, linkVars, queue, requested, sent, reconnects>>
<1>1. \A x \in ChatView \union {0} : x # 0 => x \in Hook
  BY DEF Hook
<1>2. CASE handleSend \/ sendCancel \/ sendApproval
  <2>1. (shown # 0 /\ send(shown)) \/ send(Modal)
    BY <1>2 DEF handleSend, sendCancel, sendApproval
  <2>2. \A h : send(h) => UNCHANGED <<given, shown, linkVars, reconnects>>
    BY DEF send
  <2> QED
    BY <1>1, <2>1, <2>2 DEF SendFrom, Hook, ClientTypeOK
<1>3. CASE clearMessages \/ UNCHANGED clientVars \/ (\E s \in Socket : onmessage(s))
  BY <1>3 DEF clearMessages, clientVars, onmessage, linkVars
<1>4. CASE \E s \in Socket : onopen(s) \/ Closed(s) \/ Lost(s)
  BY <1>4 DEF Closed, Lost
<1>5. CASE Mount \/ reconnect \/ (\E s \in Socket : TimerFires(s))
  BY <1>5, EveryConnect
<1> QED
  BY <1>2, <1>3, <1>4, <1>5 DEF ClientNext

LEMMA ClientTypeNext == ClientTypeOK /\ [ClientNext]_clientVars => ClientTypeOK'
<1> SUFFICES ASSUME ClientTypeOK, [ClientNext]_clientVars PROVE ClientTypeOK'
  OBVIOUS
<1>1. ASSUME NEW h \in Hook, NEW r, ConnectFrom(h, r) PROVE ClientTypeOK'
  <2>1. /\ \/ h \notin given /\ ready' = r
           \/ \E n \in Socket : ready[n] = "unused" /\ ready' = [r EXCEPT ![n] = "connecting"]
        /\ owner' \in [Socket -> Hook] /\ ready' \in [Socket -> ReadyState]
        /\ wsRef' \in [Hook -> Socket \union {0}]
    BY <1>1, ConnectStep DEF ConnectFrom, Connects
  <2>2. \A s \in timers' : s \in timers /\ s \in Socket /\ ready[s] = "closed" /\ r[s] = "closed"
    BY <1>1 DEF ConnectFrom, ClientTypeOK, Live
  <2>3. \A s \in timers' : ready'[s] = "closed"
    BY <1>1, <2>1, <2>2 DEF ConnectFrom, SameUnused
  <2> QED
    BY <1>1, <2>1, <2>2, <2>3 DEF ConnectFrom, ClientTypeOK
<1>2. ASSUME NEW h \in Hook, SendFrom(h) PROVE ClientTypeOK'
  <2>1. /\ queue \in [Hook -> Seq(Nat)] /\ sent \in [Hook -> Seq(Nat)]
        /\ requested \in [Hook -> Nat] /\ requested[h] + 1 \in Nat
    BY DEF ClientTypeOK
  <2>2. Append(queue[h], requested[h] + 1) \in Seq(Nat) /\ Append(sent[h], requested[h] + 1) \in Seq(Nat)
    BY <2>1
  <2>3. requested' = [requested EXCEPT ![h] = requested[h] + 1]
        /\ (queue' = queue \/ queue' = [queue EXCEPT ![h] = Append(queue[h], requested[h] + 1)])
        /\ (sent' = sent \/ sent' = [sent EXCEPT ![h] = Append(sent[h], requested[h] + 1)])
    BY <1>2 DEF SendFrom, send
  <2>4. queue' \in [Hook -> Seq(Nat)] /\ sent' \in [Hook -> Seq(Nat)] /\ requested' \in [Hook -> Nat]
    BY <2>1, <2>2, <2>3
  <2> QED
    BY <1>2, <2>4 DEF SendFrom, linkVars, ClientTypeOK
<1>3. ASSUME NEW s \in Socket, onopen(s) PROVE ClientTypeOK'
  <2>1. /\ queue \in [Hook -> Seq(Nat)] /\ sent \in [Hook -> Seq(Nat)] /\ owner[s] \in Hook
        /\ <<>> \in Seq(Nat)
    BY DEF ClientTypeOK
  <2>2. sent[owner[s]] \o queue[owner[s]] \in Seq(Nat)
    BY <2>1
  <2>3. /\ queue' = [queue EXCEPT ![owner[s]] = <<>>]
        /\ sent' = [sent EXCEPT ![owner[s]] = sent[owner[s]] \o queue[owner[s]]]
    BY <1>3 DEF onopen, Flushed
  <2>4. queue' \in [Hook -> Seq(Nat)] /\ sent' \in [Hook -> Seq(Nat)]
    BY <2>1, <2>2, <2>3
  <2>5. ready' \in [Socket -> ReadyState] /\ \A t \in timers : ready'[t] = "closed"
    BY <1>3 DEF onopen, ClientTypeOK, ReadyState
  <2> QED
    BY <1>3, <2>4, <2>5 DEF onopen, ClientTypeOK
<1>4. ASSUME NEW s \in Socket, onclose(s) PROVE ClientTypeOK'
  <2>1. /\ ready' = [ready EXCEPT ![s] = "closed"] /\ timers' = timers \union {s}
    BY <1>4 DEF onclose, Reconnects
  <2>2. ready' \in [Socket -> ReadyState] /\ timers' \subseteq Socket
        /\ \A t \in timers' : ready'[t] = "closed"
    BY <2>1 DEF ClientTypeOK, ReadyState
  <2> QED
    BY <1>4, <2>2 DEF onclose, ClientTypeOK
<1>5. CASE UNCHANGED <<given, shown, linkVars, queue, requested, sent, reconnects>>
  BY <1>5 DEF linkVars, ClientTypeOK
<1> QED
  BY <1>1, <1>2, <1>3, <1>4, <1>5, EveryClientStep

LEMMA ClientQueueNext == ClientTypeOK /\ QueueInv /\ [ClientNext]_clientVars => QueueInv'
<1> SUFFICES ASSUME ClientTypeOK, QueueInv, [ClientNext]_clientVars PROVE QueueInv'
  OBVIOUS
<1>0. /\ owner \in [Socket -> Hook] /\ ready \in [Socket -> ReadyState]
      /\ wsRef \in [Hook -> Socket \union {0}] /\ queue \in [Hook -> Seq(Nat)]
      /\ \A s \in Socket : s # 0
  BY ClientAssumption DEF ClientTypeOK
<1>1. ASSUME NEW h \in Hook, NEW r, ConnectFrom(h, r) PROVE QueueInv'
  <2>1. /\ \/ h \notin given /\ ready' = r /\ owner' = owner /\ wsRef' = wsRef
           \/ \E n \in Socket : r[n] = "unused" /\ ready[n] = "unused" /\ Connects(h, r, n)
        /\ queue' = queue /\ SameUnused(r)
        /\ \A s \in Socket : r[s] = ready[s] \/ r[s] = "closing"
    BY <1>1, ConnectStep DEF ConnectFrom
  <2>2. CASE h \notin given /\ ready' = r /\ owner' = owner /\ wsRef' = wsRef
    BY <1>0, <2>1, <2>2 DEF QueueInv
  <2>3. ASSUME NEW n \in Socket, ready[n] = "unused", Connects(h, r, n) PROVE QueueInv'
    <3>1. SUFFICES ASSUME NEW k \in Hook, wsRef'[k] # 0
                   PROVE  /\ owner'[wsRef'[k]] = k /\ ready'[wsRef'[k]] # "unused"
                          /\ ready'[wsRef'[k]] = "open" => queue'[k] = <<>>
      BY DEF QueueInv
    <3>2. CASE k = h
      BY <1>0, <2>1, <2>3, <3>2 DEF Connects, SameUnused
    <3>3. CASE k # h
      <4>1. wsRef'[k] = wsRef[k] /\ wsRef[k] # 0 /\ wsRef[k] \in Socket /\ wsRef[k] # n
        BY <1>0, <2>3, <3>1, <3>3 DEF Connects, QueueInv
      <4>2. owner'[wsRef[k]] = owner[wsRef[k]] /\ ready'[wsRef[k]] = r[wsRef[k]]
        BY <1>0, <2>1, <2>3, <4>1 DEF Connects, SameUnused
      <4> QED
        BY <2>1, <4>1, <4>2 DEF QueueInv
    <3> QED
      BY <3>2, <3>3
  <2> QED
    BY <2>1, <2>2, <2>3
<1>2. ASSUME NEW h \in Hook, SendFrom(h) PROVE QueueInv'
  <2>1. /\ wsRef' = wsRef /\ ready' = ready /\ owner' = owner
        /\ \/ queue' = queue
           \/ ~(wsRef[h] # 0 /\ ready[wsRef[h]] = "open") /\ \A k \in Hook \ {h} : queue'[k] = queue[k]
    BY <1>0, <1>2 DEF SendFrom, send, linkVars
  <2> QED
    BY <2>1 DEF QueueInv
<1>3. ASSUME NEW s \in Socket, onopen(s) PROVE QueueInv'
  <2>1. /\ wsRef' = wsRef /\ owner' = owner /\ queue'[owner[s]] = <<>>
        /\ \A k \in Hook : k # owner[s] => queue'[k] = queue[k]
        /\ ready'[s] = "open" /\ \A t \in Socket : t # s => ready'[t] = ready[t]
    BY <1>0, <1>3 DEF onopen
  <2> QED
    BY <1>0, <2>1 DEF QueueInv
<1>4. ASSUME NEW s \in Socket, onclose(s) PROVE QueueInv'
  <2>1. /\ wsRef' = wsRef /\ owner' = owner /\ queue' = queue
        /\ ready'[s] = "closed" /\ \A t \in Socket : t # s => ready'[t] = ready[t]
    BY <1>0, <1>4 DEF onclose
  <2> QED
    BY <1>0, <2>1 DEF QueueInv
<1>5. CASE UNCHANGED <<given, shown, linkVars, queue, requested, sent, reconnects>>
  BY <1>5 DEF linkVars, QueueInv
<1> QED
  BY <1>1, <1>2, <1>3, <1>4, <1>5, EveryClientStep

LEMMA SentNext == ClientTypeOK /\ QueueInv /\ SentInOrder /\ [ClientNext]_clientVars => SentInOrder'
<1> SUFFICES ASSUME ClientTypeOK, QueueInv, SentInOrder, [ClientNext]_clientVars PROVE SentInOrder'
  OBVIOUS
<1>0. /\ queue \in [Hook -> Seq(Nat)] /\ sent \in [Hook -> Seq(Nat)]
      /\ requested \in [Hook -> Nat] /\ owner \in [Socket -> Hook]
      /\ \A h \in Hook : sent[h] \o queue[h] = Counted(requested[h])
  BY DEF ClientTypeOK, SentInOrder, Counted
<1>1. ASSUME UNCHANGED <<queue, requested, sent>> PROVE SentInOrder'
  BY <1>1 DEF SentInOrder
<1>2. ASSUME NEW h \in Hook, NEW q, NEW w, NEW n \in Nat, w \o q = Counted(n),
             queue' = [queue EXCEPT ![h] = q], sent' = [sent EXCEPT ![h] = w],
             requested' = [requested EXCEPT ![h] = n]
      PROVE  SentInOrder'
  <2>1. /\ queue'[h] = q /\ sent'[h] = w /\ requested'[h] = n
        /\ \A k \in Hook : k # h => queue'[k] = queue[k] /\ sent'[k] = sent[k] /\ requested'[k] = requested[k]
    BY <1>0, <1>2
  <2>2. \A k \in Hook : sent'[k] \o queue'[k] = Counted(requested'[k])
    BY <1>0, <1>2, <2>1
  <2> QED
    BY <2>2 DEF SentInOrder, Counted
<1>3. ASSUME NEW h \in Hook, SendFrom(h) PROVE SentInOrder'
  <2> DEFINE n == requested[h]
             q == Append(queue[h], n + 1)
             w == Append(sent[h], n + 1)
  <2>1. n \in Nat /\ n + 1 \in Nat /\ queue[h] \in Seq(Nat) /\ sent[h] \in Seq(Nat)
        /\ sent[h] \o queue[h] = Counted(n)
    BY <1>0
  <2>2. requested' = [requested EXCEPT ![h] = n + 1]
    BY <1>3 DEF SendFrom, send
  <2>3. sent[h] \o q = Counted(n + 1) /\ (queue[h] = <<>> => w \o queue[h] = Counted(n + 1))
    BY <2>1, CountOne
  <2>4. \/ /\ sent' = [sent EXCEPT ![h] = w] /\ queue' = queue
           /\ wsRef[h] # 0 /\ ready[wsRef[h]] = "open"
        \/ queue' = [queue EXCEPT ![h] = q] /\ sent' = sent
    BY <1>3 DEF SendFrom, send
  <2>5. queue = [queue EXCEPT ![h] = queue[h]] /\ sent = [sent EXCEPT ![h] = sent[h]]
    BY <1>0
  <2> HIDE DEF n, q, w
  <2>6. CASE queue' = [queue EXCEPT ![h] = q] /\ sent' = sent
    BY <1>2, <2>1, <2>2, <2>3, <2>5, <2>6
  <2>7. CASE /\ sent' = [sent EXCEPT ![h] = w] /\ queue' = queue
             /\ wsRef[h] # 0 /\ ready[wsRef[h]] = "open"
    <3>1. queue[h] = <<>>
      BY <2>7 DEF QueueInv
    <3> QED
      BY <1>2, <2>1, <2>2, <2>3, <2>5, <2>7, <3>1
  <2> QED
    BY <2>4, <2>6, <2>7
<1>4. ASSUME NEW s \in Socket, onopen(s) PROVE SentInOrder'
  <2> DEFINE h == owner[s]
             w == sent[h] \o queue[h]
  <2>1. h \in Hook /\ requested[h] \in Nat /\ queue[h] \in Seq(Nat) /\ sent[h] \in Seq(Nat)
        /\ w = Counted(requested[h])
    BY <1>0
  <2>2. w \o <<>> = Counted(requested[h])
    BY <2>1, CountOne
  <2>3. /\ queue' = [queue EXCEPT ![h] = <<>>] /\ sent' = [sent EXCEPT ![h] = w]
    BY <1>4 DEF onopen, Flushed
  <2>4. requested' = [requested EXCEPT ![h] = requested[h]]
    BY <1>0, <1>4 DEF onopen
  <2> HIDE DEF h, w
  <2> QED
    BY <1>2, <2>1, <2>2, <2>3, <2>4
<1>5. ASSUME NEW s \in Socket, onclose(s) PROVE SentInOrder'
  BY <1>1, <1>5 DEF onclose
<1>6. ASSUME NEW h \in Hook, NEW r, ConnectFrom(h, r) PROVE SentInOrder'
  BY <1>1, <1>6 DEF ConnectFrom
<1> QED
  BY <1>1, <1>3, <1>4, <1>5, <1>6, EveryClientStep

LEMMA CardinalityOfOneMore ==
  ASSUME NEW A, IsFiniteSet(A), NEW x, NEW B, B \subseteq A \union {x}
  PROVE  IsFiniteSet(B) /\ Cardinality(B) <= Cardinality(A) + 1
<1>1. IsFiniteSet(A \union {x}) /\ Cardinality(A \union {x}) <= Cardinality(A) + 1
  <2>1. Cardinality(A) \in Nat
    BY FS_CardinalityType
  <2>2. /\ IsFiniteSet(A \union {x})
        /\ Cardinality(A \union {x}) \in {Cardinality(A), Cardinality(A) + 1}
    BY FS_AddElement, Zenon
  <2> QED
    BY <2>1, <2>2
<1>2. IsFiniteSet(B) /\ Cardinality(B) <= Cardinality(A \union {x})
  BY <1>1, FS_Subset
<1> QED
  BY <1>1, <1>2, FS_CardinalityType

LEMMA CardinalityOfReplaced ==
  ASSUME NEW A, IsFiniteSet(A), NEW y \in A, NEW x, NEW B, B \subseteq (A \ {y}) \union {x}
  PROVE  IsFiniteSet(B) /\ Cardinality(B) <= Cardinality(A)
<1>1. IsFiniteSet(A \ {y}) /\ Cardinality(A \ {y}) = Cardinality(A) - 1
  BY FS_RemoveElement
<1>2. IsFiniteSet(B) /\ Cardinality(B) <= Cardinality(A \ {y}) + 1
  BY <1>1, CardinalityOfOneMore
<1> QED
  BY <1>1, <1>2, FS_CardinalityType

(* What remains active of a hook's sockets as another step's timers run. *)
Remaining(k) == {s \in Active(k) : ready[s] # "closed" \/ s \in timers'}

(* A connection adds one socket, to the hook that connects. *)
LEMMA ConnectAddsOne ==
  ASSUME ClientTypeOK, NEW h \in Hook, NEW r, ConnectFrom(h, r)
  PROVE  \E n : /\ (Active(h))' \subseteq Remaining(h) \union {n}
                /\ \A k \in Hook \ {h} : (Active(k))' \subseteq Remaining(k)
<1>0. /\ owner \in [Socket -> Hook] /\ ready \in [Socket -> ReadyState]
      /\ timers' \subseteq timers /\ r \in [Socket -> ReadyState]
      /\ \A s \in Socket : r[s] = ready[s] \/ (r[s] = "closing" /\ ready[s] \in Live)
  BY DEF ClientTypeOK, ConnectFrom, SameUnused
<1>1. \/ ready' = r /\ owner' = owner
      \/ \E n \in Socket : ready[n] = "unused" /\ Connects(h, r, n)
  BY ConnectStep DEF ConnectFrom
<1>2. ASSUME NEW n, NEW k \in Hook, NEW s \in (Active(k))', s # n,
             owner'[s] = owner[s], ready'[s] = r[s]
      PROVE  s \in Remaining(k)
  BY <1>0, <1>2 DEF Active, Remaining, Live
<1>3. CASE ready' = r /\ owner' = owner
  <2>1. \A k \in Hook : (Active(k))' \subseteq Remaining(k)
    BY <1>0, <1>3 DEF Active, Remaining, Live
  <2> QED
    BY <2>1
<1>4. ASSUME NEW n \in Socket, ready[n] = "unused", Connects(h, r, n)
      PROVE  /\ (Active(h))' \subseteq Remaining(h) \union {n}
             /\ \A k \in Hook \ {h} : (Active(k))' \subseteq Remaining(k)
  <2>1. owner'[n] = h /\ \A s \in Socket : s # n => owner'[s] = owner[s] /\ ready'[s] = r[s]
    BY <1>0, <1>4 DEF Connects
  <2>2. \A k \in Hook : \A s \in (Active(k))' : s \in Socket /\ owner'[s] = k
    BY DEF Active
  <2> QED
    BY <1>2, <2>1, <2>2
<1> QED
  BY <1>1, <1>3, <1>4

(* A hook's bound does not shrink. *)
LEMMA MountedGrows ==
  ASSUME ClientTypeOK, [ClientNext]_clientVars, NEW h \in Hook
  PROVE  /\ Mounted(h) \in 0 .. 1 /\ (Mounted(h))' \in 0 .. 1 /\ Mounted(h) <= (Mounted(h))'
         /\ reconnects \in Nat /\ reconnects' \in Nat /\ reconnects <= reconnects'
<1>1. shown \in Nat /\ shown' \in {shown, shown + 1} /\ reconnects' \in {reconnects, reconnects + 1}
  <2>1. shown \in Nat
    BY ClientAssumption DEF ClientTypeOK
  <2>2. CASE Mount \/ reconnect \/ \E s \in Socket : TimerFires(s)
    BY <2>1, <2>2 DEF Mount, reconnect, TimerFires
  <2>3. CASE \E s \in Socket : onopen(s) \/ Closed(s) \/ Lost(s) \/ onmessage(s)
    BY <2>1, <2>3 DEF onopen, Closed, Lost, onclose, onmessage
  <2>4. CASE handleSend \/ sendCancel \/ sendApproval \/ clearMessages \/ UNCHANGED clientVars
    BY <2>1, <2>4 DEF handleSend, sendCancel, sendApproval, send, clearMessages, clientVars
  <2> QED
    BY <2>1, <2>2, <2>3, <2>4 DEF ClientNext
<1>2. h # Modal => h \in Nat
  BY ClientAssumption DEF Hook
<1> QED
  BY <1>1, <1>2 DEF Mounted, ClientTypeOK

LEMMA ActiveNext == ClientTypeOK /\ ActiveInv /\ [ClientNext]_clientVars => ActiveInv'
<1> SUFFICES ASSUME ClientTypeOK, ActiveInv, [ClientNext]_clientVars,
                    NEW k \in Hook
             PROVE  /\ IsFiniteSet((Active(k))')
                    /\ Cardinality((Active(k))') <= (Mounted(k))' + reconnects'
  BY DEF ActiveInv
<1>0. /\ IsFiniteSet(Active(k)) /\ Cardinality(Active(k)) <= Mounted(k) + reconnects
      /\ Cardinality(Active(k)) \in Nat
  BY FS_CardinalityType DEF ActiveInv
<1>1. /\ Mounted(k) \in 0 .. 1 /\ (Mounted(k))' \in 0 .. 1 /\ Mounted(k) <= (Mounted(k))'
      /\ reconnects \in Nat /\ reconnects' \in Nat /\ reconnects <= reconnects'
  BY MountedGrows
<1>2. ASSUME (Active(k))' \subseteq Active(k)
      PROVE  /\ IsFiniteSet((Active(k))')
             /\ Cardinality((Active(k))') <= (Mounted(k))' + reconnects'
  <2>1. IsFiniteSet((Active(k))') /\ Cardinality((Active(k))') <= Cardinality(Active(k))
    BY <1>0, <1>2, FS_Subset
  <2> QED
    BY <1>0, <1>1, <2>1, FS_CardinalityType
<1>3. ASSUME NEW h \in Hook, NEW r, ConnectFrom(h, r),
             k = h => \/ (Mounted(k))' + reconnects' >= Mounted(k) + reconnects + 1
                      \/ \E s \in Active(k) : ready[s] = "closed" /\ s \notin timers'
      PROVE  /\ IsFiniteSet((Active(k))')
             /\ Cardinality((Active(k))') <= (Mounted(k))' + reconnects'
  <2>1. PICK n : /\ (Active(h))' \subseteq Remaining(h) \union {n}
                 /\ \A j \in Hook \ {h} : (Active(j))' \subseteq Remaining(j)
    BY <1>3, ConnectAddsOne
  <2>2. Remaining(k) \subseteq Active(k)
    BY DEF Remaining
  <2>3. CASE k # h
    BY <1>2, <2>1, <2>2, <2>3
  <2>4. CASE k = h /\ (Mounted(k))' + reconnects' >= Mounted(k) + reconnects + 1
    <3>1. (Active(k))' \subseteq Active(k) \union {n}
      BY <2>1, <2>2, <2>4
    <3>2. IsFiniteSet((Active(k))') /\ Cardinality((Active(k))') <= Cardinality(Active(k)) + 1
      BY <1>0, <3>1, CardinalityOfOneMore
    <3> QED
      BY <1>0, <1>1, <2>4, <3>2, FS_CardinalityType
  <2>5. ASSUME k = h, NEW s \in Active(k), ready[s] = "closed", s \notin timers'
        PROVE  /\ IsFiniteSet((Active(k))')
               /\ Cardinality((Active(k))') <= (Mounted(k))' + reconnects'
    <3>1. (Active(k))' \subseteq (Active(k) \ {s}) \union {n}
      BY <2>1, <2>5 DEF Remaining
    <3>2. IsFiniteSet((Active(k))') /\ Cardinality((Active(k))') <= Cardinality(Active(k))
      BY <1>0, <3>1, CardinalityOfReplaced
    <3> QED
      BY <1>0, <1>1, <3>2, FS_CardinalityType
  <2> QED
    BY <1>3, <2>3, <2>4, <2>5
<1>4. SameUnused(ready) /\ SameUnused(Closing(shown, ready))
      /\ \A s \in Socket : \/ Closing(shown, ready)[s] = ready[s]
                           \/ Closing(shown, ready)[s] = "closing" /\ ready[s] \in Live
  BY CloseIsOfOneInUse
<1>5. CASE Mount
  <2>1. shown' = shown + 1 /\ shown + 1 \in ChatView /\ shown + 1 \in Hook /\ timers' \subseteq timers
        /\ UNCHANGED <<given, queue, requested, sent, reconnects>>
    BY <1>5 DEF Mount, Hook
  <2>2. connect(shown + 1, ready) \/ connect(shown + 1, Closing(shown, ready))
    BY <1>5 DEF Mount
  <2>3. ConnectFrom(shown + 1, ready) \/ ConnectFrom(shown + 1, Closing(shown, ready))
    BY <1>4, <2>1, <2>2 DEF ConnectFrom, ClientTypeOK
  <2>4. k = shown + 1 => (Mounted(k))' + reconnects' >= Mounted(k) + reconnects + 1
    <3>1. shown \in Nat /\ shown + 1 # Modal
      BY <2>1, ClientAssumption DEF ClientTypeOK
    <3>2. k = shown + 1 => Mounted(k) = 0 /\ (Mounted(k))' = 1
      BY <2>1, <3>1 DEF Mounted
    <3> QED
      BY <1>1, <2>1, <3>2
  <2> QED
    BY <1>3, <2>1, <2>3, <2>4
<1>6. CASE reconnect
  <2>1. shown \in Hook /\ ConnectFrom(shown, Closing(shown, ready))
        /\ reconnects' = reconnects + 1
    BY <1>4, <1>6 DEF ConnectFrom, ClientTypeOK, reconnect, Hook
  <2>2. (Mounted(k))' + reconnects' >= Mounted(k) + reconnects + 1
    BY <1>1, <2>1
  <2> QED
    BY <1>3, <2>1, <2>2
<1>7. ASSUME NEW s \in Socket, TimerFires(s)
      PROVE  /\ IsFiniteSet((Active(k))')
             /\ Cardinality((Active(k))') <= (Mounted(k))' + reconnects'
  <2>1. ConnectFrom(owner[s], ready) /\ owner[s] \in Hook /\ s \notin timers'
        /\ s \in Active(owner[s]) /\ ready[s] = "closed"
    BY <1>4, <1>7 DEF ConnectFrom, ClientTypeOK, TimerFires, TimersAfter, Active
  <2> QED
    BY <1>3, <2>1
<1>8. ASSUME NEW s \in Socket, onopen(s) \/ Closed(s) \/ Lost(s)
      PROVE  /\ IsFiniteSet((Active(k))')
             /\ Cardinality((Active(k))') <= (Mounted(k))' + reconnects'
  <2>1. (Active(k))' \subseteq Active(k)
    BY <1>8 DEF onopen, Closed, Lost, onclose, Reconnects, Active, Live, ClientTypeOK
  <2> QED
    BY <1>2, <2>1
<1>9. CASE UNCHANGED <<owner, ready, timers>>
  <2>1. (Active(k))' \subseteq Active(k)
    BY <1>9 DEF Active
  <2> QED
    BY <1>2, <2>1
<1>10. ASSUME handleSend \/ sendCancel \/ sendApproval \/ clearMessages \/ UNCHANGED clientVars
              \/ \E s \in Socket : onmessage(s)
       PROVE  UNCHANGED <<owner, ready, timers>>
  BY <1>10 DEF handleSend, sendCancel, sendApproval, send, clearMessages, clientVars, onmessage, linkVars
<1> QED
  BY <1>5, <1>6, <1>7, <1>8, <1>9, <1>10 DEF ClientNext

LEMMA ClientStarts == ClientInit => ClientInv
<1> SUFFICES ASSUME ClientInit PROVE ClientInv
  OBVIOUS
<1>1. <<>> \in Seq(Nat) /\ 0 \in Nat
  OBVIOUS
<1>2. ClientTypeOK
  BY <1>1 DEF ClientInit, ClientTypeOK, Hook, ReadyState
<1>3. QueueInv
  BY DEF ClientInit, QueueInv
<1>4. SentInOrder
  BY DEF ClientInit, SentInOrder
<1>5. ActiveInv
  <2> SUFFICES ASSUME NEW h \in Hook
               PROVE  IsFiniteSet(Active(h)) /\ Cardinality(Active(h)) <= Mounted(h) + reconnects
    BY DEF ActiveInv
  <2>1. Active(h) = {}
    BY DEF ClientInit, Active
  <2>2. IsFiniteSet(Active(h)) /\ Cardinality(Active(h)) = 0
    BY <2>1, FS_EmptySet
  <2>3. Mounted(h) \in 0 .. 1 /\ reconnects = 0
    BY DEF Mounted, ClientInit
  <2> QED
    BY <2>2, <2>3
<1> QED
  BY <1>2, <1>3, <1>4, <1>5 DEF ClientInv

(* What a hook is asked to send goes once and in order, over whatever      *)
(* sockets (useWebSocket.ts, send and onopen); and a hook has two live     *)
(* sockets only where reconnect was called.                                *)
THEOREM ClientKeepsItsWord == Spec => []LinkIsSound
<1>1. Init => ClientInv
  BY ClientStarts DEF Init
<1>2. ClientInv /\ [Next]_vars => ClientInv'
  <2>1. [Next]_vars => [ClientNext]_clientVars
    BY PartsStep
  <2> QED
    BY <2>1, ClientTypeNext, ClientQueueNext, SentNext, ActiveNext DEF ClientInv
<1>3. ClientInv => LinkIsSound
  <2> SUFFICES ASSUME ClientInv PROVE LinkIsSound
    OBVIOUS
  <2>1. ASSUME NEW h \in Hook
        PROVE  Cardinality({s \in Socket : owner[s] = h /\ ready[s] \in Live}) <= 1 + reconnects
    <3> DEFINE L == {s \in Socket : owner[s] = h /\ ready[s] \in Live}
    <3>1. L \subseteq Active(h)
      BY DEF Active, Live
    <3>2. /\ IsFiniteSet(Active(h)) /\ Cardinality(Active(h)) <= Mounted(h) + reconnects
          /\ reconnects \in Nat /\ Mounted(h) \in 0 .. 1
      BY DEF ClientInv, ActiveInv, ClientTypeOK, Mounted
    <3>3. IsFiniteSet(L) /\ Cardinality(L) <= Cardinality(Active(h))
      BY <3>1, <3>2, FS_Subset
    <3> HIDE DEF L
    <3>4. Cardinality(L) <= 1 + reconnects
      BY <3>2, <3>3, FS_CardinalityType
    <3> QED
      BY <3>4 DEF L
  <2> QED
    BY <2>1 DEF ClientInv, LinkIsSound, SecondSocketNeedsReconnect
<1> QED
  BY <1>1, <1>2, <1>3, PTL DEF Spec
==============================================================================
