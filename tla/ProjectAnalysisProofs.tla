------------------------ MODULE ProjectAnalysisProofs ------------------------
(***************************************************************************)
(* Proofs about ProjectAnalysis, for every value of its constants.         *)
(***************************************************************************)
EXTENDS ProjectAnalysis, FiniteSetTheorems, FunctionTheorems, WellFoundedInduction, TLAPS

-----------------------------------------------------------------------------
(* Sums of lengths, by induction on their number                           *)

LEMMA Induction ==
  ASSUME NEW S, 0 \in S, \A n \in Nat : n \in S => n + 1 \in S, NEW n \in Nat
  PROVE  n \in S
<1>1. SUFFICES ASSUME n \notin S PROVE FALSE
  OBVIOUS
<1> DEFINE T == {k \in Nat : k \notin S}
<1>2. IsWellFoundedOn(OpToRel(<, Nat), Nat)
  BY NatLessThanWellFounded
<1>3. PICK k \in T : \A j \in T : <<j, k>> \notin OpToRel(<, Nat)
  <2>1. T \subseteq Nat /\ T # {}
    BY <1>1
  <2> HIDE DEF T
  <2>. QED BY <1>2, <2>1, WFMin
<1>4. k \in Nat /\ k \notin S
  BY <1>3
<1>6. k # 0
  BY <1>4
<1>7. k - 1 \in Nat /\ k - 1 < k /\ (k - 1) + 1 = k
  BY <1>4, <1>6
<1>5. k - 1 \notin T
  BY <1>3, <1>4, <1>7 DEF OpToRel
<1>. QED BY <1>4, <1>7, <1>5


(* A sequence's running totals, as SumTo defines them.                     *)
Sums(w, n, f) == f = [i \in 0..n |-> IF i = 0 THEN 0 ELSE f[i - 1] + w[i]]

LEMMA SumsAre ==
  ASSUME NEW w, NEW n, NEW f, Sums(w, n, f), NEW i \in 0..n
  PROVE  f[i] = IF i = 0 THEN 0 ELSE f[i - 1] + w[i]
<1> DEFINE g == [j \in 0..n |-> IF j = 0 THEN 0 ELSE f[j - 1] + w[j]]
<1>1. f = g
  BY DEF Sums
<1>2. g[i] = IF i = 0 THEN 0 ELSE f[i - 1] + w[i]
  OBVIOUS
<1>. QED BY <1>1, <1>2, Zenon

LEMMA SumsExist ==
  ASSUME NEW w, NEW n \in Nat
  PROVE  \E f : Sums(w, n, f)
<1> DEFINE S == {k \in Nat : \E f : Sums(w, k, f)}
<1>1. 0 \in S
  <2>1. Sums(w, 0, [i \in 0..0 |-> 0])
    BY DEF Sums
  <2>. QED BY <2>1
<1>2. ASSUME NEW k \in Nat, k \in S
      PROVE  k + 1 \in S
  <2>1. PICK f : Sums(w, k, f)
    BY <1>2
  <2> DEFINE g == [i \in 0..(k + 1) |-> IF i = 0 THEN 0 ELSE f[i - 1] + w[i]]
  <2>2. ASSUME NEW i \in 0..k
        PROVE  g[i] = f[i]
    BY <2>1, SumsAre
  <2>3. g = [i \in 0..(k + 1) |-> IF i = 0 THEN 0 ELSE g[i - 1] + w[i]]
    <3>1. \A i \in 0..(k + 1) : i # 0 => i - 1 \in 0..k
      OBVIOUS
    <3>2. \A i \in 0..(k + 1) : i # 0 => g[i - 1] = f[i - 1]
      BY <2>2, <3>1
    <3>. QED BY <3>2
  <2>4. Sums(w, k + 1, g)
    BY <2>3 DEF Sums
  <2>. QED BY <2>4
<1>. QED
  <2> HIDE DEF S
  <2>1. n \in S
    BY <1>1, <1>2, Induction
  <2>. QED BY <2>1 DEF S

LEMMA SumsAgree ==
  ASSUME NEW w, NEW n \in Nat, NEW m \in Nat, NEW f, NEW g, Sums(w, n, f), Sums(w, m, g),
         NEW i \in Nat, i <= n, i <= m
  PROVE  f[i] = g[i]
<1> DEFINE S == {k \in Nat : k <= n /\ k <= m => f[k] = g[k]}
<1>1. 0 \in S
  BY SumsAre
<1>2. ASSUME NEW k \in Nat, k \in S
      PROVE  k + 1 \in S
  <2>1. SUFFICES ASSUME k + 1 <= n, k + 1 <= m
                 PROVE  f[k + 1] = g[k + 1]
    OBVIOUS
  <2>2. f[k] = g[k] /\ k + 1 # 0 /\ (k + 1) - 1 = k /\ k + 1 \in 0..n /\ k + 1 \in 0..m
    BY <1>2, <2>1
  <2>3. f[k + 1] = f[k] + w[k + 1] /\ g[k + 1] = g[k] + w[k + 1]
    BY <2>2, SumsAre
  <2>. QED BY <2>2, <2>3
<1>. QED
  <2> HIDE DEF S
  <2>1. i \in S
    BY <1>1, <1>2, Induction
  <2>. QED BY <2>1 DEF S

(* What is added up one after another.                                     *)
LEMMA SumIs ==
  ASSUME NEW w
  PROVE  /\ SumTo(w, 0) = 0
         /\ \A n \in Nat \ {0} : SumTo(w, n) = SumTo(w, n - 1) + w[n]
<1> DEFINE sum(n) == CHOOSE f : Sums(w, n, f)
<1>1. ASSUME NEW n \in Nat
      PROVE  Sums(w, n, sum(n)) /\ SumTo(w, n) = sum(n)[n]
  <2>1. Sums(w, n, sum(n))
    BY SumsExist
  <2>2. SumTo(w, n) = sum(n)[n]
    BY DEF SumTo, Sums
  <2>. QED BY <2>1, <2>2
<1> HIDE DEF sum
<1>2. SumTo(w, 0) = 0
  BY <1>1, SumsAre
<1>3. ASSUME NEW n \in Nat \ {0}
      PROVE  SumTo(w, n) = SumTo(w, n - 1) + w[n]
  <2>1. n - 1 \in Nat /\ n - 1 <= n /\ n \in 0..n /\ n # 0
    OBVIOUS
  <2>2. SumTo(w, n) = sum(n)[n - 1] + w[n]
    BY <1>1, <2>1, SumsAre
  <2>3. sum(n)[n - 1] = sum(n - 1)[n - 1]
    BY <1>1, <2>1, SumsAgree
  <2>. QED BY <1>1, <2>1, <2>2, <2>3
<1>. QED BY <1>2, <1>3

LEMMA SumTyped ==
  ASSUME NEW w, NEW n \in Nat, \A i \in 1..n : w[i] \in Nat, NEW i \in 0..n
  PROVE  SumTo(w, i) \in Nat
<1> DEFINE S == {k \in Nat : k <= n => SumTo(w, k) \in Nat}
<1>1. 0 \in S
  BY SumIs
<1>2. ASSUME NEW k \in Nat, k \in S
      PROVE  k + 1 \in S
  <2>1. SumTo(w, k + 1) = SumTo(w, k) + w[k + 1]
    BY SumIs
  <2>. QED BY <1>2, <2>1
<1>. QED
  <2> HIDE DEF S
  <2>1. i \in S
    BY <1>1, <1>2, Induction
  <2>. QED BY <2>1 DEF S

LEMMA SumAtMost ==
  ASSUME NEW w, NEW n \in Nat, NEW most \in Nat, \A i \in 1..n : w[i] \in 0..most
  PROVE  SumTo(w, n) \in 0..(most * n)
<1> DEFINE S == {k \in Nat : k <= n => SumTo(w, k) \in 0..(most * k)}
<1>1. 0 \in S
  BY SumIs
<1>2. ASSUME NEW k \in Nat, k \in S
      PROVE  k + 1 \in S
  <2>1. SUFFICES ASSUME k + 1 <= n
                 PROVE  SumTo(w, k + 1) \in 0..(most * (k + 1))
    OBVIOUS
  <2>2. SumTo(w, k) \in 0..(most * k) /\ w[k + 1] \in 0..most
    BY <1>2, <2>1
  <2>3. SumTo(w, k + 1) = SumTo(w, k) + w[k + 1]
    BY SumIs
  <2>4. most * (k + 1) = most * k + most /\ most * k \in Nat
    OBVIOUS
  <2>. QED BY <2>2, <2>3, <2>4
<1>. QED
  <2> HIDE DEF S
  <2>1. n \in S
    BY <1>1, <1>2, Induction
  <2>. QED BY <2>1 DEF S

(* Room that is handed out one after another is never overdrawn.           *)
HandedOut(w, given, n, room) ==
  \A i \in 1..n : /\ w[i] \in Nat /\ given[i] \in Nat /\ given[i] <= w[i]
                  /\ given[i] = 0 \/ given[i] <= room - SumTo(w, i - 1)

LEMMA NeverOverdrawn ==
  ASSUME NEW w, NEW given, NEW n \in Nat, NEW room \in Nat, HandedOut(w, given, n, room)
  PROVE  SumTo(given, n) <= room /\ SumTo(given, n) \in Nat
<1> DEFINE S == {k \in Nat : k <= n => /\ SumTo(given, k) \in Nat /\ SumTo(w, k) \in Nat
                                       /\ SumTo(given, k) <= room
                                       /\ SumTo(given, k) <= SumTo(w, k)}
<1>1. 0 \in S
  BY SumIs
<1>2. ASSUME NEW k \in Nat, k \in S
      PROVE  k + 1 \in S
  <2>1. SUFFICES ASSUME k + 1 <= n
                 PROVE  /\ SumTo(given, k + 1) \in Nat /\ SumTo(w, k + 1) \in Nat
                        /\ SumTo(given, k + 1) <= room
                        /\ SumTo(given, k + 1) <= SumTo(w, k + 1)
    OBVIOUS
  <2>2. /\ SumTo(given, k) \in Nat /\ SumTo(w, k) \in Nat
        /\ SumTo(given, k) <= room /\ SumTo(given, k) <= SumTo(w, k)
    BY <1>2, <2>1
  <2>3. /\ SumTo(given, k + 1) = SumTo(given, k) + given[k + 1]
        /\ SumTo(w, k + 1) = SumTo(w, k) + w[k + 1]
    <3>1. k + 1 \in Nat \ {0} /\ (k + 1) - 1 = k
      OBVIOUS
    <3>. QED BY <3>1, SumIs
  <2>4. /\ w[k + 1] \in Nat /\ given[k + 1] \in Nat /\ given[k + 1] <= w[k + 1]
        /\ given[k + 1] = 0 \/ given[k + 1] <= room - SumTo(w, k)
    <3>1. k + 1 \in 1..n /\ (k + 1) - 1 = k
      BY <2>1
    <3>2. given[k + 1] = 0 \/ given[k + 1] <= room - SumTo(w, (k + 1) - 1)
      BY <3>1 DEF HandedOut
    <3>. QED BY <3>1, <3>2 DEF HandedOut
  <2>. QED BY <2>2, <2>3, <2>4
<1>. QED
  <2> HIDE DEF S
  <2>1. n \in S
    BY <1>1, <1>2, Induction
  <2>. QED BY <2>1 DEF S

-----------------------------------------------------------------------------
(* Files in tree order                                                     *)

LEMMA RangeFinite ==
  ASSUME NEW S, NEW s \in Seq(S)
  PROVE  IsFiniteSet(Range(s))
<1>1. DOMAIN s = 1..Len(s) /\ Len(s) \in Nat
  OBVIOUS
<1>2. s \in [1..Len(s) -> Range(s)]
  BY <1>1 DEF Range
<1>3. s \in Surjection(1..Len(s), Range(s))
  BY <1>1, <1>2 DEF Range, Surjection
<1>4. IsFiniteSet(1..Len(s))
  BY <1>1, FS_Interval
<1>. QED BY <1>3, <1>4, FS_Surjection

LEMMA PlaceIs ==
  /\ IsFiniteSet(Path)
  /\ \A p \in Path : Place[p] \in Nat
  /\ \A p, q \in Path : p # q => Precedes(p, q) \/ Precedes(q, p)
<1>1. DOMAIN PathOrder = 1..30
  BY DEF PathOrder
<1>2. \A p \in Path : Place[p] \in 1..30 /\ PathOrder[Place[p]] = p
  BY <1>1 DEF Place, Path, Range
<1>3. \A p \in Path : Place[p] \in Nat
  BY <1>2
<1>4. ASSUME NEW p \in Path, NEW q \in Path, p # q
      PROVE  Precedes(p, q) \/ Precedes(q, p)
  <2>1. Place[p] # Place[q]
    BY <1>2, <1>4
  <2>. QED BY <1>2, <2>1 DEF Precedes
<1>5. IsFiniteSet(Path)
  <2>1. PathOrder \in Seq(Path)
    BY DEF PathOrder, Path, Range
  <2>. QED BY <2>1, RangeFinite DEF Path
<1>. QED BY <1>3, <1>4, <1>5

Rank(S, p) == Cardinality({q \in S : Precedes(q, p)})

LEMMA Ranks ==
  ASSUME NEW S \in SUBSET Path
  PROVE  /\ IsFiniteSet(S) /\ Cardinality(S) \in Nat
         /\ \A p \in S : Rank(S, p) \in 0..(Cardinality(S) - 1) /\ Rank(S, p) \in Nat
         /\ \A p, q \in S : Precedes(p, q) => Rank(S, p) < Rank(S, q)
<1>1. IsFiniteSet(S) /\ Cardinality(S) \in Nat
  BY PlaceIs, FS_Subset, FS_CardinalityType
<1> DEFINE Ahead(p) == {q \in S : Precedes(q, p)}
<1>2. \A p \in S : /\ IsFiniteSet(Ahead(p)) /\ Cardinality(Ahead(p)) \in Nat
                   /\ p \notin Ahead(p)
  <2>1. \A p \in S : Ahead(p) \in SUBSET S
    OBVIOUS
  <2>2. \A p \in S : p \notin Ahead(p)
    BY PlaceIs DEF Precedes
  <2> HIDE DEF Ahead
  <2>. QED BY <1>1, <2>1, <2>2, FS_Subset, FS_CardinalityType
<1>3. ASSUME NEW p \in S
      PROVE  Cardinality(Ahead(p)) \in 0..(Cardinality(S) - 1) /\ Cardinality(Ahead(p)) \in Nat
  <2>1. Ahead(p) \in SUBSET S /\ Ahead(p) # S
    BY <1>2
  <2> HIDE DEF Ahead
  <2>2. Cardinality(Ahead(p)) <= Cardinality(S) /\ Cardinality(Ahead(p)) # Cardinality(S)
    BY <1>1, <2>1, FS_Subset
  <2>. QED BY <1>1, <1>2, <2>2
<1>4. ASSUME NEW p \in S, NEW q \in S, Precedes(p, q)
      PROVE  Cardinality(Ahead(p)) < Cardinality(Ahead(q))
  <2>1. Ahead(p) \in SUBSET Ahead(q) /\ p \in Ahead(q) /\ p \notin Ahead(p)
    BY <1>2, <1>4, PlaceIs DEF Precedes
  <2> HIDE DEF Ahead
  <2>2. Cardinality(Ahead(p)) <= Cardinality(Ahead(q)) /\ Cardinality(Ahead(p)) # Cardinality(Ahead(q))
    BY <1>2, <2>1, FS_Subset
  <2>. QED BY <1>2, <2>2
<1>. QED BY <1>1, <1>3, <1>4 DEF Rank

(* Every place in the order is somebody's.                                 *)
LEMMA OrderedIs ==
  ASSUME NEW S \in SUBSET Path
  PROVE  /\ Ordered(S) \in Seq(S) /\ Len(Ordered(S)) = Cardinality(S)
         /\ \A i \in 1..Cardinality(S) : Ordered(S)[i] \in S /\ Rank(S, Ordered(S)[i]) = i - 1
<1> DEFINE n == Cardinality(S)
           r == [p \in S |-> Rank(S, p)]
<1>1. IsFiniteSet(S) /\ n \in Nat
  BY Ranks
<1>2. r \in Injection(S, 0..(n - 1))
  <2>1. \A p, q \in S : p # q => Rank(S, p) # Rank(S, q)
    BY Ranks, PlaceIs
  <2>2. r \in [S -> 0..(n - 1)]
    BY Ranks
  <2>. QED BY <2>1, <2>2 DEF Injection, IsInjective
<1>3. IsFiniteSet(0..(n - 1)) /\ Cardinality(0..(n - 1)) = n
  BY <1>1, FS_Interval
<1>4. r \in Surjection(S, 0..(n - 1))
  <2> HIDE DEF r, n
  <2>. QED BY <1>1, <1>2, <1>3, FS_Injection DEF n
<1>5. ASSUME NEW i \in 1..n
      PROVE  \E p \in S : Rank(S, p) = i - 1
  <2>1. i - 1 \in 0..(n - 1)
    BY <1>1
  <2>2. PICK p \in S : r[p] = i - 1
    BY <1>4, <2>1 DEF Surjection
  <2>. QED BY <2>2
<1>6. ASSUME NEW i \in 1..n
      PROVE  Ordered(S)[i] \in S /\ Rank(S, Ordered(S)[i]) = i - 1
  BY <1>5, <1>6 DEF Ordered, Rank
<1>7. Ordered(S) = [i \in 1..n |-> Ordered(S)[i]]
  <2> DEFINE one(i) == CHOOSE p \in S : Cardinality({q \in S : Precedes(q, p)}) = i - 1
             o == [i \in 1..n |-> one(i)]
  <2>1. Ordered(S) = o
    BY DEF Ordered
  <2>2. o = [i \in 1..n |-> o[i]]
    <3> HIDE DEF one
    <3>. QED OBVIOUS
  <2>. QED BY <2>1, <2>2, Zenon
<1>. QED
  <2> HIDE DEF n, r
  <2>1. Ordered(S) \in Seq(S) /\ Len(Ordered(S)) = n
    BY <1>1, <1>6, <1>7
  <2>. QED BY <1>6, <2>1 DEF n

(* The first files up to a limit begin with the first of all.              *)
LEMMA FirstOfFirst ==
  ASSUME NEW S \in SUBSET Path, NEW k \in Nat \ {0}
  PROVE  LET T == {p \in S : Rank(S, p) < k} IN
           /\ T \in SUBSET Path /\ T = {} <=> S = {}
           /\ S # {} => Ordered(T)[1] = Ordered(S)[1] /\ Ordered(S)[1] \in T
<1> DEFINE T == {p \in S : Rank(S, p) < k}
           a == Ordered(S)[1]
           b == Ordered(T)[1]
<1>1. T \in SUBSET Path
  OBVIOUS
<1>2. ASSUME S # {}
      PROVE  a \in T /\ a = b
  <2>1. 1 \in 1..Cardinality(S)
    BY <1>2, Ranks, FS_EmptySet
  <2>2. a \in S /\ Rank(S, a) = 0
    BY <2>1, OrderedIs
  <2>3. a \in T
    BY <2>2
  <2>4. 1 \in 1..Cardinality(T)
    <3> HIDE DEF T
    <3>. QED BY <1>1, <2>3, Ranks, FS_EmptySet
  <2>5. b \in T /\ Rank(T, b) = 0
    <3> HIDE DEF T
    <3>. QED BY <1>1, <2>4, OrderedIs
  <2>6. ~Precedes(b, a) /\ ~Precedes(a, b)
    <3>1. Rank(S, b) \in Nat /\ Rank(T, a) \in Nat
      <4>1. b \in S
        BY <2>5
      <4> HIDE DEF T
      <4>2. Rank(S, b) \in Nat
        BY <4>1, Ranks
      <4>3. Rank(T, a) \in Nat
        BY <1>1, <2>3, Ranks
      <4>. QED BY <4>2, <4>3
    <3>2. b \in S /\ a \in S
      BY <2>2, <2>5
    <3>3. ~Precedes(b, a)
      <4> HIDE DEF T, a, b
      <4>1. Precedes(b, a) => Rank(S, b) < Rank(S, a)
        BY <3>2, Ranks
      <4>. QED BY <2>2, <3>1, <4>1
    <3>4. ~Precedes(a, b)
      <4> HIDE DEF T
      <4>1. Precedes(a, b) => Rank(T, a) < Rank(T, b)
        <5> HIDE DEF a, b
        <5>. QED BY <1>1, <2>3, <2>5, Ranks
      <4> HIDE DEF a, b
      <4>. QED BY <2>5, <3>1, <4>1
    <3>. QED BY <3>3, <3>4
  <2>. QED BY <2>2, <2>3, <2>5, <2>6, PlaceIs
<1>. QED BY <1>1, <1>2

-----------------------------------------------------------------------------
(* What a scan without limits would find                                   *)

FetchedOf(tree) == [c \in Category |-> Fetched(tree, c)]
FoundIn(tree) == [c \in Category |-> tree \cap Matched[c]]

LEMMA CategoryIs ==
  /\ Category = {"readme", "ci", "tests", "license", "linting", "dependencies", "docs", "ai"}
  /\ \A c \in Category : Limit[c] \in Nat \ {0}
BY DEF Category, Matched, Limit

LEMMA FetchedIs ==
  ASSUME NEW tree \in SUBSET Path, NEW c \in Category
  PROVE  /\ FetchedOf(tree)[c] = {p \in FoundIn(tree)[c] : Rank(FoundIn(tree)[c], p) < Limit[c]}
         /\ FoundIn(tree)[c] \in SUBSET Path /\ FetchedOf(tree)[c] \in SUBSET FoundIn(tree)[c]
         /\ FoundIn(tree)[c] = tree \cap Matched[c]
BY DEF FetchedOf, FoundIn, Fetched, Rank

LEMMA FirstIsFirst ==
  ASSUME NEW tree \in SUBSET Path, NEW c \in Category
  PROVE  First(FetchedOf(tree), c) = First(FoundIn(tree), c)
<1> DEFINE S == FoundIn(tree)[c]
           T == FetchedOf(tree)[c]
<1>1. S \in SUBSET Path /\ Limit[c] \in Nat \ {0} /\ T = {p \in S : Rank(S, p) < Limit[c]}
  <2>1. T = {p \in S : Rank(S, p) < Limit[c]} /\ S \in SUBSET Path
    BY FetchedIs, Zenon
  <2>2. Limit[c] \in Nat \ {0}
    BY CategoryIs
  <2>. QED BY <2>1, <2>2
<1> HIDE DEF S, T
<1>2. (T = {} <=> S = {}) /\ (S # {} => Ordered(T)[1] = Ordered(S)[1])
  BY <1>1, FirstOfFirst
<1>. QED BY <1>2 DEF First, S, T

LEMMA AllCIFetched ==
  ASSUME NEW tree \in SUBSET Path
  PROVE  FetchedOf(tree)["ci"] = FoundIn(tree)["ci"]
<1> DEFINE S == FoundIn(tree)["ci"]
<1>1. "ci" \in Category /\ Limit["ci"] = 3
  BY CategoryIs DEF Limit
<1>2. S \in SUBSET Path /\ S \subseteq CIMatchers
  <2>1. Matched["ci"] = CIMatchers
    BY DEF Matched
  <2>2. S \in SUBSET Path /\ S = tree \cap Matched["ci"]
    BY <1>1, FetchedIs, Zenon
  <2>. QED BY <2>1, <2>2
<1>3. \A T \in SUBSET CIMatchers : Cardinality(T) < 3
  <2> DEFINE a == ".github/workflows/ci.yml"
             b == "Jenkinsfile"
  <2>1. CIMatchers = {a} \cup {b}
    BY DEF CIMatchers
  <2> HIDE DEF a, b
  <2>2. IsFiniteSet({a}) /\ Cardinality({a}) = 1
    BY FS_Singleton
  <2>3. IsFiniteSet(CIMatchers) /\ Cardinality(CIMatchers) \in {1, 2}
    BY <2>1, <2>2, FS_AddElement
  <2>. QED BY <2>3, FS_Subset, FS_CardinalityType
<1>4. \A p \in S : Rank(S, p) < 3
  <2>1. \A p \in S : {q \in S : Precedes(q, p)} \in SUBSET CIMatchers
    BY <1>2
  <2>. QED BY <1>3, <2>1 DEF Rank
<1>. QED
  <2>1. FetchedOf(tree)["ci"] = {p \in S : Rank(S, p) < Limit["ci"]}
    BY <1>1, FetchedIs, Zenon
  <2> HIDE DEF S
  <2>2. FetchedOf(tree)["ci"] = S
    BY <1>1, <1>4, <2>1
  <2>. QED BY <2>2 DEF S

LEMMA NothingMadeUpOf ==
  ASSUME NEW tree \in SUBSET Path, NEW m \in Metric
  PROVE  Evaluation(tree, FetchedOf(tree))[m] \subseteq Evaluation(tree, FoundIn(tree))[m]
<1> DEFINE fs == FetchedOf(tree)
           all == FoundIn(tree)
<1>1. \A c \in Category : First(fs, c) = First(all, c)
  BY FirstIsFirst
<1>2. \A c \in Category : fs[c] \subseteq all[c]
  BY FetchedIs
<1>3. CIFile(fs) = CIFile(all)
  BY <1>1, AllCIFetched, CategoryIs DEF CIFile
<1> HIDE DEF fs, all
<1>4. EvalReadme(tree, fs) = EvalReadme(tree, all)
  BY <1>1, CategoryIs DEF EvalReadme
<1>5. EvalTests(tree, fs) \subseteq EvalTests(tree, all)
  <2>1. fs["dependencies"] \subseteq all["dependencies"]
    BY <1>2, CategoryIs
  <2>. QED BY <2>1 DEF EvalTests, If
<1>6. EvalCI(tree, fs) = EvalCI(tree, all)
  BY <1>3 DEF EvalCI
<1>7. EvalStructure(tree, fs) = EvalStructure(tree, all)
  BY <1>1, CategoryIs DEF EvalStructure
<1>8. EvalLinting(tree, fs) = EvalLinting(tree, all)
  BY <1>1, CategoryIs DEF EvalLinting
<1>9. EvalDeps(tree, fs) = EvalDeps(tree, all)
  BY DEF EvalDeps
<1>10. EvalDocs(tree, fs) = EvalDocs(tree, all)
  BY <1>1, CategoryIs DEF EvalDocs
<1>11. EvalAIReady(tree, fs) = EvalAIReady(tree, all)
  BY DEF EvalAIReady
<1>12. m \in {"readme", "tests", "ci", "structure", "linting", "deps", "docs", "ai_ready"}
  BY DEF Metric, MetricOrder, Range
<1>. QED
  BY <1>4, <1>5, <1>6, <1>7, <1>8, <1>9, <1>10, <1>11, <1>12 DEF Evaluation, fs, all

-----------------------------------------------------------------------------
(* Scores                                                                  *)

LEMMA SomeFlags ==
  ASSUME NEW m \in Metric
  PROVE  IsFiniteSet(Flags[m]) /\ Cardinality(Flags[m]) \in Nat \ {0}
<1>1. m \in {"readme", "tests", "ci", "structure", "linting", "deps", "docs", "ai_ready"}
  BY DEF Metric, MetricOrder, Range
<1>2. ASSUME NEW a, NEW b, NEW c, NEW d, NEW e, NEW f
      PROVE  IsFiniteSet({a, b, c, d, e, f}) /\ {a, b, c, d, e, f} # {}
  <2> DEFINE s == <<a, b, c, d, e, f>>
  <2>1. s \in Seq({a, b, c, d, e, f}) /\ Range(s) = {a, b, c, d, e, f}
    BY DEF Range
  <2> HIDE DEF s
  <2>. QED BY <2>1, RangeFinite
<1>3. \A a, b, c, d : /\ {a, b, c, d} = {a, b, c, d, d, d}
                      /\ {a, b, c} = {a, b, c, c, c, c}
                      /\ {a, b} = {a, b, b, b, b, b}
  OBVIOUS
<1>4. IsFiniteSet(Flags[m]) /\ Flags[m] # {}
  <2>1. \A a, b, c, d : /\ IsFiniteSet({a, b, c, d}) /\ {a, b, c, d} # {}
                        /\ IsFiniteSet({a, b, c}) /\ {a, b, c} # {}
                        /\ IsFiniteSet({a, b}) /\ {a, b} # {}
    <3>1. ASSUME NEW a, NEW b, NEW c, NEW d
          PROVE  /\ IsFiniteSet({a, b, c, d}) /\ {a, b, c, d} # {}
                 /\ IsFiniteSet({a, b, c}) /\ {a, b, c} # {}
                 /\ IsFiniteSet({a, b}) /\ {a, b} # {}
      <4>1. /\ IsFiniteSet({a, b, c, d, d, d})
            /\ IsFiniteSet({a, b, c, c, c, c})
            /\ IsFiniteSet({a, b, b, b, b, b})
        BY <1>2
      <4>2. IsFiniteSet({a, b, c, d}) /\ IsFiniteSet({a, b, c}) /\ IsFiniteSet({a, b})
        BY <1>3, <4>1, Zenon
      <4>. QED BY <4>2
    <3>. QED BY <3>1
  <2>2. CASE m = "readme"
    BY <1>2, <2>2 DEF Flags
  <2>3. CASE m = "tests"
    BY <2>1, <2>3 DEF Flags
  <2>4. CASE m = "ci"
    BY <2>1, <2>4 DEF Flags
  <2>5. CASE m = "structure"
    BY <2>1, <2>5 DEF Flags
  <2>6. CASE m = "linting"
    BY <2>1, <2>6 DEF Flags
  <2>7. CASE m = "deps"
    BY <2>1, <2>7 DEF Flags
  <2>8. CASE m = "docs"
    BY <2>1, <2>8 DEF Flags
  <2>9. CASE m = "ai_ready"
    BY <2>1, <2>9 DEF Flags
  <2>. QED BY <1>1, <2>2, <2>3, <2>4, <2>5, <2>6, <2>7, <2>8, <2>9
<1>. QED BY <1>4, FS_EmptySet, FS_CardinalityType

LEMMA Tenths ==
  ASSUME NEW n \in Nat \ {0}, NEW k \in 0..n
  PROVE  (10 * k) \div n \in 0..10
<1> DEFINE q == (10 * k) \div n
<1>1. q \in Int /\ n * q <= 10 * k /\ 10 * k < n * (q + 1)
  OBVIOUS
<1> HIDE DEF q
<1>2. q < 11
  <2>1. SUFFICES ASSUME q >= 11
                 PROVE  FALSE
    BY <1>1
  <2>2. n * q >= n * 11
    BY <1>1, <2>1
  <2>. QED BY <1>1, <2>2
<1>3. q >= 0
  <2>1. SUFFICES ASSUME q + 1 <= 0
                 PROVE  FALSE
    BY <1>1
  <2>2. n * (q + 1) <= 0
    BY <1>1, <2>1
  <2>. QED BY <1>1, <2>2
<1>. QED BY <1>1, <1>2, <1>3 DEF q

LEMMA ScoreIs ==
  ASSUME NEW m \in Metric, NEW flags
  PROVE  Score(m, flags) \in 0..10
<1>1. Cardinality(flags \cap Flags[m]) \in 0..Cardinality(Flags[m])
  BY SomeFlags, FS_Subset, FS_CardinalityType
<1>. QED BY <1>1, SomeFlags, Tenths DEF Score

LEMMA LevelIs ==
  ASSUME NEW score \in 0..10
  PROVE  /\ CalculateLevel(score) \in 0..3
         /\ Points(score) \in 0..60
         /\ CalculateLevel(score) = 0 <=> score = 0
BY DEF CalculateLevel, Points

-----------------------------------------------------------------------------
(* Excerpts                                                                *)

LEMMA MembersOf ==
  ASSUME NEW S, NEW s \in Seq(S)
  PROVE  Len(s) \in Nat /\ DOMAIN s = 1..Len(s) /\ \A i \in 1..Len(s) : s[i] \in S
OBVIOUS

LEMMA MadeOf ==
  ASSUME NEW S, NEW n \in Nat, NEW s, s = [i \in 1..n |-> s[i]], \A i \in 1..n : s[i] \in S
  PROVE  s \in Seq(S) /\ Len(s) = n
<1>1. s \in [1..n -> S]
  OBVIOUS
<1>. QED BY <1>1

LEMMA LeastIs ==
  ASSUME NEW a \in Nat, NEW b \in Nat
  PROVE  Least(a, b) \in Nat /\ Least(a, b) <= a /\ Least(a, b) <= b
BY DEF Least

LEMMA LeftIs ==
  ASSUME NEW used \in Nat, NEW most \in Nat
  PROVE  LET left == most - Least(used, most) IN left \in Nat /\ (left = 0 \/ left = most - used)
BY DEF Least

(* Steps that follow one another until the first that does not hold.       *)
Initial(F, n) == {j \in 1..n : \A k \in 1..j : k \in F}

LEMMA Unbroken ==
  ASSUME NEW F, NEW n \in Nat
  PROVE  \E m \in 0..n : Initial(F, n) = 1..m
<1> DEFINE D(l) == Initial(F, l)
           S == {l \in Nat : \E m \in 0..l : D(l) = 1..m}
<1>1. 0 \in S
  <2>1. D(0) = 1..0
    BY DEF Initial
  <2>2. 0 \in 0..0
    OBVIOUS
  <2> HIDE DEF D
  <2>. QED BY <2>1, <2>2
<1>2. ASSUME NEW l \in Nat, l \in S
      PROVE  l + 1 \in S
  <2>1. PICK m \in 0..l : D(l) = 1..m
    BY <1>2
  <2>2. CASE m = l /\ l + 1 \in F
    <3>1. D(l + 1) = 1..(l + 1)
      <4>1. ASSUME NEW j \in 1..(l + 1)
            PROVE  \A k \in 1..j : k \in F
        <5>1. \A k \in 1..l : k \in F
          <6>1. \A k \in 1..l : k \in D(l)
            <7> HIDE DEF D
            <7>. QED BY <2>1, <2>2
          <6>2. \A k \in 1..l : k \in 1..k
            OBVIOUS
          <6>. QED BY <6>1, <6>2 DEF Initial
        <5>. QED BY <2>2, <5>1
      <4>. QED BY <4>1 DEF Initial
    <3>2. l + 1 \in 0..(l + 1) /\ l + 1 \in Nat
      OBVIOUS
    <3> HIDE DEF D
    <3>. QED BY <3>1, <3>2
  <2>3. CASE ~(m = l /\ l + 1 \in F)
    <3>1. l + 1 \notin D(l + 1)
      <4>1. SUFFICES ASSUME \A k \in 1..(l + 1) : k \in F
                     PROVE  FALSE
        BY DEF Initial
      <4>2. l + 1 \in F /\ \A k \in 1..l : k \in F
        BY <4>1
      <4>3. \A j \in 1..l : j \in D(l)
        BY <4>2 DEF Initial
      <4>4. l = m
        <5> HIDE DEF D
        <5>1. l = 0 \/ l \in 1..l
          OBVIOUS
        <5>2. l = 0 \/ l \in 1..m
          BY <2>1, <4>3, <5>1
        <5>. QED BY <5>2
      <4>. QED BY <2>3, <4>2, <4>4
    <3>2. D(l + 1) \ {l + 1} = D(l)
      BY DEF Initial
    <3>3. D(l + 1) = 1..m
      <4> HIDE DEF D
      <4>. QED BY <2>1, <3>1, <3>2
    <3>4. m \in 0..(l + 1) /\ l + 1 \in Nat
      OBVIOUS
    <3> HIDE DEF D
    <3>. QED BY <3>3, <3>4
  <2>. QED BY <2>2, <2>3
<1>. QED
  <2>1. n \in S
    <3> HIDE DEF S
    <3>. QED BY <1>1, <1>2, Induction
  <2>. QED BY <2>1

(* What a prompt is given never exceeds its context.                       *)
LEMMA PromptIs ==
  ASSUME NEW D \in SUBSET Path, NEW specs \in Seq([path : D, max : Nat])
  PROVE  LET out == PromptSources(specs) IN
           /\ out \in Seq([path : D, bytes : Nat])
           /\ TotalBytes([i \in DOMAIN out |-> out[i].bytes]) <= MaxPromptContext
<1> DEFINE n == Len(specs)
           w == [i \in DOMAIN specs |-> Least(SizeOf[specs[i].path], specs[i].max)]
           Room(i) == MaxPromptContext - Least(SumTo(w, i - 1), MaxPromptContext)
           F == {i \in Nat : w[i] <= Room(i) \/ Room(i) >= 80}
           first == Initial(F, n)
           out == PromptSources(specs)
           given == [i \in DOMAIN out |-> out[i].bytes]
<1>1. n \in Nat /\ DOMAIN specs = 1..n
  OBVIOUS
<1>2. \A i \in 1..n : specs[i].path \in D /\ specs[i].max \in Nat
  <2>1. \A i \in 1..n : specs[i] \in [path : D, max : Nat]
    BY MembersOf
  <2>. QED BY <2>1
<1>3. \A i \in 1..n : w[i] = Least(SizeOf[specs[i].path], specs[i].max)
  BY <1>1
<1>4. out = [i \in first |-> [path |-> specs[i].path, bytes |-> Least(w[i], Room(i))]]
  <2>1. first = {j \in DOMAIN specs : \A k \in 1..j : w[k] <= Room(k) \/ Room(k) >= 80}
    <3> HIDE DEF w, Room
    <3>. QED BY <1>1 DEF Initial
  <2>2. out = [i \in {j \in DOMAIN specs : \A k \in 1..j : w[k] <= Room(k) \/ Room(k) >= 80} |->
                 [path |-> specs[i].path, bytes |-> Least(w[i], Room(i))]]
    BY DEF PromptSources
  <2> HIDE DEF first, out, w, Room
  <2>. QED BY <2>1, <2>2
<1>5. PICK m \in 0..n : first = 1..m
  <2> HIDE DEF F
  <2>. QED BY <1>1, Unbroken
<1>6. out = [i \in 1..m |-> [path |-> specs[i].path, bytes |-> Least(w[i], Room(i))]]
  <2> HIDE DEF out, first, w, Room
  <2>. QED BY <1>4, <1>5
<1> HIDE DEF w, out, first, F, n
<1>7. \A i \in 1..n : w[i] \in Nat
  BY <1>2, <1>3, MetricsAssumption, LeastIs
<1>8. ASSUME NEW i \in 1..m
      PROVE  /\ Room(i) \in Nat /\ (Room(i) = 0 \/ Room(i) = MaxPromptContext - SumTo(w, i - 1))
             /\ Least(w[i], Room(i)) \in Nat /\ Least(w[i], Room(i)) <= w[i]
             /\ Least(w[i], Room(i)) <= Room(i) /\ i \in 1..n /\ SumTo(w, i - 1) \in Nat
  <2>1. i \in 1..n /\ i - 1 \in 0..n /\ MaxPromptContext \in Nat
    BY <1>1, <1>5 DEF MaxPromptContext
  <2>2. SumTo(w, i - 1) \in Nat
    BY <1>1, <1>7, <2>1, SumTyped
  <2>3. Room(i) \in Nat /\ (Room(i) = 0 \/ Room(i) = MaxPromptContext - SumTo(w, i - 1))
    BY <2>1, <2>2, LeftIs
  <2>4. w[i] \in Nat
    BY <1>7, <2>1
  <2> HIDE DEF Room
  <2>. QED BY <2>1, <2>2, <2>3, <2>4, LeastIs
<1>9. \A i \in 1..m : out[i] = [path |-> specs[i].path, bytes |-> Least(w[i], Room(i))]
  <2> HIDE DEF Room
  <2>. QED BY <1>6
<1>10. out = [i \in 1..m |-> out[i]] /\ DOMAIN out = 1..m
  <2> HIDE DEF Room
  <2>. QED BY <1>6
<1>11. out \in Seq([path : D, bytes : Nat])
  <2>1. ASSUME NEW i \in 1..m
        PROVE  out[i] \in [path : D, bytes : Nat]
    <3> HIDE DEF Room
    <3>1. specs[i].path \in D /\ Least(w[i], Room(i)) \in Nat
      BY <1>2, <1>8
    <3>2. out[i] = [path |-> specs[i].path, bytes |-> Least(w[i], Room(i))]
      BY <1>9
    <3>. QED BY <3>1, <3>2
  <2>2. m \in Nat
    BY <1>1, <1>5
  <2>3. \A i \in 1..m : out[i] \in [path : D, bytes : Nat]
    BY <2>1
  <2>. QED BY <1>10, <2>2, <2>3, MadeOf, Zenon
<1>12. /\ Len(given) = m /\ m \in Nat
       /\ \A i \in 1..m : given[i] = Least(w[i], Room(i))
  <2> HIDE DEF Room
  <2>. QED BY <1>1, <1>5, <1>9, <1>10
<1> HIDE DEF given
<1>13. HandedOut(w, given, m, MaxPromptContext)
  <2>1. ASSUME NEW i \in 1..m
        PROVE  /\ w[i] \in Nat /\ given[i] \in Nat /\ given[i] <= w[i]
               /\ given[i] = 0 \/ given[i] <= MaxPromptContext - SumTo(w, i - 1)
    <3> HIDE DEF Room
    <3>1. i \in 1..n /\ SumTo(w, i - 1) \in Nat
      BY <1>8
    <3>2. given[i] = Least(w[i], Room(i)) /\ w[i] \in Nat
      BY <1>7, <1>12, <3>1
    <3>3. given[i] \in Nat /\ given[i] <= w[i]
      BY <1>8, <3>2
    <3>4. given[i] <= Room(i) /\ Room(i) \in Nat /\ (Room(i) = 0 \/ Room(i) = MaxPromptContext - SumTo(w, i - 1))
      BY <1>8, <3>2
    <3>. QED BY <3>2, <3>3, <3>4
  <2>. QED BY <2>1 DEF HandedOut
<1>14. SumTo(given, m) <= MaxPromptContext
  <2>1. MaxPromptContext \in Nat
    BY DEF MaxPromptContext
  <2>. QED BY <1>12, <1>13, <2>1, NeverOverdrawn
<1>15. TotalBytes(given) <= MaxPromptContext
  BY <1>12, <1>14 DEF TotalBytes
<1>. QED BY <1>11, <1>15 DEF out, given

LEMMA EvidenceIs ==
  ASSUME NEW D, NEW sources \in Seq([path : D, bytes : Nat])
  PROVE  TotalBytes(Evidence(sources)) <= MaxEvidence
<1> DEFINE n == Len(sources)
           w == [i \in DOMAIN sources |-> Least(sources[i].bytes, 1000)]
           Room(i) == MaxEvidence - SumTo(w, i - 1)
           given == Evidence(sources)
<1>1. n \in Nat /\ DOMAIN sources = 1..n
  OBVIOUS
<1>2. \A i \in 1..n : sources[i].bytes \in Nat
  <2>1. \A i \in 1..n : sources[i] \in [path : D, bytes : Nat]
    BY MembersOf
  <2>. QED BY <2>1
<1>3. \A i \in 1..n : w[i] = Least(sources[i].bytes, 1000)
  BY <1>1
<1>4. given = [i \in 1..n |-> IF Room(i) < 80 THEN 0 ELSE Least(w[i], Room(i))]
  BY <1>1 DEF Evidence
<1> HIDE DEF w, given, n
<1>5. \A i \in 1..n : w[i] \in Nat
  <2>1. ASSUME NEW i \in 1..n
        PROVE  w[i] \in Nat
    <3>1. w[i] = Least(sources[i].bytes, 1000) /\ sources[i].bytes \in Nat
      BY <1>2, <1>3
    <3>. QED BY <3>1 DEF Least
  <2>. QED BY <2>1
<1>6. Len(given) = n /\ \A i \in 1..n : given[i] = IF Room(i) < 80 THEN 0 ELSE Least(w[i], Room(i))
  <2> HIDE DEF Room
  <2>. QED BY <1>1, <1>4
<1>7. ASSUME NEW i \in 1..n
      PROVE  /\ w[i] \in Nat /\ given[i] \in Nat /\ given[i] <= w[i]
             /\ given[i] = 0 \/ given[i] <= MaxEvidence - SumTo(w, i - 1)
  <2>1. i - 1 \in 0..n
    BY <1>1
  <2>2. SumTo(w, i - 1) \in Nat
    BY <1>1, <1>5, <2>1, SumTyped
  <2>3. w[i] \in Nat
    BY <1>5
  <2>4. Room(i) \in Int
    BY <2>2 DEF MaxEvidence
  <2>5. given[i] = IF Room(i) < 80 THEN 0 ELSE Least(w[i], Room(i))
    BY <1>6
  <2>6. given[i] \in Nat /\ given[i] <= w[i] /\ (given[i] = 0 \/ given[i] <= Room(i))
    <3> HIDE DEF Room
    <3>. QED BY <2>3, <2>4, <2>5 DEF Least
  <2>. QED BY <2>3, <2>6
<1>8. SumTo(given, n) <= MaxEvidence
  <2>1. MaxEvidence \in Nat
    BY DEF MaxEvidence
  <2>2. HandedOut(w, given, n, MaxEvidence)
    BY <1>7 DEF HandedOut
  <2>. QED BY <1>1, <2>1, <2>2, NeverOverdrawn
<1>. QED BY <1>6, <1>8 DEF TotalBytes, given

LEMMA SpecsAre ==
  ASSUME NEW S \in SUBSET Path, NEW n \in Nat, NEW bytes \in Nat
  PROVE  Specs(S, n, bytes) \in Seq([path : S, max : Nat])
<1>1. Least(n, Cardinality(S)) \in Nat /\ Least(n, Cardinality(S)) <= Cardinality(S) /\ Cardinality(S) \in Nat
  BY Ranks, LeastIs
<1>2. \A i \in 1..Least(n, Cardinality(S)) : [path |-> Ordered(S)[i], max |-> bytes] \in [path : S, max : Nat]
  BY <1>1, OrderedIs
<1> DEFINE out == Specs(S, n, bytes)
           k == Least(n, Cardinality(S))
<1>3. out = [i \in 1..k |-> out[i]] /\ \A i \in 1..k : out[i] \in [path : S, max : Nat]
  BY <1>2 DEF Specs
<1>. QED
  <2> HIDE DEF out, k
  <2>1. k \in Nat
    BY <1>1 DEF k
  <2>2. out \in Seq([path : S, max : Nat])
    BY <1>3, <2>1, MadeOf, Zenon
  <2>. QED BY <2>2 DEF out

(* A metric's excerpts are of the files fetched for it.                    *)
LEMMA SourcesOf ==
  ASSUME NEW tree \in SUBSET Path, NEW m \in Metric
  PROVE  \E D \in SUBSET tree : /\ SourceSpecs(FetchedOf(tree))[m] \in Seq([path : D, max : Nat])
                                /\ m # "readme" => D \cap Matched["readme"] = {}
<1> DEFINE fs == FetchedOf(tree)
           Written(c) == {p \in fs[c] : SizeOf[p] > 0}
           ci == IF CIFile(fs) \in Written("ci") THEN {CIFile(fs)} ELSE Written("ci")
<1>1. ASSUME NEW c \in Category, NEW S \in SUBSET fs[c], NEW n \in Nat, NEW bytes \in Nat,
             SourceSpecs(fs)[m] = Specs(S, n, bytes), m # "readme" => c # "readme"
      PROVE  \E D \in SUBSET tree : /\ SourceSpecs(fs)[m] \in Seq([path : D, max : Nat])
                                    /\ m # "readme" => D \cap Matched["readme"] = {}
  <2> HIDE DEF fs, ci
  <2>1. S \in SUBSET tree /\ S \in SUBSET Matched[c]
    BY <1>1, FetchedIs DEF fs
  <2>2. c # "readme" => Matched[c] \cap Matched["readme"] = {}
    BY CategoryIs DEF Matched, ReadmeMatchers, CIMatchers, TestsMatchers, StructureMatchers, LintingMatchers,
       DepsMatchers, DocsMatchers, AIReadyMatchers
  <2>3. Specs(S, n, bytes) \in Seq([path : S, max : Nat])
    BY <2>1, SpecsAre
  <2>4. m # "readme" => S \cap Matched["readme"] = {}
    BY <1>1, <2>1, <2>2
  <2>5. SourceSpecs(fs)[m] \in Seq([path : S, max : Nat])
    BY <1>1, <2>3
  <2>. QED BY <2>1, <2>4, <2>5
<1>2. \A c : Written(c) \in SUBSET fs[c]
  OBVIOUS
<1>3. ci \in SUBSET fs["ci"]
  OBVIOUS
<1>4. SourceSpecs(fs) =
       [readme |-> Specs(fs["readme"], 1, 2200), tests |-> Specs(Written("tests"), 3, 1200),
        ci |-> Specs(ci, 1, 1800), structure |-> Specs(fs["license"], 1, 0),
        linting |-> Specs(Written("linting"), 2, 1200),
        deps |-> Specs(Written("dependencies"), 2, 1500),
        docs |-> Specs(Written("docs"), 3, 1200), ai_ready |-> Specs(Written("ai"), 3, 1500)]
  BY DEF SourceSpecs
<1>5. m \in {"readme", "tests", "ci", "structure", "linting", "deps", "docs", "ai_ready"}
  BY DEF Metric, MetricOrder, Range
<1> HIDE DEF fs, Written, ci
<1>6. /\ SourceSpecs(fs)["readme"] = Specs(fs["readme"], 1, 2200)
      /\ SourceSpecs(fs)["tests"] = Specs(Written("tests"), 3, 1200)
      /\ SourceSpecs(fs)["ci"] = Specs(ci, 1, 1800)
      /\ SourceSpecs(fs)["structure"] = Specs(fs["license"], 1, 0)
      /\ SourceSpecs(fs)["linting"] = Specs(Written("linting"), 2, 1200)
      /\ SourceSpecs(fs)["deps"] = Specs(Written("dependencies"), 2, 1500)
      /\ SourceSpecs(fs)["docs"] = Specs(Written("docs"), 3, 1200)
      /\ SourceSpecs(fs)["ai_ready"] = Specs(Written("ai"), 3, 1500)
  BY <1>4
<1>7. \E c \in Category : \E S \in SUBSET fs[c] : \E k \in Nat : \E bytes \in Nat :
        SourceSpecs(fs)[m] = Specs(S, k, bytes) /\ (m # "readme" => c # "readme")
  <2> DEFINE Good(c, S) == \E k \in Nat : \E bytes \in Nat : SourceSpecs(fs)[m] = Specs(S, k, bytes)
  <2>1. \/ m = "readme" /\ Good("readme", fs["readme"])
        \/ m = "tests" /\ Good("tests", Written("tests"))
        \/ m = "ci" /\ Good("ci", ci)
        \/ m = "structure" /\ Good("license", fs["license"])
        \/ m = "linting" /\ Good("linting", Written("linting"))
        \/ m = "deps" /\ Good("dependencies", Written("dependencies"))
        \/ m = "docs" /\ Good("docs", Written("docs"))
        \/ m = "ai_ready" /\ Good("ai", Written("ai"))
    BY <1>5, <1>6
  <2>2. \E c \in Category : \E S \in SUBSET fs[c] : Good(c, S) /\ (m # "readme" => c # "readme")
    <3> HIDE DEF Good
    <3>. QED BY <1>2, <1>3, <2>1, CategoryIs
  <2>. QED BY <2>2
<1>8. PICK c \in Category : \E S \in SUBSET fs[c] : \E k \in Nat : \E bytes \in Nat :
        SourceSpecs(fs)[m] = Specs(S, k, bytes) /\ (m # "readme" => c # "readme")
  BY <1>7
<1>9. PICK S \in SUBSET fs[c] : \E k \in Nat : \E bytes \in Nat :
        SourceSpecs(fs)[m] = Specs(S, k, bytes) /\ (m # "readme" => c # "readme")
  BY <1>8
<1>. QED BY <1>1, <1>9 DEF fs

-----------------------------------------------------------------------------
(* The inductive invariant                                                 *)

Fields == {"pc", "by", "sha", "files", "next"}
Before == {"idle", "tree", "files"}

(* A scan is at its first row until the transaction has begun.             *)
ScanOK(r) ==
  /\ DOMAIN r = Fields /\ r = [f \in Fields |-> r[f]]
  /\ r.pc \in Before \cup {"upsert", "commit", "boards"}
  /\ r.next \in 1..9
  /\ r.pc \in Before => r.next = 1
  /\ r.pc = "upsert" => r.next \in 1..8

ShapeInv ==
  /\ scan = [s \in Scanners |-> scan[s]] /\ \A s \in Scanners : ScanOK(scan[s])
  /\ metrics = [m \in DOMAIN metrics |-> metrics[m]]
  /\ lock \in [MetricType -> Scanners \cup {NULL}]
  /\ boards = [g \in Games |-> boards[g]]

(* A row that is held is one its scan is through with.                     *)
Has(s, m) ==
  \/ At(s, "upsert") /\ \E i \in 1..8 : i < scan[s].next /\ m = MetricOrder[i]
  \/ At(s, "commit")

LockInv == \A s \in Scanners, m \in MetricType : lock[m] = s => Has(s, m)

(* As a scan comes to the boards, its rows are all there, but for those    *)
(* that another call has written since.                                    *)
StoredInv ==
  \A s \in Scanners : At(s, "boards") =>
    \A m \in Metric : Stored(m) /\ (metrics[m].writer = s => metrics[m] = StoredRows(s)[m])

AnalysisInv == ShapeInv /\ LockInv /\ StoredInv /\ RowsOfOneScan

-----------------------------------------------------------------------------
(* Rows and the order they are taken in                                    *)

LEMMA Names ==
  NULL \notin Scanners /\ "post" \notin Scanners /\ Metric \subseteq MetricType
BY AnalysisAssumption DEF MetricType

LEMMA Order ==
  /\ \A i, j \in 1..8 : MetricOrder[i] = MetricOrder[j] => i = j
  /\ Metric = {MetricOrder[i] : i \in 1..8}
<1>1. DOMAIN MetricOrder = 1..8
  BY DEF MetricOrder
<1>2. \A i, j \in 1..8 : MetricOrder[i] = MetricOrder[j] => i = j
  BY DEF MetricOrder
<1>. QED BY <1>1, <1>2 DEF Metric, Range

(* The greatest of some numbers up to nine.                                *)
LEMMA Greatest ==
  ASSUME NEW S, S \subseteq 1..9, S # {}
  PROVE  \E x \in S : \A y \in S : y <= x
<1>1. SUFFICES ASSUME \A x \in S : \E y \in S : y > x
               PROVE  FALSE
  OBVIOUS
<1>2. 9 \notin S
  BY <1>1
<1>3. 8 \notin S /\ 7 \notin S
  BY <1>1, <1>2
<1>4. 6 \notin S /\ 5 \notin S
  BY <1>1, <1>2, <1>3
<1>5. 4 \notin S /\ 3 \notin S
  BY <1>1, <1>2, <1>3, <1>4
<1>6. 2 \notin S /\ 1 \notin S
  BY <1>1, <1>2, <1>3, <1>4, <1>5
<1>7. PICK x \in S : TRUE
  OBVIOUS
<1>8. x \in {1, 2, 3, 4, 5, 6, 7, 8, 9}
  OBVIOUS
<1>. QED BY <1>2, <1>3, <1>4, <1>5, <1>6, <1>8

LEMMA StoredRowIs ==
  ASSUME NEW s, NEW m \in Metric
  PROVE  LET row == StoredRows(s)[m] IN
           /\ row.sha = scan[s].sha /\ row.by = scan[s].by /\ row.writer = s
           /\ row.level = CalculateLevel(row.score)
           /\ row.score = Score(m, Result(s)[m])
BY DEF StoredRows

LEMMA RowsDomain == ASSUME NEW s PROVE DOMAIN StoredRows(s) = Metric
BY DEF StoredRows

-----------------------------------------------------------------------------
(* A scan that moves on                                                    *)

(* A record with two fields changed.                                       *)
LEMMA Changed ==
  ASSUME NEW r, DOMAIN r = Fields, NEW n, NEW a \in Fields, NEW b \in Fields, a # b, NEW x, NEW y,
         n = [r EXCEPT ![a] = x, ![b] = y]
  PROVE  /\ DOMAIN n = Fields /\ n = [f \in Fields |-> n[f]]
         /\ n[a] = x /\ n[b] = y /\ \A f \in Fields \ {a, b} : n[f] = r[f]
OBVIOUS

(* The next record of a scan.                                              *)
LEMMA MovedOK ==
  ASSUME NEW r, ScanOK(r), NEW n, NEW v,
         \/ r.pc = "tree" /\ n = [r EXCEPT !.sha = v, !.pc = "files"]
         \/ r.pc = "tree" /\ n = [r EXCEPT !.sha = v, !.pc = "upsert"]
         \/ r.pc = "files" /\ n = [r EXCEPT !.pc = "upsert", !.files = v]
         \/ r.pc = "idle" /\ n = [r EXCEPT !.pc = "tree", !.by = v]
  PROVE  ScanOK(n) /\ n.next = 1 /\ n.pc \in {"tree", "files", "upsert"}
<1>1. DOMAIN r = Fields /\ r.next = 1 /\ {"sha", "pc", "files", "by", "next"} = Fields
  BY DEF ScanOK, Fields, Before
<1>2. /\ DOMAIN n = Fields /\ n = [f \in Fields |-> n[f]] /\ n.next = 1
      /\ n.pc \in {"tree", "files", "upsert"}
  <2>1. CASE n = [r EXCEPT !.sha = v, !.pc = "files"]
    BY <1>1, <2>1, Changed
  <2>2. CASE n = [r EXCEPT !.sha = v, !.pc = "upsert"]
    BY <1>1, <2>2, Changed
  <2>3. CASE n = [r EXCEPT !.pc = "upsert", !.files = v]
    BY <1>1, <2>3, Changed
  <2>4. CASE n = [r EXCEPT !.pc = "tree", !.by = v]
    BY <1>1, <2>4, Changed
  <2>. QED BY <2>1, <2>2, <2>3, <2>4
<1>. QED BY <1>2 DEF ScanOK, Before

LEMMA UpsertedOK ==
  ASSUME NEW r, ScanOK(r), r.pc = "upsert", NEW n,
         n = [r EXCEPT !.next = @ + 1, !.pc = IF r.next = 8 THEN "commit" ELSE "upsert"]
  PROVE  ScanOK(n) /\ n.next = r.next + 1 /\ n.pc \in {"upsert", "commit"}
<1>1. DOMAIN r = Fields /\ r.next \in 1..8 /\ "next" \in Fields /\ "pc" \in Fields
  BY DEF ScanOK, Fields
<1>2. /\ DOMAIN n = Fields /\ n = [f \in Fields |-> n[f]]
      /\ n.next = r.next + 1 /\ n.pc = IF r.next = 8 THEN "commit" ELSE "upsert"
  BY <1>1, Changed
<1>3. n.pc = "upsert" => n.next \in 1..8
  BY <1>1, <1>2
<1>4. n.next \in 1..9 /\ n.pc \in {"upsert", "commit"}
  BY <1>1, <1>2
<1>. QED BY <1>2, <1>3, <1>4 DEF ScanOK, Before

LEMMA CommittedOK ==
  ASSUME NEW r, ScanOK(r), NEW n, n = [r EXCEPT !.pc = "boards"]
  PROVE  /\ ScanOK(n) /\ n.pc = "boards"
         /\ n.sha = r.sha /\ n.by = r.by /\ n.files = r.files
BY DEF ScanOK, Fields, Before

LEMMA IdleOK == ScanOK(IdleScan) /\ IdleScan.pc = "idle"
BY DEF ScanOK, IdleScan, Fields, Before

-----------------------------------------------------------------------------
(* Steps                                                                   *)

LEMMA Moves ==
  ASSUME ShapeInv, NEW s \in Scanners, NEW n, ScanOK(n), scan' = [scan EXCEPT ![s] = n]
  PROVE  /\ scan' = [t \in Scanners |-> scan'[t]] /\ \A t \in Scanners : ScanOK(scan'[t])
         /\ scan'[s] = n /\ \A t \in Scanners \ {s} : scan'[t] = scan[t]
<1>1. DOMAIN scan = Scanners /\ \A t \in Scanners : ScanOK(scan[t])
  BY DEF ShapeInv
<1>2. scan'[s] = n /\ \A t \in Scanners \ {s} : scan'[t] = scan[t]
  BY <1>1
<1>3. \A t \in Scanners : ScanOK(scan'[t])
  BY <1>1, <1>2
<1>. QED BY <1>1, <1>2, <1>3

LEMMA SameRows ==
  ASSUME NEW s, scan'[s].sha = scan[s].sha, scan'[s].by = scan[s].by, scan'[s].files = scan[s].files
  PROVE  StoredRows(s)' = StoredRows(s)
BY DEF StoredRows, Result

(* A step of scan s that writes no row keeps everything, once the rows it  *)
(* holds are those it may hold.                                            *)
LEMMA ScanKeeps ==
  ASSUME AnalysisInv, NEW s \in Scanners, NEW n, ScanOK(n), n.pc # "boards",
         scan' = [scan EXCEPT ![s] = n],
         lock' \in [MetricType -> Scanners \cup {NULL}],
         \A m \in MetricType : lock'[m] \in {lock[m], NULL, s} /\ (lock'[m] = s => Has(s, m)'),
         boards' = [g \in Games |-> boards'[g]], metrics' = metrics
  PROVE  AnalysisInv'
<1>1. /\ scan' = [t \in Scanners |-> scan'[t]] /\ \A t \in Scanners : ScanOK(scan'[t])
      /\ scan'[s] = n /\ \A t \in Scanners \ {s} : scan'[t] = scan[t]
  BY Moves DEF AnalysisInv
<1>2. ShapeInv'
  BY <1>1 DEF AnalysisInv, ShapeInv
<1>3. LockInv'
  <2>1. SUFFICES ASSUME NEW t \in Scanners, NEW m \in MetricType, lock'[m] = t, t # s
                 PROVE  Has(t, m)'
    BY DEF LockInv
  <2>2. lock[m] = t /\ scan'[t] = scan[t]
    BY <1>1, <2>1, Names
  <2>3. Has(t, m)
    BY <2>2 DEF AnalysisInv, LockInv
  <2>. QED BY <2>2, <2>3 DEF Has, At
<1>4. StoredInv'
  <2>1. SUFFICES ASSUME NEW t \in Scanners, At(t, "boards")', NEW m \in Metric
                 PROVE  Stored(m)' /\ (metrics'[m].writer = t => metrics'[m] = StoredRows(t)'[m])
    BY DEF StoredInv
  <2>2. t # s /\ scan'[t] = scan[t]
    BY <1>1, <2>1 DEF At
  <2>3. StoredRows(t)' = StoredRows(t) /\ At(t, "boards")
    BY <2>1, <2>2, SameRows DEF At
  <2>4. Stored(m) /\ (metrics[m].writer = t => metrics[m] = StoredRows(t)[m])
    BY <2>3 DEF AnalysisInv, StoredInv
  <2>. QED BY <2>3, <2>4 DEF Stored
<1>5. RowsOfOneScan'
  BY DEF AnalysisInv, RowsOfOneScan, Scanned, Stored
<1>. QED BY <1>2, <1>3, <1>4, <1>5 DEF AnalysisInv

(* Locks that stay as they are, of a scan that has none.                   *)
LEMMA BeforeKeeps ==
  ASSUME AnalysisInv, NEW s \in Scanners, scan[s].pc \in Before,
         NEW n, ScanOK(n), n.pc # "boards", scan' = [scan EXCEPT ![s] = n],
         UNCHANGED <<metrics, lock, boards>>
  PROVE  AnalysisInv'
<1>1. \A m \in MetricType : lock[m] # s
  BY DEF AnalysisInv, LockInv, Has, At, Before
<1>. QED BY <1>1, ScanKeeps DEF AnalysisInv, ShapeInv

LEMMA StopKeeps ==
  ASSUME AnalysisInv, NEW s \in Scanners, Stop(s), boards' = [g \in Games |-> boards'[g]],
         metrics' = metrics
  PROVE  AnalysisInv'
<1>1. /\ lock' \in [MetricType -> Scanners \cup {NULL}]
      /\ \A m \in MetricType : lock'[m] \in {lock[m], NULL} /\ lock'[m] # s
  BY Names DEF Stop, AnalysisInv, ShapeInv
<1>2. scan' = [scan EXCEPT ![s] = IdleScan] /\ IdleScan.pc # "boards"
  BY IdleOK DEF Stop
<1>. QED BY <1>1, <1>2, IdleOK, ScanKeeps

LEMMA UpsertKeeps ==
  ASSUME AnalysisInv, NEW s \in Scanners, Upsert(s)
  PROVE  AnalysisInv'
<1> DEFINE r == scan[s]
           n == [r EXCEPT !.next = @ + 1, !.pc = IF r.next = 8 THEN "commit" ELSE "upsert"]
           m == MetricOrder[r.next]
<1>1. /\ ScanOK(r) /\ r.pc = "upsert" /\ r.next \in 1..8 /\ DOMAIN scan = Scanners
      /\ lock \in [MetricType -> Scanners \cup {NULL}] /\ boards = [g \in Games |-> boards[g]]
  BY DEF Upsert, At, AnalysisInv, ShapeInv, ScanOK
<1>2. ScanOK(n) /\ n.next = r.next + 1 /\ n.pc \in {"upsert", "commit"}
  <2> HIDE DEF r
  <2>. QED BY <1>1, UpsertedOK
<1>3. scan' = [scan EXCEPT ![s] = n]
  BY <1>1 DEF Upsert
<1>4. m \in MetricType /\ lock' = [lock EXCEPT ![m] = s]
  BY <1>1, Order, Names DEF Upsert, RowOrder
<1>5. scan'[s] = n
  BY <1>1, <1>3
<1>6. ASSUME NEW q \in MetricType, lock'[q] = s
      PROVE  Has(s, q)'
  <2>1. CASE q = m
    BY <1>1, <1>2, <1>5, <2>1 DEF Has, At
  <2>2. CASE q # m
    <3>1. lock[q] = s
      BY <1>1, <1>4, <1>6, <2>2
    <3>2. Has(s, q)
      BY <3>1 DEF AnalysisInv, LockInv
    <3>3. PICK i \in 1..8 : i < r.next /\ q = MetricOrder[i]
      BY <1>1, <3>2 DEF Has, At
    <3>4. i < n.next
      BY <1>1, <1>2, <3>3
    <3>. QED BY <1>2, <1>5, <3>3, <3>4 DEF Has, At
  <2>. QED BY <2>1, <2>2
<1>7. /\ lock' \in [MetricType -> Scanners \cup {NULL}]
      /\ \A q \in MetricType : lock'[q] \in {lock[q], NULL, s}
  BY <1>1, <1>4
<1>8. n.pc # "boards" /\ UNCHANGED <<metrics, boards>>
  BY <1>2 DEF Upsert
<1>. QED
  <2> HIDE DEF n
  <2>. QED BY <1>1, <1>2, <1>3, <1>6, <1>7, <1>8, ScanKeeps

LEMMA BeginningKeeps ==
  ASSUME AnalysisInv, NEW s \in Scanners,
         (\E by : Start(s, by)) \/ FetchTree(s) \/ FetchFiles(s)
  PROVE  AnalysisInv'
<1> DEFINE r == scan[s]
<1>1. ScanOK(r) /\ DOMAIN scan = Scanners
  BY DEF AnalysisInv, ShapeInv
<1>2. UNCHANGED <<metrics, lock, boards>> /\ r.pc \in Before
  BY DEF Start, FetchTree, FetchFiles, At, Before
<1>3. ASSUME NEW n, NEW v, scan' = [scan EXCEPT ![s] = n],
             \/ r.pc = "tree" /\ n = [r EXCEPT !.sha = v, !.pc = "files"]
             \/ r.pc = "tree" /\ n = [r EXCEPT !.sha = v, !.pc = "upsert"]
             \/ r.pc = "files" /\ n = [r EXCEPT !.pc = "upsert", !.files = v]
             \/ r.pc = "idle" /\ n = [r EXCEPT !.pc = "tree", !.by = v]
      PROVE  AnalysisInv'
  <2>1. ScanOK(n) /\ n.pc # "boards"
    <3> HIDE DEF r
    <3>1. ScanOK(n) /\ n.pc \in {"tree", "files", "upsert"}
      BY <1>1, <1>3, MovedOK
    <3>. QED BY <3>1
  <2>. QED BY <1>2, <1>3, <2>1, BeforeKeeps
<1>4. CASE \E by : Start(s, by)
  <2>1. PICK by : Start(s, by)
    BY <1>4
  <2>2. r.pc = "idle" /\ scan' = [scan EXCEPT ![s] = [r EXCEPT !.pc = "tree", !.by = by]]
    BY <1>1, <2>1 DEF Start, At
  <2>. QED BY <1>3, <2>2
<1>5. CASE FetchTree(s)
  <2> DEFINE pc == IF AllFetched(FilesOf[head]) = {} THEN "upsert" ELSE "files"
  <2>1. r.pc = "tree" /\ scan' = [scan EXCEPT ![s] = [r EXCEPT !.sha = head, !.pc = pc]]
    BY <1>1, <1>5 DEF FetchTree, At
  <2>2. pc = "upsert" \/ pc = "files"
    OBVIOUS
  <2>. QED
    <3> HIDE DEF pc
    <3>. QED BY <1>3, <2>1, <2>2
<1>6. CASE FetchFiles(s)
  <2>1. /\ r.pc = "files"
        /\ scan' = [scan EXCEPT ![s] = [r EXCEPT !.pc = "upsert",
             !.files = [c \in Category |-> Fetched(FilesOf[scan[s].sha], c)]]]
    BY <1>1, <1>6 DEF FetchFiles, At
  <2>. QED BY <1>3, <2>1
<1>. QED BY <1>4, <1>5, <1>6

(* The commit: all rows are this scan's at once.                           *)
LEMMA CommitKeeps ==
  ASSUME AnalysisInv, NEW s \in Scanners, Commit(s)
  PROVE  AnalysisInv'
<1> DEFINE n == [scan[s] EXCEPT !.pc = "boards"]
<1>1. /\ ScanOK(scan[s]) /\ DOMAIN scan = Scanners /\ scan' = [scan EXCEPT ![s] = n]
      /\ lock \in [MetricType -> Scanners \cup {NULL}] /\ UNCHANGED boards
  BY DEF Commit, Goto, AnalysisInv, ShapeInv
<1>2. ScanOK(n) /\ n.pc = "boards" /\ n.sha = scan[s].sha /\ n.by = scan[s].by /\ n.files = scan[s].files
  BY <1>1, CommittedOK
<1>3. /\ scan' = [t \in Scanners |-> scan'[t]] /\ \A t \in Scanners : ScanOK(scan'[t])
      /\ scan'[s] = n /\ \A t \in Scanners \ {s} : scan'[t] = scan[t]
  <2> HIDE DEF n
  <2>. QED BY <1>1, <1>2, Moves DEF AnalysisInv
<1>4. \A t \in Scanners : StoredRows(t)' = StoredRows(t)
  BY <1>2, <1>3, SameRows
<1>5. /\ metrics' = [m \in DOMAIN metrics' |-> metrics'[m]]
      /\ \A m \in Metric : m \in DOMAIN metrics' /\ metrics'[m] = StoredRows(s)[m]
  BY RowsDomain DEF Commit, Upserted
<1>6. ShapeInv'
  BY <1>1, <1>3, <1>5 DEF AnalysisInv, ShapeInv, Commit
<1>7. LockInv'
  <2>1. SUFFICES ASSUME NEW t \in Scanners, NEW m \in MetricType, lock'[m] = t
                 PROVE  Has(t, m)'
    BY DEF LockInv
  <2>2. lock[m] = t /\ t # s
    BY <2>1, Names DEF Commit
  <2>3. Has(t, m) /\ scan'[t] = scan[t]
    BY <1>3, <2>2 DEF AnalysisInv, LockInv
  <2>. QED BY <2>3 DEF Has, At
<1>8. \A m \in Metric : metrics'[m].writer = s /\ metrics'[m].sha = scan[s].sha /\ metrics'[m].by = scan[s].by
  BY <1>5, StoredRowIs
<1>9. StoredInv'
  BY <1>4, <1>5, <1>8 DEF StoredInv, Stored
<1>10. RowsOfOneScan'
  BY <1>5, <1>8 DEF RowsOfOneScan, Scanned, Stored
<1>. QED BY <1>6, <1>7, <1>9, <1>10 DEF AnalysisInv

(* A posted row is nobody's scan's.                                        *)
LEMMA PostKeeps ==
  ASSUME AnalysisInv, NEW u, NEW p \in Postings, PostAnalysis(u, p)
  PROVE  AnalysisInv'
<1>1. /\ UNCHANGED <<lock, boards, scan>>
      /\ metrics' = [m \in DOMAIN metrics' |-> metrics'[m]]
      /\ DOMAIN metrics' = DOMAIN metrics \cup {p.metric}
      /\ metrics'[p.metric].writer = "post"
      /\ \A m \in DOMAIN metrics \ {p.metric} : metrics'[m] = metrics[m]
  BY DEF PostAnalysis, Upserted
<1>2. ShapeInv' /\ LockInv'
  BY <1>1 DEF AnalysisInv, ShapeInv, LockInv, Has, At
<1>3. \A t \in Scanners : StoredRows(t)' = StoredRows(t)
  BY <1>1, SameRows
<1>4. StoredInv'
  <2>1. SUFFICES ASSUME NEW t \in Scanners, At(t, "boards"), NEW m \in Metric
                 PROVE  Stored(m)' /\ (metrics'[m].writer = t => metrics'[m] = StoredRows(t)[m])
    BY <1>1, <1>3 DEF StoredInv, At
  <2>2. Stored(m) /\ (metrics[m].writer = t => metrics[m] = StoredRows(t)[m])
    BY <2>1 DEF AnalysisInv, StoredInv
  <2>. QED BY <1>1, <2>2, Names DEF Stored
<1>5. RowsOfOneScan'
  BY <1>1 DEF AnalysisInv, RowsOfOneScan, Scanned, Stored
<1>. QED BY <1>2, <1>4, <1>5 DEF AnalysisInv

-----------------------------------------------------------------------------
(* Every step                                                              *)

LEMMA InitInv == Init => AnalysisInv
<1>1. SUFFICES ASSUME Init
               PROVE  AnalysisInv
  OBVIOUS
<1>2. ShapeInv
  BY <1>1, IdleOK DEF Init, ShapeInv
<1>3. \A s \in Scanners : ~At(s, "boards") /\ DOMAIN metrics = {}
  BY <1>1 DEF Init, At, IdleScan
<1>4. LockInv
  BY <1>1, Names DEF Init, LockInv
<1>. QED BY <1>1, <1>2, <1>3, <1>4 DEF AnalysisInv, StoredInv, RowsOfOneScan, Scanned, Stored, Init

LEMMA StepKeeps == AnalysisInv /\ [Next]_vars => AnalysisInv'
<1>1. SUFFICES ASSUME AnalysisInv, [Next]_vars
               PROVE  AnalysisInv'
  OBVIOUS
<1>2. boards = [g \in Games |-> boards[g]]
  BY <1>1 DEF AnalysisInv, ShapeInv
<1>3. ASSUME NEW s \in Scanners,
             Forbidden(s) \/ Fail(s) \/ UpdateBoards(s)
      PROVE  AnalysisInv'
  <2>1. Stop(s) /\ metrics' = metrics /\ boards' = [g \in Games |-> boards'[g]]
    BY <1>2, <1>3 DEF Forbidden, Fail, UpdateBoards
  <2>. QED BY <1>1, <2>1, StopKeeps
<1>4. ASSUME UNCHANGED <<metrics, lock, scan>>, boards' = [g \in Games |-> boards'[g]]
      PROVE  AnalysisInv'
  <2>1. \A t \in Scanners : StoredRows(t)' = StoredRows(t)
    BY <1>4, SameRows
  <2>. QED BY <1>1, <1>4, <2>1 DEF AnalysisInv, ShapeInv, LockInv, Has, At, StoredInv, Stored, RowsOfOneScan, Scanned
<1>5. CASE UNCHANGED vars
  BY <1>2, <1>4, <1>5 DEF vars
<1>6. ASSUME NEW r, NEW hidden, Push(r, hidden)
      PROVE  AnalysisInv'
  BY <1>2, <1>4, <1>6 DEF Push
<1>7. ASSUME NEW g \in Games, CreateBoard(g)
      PROVE  AnalysisInv'
  BY <1>2, <1>4, <1>7 DEF CreateBoard
<1>8. ASSUME NEW s \in Scanners, Start(s, System) \/ Run(s) \/ \E u \in Users : Rescan(s, u)
      PROVE  AnalysisInv'
  BY <1>1, <1>3, <1>8, BeginningKeeps, UpsertKeeps, CommitKeeps DEF Run, Rescan
<1>. QED BY <1>1, <1>3, <1>5, <1>6, <1>7, <1>8, PostKeeps DEF Next

LEMMA Always == Spec => []AnalysisInv
BY InitInv, StepKeeps, PTL DEF Spec

-----------------------------------------------------------------------------
(* What the rows say                                                       *)

Late == {"upsert", "commit", "boards"}

(* A scan that has its files has those fetched at its commit; a tree       *)
(* without any is told by the two passes alike.                            *)
Worked(r) ==
  /\ r.by \in Users \cup {System}
  /\ r.sha \in Revisions \cup {NULL}
  /\ r.pc \in Before => r.files = NoFiles
  /\ r.pc \in Late \cup {"files"} => r.sha \in Revisions
  /\ r.pc \in Late => r.files = FetchedOf(FilesOf[r.sha])

(* A row is scored by its flags, and those of a scan are what the          *)
(* evaluation makes of the files fetched at the commit the row names.      *)
RowOK(m, row) ==
  /\ m \in MetricType /\ row \in Row
  /\ row.level = CalculateLevel(row.score)
  /\ m \in Metric /\ row.writer # "post" =>
       LET tree == FilesOf[row.sha] IN
         /\ row.flags = Evaluation(tree, FetchedOf(tree))[m]
         /\ row.sources = PromptSources(SourceSpecs(FetchedOf(tree))[m])

WorkInv == \A s \in Scanners : Worked(scan[s])
RowsInv == \A m \in DOMAIN metrics : RowOK(m, metrics[m])
PlaceInv ==
  /\ project \in [service : {"github", "gitlab"}, private : BOOLEAN]
  /\ head \in Revisions
  /\ boards \in [Games -> Nat \cup {NULL}]

TruthInv == AnalysisInv /\ WorkInv /\ RowsInv /\ PlaceInv

LEMMA TreeIs ==
  ASSUME NEW r \in Revisions
  PROVE  FilesOf[r] \in SUBSET Path
BY AnalysisAssumption

LEMMA EightMetrics ==
  ASSUME NEW m \in Metric
  PROVE  m \in {"readme", "tests", "ci", "structure", "linting", "deps", "docs", "ai_ready"}
BY DEF Metric, MetricOrder, Range

LEMMA FlagsOf ==
  ASSUME NEW tree, NEW files, NEW m \in Metric
  PROVE  Evaluation(tree, files)[m] \in SUBSET AnyFlag
<1>1. Evaluation(tree, files)[m] \subseteq Flags[m]
  <2>1. CASE m = "readme"
    BY <2>1 DEF Evaluation, EvalReadme, If, Flags
  <2>2. CASE m = "tests"
    BY <2>2 DEF Evaluation, EvalTests, If, Flags
  <2>3. CASE m = "ci"
    BY <2>3 DEF Evaluation, EvalCI, If, Flags
  <2>4. CASE m = "structure"
    BY <2>4 DEF Evaluation, EvalStructure, If, Flags
  <2>5. CASE m = "linting"
    BY <2>5 DEF Evaluation, EvalLinting, If, Flags
  <2>6. CASE m = "deps"
    BY <2>6 DEF Evaluation, EvalDeps, If, Flags
  <2>7. CASE m = "docs"
    BY <2>7 DEF Evaluation, EvalDocs, If, Flags
  <2>8. CASE m = "ai_ready"
    BY <2>8 DEF Evaluation, EvalAIReady, If, Flags
  <2>. QED BY <2>1, <2>2, <2>3, <2>4, <2>5, <2>6, <2>7, <2>8, EightMetrics
<1>2. m \in DOMAIN Flags
  BY EightMetrics DEF Flags
<1>3. Flags[m] \in Range(Flags)
  BY <1>2 DEF Range
<1>. QED BY <1>1, <1>3 DEF AnyFlag

(* The excerpts of a scan's row.                                           *)
LEMMA ExcerptsOf ==
  ASSUME NEW r \in Revisions, NEW m \in Metric
  PROVE  LET out == PromptSources(SourceSpecs(FetchedOf(FilesOf[r]))[m]) IN
           /\ out \in Seq(Source)
           /\ TotalBytes([i \in DOMAIN out |-> out[i].bytes]) <= MaxPromptContext
           /\ \A i \in DOMAIN out : /\ out[i].path \in FilesOf[r]
                                    /\ m # "readme" => out[i].path \notin Matched["readme"]
<1> DEFINE tree == FilesOf[r]
           specs == SourceSpecs(FetchedOf(tree))[m]
           out == PromptSources(specs)
<1>1. tree \in SUBSET Path
  BY TreeIs
<1> HIDE DEF tree
<1>2. PICK D \in SUBSET tree : specs \in Seq([path : D, max : Nat]) /\ (m # "readme" => D \cap Matched["readme"] = {})
  BY <1>1, SourcesOf, Zenon
<1> HIDE DEF specs
<1>3. D \in SUBSET Path
  BY <1>1, <1>2
<1>4. /\ out \in Seq([path : D, bytes : Nat])
      /\ TotalBytes([i \in DOMAIN out |-> out[i].bytes]) <= MaxPromptContext
  BY <1>2, <1>3, PromptIs
<1> HIDE DEF out
<1>5. DOMAIN out = 1..Len(out) /\ Len(out) \in Nat /\ \A i \in 1..Len(out) : out[i] \in [path : D, bytes : Nat]
  BY <1>4, MembersOf, Zenon
<1>6. out = [i \in 1..Len(out) |-> out[i]]
  BY <1>4
<1>7. \A i \in 1..Len(out) : out[i] \in Source /\ out[i].path \in D
  BY <1>3, <1>5 DEF Source
<1>8. out \in Seq(Source)
  BY <1>5, <1>6, <1>7, MadeOf, Zenon
<1>. QED BY <1>2, <1>4, <1>5, <1>7, <1>8 DEF out, specs, tree

LEMMA StoredRowOK ==
  ASSUME NEW s \in Scanners, Worked(scan[s]), scan[s].pc \in Late, NEW m \in Metric
  PROVE  RowOK(m, StoredRows(s)[m])
<1> DEFINE r == scan[s].sha
           tree == FilesOf[r]
           flags == Evaluation(tree, FetchedOf(tree))[m]
           sources == PromptSources(SourceSpecs(FetchedOf(tree))[m])
           score == Score(m, flags)
<1>1. r \in Revisions /\ scan[s].files = FetchedOf(tree) /\ scan[s].by \in Users \cup {System}
  BY DEF Worked
<1>2. StoredRows(s)[m] = [sha |-> r, score |-> score, level |-> CalculateLevel(score),
                          flags |-> flags, sources |-> sources, by |-> scan[s].by, writer |-> s]
  BY <1>1 DEF StoredRows, Result
<1>3. flags \in SUBSET AnyFlag
  BY FlagsOf
<1>4. sources \in Seq(Source)
  BY <1>1, ExcerptsOf
<1> HIDE DEF flags, sources
<1>5. score \in 0..10 /\ CalculateLevel(score) \in 0..3
  BY ScoreIs, LevelIs
<1> HIDE DEF score
<1>6. StoredRows(s)[m] \in Row
  <2> HIDE DEF r
  <2>. QED BY <1>1, <1>2, <1>3, <1>4, <1>5 DEF Row
<1>7. m \in MetricType
  BY Names
<1>8. StoredRows(s)[m].sha = r /\ StoredRows(s)[m].level = CalculateLevel(StoredRows(s)[m].score)
  BY <1>2
<1>9. StoredRows(s)[m].flags = flags /\ StoredRows(s)[m].sources = sources
  BY <1>2
<1>. QED BY <1>6, <1>7, <1>8, <1>9 DEF RowOK, flags, sources

LEMMA EightLengths ==
  ASSUME NEW f, \A i \in 1..8 : f[i] \in 0..60, f = [i \in 1..8 |-> f[i]]
  PROVE  TotalBytes(f) \in 0..480
<1>1. Len(f) = 8
  <2>1. \A i \in 1..8 : f[i] \in Nat
    OBVIOUS
  <2>. QED BY <2>1, MadeOf
<1>2. SumTo(f, 8) \in 0..480
  <2>1. 60 * 8 = 480 /\ 60 \in Nat /\ 8 \in Nat
    OBVIOUS
  <2>2. SumTo(f, 8) \in 0..(60 * 8)
    BY SumAtMost
  <2>. QED BY <2>1, <2>2
<1>. QED BY <1>1, <1>2 DEF TotalBytes

LEMMA TotalIs ==
  ASSUME NEW s
  PROVE  Total(s) \in Nat
<1> DEFINE f == [i \in 1..8 |-> Points(Score(MetricOrder[i], Result(s)[MetricOrder[i]]))]
<1>1. \A i \in 1..8 : f[i] \in 0..60
  <2>1. ASSUME NEW i \in 1..8
        PROVE  f[i] \in 0..60
    <3>1. Score(MetricOrder[i], Result(s)[MetricOrder[i]]) \in 0..10
      BY Order, ScoreIs
    <3>. QED BY <3>1, LevelIs
  <2>. QED BY <2>1
<1>2. Total(s) = TotalBytes(f) /\ f = [i \in 1..8 |-> f[i]]
  BY DEF Total
<1> HIDE DEF f
<1>3. TotalBytes(f) \in 0..480
  BY <1>1, <1>2, EightLengths
<1>4. Total(s) \in 0..480
  BY <1>2, <1>3, Zenon
<1>. QED BY <1>4

(* One scan moves on, and the others stay.                                 *)
LEMMA WorkMoves ==
  ASSUME WorkInv, NEW s \in Scanners, Worked(scan'[s]), \A t \in Scanners \ {s} : scan'[t] = scan[t]
  PROVE  WorkInv'
BY DEF WorkInv

(* The next record of a scan.                                              *)
LEMMA WorkedOn ==
  ASSUME NEW r, ScanOK(r), Worked(r), NEW n, NEW v,
         \/ r.pc = "tree" /\ n = [r EXCEPT !.sha = v, !.pc = "files"] /\ v \in Revisions
         \/ /\ r.pc = "tree" /\ n = [r EXCEPT !.sha = v, !.pc = "upsert"] /\ v \in Revisions
            /\ NoFiles = FetchedOf(FilesOf[v])
         \/ /\ r.pc = "files" /\ n = [r EXCEPT !.pc = "upsert", !.files = v]
            /\ v = FetchedOf(FilesOf[r.sha])
         \/ r.pc = "idle" /\ n = [r EXCEPT !.pc = "tree", !.by = v] /\ v \in Users \cup {System}
         \/ r.pc = "upsert" /\ n = [r EXCEPT !.next = v, !.pc = "upsert"]
         \/ r.pc = "upsert" /\ n = [r EXCEPT !.next = v, !.pc = "commit"]
  PROVE  Worked(n)
<1>1. DOMAIN r = Fields /\ {"sha", "pc", "files", "by", "next"} = Fields
  BY DEF ScanOK, Fields
<1>2. \/ /\ r.pc = "tree" /\ n.pc = "files" /\ n.sha = v /\ n.by = r.by /\ n.files = r.files /\ v \in Revisions
      \/ /\ r.pc = "tree" /\ n.pc = "upsert" /\ n.sha = v /\ n.by = r.by /\ n.files = r.files /\ v \in Revisions
         /\ NoFiles = FetchedOf(FilesOf[v])
      \/ /\ r.pc = "files" /\ n.pc = "upsert" /\ n.sha = r.sha /\ n.by = r.by /\ n.files = v
         /\ v = FetchedOf(FilesOf[r.sha])
      \/ /\ r.pc = "idle" /\ n.pc = "tree" /\ n.sha = r.sha /\ n.by = v /\ n.files = r.files
         /\ v \in Users \cup {System}
      \/ /\ r.pc = "upsert" /\ n.pc \in {"upsert", "commit"} /\ n.sha = r.sha /\ n.by = r.by /\ n.files = r.files
  <2>1. CASE r.pc = "tree" /\ n = [r EXCEPT !.sha = v, !.pc = "files"] /\ v \in Revisions
    <3>1. n.sha = v /\ n.pc = "files" /\ n.by = r.by /\ n.files = r.files
      BY <1>1, <2>1, Changed
    <3>. QED BY <2>1, <3>1
  <2>2. CASE /\ r.pc = "tree" /\ n = [r EXCEPT !.sha = v, !.pc = "upsert"] /\ v \in Revisions
             /\ NoFiles = FetchedOf(FilesOf[v])
    <3>1. n.sha = v /\ n.pc = "upsert" /\ n.by = r.by /\ n.files = r.files
      BY <1>1, <2>2, Changed
    <3>. QED BY <2>2, <3>1
  <2>3. CASE /\ r.pc = "files" /\ n = [r EXCEPT !.pc = "upsert", !.files = v]
             /\ v = FetchedOf(FilesOf[r.sha])
    <3>1. n.sha = r.sha /\ n.pc = "upsert" /\ n.by = r.by /\ n.files = v
      BY <1>1, <2>3, Changed
    <3>. QED BY <2>3, <3>1
  <2>4. CASE r.pc = "idle" /\ n = [r EXCEPT !.pc = "tree", !.by = v] /\ v \in Users \cup {System}
    <3>1. n.sha = r.sha /\ n.pc = "tree" /\ n.by = v /\ n.files = r.files
      BY <1>1, <2>4, Changed
    <3>. QED BY <2>4, <3>1
  <2>5. CASE r.pc = "upsert" /\ n = [r EXCEPT !.next = v, !.pc = "upsert"]
    <3>1. n.sha = r.sha /\ n.pc = "upsert" /\ n.by = r.by /\ n.files = r.files
      BY <1>1, <2>5, Changed
    <3>. QED BY <2>5, <3>1
  <2>6. CASE r.pc = "upsert" /\ n = [r EXCEPT !.next = v, !.pc = "commit"]
    <3>1. n.sha = r.sha /\ n.pc = "commit" /\ n.by = r.by /\ n.files = r.files
      BY <1>1, <2>6, Changed
    <3>. QED BY <2>6, <3>1
  <2>. QED BY <2>1, <2>2, <2>3, <2>4, <2>5, <2>6
<1>3. r.pc \in Before \cup {"upsert", "commit", "boards"}
  BY DEF ScanOK
<1>. QED BY <1>2, <1>3 DEF Worked, Before, Late

LEMMA NothingFetched ==
  ASSUME NEW tree, AllFetched(tree) = {}
  PROVE  NoFiles = FetchedOf(tree)
<1>1. \A c \in Category : Fetched(tree, c) = {}
  BY DEF AllFetched
<1>. QED BY <1>1 DEF NoFiles, FetchedOf

LEMMA WorkStart ==
  ASSUME AnalysisInv, WorkInv, PlaceInv, NEW s \in Scanners,
         (\E by \in Users \cup {System} : Start(s, by)) \/ FetchTree(s) \/ FetchFiles(s) \/ Upsert(s)
  PROVE  WorkInv'
<1> DEFINE r == scan[s]
<1>1. ScanOK(r) /\ Worked(r) /\ DOMAIN scan = Scanners
  BY DEF AnalysisInv, ShapeInv, WorkInv
<1>2. ASSUME NEW n, Worked(n), scan' = [scan EXCEPT ![s] = n]
      PROVE  WorkInv'
  BY <1>1, <1>2, WorkMoves
<1>3. CASE \E by \in Users \cup {System} : Start(s, by)
  <2>1. PICK by \in Users \cup {System} : Start(s, by)
    BY <1>3
  <2> DEFINE n == [r EXCEPT !.pc = "tree", !.by = by]
  <2>2. r.pc = "idle" /\ scan' = [scan EXCEPT ![s] = n]
    BY <1>1, <2>1 DEF Start, At
  <2>3. Worked(n)
    <3> HIDE DEF r
    <3>. QED BY <1>1, <2>2, WorkedOn
  <2>. QED BY <1>2, <2>2, <2>3
<1>4. CASE FetchTree(s)
  <2> DEFINE pc == IF AllFetched(FilesOf[head]) = {} THEN "upsert" ELSE "files"
             n == [r EXCEPT !.sha = head, !.pc = pc]
  <2>1. r.pc = "tree" /\ scan' = [scan EXCEPT ![s] = n] /\ head \in Revisions
    BY <1>1, <1>4 DEF FetchTree, At, PlaceInv
  <2>2. pc = "files" \/ (pc = "upsert" /\ NoFiles = FetchedOf(FilesOf[head]))
    BY NothingFetched
  <2>3. Worked(n)
    <3> HIDE DEF r, pc
    <3>. QED BY <1>1, <2>1, <2>2, WorkedOn
  <2>. QED BY <1>2, <2>1, <2>3
<1>5. CASE FetchFiles(s)
  <2> DEFINE v == [c \in Category |-> Fetched(FilesOf[scan[s].sha], c)]
             n == [r EXCEPT !.pc = "upsert", !.files = v]
  <2>1. r.pc = "files" /\ scan' = [scan EXCEPT ![s] = n]
    BY <1>1, <1>5 DEF FetchFiles, At
  <2>2. v = FetchedOf(FilesOf[r.sha])
    BY DEF FetchedOf
  <2>3. Worked(n)
    <3> HIDE DEF r, v
    <3>. QED BY <1>1, <2>1, <2>2, WorkedOn
  <2>. QED BY <1>2, <2>1, <2>3
<1>6. CASE Upsert(s)
  <2> DEFINE pc == IF r.next = 8 THEN "commit" ELSE "upsert"
             v == r.next + 1
             n == [r EXCEPT !.next = v, !.pc = pc]
  <2>1. r.pc = "upsert" /\ scan' = [scan EXCEPT ![s] = n]
    BY <1>1, <1>6 DEF Upsert, At
  <2>2. pc = "commit" \/ pc = "upsert"
    OBVIOUS
  <2>3. Worked(n)
    <3> HIDE DEF r, pc, v
    <3>. QED BY <1>1, <2>1, <2>2, WorkedOn
  <2>. QED BY <1>2, <2>1, <2>3
<1>. QED BY <1>3, <1>4, <1>5, <1>6

LEMMA WorkStops ==
  ASSUME AnalysisInv, WorkInv, NEW s \in Scanners, Stop(s)
  PROVE  WorkInv'
<1>1. Worked(IdleScan)
  BY DEF Worked, IdleScan, Before, Late
<1>2. scan'[s] = IdleScan /\ \A t \in Scanners \ {s} : scan'[t] = scan[t]
  BY DEF AnalysisInv, ShapeInv, Stop
<1>. QED BY <1>1, <1>2, WorkMoves

LEMMA WorkCommits ==
  ASSUME AnalysisInv, WorkInv, NEW s \in Scanners, Commit(s)
  PROVE  WorkInv'
<1> DEFINE n == [scan[s] EXCEPT !.pc = "boards"]
<1>1. /\ ScanOK(scan[s]) /\ Worked(scan[s]) /\ scan[s].pc = "commit"
      /\ scan'[s] = n /\ \A t \in Scanners \ {s} : scan'[t] = scan[t]
  BY DEF AnalysisInv, ShapeInv, WorkInv, Commit, Goto, At
<1>2. n.pc = "boards" /\ n.sha = scan[s].sha /\ n.by = scan[s].by /\ n.files = scan[s].files
  BY <1>1, CommittedOK
<1> HIDE DEF n
<1>3. Worked(n)
  BY <1>1, <1>2 DEF Worked, Before, Late
<1>. QED BY <1>1, <1>3, WorkMoves

LEMMA RowsUpserted ==
  ASSUME RowsInv, NEW rows, \A m \in DOMAIN rows : RowOK(m, rows[m]), metrics' = Upserted(rows)
  PROVE  RowsInv'
BY DEF RowsInv, Upserted

LEMMA RowsCommitted ==
  ASSUME TruthInv, NEW s \in Scanners, Commit(s)
  PROVE  RowsInv'
<1>1. \A m \in Metric : RowOK(m, StoredRows(s)[m])
  BY StoredRowOK DEF TruthInv, WorkInv, Commit, At, Late
<1>. QED BY <1>1, RowsDomain, RowsUpserted DEF TruthInv, Commit

LEMMA RowPosted ==
  ASSUME TruthInv, NEW u \in Users, NEW p \in Postings, PostAnalysis(u, p)
  PROVE  RowsInv'
<1> DEFINE score == IF p.metric \in Metric THEN Score(p.metric, p.flags) ELSE 0
           row == [sha |-> p.sha, score |-> score, level |-> CalculateLevel(score),
                   flags |-> p.flags, sources |-> p.sources, by |-> u, writer |-> "post"]
           rows == [m \in {p.metric} |-> row]
<1>1. /\ p.metric \in MetricType /\ p.flags \in SUBSET AnyFlag /\ p.sha \in Revisions
      /\ p.sources \in Seq(Source)
  BY AnalysisAssumption
<1>2. metrics' = Upserted(rows)
  BY DEF PostAnalysis
<1>3. score \in 0..10
  BY ScoreIs
<1> HIDE DEF score
<1>4. CalculateLevel(score) \in 0..3
  BY <1>3, LevelIs
<1>5. row \in Row /\ row.writer = "post" /\ row.level = CalculateLevel(row.score)
  BY <1>1, <1>3, <1>4 DEF Row
<1> HIDE DEF row
<1>6. RowOK(p.metric, row)
  BY <1>1, <1>5 DEF RowOK
<1>7. \A m \in DOMAIN rows : RowOK(m, rows[m])
  BY <1>6
<1> HIDE DEF rows
<1>. QED BY <1>2, <1>7, RowsUpserted DEF TruthInv

LEMMA TruthInit == Init => TruthInv
<1>1. SUFFICES ASSUME Init
               PROVE  TruthInv
  OBVIOUS
<1>2. Worked(IdleScan)
  BY DEF Worked, IdleScan, Before, Late
<1>3. WorkInv
  BY <1>1, <1>2 DEF Init, WorkInv
<1>4. RowsInv
  BY <1>1 DEF Init, RowsInv
<1>5. PlaceInv
  BY <1>1, AnalysisAssumption DEF Init, PlaceInv
<1>. QED BY <1>1, <1>3, <1>4, <1>5, InitInv DEF TruthInv

LEMMA TruthStep == TruthInv /\ [Next]_vars => TruthInv'
<1>1. SUFFICES ASSUME TruthInv, [Next]_vars
               PROVE  WorkInv' /\ RowsInv' /\ PlaceInv'
  BY StepKeeps DEF TruthInv
<1>2. /\ AnalysisInv /\ WorkInv /\ RowsInv
      /\ project \in [service : {"github", "gitlab"}, private : BOOLEAN] /\ head \in Revisions
      /\ boards \in [Games -> Nat \cup {NULL}]
  BY <1>1 DEF TruthInv, PlaceInv
<1>3. ASSUME UNCHANGED <<project, head, boards>>
      PROVE  PlaceInv'
  BY <1>2, <1>3 DEF PlaceInv
<1>4. ASSUME UNCHANGED metrics
      PROVE  RowsInv'
  BY <1>2, <1>4 DEF RowsInv
<1>5. ASSUME UNCHANGED scan
      PROVE  WorkInv'
  BY <1>2, <1>5 DEF WorkInv
<1>6. CASE UNCHANGED vars
  BY <1>3, <1>4, <1>5, <1>6 DEF vars
<1>7. ASSUME NEW s \in Scanners,
             (\E by \in Users \cup {System} : Start(s, by)) \/ FetchTree(s) \/ FetchFiles(s) \/ Upsert(s)
      PROVE  WorkInv' /\ RowsInv' /\ PlaceInv'
  <2>1. UNCHANGED <<project, head, boards, metrics>>
    BY <1>7 DEF Start, FetchTree, FetchFiles, Upsert
  <2>2. PlaceInv
    BY <1>1 DEF TruthInv
  <2>. QED BY <1>2, <1>3, <1>4, <1>7, <2>1, <2>2, WorkStart
<1>8. ASSUME NEW s \in Scanners, Commit(s)
      PROVE  WorkInv' /\ RowsInv' /\ PlaceInv'
  BY <1>1, <1>2, <1>3, <1>8, WorkCommits, RowsCommitted DEF Commit
<1>9. ASSUME NEW s \in Scanners, Forbidden(s)
      PROVE  WorkInv' /\ RowsInv' /\ PlaceInv'
  <2>1. project' \in [service : {"github", "gitlab"}, private : BOOLEAN]
    <3> DEFINE b == project.private \/ ForbiddenError(s) = <<"github: forbidden">>
    <3>1. project' = [project EXCEPT !.private = b] /\ b \in BOOLEAN
      BY <1>9 DEF Forbidden
    <3> HIDE DEF b
    <3>. QED BY <1>2, <3>1
  <2>. QED BY <1>2, <1>4, <1>9, <2>1, WorkStops DEF Forbidden, PlaceInv
<1>10. ASSUME NEW s \in Scanners, Fail(s)
      PROVE  WorkInv' /\ RowsInv' /\ PlaceInv'
  BY <1>2, <1>3, <1>4, <1>10, WorkStops DEF Fail
<1>11. ASSUME NEW s \in Scanners, UpdateBoards(s)
      PROVE  WorkInv' /\ RowsInv' /\ PlaceInv'
  <2>1. boards' \in [Games -> Nat \cup {NULL}]
    <3>1. boards' = [g \in Games |-> IF boards[g] = NULL \/ Total(s) = 0 THEN boards[g] ELSE Total(s)]
      BY <1>11 DEF UpdateBoards
    <3>2. Total(s) \in Nat
      BY TotalIs
    <3>. QED BY <1>2, <3>1, <3>2
  <2>. QED BY <1>2, <1>4, <1>11, <2>1, WorkStops DEF UpdateBoards, PlaceInv
<1>12. ASSUME NEW u \in Users, NEW p \in Postings, PostAnalysis(u, p)
      PROVE  WorkInv' /\ RowsInv' /\ PlaceInv'
  BY <1>1, <1>3, <1>5, <1>12, RowPosted DEF PostAnalysis
<1>13. ASSUME NEW r \in Revisions, NEW hidden \in BOOLEAN, Push(r, hidden)
      PROVE  WorkInv' /\ RowsInv' /\ PlaceInv'
  <2>1. project' = [project EXCEPT !.private = hidden] /\ head' = r /\ UNCHANGED <<metrics, lock, boards, scan>>
    BY <1>13 DEF Push
  <2>. QED BY <1>2, <1>4, <1>5, <1>13, <2>1 DEF PlaceInv
<1>14. ASSUME NEW g \in Games, CreateBoard(g)
      PROVE  WorkInv' /\ RowsInv' /\ PlaceInv'
  BY <1>2, <1>4, <1>5, <1>14 DEF CreateBoard, PlaceInv
<1>15. CASE Next
  <2>1. ASSUME NEW s \in Scanners, Start(s, System) \/ Run(s) \/ Forbidden(s) \/ Fail(s) \/ \E u \in Users : Rescan(s, u)
        PROVE  WorkInv' /\ RowsInv' /\ PlaceInv'
    <3>1. CASE Start(s, System) \/ \E u \in Users : Rescan(s, u)
      BY <1>7, <3>1 DEF Rescan
    <3>. QED BY <1>7, <1>8, <1>9, <1>10, <1>11, <2>1, <3>1 DEF Run
  <2>. QED BY <1>12, <1>13, <1>14, <1>15, <2>1 DEF Next
<1>. QED BY <1>1, <1>6, <1>15

LEMMA DashesAre ==
  ASSUME NEW level \in 0..3
  PROVE  Cardinality(Dash(level)) = level
<1>1. Dash(level) = 1..level
  BY DEF Dash
<1>2. \A n \in Nat : Cardinality(1..n) = n
  BY FS_Interval
<1>. QED BY <1>1, <1>2

LEMMA AlwaysTrue == Spec => []TruthInv
BY TruthInit, TruthStep, PTL DEF Spec

-----------------------------------------------------------------------------
(* Theorems                                                                *)

(* Of any number of scans that overlap and fail, all rows but those posted *)
(* since are the work of one, and none is missing (service.go:80-114).     *)
THEOREM OneScansWork == Spec => []RowsOfOneScan
<1>1. AnalysisInv => RowsOfOneScan
  BY DEF AnalysisInv
<1>. QED BY <1>1, Always, PTL

(* The scans' transactions never wait in a circle: the one that is         *)
(* furthest among them waits for nobody (service.go:29-32,88,104).         *)
THEOREM ScansNeverDeadlock == Spec => []ScansProceed
<1>1. ASSUME AnalysisInv
      PROVE  ScansProceed
  <2>1. SUFFICES ASSUME NEW a \in Scanners, ~At(a, "idle"),
                        \A s \in Scanners : ~At(s, "idle") => \E t \in Scanners : WaitsFor(s, t)
                 PROVE  FALSE
    BY DEF ScansProceed
  <2> DEFINE Turns == {scan[s].next : s \in {t \in Scanners : At(t, "upsert")}}
  <2>2. At(a, "upsert")
    BY <2>1 DEF WaitsFor
  <2>3. \A s \in Scanners : scan[s].next \in 1..9 /\ (At(s, "upsert") => scan[s].next \in 1..8)
    BY <1>1 DEF AnalysisInv, ShapeInv, ScanOK, At
  <2>4. PICK x \in Turns : \A y \in Turns : y <= x
    <3>1. Turns \subseteq 1..9 /\ Turns # {}
      BY <2>2, <2>3
    <3> HIDE DEF Turns
    <3>. QED BY <3>1, Greatest
  <2>5. PICK s \in Scanners : At(s, "upsert") /\ scan[s].next = x
    BY <2>4
  <2>6. PICK t \in Scanners : t # s /\ lock[MetricOrder[x]] = t
    BY <2>1, <2>5 DEF WaitsFor, RowOrder, At
  <2>7. x \in 1..8 /\ MetricOrder[x] \in MetricType
    BY <2>3, <2>5, Order, Names
  <2>8. Has(t, MetricOrder[x])
    BY <1>1, <2>6, <2>7 DEF AnalysisInv, LockInv
  <2>9. At(t, "upsert")
    BY <2>1, <2>8 DEF Has, At, WaitsFor
  <2>10. PICK i \in 1..8 : i < scan[t].next /\ MetricOrder[x] = MetricOrder[i]
    BY <2>8, <2>9 DEF Has, At
  <2>11. x < scan[t].next /\ scan[t].next \in Turns
    BY <2>7, <2>9, <2>10, Order
  <2>12. scan[t].next <= x /\ scan[t].next \in 1..9
    <3> HIDE DEF Turns
    <3>. QED BY <2>3, <2>4, <2>11
  <2>. QED BY <2>7, <2>11, <2>12
<1>. QED BY <1>1, Always, PTL

(* Boards get what the page adds up, when no other call wrote a row since  *)
(* the scan's commit: the rows are then the scan's own, and each tile's    *)
(* points its share of the total (service.go:116-130, projects.go:199-218).*)
THEOREM PagePointsReachBoards == Spec => BoardsGetPagePoints
<1>1. ASSUME AnalysisInv, NEW s \in Scanners, UpdateBoards(s),
             \A m \in Metric : metrics[m].writer = s, EarnedPts > 0, NEW g \in Games
      PROVE  boards'[g] \in {NULL, EarnedPts}
  <2>1. \A m \in Metric : Stored(m) /\ metrics[m] = StoredRows(s)[m]
    BY <1>1 DEF UpdateBoards, At, AnalysisInv, StoredInv
  <2>2. \A x : Clamp(CalculateLevel(x)) = CalculateLevel(x)
    BY DEF CalculateLevel, Clamp
  <2>3. ASSUME NEW i \in 1..8
        PROVE  Tiles[MetricOrder[i]].score * Tiles[MetricOrder[i]].level * 2
                 = Points(Score(MetricOrder[i], Result(s)[MetricOrder[i]]))
    <3> DEFINE m == MetricOrder[i]
               score == Score(m, Result(s)[m])
    <3>1. m \in Metric
      BY Order
    <3>2. Tiles[m] = [score |-> metrics[m].score, level |-> Clamp(metrics[m].level)]
      BY <2>1, <3>1 DEF Tiles
    <3>3. metrics[m].score = score /\ metrics[m].level = CalculateLevel(score)
      BY <2>1, <3>1, StoredRowIs
    <3>4. Tiles[m].score = score /\ Tiles[m].level = CalculateLevel(score)
      BY <2>2, <3>2, <3>3
    <3>. QED BY <3>4 DEF Points
  <2>4. EarnedPts = Total(s)
    BY <2>3 DEF EarnedPts, Total
  <2>5. boards'[g] = IF boards[g] = NULL \/ Total(s) = 0 THEN boards[g] ELSE Total(s)
    BY <1>1 DEF UpdateBoards
  <2>. QED BY <1>1, <2>4, <2>5
<1>2. AnalysisInv =>
        [\A s \in Scanners :
           UpdateBoards(s) /\ (\A m \in Metric : metrics[m].writer = s) /\ EarnedPts > 0 =>
             \A g \in Games : boards'[g] \in {NULL, EarnedPts}]_vars
  BY <1>1
<1>. QED BY <1>2, Always, PTL DEF BoardsGetPagePoints

(* Scans, locks, rows and boards are always what their code can make of    *)
(* them: every row was scored by the flags it has, at 0 to 10, and its     *)
(* level follows from its score (service.go:80-131, metrics.go:34-73).     *)
THEOREM TypesCorrect == Spec => []TypeOK
<1>1. ASSUME TruthInv
      PROVE  TypeOK
  <2>1. ASSUME NEW s \in Scanners
        PROVE  scan[s] \in Scan
    <3> DEFINE r == scan[s]
    <3>1. ScanOK(r) /\ Worked(r)
      BY <1>1 DEF TruthInv, AnalysisInv, ShapeInv, WorkInv
    <3>2. r.files \in [Category -> SUBSET Path]
      <4>1. CASE r.pc \in Before
        BY <3>1, <4>1 DEF Worked, NoFiles
      <4>2. CASE r.pc \in Late
        <5>1. r.sha \in Revisions /\ r.files = FetchedOf(FilesOf[r.sha])
          BY <3>1, <4>2 DEF Worked
        <5>2. \A c \in Category : Fetched(FilesOf[r.sha], c) \in SUBSET Path
          BY <5>1, TreeIs DEF Fetched
        <5>. QED BY <5>1, <5>2 DEF FetchedOf
      <4>. QED BY <3>1, <4>1, <4>2 DEF ScanOK, Late
    <3> HIDE DEF r
    <3>3. /\ r.pc \in {"idle", "tree", "files", "upsert", "commit", "boards"} /\ r.next \in 1..9
          /\ r.by \in Users \cup {System} /\ r.sha \in Revisions \cup {NULL}
          /\ DOMAIN r = {"pc", "by", "sha", "files", "next"} /\ r = [f \in {"pc", "by", "sha", "files", "next"} |-> r[f]]
      BY <3>1 DEF ScanOK, Worked, Before, Fields
    <3>4. r \in Scan
      BY <3>2, <3>3 DEF Scan
    <3>. QED BY <3>4 DEF r
  <2>2. scan \in [Scanners -> Scan]
    BY <1>1, <2>1 DEF TruthInv, AnalysisInv, ShapeInv
  <2>3. \A m \in DOMAIN metrics : m \in MetricType /\ metrics[m] \in Row
    BY <1>1 DEF TruthInv, RowsInv, RowOK
  <2>. QED BY <1>1, <2>2, <2>3 DEF TypeOK, TruthInv, PlaceInv, AnalysisInv, ShapeInv
<1>. QED BY <1>1, AlwaysTrue, PTL

(* Whatever commit a scan pinned and however many calls it was allowed,    *)
(* the files it shows and the flags it sets are of the repository at the   *)
(* commit its row names (scan.go:54-104,242-262).                          *)
THEOREM ScansMakeNothingUp == Spec => []NothingMadeUp
<1>1. ASSUME TruthInv, NEW m \in Metric, Scanned(m)
      PROVE  /\ metrics[m].flags \subseteq Whole[metrics[m].sha][m]
             /\ \A i \in DOMAIN metrics[m].sources :
                  metrics[m].sources[i].path \in FilesOf[metrics[m].sha]
  <2> DEFINE r == metrics[m].sha
             tree == FilesOf[r]
  <2>1. /\ r \in Revisions
        /\ metrics[m].flags = Evaluation(tree, FetchedOf(tree))[m]
        /\ metrics[m].sources = PromptSources(SourceSpecs(FetchedOf(tree))[m])
    BY <1>1 DEF TruthInv, RowsInv, RowOK, Row, Scanned, Stored
  <2>2. tree \in SUBSET Path
    BY <2>1, TreeIs
  <2>3. Whole[r] = Evaluation(tree, FoundIn(tree))
    BY <2>1 DEF Whole, FoundIn
  <2>4. metrics[m].flags \subseteq Whole[r][m]
    <3> HIDE DEF r, tree
    <3>. QED BY <2>1, <2>2, <2>3, NothingMadeUpOf
  <2>5. \A i \in DOMAIN metrics[m].sources : metrics[m].sources[i].path \in tree
    BY <2>1, ExcerptsOf
  <2>. QED BY <2>4, <2>5
<1>2. TruthInv => NothingMadeUp
  BY <1>1 DEF NothingMadeUp
<1>. QED BY <1>2, AlwaysTrue, PTL

(* For any lengths of the files, the loops that cut them to a snippet and  *)
(* to what is left of the total never go over it, nor does an answer of    *)
(* the chat (metrics.go:208-250, llm_context.go:83-118,                    *)
(* chat_context.go:92-136).                                                *)
THEOREM ExcerptsKeepWithinBudget == Spec => []EvidenceFits
<1>1. ASSUME TruthInv, NEW m \in Metric, Scanned(m)
      PROVE  /\ TotalBytes([i \in DOMAIN metrics[m].sources |-> metrics[m].sources[i].bytes]) <= MaxPromptContext
             /\ m # "readme" => \A i \in DOMAIN metrics[m].sources : metrics[m].sources[i].path \notin Matched["readme"]
  <2> DEFINE r == metrics[m].sha
  <2>1. r \in Revisions /\ metrics[m].sources = PromptSources(SourceSpecs(FetchedOf(FilesOf[r]))[m])
    BY <1>1 DEF TruthInv, RowsInv, RowOK, Row, Scanned, Stored
  <2> DEFINE out == PromptSources(SourceSpecs(FetchedOf(FilesOf[r]))[m])
  <2>2. /\ TotalBytes([i \in DOMAIN out |-> out[i].bytes]) <= MaxPromptContext
        /\ \A i \in DOMAIN out : m # "readme" => out[i].path \notin Matched["readme"]
    BY <2>1, ExcerptsOf
  <2>3. metrics[m].sources = out
    BY <2>1
  <2> HIDE DEF out, r
  <2>. QED BY <2>2, <2>3
<1>2. ASSUME TruthInv, NEW m \in Metric, Stored(m)
      PROVE  TotalBytes(Evidence(metrics[m].sources)) <= MaxEvidence
  <2>1. metrics[m].sources \in Seq([path : Path, bytes : Nat])
    BY <1>2 DEF TruthInv, RowsInv, RowOK, Row, Source, Stored
  <2>. QED BY <2>1, EvidenceIs
<1>3. ASSUME TruthInv, NEW m \in Metric \ {"readme"}, Scanned(m) \/ ~Stored(m)
      PROVE  \A i \in DOMAIN ChatEvidence(m) : ChatEvidence(m)[i].path \notin Matched["readme"]
  <2>1. m # NULL
    BY AnalysisAssumption
  <2>2. CASE Stored(m)
    <3>1. ChatEvidence(m) = metrics[m].sources
      BY <2>1, <2>2 DEF ChatEvidence
    <3>. QED BY <1>1, <1>3, <2>2, <3>1
  <2>3. CASE ~Stored(m)
    <3>1. ChatEvidence(m) = <<>>
      BY <2>1, <2>3 DEF ChatEvidence
    <3>. QED BY <3>1
  <2>. QED BY <2>2, <2>3
<1>4. TruthInv => EvidenceFits
  BY <1>1, <1>2, <1>3 DEF EvidenceFits
<1>. QED BY <1>4, AlwaysTrue, PTL

(* The prompt, the chat and the tile read one row through three paths, and *)
(* always tell the same score and level, by whatever statements of scans   *)
(* and of the page's requests it was last written (llm_context.go:84-99,   *)
(* service.go:51-78, projects.go:241-253, rescan.go:24-94).                *)
THEOREM PagesShowWhatRequestsGive == Spec => []PromptMatchesTile
<1>1. ASSUME TruthInv, NEW m \in Metric
      PROVE  /\ Tiles[m].score \in 0..10 /\ Tiles[m].level = CalculateLevel(Tiles[m].score)
             /\ LLMContext(m).score = Tiles[m].score /\ LLMContext(m).level = Tiles[m].level
             /\ Tiles[m] = [score |-> Tiles[m].score, level |-> Tiles[m].level]
  <2>1. Stored(m) => metrics[m].score \in 0..10 /\ metrics[m].level = CalculateLevel(metrics[m].score)
    BY <1>1 DEF TruthInv, RowsInv, RowOK, Row, Stored
  <2>2. \A x \in 0..10 : Clamp(CalculateLevel(x)) = CalculateLevel(x) /\ (CalculateLevel(x) = 0 <=> x = 0)
    BY DEF Clamp, CalculateLevel
  <2>3. CalculateLevel(0) = 0
    BY DEF CalculateLevel
  <2>4. CASE Stored(m)
    <3>1. Tiles[m] = [score |-> metrics[m].score, level |-> CalculateLevel(metrics[m].score)]
      BY <2>1, <2>2, <2>4 DEF Tiles
    <3>2. metrics[m].score > 0 \/ metrics[m].score = 0
      BY <2>1, <2>4
    <3>3. LLMContext(m).score = metrics[m].score /\ LLMContext(m).level = metrics[m].level
      BY <2>1, <2>2, <2>4, <3>2 DEF LLMContext
    <3>. QED BY <2>1, <2>4, <3>1, <3>3
  <2>5. CASE ~Stored(m)
    <3>1. Tiles[m] = [score |-> 0, level |-> 0]
      BY <2>5 DEF Tiles
    <3>2. LLMContext(m).score = 0 /\ LLMContext(m).level = 0
      BY <2>5 DEF LLMContext
    <3>. QED BY <2>3, <3>1, <3>2
  <2>. QED BY <2>4, <2>5
<1>2. ASSUME TruthInv
      PROVE  ProgressPct <= 100
  <2> DEFINE f == [i \in 1..8 |-> LET t == Tiles[MetricOrder[i]] IN t.score * t.level * 2]
  <2>1. \A i \in 1..8 : f[i] \in 0..60
    <3>1. ASSUME NEW i \in 1..8
          PROVE  f[i] \in 0..60
      <4>1. Tiles[MetricOrder[i]].score \in 0..10 /\ Tiles[MetricOrder[i]].level = CalculateLevel(Tiles[MetricOrder[i]].score)
        BY <1>1, <1>2, Order
      <4>2. f[i] = Points(Tiles[MetricOrder[i]].score)
        BY <4>1 DEF Points
      <4>. QED BY <4>1, <4>2, LevelIs
    <3>. QED BY <3>1
  <2>2. f = [i \in 1..8 |-> f[i]] /\ EarnedPts = TotalBytes(f)
    BY DEF EarnedPts
  <2> HIDE DEF f
  <2>3. TotalBytes(f) \in 0..480
    BY <2>1, <2>2, EightLengths
  <2>4. EarnedPts \in 0..480
    BY <2>2, <2>3, Zenon
  <2>. QED BY <2>4 DEF ProgressPct, MaxPts
<1>3. ASSUME TruthInv, NEW m \in Metric
      PROVE  /\ [score |-> LLMContext(m).score, level |-> LLMContext(m).level] = Tiles[m]
             /\ Grid[m].dashes = LLMContext(m).level
             /\ Grid[m].colour = "grey" <=> LLMContext(m).score = 0
  <2> DEFINE score == Tiles[m].score
             level == Tiles[m].level
  <2>1. /\ score \in 0..10 /\ level = CalculateLevel(score) /\ LLMContext(m).score = score
        /\ LLMContext(m).level = level /\ Tiles[m] = [score |-> score, level |-> level]
    BY <1>1, <1>3
  <2>2. level \in 0..3 /\ (level = 0 <=> score = 0)
    BY <2>1, LevelIs
  <2>3. Grid[m].dashes = level
    BY <2>2, DashesAre DEF Grid, MetricTile
  <2>4. Grid[m].colour = "grey" <=> level = 0
    BY <2>2 DEF Grid, MetricTile
  <2> HIDE DEF score, level
  <2>. QED BY <2>1, <2>2, <2>3, <2>4
<1>4. ASSUME TruthInv, NEW u \in Users
      PROVE  RescanButton(u) = "on" <=> u \in Editors /\ Scannable
  BY <1>4 DEF RescanButton, Scannable
<1>5. TruthInv => PromptMatchesTile
  BY <1>2, <1>3, <1>4 DEF PromptMatchesTile
<1>. QED BY <1>5, AlwaysTrue, PTL

=============================================================================
