--------------------------- MODULE ProcessingProofs ---------------------------
(***************************************************************************)
(* Theorems about the processing of a text: its chunks, the groups of      *)
(* sentences that belong together, what the model extracts from them and   *)
(* what that costs, and the entities that are kept.  Each is about the     *)
(* specification of its component, for any constants.                      *)
(***************************************************************************)
EXTENDS Chunking, CoherenceChunks, LlmExtraction, EntityDedup, FiniteSetTheorems,
        FunctionTheorems, WellFoundedInduction, TLAPS

-----------------------------------------------------------------------------
(* What induction comes down to: a least member.                            *)

(* Induction over the subsets of a finite set: a non-empty collection of    *)
(* them has one that contains no other.                                     *)
LEMMA LeastSubset ==
    ASSUME NEW D, IsFiniteSet(D), NEW T \in SUBSET (SUBSET D), T # {}
    PROVE  \E s \in T : \A t \in T : t \subseteq s => t = s
<1>1. IsWellFoundedOn(StrictSubsetOrdering(D), FiniteSubsetsOf(D)) /\ FiniteSubsetsOf(D) = SUBSET D
  BY FS_StrictSubsetOrderingWellFounded, FS_FiniteSubsetsOfFinite
<1> DEFINE R == StrictSubsetOrdering(D)
<1>2. IsWellFoundedOn(R, SUBSET D) /\ T \subseteq SUBSET D
  BY <1>1
<1> HIDE DEF R
<1>3. \E s \in T : \A t \in T : ~(<<t, s>> \in R)
  BY <1>2, WFMin
<1> QED BY <1>3 DEF R, StrictSubsetOrdering

LEMMA LeastNumber ==
    ASSUME NEW T \in SUBSET Nat, T # {}
    PROVE  \E m \in T : \A n \in T : m <= n
<1> DEFINE R == OpToRel(<, Nat)
<1>1. IsWellFoundedOn(R, Nat)
  BY NatLessThanWellFounded
<1> HIDE DEF R
<1>2. \E m \in T : \A n \in T : ~(<<n, m>> \in R)
  BY <1>1, WFMin
<1>3. \A m, n \in Nat : <<n, m>> \in R <=> n < m
  BY DEF R, OpToRel
<1>4. PICK m \in T : \A n \in T : ~(<<n, m>> \in R)
  BY <1>2
<1>5. ASSUME NEW n \in T PROVE m <= n
  <2>1. m \in Nat /\ n \in Nat
    OBVIOUS
  <2>2. ~(n < m)
    BY <1>3, <1>4, <2>1
  <2> QED BY <2>1, <2>2
<1> QED BY <1>5

LEMMA LargestIndex ==
    ASSUME NEW n \in Nat, NEW s \in SUBSET (1..n), s # {}
    PROVE  Max(s) \in s /\ \A i \in s : i <= Max(s)
<1> DEFINE T == {n - i : i \in s}
<1>1. T \in SUBSET Nat /\ T # {}
  <2>1. \A i \in s : i \in Nat /\ n - i \in Nat
    OBVIOUS
  <2> QED BY <2>1
<1>2. PICK m \in T : \A k \in T : m <= k
  BY <1>1, LeastNumber
<1>3. PICK i \in s : m = n - i
  BY <1>2
<1>4. \A j \in s : i >= j
  <2> TAKE j \in s
  <2>1. n - i <= n - j
    BY <1>2, <1>3
  <2> QED BY <2>1
<1> QED BY <1>4 DEF Max

-----------------------------------------------------------------------------
(* A sum over a set is the number of points under the summed function, by   *)
(* induction over the subsets of the set.                                   *)
Summing(t, I, f) ==
    f = [s \in SUBSET I |-> IF s = {} THEN 0 ELSE t[CHOOSE x \in s : TRUE] + f[s \ {CHOOSE x \in s : TRUE}]]

SumOver(t, I) == MapThenSumSet(LAMBDA s : t[s], I)

LEMMA SumIsChosen == \A t, I : SumOver(t, I) = (CHOOSE f : Summing(t, I, f))[I]
BY DEF SumOver, MapThenSumSet, MapThenFoldSet, Summing

Under(t, s) == UNION {{x} \X (1..t[x]) : x \in s}

LEMMA UnderOneMore ==
    ASSUME NEW t, NEW s, NEW x \in s, t[x] \in Nat,
           IsFiniteSet(Under(t, s \ {x}))
    PROVE  /\ IsFiniteSet(Under(t, s))
           /\ Cardinality(Under(t, s)) = t[x] + Cardinality(Under(t, s \ {x}))
<1> DEFINE column == {x} \X (1..t[x])
           rest == Under(t, s \ {x})
<1>1. Under(t, s) = column \cup rest
  BY DEF Under
<1>2. column \cap rest = {}
  BY DEF Under
<1>3. IsFiniteSet(column) /\ Cardinality(column) = t[x]
  <2>1. IsFiniteSet({x}) /\ Cardinality({x}) = 1
    BY FS_Singleton
  <2>2. IsFiniteSet(1..t[x]) /\ Cardinality(1..t[x]) = t[x]
    BY FS_Interval
  <2>3. IsFiniteSet({x} \X (1..t[x])) /\ Cardinality({x} \X (1..t[x])) = Cardinality({x}) * Cardinality(1..t[x])
    BY <2>1, <2>2, FS_Product
  <2> QED BY <2>1, <2>2, <2>3
<1>4. Cardinality({}) = 0
  BY FS_EmptySet
<1>a. IsFiniteSet(rest) /\ t[x] \in Nat
  OBVIOUS
<1> HIDE DEF column, rest
<1>b. Cardinality(rest) \in Nat
  BY <1>a, FS_CardinalityType
<1>5. /\ IsFiniteSet(column \cup rest)
      /\ Cardinality(column \cup rest) = Cardinality(column) + Cardinality(rest) - Cardinality(column \cap rest)
  BY <1>3, <1>a, FS_Union
<1>6. Cardinality(column \cup rest) = t[x] + Cardinality(rest)
  <2> DEFINE r == Cardinality(rest)
  <2>1. Cardinality(column \cup rest) = t[x] + r - 0
    BY <1>2, <1>3, <1>4, <1>5
  <2>2. r \in Nat /\ t[x] \in Nat
    BY <1>a, <1>b
  <2> HIDE DEF r
  <2>3. t[x] + r - 0 = t[x] + r
    BY <2>2
  <2> QED BY <2>1, <2>3 DEF r
<1> QED BY <1>1, <1>5, <1>6 DEF rest

LEMMA UnderFinite ==
    ASSUME NEW I, IsFiniteSet(I), NEW t \in [I -> Nat]
    PROVE  \A s \in SUBSET I : IsFiniteSet(Under(t, s)) /\ Cardinality(Under(t, s)) \in Nat
<1> DEFINE T == {s \in SUBSET I : ~IsFiniteSet(Under(t, s))}
<1>1. T = {}
  <2> SUFFICES ASSUME T # {} PROVE FALSE
    OBVIOUS
  <2>1. T \in SUBSET (SUBSET I)
    OBVIOUS
  <2> HIDE DEF T
  <2>2. PICK s \in T : \A u \in T : u \subseteq s => u = s
    BY <2>1, LeastSubset
  <2>3. s \in SUBSET I /\ ~IsFiniteSet(Under(t, s))
    BY <2>2 DEF T
  <2>4. s # {}
    BY <2>3, FS_EmptySet DEF Under
  <2>5. PICK x \in s : TRUE
    BY <2>4
  <2>6. s \ {x} \in SUBSET I /\ s \ {x} \notin T
    BY <2>2, <2>3, <2>5
  <2>7. IsFiniteSet(Under(t, s \ {x})) /\ t[x] \in Nat
    BY <2>3, <2>5, <2>6 DEF T
  <2> QED BY <2>3, <2>5, <2>7, UnderOneMore
<1> QED BY <1>1, FS_CardinalityType

LEMMA SumIsUnder ==
    ASSUME NEW I, IsFiniteSet(I), NEW t \in [I -> Nat]
    PROVE  SumOver(t, I) = Cardinality(Under(t, I))
<1> DEFINE g == [s \in SUBSET I |-> Cardinality(Under(t, s))]
           one(s) == CHOOSE x \in s : TRUE
<1>1. \A s \in SUBSET I : s # {} => /\ one(s) \in s /\ s \ {one(s)} \in SUBSET I
                                    /\ Cardinality(Under(t, s)) = t[one(s)] + Cardinality(Under(t, s \ {one(s)}))
  <2> SUFFICES ASSUME NEW s \in SUBSET I, s # {}
               PROVE  /\ one(s) \in s /\ s \ {one(s)} \in SUBSET I
                      /\ Cardinality(Under(t, s)) = t[one(s)] + Cardinality(Under(t, s \ {one(s)}))
    OBVIOUS
  <2>1. one(s) \in s
    OBVIOUS
  <2> HIDE DEF one
  <2>2. s \ {one(s)} \in SUBSET I /\ t[one(s)] \in Nat
    BY <2>1
  <2>3. IsFiniteSet(Under(t, s \ {one(s)}))
    BY <2>2, UnderFinite
  <2> QED BY <2>1, <2>2, <2>3, UnderOneMore
<1>2. Cardinality(Under(t, {})) = 0
  BY FS_EmptySet DEF Under
<1> HIDE DEF one
<1>3. Summing(t, I, g)
  <2>1. \A s \in SUBSET I : g[s] = IF s = {} THEN 0 ELSE t[one(s)] + g[s \ {one(s)}]
    BY <1>1, <1>2
  <2>2. g = [s \in SUBSET I |-> g[s]]
    OBVIOUS
  <2> HIDE DEF g
  <2>3. g = [s \in SUBSET I |-> IF s = {} THEN 0 ELSE t[one(s)] + g[s \ {one(s)}]]
    BY <2>1, <2>2
  <2> QED BY <2>3 DEF Summing, one
<1> DEFINE h == CHOOSE f : Summing(t, I, f)
<1>4. Summing(t, I, h)
  BY <1>3
<1> HIDE DEF h
<1>5. h = [s \in SUBSET I |-> IF s = {} THEN 0 ELSE t[one(s)] + h[s \ {one(s)}]]
  BY <1>4 DEF Summing, one
<1> DEFINE T == {s \in SUBSET I : h[s] # Cardinality(Under(t, s))}
<1>6. T = {}
  <2> SUFFICES ASSUME T # {} PROVE FALSE
    OBVIOUS
  <2>1. T \in SUBSET (SUBSET I)
    OBVIOUS
  <2> HIDE DEF T
  <2>2. PICK s \in T : \A u \in T : u \subseteq s => u = s
    BY <2>1, LeastSubset
  <2>3. s \in SUBSET I /\ h[s] # Cardinality(Under(t, s))
    BY <2>2 DEF T
  <2>4. s # {}
    BY <1>2, <1>5, <2>3
  <2>5. one(s) \in s /\ s \ {one(s)} \in SUBSET I
    BY <1>1, <2>3, <2>4
  <2>6. s \ {one(s)} \notin T
    BY <2>2, <2>5
  <2>7. h[s \ {one(s)}] = Cardinality(Under(t, s \ {one(s)}))
    BY <2>5, <2>6 DEF T
  <2>8. h[s] = t[one(s)] + h[s \ {one(s)}]
    BY <1>5, <2>3, <2>4
  <2> QED BY <1>1, <2>3, <2>4, <2>7, <2>8
<1>7. h[I] = Cardinality(Under(t, I))
  <2>1. I \in SUBSET I
    OBVIOUS
  <2> QED BY <1>6, <2>1
<1> QED BY <1>7, SumIsChosen DEF h

(* Only the members of the set matter.                                      *)
LEMMA SumTyped ==
    ASSUME NEW t, NEW K, IsFiniteSet(K), \A x \in K : t[x] \in Nat
    PROVE  /\ SumOver(t, K) = Cardinality(Under(t, K)) /\ IsFiniteSet(Under(t, K))
           /\ SumOver(t, K) \in Nat
<1> DEFINE u == [x \in K |-> t[x]]
<1>1. \A s \in SUBSET K : s # {} => u[CHOOSE x \in s : TRUE] = t[CHOOSE x \in s : TRUE]
  OBVIOUS
<1>2. \A f : Summing(t, K, f) <=> Summing(u, K, f)
  <2> TAKE f
  <2>1. [s \in SUBSET K |-> IF s = {} THEN 0 ELSE t[CHOOSE x \in s : TRUE] + f[s \ {CHOOSE x \in s : TRUE}]]
          = [s \in SUBSET K |-> IF s = {} THEN 0 ELSE u[CHOOSE x \in s : TRUE] + f[s \ {CHOOSE x \in s : TRUE}]]
    BY <1>1
  <2> HIDE DEF u
  <2> QED BY <2>1 DEF Summing
<1>3. (CHOOSE f : Summing(t, K, f)) = (CHOOSE f : Summing(u, K, f))
  BY <1>2
<1>4. SumOver(t, K) = SumOver(u, K)
  BY <1>3, SumIsChosen
<1>5. Under(t, K) = Under(u, K)
  BY DEF Under
<1>6. u \in [K -> Nat]
  OBVIOUS
<1> HIDE DEF u
<1>7. K \in SUBSET K
  OBVIOUS
<1>8. SumOver(u, K) = Cardinality(Under(u, K)) /\ IsFiniteSet(Under(u, K)) /\ Cardinality(Under(u, K)) \in Nat
  BY <1>6, <1>7, SumIsUnder, UnderFinite
<1> QED BY <1>4, <1>5, <1>8

(* The sum over two disjoint sets.                                          *)
LEMMA SumInTwo ==
    ASSUME NEW I, IsFiniteSet(I), NEW J, IsFiniteSet(J), I \cap J = {}, NEW t,
           \A x \in I \cup J : t[x] \in Nat
    PROVE  SumOver(t, I \cup J) = SumOver(t, I) + SumOver(t, J)
<1>1. IsFiniteSet(I \cup J)
  BY FS_Union
<1>2. Under(t, I \cup J) = Under(t, I) \cup Under(t, J) /\ Under(t, I) \cap Under(t, J) = {}
  BY DEF Under
<1>3. Cardinality({}) = 0
  BY FS_EmptySet
<1> DEFINE a == Cardinality(Under(t, I))
           b == Cardinality(Under(t, J))
<1>4. IsFiniteSet(Under(t, I)) /\ SumOver(t, I) = a /\ a \in Nat
  BY SumTyped
<1>5. IsFiniteSet(Under(t, J)) /\ SumOver(t, J) = b /\ b \in Nat
  BY SumTyped
<1>6. Cardinality(Under(t, I \cup J)) = a + b - 0
  <2>1. Cardinality(Under(t, I) \cup Under(t, J)) = a + b - Cardinality(Under(t, I) \cap Under(t, J))
    BY <1>4, <1>5, FS_Union
  <2> QED BY <1>2, <1>3, <2>1
<1>7. SumOver(t, I \cup J) = Cardinality(Under(t, I \cup J))
  BY <1>1, SumTyped
<1> HIDE DEF a, b
<1>8. a + b - 0 = a + b
  BY <1>4, <1>5
<1> QED BY <1>4, <1>5, <1>6, <1>7, <1>8

(* A finite set of numbers has an order.                                    *)
Increasing(s, n) == \A i, j \in 1..n : i < j => s[i] < s[j]
UpTo(S, x) == {y \in S : y <= x}

LEMMA OrderExists ==
    ASSUME NEW S \in SUBSET Nat, IsFiniteSet(S)
    PROVE  \E s \in [1..Cardinality(S) -> S] : Increasing(s, Cardinality(S))
<1> DEFINE n == Cardinality(S)
           rank == [x \in S |-> Cardinality(UpTo(S, x))]
<1>1. n \in Nat
  BY FS_CardinalityType
<1>2. ASSUME NEW x \in S PROVE IsFiniteSet(UpTo(S, x)) /\ Cardinality(UpTo(S, x)) \in 1..n
  <2>1. UpTo(S, x) \in SUBSET S /\ x \in UpTo(S, x)
    BY DEF UpTo
  <2>2. IsFiniteSet(UpTo(S, x)) /\ Cardinality(UpTo(S, x)) <= n
    BY <2>1, FS_Subset
  <2>3. Cardinality(UpTo(S, x)) \in Nat /\ Cardinality(UpTo(S, x)) # 0
    BY <2>1, <2>2, FS_CardinalityType, FS_EmptySet
  <2> QED BY <1>1, <2>2, <2>3
<1>3. ASSUME NEW x \in S, NEW y \in S, x < y
      PROVE  Cardinality(UpTo(S, x)) < Cardinality(UpTo(S, y))
  <2>1. x \in Nat /\ y \in Nat /\ \A z \in S : z \in Nat
    OBVIOUS
  <2>2. UpTo(S, x) \in SUBSET UpTo(S, y) /\ y \in UpTo(S, y) /\ y \notin UpTo(S, x)
    <3>1. \A z \in S : z <= x => z <= y
      BY <1>3, <2>1
    <3>2. y <= y /\ ~(y <= x)
      BY <1>3, <2>1
    <3> QED BY <3>1, <3>2 DEF UpTo
  <2>3. /\ Cardinality(UpTo(S, x)) <= Cardinality(UpTo(S, y))
        /\ (Cardinality(UpTo(S, y)) = Cardinality(UpTo(S, x)) => UpTo(S, y) = UpTo(S, x))
    BY <1>2, <2>2, FS_Subset
  <2>4. Cardinality(UpTo(S, y)) # Cardinality(UpTo(S, x))
    BY <2>2, <2>3
  <2>5. Cardinality(UpTo(S, x)) \in Nat /\ Cardinality(UpTo(S, y)) \in Nat
    BY <1>1, <1>2
  <2> QED BY <2>3, <2>4, <2>5
<1>4. rank \in [S -> 1..n]
  BY <1>2
<1>5. \A x, y \in S : x < y => rank[x] < rank[y]
  BY <1>3
<1> HIDE DEF rank, n
<1>6. \A x, y \in S : rank[x] = rank[y] => x = y
  <2> SUFFICES ASSUME NEW x \in S, NEW y \in S, rank[x] = rank[y] PROVE x = y
    OBVIOUS
  <2>1. x \in Nat /\ y \in Nat /\ rank[x] \in Nat /\ rank[y] \in Nat
    BY <1>1, <1>4
  <2>2. ~(x < y) /\ ~(y < x)
    BY <1>5, <2>1
  <2> QED BY <2>1, <2>2
<1>7. \A i \in 1..n : \E x \in S : rank[x] = i
  <2>1. rank \in Injection(S, 1..n)
    BY <1>4, <1>6, Fun_IsInj
  <2>2. IsFiniteSet(1..n) /\ Cardinality(1..n) = n
    BY <1>1, FS_Interval
  <2>3. rank \in Surjection(S, 1..n)
    BY <2>1, <2>2, FS_Injection DEF n
  <2> QED BY <2>3 DEF Surjection
<1> DEFINE s == [i \in 1..n |-> CHOOSE x \in S : rank[x] = i]
<1>8. s \in [1..n -> S] /\ \A i \in 1..n : s[i] \in S /\ rank[s[i]] = i
  BY <1>7
<1> HIDE DEF s
<1>9. Increasing(s, n)
  <2> SUFFICES ASSUME NEW i \in 1..n, NEW j \in 1..n, i < j PROVE s[i] < s[j]
    BY DEF Increasing
  <2>1. s[i] \in S /\ s[j] \in S /\ s[i] \in Nat /\ s[j] \in Nat /\ rank[s[i]] = i /\ rank[s[j]] = j
    BY <1>8
  <2>2. i \in Nat /\ j \in Nat
    BY <1>1
  <2>3. ~(s[j] < s[i])
    BY <1>5, <2>1, <2>2
  <2>4. s[i] # s[j]
    BY <2>1, <2>2
  <2> QED BY <2>1, <2>3, <2>4
<1> QED BY <1>8, <1>9 DEF n

LEMMA InOrderOrders ==
    ASSUME NEW S \in SUBSET Nat, IsFiniteSet(S)
    PROVE  /\ InOrder(S) \in [1..Cardinality(S) -> S]
           /\ Increasing(InOrder(S), Cardinality(S))
           /\ \A x \in S : \E i \in 1..Cardinality(S) : InOrder(S)[i] = x
<1> DEFINE n == Cardinality(S)
           s == InOrder(S)
<1>1. s \in [1..n -> S] /\ Increasing(s, n)
  BY OrderExists DEF InOrder, Increasing
<1>2. n \in Nat
  BY FS_CardinalityType
<1> HIDE DEF s
<1>3. \A i, j \in 1..n : s[i] = s[j] => i = j
  <2> SUFFICES ASSUME NEW i \in 1..n, NEW j \in 1..n, s[i] = s[j] PROVE i = j
    OBVIOUS
  <2>a. s[i] \in S /\ s[j] \in S
    BY <1>1
  <2>b. s[i] \in Nat /\ s[j] \in Nat
    BY <2>a
  <2>c. i \in Nat /\ j \in Nat
    BY <1>2
  <2>1. ~(i < j) /\ ~(j < i)
    BY <1>1, <2>b DEF Increasing
  <2> QED BY <2>c, <2>1
<1>4. s \in Injection(1..n, S)
  BY <1>1, <1>3, Fun_IsInj
<1>5. IsFiniteSet(1..n) /\ Cardinality(1..n) = n
  BY <1>2, FS_Interval
<1>6. s \in Surjection(1..n, S)
  BY <1>4, <1>5, FS_Injection
<1>7. \A x \in S : \E i \in 1..n : s[i] = x
  BY <1>6 DEF Surjection
<1> QED BY <1>1, <1>7 DEF s

-----------------------------------------------------------------------------
(* Groups of sentences: the invariant, and what a step does to a row of     *)
(* groups.                                                                  *)
CoherenceInv ==
    /\ CoherenceTypeOK /\ GroupsPartition
    /\ \A s \in Sentences \ {0} : blankTokens[s] <= sentenceTokens[s] + BlankTokens

LEMMA GroupsTyped ==
    \A g \in Groups : /\ g.first \in Nat /\ g.last \in Nat /\ g.first < NumSentences /\ g.last < NumSentences
                      /\ \A s \in g.first..g.last : s \in Sentences
<1>1. NumSentences \in Nat \ {0}
  BY CoherenceAssumption
<1> SUFFICES ASSUME NEW g \in Groups
             PROVE  /\ g.first \in Nat /\ g.last \in Nat /\ g.first < NumSentences /\ g.last < NumSentences
                    /\ \A s \in g.first..g.last : s \in Sentences
  OBVIOUS
<1>2. g.first \in 0..NumSentences - 1 /\ g.last \in 0..NumSentences - 1
  BY DEF Groups, Sentences
<1> QED BY <1>1, <1>2 DEF Sentences

LEMMA CoherenceStart == CoherenceInit => CoherenceInv
<1> SUFFICES ASSUME CoherenceInit PROVE CoherenceInv
  OBVIOUS
<1>1. PICK B \in Breakpoints : todo = GroupsBetween(B)
  BY DEF CoherenceInit
<1>2. /\ merged = <<>> /\ sentenceTokens \in [Sentences -> 1..LongestSentence]
      /\ blankTokens \in [Sentences \ {0} -> 1..LongestSentence + BlankTokens]
      /\ \A s \in Sentences \ {0} : blankTokens[s] <= sentenceTokens[s] + BlankTokens
  BY DEF CoherenceInit
<1>n. NumSentences \in Nat \ {0}
  BY CoherenceAssumption
<1> DEFINE S == B \cup {0}
           n == Cardinality(S)
           starts == InOrder(S)
<1>3. S \in SUBSET Nat /\ 0 \in S /\ \A x \in S : x \in 0..NumSentences - 1
  <2>1. \A x \in B : x \in 2..NumSentences - 2
    BY DEF Breakpoints
  <2>2. \A x \in B : x \in Nat /\ x \in 0..NumSentences - 1
    BY <1>n, <2>1
  <2> QED BY <1>n, <2>2
<1>4. IsFiniteSet(S)
  <2>1. \A x \in S : x <= NumSentences
    BY <1>n, <1>3
  <2> QED BY <1>n, <1>3, <2>1, FS_BoundedSetOfNaturals
<1> HIDE DEF S
<1>5. n \in Nat /\ n # 0
  BY <1>3, <1>4, FS_CardinalityType, FS_EmptySet
<1>6. /\ starts \in [1..n -> S] /\ Increasing(starts, n)
      /\ \A x \in S : \E i \in 1..n : starts[i] = x
  BY <1>3, <1>4, InOrderOrders
<1>7. todo = [i \in 1..n |-> Group(starts[i], IF i < n THEN starts[i + 1] - 1 ELSE NumSentences - 1)]
  BY <1>1 DEF GroupsBetween, S
<1> HIDE DEF n, starts
<1>8. \A i \in 1..n : starts[i] \in S
  BY <1>6
<1>9. \A i \in 1..n : starts[i] \in Nat /\ starts[i] < NumSentences
  <2> SUFFICES ASSUME NEW i \in 1..n PROVE starts[i] \in Nat /\ starts[i] < NumSentences
    OBVIOUS
  <2>1. starts[i] \in 0..NumSentences - 1
    BY <1>3, <1>8
  <2> QED BY <1>n, <2>1
<1>10. \A i \in 1..n : i < n => i + 1 \in 1..n /\ starts[i] < starts[i + 1]
  BY <1>5, <1>6 DEF Increasing
<1>11. ASSUME NEW i \in 1..n
       PROVE  /\ todo[i] \in Groups /\ todo[i].first = starts[i] /\ todo[i].first <= todo[i].last
              /\ todo[i].last = IF i < n THEN starts[i + 1] - 1 ELSE NumSentences - 1
  <2>1. todo[i] = Group(starts[i], IF i < n THEN starts[i + 1] - 1 ELSE NumSentences - 1)
    BY <1>7
  <2>2. todo[i].first = starts[i] /\ todo[i].last = IF i < n THEN starts[i + 1] - 1 ELSE NumSentences - 1
    BY <2>1 DEF Group
  <2>3. todo[i].first <= todo[i].last /\ todo[i].last \in Sentences
    BY <1>n, <1>9, <1>10, <2>2 DEF Sentences
  <2>4. starts[i] \in Sentences
    BY <1>n, <1>9 DEF Sentences
  <2> QED BY <2>1, <2>2, <2>3, <2>4 DEF Group, Groups
<1>12. todo \in Seq(Groups) /\ Len(todo) = n /\ merged \o todo = todo
  <2>1. todo \in [1..n -> Groups]
    BY <1>7, <1>11
  <2>2. todo \in Seq(Groups) /\ Len(todo) = n
    BY <1>5, <2>1
  <2> QED BY <1>2, <2>2
<1>13. starts[1] = 0
  <2>1. PICK i \in 1..n : starts[i] = 0
    BY <1>3, <1>6
  <2>2. 1 \in 1..n
    BY <1>5
  <2>3. ~(1 < i)
    BY <1>6, <1>9, <2>1, <2>2 DEF Increasing
  <2> QED BY <2>1, <2>3
<1>14. Contiguous(todo)
  <2>1. 1 \in 1..n /\ n \in 1..n
    BY <1>5
  <2>2. todo # <<>> /\ todo[1].first = 0 /\ Last(todo).last = NumSentences - 1
    BY <1>5, <1>11, <1>12, <1>13, <2>1 DEF Last
  <2>3. \A i \in 1..n - 1 : todo[i + 1].first = todo[i].last + 1
    <3> SUFFICES ASSUME NEW i \in 1..n - 1 PROVE todo[i + 1].first = todo[i].last + 1
      OBVIOUS
    <3>1. i \in 1..n /\ i + 1 \in 1..n /\ i < n
      BY <1>5
    <3>2. todo[i + 1].first = starts[i + 1] /\ todo[i].last = starts[i + 1] - 1 /\ starts[i + 1] \in Nat
      BY <1>9, <1>11, <3>1
    <3> QED BY <3>2
  <2> QED BY <1>11, <1>12, <2>2, <2>3 DEF Contiguous
<1> QED BY <1>2, <1>12, <1>14 DEF CoherenceInv, CoherenceTypeOK, GroupsPartition

(* The sizes of groups, whatever the sentences.                             *)
SizeOf(t, u, g) == t[g.first] + SumOver(u, g.first + 1..g.last)

LEMMA SumOfOne ==
    ASSUME NEW t, NEW x, t[x] \in Nat
    PROVE  SumOver(t, {x}) = t[x]
<1>1. {x} \ {x} = {} /\ Under(t, {}) = {} /\ IsFiniteSet(Under(t, {})) /\ Cardinality(Under(t, {})) = 0
  BY FS_EmptySet DEF Under
<1>2. Cardinality(Under(t, {x})) = t[x] + 0
  BY <1>1, UnderOneMore
<1>3. SumOver(t, {x}) = Cardinality(Under(t, {x}))
  BY SumTyped, FS_Singleton
<1> QED BY <1>2, <1>3

(* Two groups put together: the blank between them counts anew.             *)
LEMMA SizesAdd ==
    ASSUME sentenceTokens \in [Sentences -> 1..LongestSentence],
           blankTokens \in [Sentences \ {0} -> 1..LongestSentence + BlankTokens],
           \A s \in Sentences \ {0} : blankTokens[s] <= sentenceTokens[s] + BlankTokens,
           NEW g \in Groups, g.first <= g.last
    PROVE  /\ Tokens(g) \in Nat
           /\ \A h \in Groups : h.first = g.last + 1 /\ h.first <= h.last =>
                Tokens(Group(g.first, h.last)) <= Tokens(g) + Tokens(h) + BlankTokens
<1> DEFINE t == sentenceTokens
           u == blankTokens
<1>0. LongestSentence \in Nat /\ BlankTokens \in Nat
  BY CoherenceAssumption
<1>1. \A x \in Sentences : t[x] \in Nat
  BY <1>0
<1>2. \A x \in Sentences \ {0} : u[x] \in Nat /\ u[x] <= t[x] + BlankTokens
  BY <1>0
<1>3. \A h : Tokens(h) = t[h.first] + SumOver(u, h.first + 1..h.last)
  BY DEF Tokens, SumOver
<1>4. ASSUME NEW h \in Groups
      PROVE  /\ h.first \in Sentences /\ h.first \in Nat /\ h.last \in Nat
             /\ IsFiniteSet(h.first + 1..h.last)
             /\ \A x \in h.first + 1..h.last : x \in Sentences \ {0} /\ u[x] \in Nat
             /\ SumOver(u, h.first + 1..h.last) \in Nat
  <2>1. h.first \in Nat /\ h.last \in Nat /\ \A x \in h.first..h.last : x \in Sentences
    BY GroupsTyped
  <2>2. h.first \in Sentences
    BY DEF Groups
  <2>3. IsFiniteSet(h.first + 1..h.last)
    <3>1. h.first + 1 \in Int /\ h.last \in Int
      BY <2>1
    <3> QED BY <3>1, FS_Interval
  <2>4. \A x \in h.first + 1..h.last : x \in h.first..h.last /\ x # 0
    BY <2>1
  <2>5. \A x \in h.first + 1..h.last : x \in Sentences \ {0} /\ u[x] \in Nat
    BY <1>2, <2>1, <2>4
  <2>6. SumOver(u, h.first + 1..h.last) \in Nat
    BY <2>3, <2>5, SumTyped
  <2> QED BY <2>1, <2>2, <2>3, <2>5, <2>6
<1> HIDE DEF t, u
<1>5. Tokens(g) \in Nat
  <2>1. g.first \in Sentences /\ SumOver(u, g.first + 1..g.last) \in Nat
    BY <1>4
  <2> QED BY <1>1, <1>3, <2>1
<1>6. ASSUME NEW h \in Groups, h.first = g.last + 1, h.first <= h.last
      PROVE  Tokens(Group(g.first, h.last)) <= Tokens(g) + Tokens(h) + BlankTokens
  <2> DEFINE x == h.first
             I == g.first + 1..g.last
             J == x + 1..h.last
             a == SumOver(u, I)
             b == SumOver(u, J)
  <2>1. /\ g.first \in Nat /\ g.last \in Nat /\ x \in Nat /\ h.last \in Nat
        /\ IsFiniteSet(I) /\ IsFiniteSet(J) /\ a \in Nat /\ b \in Nat
        /\ (\A y \in I : u[y] \in Nat) /\ (\A y \in J : u[y] \in Nat)
        /\ x \in Sentences /\ g.first \in Sentences
    BY <1>4
  <2>2. x \in Sentences \ {0} /\ u[x] \in Nat /\ u[x] <= t[x] + BlankTokens
    <3>1. x # 0
      BY <1>6, <2>1
    <3> QED BY <1>2, <2>1, <3>1
  <2>3. /\ I \cap {x} = {} /\ (I \cup {x}) \cap J = {}
        /\ g.first + 1..h.last = (I \cup {x}) \cup J
    BY <1>6, <2>1
  <2> HIDE DEF I, J
  <2>4. IsFiniteSet({x}) /\ IsFiniteSet(I \cup {x})
    BY <2>1, FS_Singleton, FS_Union
  <2>5. \A y \in I \cup {x} : u[y] \in Nat
    BY <2>1, <2>2
  <2>6. SumOver(u, {x}) = u[x]
    BY <2>2, SumOfOne
  <2>7. SumOver(u, I \cup {x}) = a + u[x]
    BY <2>1, <2>3, <2>4, <2>5, <2>6, SumInTwo
  <2>8. \A y \in (I \cup {x}) \cup J : u[y] \in Nat
    BY <2>1, <2>5
  <2>9. SumOver(u, (I \cup {x}) \cup J) = (a + u[x]) + b
    <3> DEFINE K == I \cup {x}
    <3>1. IsFiniteSet(K) /\ IsFiniteSet(J) /\ K \cap J = {} /\ \A y \in K \cup J : u[y] \in Nat
      BY <2>1, <2>3, <2>4, <2>8
    <3> HIDE DEF K
    <3>2. SumOver(u, K \cup J) = SumOver(u, K) + SumOver(u, J)
      BY <3>1, SumInTwo
    <3> QED BY <2>7, <3>2 DEF K
  <2>10. Group(g.first, h.last).first = g.first /\ Group(g.first, h.last).last = h.last
    BY DEF Group
  <2>11. /\ Tokens(Group(g.first, h.last)) = t[g.first] + ((a + u[x]) + b)
         /\ Tokens(g) = t[g.first] + a /\ Tokens(h) = t[x] + b
    <3>1. Tokens(Group(g.first, h.last)) = t[g.first] + SumOver(u, g.first + 1..h.last)
      BY <1>3, <2>10
    <3>2. Tokens(g) = t[g.first] + SumOver(u, g.first + 1..g.last)
      BY <1>3
    <3>3. Tokens(h) = t[h.first] + SumOver(u, h.first + 1..h.last)
      BY <1>3
    <3> QED BY <2>3, <2>9, <3>1, <3>2, <3>3 DEF I, J
  <2>12. t[g.first] \in Nat /\ t[x] \in Nat
    BY <1>1, <2>1
  <2> HIDE DEF a, b, x
  <2> QED BY <1>0, <2>1, <2>2, <2>11, <2>12
<1> QED BY <1>5, <1>6

(* Where the members of two joined rows are.                                *)
LEMMA Joined ==
    ASSUME NEW p \in Seq(Groups), NEW q \in Seq(Groups)
    PROVE  /\ p \o q \in Seq(Groups) /\ Len(p \o q) = Len(p) + Len(q)
           /\ \A i \in 1..Len(p) : (p \o q)[i] = p[i]
           /\ \A i \in 1..Len(q) : (p \o q)[Len(p) + i] = q[i]
<1>1. p \o q \in Seq(Groups)
  OBVIOUS
<1>2. Len(p \o q) = Len(p) + Len(q)
  OBVIOUS
<1>3. \A i \in 1..Len(p) : (p \o q)[i] = p[i]
  OBVIOUS
<1>4. \A i \in 1..Len(q) : (p \o q)[Len(p) + i] = q[i]
  OBVIOUS
<1> QED BY <1>1, <1>2, <1>3, <1>4

(* A group is split in two.                                                 *)
LEMMA SplitKeepsRow ==
    ASSUME NEW m \in Seq(Groups), NEW q \in Seq(Groups), q # <<>>, Contiguous(m \o q),
           Head(q).first < Head(q).last
    PROVE  LET g == Head(q)
               split == <<Group(g.first, Middle(g) - 1), Group(Middle(g), g.last)>>
           IN  split \o Tail(q) \in Seq(Groups) /\ Contiguous(m \o (split \o Tail(q)))
<1> DEFINE g == Head(q)
           c == Middle(g)
           a == Group(g.first, c - 1)
           b == Group(c, g.last)
           rest == Tail(q)
           old == m \o q
           new == m \o (<<a, b>> \o rest)
           k == Len(m)
           n == Len(rest)
<1>1. g \in Groups /\ rest \in Seq(Groups) /\ k \in Nat /\ n \in Nat
  OBVIOUS
<1>2. /\ g.first \in Nat /\ g.last \in Nat /\ c \in Nat /\ g.first <= c - 1 /\ c <= g.last
      /\ c - 1 \in Sentences /\ c \in Sentences /\ g.first \in Sentences /\ g.last \in Sentences
  <2>1. g.first \in Nat /\ g.last \in Nat /\ g.first < g.last /\ g.last < NumSentences
    BY <1>1, GroupsTyped
  <2>2. c = g.first + (g.last - g.first + 1) \div 2
    BY DEF Middle
  <2> HIDE DEF c, g
  <2>3. c \in Nat /\ g.first <= c - 1 /\ c <= g.last
    BY <2>1, <2>2
  <2> QED BY <2>1, <2>3, CoherenceAssumption DEF Sentences
<1>3. a \in Groups /\ b \in Groups /\ a.first = g.first /\ a.last = c - 1 /\ b.first = c /\ b.last = g.last
  BY <1>2 DEF Group, Groups
<1> HIDE DEF c, a, b
<1>4. /\ <<a, b>> \o rest \in Seq(Groups) /\ Len(<<a, b>> \o rest) = n + 2
      /\ (<<a, b>> \o rest)[1] = a /\ (<<a, b>> \o rest)[2] = b
      /\ \A i \in 3..n + 2 : (<<a, b>> \o rest)[i] = rest[i - 2]
  BY <1>1, <1>3
<1>5. /\ Len(q) = n + 1 /\ q[1] = g /\ \A i \in 1..n : q[i + 1] = rest[i]
  OBVIOUS
<1>6. /\ Len(old) = k + n + 1 /\ old[k + 1] = g
      /\ \A i \in 1..k : old[i] = m[i]
      /\ \A i \in 1..n : old[k + 1 + i] = rest[i]
  BY <1>1, <1>5
<1>7. /\ new \in Seq(Groups) /\ Len(new) = k + n + 2 /\ new[k + 1] = a /\ new[k + 2] = b
      /\ \A i \in 1..k : new[i] = m[i]
      /\ \A i \in 1..n : new[k + 2 + i] = rest[i]
  <2> DEFINE tl == <<a, b>> \o rest
  <2>1. tl \in Seq(Groups) /\ Len(tl) = n + 2 /\ tl[1] = a /\ tl[2] = b /\ \A i \in 3..n + 2 : tl[i] = rest[i - 2]
    BY <1>4
  <2> HIDE DEF tl, rest, k, n
  <2>0. tl \in Seq(Groups) /\ Len(m) = k
    BY <2>1 DEF k
  <2>2. m \o tl \in Seq(Groups) /\ Len(m \o tl) = k + n + 2
    <3>1. m \o tl \in Seq(Groups) /\ Len(m \o tl) = k + Len(tl)
      BY <2>0, Joined
    <3> QED BY <1>1, <2>1, <3>1
  <2>a. \A i \in 1..k : (m \o tl)[i] = m[i]
    BY <2>0, Joined
  <2>b. \A i \in 1..n + 2 : (m \o tl)[k + i] = tl[i]
    BY <2>0, <2>1, Joined
  <2>3. 1 \in 1..n + 2 /\ 2 \in 1..n + 2 /\ \A i \in 1..n : 2 + i \in 1..n + 2 /\ 2 + i \in 3..n + 2
    BY <1>1
  <2>4. \A i \in 1..n : (m \o tl)[k + 2 + i] = rest[i]
    <3> SUFFICES ASSUME NEW i \in 1..n PROVE (m \o tl)[k + 2 + i] = rest[i]
      OBVIOUS
    <3>1. (m \o tl)[k + (2 + i)] = tl[2 + i] /\ tl[2 + i] = rest[(2 + i) - 2]
      BY <2>1, <2>b, <2>3
    <3>2. k + (2 + i) = k + 2 + i /\ (2 + i) - 2 = i
      BY <1>1
    <3> QED BY <3>1, <3>2
  <2>5. (m \o tl)[k + 1] = a /\ (m \o tl)[k + 2] = b
    BY <2>1, <2>b, <2>3
  <2> QED BY <2>2, <2>a, <2>4, <2>5 DEF tl
<1>8. /\ old[1].first = 0 /\ old[k + n + 1].last = NumSentences - 1
      /\ \A i \in 1..k + n + 1 : old[i].first <= old[i].last
      /\ \A i \in 1..k + n : old[i + 1].first = old[i].last + 1
  <2>1. (k + n + 1) - 1 = k + n
    BY <1>1
  <2> HIDE DEF old, k, n
  <2> QED BY <1>6, <2>1 DEF Contiguous, Last, old
<1> HIDE DEF old, new, k, n, rest, g
<1>9. \A i \in 1..k + n + 2 : (i \in 1..k) \/ (i = k + 1) \/ (i = k + 2) \/ (\E j \in 1..n : i = k + 2 + j)
  <2> SUFFICES ASSUME NEW i \in 1..k + n + 2, ~(i \in 1..k), i # k + 1, i # k + 2
               PROVE  \E j \in 1..n : i = k + 2 + j
    OBVIOUS
  <2>1. i - (k + 2) \in 1..n /\ i = k + 2 + (i - (k + 2))
    BY <1>1
  <2> QED BY <2>1
<1>10. \A i \in 1..k + n + 2 : new[i].first <= new[i].last
  <2> SUFFICES ASSUME NEW i \in 1..k + n + 2 PROVE new[i].first <= new[i].last
    OBVIOUS
  <2>1. CASE i \in 1..k
    <3>1. i \in 1..k + n + 1
      BY <1>1, <2>1
    <3> QED BY <1>6, <1>7, <1>8, <2>1, <3>1
  <2>2. CASE i = k + 1 \/ i = k + 2
    BY <1>2, <1>3, <1>7, <2>2
  <2>3. CASE \E j \in 1..n : i = k + 2 + j
    <3>1. PICK j \in 1..n : i = k + 2 + j
      BY <2>3
    <3>2. k + 1 + j \in 1..k + n + 1
      BY <1>1
    <3>3. new[i] = rest[j] /\ old[k + 1 + j] = rest[j]
      BY <1>6, <1>7, <3>1
    <3> QED BY <1>8, <3>2, <3>3
  <2> QED BY <1>9, <2>1, <2>2, <2>3
<1>11. \A i \in 1..k + n + 1 : new[i + 1].first = new[i].last + 1
  <2> SUFFICES ASSUME NEW i \in 1..k + n + 1 PROVE new[i + 1].first = new[i].last + 1
    OBVIOUS
  <2>1. CASE i < k
    <3>1. i \in 1..k /\ i + 1 \in 1..k /\ i \in 1..k + n
      BY <1>1, <2>1
    <3> QED BY <1>6, <1>7, <1>8, <3>1
  <2>2. CASE i = k
    <3>1. i \in 1..k /\ i \in 1..k + n
      BY <1>1, <2>2
    <3>2. old[k + 1].first = old[i].last + 1 /\ new[i] = old[i]
      BY <1>6, <1>7, <1>8, <2>2, <3>1
    <3> QED BY <1>3, <1>6, <1>7, <2>2, <3>2
  <2>3. CASE i = k + 1
    <3>1. i + 1 = k + 2
      BY <1>1, <2>3
    <3>2. new[i] = a /\ new[i + 1] = b
      BY <1>7, <2>3, <3>1
    <3>3. a.last = c - 1 /\ b.first = c /\ (c - 1) + 1 = c
      BY <1>2, <1>3
    <3> QED BY <3>2, <3>3
  <2>4. CASE i = k + 2
    <3>1. 1 \in 1..n /\ i + 1 = k + 2 + 1 /\ k + 1 \in 1..k + n /\ (k + 1) + 1 = k + 1 + 1
      BY <1>1, <2>4
    <3>2. new[i + 1] = rest[1] /\ old[(k + 1) + 1] = rest[1] /\ old[(k + 1) + 1].first = old[k + 1].last + 1
      BY <1>6, <1>7, <1>8, <3>1
    <3> QED BY <1>3, <1>6, <1>7, <2>4, <3>2
  <2>5. CASE i > k + 2
    <3>1. PICK j \in 1..n : i = k + 2 + j
      <4>1. i - (k + 2) \in 1..n /\ i = k + 2 + (i - (k + 2))
        BY <1>1, <2>5
      <4> QED BY <4>1
    <3>2. j + 1 \in 1..n /\ i + 1 = k + 2 + (j + 1) /\ k + 1 + j \in 1..k + n /\ (k + 1 + j) + 1 = k + 1 + (j + 1)
      BY <1>1, <2>5, <3>1
    <3>3. new[i] = rest[j] /\ new[i + 1] = rest[j + 1]
      BY <1>7, <3>1, <3>2
    <3>4. old[k + 1 + j] = rest[j] /\ old[(k + 1 + j) + 1] = rest[j + 1]
      BY <1>6, <3>2
    <3> QED BY <1>8, <3>2, <3>3, <3>4
  <2>6. i < k \/ i = k \/ i = k + 1 \/ i = k + 2 \/ i > k + 2
    BY <1>1
  <2> QED BY <2>1, <2>2, <2>3, <2>4, <2>5, <2>6
<1>12. new[1].first = 0
  <2>1. CASE k = 0
    <3>1. k + 1 = 1
      BY <1>1, <2>1
    <3> QED BY <1>3, <1>6, <1>7, <1>8, <3>1
  <2>2. CASE k # 0
    <3>1. 1 \in 1..k
      BY <1>1, <2>2
    <3> QED BY <1>6, <1>7, <1>8, <3>1
  <2> QED BY <2>1, <2>2
<1>13. new[k + n + 2].last = NumSentences - 1
  <2>1. CASE n = 0
    <3>1. k + n + 2 = k + 2 /\ k + n + 1 = k + 1
      BY <1>1, <2>1
    <3> QED BY <1>3, <1>6, <1>7, <1>8, <3>1
  <2>2. CASE n # 0
    <3>1. n \in 1..n /\ k + n + 2 = k + 2 + n /\ k + n + 1 = k + 1 + n
      BY <1>1, <2>2
    <3> QED BY <1>6, <1>7, <1>8, <3>1
  <2> QED BY <2>1, <2>2
<1>14. Contiguous(new)
  <2>1. new # <<>> /\ (k + n + 2) - 1 = k + n + 1
    BY <1>1, <1>7
  <2> QED BY <1>7, <1>10, <1>11, <1>12, <1>13, <2>1 DEF Contiguous, Last
<1> QED BY <1>4, <1>14 DEF new, a, b, c, rest, g

(* A group is merged into its predecessor.                                  *)
LEMMA MergeKeepsRow ==
    ASSUME NEW m \in Seq(Groups), m # <<>>, NEW q \in Seq(Groups), q # <<>>, Contiguous(m \o q)
    PROVE  LET both == Group(Last(m).first, Head(q).last)
           IN  /\ both \in Groups /\ Front(m) \o <<both>> \in Seq(Groups)
               /\ Len(Front(m) \o <<both>>) = Len(m)
               /\ (Front(m) \o <<both>>)[Len(m)] = both
               /\ \A i \in 1..Len(m) - 1 : (Front(m) \o <<both>>)[i] = m[i]
               /\ Contiguous((Front(m) \o <<both>>) \o Tail(q))
<1> DEFINE l == Last(m)
           g == Head(q)
           both == Group(l.first, g.last)
           front == Front(m)
           rest == Tail(q)
           left == front \o <<both>>
           old == m \o q
           new == left \o rest
           k == Len(m)
           n == Len(rest)
<1>1. /\ g \in Groups /\ rest \in Seq(Groups) /\ k \in Nat /\ n \in Nat /\ k # 0 /\ k \in 1..k
      /\ l = m[k] /\ l \in Groups
  BY DEF Last
<1>2. both \in Groups /\ both.first = l.first /\ both.last = g.last
  BY <1>1 DEF Group, Groups
<1>3. front \in Seq(Groups) /\ Len(front) = k - 1 /\ \A i \in 1..k - 1 : front[i] = m[i]
  <2>1. front = SubSeq(m, 1, k - 1)
    BY DEF Front
  <2>a. k - 1 \in Nat /\ 1 \in Nat /\ \A i \in 1..k - 1 : i \in 1..k /\ m[i] \in Groups
    BY <1>1
  <2>b. front = [i \in 1..k - 1 |-> m[i]]
    BY <1>1, <2>1
  <2>2. front \in Seq(Groups) /\ Len(front) = k - 1
    BY <2>a, <2>b
  <2>3. \A i \in 1..k - 1 : front[i] = m[i]
    BY <1>1, <2>1
  <2> QED BY <2>2, <2>3
<1> HIDE DEF both, front
<1>4. left \in Seq(Groups) /\ Len(left) = k /\ left[k] = both /\ \A i \in 1..k - 1 : left[i] = m[i]
  <2>1. left \in Seq(Groups) /\ Len(left) = (k - 1) + 1
    BY <1>2, <1>3
  <2>2. left[(k - 1) + 1] = both /\ \A i \in 1..k - 1 : left[i] = front[i]
    BY <1>1, <1>2, <1>3
  <2>3. (k - 1) + 1 = k
    BY <1>1
  <2> QED BY <1>3, <2>1, <2>2, <2>3
<1>5. /\ Len(q) = n + 1 /\ q[1] = g /\ \A i \in 1..n : q[i + 1] = rest[i]
  OBVIOUS
<1>6. /\ Len(old) = k + n + 1 /\ old[k + 1] = g
      /\ \A i \in 1..k : old[i] = m[i]
      /\ \A i \in 1..n : old[k + 1 + i] = rest[i]
  BY <1>1, <1>5
<1> HIDE DEF left
<1>7. /\ new \in Seq(Groups) /\ Len(new) = k + n
      /\ \A i \in 1..k : new[i] = left[i]
      /\ \A i \in 1..n : new[k + i] = rest[i]
  <2>0. left \in Seq(Groups) /\ rest \in Seq(Groups)
    BY <1>1, <1>4
  <2>1. new \in Seq(Groups) /\ Len(new) = Len(left) + n
    <3>1. new \in Seq(Groups)
      BY <2>0
    <3>2. Len(new) = Len(left) + n
      BY <2>0
    <3> QED BY <3>1, <3>2
  <2>2. \A i \in 1..k : new[i] = left[i]
    BY <1>1, <1>4
  <2>3. \A i \in 1..n : new[k + i] = rest[i]
    BY <1>1, <1>4
  <2> QED BY <1>4, <2>1, <2>2, <2>3
<1>8. /\ old[1].first = 0 /\ old[k + n + 1].last = NumSentences - 1
      /\ \A i \in 1..k + n + 1 : old[i].first <= old[i].last
      /\ \A i \in 1..k + n : old[i + 1].first = old[i].last + 1
  <2>1. (k + n + 1) - 1 = k + n
    BY <1>1
  <2> HIDE DEF old, k, n
  <2> QED BY <1>6, <2>1 DEF Contiguous, Last, old
<1>9. old[k] = l /\ l.first <= l.last /\ g.first = l.last + 1 /\ g.first <= g.last
  <2>1. k \in 1..k + n + 1 /\ k \in 1..k + n /\ k + 1 \in 1..k + n + 1
    BY <1>1
  <2>2. old[k] = l
    BY <1>1, <1>6
  <2> HIDE DEF old, k, n, l, g
  <2> QED BY <1>6, <1>8, <2>1, <2>2
<1>10. both.first <= both.last /\ both.first = l.first /\ both.last = g.last
  <2>1. l.first \in Nat /\ l.last \in Nat /\ g.first \in Nat /\ g.last \in Nat
    BY <1>1, GroupsTyped
  <2> QED BY <1>2, <1>9, <2>1
<1> HIDE DEF old, new, k, n, rest, g, l
<1>11. \A i \in 1..k + n : new[i].first <= new[i].last
  <2> SUFFICES ASSUME NEW i \in 1..k + n PROVE new[i].first <= new[i].last
    OBVIOUS
  <2>1. CASE i < k
    <3>1. i \in 1..k /\ i \in 1..k - 1 /\ i \in 1..k + n + 1
      BY <1>1, <2>1
    <3> QED BY <1>4, <1>6, <1>7, <1>8, <3>1
  <2>2. CASE i = k
    BY <1>1, <1>4, <1>7, <1>10, <2>2
  <2>3. CASE i > k
    <3>1. i - k \in 1..n /\ k + (i - k) = i /\ k + 1 + (i - k) = i + 1 /\ i + 1 \in 1..k + n + 1
      BY <1>1, <2>3
    <3>2. new[i] = rest[i - k] /\ old[i + 1] = rest[i - k]
      BY <1>6, <1>7, <3>1
    <3> QED BY <1>8, <3>1, <3>2
  <2>4. i < k \/ i = k \/ i > k
    BY <1>1
  <2> QED BY <2>1, <2>2, <2>3, <2>4
<1>12. \A i \in 1..k + n - 1 : new[i + 1].first = new[i].last + 1
  <2> SUFFICES ASSUME NEW i \in 1..k + n - 1 PROVE new[i + 1].first = new[i].last + 1
    OBVIOUS
  <2>1. CASE i + 1 < k
    <3>1. i \in 1..k /\ i + 1 \in 1..k /\ i \in 1..k - 1 /\ i + 1 \in 1..k - 1 /\ i \in 1..k + n
      BY <1>1, <2>1
    <3> QED BY <1>4, <1>6, <1>7, <1>8, <3>1
  <2>2. CASE i + 1 = k
    <3>1. i \in 1..k /\ i \in 1..k - 1 /\ i \in 1..k + n
      BY <1>1, <2>2
    <3>2. old[k].first = old[i].last + 1 /\ new[i] = old[i] /\ new[k] = both
      BY <1>1, <1>4, <1>6, <1>7, <1>8, <2>2, <3>1
    <3> QED BY <1>9, <1>10, <2>2, <3>2
  <2>3. CASE i = k
    <3>1. 1 \in 1..n /\ k + 1 \in 1..k + n /\ (k + 1) + 1 = k + 1 + 1
      BY <1>1, <2>3
    <3>2. new[k + 1] = rest[1] /\ old[(k + 1) + 1] = rest[1] /\ old[(k + 1) + 1].first = old[k + 1].last + 1
      BY <1>6, <1>7, <1>8, <3>1
    <3> QED BY <1>1, <1>4, <1>6, <1>7, <1>10, <2>3, <3>2
  <2>4. CASE i > k
    <3>1. /\ i - k \in 1..n /\ k + (i - k) = i /\ k + 1 + (i - k) = i + 1 /\ i + 1 \in 1..k + n
          /\ i - k + 1 \in 1..n /\ k + (i - k + 1) = i + 1 /\ k + 1 + (i - k + 1) = (i + 1) + 1
      BY <1>1, <2>4
    <3>2. new[i] = rest[i - k] /\ new[i + 1] = rest[i - k + 1]
      BY <1>7, <3>1
    <3>3. old[i + 1] = rest[i - k] /\ old[(i + 1) + 1] = rest[i - k + 1]
      BY <1>6, <3>1
    <3> QED BY <1>8, <3>1, <3>2, <3>3
  <2>5. i + 1 < k \/ i + 1 = k \/ i = k \/ i > k
    BY <1>1
  <2> QED BY <2>1, <2>2, <2>3, <2>4, <2>5
<1>13. new[1].first = 0
  <2>1. CASE k = 1
    BY <1>1, <1>4, <1>7, <1>8, <1>9, <1>10, <2>1
  <2>2. CASE k # 1
    <3>1. 1 \in 1..k /\ 1 \in 1..k - 1
      BY <1>1, <2>2
    <3> QED BY <1>4, <1>6, <1>7, <1>8, <3>1
  <2> QED BY <2>1, <2>2
<1>14. new[k + n].last = NumSentences - 1
  <2>1. CASE n = 0
    <3>1. k + n = k /\ k + n + 1 = k + 1
      BY <1>1, <2>1
    <3> QED BY <1>1, <1>4, <1>6, <1>7, <1>8, <1>10, <3>1
  <2>2. CASE n # 0
    <3>1. n \in 1..n /\ k + n + 1 = k + 1 + n
      BY <1>1, <2>2
    <3> QED BY <1>6, <1>7, <1>8, <3>1
  <2> QED BY <2>1, <2>2
<1>15. Contiguous(new)
  <2>1. new # <<>> /\ Len(new) = k + n
    <3>1. k + n # 0
      BY <1>1
    <3> QED BY <1>7, <3>1
  <2>2. new[Len(new)].last = NumSentences - 1 /\ new[1].first = 0
    BY <1>13, <1>14, <2>1
  <2>3. \A i \in 1..Len(new) : new[i].first <= new[i].last
    BY <1>11, <2>1
  <2>4. \A i \in 1..Len(new) - 1 : new[i + 1].first = new[i].last + 1
    <3>1. Len(new) - 1 = k + n - 1
      BY <1>1, <2>1
    <3> HIDE DEF k, n
    <3> QED BY <1>12, <3>1, Zenon
  <2> QED BY <2>1, <2>2, <2>3, <2>4 DEF Contiguous, Last
<1> QED BY <1>2, <1>4, <1>15 DEF new, left, both, front, rest, g, l, k

Fit(t, u, gs) ==
    \A i \in 1..Len(gs) : SizeOf(t, u, gs[i]) <= GroupMaxTokens + BlankTokens \/ gs[i].first = gs[i].last

LEMMA PartitionParts ==
    /\ GroupsPartition <=> Contiguous(merged \o todo) /\ Fit(sentenceTokens, blankTokens, merged)
    /\ GroupsPartition' <=> Contiguous(merged' \o todo') /\ Fit(sentenceTokens', blankTokens', merged')
    /\ \A g : Tokens(g) = SizeOf(sentenceTokens, blankTokens, g)
<1>1. \A g : Tokens(g) = SizeOf(sentenceTokens, blankTokens, g)
  BY DEF SizeOf, SumOver, Tokens
<1>2. GroupsPartition <=> Contiguous(merged \o todo) /\ Fit(sentenceTokens, blankTokens, merged)
  BY <1>1 DEF GroupsPartition, Fit
<1>3. (GroupsPartition <=> Contiguous(merged \o todo) /\ Fit(sentenceTokens, blankTokens, merged))'
  BY <1>2, PTL
<1> QED BY <1>1, <1>2, <1>3

LEMMA CoherenceStep == CoherenceInv /\ [CoherenceNext]_coherenceVars => CoherenceInv'
<1> SUFFICES ASSUME CoherenceInv, [CoherenceNext]_coherenceVars PROVE CoherenceInv'
  OBVIOUS
<1>1. /\ sentenceTokens \in [Sentences -> 1..LongestSentence]
      /\ blankTokens \in [Sentences \ {0} -> 1..LongestSentence + BlankTokens]
      /\ \A s \in Sentences \ {0} : blankTokens[s] <= sentenceTokens[s] + BlankTokens
      /\ todo \in Seq(Groups) /\ merged \in Seq(Groups) /\ Contiguous(merged \o todo)
      /\ Fit(sentenceTokens, blankTokens, merged)
  BY PartitionParts DEF CoherenceInv, CoherenceTypeOK
<1>2. \A i \in 1..Len(merged) : merged[i] \in Groups
  BY <1>1
<1>3. CASE Split
  <2>1. /\ todo # <<>> /\ Head(todo).first < Head(todo).last /\ UNCHANGED <<sentenceTokens, blankTokens, merged>>
        /\ todo' = <<Group(Head(todo).first, Middle(Head(todo)) - 1), Group(Middle(Head(todo)), Head(todo).last)>>
                     \o Tail(todo)
    BY <1>3 DEF Split, Oversized
  <2>2. todo' \in Seq(Groups) /\ Contiguous(merged' \o todo')
    BY <1>1, <2>1, SplitKeepsRow
  <2>3. CoherenceTypeOK'
    BY <1>1, <2>1, <2>2 DEF CoherenceTypeOK
  <2> QED BY <1>1, <2>1, <2>2, <2>3, PartitionParts DEF CoherenceInv
<1>4. CASE Merge
  <2> DEFINE g == Head(todo)
  <2>1. todo # <<>> /\ ~Oversized(g) /\ todo' = Tail(todo) /\ UNCHANGED <<sentenceTokens, blankTokens>>
    BY <1>4 DEF Merge
  <2>2. g \in Groups /\ todo' \in Seq(Groups)
    BY <1>1, <2>1
  <2>3. CASE CanMerge(g)
    <3> DEFINE l == Last(merged)
               both == Group(l.first, g.last)
               left == Front(merged) \o <<both>>
    <3>1. merged' = left /\ merged # <<>>
      BY <1>4, <2>3 DEF Merge, CanMerge
    <3>2. /\ both \in Groups /\ left \in Seq(Groups) /\ Len(left) = Len(merged) /\ left[Len(merged)] = both
          /\ \A i \in 1..Len(merged) - 1 : left[i] = merged[i]
          /\ Contiguous(left \o Tail(todo))
      BY <1>1, <2>1, <3>1, MergeKeepsRow
    <3>3. Tokens(both) <= GroupMaxTokens + BlankTokens
      <4>1. l \in Groups
        BY <1>1, <3>1 DEF Last
      <4>2. l.first <= l.last /\ g.first = l.last + 1 /\ g.first <= g.last
        <5> DEFINE k == Len(merged)
                   old == merged \o todo
        <5>1. k \in 1..Len(old) /\ k + 1 \in 1..Len(old) /\ k \in 1..Len(old) - 1 /\ old[k] = l /\ old[k + 1] = g
          BY <1>1, <2>1, <3>1 DEF Last
        <5> HIDE DEF old, k, l, g
        <5> QED BY <1>1, <5>1 DEF Contiguous, old
      <4>3. Tokens(l) \in Nat /\ Tokens(g) \in Nat
        BY <1>1, <2>2, <4>1, <4>2, SizesAdd
      <4>4. Tokens(both) <= Tokens(l) + Tokens(g) + BlankTokens
        BY <1>1, <2>2, <4>1, <4>2, SizesAdd
      <4>5. Tokens(l) + Tokens(g) <= GroupMaxTokens
        BY <2>3 DEF CanMerge
      <4>6. Tokens(both) \in Nat
        <5>1. both \in Groups /\ both.first = l.first /\ both.last = g.last
          BY <3>2 DEF Group
        <5>2. l.first \in Nat /\ l.last \in Nat /\ g.first \in Nat /\ g.last \in Nat
          BY <2>2, <4>1, GroupsTyped
        <5>3. both.first <= both.last
          BY <4>2, <5>1, <5>2
        <5> QED BY <1>1, <5>1, <5>3, SizesAdd
      <4> HIDE DEF both, l, g
      <4> QED BY <4>3, <4>4, <4>5, <4>6, CoherenceAssumption
    <3>4. CoherenceTypeOK'
      BY <1>1, <2>1, <2>2, <3>1, <3>2 DEF CoherenceTypeOK
    <3>5. Fit(sentenceTokens, blankTokens, left)
      <4> SUFFICES ASSUME NEW i \in 1..Len(left)
                   PROVE  \/ SizeOf(sentenceTokens, blankTokens, left[i]) <= GroupMaxTokens + BlankTokens
                          \/ left[i].first = left[i].last
        BY DEF Fit
      <4>1. i = Len(merged) \/ (i \in 1..Len(merged) - 1 /\ i \in 1..Len(merged))
        <5>1. Len(merged) \in Nat
          BY <1>1
        <5> QED BY <3>2, <5>1
      <4>2. SizeOf(sentenceTokens, blankTokens, both) <= GroupMaxTokens + BlankTokens
        BY <3>3, PartitionParts
      <4> HIDE DEF left, both
      <4> QED BY <1>1, <3>2, <4>1, <4>2 DEF Fit
    <3> HIDE DEF left
    <3>6. Contiguous(merged' \o todo')
      BY <2>1, <3>1, <3>2
    <3> QED BY <2>1, <3>1, <3>4, <3>5, <3>6, PartitionParts DEF CoherenceInv
  <2>4. CASE ~CanMerge(g)
    <3>1. merged' = Append(merged, g)
      BY <1>4, <2>4 DEF Merge
    <3>2. merged' \in Seq(Groups) /\ merged' \o todo' = merged \o todo
      <4>1. PICK head \in Seq(Groups), tail \in Seq(Groups) :
              todo = head \o tail /\ merged' = merged \o head /\ todo' = tail
        <5>1. <<g>> \in Seq(Groups) /\ Tail(todo) \in Seq(Groups) /\ todo = <<g>> \o Tail(todo)
              /\ merged' = merged \o <<g>>
          BY <1>1, <2>1, <2>2, <3>1
        <5> QED BY <2>1, <5>1
      <4>2. merged \in Seq(Groups)
        BY <1>1
      <4>3. (merged \o head) \o tail = merged \o (head \o tail)
        BY <4>2
      <4> QED BY <4>1, <4>2, <4>3
    <3>3. Tokens(g) <= GroupMaxTokens + BlankTokens \/ g.first = g.last
      <4>2. g.first \in Nat /\ g.last \in Nat
        BY <2>2, GroupsTyped
      <4>3. g.first <= g.last
        <5> DEFINE k == Len(merged)
                   old == merged \o todo
        <5>1. k + 1 \in 1..Len(old) /\ old[k + 1] = g
          BY <1>1, <2>1
        <5> HIDE DEF old, k, g
        <5> QED BY <1>1, <5>1 DEF Contiguous, old
      <4>1. Tokens(g) \in Nat /\ GroupMaxTokens \in Nat /\ BlankTokens \in Nat
        BY <1>1, <2>2, <4>3, SizesAdd, CoherenceAssumption
      <4> QED BY <2>1, <4>1, <4>2, <4>3 DEF Oversized
    <3>4. Fit(sentenceTokens, blankTokens, Append(merged, g))
      <4> DEFINE n == Len(merged)
                 more == Append(merged, g)
      <4>1. n \in Nat /\ Len(more) = n + 1 /\ more[n + 1] = g /\ \A i \in 1..n : more[i] = merged[i]
        BY <1>1, <2>2
      <4>2. \A i \in 1..n + 1 : i \in 1..n \/ i = n + 1
        BY <4>1
      <4>3. SizeOf(sentenceTokens, blankTokens, g) <= GroupMaxTokens + BlankTokens \/ g.first = g.last
        BY <3>3, PartitionParts
      <4>4. \A i \in 1..n : \/ SizeOf(sentenceTokens, blankTokens, merged[i]) <= GroupMaxTokens + BlankTokens
                            \/ merged[i].first = merged[i].last
        BY <1>1 DEF Fit
      <4> HIDE DEF n, more, g
      <4>5. Fit(sentenceTokens, blankTokens, more)
        BY <4>1, <4>2, <4>3, <4>4 DEF Fit
      <4> QED BY <4>5 DEF more
    <3>5. CoherenceTypeOK'
      BY <1>1, <2>1, <2>2, <3>2 DEF CoherenceTypeOK
    <3>6. Contiguous(merged' \o todo')
      BY <1>1, <3>2
    <3> HIDE DEF g
    <3> QED BY <2>1, <3>1, <3>4, <3>5, <3>6, PartitionParts DEF CoherenceInv
  <2> QED BY <2>3, <2>4
<1>5. CASE UNCHANGED coherenceVars
  <2>1. UNCHANGED <<sentenceTokens, blankTokens, todo, merged>>
    BY <1>5 DEF coherenceVars
  <2>2. CoherenceTypeOK'
    BY <1>1, <2>1 DEF CoherenceTypeOK
  <2> QED BY <1>1, <2>1, <2>2, PartitionParts DEF CoherenceInv
<1> QED BY <1>3, <1>4, <1>5 DEF CoherenceNext

LEMMA CoherenceInvariance == CoherenceSpec => []CoherenceInv
BY CoherenceStart, CoherenceStep, PTL DEF CoherenceSpec

(* However groups are split and merged, each sentence stays in exactly one  *)
(* group, in the order of the text, and a finished group of several         *)
(* sentences exceeds the token limit by one blank at most, however many     *)
(* merges it went through (_enforce_token_limits).                          *)
THEOREM GroupsArePartition == CoherenceSpec => []GroupsPartition
<1>1. CoherenceInv => GroupsPartition
  BY DEF CoherenceInv
<1> QED BY <1>1, CoherenceInvariance, PTL

-----------------------------------------------------------------------------
(* Chunking: no token of the text is dropped.                              *)

USE ChunkingAssumption

(* The first t tokens of a segment are in chunks.                           *)
CoveredUpTo(s, n) == \A t \in 0..n - 1 : \E c \in chunks : Holds(c, s, t)

(* What lies before the chunk under construction, or before the overlap     *)
(* that is sought, is covered.                                              *)
BehindCovered ==
    /\ stage \in {"fill", "back", "window"} =>
         /\ first <= NumSegments /\ first < next /\ next <= NumSegments + 1
         /\ \A s \in Segments : s < first => CoveredUpTo(s, tokens[s])
    /\ stage = "back" =>
         /\ next <= NumSegments /\ first <= back /\ back < next
         /\ \A s \in Segments : s < next => CoveredUpTo(s, tokens[s])
    /\ stage = "window" => next = first + 1 /\ CoveredUpTo(first, pos)
    /\ stage = "done" => \A s \in Segments : CoveredUpTo(s, tokens[s])

ChunkingInv == ChunkingTypeOK /\ BehindCovered

(* A chunk of whole segments holds all their tokens.                        *)
LEMMA ChunkHolds ==
    ASSUME ChunkingTypeOK, NEW a \in Segments, NEW b \in Segments, NEW s \in Segments,
           a <= s, s <= b, Chunk(a, b, 0, tokens[a]) \in chunks'
    PROVE  CoveredUpTo(s, tokens[s])'
           \/ tokens'[s] # tokens[s]
<1> SUFFICES ASSUME tokens'[s] = tokens[s], NEW t \in 0..tokens[s] - 1
             PROVE  \E c \in chunks' : Holds(c, s, t)
  BY DEF CoveredUpTo, Holds
<1>1. tokens[s] \in Nat /\ tokens[a] \in Nat /\ t \in Nat /\ 0 <= t /\ t < tokens[s]
  BY DEF ChunkingTypeOK
<1>2. a = b => s = a
  BY DEF Segments
<1>3. Holds(Chunk(a, b, 0, tokens[a]), s, t)
  BY <1>1, <1>2 DEF Holds, Chunk
<1> QED BY <1>3

LEMMA Shorter ==
    ASSUME NEW m \in Nat, NEW n \in Nat, m <= n
    PROVE  \A t \in 0..m - 1 : t \in 0..n - 1
OBVIOUS

(* More chunks cover no less.                                               *)
LEMMA StillCovered ==
    ASSUME chunks \subseteq chunks', NEW s, NEW n, CoveredUpTo(s, n)
    PROVE  \A t \in 0..n - 1 : \E c \in chunks' : Holds(c, s, t)
BY DEF CoveredUpTo

LEMMA ChunkTyped ==
    ASSUME NEW a \in Segments, NEW b \in Segments, NEW m \in Nat, NEW n \in Nat
    PROVE  Chunk(a, b, m, n) \in [first : Segments, last : Segments, from : Nat, to : Nat]
BY DEF Chunk

(* Where an outer iteration leaves the loop variables.                      *)
LEMMA BeginTyped ==
    ASSUME ChunkingTypeOK, NEW i \in 1..NumSegments + 1, Begin(i)
    PROVE  /\ first' \in 1..NumSegments + 1 /\ next' \in 1..NumSegments + 2 /\ filled' \in Nat
           /\ stage' \in {"fill", "done"}
<1>1. CASE i <= NumSegments
  <2>1. i \in Segments
    BY <1>1 DEF Segments
  <2> QED BY <1>1, <2>1 DEF Begin, ChunkingTypeOK
<1>2. CASE ~(i <= NumSegments)
  BY <1>2 DEF Begin
<1> QED BY <1>1, <1>2

(* Every segment before i is covered: the loop may begin with i.            *)
LEMMA BeginCovered ==
    ASSUME ChunkingTypeOK, NEW i \in 1..NumSegments + 1, Begin(i), tokens' = tokens,
           chunks \subseteq chunks',
           \A s \in Segments : s < i => CoveredUpTo(s, tokens[s])'
    PROVE  BehindCovered'
<1>1. CASE i <= NumSegments
  BY <1>1 DEF Begin, BehindCovered
<1>2. CASE ~(i <= NumSegments)
  <2>1. \A s \in Segments : s < i
    BY <1>2 DEF Segments
  <2> QED BY <1>2, <2>1 DEF Begin, BehindCovered
<1> QED BY <1>1, <1>2

LEMMA ChunkingStart == ChunkingInit => ChunkingInv
<1> SUFFICES ASSUME ChunkingInit PROVE ChunkingInv
  OBVIOUS
<1>1. ChunkingTypeOK
  BY DEF ChunkingInit, ChunkingTypeOK, Segments
<1>2. BehindCovered
  BY DEF ChunkingInit, BehindCovered
<1> QED BY <1>1, <1>2 DEF ChunkingInv

LEMMA ChunkingStepKeeps == ChunkingInv /\ [ChunkingNext]_chunkingVars => ChunkingInv'
<1> SUFFICES ASSUME ChunkingInv, [ChunkingNext]_chunkingVars PROVE ChunkingInv'
  OBVIOUS
<1>a. ChunkingTypeOK /\ BehindCovered
  BY DEF ChunkingInv
<1>1. CASE Receive
  BY <1>1, <1>a DEF Receive, ChunkingInv, ChunkingTypeOK, BehindCovered
<1>2. CASE Whole
  <2>1. CASE TokenCount < MinChunkTokens \/ TokenCount <= MaxTokens
    <3>1. /\ chunks' = {Chunk(1, NumSegments, 0, tokens[1])} /\ stage' = "done"
          /\ UNCHANGED <<tokens, first, next, filled, back, overlap, pos>>
      BY <1>2, <2>1 DEF Whole
    <3>2. 1 \in Segments /\ NumSegments \in Segments /\ tokens[1] \in Nat
      BY <1>a DEF Segments, ChunkingTypeOK
    <3>3. ChunkingTypeOK'
      BY <1>a, <3>1, <3>2, ChunkTyped DEF ChunkingTypeOK
    <3>4. \A s \in Segments : CoveredUpTo(s, tokens[s])'
      BY <1>a, <3>1, <3>2, ChunkHolds DEF Segments
    <3> QED BY <3>1, <3>3, <3>4 DEF ChunkingInv, BehindCovered
  <2>2. CASE ~(TokenCount < MinChunkTokens \/ TokenCount <= MaxTokens)
    <3>a. Begin(1) /\ UNCHANGED chunks
      BY <1>2, <2>2 DEF Whole
    <3>1. ChunkingTypeOK'
      BY <1>2, <1>a, <3>a, BeginTyped DEF Whole, ChunkingTypeOK
    <3>2. BehindCovered'
      <4>1. \A s \in Segments : ~(s < 1)
        BY DEF Segments
      <4> QED BY <1>2, <1>a, <3>a, <4>1, BeginCovered DEF Whole
    <3> QED BY <3>1, <3>2 DEF ChunkingInv
  <2> QED BY <2>1, <2>2
<1>3. CASE Extend
  <2>1. next \in Segments /\ tokens[next] \in Nat /\ filled \in Nat
    BY <1>3, <1>a DEF Extend, Segments, ChunkingTypeOK
  <2>2. filled' \in Nat
    BY <1>3, <2>1 DEF Extend
  <2>3. ChunkingTypeOK'
    BY <1>3, <1>a, <2>2 DEF Extend, ChunkingTypeOK
  <2>4. BehindCovered'
    <3>1. first < next' /\ next' <= NumSegments + 1
      BY <1>3, <1>a DEF Extend, BehindCovered, ChunkingTypeOK
    <3> QED BY <1>3, <1>a, <3>1 DEF Extend, BehindCovered, CoveredUpTo
  <2> QED BY <2>3, <2>4 DEF ChunkingInv
<1>4. CASE EmitSegments
  <2>1. /\ stage = "fill" /\ first \in Segments /\ next - 1 \in Segments /\ first <= next - 1
        /\ next \in 1..NumSegments + 1 /\ tokens[first] \in Nat
    BY <1>4, <1>a DEF EmitSegments, ChunkFull, BehindCovered, ChunkingTypeOK, Segments
  <2>2. /\ chunks' = chunks \cup {Chunk(first, next - 1, 0, tokens[first])}
        /\ UNCHANGED <<tokens, first, next, filled, pos>>
    BY <1>4 DEF EmitSegments
  <2>3. \A s \in Segments : s < next => CoveredUpTo(s, tokens[s])'
    <3> SUFFICES ASSUME NEW s \in Segments, s < next PROVE CoveredUpTo(s, tokens[s])'
      OBVIOUS
    <3>1. CASE s < first
      BY <1>a, <2>1, <2>2, <3>1, StillCovered DEF BehindCovered, CoveredUpTo
    <3>2. CASE first <= s
      BY <1>a, <2>1, <2>2, <3>2, ChunkHolds DEF Segments
    <3> QED BY <2>1, <3>1, <3>2 DEF Segments
  <2>4. ChunkingTypeOK'
    <3>1. chunks' \subseteq [first : Segments, last : Segments, from : Nat, to : Nat]
      <4>1. Chunk(first, next - 1, 0, tokens[first])
              \in [first : Segments, last : Segments, from : Nat, to : Nat]
        BY <2>1, ChunkTyped
      <4> QED BY <1>a, <2>2, <4>1 DEF ChunkingTypeOK
    <3>2. next - 1 \in 0..NumSegments
      BY <2>1 DEF Segments
    <3> QED BY <1>4, <1>a, <2>2, <3>1, <3>2 DEF EmitSegments, ChunkingTypeOK
  <2>5. BehindCovered'
    <3>1. CASE next > NumSegments
      <4>1. \A s \in Segments : s < next
        BY <2>1, <3>1 DEF Segments
      <4> QED BY <1>4, <2>3, <3>1, <4>1 DEF EmitSegments, BehindCovered
    <3>2. CASE ~(next > NumSegments)
      <4>1. stage' = "back" /\ back' = next - 1 /\ next' = next /\ first' = first
        BY <1>4, <3>2 DEF EmitSegments
      <4>2. \A s \in Segments : s < first => s < next
        BY <2>1 DEF Segments
      <4>3. /\ first <= NumSegments /\ first < next /\ next <= NumSegments
            /\ first <= next - 1 /\ next - 1 < next
        BY <2>1, <3>2 DEF Segments
      <4>4. \A s \in Segments : s < first => CoveredUpTo(s, tokens[s])'
        BY <2>3, <4>2
      <4>5. back' < next' /\ first' <= back' /\ first' < next' /\ next' <= NumSegments
            /\ first' <= NumSegments /\ next' <= NumSegments + 1
        BY <2>1, <4>1, <4>3
      <4> QED BY <2>3, <4>1, <4>4, <4>5 DEF BehindCovered
    <3> QED BY <3>1, <3>2
  <2> QED BY <2>4, <2>5 DEF ChunkingInv
<1>5. CASE SplitSegment
  <2>1. ChunkingTypeOK'
    BY <1>5, <1>a DEF SplitSegment, ChunkingTypeOK
  <2>2. BehindCovered'
    BY <1>5, <1>a DEF SplitSegment, ChunkFull, TooLong, BehindCovered, CoveredUpTo
  <2> QED BY <2>1, <2>2 DEF ChunkingInv
<1>6. CASE WalkBack
  <2>1. back \in Segments /\ first <= back - 1 /\ tokens[back] \in Nat
    BY <1>6, <1>a DEF WalkBack, FitsOverlap, BehindCovered, ChunkingTypeOK, Segments
  <2>2. ChunkingTypeOK'
    BY <1>6, <1>a, <2>1 DEF WalkBack, ChunkingTypeOK, Segments
  <2>3. BehindCovered'
    <3>1. first <= back' /\ back' < next
      BY <1>6, <1>a, <2>1 DEF WalkBack, BehindCovered, ChunkingTypeOK, Segments
    <3> QED BY <1>6, <1>a, <3>1 DEF WalkBack, BehindCovered, CoveredUpTo
  <2> QED BY <2>2, <2>3 DEF ChunkingInv
<1>7. CASE Advance
  <2>1. OverlapStart = back + 1 /\ back + 1 \in 1..NumSegments + 1 /\ back + 1 <= next
    BY <1>7, <1>a DEF Advance, OverlapStart, BehindCovered, ChunkingTypeOK
  <2>2. ChunkingTypeOK'
    BY <1>7, <1>a, <2>1, BeginTyped DEF Advance, ChunkingTypeOK
  <2>3. \A s \in Segments : s < back + 1 => CoveredUpTo(s, tokens[s])'
    <3>1. \A s \in Segments : s < back + 1 => s < next
      BY <1>a, <2>1 DEF Segments, ChunkingTypeOK
    <3> QED BY <1>7, <1>a, <3>1 DEF Advance, BehindCovered, CoveredUpTo
  <2>4. BehindCovered'
    BY <1>7, <1>a, <2>1, <2>3, BeginCovered DEF Advance
  <2> QED BY <2>2, <2>4 DEF ChunkingInv
<1>8. CASE Window
  <2> DEFINE end == IF pos + MaxTokens <= tokens[first] THEN pos + MaxTokens ELSE tokens[first]
  <2>1. /\ first \in Segments /\ tokens[first] \in Nat /\ pos \in Nat /\ end \in Nat
        /\ first + 1 \in 1..NumSegments + 1
    BY <1>8, <1>a DEF Window, BehindCovered, ChunkingTypeOK, Segments
  <2>2. /\ stage = "window" /\ chunks' = chunks \cup {Chunk(first, first, pos, end)}
        /\ UNCHANGED <<tokens, back, overlap>>
    BY <1>8 DEF Window
  <2> HIDE DEF end
  <2>3. chunks' \subseteq [first : Segments, last : Segments, from : Nat, to : Nat]
    <3>1. Chunk(first, first, pos, end) \in [first : Segments, last : Segments, from : Nat, to : Nat]
      BY <2>1, ChunkTyped
    <3> QED BY <1>a, <2>2, <3>1 DEF ChunkingTypeOK
  <2>4. \A t \in 0..end - 1 : \E c \in chunks' : Holds(c, first, t)
    <3> SUFFICES ASSUME NEW t \in 0..end - 1 PROVE \E c \in chunks' : Holds(c, first, t)
      OBVIOUS
    <3>1. CASE t < pos
      BY <1>a, <2>1, <2>2, <3>1 DEF BehindCovered, CoveredUpTo
    <3>2. CASE pos <= t
      <4>1. t < end /\ first <= first
        BY <2>1 DEF Segments
      <4>2. Holds(Chunk(first, first, pos, end), first, t)
        BY <3>2, <4>1 DEF Holds, Chunk
      <4> QED BY <2>2, <4>2
    <3> QED BY <2>1, <3>1, <3>2
  <2>5. \A s \in Segments : s < first => CoveredUpTo(s, tokens[s])'
    BY <1>a, <2>2, StillCovered DEF BehindCovered, CoveredUpTo
  <2>6. CASE end >= tokens[first]
    <3>1. Begin(first + 1) /\ pos' = pos
      BY <1>8, <2>6 DEF Window, end
    <3>2. end = tokens[first]
      BY <2>1, <2>6 DEF end
    <3>3. \A s \in Segments : s < first + 1 => CoveredUpTo(s, tokens[s])'
      <4>1. \A s \in Segments : s < first + 1 => s < first \/ s = first
        BY <2>1 DEF Segments
      <4> QED BY <2>2, <2>4, <2>5, <3>2, <4>1 DEF CoveredUpTo
    <3>4. ChunkingTypeOK'
      BY <1>a, <2>1, <2>2, <2>3, <3>1, BeginTyped DEF ChunkingTypeOK
    <3>5. BehindCovered'
      BY <1>a, <2>1, <2>2, <3>1, <3>3, BeginCovered
    <3> QED BY <3>4, <3>5 DEF ChunkingInv
  <2>7. CASE ~(end >= tokens[first])
    <3>1. pos' = pos + WindowStep /\ UNCHANGED <<first, next, filled, stage>>
      BY <1>8, <2>7 DEF Window, end
    <3>2. end = pos + MaxTokens /\ WindowStep \in Nat /\ WindowStep <= MaxTokens
      BY <2>1, <2>7 DEF WindowStep, end
    <3>3. pos' \in Nat /\ pos' <= end
      BY <2>1, <3>1, <3>2
    <3>4. CoveredUpTo(first, pos)'
      <4>1. \A t \in 0..pos' - 1 : t \in 0..end - 1
        BY <2>1, <3>3, Shorter
      <4> QED BY <2>4, <3>1, <4>1 DEF CoveredUpTo
    <3>5. ChunkingTypeOK'
      BY <1>a, <2>2, <2>3, <3>1, <3>3 DEF ChunkingTypeOK
    <3>6. BehindCovered'
      BY <1>a, <2>2, <2>5, <3>1, <3>4 DEF BehindCovered
    <3> QED BY <3>5, <3>6 DEF ChunkingInv
  <2> QED BY <2>6, <2>7
<1>9. CASE UNCHANGED chunkingVars
  BY <1>9, <1>a DEF chunkingVars, ChunkingInv, ChunkingTypeOK, BehindCovered, CoveredUpTo
<1> QED BY <1>1, <1>2, <1>3, <1>4, <1>5, <1>6, <1>7, <1>8, <1>9 DEF ChunkingNext, ChunkingStep

(* The loop variables keep their ranges, and what lies behind the chunk     *)
(* under construction is covered.                                           *)
THEOREM BehindIsCovered == ChunkingSpec => []ChunkingInv
BY ChunkingStart, ChunkingStepKeeps, PTL DEF ChunkingSpec

(* No token of the text is missing from the chunks when the loops have      *)
(* ended (_chunk_by_segments, _overlap_start, _chunk_fixed).                *)
THEOREM NothingIsDropped == ChunkingSpec => []ChunksCover
<1>1. ChunkingInv => ChunksCover
  BY DEF ChunkingInv, BehindCovered, CoveredUpTo, ChunksCover
<1> QED BY <1>1, BehindIsCovered, PTL

-----------------------------------------------------------------------------
(* Extraction: the types, and how far the daily limit may be exceeded.     *)

USE LlmAssumption

LEMMA NoExtractionTyped == NoExtraction \in Extractions
<1>1. 0 \in Days
  BY LlmAssumption DEF Days
<1> QED BY <1>1, LlmAssumption DEF NoExtraction, Extractions

(* An extraction that ends without being booked.                            *)
LEMMA EndUnbookedTyped ==
    ASSUME LlmTypeOK, NEW e \in Extractors, EndUnbooked(e)
    PROVE  extraction' \in [Extractors -> Extractions] /\ begun' \in [Days -> Nat] /\ unbooked' \in [Days -> Nat]
<1>1. extraction' \in [Extractors -> Extractions]
  BY NoExtractionTyped DEF EndUnbooked, End, Move, LlmTypeOK
<1>2. extraction[e].since \in Days
  BY DEF LlmTypeOK, Extractions
<1> QED BY <1>1, <1>2 DEF EndUnbooked, LlmTypeOK

(* What generate does with a content leaves every coroutine where a coroutine *)
(* can be.                                                                    *)
LEMMA UseContentTyped ==
    ASSUME LlmTypeOK, NEW e \in Extractors, NEW content \in Contents, UseContent(e, content)
    PROVE  extraction' \in [Extractors -> Extractions] /\ begun' \in [Days -> Nat] /\ unbooked' \in [Days -> Nat]
<1>1. CASE content = "valid"
  BY <1>1 DEF UseContent, Move, LlmTypeOK, Extractions, llmHistory
<1>2. CASE content # "valid" /\ extraction[e].round < Repairs
  <2>1. /\ extraction[e].round + 1 \in 0..Repairs
        /\ 1 \in 1..Providers /\ 0 \in 0..GatewayRetries
    BY <1>2 DEF LlmTypeOK, Extractions
  <2>2. [extraction[e] EXCEPT !.round = @ + 1, !.provider = 1, !.attempt = 0] \in Extractions
    BY <2>1 DEF LlmTypeOK, Extractions
  <2>3. ~(extraction[e].round >= Repairs)
    BY <1>2, LlmAssumption DEF LlmTypeOK, Extractions
  <2> QED BY <1>2, <2>2, <2>3 DEF UseContent, Move, LlmTypeOK, llmHistory
<1>3. CASE content # "valid" /\ ~(extraction[e].round < Repairs)
  BY <1>3, EndUnbookedTyped DEF UseContent
<1> QED BY <1>1, <1>2, <1>3

(* Every step keeps the types (all the actions of LlmExtraction).           *)
LEMMA LlmTypeStep == LlmTypeOK /\ [LlmNext]_llmVars => LlmTypeOK'
<1> SUFFICES ASSUME LlmTypeOK, [LlmNext]_llmVars PROVE LlmTypeOK'
  OBVIOUS
<1>1. ASSUME NEW e \in Extractors, NEW k \in Chunks, Start(e, k) PROVE LlmTypeOK'
  <2>1. [NoExtraction EXCEPT !.at = "asking", !.chunk = k, !.since = day] \in Extractions
    BY NoExtractionTyped DEF LlmTypeOK, Extractions
  <2>2. extraction' \in [Extractors -> Extractions]
    BY <1>1, <2>1 DEF Start, Move, LlmTypeOK
  <2>3. begun' \in [Days -> Nat]
    BY <1>1 DEF Start, LlmTypeOK
  <2> QED BY <1>1, <2>2, <2>3 DEF Start, LlmTypeOK
<1>2. ASSUME NEW e \in Extractors, NEW c \in Contents, ProviderAnswers(e, c) PROVE LlmTypeOK'
  <2>1. answers' \in [Prompts -> Contents \cup {"none"}]
    BY <1>2 DEF ProviderAnswers, LlmTypeOK
  <2>2. UseContent(e, c) /\ UNCHANGED <<day, callCount>>
    BY <1>2 DEF ProviderAnswers
  <2>3. extraction' \in [Extractors -> Extractions] /\ begun' \in [Days -> Nat] /\ unbooked' \in [Days -> Nat]
    BY <2>2, UseContentTyped
  <2> QED BY <2>1, <2>2, <2>3 DEF LlmTypeOK
<1>3. ASSUME NEW e \in Extractors, Transient(e) PROVE LlmTypeOK'
  BY <1>3 DEF Transient, Move, LlmTypeOK, Extractions, llmHistory
<1>4. ASSUME NEW e \in Extractors, NextProvider(e) PROVE LlmTypeOK'
  <2>1. extraction[e].provider + 1 \in 1..Providers /\ 0 \in 0..GatewayRetries
    BY <1>4 DEF NextProvider, LlmTypeOK, Extractions
  <2>2. [extraction[e] EXCEPT !.provider = @ + 1, !.attempt = 0] \in Extractions
    BY <2>1 DEF LlmTypeOK, Extractions
  <2> QED BY <1>4, <2>2 DEF NextProvider, Move, LlmTypeOK, llmHistory
<1>5. ASSUME NEW e \in Extractors, CascadeFails(e) PROVE LlmTypeOK'
  <2>1. PromptOf(e) \in Prompts
    BY DEF PromptOf, Prompts, LlmTypeOK, Extractions
  <2>2. UNCHANGED <<day, callCount, answers>>
    BY <1>5 DEF CascadeFails
  <2>3. extraction' \in [Extractors -> Extractions] /\ begun' \in [Days -> Nat] /\ unbooked' \in [Days -> Nat]
    <3>1. CASE answers[PromptOf(e)] # "none"
      <4>1. answers[PromptOf(e)] \in Contents /\ UseContent(e, answers[PromptOf(e)])
        BY <1>5, <2>1, <3>1 DEF CascadeFails, LlmTypeOK
      <4> QED BY <4>1, UseContentTyped
    <3>2. CASE answers[PromptOf(e)] = "none"
      BY <1>5, <3>2, EndUnbookedTyped DEF CascadeFails
    <3> QED BY <3>1, <3>2
  <2> QED BY <2>2, <2>3 DEF LlmTypeOK
<1>6. ASSUME NEW e \in Extractors, Record(e) PROVE LlmTypeOK'
  <2>1. extraction' = [extraction EXCEPT ![e] = NoExtraction]
    BY <1>6 DEF Record, End, Move
  <2>2. extraction' \in [Extractors -> Extractions]
    BY <2>1, NoExtractionTyped DEF LlmTypeOK
  <2>3. callCount' \in [Days -> Nat]
    BY <1>6 DEF Record, LlmTypeOK
  <2> QED BY <1>6, <2>2, <2>3 DEF Record, LlmTypeOK, llmHistory
<1>7. ASSUME NEW e \in Extractors, RecordFails(e) PROVE LlmTypeOK'
  <2>1. EndUnbooked(e) /\ UNCHANGED <<day, callCount, answers>>
    BY <1>7 DEF RecordFails
  <2>2. extraction' \in [Extractors -> Extractions] /\ begun' \in [Days -> Nat] /\ unbooked' \in [Days -> Nat]
    BY <2>1, EndUnbookedTyped
  <2> QED BY <2>1, <2>2 DEF LlmTypeOK
<1>8. CASE Midnight
  BY <1>8 DEF Midnight, LlmTypeOK, Days, llmHistory
<1>9. CASE UNCHANGED llmVars
  BY <1>9 DEF llmVars, LlmTypeOK, llmHistory
<1> QED BY <1>1, <1>2, <1>3, <1>4, <1>5, <1>6, <1>7, <1>8, <1>9 DEF LlmNext, Proceed

LEMMA LlmTypeInit == LlmInit => LlmTypeOK
BY NoExtractionTyped, LlmAssumption DEF LlmInit, LlmTypeOK, Days

(* Type correctness of the extraction, for every value of the constants.   *)
THEOREM ExtractionTyped == LlmSpec => []LlmTypeOK
BY LlmTypeInit, LlmTypeStep, PTL DEF LlmSpec

-----------------------------------------------------------------------------
(* A call that is under way may still be booked today, so it counts like one *)
(* that is; what was begun today is booked today, under way, or ended        *)
(* unbooked; what was booked or begun on a past day is no longer added to.   *)
Today == {e \in InFlight : extraction[e].since = day}
Most == MaxDailyCalls + Cardinality(Extractors)

Budget ==
    /\ callCount[day] + Cardinality(InFlight) < Most
    /\ begun[day] <= unbooked[day] + callCount[day] + Cardinality(Today)
    /\ \A d \in Days :
         /\ d < day => callCount[d] < Most /\ begun[d] < Most + unbooked[d]
         /\ d > day => callCount[d] = 0 /\ begun[d] = 0

LEMMA InFlightBounded ==
    /\ IsFiniteSet(InFlight) /\ Cardinality(InFlight) \in Nat
    /\ Cardinality(Extractors) \in Nat
    /\ Cardinality(InFlight) <= Cardinality(Extractors)
    /\ IsFiniteSet(Today) /\ Cardinality(Today) \in Nat /\ Cardinality(Today) <= Cardinality(InFlight)
<1>1. IsFiniteSet(Extractors) /\ InFlight \subseteq Extractors /\ Today \subseteq InFlight
  BY LlmAssumption DEF InFlight, Today
<1>2. IsFiniteSet(InFlight) /\ Cardinality(InFlight) <= Cardinality(Extractors)
  BY <1>1, FS_Subset
<1>3. IsFiniteSet(Today) /\ Cardinality(Today) <= Cardinality(InFlight)
  BY <1>1, <1>2, FS_Subset
<1> QED BY <1>1, <1>2, <1>3, FS_CardinalityType

LEMMA InFlightBoundedNext ==
    /\ Cardinality(InFlight)' \in Nat /\ Cardinality(InFlight)' <= Cardinality(Extractors)
    /\ Cardinality(Today)' \in Nat /\ Cardinality(Today)' <= Cardinality(InFlight)'
<1>1. IsFiniteSet(Extractors) /\ InFlight' \subseteq Extractors /\ Today' \subseteq InFlight'
  BY LlmAssumption DEF InFlight, Today
<1>2. IsFiniteSet(InFlight') /\ Cardinality(InFlight') <= Cardinality(Extractors)
  BY <1>1, FS_Subset
<1>3. IsFiniteSet(Today') /\ Cardinality(Today') <= Cardinality(InFlight')
  BY <1>1, <1>2, FS_Subset
<1> QED BY <1>1, <1>2, <1>3, FS_CardinalityType

(* A coroutine that goes on changes nothing of this; one that ends takes    *)
(* itself away.                                                             *)
LEMMA OneGoesOn ==
    ASSUME LlmTypeOK, NEW e \in Extractors, extraction[e].at # "idle", day' = day,
           extraction'[e].at # "idle", extraction'[e].since = extraction[e].since,
           \A f \in Extractors \ {e} : extraction'[f] = extraction[f]
    PROVE  Cardinality(InFlight)' = Cardinality(InFlight) /\ Cardinality(Today)' = Cardinality(Today)
<1>1. InFlight' = InFlight
  BY DEF InFlight
<1>2. Today' = Today
  BY <1>1 DEF Today, InFlight
<1> QED BY <1>1, <1>2

LEMMA OneEnds ==
    ASSUME LlmTypeOK, NEW e \in Extractors, extraction[e].at # "idle", day' = day,
           extraction'[e].at = "idle", \A f \in Extractors \ {e} : extraction'[f] = extraction[f]
    PROVE  /\ Cardinality(InFlight)' = Cardinality(InFlight) - 1
           /\ Cardinality(Today)' = IF extraction[e].since = day THEN Cardinality(Today) - 1 ELSE Cardinality(Today)
<1>1. InFlight' = InFlight \ {e} /\ e \in InFlight
  BY DEF InFlight
<1>2. Cardinality(InFlight \ {e}) = Cardinality(InFlight) - 1
  BY <1>1, FS_RemoveElement, InFlightBounded
<1>3. CASE extraction[e].since = day
  <2>1. Today' = Today \ {e} /\ e \in Today
    BY <1>1, <1>3 DEF Today, InFlight
  <2>2. Cardinality(Today \ {e}) = Cardinality(Today) - 1
    BY <2>1, FS_RemoveElement, InFlightBounded
  <2> QED BY <1>1, <1>2, <1>3, <2>1, <2>2
<1>4. CASE extraction[e].since # day
  <2>1. Today' = Today
    BY <1>1, <1>4 DEF Today, InFlight
  <2> QED BY <1>1, <1>2, <1>4, <2>1
<1> QED BY <1>3, <1>4

LEMMA BudgetStep == LlmTypeOK /\ Budget /\ [LlmNext]_llmVars => Budget'
<1> SUFFICES ASSUME LlmTypeOK, Budget, [LlmNext]_llmVars PROVE Budget'
  OBVIOUS
<1> DEFINE fly == Cardinality(InFlight)
           now == Cardinality(Today)
           flying == Cardinality(InFlight)'
           later == Cardinality(Today)'
<1>a. /\ day \in Nat /\ day \in Days /\ Most \in Nat
      /\ \A d \in Days : d \in Nat /\ callCount[d] \in Nat /\ begun[d] \in Nat /\ unbooked[d] \in Nat
  BY InFlightBounded, LlmAssumption DEF LlmTypeOK, Days, Most
<1>b. /\ fly \in Nat /\ now \in Nat /\ flying \in Nat /\ later \in Nat
      /\ Cardinality(Extractors) \in Nat /\ fly <= Cardinality(Extractors)
      /\ flying <= Cardinality(Extractors) /\ later <= flying /\ now <= fly
  BY InFlightBounded, InFlightBoundedNext
<1>c. /\ callCount[day] + fly < Most /\ begun[day] <= unbooked[day] + callCount[day] + now
      /\ \A d \in Days :
           /\ d < day => callCount[d] < Most /\ begun[d] < Most + unbooked[d]
           /\ d > day => callCount[d] = 0 /\ begun[d] = 0
  BY DEF Budget
<1>d. Most' = Most
  BY DEF Most
<1>e. ASSUME callCount'[day'] + flying < Most,
             begun'[day'] <= unbooked'[day'] + callCount'[day'] + later,
             \A d \in Days : d < day' => callCount'[d] < Most /\ begun'[d] < Most + unbooked'[d],
             \A d \in Days : d > day' => callCount'[d] = 0 /\ begun'[d] = 0
      PROVE  Budget'
  BY <1>d, <1>e DEF Budget
<1> HIDE DEF fly, now, flying, later
<1>1. ASSUME NEW e \in Extractors, NEW k \in Chunks, Start(e, k) PROVE Budget'
  <2>1. /\ callCount[day] < MaxDailyCalls /\ UNCHANGED <<day, callCount, unbooked>>
        /\ extraction[e].at = "idle" /\ begun' = [begun EXCEPT ![day] = @ + 1]
    BY <1>1 DEF Start, WithinLimit
  <2>2. /\ extraction'[e].at = "asking" /\ extraction'[e].since = day
        /\ \A f \in Extractors \ {e} : extraction'[f] = extraction[f]
    <3>1. extraction' = [extraction EXCEPT ![e] = [NoExtraction EXCEPT !.at = "asking", !.chunk = k, !.since = day]]
      BY <1>1 DEF Start, Move
    <3> QED BY <3>1 DEF LlmTypeOK, NoExtraction
  <2>3. later = now + 1
    <3>1. Today' = Today \cup {e} /\ e \notin Today
      BY <2>1, <2>2 DEF Today, InFlight
    <3>2. Cardinality(Today \cup {e}) = Cardinality(Today) + 1
      BY <3>1, InFlightBounded, FS_AddElement
    <3> QED BY <3>1, <3>2 DEF later, now
  <2>4. begun'[day] = begun[day] + 1 /\ \A d \in Days : d # day => begun'[d] = begun[d]
    BY <1>a, <2>1 DEF LlmTypeOK
  <2>5. callCount'[day'] + flying < Most
    <3>1. callCount[day] + flying < MaxDailyCalls + Cardinality(Extractors)
      BY <1>a, <1>b, <2>1, LlmAssumption
    <3> QED BY <2>1, <3>1 DEF Most
  <2>6. begun'[day'] <= unbooked'[day'] + callCount'[day'] + later
    BY <1>a, <1>b, <1>c, <2>1, <2>3, <2>4
  <2>7. \A d \in Days : (d < day \/ d > day) => d # day
    BY <1>a
  <2> QED BY <1>c, <1>e, <2>1, <2>4, <2>5, <2>6, <2>7
(* A step that keeps those under way.                                      *)
<1>2. ASSUME UNCHANGED <<day, callCount, begun, unbooked>>, flying = fly, later = now
      PROVE  Budget'
  BY <1>2, <1>c, <1>e
(* A step that ends one of them unbooked.                                  *)
<1>3. ASSUME NEW e \in Extractors, extraction[e].at # "idle", EndUnbooked(e), UNCHANGED <<day, callCount>>
      PROVE  Budget'
  <2> DEFINE s == extraction[e].since
  <2>1. /\ extraction'[e].at = "idle" /\ \A f \in Extractors \ {e} : extraction'[f] = extraction[f]
        /\ s \in Days
    BY <1>3 DEF EndUnbooked, End, Move, NoExtraction, LlmTypeOK, Extractions
  <2>2. flying = fly - 1 /\ later = IF s = day THEN now - 1 ELSE now
    BY <1>3, <2>1, OneEnds DEF fly, now, flying, later
  <2>3. /\ unbooked'[s] = unbooked[s] + 1 /\ \A d \in Days : d # s => unbooked'[d] = unbooked[d]
        /\ begun' = begun
    BY <1>3, <2>1 DEF EndUnbooked, LlmTypeOK
  <2> HIDE DEF s
  <2>4. \A d \in Days : unbooked'[d] \in Nat /\ unbooked[d] <= unbooked'[d]
    BY <1>a, <2>3
  <2>5. begun'[day'] <= unbooked'[day'] + callCount'[day'] + later
    <3>1. CASE s = day
      BY <1>3, <1>a, <1>b, <1>c, <2>2, <2>3, <3>1
    <3>2. CASE s # day
      BY <1>3, <1>a, <1>b, <1>c, <2>2, <2>3, <3>2
    <3> QED BY <3>1, <3>2
  <2>6. callCount'[day'] + flying < Most
    BY <1>3, <1>a, <1>b, <1>c, <2>2
  <2>7. \A d \in Days : d < day' => callCount'[d] < Most /\ begun'[d] < Most + unbooked'[d]
    BY <1>3, <1>a, <1>c, <2>3, <2>4
  <2>8. \A d \in Days : d > day' => callCount'[d] = 0 /\ begun'[d] = 0
    BY <1>3, <1>c, <2>3
  <2> QED BY <1>e, <2>5, <2>6, <2>7, <2>8
<1>4. ASSUME NEW e \in Extractors, NEW x, x.at # "idle", x.since = extraction[e].since, Move(e, x),
             extraction[e].at # "idle", UNCHANGED <<day, callCount, llmHistory>>
      PROVE  Budget'
  <2>1. extraction'[e] = x /\ \A f \in Extractors \ {e} : extraction'[f] = extraction[f]
    BY <1>4 DEF Move, LlmTypeOK
  <2>2. flying = fly /\ later = now
    BY <1>4, <2>1, OneGoesOn DEF fly, now, flying, later
  <2> QED BY <1>2, <1>4, <2>2 DEF llmHistory
<1>5. ASSUME NEW e \in Extractors, NEW c \in Contents, UseContent(e, c), extraction[e].at = "asking",
             UNCHANGED <<day, callCount>>
      PROVE  Budget'
  <2>0. extraction[e] \in Extractions /\ extraction[e].at # "idle"
    BY <1>5 DEF LlmTypeOK
  <2>1. CASE Move(e, [extraction[e] EXCEPT !.at = "recording"]) /\ UNCHANGED llmHistory
    <3> DEFINE x == [extraction[e] EXCEPT !.at = "recording"]
    <3>1. x.at # "idle" /\ x.since = extraction[e].since
      BY <2>0 DEF Extractions
    <3> HIDE DEF x
    <3> QED BY <1>4, <1>5, <2>0, <2>1, <3>1 DEF x
  <2>2. CASE Move(e, [extraction[e] EXCEPT !.round = @ + 1, !.provider = 1, !.attempt = 0]) /\ UNCHANGED llmHistory
    <3> DEFINE x == [extraction[e] EXCEPT !.round = @ + 1, !.provider = 1, !.attempt = 0]
    <3>1. x.at # "idle" /\ x.since = extraction[e].since
      BY <2>0 DEF Extractions
    <3> HIDE DEF x
    <3> QED BY <1>4, <1>5, <2>0, <2>2, <3>1 DEF x
  <2>3. CASE EndUnbooked(e)
    BY <1>3, <1>5, <2>0, <2>3
  <2> QED BY <1>5, <2>1, <2>2, <2>3 DEF UseContent
<1>6. ASSUME NEW e \in Extractors, Transient(e) \/ NextProvider(e) PROVE Budget'
  <2>0. extraction[e] \in Extractions /\ extraction[e].at # "idle" /\ UNCHANGED <<day, callCount, llmHistory>>
    BY <1>6 DEF LlmTypeOK, Transient, NextProvider
  <2>1. CASE Transient(e)
    <3> DEFINE x == [extraction[e] EXCEPT !.attempt = @ + 1]
    <3>1. x.at # "idle" /\ x.since = extraction[e].since /\ Move(e, x)
      BY <2>0, <2>1 DEF Extractions, Transient
    <3> HIDE DEF x
    <3> QED BY <1>4, <2>0, <3>1
  <2>2. CASE NextProvider(e)
    <3> DEFINE x == [extraction[e] EXCEPT !.provider = @ + 1, !.attempt = 0]
    <3>1. x.at # "idle" /\ x.since = extraction[e].since /\ Move(e, x)
      BY <2>0, <2>2 DEF Extractions, NextProvider
    <3> HIDE DEF x
    <3> QED BY <1>4, <2>0, <3>1
  <2> QED BY <1>6, <2>1, <2>2
<1>7. ASSUME NEW e \in Extractors, NEW c \in Contents, ProviderAnswers(e, c) PROVE Budget'
  BY <1>5, <1>7 DEF ProviderAnswers
<1>8. ASSUME NEW e \in Extractors, CascadeFails(e) PROVE Budget'
  <2>1. PromptOf(e) \in Prompts
    BY DEF PromptOf, Prompts, LlmTypeOK, Extractions
  <2>2. CASE answers[PromptOf(e)] # "none"
    <3>1. answers[PromptOf(e)] \in Contents
      BY <2>1, <2>2 DEF LlmTypeOK
    <3> QED BY <1>5, <1>8, <2>2, <3>1 DEF CascadeFails
  <2>3. CASE answers[PromptOf(e)] = "none"
    BY <1>3, <1>8, <2>3 DEF CascadeFails
  <2> QED BY <2>2, <2>3
<1>9. ASSUME NEW e \in Extractors, RecordFails(e) PROVE Budget'
  BY <1>3, <1>9 DEF RecordFails
<1>10. ASSUME NEW e \in Extractors, Record(e) PROVE Budget'
  <2>1. /\ \A f \in Extractors \ {e} : extraction'[f] = extraction[f]
        /\ extraction'[e].at = "idle" /\ extraction[e].at # "idle" /\ day' = day
    BY <1>10 DEF Record, End, Move, NoExtraction, LlmTypeOK
  <2>2. flying = fly - 1 /\ (later = now - 1 \/ later = now)
    BY <2>1, OneEnds DEF fly, now, flying, later
  <2>3. callCount' = [callCount EXCEPT ![day] = @ + 1] /\ UNCHANGED <<begun, unbooked>>
    BY <1>10 DEF Record, llmHistory
  <2>4. callCount'[day] = callCount[day] + 1 /\ \A d \in Days : d # day => callCount'[d] = callCount[d]
    BY <1>a, <2>3 DEF LlmTypeOK
  <2>5. callCount'[day'] + flying < Most
    BY <1>a, <1>b, <1>c, <2>1, <2>2, <2>4
  <2>6. begun'[day'] <= unbooked'[day'] + callCount'[day'] + later
    BY <1>a, <1>b, <1>c, <2>1, <2>2, <2>3, <2>4
  <2>7. \A d \in Days : (d < day \/ d > day) => d # day
    BY <1>a
  <2> QED BY <1>c, <1>e, <2>1, <2>3, <2>4, <2>5, <2>6, <2>7
<1>11. CASE Midnight
  <2>1. day' = day + 1 /\ day' \in Days /\ UNCHANGED <<callCount, extraction, begun, unbooked>>
    BY <1>11 DEF Midnight, LlmTypeOK, Days, llmHistory
  <2>2. callCount[day'] = 0 /\ begun[day'] = 0
    BY <1>a, <1>c, <2>1
  <2>3. \A d \in Days : d < day' => d < day \/ d = day
    BY <1>a, <2>1
  <2>4. \A d \in Days : d > day' => d > day
    BY <1>a, <2>1
  <2>5. callCount[day] < Most /\ begun[day] < Most + unbooked[day]
    BY <1>a, <1>b, <1>c
  <2>6. callCount'[day'] + flying < Most
    BY <1>a, <1>b, <2>1, <2>2, LlmAssumption DEF Most
  <2>7. begun'[day'] <= unbooked'[day'] + callCount'[day'] + later
    BY <1>a, <1>b, <2>1, <2>2
  <2> QED BY <1>c, <1>e, <2>1, <2>3, <2>4, <2>5, <2>6, <2>7
<1>12. CASE UNCHANGED llmVars
  <2>1. UNCHANGED <<day, callCount, begun, unbooked, extraction>>
    BY <1>12 DEF llmVars, llmHistory
  <2>2. flying = fly /\ later = now
    BY <2>1 DEF InFlight, Today, fly, now, flying, later
  <2> QED BY <1>2, <2>1, <2>2
<1> QED BY <1>1, <1>6, <1>7, <1>8, <1>9, <1>10, <1>11, <1>12 DEF LlmNext, Proceed

LEMMA BudgetInit == LlmInit => Budget
<1> SUFFICES ASSUME LlmInit PROVE Budget
  OBVIOUS
<1>1. InFlight = {} /\ Today = {}
  BY DEF LlmInit, InFlight, Today, NoExtraction
<1>2. Cardinality(InFlight) = 0 /\ Cardinality(Today) = 0
  BY <1>1, FS_EmptySet
<1>3. day = 0 /\ day \in Days /\ \A d \in Days : callCount[d] = 0 /\ begun[d] = 0 /\ unbooked[d] = 0 /\ ~(d < 0)
  BY LlmAssumption DEF LlmInit, Days
<1>4. Most \in Nat /\ 0 < Most
  BY InFlightBounded, LlmAssumption DEF Most
<1> QED BY <1>2, <1>3, <1>4 DEF Budget

(* The daily limit is exceeded by less than the number of coroutines, apart *)
(* from the extractions that end unbooked, for any number of coroutines, of *)
(* providers, retries, repairs and days (check_limits, record_usage).       *)
THEOREM OvershootIsBounded == LlmSpec => []OvershootBounded
<1>1. LlmTypeOK /\ Budget => OvershootBounded
  <2> SUFFICES ASSUME LlmTypeOK, Budget, NEW d \in Days
               PROVE  callCount[d] < Most /\ begun[d] < Most + unbooked[d]
    BY DEF OvershootBounded, Most
  <2>1. /\ d \in Nat /\ day \in Nat /\ callCount[d] \in Nat /\ begun[d] \in Nat /\ unbooked[d] \in Nat
        /\ Most \in Nat /\ 0 < Most
    BY InFlightBounded, LlmAssumption DEF LlmTypeOK, Days, Most
  <2>2. CASE d < day
    BY <2>2 DEF Budget
  <2>3. CASE d = day
    <3>1. callCount[d] + Cardinality(InFlight) < Most /\ begun[d] <= unbooked[d] + callCount[d] + Cardinality(Today)
      BY <2>3 DEF Budget
    <3> QED BY <2>1, <3>1, InFlightBounded
  <2>4. CASE d > day
    BY <2>1, <2>4 DEF Budget
  <2> QED BY <2>1, <2>2, <2>3, <2>4
<1> QED BY <1>1, LlmTypeInit, LlmTypeStep, BudgetInit, BudgetStep, PTL DEF LlmSpec

-----------------------------------------------------------------------------
(* The rows of entity deduplication.                                       *)

Txns == [open : BOOLEAN, chunk : TextChunks, names : Seq(Names), targets : Seq(Names),
         new : SUBSET Names, hits : [Names -> Nat]]

RowsTyped ==
    /\ mentionCount \in [Names -> Nat] /\ mentions \subseteq Names \X TextChunks
    /\ txn \in [Transactions -> Txns]

(* What a transaction has touched or is about to touch was found, or is its *)
(* own new row.                                                             *)
HitsResolved ==
    \A x \in Transactions, n \in Names :
        txn[x].hits[n] > 0 \/ (\E i \in 1..Len(txn[x].targets) : txn[x].targets[i] = n)
            => HasRow(n) \/ n \in txn[x].new

(* Two similar names that have a row, or will have one if nothing fails.    *)
ParallelNames ==
    \A p \in Alike : (\A n \in p : HasRow(n) \/ n \in NewElsewhere) => p \in parallel

DedupInv == RowsTyped /\ HitsResolved /\ ParallelNames

LEMMA AlikePairs ==
    \A p \in Alike : \E m, n \in Names : m # n /\ p = {m, n} /\ <<m, n>> \in Similar /\ <<n, m>> \in Similar
<1> SUFFICES ASSUME NEW p \in Alike
             PROVE  \E m, n \in Names :
                      m # n /\ p = {m, n} /\ <<m, n>> \in Similar /\ <<n, m>> \in Similar
  OBVIOUS
<1>1. PICK q \in Similar : <<q[2], q[1]>> \in Similar /\ p = {q[1], q[2]}
  BY DEF Alike
<1>2. q \in Names \X Names /\ q[1] # q[2]
  BY DedupAssumption
<1>3. q = <<q[1], q[2]>> /\ q[1] \in Names /\ q[2] \in Names
  BY <1>2
<1> QED BY <1>1, <1>2, <1>3

LEMMA NoTxnTyped == NoTxn \in Txns /\ NoTxn.new = {} /\ NoTxn.targets = <<>>
                    /\ \A n \in Names : NoTxn.hits[n] = 0
BY DedupAssumption DEF NoTxn, Txns

LEMMA BatchTyped == \A b \in Batch : b \in Seq(Names)
<1>1. ASSUME NEW b \in Names \X Names PROVE b \in Seq(Names)
  <2>1. b = <<b[1], b[2]>> /\ b[1] \in Names /\ b[2] \in Names
    OBVIOUS
  <2>2. <<b[1], b[2]>> \in Seq(Names)
    BY <2>1
  <2> QED BY <2>1, <2>2
<1>2. ASSUME NEW n \in Names PROVE <<n>> \in Seq(Names)
  OBVIOUS
<1>3. ASSUME NEW b \in Batch PROVE b \in Names \X Names \/ \E n \in Names : b = <<n>>
  BY DEF Batch
<1> QED BY <1>1, <1>2, <1>3

LEMMA DedupStart == DedupInit => DedupInv
<1> SUFFICES ASSUME DedupInit PROVE DedupInv
  OBVIOUS
<1>1. RowsTyped
  BY NoTxnTyped DEF DedupInit, RowsTyped
<1>2. HitsResolved
  BY NoTxnTyped DEF DedupInit, HitsResolved
<1>3. ParallelNames
  <2>1. \A n \in Names : ~HasRow(n) /\ n \notin NewElsewhere
    BY NoTxnTyped DEF DedupInit, HasRow, NewElsewhere
  <2>2. \A p \in Alike : \E n \in p : n \in Names
    BY AlikePairs
  <2> QED BY <2>1, <2>2 DEF ParallelNames
<1> QED BY <1>1, <1>2, <1>3 DEF DedupInv

(* Nothing new comes into sight.                                            *)
LEMMA ParallelKept ==
    ASSUME ParallelNames, parallel \subseteq parallel',
           \A n \in Names : HasRow(n)' \/ n \in NewElsewhere' => HasRow(n) \/ n \in NewElsewhere
    PROVE  ParallelNames'
<1>1. ASSUME NEW p \in Alike
      PROVE  p \subseteq Names
  <2>1. PICK a \in Names, b \in Names : p = {a, b}
    BY AlikePairs
  <2> QED BY <2>1
<1> QED BY <1>1 DEF ParallelNames

(* A transaction begins, or ends without a trace.                           *)
LEMMA TxnReplaced ==
    ASSUME DedupInv, NEW x \in Transactions, NEW t \in Txns, txn' = [txn EXCEPT ![x] = t],
           t.new = {}, t.targets = <<>>, \A n \in Names : t.hits[n] = 0,
           UNCHANGED <<mentionCount, mentions, parallel>>
    PROVE  DedupInv'
<1>a. RowsTyped /\ HitsResolved /\ ParallelNames
  BY DEF DedupInv
<1>1. /\ \A y \in Transactions \ {x} : txn'[y] = txn[y]
      /\ txn'[x] = t /\ txn' \in [Transactions -> Txns]
  BY <1>a DEF RowsTyped
<1>2. RowsTyped'
  BY <1>a, <1>1 DEF RowsTyped
<1>3. HitsResolved'
  <2> SUFFICES ASSUME NEW y \in Transactions, NEW n \in Names,
                      txn'[y].hits[n] > 0 \/ \E i \in 1..Len(txn'[y].targets) : txn'[y].targets[i] = n
               PROVE  HasRow(n)' \/ n \in txn'[y].new
    BY DEF HitsResolved
  <2>1. y # x
    BY <1>1
  <2> QED BY <1>a, <1>1, <2>1 DEF HitsResolved, HasRow
<1>4. ParallelNames'
  <2>1. NewElsewhere' \subseteq NewElsewhere
    BY <1>1 DEF NewElsewhere
  <2>2. \A n \in Names : HasRow(n)' = HasRow(n)
    BY DEF HasRow
  <2> QED BY <1>a, <2>1, <2>2, ParallelKept
<1> QED BY <1>2, <1>3, <1>4 DEF DedupInv

LEMMA ResolveStep ==
    ASSUME DedupInv, NEW x \in Transactions, Resolve(x)
    PROVE  DedupInv'
<1>a. RowsTyped /\ HitsResolved /\ ParallelNames
  BY DEF DedupInv
<1> DEFINE n == Head(txn[x].names)
<1>b. /\ txn[x] \in Txns /\ txn[x].names \in Seq(Names) /\ txn[x].names # <<>>
      /\ n \in Names /\ Tail(txn[x].names) \in Seq(Names)
      /\ txn[x].targets \in Seq(Names) /\ txn[x].new \in SUBSET Names
  <2>1. txn[x] \in Txns /\ txn[x].names # <<>>
    BY <1>a DEF RowsTyped, Resolve
  <2>2. txn[x].names \in Seq(Names) /\ txn[x].targets \in Seq(Names) /\ txn[x].new \in SUBSET Names
    BY <2>1 DEF Txns
  <2> QED BY <2>1, <2>2
<1>1. PICK m \in Resolved(n) :
         /\ txn' = [txn EXCEPT ![x].names = Tail(@), ![x].targets = Append(@, m),
                               ![x].new = IF HasRow(m) THEN @ ELSE @ \cup {m}]
         /\ parallel' = IF HasRow(m) THEN parallel ELSE parallel \cup {{m, k} : k \in NewElsewhere}
  BY DEF Resolve
<1>2. UNCHANGED <<mentionCount, mentions>>
  BY DEF Resolve
<1>3. m \in Names /\ (~HasRow(m) => m = n /\ SimilarRows(n) = {})
  BY <1>b DEF Resolved, SimilarRows
<1> HIDE DEF n
<1> DEFINE new == IF HasRow(m) THEN txn[x].new ELSE txn[x].new \cup {m}
           targets == Append(txn[x].targets, m)
           names == Tail(txn[x].names)
           resolved == [txn[x] EXCEPT !.names = names, !.targets = targets, !.new = new]
<1>4. /\ new \in SUBSET Names /\ txn[x].new \subseteq new
      /\ HasRow(m) \/ m \in new
      /\ targets \in Seq(Names)
      /\ \A i \in 1..Len(targets) : targets[i] = m \/ \E j \in 1..Len(txn[x].targets) : targets[i] = txn[x].targets[j]
  BY <1>b, <1>3
<1>5. /\ \A y \in Transactions \ {x} : txn'[y] = txn[y]
      /\ txn'[x].new = new /\ txn'[x].targets = targets /\ txn'[x].hits = txn[x].hits
      /\ txn' \in [Transactions -> Txns]
  <2>1. txn' = [txn EXCEPT ![x] = resolved]
    BY <1>1, <1>a, <1>b DEF RowsTyped, Txns
  <2>2. names \in Seq(Names)
    BY <1>b
  <2> HIDE DEF new, targets, names
  <2>3. resolved \in Txns
    <3>1. txn[x] \in Txns /\ new \in SUBSET Names /\ targets \in Seq(Names)
      BY <1>b, <1>4
    <3> QED BY <2>2, <3>1 DEF Txns
  <2>4. resolved.new = new /\ resolved.targets = targets /\ resolved.hits = txn[x].hits
    BY <1>b DEF Txns
  <2> HIDE DEF resolved
  <2> QED BY <1>a, <2>1, <2>3, <2>4 DEF RowsTyped
<1> HIDE DEF names, resolved
<1> HIDE DEF new, targets
<1>6. RowsTyped'
  BY <1>a, <1>2, <1>5 DEF RowsTyped
<1>7. \A k : HasRow(k)' = HasRow(k)
  BY <1>2 DEF HasRow
<1>8. HitsResolved'
  <2> SUFFICES ASSUME NEW y \in Transactions, NEW k \in Names,
                      txn'[y].hits[k] > 0 \/ \E i \in 1..Len(txn'[y].targets) : txn'[y].targets[i] = k
               PROVE  HasRow(k)' \/ k \in txn'[y].new
    BY DEF HitsResolved
  <2>1. CASE y # x
    BY <1>a, <1>5, <1>7, <2>1 DEF HitsResolved
  <2>2. CASE y = x /\ k = m
    BY <1>4, <1>5, <1>7, <2>2
  <2>3. CASE y = x /\ k # m
    <3>1. txn[x].hits[k] > 0 \/ \E j \in 1..Len(txn[x].targets) : txn[x].targets[j] = k
      <4>1. CASE txn'[y].hits[k] > 0
        BY <1>5, <2>3, <4>1
      <4>2. CASE \E i \in 1..Len(txn'[y].targets) : txn'[y].targets[i] = k
        <5>1. PICK i \in 1..Len(targets) : targets[i] = k
          BY <1>5, <2>3, <4>2
        <5> QED BY <1>4, <2>3, <5>1
      <4> QED BY <4>1, <4>2
    <3>2. HasRow(k) \/ k \in txn[x].new
      BY <1>a, <3>1 DEF HitsResolved
    <3>3. txn'[x].new = new /\ txn[x].new \subseteq new /\ HasRow(k)' = HasRow(k)
      BY <1>4, <1>5, <1>7
    <3> QED BY <2>3, <3>2, <3>3
  <2> QED BY <2>1, <2>2, <2>3
<1>9. ParallelNames'
  <2>1. NewElsewhere' \subseteq NewElsewhere \cup (IF HasRow(m) THEN {} ELSE {m})
    BY <1>5 DEF NewElsewhere, new
  <2>2. parallel \subseteq parallel'
    BY <1>1
  <2>3. CASE HasRow(m)
    BY <1>a, <1>7, <2>1, <2>2, <2>3, ParallelKept
  <2>4. CASE ~HasRow(m)
    <3> SUFFICES ASSUME NEW p \in Alike, \A k \in p : HasRow(k) \/ k \in NewElsewhere'
                 PROVE  p \in parallel'
      BY <1>7 DEF ParallelNames
    <3>1. CASE m \notin p
      BY <1>a, <2>1, <2>2, <3>1 DEF ParallelNames
    <3>2. CASE m \in p
      <4>1. PICK k \in Names : k # m /\ p = {m, k} /\ <<m, k>> \in Similar
        <5>1. PICK a \in Names, b \in Names :
                  a # b /\ p = {a, b} /\ <<a, b>> \in Similar /\ <<b, a>> \in Similar
          BY AlikePairs
        <5>2. CASE m = a
          BY <5>1, <5>2
        <5>3. CASE m = b
          BY <5>1, <5>3
        <5> QED BY <3>2, <5>1, <5>2, <5>3
      <4>2. ~HasRow(k)
        BY <1>3, <2>4, <4>1 DEF SimilarRows
      <4>3. k \in NewElsewhere
        BY <2>1, <4>1, <4>2
      <4> QED BY <1>1, <2>4, <4>1, <4>3
    <3> QED BY <3>1, <3>2
  <2> QED BY <2>3, <2>4
<1> QED BY <1>6, <1>8, <1>9 DEF DedupInv

LEMMA UpsertStep ==
    ASSUME DedupInv, NEW x \in Transactions, UpsertEntity(x)
    PROVE  DedupInv'
<1>a. RowsTyped /\ HitsResolved /\ ParallelNames
  BY DEF DedupInv
<1> DEFINE m == Head(txn[x].targets)
           targets == Tail(txn[x].targets)
           hits == [txn[x].hits EXCEPT ![m] = @ + 1]
<1>1. /\ txn[x] \in Txns /\ txn[x].targets \in Seq(Names) /\ txn[x].targets # <<>>
      /\ m \in Names /\ targets \in Seq(Names)
      /\ m = txn[x].targets[1] /\ 1 \in 1..Len(txn[x].targets)
      /\ \A i \in 1..Len(targets) : \E j \in 1..Len(txn[x].targets) : targets[i] = txn[x].targets[j]
      /\ txn[x].hits \in [Names -> Nat] /\ hits \in [Names -> Nat]
  <2>1. txn[x] \in Txns /\ txn[x].targets # <<>>
    BY <1>a DEF RowsTyped, UpsertEntity
  <2>2. txn[x].targets \in Seq(Names) /\ txn[x].hits \in [Names -> Nat]
    BY <2>1 DEF Txns
  <2>3. m \in Names /\ targets \in Seq(Names) /\ m = txn[x].targets[1] /\ 1 \in 1..Len(txn[x].targets)
    BY <2>1, <2>2
  <2>4. \A i \in 1..Len(targets) : \E j \in 1..Len(txn[x].targets) : targets[i] = txn[x].targets[j]
    <3> SUFFICES ASSUME NEW i \in 1..Len(targets)
                 PROVE  \E j \in 1..Len(txn[x].targets) : targets[i] = txn[x].targets[j]
      OBVIOUS
    <3>1. i + 1 \in 1..Len(txn[x].targets) /\ targets[i] = txn[x].targets[i + 1]
      BY <2>1, <2>2
    <3> QED BY <3>1
  <2>5. hits \in [Names -> Nat]
    BY <2>2, <2>3
  <2> QED BY <2>1, <2>2, <2>3, <2>4, <2>5
<1>2. UNCHANGED <<mentionCount, mentions, parallel>>
  BY DEF UpsertEntity
<1>3. /\ \A y \in Transactions \ {x} : txn'[y] = txn[y]
      /\ txn'[x].new = txn[x].new /\ txn'[x].targets = targets /\ txn'[x].hits = hits
      /\ txn' \in [Transactions -> Txns]
  <2>1. txn' = [txn EXCEPT ![x] = [txn[x] EXCEPT !.targets = targets, !.hits = hits]]
    BY <1>a, <1>1 DEF UpsertEntity, RowsTyped, Txns
  <2> HIDE DEF targets, hits, m
  <2>2. [txn[x] EXCEPT !.targets = targets, !.hits = hits] \in Txns
    BY <1>1 DEF Txns
  <2>3. /\ [txn[x] EXCEPT !.targets = targets, !.hits = hits].new = txn[x].new
        /\ [txn[x] EXCEPT !.targets = targets, !.hits = hits].targets = targets
        /\ [txn[x] EXCEPT !.targets = targets, !.hits = hits].hits = hits
    BY <1>1 DEF Txns
  <2> QED BY <1>a, <2>1, <2>2, <2>3 DEF RowsTyped
<1>4. \A k \in Names : hits[k] > 0 => k = m \/ txn[x].hits[k] > 0
  BY <1>1
<1> HIDE DEF targets, hits, m
<1>5. RowsTyped'
  BY <1>a, <1>2, <1>3 DEF RowsTyped
<1>6. \A k : HasRow(k)' = HasRow(k)
  BY <1>2 DEF HasRow
<1>7. HitsResolved'
  <2> SUFFICES ASSUME NEW y \in Transactions, NEW k \in Names,
                      txn'[y].hits[k] > 0 \/ \E i \in 1..Len(txn'[y].targets) : txn'[y].targets[i] = k
               PROVE  HasRow(k)' \/ k \in txn'[y].new
    BY DEF HitsResolved
  <2>1. CASE y # x
    BY <1>a, <1>3, <1>6, <2>1 DEF HitsResolved
  <2>2. CASE y = x
    <3>1. txn[x].hits[k] > 0 \/ \E j \in 1..Len(txn[x].targets) : txn[x].targets[j] = k
      <4>1. CASE txn'[y].hits[k] > 0
        BY <1>1, <1>3, <1>4, <2>2, <4>1
      <4>2. CASE \E i \in 1..Len(txn'[y].targets) : txn'[y].targets[i] = k
        <5>1. PICK i \in 1..Len(targets) : targets[i] = k
          BY <1>3, <2>2, <4>2
        <5> QED BY <1>1, <5>1
      <4> QED BY <4>1, <4>2
    <3>2. HasRow(k) \/ k \in txn[x].new
      BY <1>a, <3>1 DEF HitsResolved
    <3> QED BY <1>3, <1>6, <2>2, <3>2
  <2> QED BY <2>1, <2>2
<1>8. ParallelNames'
  <2>1. NewElsewhere' = NewElsewhere
    BY <1>3 DEF NewElsewhere
  <2> QED BY <1>a, <1>2, <1>6, <2>1, ParallelKept
<1> QED BY <1>5, <1>7, <1>8 DEF DedupInv

LEMMA CommitStep ==
    ASSUME DedupInv, NEW x \in Transactions, CommitBatch(x)
    PROVE  DedupInv'
<1>a. RowsTyped /\ HitsResolved /\ ParallelNames
  BY DEF DedupInv
<1>1. /\ mentionCount' = [n \in Names |-> CountAfter(n, txn[x].hits[n])]
      /\ mentions' = mentions \cup ({n \in Names : txn[x].hits[n] > 0} \X {txn[x].chunk})
      /\ txn' = [txn EXCEPT ![x] = NoTxn] /\ parallel' = parallel
  BY DEF CommitBatch
<1>2. txn[x] \in Txns /\ txn[x].hits \in [Names -> Nat] /\ txn[x].chunk \in TextChunks
  BY <1>a DEF RowsTyped, Txns
<1>3. /\ \A y \in Transactions \ {x} : txn'[y] = txn[y]
      /\ txn'[x] = NoTxn /\ txn' \in [Transactions -> Txns]
  BY <1>a, <1>1, NoTxnTyped DEF RowsTyped
<1>4. \A n \in Names : /\ mentionCount[n] \in Nat /\ txn[x].hits[n] \in Nat
                       /\ mentionCount'[n] = mentionCount[n] + txn[x].hits[n]
  BY <1>a, <1>1, <1>2 DEF RowsTyped, CountAfter
<1>5. RowsTyped'
  <2>1. mentionCount' \in [Names -> Nat]
    BY <1>1, <1>4 DEF CountAfter
  <2> QED BY <1>a, <1>1, <1>2, <1>3, <2>1 DEF RowsTyped
<1>6. \A n \in Names : /\ HasRow(n) => HasRow(n)'
                       /\ HasRow(n)' => HasRow(n) \/ txn[x].hits[n] > 0
  BY <1>4 DEF HasRow
<1>7. HitsResolved'
  <2> SUFFICES ASSUME NEW y \in Transactions, NEW n \in Names,
                      txn'[y].hits[n] > 0 \/ \E i \in 1..Len(txn'[y].targets) : txn'[y].targets[i] = n
               PROVE  HasRow(n)' \/ n \in txn'[y].new
    BY DEF HitsResolved
  <2>1. y # x
    BY <1>3, NoTxnTyped
  <2> QED BY <1>a, <1>3, <1>6, <2>1 DEF HitsResolved
<1>8. ParallelNames'
  <2>1. NewElsewhere' \subseteq NewElsewhere /\ txn[x].new \subseteq NewElsewhere
    BY <1>3, NoTxnTyped DEF NewElsewhere
  <2>2. \A n \in Names : txn[x].hits[n] > 0 => HasRow(n) \/ n \in txn[x].new
    BY <1>a DEF HitsResolved
  <2> QED BY <1>a, <1>1, <1>6, <2>1, <2>2, ParallelKept
<1> QED BY <1>5, <1>7, <1>8 DEF DedupInv

LEMMA DedupStep == DedupInv /\ [DedupNext]_dedupVars => DedupInv'
<1> SUFFICES ASSUME DedupInv, [DedupNext]_dedupVars PROVE DedupInv'
  OBVIOUS
<1>1. ASSUME NEW x \in Transactions, NEW c \in TextChunks, NEW b \in Batch, BeginBatch(x, c, b)
      PROVE  DedupInv'
  <2> DEFINE t == [NoTxn EXCEPT !.open = TRUE, !.chunk = c, !.names = b]
  <2>1. t \in Txns /\ t.new = {} /\ t.targets = <<>> /\ \A n \in Names : t.hits[n] = 0
    BY NoTxnTyped, BatchTyped DEF Txns
  <2>2. txn' = [txn EXCEPT ![x] = t] /\ UNCHANGED <<mentionCount, mentions, parallel>>
    BY <1>1 DEF BeginBatch
  <2> HIDE DEF t
  <2> QED BY <2>1, <2>2, TxnReplaced
<1>2. ASSUME NEW x \in Transactions, AbortBatch(x) PROVE DedupInv'
  BY <1>2, NoTxnTyped, TxnReplaced DEF AbortBatch
<1>4. ASSUME NEW c \in TextChunks, DeleteChunk(c) PROVE DedupInv'
  <2>1. mentions' \subseteq mentions /\ UNCHANGED <<mentionCount, txn, parallel>>
    BY <1>4 DEF DeleteChunk
  <2>2. RowsTyped' /\ HitsResolved'
    BY <2>1 DEF DedupInv, RowsTyped, HitsResolved, HasRow
  <2>3. ParallelNames'
    BY <2>1 DEF DedupInv, ParallelNames, HasRow, NewElsewhere
  <2> QED BY <2>2, <2>3 DEF DedupInv
<1>3. CASE UNCHANGED dedupVars
  <2>1. RowsTyped' /\ HitsResolved'
    BY <1>3 DEF dedupVars, DedupInv, RowsTyped, HitsResolved, HasRow
  <2>2. ParallelNames'
    BY <1>3 DEF dedupVars, DedupInv, ParallelNames, HasRow, NewElsewhere
  <2> QED BY <2>1, <2>2 DEF DedupInv
<1> QED BY <1>1, <1>2, <1>3, <1>4, ResolveStep, UpsertStep, CommitStep DEF DedupNext

(* Two similar names have two rows only if one chunk, or two transactions   *)
(* that overlapped, met both when neither had a row                         *)
(* (_resolve_fuzzy_matches, _upsert_entity).                                *)
THEOREM DuplicatesAreExplained == DedupSpec => []DuplicatesExplained
<1>1. DedupInv => DuplicatesExplained
  BY DEF DedupInv, ParallelNames, DuplicatesExplained
<1> QED BY <1>1, DedupStart, DedupStep, PTL DEF DedupSpec

MentionsOf(n) == {c \in TextChunks : <<n, c>> \in mentions}

LEMMA MentionSizes ==
    ASSUME NEW n
    PROVE  /\ IsFiniteSet(MentionsOf(n))
           /\ Cardinality(MentionsOf(n)) \in Nat /\ Cardinality(MentionsOf(n)') \in Nat
<1>1. MentionsOf(n) \subseteq TextChunks /\ MentionsOf(n)' \subseteq TextChunks
  BY DEF MentionsOf
<1> QED BY <1>1, DedupAssumption, FS_Subset, FS_CardinalityType

UnlinkedTyped == unlinked \in [Names -> Nat]

LEMMA MentionsStep ==
    DedupInv /\ UnlinkedTyped /\ MentionsCounted /\ [DedupNext]_dedupVars
        => UnlinkedTyped' /\ MentionsCounted'
<1> SUFFICES ASSUME DedupInv, UnlinkedTyped, MentionsCounted, [DedupNext]_dedupVars
             PROVE  UnlinkedTyped' /\ MentionsCounted'
  OBVIOUS
<1>0. UnlinkedTyped'
  <2>1. CASE UNCHANGED unlinked
    BY <2>1 DEF UnlinkedTyped
  <2>2. ASSUME NEW c \in TextChunks, DeleteChunk(c)
        PROVE  UnlinkedTyped'
    <3>1. \A k \in Names : unlinked[k] \in Nat /\ unlinked[k] + 1 \in Nat
      BY DEF UnlinkedTyped
    <3> QED BY <2>2, <3>1 DEF UnlinkedTyped, DeleteChunk
  <2> QED BY <2>1, <2>2 DEF DedupNext, BeginBatch, Resolve, UpsertEntity, CommitBatch, AbortBatch,
             dedupVars
<1> SUFFICES ASSUME NEW n \in Names
             PROVE  /\ Cardinality(MentionsOf(n)') + unlinked'[n] <= mentionCount'[n]
                    /\ n \notin again' => Cardinality(MentionsOf(n)') + unlinked'[n] = mentionCount'[n]
  BY <1>0 DEF MentionsCounted, MentionsOf
<1>a. /\ RowsTyped /\ mentionCount[n] \in Nat /\ unlinked[n] \in Nat
      /\ Cardinality(MentionsOf(n)) + unlinked[n] <= mentionCount[n]
      /\ n \notin again => Cardinality(MentionsOf(n)) + unlinked[n] = mentionCount[n]
  BY DEF DedupInv, RowsTyped, UnlinkedTyped, MentionsCounted, MentionsOf
<1>1. CASE UNCHANGED <<mentionCount, mentions, again, unlinked>>
  BY <1>1, <1>a DEF MentionsOf
<1>2. ASSUME NEW x \in Transactions, CommitBatch(x)
      PROVE  /\ Cardinality(MentionsOf(n)') + unlinked'[n] <= mentionCount'[n]
             /\ n \notin again' => Cardinality(MentionsOf(n)') + unlinked'[n] = mentionCount'[n]
  <2> DEFINE hits == txn[x].hits[n]
             c == txn[x].chunk
  <2>1. hits \in Nat /\ c \in TextChunks
    BY <1>a DEF RowsTyped, Txns
  <2>2. mentionCount'[n] = mentionCount[n] + hits /\ unlinked' = unlinked
    BY <1>2 DEF CommitBatch, CountAfter
  <2>3. /\ mentions' = mentions \cup ({k \in Names : txn[x].hits[k] > 0} \X {c})
        /\ again' = again \cup {k \in Names : txn[x].hits[k] > 0
                                   /\ (txn[x].hits[k] > 1 \/ <<k, c>> \in mentions)}
    BY <1>2 DEF CommitBatch
  <2>4. MentionsOf(n)' = MentionsOf(n) \cup (IF hits > 0 THEN {c} ELSE {})
    BY <2>1, <2>3 DEF MentionsOf
  <2>5. n \notin again' => n \notin again /\ hits <= 1 /\ (hits > 0 => c \notin MentionsOf(n))
    <3>1. n \notin again' => n \notin again /\ ~(hits > 0 /\ (hits > 1 \/ <<n, c>> \in mentions))
      BY <2>3
    <3>2. hits <= 1 \/ (hits > 1 /\ hits > 0)
      BY <2>1
    <3> QED BY <3>1, <3>2 DEF MentionsOf
  <2> HIDE DEF hits, c
  <2>6. CASE ~(hits > 0)
    <3>1. hits = 0 /\ MentionsOf(n)' = MentionsOf(n)
      BY <2>1, <2>4, <2>6
    <3> QED BY <1>a, <2>2, <2>5, <3>1
  <2>7. CASE hits > 0
    <3>1. MentionsOf(n)' = MentionsOf(n) \cup {c}
      BY <2>4, <2>7
    <3>2. CASE c \in MentionsOf(n)
      <4>1. MentionsOf(n)' = MentionsOf(n)
        BY <3>1, <3>2
      <4>2. Cardinality(MentionsOf(n)') + unlinked'[n] <= mentionCount'[n]
        BY <1>a, <2>1, <2>2, <4>1, MentionSizes
      <4> QED BY <2>5, <2>7, <3>2, <4>2
    <3>3. CASE c \notin MentionsOf(n)
      <4>1. Cardinality(MentionsOf(n)') = Cardinality(MentionsOf(n)) + 1
        BY <3>1, <3>3, MentionSizes, FS_AddElement
      <4>2. n \notin again' => hits = 1
        BY <2>1, <2>5, <2>7
      <4> QED BY <1>a, <2>1, <2>2, <2>5, <2>7, <4>1, <4>2, MentionSizes
    <3> QED BY <3>2, <3>3
  <2> QED BY <2>6, <2>7
<1>3. ASSUME NEW c \in TextChunks, DeleteChunk(c)
      PROVE  /\ Cardinality(MentionsOf(n)') + unlinked'[n] <= mentionCount'[n]
             /\ n \notin again' => Cardinality(MentionsOf(n)') + unlinked'[n] = mentionCount'[n]
  <2>1. /\ mentionCount' = mentionCount /\ again' = again
        /\ mentions' = mentions \ (Names \X {c})
        /\ unlinked'[n] = IF <<n, c>> \in mentions THEN unlinked[n] + 1 ELSE unlinked[n]
    BY <1>3 DEF DeleteChunk
  <2>2. MentionsOf(n)' = MentionsOf(n) \ {c}
    BY <2>1 DEF MentionsOf
  <2>3. CASE <<n, c>> \in mentions
    <3>1. c \in MentionsOf(n)
      BY <2>3 DEF MentionsOf
    <3>2. Cardinality(MentionsOf(n)') = Cardinality(MentionsOf(n)) - 1
      <4>1. Cardinality(MentionsOf(n) \ {c}) = Cardinality(MentionsOf(n)) - 1
        BY <3>1, MentionSizes, FS_RemoveElement
      <4> QED BY <2>2, <4>1
    <3>3. unlinked'[n] = unlinked[n] + 1
      BY <2>1, <2>3
    <3>4. Cardinality(MentionsOf(n)') + unlinked'[n] = Cardinality(MentionsOf(n)) + unlinked[n]
      BY <1>a, <3>2, <3>3, MentionSizes
    <3> QED BY <1>a, <2>1, <3>4
  <2>4. CASE <<n, c>> \notin mentions
    <3>1. c \notin MentionsOf(n)
      BY <2>4 DEF MentionsOf
    <3>2. MentionsOf(n)' = MentionsOf(n) /\ unlinked'[n] = unlinked[n]
      BY <2>1, <2>2, <2>4, <3>1
    <3> QED BY <1>a, <2>1, <3>2
  <2> QED BY <2>3, <2>4
<1>4. \/ UNCHANGED <<mentionCount, mentions, again, unlinked>>
      \/ \E x \in Transactions : CommitBatch(x)
      \/ \E c \in TextChunks : DeleteChunk(c)
  BY DEF DedupNext, BeginBatch, Resolve, UpsertEntity, AbortBatch, dedupVars
<1> QED BY <1>1, <1>2, <1>3, <1>4

(* The count of an entity is never behind its mentions, those that went     *)
(* with a deleted chunk included, and ahead of them only if a chunk that    *)
(* mentions it was extracted again (_upsert_entity, _create_mention).       *)
THEOREM MentionsAreCounted == DedupSpec => []MentionsCounted
<1>1. DedupInit => UnlinkedTyped /\ MentionsCounted
  <2> SUFFICES ASSUME DedupInit
               PROVE  UnlinkedTyped /\ MentionsCounted
    OBVIOUS
  <2>1. UnlinkedTyped
    BY DEF DedupInit, UnlinkedTyped
  <2>2. ASSUME NEW n \in Names
        PROVE  Cardinality(MentionsOf(n)) = 0 /\ mentionCount[n] = 0 /\ unlinked[n] = 0
    <3>1. MentionsOf(n) = {}
      BY DEF DedupInit, MentionsOf
    <3> QED BY <3>1, FS_EmptySet DEF DedupInit
  <2> QED BY <2>1, <2>2 DEF MentionsCounted, MentionsOf
<1> QED BY <1>1, DedupStart, DedupStep, MentionsStep, PTL DEF DedupSpec
=============================================================================
