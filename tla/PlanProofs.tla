----------------------------- MODULE PlanProofs -----------------------------
(***************************************************************************)
(* Proofs about Plan and Allocation, for any profile, budgets, requests,   *)
(* seeds and number of rotations, and anything the random source draws.    *)
(* The sums are folds, whose facts are proved first, by induction.         *)
(***************************************************************************)
EXTENDS Plan, FiniteSetTheorems, TLAPS

\* While it samples, what is left is enough for the files still without a size,
\* and nothing of the budget is lost; reconcileSizes finds the excess in the
\* last file, which has it above the minimum.
Dividing ==
    /\ step # "idle" => count >= 1
    /\ \A i \in 1..Len(sizes) : sizes[i] >= MinTier
    /\ step = "sample" =>
         /\ count >= 2
         /\ Len(sizes) < count
         /\ remaining >= (count - Len(sizes)) * MinTier
         /\ SumOf(sizes) + remaining = total
    /\ step = "reconcile" =>
         /\ count >= 2
         /\ Len(sizes) = count
         /\ at = count
         /\ over >= 1
         /\ sizes[count] >= over + MinTier
         /\ SumOf(sizes) = total + over

\* What holds of an allocation at every step.
AllocationInv == AllocationTypeOK /\ Dividing /\ AllocationIsExact

\* The manifest is a finite function, and none of its files, nor what becomes of
\* one, is smaller than the smallest tier.
Recording ==
    /\ IsFiniteSet(DOMAIN files)
    /\ files = [p \in DOMAIN files |-> files[p]]
    /\ \A p \in DOMAIN files : files[p].size >= MinTier
    /\ \A p \in DOMAIN mutations : mutations[p].size >= MinTier
    /\ \A i \in 1..Len(creates) : creates[i].size >= MinTier

\* Plans are made one at a time, and the bound on rotations is looked at first.
Planning ==
    /\ pc = "allocate" <=> step # "idle"
    /\ pc \in {"none", "idle"} => deletes = {} /\ DOMAIN mutations = {} /\ creates = <<>>
    /\ seed # 0 => rotations < MaxRotations

\* When the churn is to be steady.
Churn == strategy = "balanced" /\ deletes # {} /\ wanted <= Cardinality(deletes)

\* A steady plan divides what it frees among the files that were asked for.
Allotting ==
    pc = "allocate" /\ Churn =>
        /\ count = wanted
        /\ total = SumOf([p \in deletes |-> files[p].size])

\* TypeOK, without the part about the allocation.
PlanTyped ==
    /\ DOMAIN files \subseteq Path /\ Partial(files, Records)
    /\ pc \in {"none", "allocate", "planned", "idle"}
    /\ strategy \in Strategies
    /\ seed \in Seeds \cup {0}
    /\ wanted \in Nat
    /\ deletes \subseteq DOMAIN files
    /\ DOMAIN mutations \subseteq DOMAIN files \ deletes /\ Partial(mutations, Records)
    /\ creates \in Seq([path : Path, size : Nat, mtime : Int])
    /\ rotations \in 0..MaxRotations

PlanInv == PlanTyped /\ Recording /\ Planning /\ Allotting

IInv == AllocationInv /\ PlanInv /\ MutationsShow /\ BalancedIsSteady

-----------------------------------------------------------------------------
(* Sums.  SumOf is a fold, unfolded here one element at a time; an         *)
(* induction is over the set of the numbers that a statement holds of.     *)

\* Every natural number is in a set that holds 0 and, with a number, the next.
LEMMA NatsFrom0 ==
  ASSUME NEW G, 0 \in G, \A n \in Nat : n \in G => n + 1 \in G
  PROVE  Nat \subseteq G
<1> SUFFICES ASSUME Nat \ G # {} PROVE FALSE
  OBVIOUS
<1>1. \E x \in Nat \ G : \A y \in Nat \ G : ~ (<<y, x>> \in OpToRel(<, Nat))
  BY NatLessThanWellFounded, WFMin, Nat \ G \subseteq Nat
<1>2. PICK x \in Nat \ G : \A y \in Nat \ G : ~ (y < x)
  BY <1>1 DEF OpToRel
<1>3. x # 0 /\ x - 1 \in Nat /\ x - 1 < x
  OBVIOUS
<1>4. x - 1 \in G
  BY <1>2, <1>3
<1> QED
  BY <1>3, <1>4

Total(f, S) == MapThenSumSet(LAMBDA i : f[i], S)
Some(S) == CHOOSE x \in S : TRUE
\* One unfolding of the fold, over subsets of S, and the fold itself.
Unfolded(f, D, g) == [s \in D |-> IF s = {} THEN 0 ELSE f[Some(s)] + g[s \ {Some(s)}]]
Fold(f, S) == CHOOSE g : g = Unfolded(f, SUBSET S, g)

LEMMA TotalIsFold == ASSUME NEW f, NEW S PROVE Total(f, S) = Fold(f, S)[S]
  BY DEF Total, MapThenSumSet, MapThenFoldSet, Fold, Unfolded, Some

LEMMA SomeIn == ASSUME NEW S, S # {} PROVE Some(S) \in S
  BY DEF Some

\* The subsets of S with at most n elements.
UpTo(S, n) == {s \in SUBSET S : Cardinality(s) <= n}

\* What is left of a set of at most n + 1 elements has at most n.
LEMMA Rest ==
  ASSUME NEW S, IsFiniteSet(S), NEW s \in SUBSET S, s # {}
  PROVE  /\ s \ {Some(s)} \in SUBSET S
         /\ Some(s) \in s
         /\ IsFiniteSet(s)
         /\ Cardinality(s) \in Nat \ {0}
         /\ IsFiniteSet(s \ {Some(s)})
         /\ Cardinality(s \ {Some(s)}) = Cardinality(s) - 1
<1>1. IsFiniteSet(s)
  BY FS_Subset
<1>2. Some(s) \in s
  BY SomeIn
<1>3. Cardinality(s) \in Nat /\ Cardinality(s) # 0
  BY <1>1, FS_CardinalityType, FS_EmptySet
<1> QED
  BY <1>1, <1>2, <1>3, FS_RemoveElement

\* The fold exists on the subsets of any size, hence on all of them.
LEMMA FoldExists ==
  ASSUME NEW f, NEW S, IsFiniteSet(S)
  PROVE  Fold(f, S) = Unfolded(f, SUBSET S, Fold(f, S))
<1> DEFINE G == {n \in Nat : \E g : g = Unfolded(f, UpTo(S, n), g)}
<1>1. 0 \in G
  <2> DEFINE g == [s \in UpTo(S, 0) |-> 0]
  <2>1. \A s \in UpTo(S, 0) : s = {}
    BY FS_Subset, FS_EmptySet, FS_CardinalityType DEF UpTo
  <2>2. g = Unfolded(f, UpTo(S, 0), g)
    BY <2>1 DEF Unfolded
  <2> QED
    BY <2>2
<1>2. ASSUME NEW n \in Nat, n \in G PROVE n + 1 \in G
  <2>1. PICK g : g = Unfolded(f, UpTo(S, n), g)
    BY <1>2
  <2> DEFINE h == Unfolded(f, UpTo(S, n + 1), g)
  <2>2. \A s \in UpTo(S, n) : s \in UpTo(S, n + 1) /\ g[s] = h[s]
    <3> SUFFICES ASSUME NEW s \in UpTo(S, n) PROVE s \in UpTo(S, n + 1) /\ g[s] = h[s]
      OBVIOUS
    <3>1. Cardinality(s) \in Nat
      BY FS_Subset, FS_CardinalityType DEF UpTo
    <3>2. s \in UpTo(S, n + 1)
      BY <3>1 DEF UpTo
    <3>3. g[s] = IF s = {} THEN 0 ELSE f[Some(s)] + g[s \ {Some(s)}]
      BY <2>1 DEF Unfolded
    <3> QED
      BY <3>2, <3>3 DEF Unfolded
  <2>3. \A s \in UpTo(S, n + 1) : s # {} => s \ {Some(s)} \in UpTo(S, n)
    BY Rest DEF UpTo
  <2>4. \A s \in UpTo(S, n + 1) : s # {} => g[s \ {Some(s)}] = h[s \ {Some(s)}]
    BY <2>2, <2>3
  <2>5. h = Unfolded(f, UpTo(S, n + 1), h)
    BY <2>4 DEF Unfolded
  <2> QED
    BY <2>5
<1>3. Cardinality(S) \in G
  BY <1>1, <1>2, NatsFrom0, FS_CardinalityType
<1>4. UpTo(S, Cardinality(S)) = SUBSET S
  BY FS_Subset DEF UpTo
<1>5. \E g : g = Unfolded(f, SUBSET S, g)
  BY <1>3, <1>4
<1> QED
  BY <1>5 DEF Fold

\* The fold over a set agrees, on the subsets of a smaller one, with the fold over that.
LEMMA FoldsAgree ==
  ASSUME NEW f, NEW S, IsFiniteSet(S), NEW T \in SUBSET S
  PROVE  Fold(f, S)[T] = Total(f, T)
<1> DEFINE G == {n \in Nat : \A s \in SUBSET T :
                    Cardinality(s) = n => Fold(f, S)[s] = Fold(f, T)[s]}
<1>0. IsFiniteSet(T)
  BY FS_Subset
<1>1. \A s \in SUBSET T :
        /\ Fold(f, S)[s] = IF s = {} THEN 0 ELSE f[Some(s)] + Fold(f, S)[s \ {Some(s)}]
        /\ Fold(f, T)[s] = IF s = {} THEN 0 ELSE f[Some(s)] + Fold(f, T)[s \ {Some(s)}]
  <2>1. Fold(f, S) = Unfolded(f, SUBSET S, Fold(f, S))
    BY FoldExists
  <2>2. Fold(f, T) = Unfolded(f, SUBSET T, Fold(f, T))
    BY <1>0, FoldExists
  <2> QED
    BY <2>1, <2>2 DEF Unfolded
<1>2. 0 \in G
  BY <1>0, <1>1, FS_Subset, FS_EmptySet
<1>3. ASSUME NEW n \in Nat, n \in G PROVE n + 1 \in G
  <2> SUFFICES ASSUME NEW s \in SUBSET T, Cardinality(s) = n + 1
               PROVE  Fold(f, S)[s] = Fold(f, T)[s]
    OBVIOUS
  <2>1. s # {}
    BY FS_EmptySet
  <2>2. s \ {Some(s)} \in SUBSET T /\ Cardinality(s \ {Some(s)}) = n
    BY <1>0, <2>1, Rest
  <2> QED
    BY <1>1, <1>3, <2>1, <2>2
<1>4. Cardinality(T) \in G
  BY <1>0, <1>2, <1>3, NatsFrom0, FS_CardinalityType
<1> QED
  BY <1>4, TotalIsFold

LEMMA TotalEmpty == ASSUME NEW f PROVE Total(f, {}) = 0
<1>1. Fold(f, {}) = Unfolded(f, SUBSET {}, Fold(f, {}))
  BY FoldExists, FS_EmptySet
<1> QED
  BY <1>1, TotalIsFold DEF Unfolded

LEMMA TotalSome ==
  ASSUME NEW f, NEW S, IsFiniteSet(S), S # {}
  PROVE  Total(f, S) = f[Some(S)] + Total(f, S \ {Some(S)})
<1>1. Fold(f, S) = Unfolded(f, SUBSET S, Fold(f, S))
  BY FoldExists
<1>2. Fold(f, S)[S] = f[Some(S)] + Fold(f, S)[S \ {Some(S)}]
  BY <1>1 DEF Unfolded
<1> QED
  BY <1>2, FoldsAgree, TotalIsFold

\* A sum of numbers that are at least m is a number, and at least as many times m.
LEMMA TotalBound ==
  ASSUME NEW S, IsFiniteSet(S), NEW m \in Nat, NEW f, \A x \in S : f[x] \in Nat /\ f[x] >= m
  PROVE  Total(f, S) \in Nat /\ Total(f, S) >= Cardinality(S) * m
<1> DEFINE G == {n \in Nat : \A s \in SUBSET S :
                    Cardinality(s) = n => Total(f, s) \in Nat /\ Total(f, s) >= n * m}
<1>1. 0 \in G
  <2>1. \A s \in SUBSET S : Cardinality(s) = 0 => s = {}
    BY FS_Subset, FS_EmptySet
  <2>2. Total(f, {}) \in Nat /\ Total(f, {}) >= 0 * m
    BY TotalEmpty
  <2> QED
    BY <2>1, <2>2
<1>2. ASSUME NEW n \in Nat, n \in G PROVE n + 1 \in G
  <2> SUFFICES ASSUME NEW s \in SUBSET S, Cardinality(s) = n + 1
               PROVE  Total(f, s) \in Nat /\ Total(f, s) >= (n + 1) * m
    OBVIOUS
  <2> DEFINE rest == s \ {Some(s)}
  <2>1. s # {} /\ IsFiniteSet(s)
    BY FS_EmptySet, FS_Subset
  <2>2. rest \in SUBSET S /\ Cardinality(rest) = n /\ Some(s) \in S
    <3>1. rest \in SUBSET S /\ Some(s) \in s /\ Cardinality(rest) = Cardinality(s) - 1
      BY <2>1, Rest
    <3> QED
      BY <3>1
  <2>3. Total(f, rest) \in Nat /\ Total(f, rest) >= n * m
    BY <1>2, <2>2
  <2>4. Total(f, s) = f[Some(s)] + Total(f, rest)
    BY <2>1, TotalSome
  <2>5. (n + 1) * m = n * m + m /\ n * m \in Int
    OBVIOUS
  <2>6. f[Some(s)] \in Nat /\ f[Some(s)] >= m
    BY <2>2
  <2> HIDE DEF rest
  <2> QED
    BY <2>3, <2>4, <2>5, <2>6
<1>3. Cardinality(S) \in G
  BY <1>1, <1>2, NatsFrom0, FS_CardinalityType
<1> QED
  BY <1>3

\* Equal summands have equal sums.
LEMMA TotalsEqual ==
  ASSUME NEW S, IsFiniteSet(S), NEW f, NEW g, \A x \in S : f[x] = g[x]
  PROVE  Total(f, S) = Total(g, S)
<1> DEFINE G == {n \in Nat : \A s \in SUBSET S : Cardinality(s) = n => Total(f, s) = Total(g, s)}
<1>1. 0 \in G
  <2>1. \A s \in SUBSET S : Cardinality(s) = 0 => s = {}
    BY FS_Subset, FS_EmptySet
  <2> QED
    BY <2>1, TotalEmpty
<1>2. ASSUME NEW n \in Nat, n \in G PROVE n + 1 \in G
  <2> SUFFICES ASSUME NEW s \in SUBSET S, Cardinality(s) = n + 1 PROVE Total(f, s) = Total(g, s)
    OBVIOUS
  <2>1. s # {} /\ IsFiniteSet(s)
    BY FS_EmptySet, FS_Subset
  <2>2. s \ {Some(s)} \in SUBSET S /\ Cardinality(s \ {Some(s)}) = n /\ Some(s) \in S
    <3>1. /\ s \ {Some(s)} \in SUBSET S
          /\ Some(s) \in s
          /\ Cardinality(s \ {Some(s)}) = Cardinality(s) - 1
      BY <2>1, Rest
    <3> QED
      BY <3>1
  <2>3. Total(f, s \ {Some(s)}) = Total(g, s \ {Some(s)})
    BY <1>2, <2>2
  <2> QED
    BY <2>1, <2>2, <2>3, TotalSome
<1>3. Cardinality(S) \in G
  BY <1>1, <1>2, NatsFrom0, FS_CardinalityType
<1> QED
  BY <1>3

\* The sum does not depend on which element is taken first.
LEMMA TotalAny ==
  ASSUME NEW S, IsFiniteSet(S), NEW f, \A y \in S : f[y] \in Nat, NEW x \in S
  PROVE  Total(f, S) = f[x] + Total(f, S \ {x})
<1> DEFINE Right(s) == \A y \in s : Total(f, s) = f[y] + Total(f, s \ {y})
           G == {n \in Nat : \A s \in SUBSET S : Cardinality(s) = n => Right(s)}
<1>0. \A s \in SUBSET S : IsFiniteSet(s) /\ Total(f, s) \in Nat
  BY FS_Subset, TotalBound, 0 \in Nat
<1>1. 0 \in G
  <2>1. \A s \in SUBSET S : Cardinality(s) = 0 => s = {}
    BY FS_Subset, FS_EmptySet
  <2> QED
    BY <2>1
<1>2. ASSUME NEW n \in Nat, n \in G PROVE n + 1 \in G
  <2> SUFFICES ASSUME NEW s \in SUBSET S, Cardinality(s) = n + 1, NEW y \in s
               PROVE  Total(f, s) = f[y] + Total(f, s \ {y})
    OBVIOUS
  <2> DEFINE c == Some(s)
  <2>1. IsFiniteSet(s) /\ c \in s
    BY <1>0, SomeIn
  <2>2. Total(f, s) = f[c] + Total(f, s \ {c})
    BY <2>1, TotalSome
  <2>3. CASE y = c
    BY <2>2, <2>3
  <2>4. CASE y # c
    <3>1. /\ s \ {c} \in SUBSET S /\ Cardinality(s \ {c}) = n /\ y \in s \ {c}
          /\ s \ {y} \in SUBSET S /\ Cardinality(s \ {y}) = n /\ c \in s \ {y}
      <4> HIDE DEF c
      <4>1. \A z \in s : Cardinality(s \ {z}) = Cardinality(s) - 1
        BY <2>1, FS_RemoveElement
      <4> QED
        BY <2>1, <2>4, <4>1
    <3> HIDE DEF c
    <3>2. Total(f, s \ {c}) = f[y] + Total(f, (s \ {c}) \ {y})
      BY <1>2, <3>1
    <3>3. Total(f, s \ {y}) = f[c] + Total(f, (s \ {y}) \ {c})
      BY <1>2, <3>1
    <3>4. (s \ {c}) \ {y} = (s \ {y}) \ {c} /\ (s \ {y}) \ {c} \in SUBSET S
      OBVIOUS
    <3>5. f[y] \in Nat /\ f[c] \in Nat /\ Total(f, (s \ {y}) \ {c}) \in Nat
      BY <1>0, <2>1, <3>4
    <3> QED
      BY <2>2, <3>2, <3>3, <3>4, <3>5
  <2> QED
    BY <2>3, <2>4
<1>3. Cardinality(S) \in G
  BY <1>1, <1>2, NatsFrom0, FS_CardinalityType
<1> QED
  BY <1>3

\* A sum of numbers is a number.
LEMMA TotalNat ==
  ASSUME NEW S, IsFiniteSet(S), NEW f, \A x \in S : f[x] \in Nat
  PROVE  Total(f, S) \in Nat
<1>1. \A x \in S : f[x] \in Nat /\ f[x] >= 0
  OBVIOUS
<1> QED
  BY <1>1, TotalBound, 0 \in Nat

LEMMA SumIsTotal == ASSUME NEW f PROVE SumOf(f) = Total(f, DOMAIN f)
  BY DEF SumOf, Total

LEMMA SeqDomain == ASSUME NEW s \in Seq(Nat)
                   PROVE  DOMAIN s = 1..Len(s) /\ IsFiniteSet(1..Len(s)) /\ \A i \in 1..Len(s) : s[i] \in Nat
<1>1. Len(s) \in Nat
  OBVIOUS
<1>2. IsFiniteSet(1..Len(s))
  BY <1>1, FS_Interval
<1> QED
  BY <1>2

\* The sum of a sequence of numbers is a number.
LEMMA SumNat == ASSUME NEW s \in Seq(Nat) PROVE SumOf(s) \in Nat
<1>1. Total(s, 1..Len(s)) \in Nat
  BY SeqDomain, TotalNat
<1> QED
  BY <1>1, SumIsTotal, SeqDomain

\* Append adds its element to the sum.
LEMMA SumAppend ==
  ASSUME NEW s \in Seq(Nat), NEW x \in Nat
  PROVE  SumOf(Append(s, x)) = SumOf(s) + x
<1> DEFINE t == Append(s, x)
           n == Len(s) + 1
<1>1. t \in Seq(Nat) /\ Len(t) = n /\ n \in Nat \ {0} /\ t[n] = x /\ \A i \in 1..Len(s) : t[i] = s[i]
  OBVIOUS
<1>2. (1..n) \ {n} = 1..Len(s)
  BY <1>1
<1>3. Total(t, 1..n) = t[n] + Total(t, (1..n) \ {n})
  <2> HIDE DEF t, n
  <2>1. n \in 1..n /\ IsFiniteSet(1..n) /\ \A i \in 1..n : t[i] \in Nat
    BY <1>1, SeqDomain
  <2> QED
    BY <2>1, TotalAny
<1>4. Total(t, 1..Len(s)) = Total(s, 1..Len(s))
  <2> HIDE DEF t
  <2> QED
    BY <1>1, SeqDomain, TotalsEqual
<1>5. SumOf(t) = Total(t, 1..n) /\ SumOf(s) = Total(s, 1..Len(s)) /\ SumOf(s) \in Nat
  <2> HIDE DEF t, n
  <2> QED
    BY <1>1, SumIsTotal, SeqDomain, SumNat
<1> HIDE DEF t, n
<1>6. SumOf(t) = x + SumOf(s)
  BY <1>1, <1>2, <1>3, <1>4, <1>5
<1>7. SumOf(t) = SumOf(s) + x
  BY <1>5, <1>6
<1> QED
  BY <1>7 DEF t

\* Replacing an element replaces its part of the sum.
LEMMA SumExcept ==
  ASSUME NEW s \in Seq(Nat), NEW i \in 1..Len(s), NEW v \in Nat
  PROVE  /\ [s EXCEPT ![i] = v] \in Seq(Nat)
         /\ Len([s EXCEPT ![i] = v]) = Len(s)
         /\ SumOf([s EXCEPT ![i] = v]) = SumOf(s) - s[i] + v
<1> DEFINE t == [s EXCEPT ![i] = v]
           D == 1..Len(s)
<1>1. t \in Seq(Nat) /\ Len(t) = Len(s) /\ t[i] = v /\ \A j \in D \ {i} : t[j] = s[j]
  OBVIOUS
<1>2. SumOf(t) = Total(t, D) /\ SumOf(s) = Total(s, D)
  <2> HIDE DEF t
  <2> QED
    BY <1>1, SumIsTotal, SeqDomain
<1>3. IsFiniteSet(D) /\ IsFiniteSet(D \ {i}) /\ (\A j \in D : s[j] \in Nat /\ t[j] \in Nat) /\ i \in D
  <2> HIDE DEF t
  <2> QED
    BY <1>1, SeqDomain, FS_RemoveElement
<1> HIDE DEF t, D
<1>4. Total(t, D) = t[i] + Total(t, D \ {i}) /\ Total(s, D) = s[i] + Total(s, D \ {i})
  BY <1>3, TotalAny
<1>5. Total(t, D \ {i}) = Total(s, D \ {i})
  BY <1>1, <1>3, TotalsEqual
<1>6. Total(s, D \ {i}) \in Nat
  BY <1>3, TotalNat
<1>7. s[i] \in Nat
  BY <1>3
<1>8. SumOf(t) = SumOf(s) - s[i] + v
  BY <1>1, <1>2, <1>4, <1>5, <1>6, <1>7
<1> QED
  BY <1>1, <1>8 DEF t

\* The sum of numbers that are at least m.
LEMMA SumBound ==
  ASSUME NEW g, IsFiniteSet(DOMAIN g), NEW m \in Nat, \A p \in DOMAIN g : g[p] \in Nat /\ g[p] >= m
  PROVE  SumOf(g) \in Nat /\ SumOf(g) >= Cardinality(DOMAIN g) * m
  BY SumIsTotal, TotalBound

-----------------------------------------------------------------------------
(* Numbers *)

\* minimumTierBytes is the least size of some tier, and of every one at most.
LEMMA MinTierFacts ==
  /\ MinTier \in Nat \ {0}
  /\ \A t \in Tiers : MinTier <= t[1]
  /\ MinTier <= SmallestFile
  /\ SmallestFile \in Nat
<1> DEFINE L == {t[1] : t \in Tiers}
<1>1. L \subseteq Nat \ {0} /\ L # {}
  BY TiersAssumption
<1>2. \E m \in L : \A l \in L : ~ (<<l, m>> \in OpToRel(<, Nat))
  BY <1>1, NatLessThanWellFounded, WFMin, L \subseteq Nat
<1>3. PICK m \in L : \A l \in L : ~ (l < m)
  <2> HIDE DEF L
  <2> QED
    BY <1>1, <1>2 DEF OpToRel
<1>4. \A l \in L : m <= l
  <2> HIDE DEF L
  <2> QED
    BY <1>1, <1>3
<1>5. \A t \in Tiers : m <= t[1]
  BY <1>4
<1>6. MinTier \in L /\ \A t \in Tiers : MinTier <= t[1]
  BY <1>5 DEF MinTier
<1> HIDE DEF L
<1>7. MinTier \in Nat \ {0}
  BY <1>1, <1>6
<1>8. PICK t \in Tiers : t[1] <= SmallestFile
  BY SmallestFileAssumption
<1>9. MinTier <= t[1] /\ t[1] \in Nat /\ SmallestFile \in Nat
  BY <1>6, TiersAssumption, SmallestFileAssumption
<1>10. MinTier <= SmallestFile
  BY <1>7, <1>8, <1>9
<1> QED
  BY <1>6, <1>7, <1>9, <1>10

\* A finite set of integers has a greatest.
LEMMA MaxFacts ==
  ASSUME NEW S, S \subseteq Int, IsFiniteSet(S), S # {}
  PROVE  Max(S) \in S /\ \A x \in S : Max(S) >= x
<1> DEFINE G == {n \in Nat : \A s \in SUBSET S :
                    Cardinality(s) = n /\ s # {} => \E m \in s : \A x \in s : m >= x}
<1>1. 0 \in G
  BY FS_Subset, FS_EmptySet
<1>2. ASSUME NEW n \in Nat, n \in G PROVE n + 1 \in G
  <2> SUFFICES ASSUME NEW s \in SUBSET S, Cardinality(s) = n + 1, s # {}
               PROVE  \E m \in s : \A x \in s : m >= x
    OBVIOUS
  <2>1. PICK c : c \in s
    OBVIOUS
  <2>2. s \ {c} \in SUBSET S /\ Cardinality(s \ {c}) = n
    <3>1. IsFiniteSet(s)
      BY FS_Subset
    <3>2. Cardinality(s \ {c}) = Cardinality(s) - 1
      BY <2>1, <3>1, FS_RemoveElement
    <3>3. Cardinality(s \ {c}) = n
      BY <3>2
    <3> QED
      BY <3>3
  <2>3. CASE s \ {c} = {}
    <3>1. \A x \in s : x = c
      BY <2>3
    <3> QED
      BY <2>1, <3>1
  <2>4. CASE s \ {c} # {}
    <3>1. PICK m \in s \ {c} : \A x \in s \ {c} : m >= x
      BY <1>2, <2>2, <2>4
    <3>2. CASE m >= c
      BY <3>1, <3>2
    <3>3. CASE ~ (m >= c)
      <4>1. c \in Int /\ m \in Int /\ c >= m
        BY <2>1, <3>1, <3>3
      <4>2. \A x \in s : x \in Int /\ c >= x
        BY <3>1, <4>1
      <4> QED
        BY <2>1, <4>2
    <3> QED
      BY <3>2, <3>3
  <2> QED
    BY <2>3, <2>4
<1>3. Cardinality(S) \in G
  BY <1>1, <1>2, NatsFrom0, FS_CardinalityType
<1>4. \E m \in S : \A x \in S : m >= x
  BY <1>3
<1> QED
  BY <1>4 DEF Max

\* n files of m bytes fit in b bytes just when n is at most b divided by m.
LEMMA Quotient ==
  ASSUME NEW b \in Nat, NEW m \in Nat \ {0}
  PROVE  /\ b \div m \in Nat
         /\ \A n \in Nat : n <= b \div m <=> n * m <= b
<1> DEFINE q == b \div m
           r == b % m
<1>1. q \in Int /\ r \in 0..(m - 1) /\ b = q * m + r
  BY Z3
<1> HIDE DEF q, r
<1>2. q \in Nat
  <2> SUFFICES ASSUME q < 0 PROVE FALSE
    BY <1>1
  <2>1. q <= -1
    BY <1>1
  <2>2. q * m <= -1 * m
    BY <1>1, <2>1
  <2> QED
    BY <1>1, <2>2
<1>3. ASSUME NEW n \in Nat, n <= q PROVE n * m <= b
  <2>1. n * m <= q * m
    BY <1>1, <1>2, <1>3
  <2>2. n * m \in Int /\ q * m \in Int
    BY <1>2
  <2> QED
    BY <1>1, <2>1, <2>2
<1>4. ASSUME NEW n \in Nat, ~ (n <= q) PROVE ~ (n * m <= b)
  <2>1. n >= q + 1
    BY <1>2, <1>4
  <2>2. n * m >= (q + 1) * m
    BY <1>2, <2>1
  <2>3. (q + 1) * m = q * m + m /\ n * m \in Int /\ q * m \in Int
    BY <1>2
  <2> QED
    BY <1>1, <2>2, <2>3
<1>5. \A n \in Nat : n <= q <=> n * m <= b
  BY <1>3, <1>4
<1> QED
  BY <1>2, <1>5 DEF q

LEMMA TimesMonotone == ASSUME NEW a \in Nat, NEW b \in Nat, NEW m \in Nat, a <= b PROVE a * m <= b * m
  OBVIOUS

-----------------------------------------------------------------------------
(* The allocation *)

LEMMA DrawnFacts == Drawn \subseteq Nat
  BY TiersAssumption DEF Drawn

\* allocateSizes begins with at least one file, and no more than there is room for.
LEMMA AllocateInv ==
  ASSUME NEW budget \in Nat, NEW n \in Nat \ {0}, Allocate(budget, n)
  PROVE  /\ AllocationInv'
         /\ step' \in {"sample", "done"}
         /\ total' = budget
         /\ n * MinTier <= budget => count' = n
<1> DEFINE c == Smaller(n, Larger(1, budget \div MinTier))
           m == Larger(SmallestFile, budget)
<1>1. /\ budget \div MinTier \in Nat
      /\ \A k \in Nat : k <= budget \div MinTier <=> k * MinTier <= budget
  BY MinTierFacts, Quotient
<1>2. c \in Nat \ {0} /\ c <= n
  BY <1>1 DEF Smaller, Larger
<1>3. c > 1 => c * MinTier <= budget
  BY <1>1, <1>2 DEF Smaller, Larger
<1>4. n * MinTier <= budget => c = n
  BY <1>1 DEF Smaller, Larger
<1>5. /\ total' = budget /\ count' = c /\ remaining' = budget /\ over' = 0 /\ at' = 0
      /\ sizes' = IF c <= 1 THEN <<m>> ELSE <<>>
      /\ step' = IF c <= 1 THEN "done" ELSE "sample"
  BY DEF Allocate
<1> HIDE DEF c
<1>6. m \in Nat /\ m >= MinTier
  BY MinTierFacts DEF Larger
<1> HIDE DEF m
<1>7. CASE c <= 1
  <2>1. c = 1 /\ count' = 1 /\ sizes' = <<m>> /\ step' = "done"
    BY <1>2, <1>5, <1>7
  <2>2. SumOf(<<>>) = 0 /\ <<m>> = Append(<<>>, m) /\ <<>> \in Seq(Nat)
    BY SumIsTotal, TotalEmpty
  <2>3. SumOf(<<m>>) = m
    <3>1. SumOf(Append(<<>>, m)) = SumOf(<<>>) + m
      BY <1>6, <2>2, SumAppend
    <3> QED
      BY <1>6, <2>2, <3>1
  <2>4. AllocationTypeOK'
    BY <1>5, <1>6, <2>1 DEF AllocationTypeOK
  <2>5. Dividing'
    BY <1>6, <2>1 DEF Dividing
  <2>6. AllocationIsExact'
    BY <1>5, <1>6, <2>1, <2>3 DEF AllocationIsExact, m
  <2> QED
    BY <1>4, <1>5, <2>1, <2>4, <2>5, <2>6 DEF AllocationInv
<1>8. CASE ~ (c <= 1)
  <2>1. c >= 2 /\ count' = c /\ sizes' = <<>> /\ step' = "sample"
    BY <1>2, <1>5, <1>8
  <2>2. SumOf(<<>>) = 0
    BY SumIsTotal, TotalEmpty
  <2>3. AllocationTypeOK'
    BY <1>2, <1>5, <2>1 DEF AllocationTypeOK
  <2>4. (count' - Len(sizes')) * MinTier <= budget
    BY <1>2, <1>3, <2>1
  <2>5. Dividing'
    <3>1. Len(sizes') = 0 /\ SumOf(sizes') = 0
      BY <2>1, <2>2
    <3>2. SumOf(sizes') + remaining' = total'
      BY <1>5, <3>1
    <3>3. remaining' >= (count' - Len(sizes')) * MinTier
      BY <1>5, <2>4
    <3>4. count' >= 1 /\ count' >= 2 /\ Len(sizes') < count'
      BY <1>2, <2>1, <3>1
    <3>5. \A i \in 1..Len(sizes') : sizes'[i] >= MinTier
      BY <3>1
    <3> QED
      BY <2>1, <3>2, <3>3, <3>4, <3>5 DEF Dividing
  <2>6. AllocationIsExact'
    BY <2>1 DEF AllocationIsExact
  <2> QED
    BY <1>4, <1>5, <2>1, <2>3, <2>5, <2>6 DEF AllocationInv
<1> QED
  BY <1>7, <1>8

\* A draw is put between the least and the greatest size.
LEMMA Clamped ==
  ASSUME NEW m \in Nat, NEW d \in Nat, NEW r \in Int, r >= m
  PROVE  LET size == Larger(m, Smaller(d, Larger(m, r))) IN
            size \in Nat /\ size >= m /\ size <= r
  BY DEF Larger, Smaller

\* A sampled size leaves room for the files that follow.
LEMMA SampleInv == AllocationInv /\ Sample => AllocationInv' /\ step' = "sample"
<1> SUFFICES ASSUME AllocationInv, Sample PROVE AllocationInv' /\ step' = "sample"
  OBVIOUS
<1> USE DEF AllocationInv
<1>1. /\ step = "sample" /\ Len(sizes) < count - 1
      /\ total' = total /\ count' = count /\ over' = over /\ at' = at /\ step' = step
  BY DEF Sample
<1> DEFINE left == count - Len(sizes)
           room == remaining - (left - 1) * MinTier
           maxAllowed == Larger(MinTier, room)
<1>2. PICK drawn \in Drawn :
        LET size == Larger(MinTier, Smaller(drawn, maxAllowed)) IN
          /\ sizes' = Append(sizes, size)
          /\ remaining' = remaining - size
  BY DEF Sample
<1> DEFINE size == Larger(MinTier, Smaller(drawn, maxAllowed))
<1>3. sizes' = Append(sizes, size) /\ remaining' = remaining - size
  BY <1>2
<1>4. /\ count \in Nat /\ sizes \in Seq(Nat) /\ remaining \in Nat /\ total \in Nat
      /\ MinTier \in Nat \ {0} /\ drawn \in Nat
  BY MinTierFacts, DrawnFacts DEF AllocationTypeOK
<1>5. /\ remaining >= left * MinTier /\ SumOf(sizes) + remaining = total
      /\ left \in Nat /\ left >= 2
  BY <1>1, <1>4 DEF Dividing
<1>6. left * MinTier = (left - 1) * MinTier + MinTier /\ (left - 1) * MinTier \in Nat
  BY <1>4, <1>5
<1>7. room \in Int /\ room >= MinTier /\ room = remaining - (left - 1) * MinTier
  <2> DEFINE k == (left - 1) * MinTier
  <2> HIDE DEF left
  <2>1. k \in Nat /\ left * MinTier = k + MinTier
    BY <1>6
  <2> HIDE DEF k
  <2>2. remaining - k \in Int /\ remaining - k >= MinTier
    BY <1>4, <1>5, <2>1
  <2> QED
    BY <2>2 DEF k
<1>8. size \in Nat /\ size >= MinTier /\ size <= room
  <2> HIDE DEF room
  <2>1. MinTier \in Nat /\ drawn \in Nat /\ room \in Int /\ room >= MinTier
    BY <1>4, <1>7
  <2> QED
    BY <2>1, Clamped
<1> HIDE DEF size
<1>9. remaining' \in Nat /\ remaining' >= (left - 1) * MinTier
  <2> DEFINE k == (left - 1) * MinTier
  <2>1. k \in Nat /\ room = remaining - k
    BY <1>6, <1>7
  <2> HIDE DEF k, room
  <2>2. remaining - size >= k
    BY <1>4, <1>8, <2>1
  <2> QED
    BY <1>3, <1>4, <1>8, <2>1, <2>2 DEF k
<1> HIDE DEF room, maxAllowed
<1>10. sizes' \in Seq(Nat) /\ Len(sizes') = Len(sizes) + 1
  BY <1>3, <1>4, <1>8
<1>11. count' - Len(sizes') = left - 1
  BY <1>1, <1>4, <1>10
<1>12. SumOf(sizes') + remaining' = total'
  <2>1. SumOf(sizes') = SumOf(sizes) + size /\ SumOf(sizes) \in Nat
    BY <1>3, <1>4, <1>8, SumAppend, SumNat
  <2> QED
    BY <1>1, <1>3, <1>4, <1>5, <1>8, <2>1
<1>13. \A i \in 1..Len(sizes') : sizes'[i] >= MinTier
  <2>1. \A i \in 1..Len(sizes) : sizes[i] >= MinTier
    BY DEF Dividing
  <2> QED
    BY <1>3, <1>4, <1>8, <2>1
<1>14. Dividing'
  <2>1. count >= 2 /\ Len(sizes') < count
    BY <1>1, <1>4, <1>10
  <2> QED
    BY <1>1, <1>9, <1>11, <1>12, <1>13, <2>1 DEF Dividing
<1>15. AllocationTypeOK'
  BY <1>1, <1>9, <1>10 DEF AllocationTypeOK
<1>16. AllocationIsExact'
  BY <1>1 DEF AllocationIsExact
<1> QED
  BY <1>1, <1>14, <1>15, <1>16

\* After the last file the sum is too great, by no more than that file can give away.
LEMMA SampleLastInv == AllocationInv /\ SampleLast => AllocationInv' /\ step' = "reconcile"
<1> SUFFICES ASSUME AllocationInv, SampleLast PROVE AllocationInv' /\ step' = "reconcile"
  OBVIOUS
<1> USE DEF AllocationInv
<1> DEFINE given == Larger(SmallestFile, remaining)
           last == given + remaining
           all == Append(sizes, last)
<1>1. /\ step = "sample" /\ Len(sizes) = count - 1
      /\ total' = total /\ count' = count /\ remaining' = remaining /\ at' = count
  BY DEF SampleLast
<1>2. /\ count \in Nat /\ sizes \in Seq(Nat) /\ remaining \in Nat /\ total \in Nat
      /\ MinTier \in Nat \ {0} /\ SmallestFile \in Nat /\ MinTier <= SmallestFile
  BY MinTierFacts DEF AllocationTypeOK
<1>3. remaining >= MinTier /\ SumOf(sizes) + remaining = total /\ count >= 2
  <2>1. count - Len(sizes) = 1
    BY <1>1, <1>2
  <2> QED
    BY <1>1, <1>2, <2>1 DEF Dividing
<1>4. given \in Nat /\ given >= MinTier /\ last \in Nat /\ last = given + remaining
  BY <1>2 DEF Larger
<1>5. SumOf(all) = total + given
  <2>1. SumOf(all) = SumOf(sizes) + last /\ SumOf(sizes) \in Nat
    BY <1>2, <1>4, SumAppend, SumNat
  <2> HIDE DEF given, all
  <2> QED
    BY <1>2, <1>3, <1>4, <2>1
<1>6. /\ sizes' = IF SumOf(all) - total < 0
                  THEN [all EXCEPT ![count] = @ - (SumOf(all) - total)] ELSE all
      /\ over' = Larger(0, SumOf(all) - total)
      /\ step' = IF SumOf(all) - total > 0 THEN "reconcile" ELSE "done"
  BY DEF SampleLast
<1>7. SumOf(all) - total = given
  <2> HIDE DEF given, all
  <2> QED
    BY <1>2, <1>4, <1>5
<1>8. sizes' = all /\ over' = given /\ step' = "reconcile"
  <2> HIDE DEF given, all
  <2> QED
    BY <1>2, <1>4, <1>6, <1>7 DEF Larger
<1>9. sizes' \in Seq(Nat) /\ Len(sizes') = count /\ sizes'[count] = last
  <2> HIDE DEF last
  <2> QED
    BY <1>1, <1>2, <1>4, <1>8
<1>10. \A i \in 1..Len(sizes') : sizes'[i] >= MinTier
  <2>1. \A i \in 1..Len(sizes) : sizes[i] >= MinTier
    BY DEF Dividing
  <2>2. last >= MinTier
    <3> HIDE DEF given, last
    <3> QED
      BY <1>2, <1>4
  <2> HIDE DEF last
  <2> QED
    BY <1>1, <1>2, <1>4, <1>8, <1>9, <2>1, <2>2
<1> HIDE DEF all
<1>11. last >= given + MinTier /\ given >= 1
  <2> HIDE DEF given
  <2> QED
    BY <1>2, <1>3, <1>4
<1>12. SumOf(sizes') = total' + over'
  BY <1>1, <1>5, <1>8
<1> HIDE DEF last, given
<1>13. Dividing'
  BY <1>1, <1>2, <1>3, <1>4, <1>8, <1>9, <1>10, <1>11, <1>12 DEF Dividing
<1>14. AllocationTypeOK'
  BY <1>1, <1>2, <1>4, <1>8, <1>9 DEF AllocationTypeOK
<1>15. AllocationIsExact'
  BY <1>8 DEF AllocationIsExact
<1> QED
  BY <1>8, <1>13, <1>14, <1>15

\* reconcileSizes takes all of the excess from the last file.
LEMMA ReconcileInv == AllocationInv /\ Reconcile => AllocationInv' /\ step' = "done"
<1> SUFFICES ASSUME AllocationInv, Reconcile PROVE AllocationInv' /\ step' = "done"
  OBVIOUS
<1> USE DEF AllocationInv
<1>1. /\ step = "reconcile" /\ total' = total /\ count' = count /\ remaining' = remaining
      /\ at' = at - 1
  BY DEF Reconcile
<1>2. /\ count \in Nat /\ sizes \in Seq(Nat) /\ remaining \in Nat /\ total \in Nat /\ over \in Nat
      /\ MinTier \in Nat \ {0}
  BY MinTierFacts DEF AllocationTypeOK
<1>3. /\ count >= 2 /\ Len(sizes) = count /\ at = count /\ over >= 1
      /\ sizes[count] >= over + MinTier
      /\ SumOf(sizes) = total + over
      /\ \A i \in 1..Len(sizes) : sizes[i] >= MinTier
  BY <1>1 DEF Dividing
<1>4. count \in 1..Len(sizes) /\ sizes[count] \in Nat
  BY <1>2, <1>3
<1>5. Smaller(over, Larger(0, sizes[at] - MinTier)) = over
  BY <1>2, <1>3, <1>4 DEF Smaller, Larger
<1> DEFINE v == sizes[count] - over
<1>6. /\ sizes' = [sizes EXCEPT ![count] = v]
      /\ over' = 0 /\ step' = "done"
  <2>1. /\ sizes' = [sizes EXCEPT ![count] = @ - over]
        /\ over' = over - over
        /\ step' = IF over = over \/ count = 1 THEN "done" ELSE step
    BY <1>3, <1>5 DEF Reconcile
  <2> QED
    BY <1>2, <2>1
<1>7. v \in Nat /\ v >= MinTier /\ v = sizes[count] - over
  BY <1>2, <1>3, <1>4
<1> HIDE DEF v
<1>8. sizes' \in Seq(Nat) /\ Len(sizes') = count /\ SumOf(sizes') = SumOf(sizes) - sizes[count] + v
  <2>1. /\ [sizes EXCEPT ![count] = v] \in Seq(Nat)
        /\ Len([sizes EXCEPT ![count] = v]) = Len(sizes)
        /\ SumOf([sizes EXCEPT ![count] = v]) = SumOf(sizes) - sizes[count] + v
    BY <1>2, <1>4, <1>7, SumExcept
  <2> QED
    BY <1>3, <1>6, <2>1
<1>9. SumOf(sizes') = total
  BY <1>2, <1>3, <1>4, <1>7, <1>8
<1>10. \A i \in 1..Len(sizes') : sizes'[i] >= MinTier
  BY <1>2, <1>3, <1>6, <1>7, <1>8
<1>11. Dividing'
  BY <1>1, <1>2, <1>3, <1>6, <1>10 DEF Dividing
<1>12. AllocationTypeOK'
  BY <1>1, <1>2, <1>3, <1>6, <1>8 DEF AllocationTypeOK
<1>13. AllocationIsExact'
  BY <1>1, <1>2, <1>3, <1>8, <1>9, <1>10 DEF AllocationIsExact
<1> QED
  BY <1>6, <1>11, <1>12, <1>13

LEMMA AllocationEndsInv == AllocationEnds => AllocationInv' /\ step' = "idle"
<1> SUFFICES ASSUME AllocationEnds PROVE AllocationInv' /\ step' = "idle"
  OBVIOUS
<1>1. /\ step' = "idle" /\ sizes' = <<>>
      /\ total' = 0 /\ count' = 0 /\ remaining' = 0 /\ over' = 0 /\ at' = 0
  BY DEF AllocationEnds
<1> QED
  BY <1>1 DEF AllocationInv, AllocationTypeOK, Dividing, AllocationIsExact

-----------------------------------------------------------------------------
(* What a plan is made of *)

LEMMA Parts == IInv => TypeOK
  BY DEF IInv, AllocationInv, PlanInv, PlanTyped, TypeOK

\* The images of a finite set are finitely many.
LEMMA ImageFinite ==
  ASSUME NEW S, IsFiniteSet(S), NEW g, g = [x \in S |-> g[x]]
  PROVE  IsFiniteSet({g[x] : x \in S})
<1>1. g \in Surjection(S, {g[x] : x \in S})
  BY DEF Surjection
<1> QED
  BY <1>1, FS_Surjection

LEMMA PercentFacts == ASSUME NEW pct \in Nat, NEW n \in Nat PROVE PercentOf(pct, n) \in Nat
<1>1. 2 * n * pct + 100 \in Nat
  OBVIOUS
<1>2. (2 * n * pct + 100) \div 200 \in Nat
  BY <1>1, Quotient
<1> QED
  BY <1>2 DEF PercentOf

LEMMA FileCountFacts ==
  ASSUME NEW n \in Nat \ {0}, NEW s
  PROVE  /\ FileCounts(n, s) \subseteq Nat \ {0}
         /\ s = "balanced" => FileCounts(n, s) = {n}
<1>1. \A k \in ((n + 1) \div 2)..(2 * n) : Larger(1, k) \in Nat \ {0}
  BY DEF Larger
<1> QED
  BY <1>1 DEF FileCounts

LEMMA EstimateFacts == ASSUME NEW b \in Nat PROVE EstimateFileCount(b) \in Nat \ {0}
<1>1. AverageSize \in Nat \ {0}
  BY PlanAssumption
<1>2. 2 * b + AverageSize \in Nat /\ 2 * AverageSize \in Nat \ {0}
  BY <1>1
<1>3. (2 * b + AverageSize) \div (2 * AverageSize) \in Nat
  BY <1>2, Quotient
<1> QED
  BY <1>3 DEF EstimateFileCount, Larger

LEMMA CreateCountFacts ==
  ASSUME IsFiniteSet(DOMAIN files), NEW c \in Nat, NEW d \in Nat
  PROVE  CreateCount(c, d) \in Nat \ {0}
<1>1. Cardinality(DOMAIN files) \in Nat
  BY FS_CardinalityType
<1>2. /\ PercentOf(c, Cardinality(DOMAIN files)) \in Nat
      /\ PercentOf(d, Cardinality(DOMAIN files)) \in Nat
      /\ Cardinality(DOMAIN files) \div 20 \in Nat
  <2>1. Cardinality(DOMAIN files) \div 20 \in Nat
    BY <1>1, Quotient
  <2> QED
    BY <1>1, <2>1, PercentFacts
<1> QED
  BY <1>2 DEF CreateCount, Larger

\* The sizes of some of the files.
LEMMA SizesFacts ==
  ASSUME PlanTyped, Recording, NEW D, D \subseteq DOMAIN files
  PROVE  /\ IsFiniteSet(D)
         /\ Cardinality(D) \in Nat
         /\ SumOf([p \in D |-> files[p].size]) \in Nat
         /\ SumOf([p \in D |-> files[p].size]) >= Cardinality(D) * MinTier
<1> DEFINE g == [p \in D |-> files[p].size]
<1>1. IsFiniteSet(D) /\ Cardinality(D) \in Nat
  BY FS_Subset, FS_CardinalityType DEF Recording
<1>2. \A p \in D : g[p] \in Nat /\ g[p] >= MinTier
  BY DEF PlanTyped, Partial, Records, Recording
<1>3. DOMAIN g = D
  OBVIOUS
<1> HIDE DEF g
<1>4. SumOf(g) \in Nat /\ SumOf(g) >= Cardinality(D) * MinTier
  BY <1>1, <1>2, <1>3, SumBound, MinTierFacts
<1> QED
  BY <1>1, <1>4 DEF g

LEMMA BudgetFacts ==
  ASSUME PlanTyped, Recording, NEW D, D \subseteq DOMAIN files, NEW s
  PROVE  /\ Budget(D, s) \in Nat
         /\ s = "balanced" /\ D # {} => Budget(D, s) = SumOf([p \in D |-> files[p].size])
<1> DEFINE freed == SumOf([p \in D |-> files[p].size])
           all == SumOf([p \in DOMAIN files |-> files[p].size])
           bytes == IF freed # 0 THEN freed ELSE Larger(all \div 20, LeastAppend)
<1>1. freed \in Nat /\ freed >= Cardinality(D) * MinTier /\ all \in Nat
  BY SizesFacts
<1>2. D # {} => freed # 0
  <2> SUFFICES ASSUME D # {} PROVE freed # 0
    OBVIOUS
  <2> HIDE DEF freed
  <2>1. Cardinality(D) \in Nat \ {0}
    BY SizesFacts, FS_EmptySet
  <2>2. Cardinality(D) * MinTier > 0
    BY <2>1, MinTierFacts
  <2>3. Cardinality(D) * MinTier \in Int
    BY <2>1, MinTierFacts
  <2> QED
    BY <1>1, <2>2, <2>3
<1>3. Budget(D, s) = IF s = "random" THEN (6 * bytes) \div 5 ELSE bytes
  BY DEF Budget
<1> HIDE DEF freed, all
<1>4. bytes \in Nat
  BY <1>1, Quotient, PlanAssumption DEF Larger
<1>5. D # {} => bytes = freed
  BY <1>2
<1> HIDE DEF bytes
<1>6. (6 * bytes) \div 5 \in Nat
  <2>1. 6 * bytes \in Nat
    BY <1>4
  <2> QED
    BY <2>1, Quotient
<1> QED
  BY <1>3, <1>4, <1>5, <1>6 DEF freed

\* deterministicRotationClock is later than every file.
LEMMA ClockIsLater ==
  ASSUME PlanTyped, Recording, NEW now \in RotationTimes
  PROVE  now \in Int /\ \A p \in DOMAIN files : files[p].mtime < now
<1> DEFINE mtimes == {files[p].mtime : p \in DOMAIN files}
<1>1. PICK l \in (IF files = NoFiles THEN PlanningTimes ELSE {Max(mtimes)}), offset \in 0..RotationSpan :
        now = l + 1 + offset
  BY DEF RotationTimes
<1>2. RotationSpan \in Nat /\ PlanningSpan \in Nat
  BY PlanAssumption
<1>3. CASE files = NoFiles
  <2>1. DOMAIN files = {}
    BY <1>3 DEF NoFiles
  <2>2. l \in Int
    BY <1>1, <1>2, <1>3 DEF PlanningTimes
  <2> QED
    BY <1>1, <1>2, <2>1, <2>2
<1>4. CASE files # NoFiles
  <2>1. DOMAIN files # {}
    BY <1>4 DEF Recording, NoFiles
  <2>2. mtimes \subseteq Int /\ mtimes # {}
    BY <2>1 DEF PlanTyped, Partial, Records
  <2>3. IsFiniteSet(mtimes)
    <3> DEFINE g == [p \in DOMAIN files |-> files[p].mtime]
    <3>1. IsFiniteSet(DOMAIN files) /\ g = [p \in DOMAIN files |-> g[p]]
      BY DEF Recording
    <3>2. mtimes = {g[p] : p \in DOMAIN files}
      OBVIOUS
    <3> HIDE DEF g, mtimes
    <3> QED
      BY <3>1, <3>2, ImageFinite
  <2>4. Max(mtimes) \in Int /\ \A p \in DOMAIN files : Max(mtimes) >= files[p].mtime
    <3>1. Max(mtimes) \in mtimes /\ \A x \in mtimes : Max(mtimes) >= x
      <4> HIDE DEF mtimes
      <4> QED
        BY <2>2, <2>3, MaxFacts
    <3> QED
      BY <2>2, <3>1
  <2>5. now = Max(mtimes) + 1 + offset
    BY <1>1, <1>4
  <2> HIDE DEF mtimes
  <2>6. \A p \in DOMAIN files : files[p].mtime \in Int
    BY DEF PlanTyped, Partial, Records
  <2> QED
    BY <1>2, <2>4, <2>5, <2>6
<1> QED
  BY <1>3, <1>4

\* A mutation at such a time is later than its file, and no smaller than a tier allows.
LEMMA MutatedFacts ==
  ASSUME PlanTyped, Recording, NEW p \in DOMAIN files, NEW now \in Int, files[p].mtime < now,
         NEW r \in Mutated(p, now)
  PROVE  r \in Records /\ r.mtime > files[p].mtime /\ r.size >= MinTier
<1>1. PICK a \in Actions, t \in MutationTimes(files[p].mtime, now) :
        r = [size |-> NewSize(a, files[p].size), mtime |-> t]
  BY DEF Mutated
<1>2. files[p].mtime \in Int /\ files[p].size \in Nat /\ files[p].size >= MinTier
  BY DEF PlanTyped, Partial, Records, Recording
<1>3. t \in Int /\ t > files[p].mtime
  BY <1>1, <1>2 DEF MutationTimes, Between
<1> DEFINE size == files[p].size
<1>4. NewSize(a, size) \in Nat /\ NewSize(a, size) >= MinTier
  <2> HIDE DEF size
  <2>1. size \in Nat /\ size >= MinTier
    BY <1>2 DEF size
  <2>2. size \div 4 \in Nat /\ (3 * size) \div 5 \in Nat
    <3>1. 3 * size \in Nat
      BY <2>1
    <3> QED
      BY <2>1, <3>1, Quotient
  <2>3. LeastAppend \in Nat
    BY PlanAssumption
  <2>4. CASE a = "rewrite"
    BY <2>1, <2>4 DEF NewSize
  <2>5. CASE a = "append"
    <3>1. NewSize(a, size) = size + Larger(LeastAppend, size \div 4)
      BY <2>5 DEF NewSize
    <3>2. Larger(LeastAppend, size \div 4) \in Nat
      BY <2>2, <2>3 DEF Larger
    <3> QED
      BY <2>1, <3>1, <3>2, MinTierFacts
  <2>6. CASE a = "truncate"
    <3>1. NewSize(a, size) = Larger(SmallestFile, (3 * size) \div 5)
      BY <2>6 DEF NewSize
    <3> QED
      BY <2>2, <3>1, MinTierFacts DEF Larger
  <2> QED
    BY <1>1, <2>4, <2>5, <2>6 DEF Actions
<1> QED
  BY <1>1, <1>3, <1>4 DEF Records

\* Whatever the profile comes up with, the new paths are paths.
LEMMA NameFacts ==
  ASSUME PlanTyped, NEW n \in Nat, NEW names \in Names(n), NEW i \in 1..n
  PROVE  Rename(Dedupe(names)[i]) \in Path
<1> DEFINE same == {j \in 1..i : names[j] = names[i]}
           path == [stem |-> names[i], copy |-> Cardinality(same), renamed |-> 0]
<1>1. Cardinality(same) \in Nat
  <2>1. IsFiniteSet(1..i) /\ same \in SUBSET (1..i)
    BY FS_Interval
  <2> QED
    BY <2>1, FS_Subset, FS_CardinalityType
<1>2. DOMAIN names = 1..n /\ names[i] \in Stems
  BY DEF Names
<1>3. Dedupe(names)[i] = path
  BY <1>2 DEF Dedupe
<1> HIDE DEF same
<1>4. path \in Path
  BY <1>1, <1>2 DEF Path
<1>5. [path EXCEPT !.renamed = seed] \in Path
  BY <1>1, <1>2 DEF Path, PlanTyped
<1> QED
  BY <1>3, <1>4, <1>5 DEF Rename

LEMMA TimeFacts == ASSUME NEW now \in PlanningTimes PROVE FileTimes(now) \subseteq Int
  BY PlanAssumption DEF PlanningTimes, FileTimes, Between

-----------------------------------------------------------------------------
(* The invariant is inductive *)

LEMMA InitInv == Init => IInv
<1> SUFFICES ASSUME Init PROVE IInv
  OBVIOUS
<1>1. /\ total = 0 /\ count = 0 /\ sizes = <<>> /\ remaining = 0 /\ over = 0 /\ at = 0
      /\ step = "idle"
  BY DEF Init, AllocationInit
<1>2. /\ files = NoFiles /\ DOMAIN files = {} /\ pc = "none" /\ strategy \in Strategies /\ seed = 0
      /\ wanted = 0 /\ deletes = {} /\ DOMAIN mutations = {} /\ creates = <<>> /\ rotations = 0
  BY DEF Init, NoFiles
<1>3. AllocationInv
  BY <1>1 DEF AllocationInv, AllocationTypeOK, Dividing, AllocationIsExact
<1>4. PlanTyped
  BY <1>2, PlanAssumption DEF PlanTyped, Partial
<1>5. Recording
  BY <1>2, FS_EmptySet DEF Recording, NoFiles
<1>6. Planning /\ Allotting
  BY <1>1, <1>2 DEF Planning, Allotting
<1>7. MutationsShow /\ BalancedIsSteady
  BY <1>2 DEF MutationsShow, BalancedIsSteady
<1> QED
  BY <1>3, <1>4, <1>5, <1>6, <1>7 DEF IInv, PlanInv

\* A step of the allocation changes nothing of the plan, nor how many files get what budget.
LEMMA AllocationStepInv ==
  IInv /\ pc = "allocate" /\ AllocationStep /\ UNCHANGED planVars => IInv'
<1> SUFFICES ASSUME IInv, pc = "allocate", AllocationStep, UNCHANGED planVars PROVE IInv'
  OBVIOUS
<1>1. AllocationInv /\ PlanTyped /\ Recording /\ Planning /\ Allotting
      /\ MutationsShow /\ BalancedIsSteady
  BY DEF IInv, PlanInv
<1>2. AllocationInv' /\ step' # "idle"
  BY <1>1, SampleInv, SampleLastInv, ReconcileInv DEF AllocationStep
<1>3. total' = total /\ count' = count
  BY DEF AllocationStep, Sample, SampleLast, Reconcile
<1>4. /\ files' = files /\ pc' = pc /\ strategy' = strategy /\ seed' = seed /\ wanted' = wanted
      /\ deletes' = deletes /\ mutations' = mutations /\ creates' = creates
      /\ rotations' = rotations
  BY DEF planVars
<1>5. PlanTyped'
  BY <1>1, <1>4 DEF PlanTyped, Partial
<1>6. Recording'
  BY <1>1, <1>4 DEF Recording
<1>7. Planning'
  BY <1>1, <1>2, <1>4 DEF Planning
<1>8. Allotting'
  BY <1>1, <1>3, <1>4 DEF Allotting, Churn
<1>9. MutationsShow' /\ BalancedIsSteady'
  BY <1>1, <1>4 DEF MutationsShow, BalancedIsSteady
<1> QED
  BY <1>2, <1>5, <1>6, <1>7, <1>8, <1>9 DEF IInv, PlanInv

\* The first plan: nothing is tracked, deleted or changed.
LEMMA PlanInitInv == ASSUME NEW bytes \in Targets, IInv, PlanInit(bytes) PROVE IInv'
<1>1. AllocationInv /\ PlanTyped /\ Recording /\ Planning /\ Allotting
      /\ MutationsShow /\ BalancedIsSteady
  BY DEF IInv, PlanInv
<1>2. bytes \in Nat
  BY PlanAssumption
<1>3. PICK n \in FileCounts(EstimateFileCount(bytes), strategy) : Allocate(bytes, n)
  BY DEF PlanInit
<1>4. n \in Nat \ {0}
  BY <1>2, EstimateFacts, FileCountFacts
<1>5. AllocationInv' /\ step' \in {"sample", "done"}
  BY <1>2, <1>3, <1>4, AllocateInv
<1>6. /\ pc = "none" /\ pc' = "allocate"
      /\ files' = files /\ strategy' = strategy /\ seed' = seed /\ wanted' = wanted
      /\ deletes' = deletes /\ mutations' = mutations /\ creates' = creates
      /\ rotations' = rotations
  BY DEF PlanInit
<1>7. PlanTyped'
  BY <1>1, <1>6 DEF PlanTyped, Partial
<1>8. Recording'
  BY <1>1, <1>6 DEF Recording
<1>9. Planning'
  BY <1>1, <1>5, <1>6 DEF Planning
<1>10. deletes' = {}
  BY <1>1, <1>6 DEF Planning
<1>11. Allotting' /\ BalancedIsSteady'
  BY <1>10 DEF Allotting, Churn, BalancedIsSteady
<1>12. MutationsShow'
  BY <1>1, <1>6 DEF MutationsShow
<1> QED
  BY <1>5, <1>7, <1>8, <1>9, <1>11, <1>12 DEF IInv, PlanInv

\* A plan for a rotation.
LEMMA PlanRotateInv ==
  ASSUME NEW r \in Requests, IInv, PlanRotate(r[1], r[2], r[3]) PROVE IInv'
<1>1. AllocationInv /\ PlanTyped /\ Recording /\ Planning /\ Allotting
      /\ MutationsShow /\ BalancedIsSteady
  BY DEF IInv, PlanInv
<1>2. r[1] \in Nat /\ r[2] \in Nat /\ r[3] \in Nat
  BY PlanAssumption
<1>3. /\ pc = "idle" /\ pc' = "allocate" /\ rotations < MaxRotations
      /\ seed' \in Seeds /\ strategy' \in Strategies /\ wanted' = CreateCount(r[1], r[2])
      /\ files' = files /\ creates' = creates /\ rotations' = rotations
  BY DEF PlanRotate
<1>4. deletes' \subseteq DOMAIN files
  BY DEF PlanRotate, kSubset
<1>5. \E k : \E M \in kSubset(k, DOMAIN files \ deletes'), now \in RotationTimes :
        mutations' \in {f \in [M -> UNION {Mutated(p, now) : p \in M}] :
                           \A p \in M : f[p] \in Mutated(p, now)}
  BY DEF PlanRotate
<1>6. PICK M \in SUBSET (DOMAIN files \ deletes'), now \in RotationTimes :
        mutations' \in {f \in [M -> UNION {Mutated(p, now) : p \in M}] :
                           \A p \in M : f[p] \in Mutated(p, now)}
  BY <1>5 DEF kSubset
<1>7. DOMAIN mutations' = M /\ \A p \in M : mutations'[p] \in Mutated(p, now)
  BY <1>6
<1>8. PICK n \in FileCounts(wanted', strategy') : Allocate(Budget(deletes', strategy'), n)
  BY DEF PlanRotate
<1>9. wanted' \in Nat \ {0}
  BY <1>1, <1>2, <1>3, CreateCountFacts DEF Recording
<1>10. n \in Nat \ {0} /\ (strategy' = "balanced" => n = wanted')
  BY <1>9, FileCountFacts
<1>11. Budget(deletes', strategy') \in Nat
  BY <1>1, <1>4, BudgetFacts
<1>12. /\ AllocationInv' /\ step' \in {"sample", "done"}
       /\ total' = Budget(deletes', strategy')
       /\ n * MinTier <= Budget(deletes', strategy') => count' = n
  BY <1>8, <1>10, <1>11, AllocateInv
<1>13. \A p \in M : /\ mutations'[p] \in Records
                    /\ mutations'[p].mtime > files[p].mtime
                    /\ mutations'[p].size >= MinTier
  <2> SUFFICES ASSUME NEW p \in M
               PROVE  /\ mutations'[p] \in Records
                      /\ mutations'[p].mtime > files[p].mtime
                      /\ mutations'[p].size >= MinTier
    OBVIOUS
  <2>1. p \in DOMAIN files /\ now \in Int /\ files[p].mtime < now
    BY <1>1, ClockIsLater
  <2> QED
    BY <1>1, <1>7, <2>1, MutatedFacts
<1>14. PlanTyped'
  BY <1>1, <1>3, <1>4, <1>6, <1>7, <1>9, <1>13 DEF PlanTyped, Partial
<1>15. Recording'
  BY <1>1, <1>3, <1>7, <1>13 DEF Recording
<1>16. Planning'
  BY <1>3, <1>12 DEF Planning
<1>17. Allotting'
  <2> SUFFICES ASSUME Churn' PROVE count' = wanted' /\ total' = SumOf([p \in deletes' |-> files'[p].size])
    BY DEF Allotting
  <2> DEFINE freed == SumOf([p \in deletes' |-> files[p].size])
             k == Cardinality(deletes')
  <2>1. strategy' = "balanced" /\ deletes' # {} /\ wanted' <= k
    BY DEF Churn
  <2>2. total' = freed /\ Budget(deletes', strategy') = freed
    BY <1>1, <1>4, <1>12, <2>1, BudgetFacts
  <2>3. freed \in Nat /\ k \in Nat /\ freed >= k * MinTier
    BY <1>1, <1>4, SizesFacts
  <2> HIDE DEF freed, k
  <2>4. wanted' * MinTier <= k * MinTier
    <3>1. wanted' \in Nat /\ k \in Nat /\ wanted' <= k /\ MinTier \in Nat
      BY <1>9, <2>1, <2>3, MinTierFacts
    <3> QED
      BY <3>1, TimesMonotone
  <2>5. wanted' * MinTier \in Int /\ k * MinTier \in Int
    BY <1>9, <2>3, MinTierFacts
  <2>6. wanted' * MinTier <= freed
    BY <2>3, <2>4, <2>5
  <2>7. count' = wanted'
    BY <1>10, <1>12, <2>1, <2>2, <2>6
  <2> QED
    BY <1>3, <2>2, <2>7 DEF freed
<1>18. MutationsShow'
  BY <1>3, <1>7, <1>13 DEF MutationsShow
<1>19. BalancedIsSteady'
  BY <1>3 DEF BalancedIsSteady
<1> QED
  BY <1>12, <1>14, <1>15, <1>16, <1>17, <1>18, <1>19 DEF IInv, PlanInv

\* The new files have the sizes that were allocated.
LEMMA NameFilesInv == IInv /\ NameFiles => IInv'
<1> SUFFICES ASSUME IInv, NameFiles PROVE IInv'
  OBVIOUS
<1>1. AllocationInv /\ PlanTyped /\ Recording /\ Planning /\ Allotting
      /\ MutationsShow /\ BalancedIsSteady
  BY DEF IInv, PlanInv
<1>2. /\ pc = "allocate" /\ pc' = "planned" /\ step = "done"
      /\ files' = files /\ strategy' = strategy /\ seed' = seed /\ wanted' = wanted
      /\ deletes' = deletes /\ mutations' = mutations /\ rotations' = rotations
  BY DEF NameFiles
<1>3. AllocationInv' /\ step' = "idle"
  BY AllocationEndsInv DEF NameFiles
<1>4. PICK names \in Names(count), now \in PlanningTimes :
        \E mtimes \in [1..count -> FileTimes(now)] :
           creates' = [i \in 1..count |->
              [path |-> Rename(Dedupe(names)[i]), size |-> sizes[i], mtime |-> mtimes[i]]]
  BY DEF NameFiles
<1>5. PICK mtimes \in [1..count -> FileTimes(now)] :
        creates' = [i \in 1..count |->
           [path |-> Rename(Dedupe(names)[i]), size |-> sizes[i], mtime |-> mtimes[i]]]
  BY <1>4
<1>6. /\ count \in Nat /\ total \in Nat /\ sizes \in Seq(Nat) /\ Len(sizes) = count
      /\ SumOf(sizes) = IF count = 1 THEN Larger(SmallestFile, total) ELSE total
      /\ \A i \in 1..count : sizes[i] >= MinTier
  BY <1>1, <1>2 DEF AllocationInv, AllocationTypeOK, AllocationIsExact
<1>7. \A i \in 1..count : creates'[i] \in [path : Path, size : Nat, mtime : Int]
  <2> SUFFICES ASSUME NEW i \in 1..count PROVE creates'[i] \in [path : Path, size : Nat, mtime : Int]
    OBVIOUS
  <2>1. Rename(Dedupe(names)[i]) \in Path
    BY <1>1, <1>6, NameFacts
  <2>2. sizes[i] \in Nat
    BY <1>6
  <2>3. mtimes[i] \in Int
    BY TimeFacts
  <2> QED
    BY <1>5, <2>1, <2>2, <2>3
<1>8. creates' \in [1..count -> [path : Path, size : Nat, mtime : Int]]
  BY <1>5, <1>7
<1>9. creates' \in Seq([path : Path, size : Nat, mtime : Int]) /\ Len(creates') = count
  <2> DEFINE R == [path : Path, size : Nat, mtime : Int]
  <2> HIDE DEF R
  <2>1. creates' \in [1..count -> R] /\ count \in Nat
    BY <1>6, <1>8 DEF R
  <2>2. creates' \in Seq(R) /\ Len(creates') = count
    BY <2>1
  <2> QED
    BY <2>2 DEF R
<1>10. \A i \in 1..count : creates'[i].size = sizes[i]
  BY <1>5
<1>11. PlanTyped'
  BY <1>1, <1>2, <1>9 DEF PlanTyped, Partial
<1>12. Recording'
  BY <1>1, <1>2, <1>6, <1>9, <1>10 DEF Recording
<1>13. Planning'
  BY <1>1, <1>2, <1>3 DEF Planning
<1>14. Allotting'
  BY <1>2 DEF Allotting
<1>15. MutationsShow'
  BY <1>1, <1>2 DEF MutationsShow
<1>16. BalancedIsSteady'
  <2> DEFINE freed == SumOf([p \in deletes |-> files[p].size])
             created == [i \in 1..Len(creates') |-> creates'[i].size]
  <2> SUFFICES ASSUME Churn
               PROVE  /\ Len(creates') = wanted
                      /\ SumOf(created) = IF wanted = 1 THEN Larger(SmallestFile, freed) ELSE freed
    BY <1>2 DEF BalancedIsSteady, Churn
  <2>1. count = wanted /\ total = freed
    BY <1>1, <1>2 DEF Allotting
  <2>2. created = sizes
    BY <1>6, <1>9, <1>10
  <2> HIDE DEF created, freed
  <2> QED
    BY <1>6, <1>9, <2>1, <2>2
<1> QED
  BY <1>3, <1>11, <1>12, <1>13, <1>14, <1>15, <1>16 DEF IInv, PlanInv

\* What is saved is a finite manifest again, of files that are not too small.
LEMMA ApplyInv == IInv /\ Apply => IInv'
<1> SUFFICES ASSUME IInv, Apply PROVE IInv'
  OBVIOUS
<1>1. AllocationInv /\ PlanTyped /\ Recording /\ Planning /\ Allotting
  BY DEF IInv, PlanInv
<1> DEFINE kept == DOMAIN files \ deletes
           created == {creates[i].path : i \in DOMAIN creates}
           made(p) == CHOOSE j \in DOMAIN creates : creates[j].path = p
<1>2. /\ pc = "planned" /\ pc' = "idle" /\ strategy' = strategy /\ seed' = 0 /\ wanted' = 0
      /\ deletes' = {} /\ mutations' = NoFiles /\ creates' = <<>>
      /\ rotations' = IF seed = 0 THEN 0 ELSE rotations + 1
      /\ allocation' = allocation
      /\ files' = [p \in kept \cup created |->
            IF p \in created THEN [size |-> creates[made(p)].size, mtime |-> creates[made(p)].mtime]
            ELSE IF p \in DOMAIN mutations THEN mutations[p] ELSE files[p]]
  BY DEF Apply
<1>3. AllocationInv' /\ step' = step
  <2>1. /\ total' = total /\ count' = count /\ sizes' = sizes /\ remaining' = remaining
        /\ over' = over /\ at' = at /\ step' = step
    BY <1>2 DEF allocation
  <2> QED
    BY <1>1, <2>1 DEF AllocationInv, AllocationTypeOK, Dividing, AllocationIsExact
<1>4. /\ DOMAIN creates = 1..Len(creates) /\ Len(creates) \in Nat
      /\ \A i \in 1..Len(creates) :
            /\ creates[i] \in [path : Path, size : Nat, mtime : Int]
            /\ creates[i].size >= MinTier
  <2> DEFINE R == [path : Path, size : Nat, mtime : Int]
  <2>1. creates \in Seq(R) /\ \A i \in 1..Len(creates) : creates[i].size >= MinTier
    BY <1>1 DEF PlanTyped, Recording
  <2> HIDE DEF R
  <2>2. /\ DOMAIN creates = 1..Len(creates) /\ Len(creates) \in Nat
        /\ \A i \in 1..Len(creates) : creates[i] \in R
    BY <2>1
  <2> QED
    BY <2>1, <2>2 DEF R
<1>5. created \subseteq Path /\ IsFiniteSet(created)
  <2> DEFINE g == [i \in DOMAIN creates |-> creates[i].path]
  <2>1. IsFiniteSet(DOMAIN creates) /\ g = [i \in DOMAIN creates |-> g[i]]
    BY <1>4, FS_Interval
  <2>2. created = {g[i] : i \in DOMAIN creates}
    OBVIOUS
  <2>3. IsFiniteSet(created)
    <3> HIDE DEF g, created
    <3> QED
      BY <2>1, <2>2, ImageFinite
  <2> QED
    BY <1>4, <2>3
<1>6. \A p \in created : made(p) \in 1..Len(creates)
  BY <1>4
<1>7. kept \subseteq Path /\ IsFiniteSet(kept)
  BY <1>1, FS_Subset DEF PlanTyped, Recording
<1>8. ASSUME NEW p \in kept \cup created
      PROVE  files'[p] \in Records /\ files'[p].size >= MinTier
  <2>1. CASE p \in created
    <3> DEFINE i == made(p)
    <3>1. i \in 1..Len(creates)
      BY <1>6, <2>1
    <3>2. files'[p] = [size |-> creates[i].size, mtime |-> creates[i].mtime]
      BY <1>2, <2>1
    <3> HIDE DEF i
    <3> QED
      BY <1>4, <3>1, <3>2 DEF Records
  <2>2. CASE p \notin created /\ p \in DOMAIN mutations
    <3>1. files'[p] = mutations[p]
      BY <1>2, <2>2
    <3> QED
      BY <1>1, <2>2, <3>1 DEF PlanTyped, Partial, Recording
  <2>3. CASE p \notin created /\ p \notin DOMAIN mutations
    <3>1. files'[p] = files[p] /\ p \in DOMAIN files
      BY <1>2, <2>3
    <3> QED
      BY <1>1, <3>1 DEF PlanTyped, Partial, Recording
  <2> QED
    BY <2>1, <2>2, <2>3
<1>9. DOMAIN files' = kept \cup created /\ files' = [p \in DOMAIN files' |-> files'[p]]
  BY <1>2
<1>10. IsFiniteSet(DOMAIN files') /\ DOMAIN files' \subseteq Path
  <2> HIDE DEF kept, created
  <2> QED
    BY <1>5, <1>7, <1>9, FS_Union
<1> HIDE DEF kept, created, made
<1>11. DOMAIN mutations' = {}
  BY <1>2 DEF NoFiles
<1>12. rotations' \in 0..MaxRotations
  BY <1>1, <1>2, PlanAssumption DEF PlanTyped, Planning
<1>13. \A p \in DOMAIN files' : files'[p] \in Records /\ files'[p].size >= MinTier
  BY <1>8, <1>9
<1>14. PlanTyped'
  <2>1. DOMAIN files' \subseteq Path /\ Partial(files, Records)'
    BY <1>10, <1>13 DEF Partial
  <2>2. /\ pc' \in {"none", "allocate", "planned", "idle"} /\ strategy' \in Strategies
        /\ seed' \in Seeds \cup {0} /\ wanted' \in Nat
    BY <1>1, <1>2 DEF PlanTyped
  <2>3. deletes' \subseteq DOMAIN files' /\ DOMAIN mutations' \subseteq DOMAIN files' \ deletes'
    BY <1>2, <1>11
  <2>4. Partial(mutations, Records)'
    BY <1>11 DEF Partial
  <2>5. creates' \in Seq([path : Path, size : Nat, mtime : Int])
    BY <1>2
  <2> QED
    BY <1>12, <2>1, <2>2, <2>3, <2>4, <2>5 DEF PlanTyped
<1>15. Recording'
  <2>1. \A p \in DOMAIN mutations' : mutations'[p].size >= MinTier
    BY <1>11
  <2>2. \A i \in 1..Len(creates') : creates'[i].size >= MinTier
    BY <1>2
  <2> QED
    BY <1>9, <1>10, <1>13, <2>1, <2>2 DEF Recording
<1>16. Planning' /\ Allotting'
  BY <1>1, <1>2, <1>3, <1>11 DEF Planning, Allotting
<1>17. MutationsShow' /\ BalancedIsSteady'
  BY <1>2, <1>11 DEF MutationsShow, BalancedIsSteady
<1> QED
  BY <1>3, <1>14, <1>15, <1>16, <1>17 DEF IInv, PlanInv

LEMMA StutterInv == IInv /\ UNCHANGED vars => IInv'
<1> SUFFICES ASSUME IInv, UNCHANGED vars PROVE IInv'
  OBVIOUS
<1>1. /\ total' = total /\ count' = count /\ sizes' = sizes /\ remaining' = remaining
      /\ over' = over /\ at' = at /\ step' = step
      /\ files' = files /\ pc' = pc /\ strategy' = strategy /\ seed' = seed /\ wanted' = wanted
      /\ deletes' = deletes /\ mutations' = mutations /\ creates' = creates
      /\ rotations' = rotations
  BY DEF vars, allocation, planVars
<1>2. AllocationInv'
  BY <1>1 DEF IInv, AllocationInv, AllocationTypeOK, Dividing, AllocationIsExact
<1>3. PlanTyped' /\ Recording'
  BY <1>1 DEF IInv, PlanInv, PlanTyped, Partial, Recording
<1>4. Planning' /\ Allotting'
  BY <1>1 DEF IInv, PlanInv, Planning, Allotting, Churn
<1>5. MutationsShow' /\ BalancedIsSteady'
  BY <1>1 DEF IInv, MutationsShow, BalancedIsSteady
<1> QED
  BY <1>2, <1>3, <1>4, <1>5 DEF IInv, PlanInv

\* Every step preserves the invariant.
LEMMA NextInv == IInv /\ [Next]_vars => IInv'
  BY PlanInitInv, PlanRotateInv, AllocationStepInv, NameFilesInv, ApplyInv, StutterInv DEF Next

-----------------------------------------------------------------------------
(* Theorems *)

\* The invariant that the other theorems follow from holds of every plan, for any
\* profile, any number of rotations and anything the random source comes up with.
THEOREM PlanInductive == Spec => []IInv
  BY InitInv, NextInv, PTL DEF Spec

\* Plans, manifest and allocation keep their types: in particular no file gets a
\* size below zero, and reconcileSizes stays inside the list of sizes.
THEOREM TypeCorrect == Spec => []TypeOK
  BY PlanInductive, Parts, PTL

\* allocateSizes divides the budget to the byte, and gives every file at least the
\* smallest size of a tier, however the draws turn out.
THEOREM BudgetIsDivided == Spec => []AllocationIsExact
<1>1. IInv => AllocationIsExact
  BY DEF IInv, AllocationInv
<1> QED
  BY <1>1, PlanInductive, PTL

\* randomMutationModifiedAt moves every file that a rotation modifies to a later
\* time, whatever times its file and the others were given before.
THEOREM MutationsAreLater == Spec => []MutationsShow
<1>1. IInv => MutationsShow
  BY DEF IInv
<1> QED
  BY <1>1, PlanInductive, PTL

\* A balanced rotation that creates no more files than it deletes keeps the number
\* of files that was asked for and the bytes, after any number of rotations.
THEOREM ChurnIsSteady == Spec => []BalancedIsSteady
<1>1. IInv => BalancedIsSteady
  BY DEF IInv
<1> QED
  BY <1>1, PlanInductive, PTL
=============================================================================
