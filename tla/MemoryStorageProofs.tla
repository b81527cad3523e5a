-------------------------- MODULE MemoryStorageProofs --------------------------
(* What MemoryStorage guarantees, proved for every set of keys and tags,   *)
(* every input, limit and cleanup: types, an exact byte count, budgets     *)
(* that no operation leaves exceeded, a tag index that is sound and, if    *)
(* its limit exceeds maxEntries, complete, and with it the contract of the *)
(* CacheStorage interface.                                                 *)
EXTENDS MemoryStorage, FiniteSetTheorems, SequenceTheorems, TLAPS

-----------------------------------------------------------------------------
(* Least and smallest *)

Smaller == OpToRel(<, Nat)

(* Every set of naturals that is not empty has a least element.  This and  *)
(* the next lemma stand in for induction: the least counterexample, or the *)
(* smallest one, is shown not to be one.                                   *)
LEMMA Least ==
  ASSUME NEW T \in SUBSET Nat, T # {}
  PROVE  \E n \in T : \A m \in T : n <= m
<1>1. IsWellFoundedOn(Smaller, Nat)
  BY NatLessThanWellFounded DEF Smaller
<1>2. \A m, n \in Nat : m < n => <<m, n>> \in Smaller
  BY DEF Smaller, OpToRel
<1>3. \E n \in T : \A m \in T : ~(<<m, n>> \in Smaller)
  BY <1>1, WFMin
<1>4. PICK n \in T : \A m \in T : ~(<<m, n>> \in Smaller)
  BY <1>3
<1>5. ASSUME NEW m \in T
      PROVE  n <= m
  <2>1. m \in Nat /\ n \in Nat /\ ~(m < n)
    BY <1>2, <1>4
  <2> QED  BY <2>1
<1> QED  BY <1>5

(* Of sets of elements of a finite set there is one that contains no other. *)
LEMMA SmallestSubset ==
  ASSUME NEW S, IsFiniteSet(S), NEW C \in SUBSET (SUBSET S), C # {}
  PROVE  \E U \in C : \A V \in C : V \subseteq U => V = U
<1>1. IsWellFoundedOn(StrictSubsetOrdering(S), SUBSET S)
  BY FS_FiniteSubsetsOfFinite, FS_StrictSubsetOrderingWellFounded
<1>2. \E x \in C : \A y \in C : ~ (<<y, x>> \in StrictSubsetOrdering(S))
  BY <1>1, WFMin
<1> QED BY <1>2 DEF StrictSubsetOrdering

-----------------------------------------------------------------------------
(* Folds over finite sets.  What a fold computes is defined by recursion,  *)
(* of which two things have to be shown: that it has a solution, and what  *)
(* every solution does.                                                    *)

(* The recursion of MapThenFoldSet: it is its value on each subset of U, op *)
(* and choice are what is done with an element and which is taken first.   *)
Folds(it, op, base, choice, U) ==
  it = [s \in SUBSET U |->
          IF s = {} THEN base ELSE op[<<choice[s], it[s \ {choice[s]}]>>]]

(* The recursion determines its values.                                    *)
LEMMA FoldsAgree ==
  ASSUME NEW S, IsFiniteSet(S), NEW op, NEW base, NEW choice,
         \A s \in SUBSET S : s # {} => choice[s] \in s,
         NEW U \in SUBSET S, NEW V \in SUBSET U, NEW f, NEW g,
         Folds(f, op, base, choice, U), Folds(g, op, base, choice, V)
  PROVE  \A s \in SUBSET V : f[s] = g[s]
<1> DEFINE C == {s \in SUBSET V : f[s] # g[s]}
<1> SUFFICES ASSUME C # {}
             PROVE  FALSE
  OBVIOUS
<1>1. PICK s \in C : \A t \in C : t \subseteq s => t = s
  <2>1. C \in SUBSET (SUBSET S)
    OBVIOUS
  <2> HIDE DEF C
  <2> QED  BY <2>1, SmallestSubset
<1>2. s \in SUBSET V /\ s \in SUBSET U /\ s \in SUBSET S
  OBVIOUS
<1>3. /\ f[s] = IF s = {} THEN base ELSE op[<<choice[s], f[s \ {choice[s]}]>>]
      /\ g[s] = IF s = {} THEN base ELSE op[<<choice[s], g[s \ {choice[s]}]>>]
  BY <1>2, Zenon DEF Folds
<1>4. CASE s = {}
  BY <1>1, <1>3, <1>4
<1>5. CASE s # {}
  <2>1. s \ {choice[s]} \in SUBSET V /\ s \ {choice[s]} # s
    BY <1>2, <1>5
  <2>2. s \ {choice[s]} \notin C
    BY <1>1, <2>1
  <2>3. f[s \ {choice[s]}] = g[s \ {choice[s]}]
    BY <2>1, <2>2
  <2> QED  BY <1>1, <1>3, <1>5, <2>3
<1> QED  BY <1>4, <1>5

(* The recursion has a solution, on every finite set.                      *)
LEMMA FoldExists ==
  ASSUME NEW S, IsFiniteSet(S), NEW op, NEW base, NEW choice,
         \A s \in SUBSET S : s # {} => choice[s] \in s
  PROVE  \E f : Folds(f, op, base, choice, S)
<1> DEFINE C == {U \in SUBSET S : ~ \E f : Folds(f, op, base, choice, U)}
<1> SUFFICES ASSUME C # {}
             PROVE  FALSE
  OBVIOUS
<1>1. PICK U \in C : \A V \in C : V \subseteq U => V = U
  <2>1. C \in SUBSET (SUBSET S)
    OBVIOUS
  <2> HIDE DEF C
  <2> QED  BY <2>1, SmallestSubset
<1> DEFINE g(V) == CHOOSE f : Folds(f, op, base, choice, V)
           h == [V \in SUBSET U |-> g(V)[V]]
           f == [s \in SUBSET U |-> IF s = {} THEN base
                                    ELSE op[<<choice[s], h[s \ {choice[s]}]>>]]
<1>2. ASSUME NEW V \in SUBSET U, V # U
      PROVE  Folds(g(V), op, base, choice, V)
  <2>1. \E k : Folds(k, op, base, choice, V)
    BY <1>1, <1>2
  <2> QED  BY <2>1, Zenon
<1>3. ASSUME NEW V \in SUBSET U, V # U
      PROVE  f[V] = h[V]
  <2> DEFINE W == V \ {choice[V]}
  <2>1. CASE V = {}
    <3>1. g(V)[V] = base
      BY <1>2, <1>3, <2>1, Zenon DEF Folds
    <3> QED  BY <2>1, <3>1
  <2>2. CASE V # {}
    <3>1. choice[V] \in V /\ W \in SUBSET V /\ W \in SUBSET U /\ W # U
      BY <1>1, <2>2
    <3>2. g(V)[V] = op[<<choice[V], g(V)[W]>>]
      <4>1. g(V) = [s \in SUBSET V |-> IF s = {} THEN base
                      ELSE op[<<choice[s], g(V)[s \ {choice[s]}]>>]]
        BY <1>2, <1>3, Zenon DEF Folds
      <4> HIDE DEF g
      <4> QED  BY <4>1, <2>2
    <3>3. g(V)[W] = g(W)[W]
      <4>1. Folds(g(V), op, base, choice, V) /\ Folds(g(W), op, base, choice, W)
        BY <1>2, <1>3, <3>1
      <4>2. V \in SUBSET S
        BY <1>1
      <4> HIDE DEF g, W
      <4> QED  BY <4>1, <4>2, <3>1, FoldsAgree
    <3> HIDE DEF g, W
    <3>4. h[W] = g(W)[W] /\ h[V] = g(V)[V]
      BY <3>1
    <3>5. f[V] = op[<<choice[V], h[W]>>]
      BY <2>2 DEF W
    <3> QED  BY <3>2, <3>3, <3>4, <3>5
  <2> QED  BY <2>1, <2>2
<1>4. Folds(f, op, base, choice, U)
  <2>1. ASSUME NEW s \in SUBSET U, s # {}
        PROVE  f[s \ {choice[s]}] = h[s \ {choice[s]}]
    <3>1. s \ {choice[s]} \in SUBSET U /\ s \ {choice[s]} # U
      BY <1>1, <2>1
    <3> HIDE DEF f, h
    <3> QED  BY <3>1, <1>3
  <2> HIDE DEF h
  <2>2. f = [s \in SUBSET U |->
               IF s = {} THEN base ELSE op[<<choice[s], f[s \ {choice[s]}]>>]]
    BY <2>1
  <2> QED  BY <2>2 DEF Folds
<1> QED  BY <1>1, <1>4

(* Its values are of the type of what op returns.                          *)
LEMMA FoldType ==
  ASSUME NEW S, IsFiniteSet(S), NEW V, NEW op \in [S \X V -> V],
         NEW base \in V, NEW choice, NEW f,
         \A s \in SUBSET S : s # {} => choice[s] \in s,
         Folds(f, op, base, choice, S)
  PROVE  \A s \in SUBSET S : f[s] \in V
<1> DEFINE C == {s \in SUBSET S : f[s] \notin V}
<1> SUFFICES ASSUME C # {}
             PROVE  FALSE
  OBVIOUS
<1>1. PICK s \in C : \A t \in C : t \subseteq s => t = s
  <2>1. C \in SUBSET (SUBSET S)
    OBVIOUS
  <2> HIDE DEF C
  <2> QED  BY <2>1, SmallestSubset
<1>2. f[s] = IF s = {} THEN base ELSE op[<<choice[s], f[s \ {choice[s]}]>>]
  BY <1>1, Zenon DEF Folds
<1>3. s # {}
  BY <1>1, <1>2
<1>4. choice[s] \in S /\ f[s \ {choice[s]}] \in V
  <2>1. choice[s] \in s
    BY <1>1, <1>3
  <2>2. s \ {choice[s]} \in SUBSET S /\ s \ {choice[s]} # s /\ s \ {choice[s]} \subseteq s
    BY <1>1, <2>1
  <2>3. s \ {choice[s]} \notin C
    BY <1>1, <2>2
  <2> QED  BY <1>1, <2>1, <2>2, <2>3
<1>5. op[<<choice[s], f[s \ {choice[s]}]>>] \in V
  BY <1>4
<1> QED  BY <1>1, <1>2, <1>3, <1>5

-----------------------------------------------------------------------------
(* Ordered sets *)

(* Appending adds one element.                                             *)
LEMMA AppendElements ==
  ASSUME NEW E, NEW s \in Seq(E), NEW e \in E
  PROVE  /\ ToSet(Append(s, e)) = ToSet(s) \union {e}
         /\ IsInjective(s) /\ e \notin ToSet(s) => IsInjective(Append(s, e))
<1> DEFINE t == Append(s, e)
<1>1. /\ Len(s) \in Nat /\ DOMAIN s = 1 .. Len(s)
      /\ DOMAIN t = 1 .. (Len(s) + 1)
      /\ \A i \in 1 .. Len(s) : t[i] = s[i]
      /\ t[Len(s) + 1] = e
  <2>1. t \in Seq(E) /\ Len(t) = Len(s) + 1
    BY AppendProperties
  <2>2. DOMAIN t = 1 .. Len(t)
    BY <2>1, LenProperties
  <2> QED  BY <2>1, <2>2, AppendProperties, LenProperties
<1> HIDE DEF t
<1>2. DOMAIN t = DOMAIN s \union {Len(s) + 1}
  BY <1>1
<1>3. ToSet(t) = ToSet(s) \union {e}
  BY <1>1, <1>2 DEF ToSet
<1>4. ASSUME IsInjective(s), e \notin ToSet(s)
      PROVE  IsInjective(t)
  <2>1. \A i \in DOMAIN s : t[i] # e
    BY <1>1, <1>4 DEF ToSet
  <2> SUFFICES ASSUME NEW i \in DOMAIN t, NEW j \in DOMAIN t, t[i] = t[j]
               PROVE  i = j
    BY DEF IsInjective
  <2> QED  BY <1>1, <1>2, <1>4, <2>1 DEF IsInjective
<1> QED  BY <1>3, <1>4 DEF t

(* The elements are of the sequence's type.                                *)
LEMMA ElementsType ==
  ASSUME NEW E, NEW s \in Seq(E)
  PROVE  ToSet(s) \subseteq E /\ (s # <<>> => ToSet(s) # {})
<1>1. DOMAIN s = 1 .. Len(s) /\ Len(s) \in Nat
  BY LenProperties
<1>2. \A i \in DOMAIN s : s[i] \in E
  BY <1>1, ElementOfSeq
<1>3. ASSUME s # <<>>
      PROVE  s[1] \in ToSet(s)
  BY <1>1, <1>3, EmptySeq DEF ToSet
<1> QED  BY <1>2, <1>3 DEF ToSet

(* A sequence without repetitions is as long as its elements are many.     *)
LEMMA DistinctLength ==
  ASSUME NEW E, NEW s \in Seq(E), IsInjective(s)
  PROVE  IsFiniteSet(ToSet(s)) /\ Cardinality(ToSet(s)) = Len(s)
<1>1. DOMAIN s = 1 .. Len(s) /\ Len(s) \in Nat /\ s \in [1 .. Len(s) -> E]
  BY LenProperties
<1>2. s \in [1 .. Len(s) -> ToSet(s)] /\ \A x \in ToSet(s) : \E i \in 1 .. Len(s) : s[i] = x
  BY <1>1 DEF ToSet
<1>3. s \in Bijection(1 .. Len(s), ToSet(s))
  BY <1>1, <1>2 DEF Bijection, Injection, Surjection, IsInjective
<1>4. ExistsBijection(1 .. Len(s), ToSet(s))
  BY <1>3 DEF ExistsBijection
<1>5. IsFiniteSet(1 .. Len(s)) /\ Cardinality(1 .. Len(s)) = Len(s)
  BY <1>1, FS_Interval
<1> QED  BY <1>4, <1>5, FS_Bijection

(* Contains asks for an element.                                           *)
LEMMA ContainsElement ==
  ASSUME NEW E, NEW s \in Seq(E), NEW e
  PROVE  Contains(s, e) <=> e \in ToSet(s)
BY LenProperties DEF Contains, ToSet

(* add() keeps an ordered set one.                                         *)
LEMMA SetAddProperties ==
  ASSUME NEW E, NEW s \in Seq(E), NEW e \in E
  PROVE  /\ SetAdd(s, e) \in Seq(E)
         /\ ToSet(SetAdd(s, e)) = ToSet(s) \union {e}
         /\ IsInjective(s) => IsInjective(SetAdd(s, e))
<1>1. CASE e \in ToSet(s)
  <2>1. SetAdd(s, e) = s
    BY <1>1, ContainsElement DEF SetAdd
  <2> QED  BY <1>1, <2>1
<1>2. CASE e \notin ToSet(s)
  <2>1. SetAdd(s, e) = Append(s, e)
    BY <1>2, ContainsElement DEF SetAdd
  <2> QED  BY <1>2, <2>1, AppendElements, AppendProperties
<1> QED  BY <1>1, <1>2

(* The place of a position among P, as in Picked.                          *)
Place(P, i) == Cardinality({j \in P : j <= i})

(* Each place is taken by one position.                                    *)
LEMMA PlaceProperties ==
  ASSUME NEW m \in Nat, NEW P \in SUBSET (1 .. m)
  PROVE  /\ Cardinality(P) \in Nat
         /\ \A i \in P : Place(P, i) \in 1 .. Cardinality(P)
         /\ \A i, k \in P : Place(P, i) = Place(P, k) => i = k
         /\ \A n \in 1 .. Cardinality(P) : \E i \in P : Place(P, i) = n
<1> DEFINE Upto(i) == {j \in P : j <= i}
           c == Cardinality(P)
           place == [i \in P |-> Place(P, i)]
<1>1. IsFiniteSet(P) /\ c \in Nat /\ \A i \in P : i \in Nat
  <2>1. IsFiniteSet(1 .. m)
    BY FS_Interval
  <2>2. IsFiniteSet(P)
    BY <2>1, FS_Subset
  <2> QED  BY <2>2, FS_CardinalityType
<1>2. ASSUME NEW i \in P
      PROVE  IsFiniteSet(Upto(i)) /\ Place(P, i) \in 1 .. c
  <2>1. IsFiniteSet(Upto(i)) /\ Cardinality(Upto(i)) <= c /\ Cardinality(Upto(i)) \in Nat
    BY <1>1, FS_Subset, FS_CardinalityType
  <2>2. i \in Upto(i)
    BY <1>1
  <2>3. Cardinality(Upto(i)) # 0
    BY <2>1, <2>2, FS_EmptySet
  <2> HIDE DEF c
  <2> QED  BY <1>1, <2>1, <2>3 DEF Place
<1>3. ASSUME NEW i \in P, NEW k \in P, i < k
      PROVE  Place(P, i) # Place(P, k)
  <2>1. Upto(i) \in SUBSET Upto(k) /\ k \in Upto(k) \ Upto(i)
    <3>1. i \in Nat /\ k \in Nat /\ \A j \in P : j \in Nat
      BY <1>1
    <3>2. \A j \in P : j <= i => j <= k
      BY <1>3, <3>1
    <3>3. k <= k /\ ~(k <= i)
      BY <1>3, <3>1
    <3> QED  BY <3>2, <3>3
  <2>2. Upto(i) # Upto(k)
    BY <2>1
  <2> HIDE DEF Upto
  <2>3. Cardinality(Upto(i)) # Cardinality(Upto(k))
    BY <1>2, <2>1, <2>2, FS_Subset
  <2> QED  BY <2>3 DEF Place, Upto
<1>4. \A i, k \in P : Place(P, i) = Place(P, k) => i = k
  <2> SUFFICES ASSUME NEW i \in P, NEW k \in P, i # k
               PROVE  Place(P, i) # Place(P, k)
    OBVIOUS
  <2>1. i < k \/ k < i
    BY <1>1
  <2> QED  BY <1>3, <2>1
<1>5. place \in Injection(P, 1 .. c)
  BY <1>2, <1>4 DEF Injection, IsInjective
<1>6. IsFiniteSet(1 .. c) /\ Cardinality(1 .. c) = c
  BY <1>1, FS_Interval
<1>7. place \in Surjection(P, 1 .. c)
  <2> HIDE DEF place
  <2> QED  BY <1>5, <1>6, FS_Injection
<1>8. \A n \in 1 .. c : \E i \in P : place[i] = n
  BY <1>7 DEF Surjection
<1> QED  BY <1>1, <1>2, <1>4, <1>8

(* What is picked is what there is at the positions, once for each.        *)
LEMMA PickedProperties ==
  ASSUME NEW E, NEW s \in Seq(E), NEW P \in SUBSET DOMAIN s
  PROVE  /\ Picked(s, P) \in Seq(E)
         /\ ToSet(Picked(s, P)) = {s[i] : i \in P}
         /\ IsInjective(s) => IsInjective(Picked(s, P))
<1> DEFINE c == Cardinality(P)
           At(n) == CHOOSE i \in P : Place(P, i) = n
           p == Picked(s, P)
<1>1. DOMAIN s = 1 .. Len(s) /\ Len(s) \in Nat /\ \A i \in DOMAIN s : s[i] \in E
  BY LenProperties, ElementOfSeq
<1>2. /\ c \in Nat
      /\ \A i \in P : Place(P, i) \in 1 .. c
      /\ \A i, k \in P : Place(P, i) = Place(P, k) => i = k
      /\ \A n \in 1 .. c : \E i \in P : Place(P, i) = n
  BY <1>1, PlaceProperties
<1>3. p = [n \in 1 .. c |-> s[At(n)]]
  BY DEF Picked, Place
<1>4. ASSUME NEW n \in 1 .. c
      PROVE  At(n) \in P /\ Place(P, At(n)) = n
  BY <1>2, <1>4, Zenon
<1>5. \A i \in P : At(Place(P, i)) = i
  BY <1>2, <1>4
<1> HIDE DEF p, At, c
<1>6. p \in Seq(E)
  BY <1>1, <1>2, <1>3, <1>4, IsASeq
<1>7. DOMAIN p = 1 .. c
  BY <1>3
<1>8. ToSet(p) = {s[i] : i \in P}
  <2>1. \A n \in 1 .. c : p[n] = s[At(n)] /\ At(n) \in P
    BY <1>3, <1>4
  <2>2. \A i \in P : Place(P, i) \in 1 .. c /\ p[Place(P, i)] = s[i]
    BY <1>2, <1>3, <1>5
  <2> QED  BY <1>7, <2>1, <2>2 DEF ToSet
<1>9. ASSUME IsInjective(s)
      PROVE  IsInjective(p)
  <2> SUFFICES ASSUME NEW n \in 1 .. c, NEW k \in 1 .. c, p[n] = p[k]
               PROVE  n = k
    BY <1>7 DEF IsInjective
  <2>1. At(n) \in DOMAIN s /\ At(k) \in DOMAIN s /\ s[At(n)] = s[At(k)]
    BY <1>3, <1>4
  <2>2. At(n) = At(k)
    BY <1>9, <2>1 DEF IsInjective
  <2> QED  BY <1>4, <2>2
<1> QED  BY <1>6, <1>8, <1>9 DEF p

(* filter() keeps what it should, and nothing twice that was there once.   *)
LEMMA FilterProperties ==
  ASSUME NEW E, NEW s \in Seq(E), NEW S
  PROVE  /\ Filter(s, S) \in Seq(E)
         /\ ToSet(Filter(s, S)) = ToSet(s) \intersect S
         /\ IsInjective(s) => IsInjective(Filter(s, S))
<1> DEFINE P == {i \in DOMAIN s : s[i] \in S}
<1>1. P \in SUBSET DOMAIN s /\ Filter(s, S) = Picked(s, P)
  BY DEF Filter
<1>2. {s[i] : i \in P} = ToSet(s) \intersect S
  BY DEF ToSet
<1> HIDE DEF P
<1> QED  BY <1>1, <1>2, PickedProperties

-----------------------------------------------------------------------------
(* Sizes *)

(* The element that a sum takes first.                                     *)
First(s) == CHOOSE k \in s : TRUE

(* it is the sum of the sizes on each subset of U.                         *)
Sums(it, m, U) ==
  it = [s \in SUBSET U |->
          IF s = {} THEN 0 ELSE m.records[First(s)].size + it[s \ {First(s)}]]

(* The keys of S have the same sizes in both.                              *)
SameSizes(m, n, S) == \A k \in S : m.records[k].size = n.records[k].size

(* Every key of S has a size.                                              *)
Sized(m, S) == IsFiniteSet(S) /\ \A k \in S : m.records[k].size \in Nat

(* The element taken first is one.                                         *)
LEMMA FirstIn == \A s : s # {} => First(s) \in s
BY Zenon DEF First

(* SizeOf is such a sum.                                                   *)
LEMMA SizeSums ==
  ASSUME NEW m, NEW S, Sized(m, S)
  PROVE  \E it : Sums(it, m, S) /\ SizeOf(m, S) = it[S]
<1> DEFINE choice == [s \in SUBSET S |-> First(s)]
           op == [p \in S \X Nat |-> m.records[p[1]].size + p[2]]
           Eq(it) == it = [s \in SUBSET S |->
                       IF s = {} THEN 0
                       ELSE m.records[CHOOSE k \in s : TRUE].size
                              + it[s \ {CHOOSE k \in s : TRUE}]]
<1>1. \A s \in SUBSET S : s # {} => choice[s] \in s /\ choice[s] = First(s)
  BY FirstIn
<1>2. op \in [S \X Nat -> Nat]
  BY DEF Sized
<1>3. ASSUME NEW k \in S, NEW n \in Nat
      PROVE  op[<<k, n>>] = m.records[k].size + n
  OBVIOUS
<1> HIDE DEF choice, op
<1>4. PICK f : Folds(f, op, 0, choice, S)
  BY <1>1, FoldExists DEF Sized
<1>5. \A s \in SUBSET S : f[s] \in Nat
  <2>1. \A s \in SUBSET S : s # {} => choice[s] \in s
    BY <1>1
  <2> QED  BY <1>2, <1>4, <2>1, FoldType DEF Sized
<1>6. Sums(f, m, S)
  <2>1. ASSUME NEW s \in SUBSET S, s # {}
        PROVE  op[<<choice[s], f[s \ {choice[s]}]>>]
                 = m.records[First(s)].size + f[s \ {First(s)}]
    <3>1. choice[s] = First(s) /\ First(s) \in S /\ f[s \ {First(s)}] \in Nat
      BY <1>1, <1>5, <2>1
    <3> QED  BY <1>3, <3>1
  <2>2. f = [s \in SUBSET S |->
               IF s = {} THEN 0 ELSE op[<<choice[s], f[s \ {choice[s]}]>>]]
    BY <1>4, Zenon DEF Folds
  <2>3. f = [s \in SUBSET S |->
               IF s = {} THEN 0 ELSE m.records[First(s)].size + f[s \ {First(s)}]]
    BY <2>1, <2>2
  <2> QED  BY <2>3 DEF Sums
<1>7. \E it : Eq(it)
  BY <1>6, Zenon DEF Sums, First
<1>8. \E it : Eq(it) /\ SizeOf(m, S) = it[S]
  BY <1>7, Zenon DEF SizeOf, MapThenSumSet, MapThenFoldSet
<1> QED  BY <1>8, Zenon DEF Sums, First

(* Two sums over the same sizes agree where both are defined.              *)
LEMMA SumsAgree ==
  ASSUME NEW m, NEW n, NEW U, IsFiniteSet(U), NEW V, NEW S,
         S \subseteq U, S \subseteq V, SameSizes(m, n, S),
         NEW f, NEW g, Sums(f, m, U), Sums(g, n, V)
  PROVE  f[S] = g[S]
<1> DEFINE C == {s \in SUBSET S : f[s] # g[s]}
<1> SUFFICES ASSUME C # {}
             PROVE  FALSE
  <2> HIDE DEF C
  <2>1. C = {} => \A s \in SUBSET S : f[s] = g[s]
    BY DEF C
  <2> QED  BY <2>1
<1>1. PICK s \in C : \A t \in C : t \subseteq s => t = s
  <2>1. C \in SUBSET (SUBSET S) /\ IsFiniteSet(S)
    BY FS_Subset
  <2> HIDE DEF C
  <2> QED  BY <2>1, SmallestSubset
<1>2. s \in SUBSET U /\ s \in SUBSET V /\ s \in SUBSET S
  OBVIOUS
<1>3. /\ f[s] = IF s = {} THEN 0 ELSE m.records[First(s)].size + f[s \ {First(s)}]
      /\ g[s] = IF s = {} THEN 0 ELSE n.records[First(s)].size + g[s \ {First(s)}]
  BY <1>2, Zenon DEF Sums
<1>4. CASE s = {}
  BY <1>1, <1>3, <1>4
<1>5. CASE s # {}
  <2>0. First(s) \in s
    BY <1>5, FirstIn
  <2>1. s \ {First(s)} \in SUBSET S /\ s \ {First(s)} # s /\ s \ {First(s)} \subseteq s
    BY <1>2, <2>0
  <2>2. s \ {First(s)} \notin C
    BY <1>1, <2>1
  <2>3. f[s \ {First(s)}] = g[s \ {First(s)}]
    BY <2>1, <2>2
  <2>4. m.records[First(s)].size = n.records[First(s)].size
    BY <1>2, <2>0 DEF SameSizes
  <2> QED  BY <1>1, <1>3, <1>5, <2>3, <2>4
<1> QED  BY <1>4, <1>5

(* SizeOf depends on the sizes only.                                       *)
LEMMA SizeSame ==
  ASSUME NEW m, NEW n, NEW S, Sized(m, S), SameSizes(m, n, S)
  PROVE  SizeOf(m, S) = SizeOf(n, S)
<1>1. Sized(n, S)
  BY DEF Sized, SameSizes
<1>2. PICK f : Sums(f, m, S) /\ SizeOf(m, S) = f[S]
  BY SizeSums
<1>3. PICK g : Sums(g, n, S) /\ SizeOf(n, S) = g[S]
  BY <1>1, SizeSums
<1>4. f[S] = g[S]
  <2>1. IsFiniteSet(S) /\ S \subseteq S
    BY DEF Sized
  <2> QED  BY <1>2, <1>3, <2>1, SumsAgree
<1> QED  BY <1>2, <1>3, <1>4

(* The recursion, of SizeOf itself.                                        *)
LEMMA SizeStep ==
  ASSUME NEW m, NEW S, Sized(m, S)
  PROVE  SizeOf(m, S) = IF S = {} THEN 0
                        ELSE m.records[First(S)].size + SizeOf(m, S \ {First(S)})
<1> DEFINE R == S \ {First(S)}
<1>1. PICK f : Sums(f, m, S) /\ SizeOf(m, S) = f[S]
  BY SizeSums
<1>2. f[S] = IF S = {} THEN 0 ELSE m.records[First(S)].size + f[R]
  BY <1>1, Zenon DEF Sums
<1>3. Sized(m, R)
  BY FS_Subset DEF Sized
<1>4. PICK g : Sums(g, m, R) /\ SizeOf(m, R) = g[R]
  <2> HIDE DEF R
  <2> QED  BY <1>3, SizeSums
<1>5. f[R] = g[R]
  <2>1. R \subseteq S
    OBVIOUS
  <2> HIDE DEF R
  <2>2. IsFiniteSet(S) /\ R \subseteq R /\ SameSizes(m, m, R)
    BY DEF Sized, SameSizes
  <2> QED  BY <1>1, <1>4, <2>1, <2>2, SumsAgree
<1> QED  BY <1>1, <1>2, <1>4, <1>5

(* A sum of sizes is a number; any of its elements can be taken first.     *)
LEMMA SizeRemove ==
  ASSUME NEW m, NEW S, Sized(m, S)
  PROVE  /\ SizeOf(m, S) \in Nat
         /\ \A x \in S : SizeOf(m, S) = m.records[x].size + SizeOf(m, S \ {x})
<1> DEFINE Good(s) == /\ SizeOf(m, s) \in Nat
                      /\ \A x \in s : SizeOf(m, s) = m.records[x].size + SizeOf(m, s \ {x})
           C == {s \in SUBSET S : ~Good(s)}
<1> SUFFICES ASSUME C # {}
             PROVE  FALSE
  <2> HIDE DEF Good
  <2>1. Good(S)
    OBVIOUS
  <2> QED  BY <2>1 DEF Good
<1>0. IsFiniteSet(S)
  BY DEF Sized
<1>1. PICK s \in C : \A t \in C : t \subseteq s => t = s
  <2>1. C \in SUBSET (SUBSET S)
    OBVIOUS
  <2> HIDE DEF C
  <2> QED  BY <1>0, <2>1, SmallestSubset
<1>2. s \in SUBSET S /\ ~Good(s)
  OBVIOUS
<1>3. \A t \in SUBSET s : t # s => Good(t)
  <2> HIDE DEF Good
  <2> QED  BY <1>1, <1>2
<1>4. /\ Sized(m, s)
      /\ \A t \in SUBSET s : Sized(m, t)
  BY <1>2, FS_Subset DEF Sized
<1> HIDE DEF C
<1>5. CASE s = {}
  <2>1. SizeOf(m, s) = 0
    BY <1>4, <1>5, SizeStep
  <2> QED  BY <1>2, <1>5, <2>1
<1>6. CASE s # {}
  <2>1. PICK c : c = First(s)
    OBVIOUS
  <2>2. c \in s /\ SizeOf(m, s) = m.records[c].size + SizeOf(m, s \ {c})
    BY <1>4, <1>6, <2>1, FirstIn, SizeStep
  <2>3. \A x \in s : /\ s \ {x} \in SUBSET s /\ s \ {x} # s
                     /\ m.records[x].size \in Nat
    BY <1>4 DEF Sized
  <2>4. \A x \in s : SizeOf(m, s \ {x}) \in Nat
    BY <1>3, <2>3
  <2>5. ASSUME NEW x \in s, x # c
        PROVE  SizeOf(m, s) = m.records[x].size + SizeOf(m, s \ {x})
    <3> DEFINE r == (s \ {c}) \ {x}
    <3>1. r = (s \ {x}) \ {c} /\ r \in SUBSET s /\ r # s /\ x \in s \ {c} /\ c \in s \ {x}
      BY <2>2, <2>5
    <3>2. SizeOf(m, r) \in Nat
      BY <1>3, <3>1
    <3>3. SizeOf(m, s \ {c}) = m.records[x].size + SizeOf(m, r)
      BY <1>3, <2>2, <2>3, <3>1
    <3>4. SizeOf(m, s \ {x}) = m.records[c].size + SizeOf(m, r)
      BY <1>3, <2>3, <3>1
    <3> HIDE DEF r
    <3> QED  BY <2>2, <2>3, <3>2, <3>3, <3>4
  <2>6. SizeOf(m, s) \in Nat
    BY <2>2, <2>3, <2>4
  <2> QED  BY <1>2, <2>2, <2>5, <2>6
<1> QED  BY <1>5, <1>6

(* What is taken out is taken off.                                         *)
LEMMA SizeMinus ==
  ASSUME NEW m, NEW S, Sized(m, S), NEW T \in SUBSET S
  PROVE  SizeOf(m, S \ T) = SizeOf(m, S) - SizeOf(m, T)
<1> DEFINE C == {t \in SUBSET T : SizeOf(m, S \ t) # SizeOf(m, S) - SizeOf(m, t)}
<1> SUFFICES ASSUME C # {}
             PROVE  FALSE
  OBVIOUS
<1>0. \A t \in SUBSET S : Sized(m, t) /\ SizeOf(m, t) \in Nat
  BY FS_Subset, SizeRemove DEF Sized
<1>1. PICK t \in C : \A u \in C : u \subseteq t => u = t
  <2>1. C \in SUBSET (SUBSET T) /\ IsFiniteSet(T)
    BY <1>0 DEF Sized
  <2> HIDE DEF C
  <2> QED  BY <2>1, SmallestSubset
<1>2. t \in SUBSET S /\ SizeOf(m, S \ t) # SizeOf(m, S) - SizeOf(m, t)
  OBVIOUS
<1>3. t # {}
  <2>1. SizeOf(m, {}) = 0 /\ S \ {} = S /\ SizeOf(m, S) \in Nat
    <3>1. Sized(m, {})
      BY <1>0
    <3> QED  BY <1>0, <3>1, SizeStep
  <2> HIDE DEF C
  <2> QED  BY <1>2, <2>1
<1>4. PICK x \in t : TRUE
  BY <1>3
<1> DEFINE u == t \ {x}
<1>5. SizeOf(m, S \ u) = SizeOf(m, S) - SizeOf(m, u)
  <2>1. u \subseteq t /\ u # t /\ u \in SUBSET T
    BY <1>1
  <2>2. u \notin C
    <3> HIDE DEF C, u
    <3> QED  BY <1>1, <2>1
  <2> QED  BY <2>1, <2>2
<1>6. SizeOf(m, t) = m.records[x].size + SizeOf(m, u)
  BY <1>0, <1>2, SizeRemove
<1>7. SizeOf(m, S \ u) = m.records[x].size + SizeOf(m, S \ t)
  <2>1. (S \ u) \ {x} = S \ t /\ x \in S \ u
    BY <1>2
  <2>2. Sized(m, S \ u)
    BY <1>0
  <2> HIDE DEF u
  <2> QED  BY <2>1, <2>2, SizeRemove
<1>8. /\ SizeOf(m, S) \in Nat /\ SizeOf(m, u) \in Nat /\ SizeOf(m, t) \in Nat
      /\ SizeOf(m, S \ t) \in Nat /\ SizeOf(m, S \ u) \in Nat /\ m.records[x].size \in Nat
  BY <1>0, <1>2 DEF Sized
<1> HIDE DEF u, C
<1> QED  BY <1>2, <1>5, <1>6, <1>7, <1>8

-----------------------------------------------------------------------------
(* The storage *)

Mem == [records : UNION {[S -> Record] : S \in SUBSET Keys}, order : Seq(Keys),
        index : [Tags -> Seq(Keys)], bytes : Int]

(* What every private function can rely on, and leaves behind.             *)
Coherent(m) ==
  /\ m \in Mem
  /\ IsInjective(m.order) /\ ToSet(m.order) = Stored(m)
  /\ m.bytes = SizeOf(m, Stored(m))
  /\ \A t \in Tags :
       /\ IsInjective(m.index[t])
       /\ \A k \in ToSet(m.index[t]) : k \in Stored(m) /\ t \in m.records[k].tags

(* An entry is found under each of its tags.                               *)
Complete(m) ==
  \A k \in Stored(m) : \A t \in m.records[k].tags : k \in ToSet(m.index[t])

(* The types of what is in a coherent storage.                             *)
LEMMA CoherentType ==
  ASSUME NEW m, Coherent(m)
  PROVE  /\ Stored(m) \subseteq Keys /\ m.records \in [Stored(m) -> Record]
         /\ m.order \in Seq(Keys) /\ m.index \in [Tags -> Seq(Keys)]
         /\ \A k \in Stored(m) : /\ m.records[k].size \in Nat
                                 /\ m.records[k].tags \subseteq Tags
                                 /\ m.records[k].rev \in Revisions
         /\ IsFiniteSet(Stored(m)) /\ Cardinality(Stored(m)) = Len(m.order)
         /\ Len(m.order) \in Nat
         /\ \A S \in SUBSET Stored(m) : Sized(m, S)
<1>1. m \in Mem /\ IsInjective(m.order) /\ ToSet(m.order) = Stored(m)
  BY DEF Coherent
<1>2. PICK S \in SUBSET Keys : m.records \in [S -> Record]
  BY <1>1 DEF Mem
<1>3. Stored(m) = S
  BY <1>2 DEF Stored
<1>4. m.order \in Seq(Keys) /\ m.index \in [Tags -> Seq(Keys)]
  BY <1>1 DEF Mem
<1>5. IsFiniteSet(Stored(m)) /\ Cardinality(Stored(m)) = Len(m.order)
  BY <1>1, <1>4, DistinctLength
<1>6. ASSUME NEW k \in Stored(m)
      PROVE  /\ m.records[k].size \in Nat /\ m.records[k].tags \subseteq Tags
             /\ m.records[k].rev \in Revisions
  BY <1>2, <1>3 DEF Record
<1>7. \A T \in SUBSET Stored(m) : Sized(m, T)
  BY <1>5, <1>6, FS_Subset DEF Sized
<1>8. Len(m.order) \in Nat
  BY <1>4, LenProperties
<1> QED  BY <1>2, <1>3, <1>4, <1>5, <1>6, <1>7, <1>8

(* The bytes are those of the entries.                                     *)
LEMMA CoherentBytes ==
  ASSUME NEW m, Coherent(m)
  PROVE  m.bytes \in Nat
<1>1. Sized(m, Stored(m))
  BY CoherentType
<1> QED  BY <1>1, SizeRemove DEF Coherent

(* remove() takes entries out of everything.                               *)
LEMMA RemovedProperties ==
  ASSUME NEW m, Coherent(m), NEW S, NEW r, r = Removed(m, S)
  PROVE  /\ Coherent(r)
         /\ Stored(r) = Stored(m) \ S
         /\ \A k \in Stored(r) : r.records[k] = m.records[k]
         /\ Complete(m) => Complete(r)
         /\ Len(r.order) <= Len(m.order) /\ r.bytes <= m.bytes
<1> DEFINE gone == S \intersect Stored(m)
           tagged(t) == {k \in gone : t \in m.records[k].tags}
<1>1. /\ Stored(m) \subseteq Keys /\ m.records \in [Stored(m) -> Record]
      /\ m.order \in Seq(Keys) /\ m.index \in [Tags -> Seq(Keys)]
      /\ IsFiniteSet(Stored(m)) /\ Cardinality(Stored(m)) = Len(m.order)
      /\ \A T \in SUBSET Stored(m) : Sized(m, T)
      /\ IsInjective(m.order) /\ ToSet(m.order) = Stored(m)
      /\ m.bytes = SizeOf(m, Stored(m))
  BY CoherentType DEF Coherent
<1>2. /\ r.records = [k \in Stored(m) \ gone |-> m.records[k]]
      /\ r.order = Filter(m.order, Keys \ gone)
      /\ r.index = [t \in Tags |-> Filter(m.index[t], Keys \ tagged(t))]
      /\ r.bytes = m.bytes - SizeOf(m, gone)
      /\ r = [records |-> r.records, order |-> r.order, index |-> r.index,
              bytes |-> r.bytes]
  BY DEF Removed, Unregistered, Restrict
<1>3. Stored(r) = Stored(m) \ S /\ \A k \in Stored(r) : r.records[k] = m.records[k]
  BY <1>2 DEF Stored
<1>4. /\ r.order \in Seq(Keys) /\ IsInjective(r.order) /\ ToSet(r.order) = Stored(r)
  <2>1. /\ Filter(m.order, Keys \ gone) \in Seq(Keys)
        /\ ToSet(Filter(m.order, Keys \ gone)) = ToSet(m.order) \intersect (Keys \ gone)
        /\ IsInjective(Filter(m.order, Keys \ gone))
    BY <1>1, FilterProperties
  <2> QED  BY <1>1, <1>2, <1>3, <2>1
<1>5. ASSUME NEW t \in Tags
      PROVE  /\ r.index[t] \in Seq(Keys) /\ IsInjective(r.index[t])
             /\ ToSet(r.index[t]) = ToSet(m.index[t]) \ tagged(t)
  <2>1. /\ m.index[t] \in Seq(Keys) /\ IsInjective(m.index[t])
        /\ ToSet(m.index[t]) \subseteq Keys
    BY <1>1, ElementsType DEF Coherent
  <2>2. r.index[t] = Filter(m.index[t], Keys \ tagged(t))
    BY <1>2
  <2> HIDE DEF tagged
  <2>3. /\ Filter(m.index[t], Keys \ tagged(t)) \in Seq(Keys)
        /\ ToSet(Filter(m.index[t], Keys \ tagged(t)))
             = ToSet(m.index[t]) \intersect (Keys \ tagged(t))
        /\ IsInjective(Filter(m.index[t], Keys \ tagged(t)))
    BY <2>1, FilterProperties
  <2> QED  BY <2>1, <2>2, <2>3
<1>6. ASSUME NEW t \in Tags
      PROVE  /\ IsInjective(r.index[t])
             /\ \A k \in ToSet(r.index[t]) : k \in Stored(r) /\ t \in r.records[k].tags
  <2>1. ASSUME NEW k \in ToSet(r.index[t])
        PROVE  k \in Stored(r) /\ t \in r.records[k].tags
    <3>1. k \in ToSet(m.index[t]) /\ k \notin tagged(t)
      BY <1>5, <2>1
    <3>2. k \in Stored(m) /\ t \in m.records[k].tags
      BY <3>1 DEF Coherent
    <3> QED  BY <1>3, <3>1, <3>2
  <2> QED  BY <1>5, <2>1
<1>7. SizeOf(r, Stored(r)) = SizeOf(m, Stored(m) \ gone)
  <2>1. Stored(r) = Stored(m) \ gone /\ Sized(r, Stored(r))
    <3>1. Stored(r) = Stored(m) \ gone
      BY <1>3
    <3>2. Sized(m, Stored(r))
      BY <1>1, <3>1
    <3> QED  BY <1>3, <3>1, <3>2 DEF Sized
  <2>2. SameSizes(r, m, Stored(r))
    BY <1>3 DEF SameSizes
  <2> QED  BY <2>1, <2>2, SizeSame
<1>8. SizeOf(m, Stored(m) \ gone) = SizeOf(m, Stored(m)) - SizeOf(m, gone)
  <2>1. gone \in SUBSET Stored(m)
    OBVIOUS
  <2> HIDE DEF gone
  <2> QED  BY <1>1, <2>1, SizeMinus
<1>9. /\ SizeOf(m, Stored(m)) \in Nat /\ SizeOf(m, gone) \in Nat
  <2>1. Sized(m, Stored(m)) /\ Sized(m, gone)
    BY <1>1
  <2> QED  BY <2>1, SizeRemove
<1>10. r \in Mem
  <2>1. r.records \in [Stored(r) -> Record] /\ Stored(r) \subseteq Keys
    BY <1>1, <1>2, <1>3
  <2>2. r.records \in UNION {[T -> Record] : T \in SUBSET Keys}
    BY <2>1
  <2>3. r.index \in [Tags -> Seq(Keys)]
    BY <1>2, <1>5
  <2>4. r.bytes \in Int
    BY <1>1, <1>2, <1>9
  <2> QED  BY <1>2, <1>4, <2>2, <2>3, <2>4 DEF Mem
<1>11. Coherent(r)
  BY <1>1, <1>2, <1>4, <1>6, <1>7, <1>8, <1>10 DEF Coherent
<1>12. ASSUME Complete(m)
       PROVE  Complete(r)
  <2> SUFFICES ASSUME NEW k \in Stored(r), NEW t \in r.records[k].tags
               PROVE  k \in ToSet(r.index[t])
    BY DEF Complete
  <2>1. k \in Stored(m) /\ k \notin S /\ t \in m.records[k].tags
    BY <1>3
  <2>2. t \in Tags
    BY <2>1, CoherentType
  <2>3. k \in ToSet(m.index[t]) /\ k \notin tagged(t)
    BY <1>12, <2>1 DEF Complete
  <2> QED  BY <1>5, <2>2, <2>3
<1>13. Len(r.order) <= Len(m.order) /\ r.bytes <= m.bytes
  <2>1. Cardinality(Stored(r)) <= Cardinality(Stored(m))
    BY <1>1, <1>3, FS_Subset
  <2>2. Cardinality(Stored(r)) = Len(r.order)
    BY <1>11, CoherentType
  <2> HIDE DEF gone
  <2> QED  BY <1>1, <1>2, <1>9, <2>1, <2>2
<1> QED  BY <1>3, <1>11, <1>12, <1>13

(* enforceBudgets() removes some entries, and stops when the rest fits: at *)
(* the latest when there is none.                                          *)
LEMMA EvictedProperties ==
  ASSUME NEW m, Coherent(m)
  PROVE  /\ \E S \in SUBSET Keys : Evicted(m) = Removed(m, S)
         /\ WithinBudgets(Evicted(m))
<1> DEFINE Without(i) == Removed(m, ToSet(SubSeq(m.order, 1, i)))
           T == {i \in 0 .. Len(m.order) : WithinBudgets(Without(i))}
           Enough(i) == /\ WithinBudgets(Without(i))
                        /\ \A j \in 0 .. (i - 1) : ~WithinBudgets(Without(j))
           least == CHOOSE i \in 0 .. Len(m.order) : Enough(i)
<1>1. /\ m.order \in Seq(Keys) /\ Len(m.order) \in Nat
      /\ ToSet(m.order) = Stored(m)
  BY CoherentType DEF Coherent
<1>2. WithinBudgets(Without(Len(m.order)))
  <2> DEFINE r == Removed(m, Stored(m))
  <2>1. Without(Len(m.order)) = r
    BY <1>1, SubSeqFull
  <2> HIDE DEF r
  <2>2. Coherent(r) /\ Stored(r) = {}
    BY RemovedProperties DEF r
  <2>3. Cardinality({}) = Len(r.order) /\ Sized(r, {}) /\ r.bytes = SizeOf(r, {})
    BY <2>2, CoherentType DEF Coherent
  <2>4. Len(r.order) = 0 /\ r.bytes = 0
    BY <2>3, FS_EmptySet, SizeStep
  <2> QED  BY <2>1, <2>4, StorageAssumption DEF WithinBudgets
<1>3. T \in SUBSET Nat /\ T # {}
  BY <1>1, <1>2
<1>4. PICK n \in T : \A i \in T : n <= i
  <2> HIDE DEF T
  <2> QED  BY <1>3, Least
<1>5. n \in 0 .. Len(m.order) /\ Enough(n)
  <2>1. ASSUME NEW j \in 0 .. (n - 1)
        PROVE  ~WithinBudgets(Without(j))
    <3>1. j \in 0 .. Len(m.order) /\ ~(n <= j)
      BY <1>1, <1>4
    <3>2. j \notin T
      <4> HIDE DEF T
      <4> QED  BY <1>4, <3>1
    <3> QED  BY <3>1, <3>2
  <2> HIDE DEF Without
  <2> QED  BY <1>4, <2>1
<1>6. least \in 0 .. Len(m.order) /\ Enough(least)
  <2> HIDE DEF Enough
  <2> QED  BY <1>5, Zenon
<1>7. Evicted(m) = Without(least)
  BY Zenon DEF Evicted
<1>8. ToSet(SubSeq(m.order, 1, least)) \in SUBSET Keys
  <2>1. SubSeq(m.order, 1, least) \in Seq(Keys)
    <3> HIDE DEF least
    <3>1. \A i \in 1 .. least : m.order[i] \in Keys
      BY <1>1, <1>6, ElementOfSeq
    <3> QED  BY <1>1, <1>6, <3>1, SubSeqProperties
  <2> HIDE DEF least
  <2> QED  BY <2>1, ElementsType
<1> HIDE DEF least
<1> QED  BY <1>6, <1>7, <1>8

(* A trimmed Set is one, with nothing new in it.                           *)
LEMMA TrimmedProperties ==
  ASSUME NEW s \in Seq(Keys), IsInjective(s)
  PROVE  /\ Trimmed(s) \in Seq(Keys) /\ IsInjective(Trimmed(s))
         /\ ToSet(Trimmed(s)) \subseteq ToSet(s)
         /\ Len(s) <= TagIndexLimit => Trimmed(s) = s
<1> DEFINE a == Len(s) - TagIndexLimit
           t == SubSeq(s, a + 1, Len(s))
<1>1. Len(s) \in Nat /\ DOMAIN s = 1 .. Len(s) /\ TagIndexLimit \in Nat \ {0}
  BY LenProperties, StorageAssumption
<1>2. CASE Len(s) <= TagIndexLimit
  BY <1>2 DEF Trimmed
<1>3. CASE ~(Len(s) <= TagIndexLimit)
  <2>1. Trimmed(s) = t
    BY <1>1, <1>3 DEF Trimmed
  <2>2. a \in Nat /\ a + 1 \in 1 .. Len(s) /\ a + 1 \in Int /\ Len(s) \in Int
    BY <1>1, <1>3
  <2>3. \A i \in (a + 1) .. Len(s) : s[i] \in Keys
    BY <1>1, <2>2, ElementOfSeq
  <2> HIDE DEF a
  <2>4. /\ t \in Seq(Keys) /\ Len(t) = Len(s) - a
        /\ \A i \in 1 .. (Len(s) - a) : t[i] = s[i + a]
    <3>1. /\ t \in Seq(Keys)
          /\ Len(t) = IF a + 1 <= Len(s) THEN Len(s) - (a + 1) + 1 ELSE 0
          /\ \A i \in 1 .. Len(s) - (a + 1) + 1 : t[i] = s[(a + 1) + i - 1]
      BY <2>2, <2>3, SubSeqProperties
    <3>2. Len(s) - (a + 1) + 1 = Len(s) - a /\ a + 1 <= Len(s)
      BY <1>1, <2>2
    <3>3. \A i \in 1 .. (Len(s) - a) : (a + 1) + i - 1 = i + a
      BY <1>1, <2>2
    <3> HIDE DEF t
    <3> QED  BY <3>1, <3>2, <3>3
  <2> HIDE DEF t
  <2>5. DOMAIN t = 1 .. (Len(s) - a)
    BY <2>4, LenProperties
  <2>6. \A i \in DOMAIN t : i + a \in DOMAIN s /\ t[i] = s[i + a] /\ i \in Nat
    BY <1>1, <2>2, <2>4, <2>5
  <2>7. ToSet(t) \subseteq ToSet(s)
    BY <2>6 DEF ToSet
  <2>8. ASSUME NEW i \in DOMAIN t, NEW j \in DOMAIN t, t[i] = t[j]
        PROVE  i = j
    <3>1. i + a = j + a
      BY <2>6, <2>8 DEF IsInjective
    <3> QED  BY <2>2, <2>6, <3>1
  <2>9. IsInjective(t)
    BY <2>8 DEF IsInjective
  <2> QED  BY <1>3, <2>1, <2>4, <2>7, <2>9
<1> QED  BY <1>2, <1>3

(* A storage with an entry under a key that it had not.                    *)
Added(m, k, r) ==
  [records |-> [j \in Stored(m) \union {k} |-> IF j = k THEN r ELSE m.records[j]],
   order |-> Append(m.order, k),
   index |-> [t \in Tags |-> IF t \in r.tags THEN Trimmed(SetAdd(m.index[t], k))
                                             ELSE m.index[t]],
   bytes |-> m.bytes + r.size]

(* An entry under a new key makes a coherent storage one.                  *)
LEMMA AddedProperties ==
  ASSUME NEW m, Coherent(m), NEW k \in Keys, k \notin Stored(m), NEW r \in Record,
         NEW n, n = Added(m, k, r)
  PROVE  /\ Coherent(n)
         /\ Stored(n) = Stored(m) \union {k} /\ n.records[k] = r
         /\ \A j \in Stored(m) : n.records[j] = m.records[j]
         /\ Complete(m) /\ Len(m.order) < TagIndexLimit => Complete(n)
<1>1. /\ Stored(m) \subseteq Keys /\ m.records \in [Stored(m) -> Record]
      /\ m.order \in Seq(Keys) /\ m.index \in [Tags -> Seq(Keys)]
      /\ IsFiniteSet(Stored(m)) /\ Cardinality(Stored(m)) = Len(m.order)
      /\ \A T \in SUBSET Stored(m) : Sized(m, T)
      /\ IsInjective(m.order) /\ ToSet(m.order) = Stored(m)
      /\ m.bytes = SizeOf(m, Stored(m)) /\ Len(m.order) \in Nat
      /\ \A j \in Stored(m) : m.records[j].tags \subseteq Tags
  BY CoherentType DEF Coherent
<1>2. /\ n.records = [j \in Stored(m) \union {k} |-> IF j = k THEN r ELSE m.records[j]]
      /\ n.order = Append(m.order, k)
      /\ n.index = [t \in Tags |-> IF t \in r.tags THEN Trimmed(SetAdd(m.index[t], k))
                                                   ELSE m.index[t]]
      /\ n.bytes = m.bytes + r.size
      /\ n = [records |-> n.records, order |-> n.order, index |-> n.index,
              bytes |-> n.bytes]
      /\ r.size \in Nat /\ r.tags \subseteq Tags
  BY DEF Added, Record
<1>3. /\ Stored(n) = Stored(m) \union {k} /\ n.records[k] = r
      /\ \A j \in Stored(m) : n.records[j] = m.records[j]
  BY <1>2 DEF Stored
<1>4. n.order \in Seq(Keys) /\ IsInjective(n.order) /\ ToSet(n.order) = Stored(n)
  <2>1. /\ Append(m.order, k) \in Seq(Keys) /\ IsInjective(Append(m.order, k))
        /\ ToSet(Append(m.order, k)) = ToSet(m.order) \union {k}
    BY <1>1, AppendElements, AppendProperties
  <2> QED  BY <1>1, <1>2, <1>3, <2>1
<1>5. ASSUME NEW t \in Tags
      PROVE  /\ n.index[t] \in Seq(Keys) /\ IsInjective(n.index[t])
             /\ \A j \in ToSet(n.index[t]) : j \in Stored(n) /\ t \in n.records[j].tags
             /\ Len(m.order) < TagIndexLimit =>
                  /\ ToSet(m.index[t]) \subseteq ToSet(n.index[t])
                  /\ t \in r.tags => k \in ToSet(n.index[t])
  <2> DEFINE s == SetAdd(m.index[t], k)
  <2>1. /\ m.index[t] \in Seq(Keys) /\ IsInjective(m.index[t])
        /\ \A j \in ToSet(m.index[t]) : j \in Stored(m) /\ t \in m.records[j].tags
    BY <1>1 DEF Coherent
  <2>2. s \in Seq(Keys) /\ IsInjective(s) /\ ToSet(s) = ToSet(m.index[t]) \union {k}
    BY <2>1, SetAddProperties
  <2> HIDE DEF s
  <2>3. /\ Trimmed(s) \in Seq(Keys) /\ IsInjective(Trimmed(s))
        /\ ToSet(Trimmed(s)) \subseteq ToSet(s)
        /\ Len(s) <= TagIndexLimit => Trimmed(s) = s
    BY <2>2, TrimmedProperties
  <2>4. n.index[t] = IF t \in r.tags THEN Trimmed(s) ELSE m.index[t]
    BY <1>2 DEF s
  <2>5. Len(s) <= Len(m.order) + 1
    <3>1. ToSet(s) \subseteq Stored(m) \union {k}
      BY <2>1, <2>2
    <3>2. IsFiniteSet(Stored(m) \union {k})
          /\ Cardinality(Stored(m) \union {k}) = Len(m.order) + 1
      BY <1>1, FS_AddElement
    <3>3. Cardinality(ToSet(s)) = Len(s)
      BY <2>2, DistinctLength
    <3>4. Cardinality(ToSet(s)) <= Cardinality(Stored(m) \union {k})
      BY <3>1, <3>2, FS_Subset
    <3> QED  BY <3>2, <3>3, <3>4
  <2>6. Len(m.order) < TagIndexLimit => Trimmed(s) = s
    <3>1. Len(s) \in Nat
      BY <2>2, LenProperties
    <3> QED  BY <1>1, <2>3, <2>5, <3>1, StorageAssumption
  <2> QED  BY <1>3, <2>1, <2>2, <2>3, <2>4, <2>6
<1>6. n.bytes = SizeOf(n, Stored(n)) /\ n.bytes \in Int
  <2>1. Sized(n, Stored(n))
    <3>1. IsFiniteSet(Stored(n))
      BY <1>1, <1>3, FS_AddElement
    <3>2. \A j \in Stored(m) : m.records[j].size \in Nat
      BY <1>1 DEF Sized
    <3> QED  BY <1>2, <1>3, <3>1, <3>2 DEF Sized
  <2>2. SizeOf(n, Stored(n)) = r.size + SizeOf(n, Stored(n) \ {k})
    BY <1>3, <2>1, SizeRemove
  <2>3. Stored(n) \ {k} = Stored(m)
    BY <1>3
  <2>4. SizeOf(m, Stored(m)) = SizeOf(n, Stored(m))
    <3>1. SameSizes(m, n, Stored(m))
      BY <1>3 DEF SameSizes
    <3> QED  BY <1>1, <3>1, SizeSame
  <2>5. SizeOf(m, Stored(m)) \in Nat
    <3>1. Sized(m, Stored(m))
      BY <1>1
    <3> QED  BY <3>1, SizeRemove
  <2>6. m.bytes = SizeOf(m, Stored(m)) /\ n.bytes = m.bytes + r.size /\ r.size \in Nat
    BY <1>1, <1>2
  <2> QED  BY <2>2, <2>3, <2>4, <2>5, <2>6
<1>7. n \in Mem
  <2>1. n.records \in [Stored(n) -> Record] /\ Stored(n) \subseteq Keys
    BY <1>1, <1>2, <1>3
  <2>2. n.records \in UNION {[T -> Record] : T \in SUBSET Keys}
    BY <2>1
  <2>3. n.index \in [Tags -> Seq(Keys)]
    BY <1>2, <1>5
  <2> QED  BY <1>2, <1>4, <1>6, <2>2, <2>3 DEF Mem
<1>8. Coherent(n)
  BY <1>4, <1>5, <1>6, <1>7 DEF Coherent
<1>9. ASSUME Complete(m), Len(m.order) < TagIndexLimit
      PROVE  Complete(n)
  <2> SUFFICES ASSUME NEW j \in Stored(n), NEW t \in n.records[j].tags
               PROVE  j \in ToSet(n.index[t])
    BY DEF Complete
  <2>1. t \in Tags
    BY <1>1, <1>2, <1>3
  <2>2. CASE j = k
    BY <1>3, <1>5, <1>9, <2>1, <2>2
  <2>3. CASE j # k
    <3>1. j \in Stored(m) /\ t \in m.records[j].tags
      BY <1>3, <2>3
    <3>2. j \in ToSet(m.index[t])
      BY <1>9, <3>1 DEF Complete
    <3> QED  BY <1>5, <1>9, <2>1, <3>2
  <2> QED  BY <2>2, <2>3
<1> QED  BY <1>3, <1>8, <1>9

(* A write replaces the entry of its key, and may cost any of them.        *)
LEMMA WrittenProperties ==
  ASSUME NEW m, Coherent(m), NEW k \in Keys, NEW r \in Record,
         NEW w, w = Written(m, k, r)
  PROVE  /\ Coherent(w) /\ WithinBudgets(w)
         /\ Stored(w) \subseteq Stored(m) \union {k}
         /\ \A j \in Stored(w) : w.records[j] = IF j = k THEN r ELSE m.records[j]
         /\ Complete(m) /\ WithinBudgets(m) /\ TagIndexLimit > MaxEntries => Complete(w)
<1>1. PICK rest, n : rest = Removed(m, {k}) /\ n = Added(rest, k, r)
  OBVIOUS
<1>2. /\ Coherent(rest) /\ Stored(rest) = Stored(m) \ {k}
      /\ \A j \in Stored(rest) : rest.records[j] = m.records[j]
      /\ Complete(m) => Complete(rest)
      /\ Len(rest.order) <= Len(m.order)
  BY <1>1, RemovedProperties
<1>3. /\ Coherent(n) /\ Stored(n) = Stored(rest) \union {k} /\ n.records[k] = r
      /\ \A j \in Stored(rest) : n.records[j] = rest.records[j]
      /\ Complete(rest) /\ Len(rest.order) < TagIndexLimit => Complete(n)
  <2>1. Coherent(rest) /\ k \notin Stored(rest) /\ n = Added(rest, k, r)
    BY <1>1, <1>2
  <2> QED  BY <2>1, AddedProperties
<1>4. w = Evicted(n)
  BY <1>1 DEF Written, Added
<1>5. PICK S : w = Removed(n, S)
  BY <1>3, <1>4, EvictedProperties
<1>6. WithinBudgets(w)
  BY <1>3, <1>4, EvictedProperties
<1>7. /\ Coherent(w) /\ Stored(w) = Stored(n) \ S
      /\ \A j \in Stored(w) : w.records[j] = n.records[j]
      /\ Complete(n) => Complete(w)
  BY <1>3, <1>5, RemovedProperties
<1>8. ASSUME NEW j \in Stored(w)
      PROVE  w.records[j] = IF j = k THEN r ELSE m.records[j]
  BY <1>2, <1>3, <1>7
<1>9. ASSUME Complete(m), WithinBudgets(m), TagIndexLimit > MaxEntries
      PROVE  Complete(w)
  <2>1. Len(rest.order) \in Nat /\ Len(m.order) \in Nat
    BY <1>2, CoherentType
  <2>2. Len(rest.order) < TagIndexLimit
    BY <1>2, <1>9, <2>1, StorageAssumption DEF WithinBudgets
  <2> QED  BY <1>2, <1>3, <1>7, <1>9, <2>2
<1> QED  BY <1>2, <1>3, <1>6, <1>7, <1>8, <1>9

(* A read moves its entry to the end of the order, and changes nothing.    *)
LEMMA TouchedProperties ==
  ASSUME NEW m, Coherent(m), NEW k \in Keys, NEW n, n = Touched(m, k)
  PROVE  /\ Coherent(n)
         /\ n.records = m.records /\ n.index = m.index /\ n.bytes = m.bytes
         /\ Len(n.order) = Len(m.order)
<1>1. /\ m \in Mem /\ m.order \in Seq(Keys) /\ IsInjective(m.order)
      /\ ToSet(m.order) = Stored(m) /\ Cardinality(Stored(m)) = Len(m.order)
  BY CoherentType DEF Coherent
<1>2. CASE ~(UpdateAgeOnGet /\ k \in Stored(m))
  BY <1>2 DEF Touched
<1>3. CASE UpdateAgeOnGet /\ k \in Stored(m)
  <2> DEFINE rest == Filter(m.order, Keys \ {k})
             order == Append(rest, k)
  <2>1. n = [m EXCEPT !.order = order]
    BY <1>3 DEF Touched
  <2>2. /\ rest \in Seq(Keys) /\ ToSet(rest) = ToSet(m.order) \intersect (Keys \ {k})
        /\ IsInjective(rest)
    BY <1>1, FilterProperties
  <2> HIDE DEF rest
  <2>3. order \in Seq(Keys) /\ IsInjective(order) /\ ToSet(order) = Stored(m)
    <3>1. /\ order \in Seq(Keys) /\ IsInjective(order)
          /\ ToSet(order) = ToSet(rest) \union {k}
      BY <2>2, AppendElements, AppendProperties
    <3>2. ToSet(m.order) \subseteq Keys
      BY <1>1, ElementsType
    <3> QED  BY <1>1, <1>3, <2>2, <3>1, <3>2
  <2>4. Len(order) = Len(m.order)
    BY <1>1, <2>3, DistinctLength
  <2> HIDE DEF order
  <2>5. /\ n \in Mem /\ n.records = m.records /\ n.index = m.index
        /\ n.bytes = m.bytes /\ n.order = order
    BY <1>1, <2>1, <2>3 DEF Mem
  <2>6. Stored(n) = Stored(m) /\ SizeOf(n, Stored(n)) = SizeOf(m, Stored(m))
    <3>1. Stored(n) = Stored(m)
      BY <2>5 DEF Stored
    <3>2. Sized(n, Stored(n)) /\ SameSizes(n, m, Stored(n))
      BY <2>5, <3>1, CoherentType DEF Sized, SameSizes
    <3> QED  BY <3>1, <3>2, SizeSame
  <2> QED  BY <2>3, <2>4, <2>5, <2>6 DEF Coherent
<1> QED  BY <1>2, <1>3

(* What addTags makes of a storage that has the key.                       *)
Tagged(m, k, T) ==
  [m EXCEPT !.records[k].tags = @ \union T,
            !.index = [t \in Tags |-> IF t \in T THEN SetAdd(@[t], k) ELSE @[t]]]

(* Tags added to an entry are in the index at once.                        *)
LEMMA TaggedProperties ==
  ASSUME NEW m, Coherent(m), NEW k \in Stored(m), NEW T \in SUBSET Tags, NEW n,
         n = Tagged(m, k, T)
  PROVE  /\ Coherent(n) /\ Stored(n) = Stored(m)
         /\ n.records = [m.records EXCEPT ![k].tags = @ \union T]
         /\ n.order = m.order /\ n.bytes = m.bytes
         /\ Complete(m) => Complete(n)
<1>1. /\ m \in Mem /\ m.order \in Seq(Keys) /\ IsInjective(m.order)
      /\ m.records \in [Stored(m) -> Record] /\ Stored(m) \subseteq Keys
      /\ m.index \in [Tags -> Seq(Keys)] /\ k \in Keys
      /\ ToSet(m.order) = Stored(m) /\ m.bytes = SizeOf(m, Stored(m))
      /\ \A j \in Stored(m) : m.records[j].tags \subseteq Tags
  BY CoherentType DEF Coherent
<1>2. PICK r : r = [m.records[k] EXCEPT !.tags = @ \union T]
  OBVIOUS
<1>3. r \in Record /\ r.size = m.records[k].size /\ r.tags = m.records[k].tags \union T
  BY <1>1, <1>2 DEF Record
<1>4. PICK index : index = [t \in Tags |-> IF t \in T THEN SetAdd(m.index[t], k)
                                                       ELSE m.index[t]]
  OBVIOUS
<1>5. n = [[m EXCEPT !.records = [m.records EXCEPT ![k] = r]] EXCEPT !.index = index]
  <2>1. [m EXCEPT !.records[k].tags = m.records[k].tags \union T]
          = [m EXCEPT !.records = [m.records EXCEPT ![k] = r]]
    BY <1>2
  <2> QED  BY <1>4, <2>1 DEF Tagged
<1>6. ASSUME NEW t \in Tags
      PROVE  /\ index[t] \in Seq(Keys) /\ IsInjective(index[t])
             /\ ToSet(index[t]) = IF t \in T THEN ToSet(m.index[t]) \union {k}
                                             ELSE ToSet(m.index[t])
  <2>1. m.index[t] \in Seq(Keys) /\ IsInjective(m.index[t])
    BY <1>1 DEF Coherent
  <2>2. /\ SetAdd(m.index[t], k) \in Seq(Keys) /\ IsInjective(SetAdd(m.index[t], k))
        /\ ToSet(SetAdd(m.index[t], k)) = ToSet(m.index[t]) \union {k}
    BY <1>1, <2>1, SetAddProperties
  <2> QED  BY <1>4, <2>1, <2>2
<1>7. /\ n.records = [m.records EXCEPT ![k] = r] /\ n.order = m.order
      /\ n.index = index /\ n.bytes = m.bytes /\ Stored(n) = Stored(m)
      /\ n = [records |-> n.records, order |-> n.order, index |-> n.index,
              bytes |-> n.bytes]
  BY <1>1, <1>5 DEF Mem, Stored
<1>8. n.records = [m.records EXCEPT ![k].tags = @ \union T]
  BY <1>2, <1>7
<1>9. n \in Mem
  <2>1. n.records \in [Stored(m) -> Record]
    BY <1>1, <1>3, <1>7
  <2>2. n.records \in UNION {[S -> Record] : S \in SUBSET Keys}
    BY <1>1, <2>1
  <2>3. n.index \in [Tags -> Seq(Keys)]
    BY <1>4, <1>6, <1>7
  <2>4. m.bytes \in Int
    BY <1>1 DEF Mem
  <2> QED  BY <1>1, <1>7, <2>2, <2>3, <2>4 DEF Mem
<1>10. SizeOf(n, Stored(n)) = SizeOf(m, Stored(m))
  <2>1. SameSizes(m, n, Stored(m)) /\ Sized(m, Stored(m))
    BY <1>1, <1>3, <1>7, CoherentType DEF SameSizes
  <2> QED  BY <1>7, <2>1, SizeSame
<1>11. ASSUME NEW j \in Stored(n), NEW t
       PROVE  t \in n.records[j].tags <=> t \in m.records[j].tags \/ (j = k /\ t \in T)
  <2>1. j \in Stored(m) /\ n.records[j] = IF j = k THEN r ELSE m.records[j]
    BY <1>1, <1>7
  <2> QED  BY <1>3, <2>1
<1>12. ASSUME NEW t \in Tags, NEW j \in ToSet(n.index[t])
       PROVE  j \in Stored(n) /\ t \in n.records[j].tags
  <2>1. j \in ToSet(m.index[t]) \/ (t \in T /\ j = k)
    BY <1>6, <1>7, <1>12
  <2>2. j \in Stored(n) /\ (j \in ToSet(m.index[t]) => t \in m.records[j].tags)
    BY <1>7, <2>1 DEF Coherent
  <2> QED  BY <1>11, <2>1, <2>2
<1>13. Coherent(n)
  BY <1>1, <1>6, <1>7, <1>9, <1>10, <1>12 DEF Coherent
<1>14. ASSUME Complete(m), NEW j \in Stored(n), NEW t \in n.records[j].tags
       PROVE  j \in ToSet(n.index[t])
  <2>1. t \in Tags
    <3>1. j \in Stored(m) /\ (t \in m.records[j].tags \/ t \in T)
      BY <1>7, <1>11, <1>14
    <3> QED  BY <1>1, <3>1
  <2>2. t \in m.records[j].tags \/ (j = k /\ t \in T)
    BY <1>11, <1>14
  <2>3. t \in m.records[j].tags => j \in ToSet(m.index[t])
    BY <1>7, <1>14 DEF Complete
  <2> QED  BY <1>6, <1>7, <2>1, <2>2, <2>3
<1> QED  BY <1>7, <1>8, <1>13, <1>14 DEF Complete


-----------------------------------------------------------------------------
(* The inductive invariant *)

(* What every method relies on, and leaves behind.  A full Set forgets its *)
(* oldest key, so the index is complete only if it cannot fill up.         *)
Sturdy(m) ==
  /\ Coherent(m)
  /\ WithinBudgets(m)
  /\ TagIndexLimit > MaxEntries => Complete(m)

IInv == Sturdy(mem) /\ lastSweep \in Nat /\ now \in Nat

(* n is m without some of what has expired.                                *)
Fades(m, n) ==
  /\ Sturdy(n)
  /\ Stored(n) \subseteq Stored(m) /\ Stored(m) \ Stored(n) \subseteq Expired(m)
  /\ \A k \in Stored(n) : n.records[k] = m.records[k]

(* Whatever is removed, what remains is as sturdy.                         *)
LEMMA SturdyRemoved ==
  ASSUME NEW m, Sturdy(m), NEW S, NEW r, r = Removed(m, S)
  PROVE  Sturdy(r) /\ Stored(r) = Stored(m) \ S
         /\ \A k \in Stored(r) : r.records[k] = m.records[k]
<1>1. Coherent(m)  BY DEF Sturdy
<1>2. /\ Coherent(r) /\ Stored(r) = Stored(m) \ S
      /\ \A k \in Stored(r) : r.records[k] = m.records[k]
      /\ Complete(m) => Complete(r)
      /\ Len(r.order) <= Len(m.order) /\ r.bytes <= m.bytes
  BY <1>1, RemovedProperties
<1>3. {Len(m.order), Len(r.order), m.bytes, r.bytes, MaxEntries, MaxSizeBytes} \subseteq Int
  BY <1>1, <1>2, CoherentType, CoherentBytes, StorageAssumption
<1> QED  BY <1>2, <1>3 DEF Sturdy, WithinBudgets

(* What a write leaves behind.                                             *)
LEMMA SturdyWritten ==
  ASSUME NEW m, Sturdy(m), NEW k \in Keys, NEW r \in Record,
         NEW w, w = Written(m, k, r)
  PROVE  /\ Sturdy(w) /\ Stored(w) \subseteq Stored(m) \union {k}
         /\ \A j \in Stored(w) : w.records[j] = IF j = k THEN r ELSE m.records[j]
<1>1. Coherent(m) /\ WithinBudgets(m)
  BY DEF Sturdy
<1>2. /\ Coherent(w) /\ WithinBudgets(w)
      /\ Stored(w) \subseteq Stored(m) \union {k}
      /\ \A j \in Stored(w) : w.records[j] = IF j = k THEN r ELSE m.records[j]
      /\ Complete(m) /\ WithinBudgets(m) /\ TagIndexLimit > MaxEntries => Complete(w)
  BY <1>1, WrittenProperties
<1> QED  BY <1>1, <1>2 DEF Sturdy

(* The order of use is nobody's business.                                  *)
LEMMA SturdyTouched ==
  ASSUME NEW m, Sturdy(m), NEW k \in Keys, NEW n, n = Touched(m, k)
  PROVE  Sturdy(n) /\ n.records = m.records
<1>1. Coherent(m)  BY DEF Sturdy
<1>2. /\ Coherent(n) /\ n.records = m.records /\ n.index = m.index
      /\ n.bytes = m.bytes /\ Len(n.order) = Len(m.order)
  BY <1>1, TouchedProperties
<1> QED  BY <1>2 DEF Sturdy, WithinBudgets, Complete, Stored

(* The lazy sweep removes what has expired.                                *)
LEMMA Sweeping ==
  ASSUME NEW m, Sturdy(m), NEW n, n \in {MaybeSwept(m), Removed(m, Expired(m))}
  PROVE  Fades(m, n)
<1>1. n = m \/ n = Removed(m, Expired(m))
  BY DEF MaybeSwept
<1>2. CASE n = m
  BY <1>2 DEF Fades
<1>3. CASE n = Removed(m, Expired(m))
  BY <1>3, SturdyRemoved DEF Fades
<1> QED  BY <1>1, <1>2, <1>3

(* Reading one key removes it if it has expired.                           *)
LEMMA Reading ==
  ASSUME NEW m, Sturdy(m), NEW k \in Keys, NEW n, n = Read(m, k)
  PROVE  Fades(m, n) /\ k \notin Expired(n)
<1>1. /\ Sturdy(n) /\ Stored(n) = Stored(m) \ (Expired(m) \intersect {k})
      /\ \A j \in Stored(n) : n.records[j] = m.records[j]
  BY SturdyRemoved DEF Read
<1>2. Fades(m, n)
  BY <1>1 DEF Fades
<1>3. k \notin Expired(n)
  BY <1>1 DEF Expired
<1> QED  BY <1>2, <1>3

(* What fades twice fades.                                                 *)
LEMMA FadesTwice ==
  ASSUME NEW m, NEW n, NEW o, Fades(m, n), Fades(n, o)
  PROVE  Fades(m, o)
<1>1. Expired(n) \subseteq Expired(m)
  BY DEF Fades, Expired
<1> QED  BY <1>1 DEF Fades

(* What a get, or a write that compares, finds.                            *)
LEMMA Finding ==
  ASSUME NEW m, Sturdy(m), NEW k \in Keys, NEW n, n = Read(MaybeSwept(m), k)
  PROVE  Fades(m, n) /\ k \notin Expired(n)
<1>1. PICK o : o = MaybeSwept(m)  OBVIOUS
<1>2. Fades(m, o)  BY <1>1, Sweeping
<1>3. Sturdy(o)  BY <1>2 DEF Fades
<1>4. n = Read(o, k)  BY <1>1
<1>5. Fades(o, n) /\ k \notin Expired(n)  BY <1>3, <1>4, Reading
<1> QED  BY <1>2, <1>5, FadesTwice

(* The record of a write is one.                                           *)
LEMMA RecordTyped ==
  ASSUME now \in Nat, NEW input \in Inputs, NEW rev \in Revisions
  PROVE  /\ RecordOf(input, rev) \in Record
         /\ RecordOf(input, rev).rev = rev /\ RecordOf(input, rev).tags = input.tags
BY StorageAssumption DEF RecordOf, Record


Forgotten(m, T) ==
  [m EXCEPT !.index = [t \in Tags |-> IF t \in T THEN <<>> ELSE @[t]]]

(* The index of tags that nothing carries can be dropped.                  *)
LEMMA Forgetting ==
  ASSUME NEW m, Sturdy(m), NEW T \in SUBSET Tags,
         TagIndexLimit > MaxEntries => \A k \in Stored(m) : m.records[k].tags \intersect T = {},
         NEW n, n = Forgotten(m, T)
  PROVE  Sturdy(n) /\ n.records = m.records
<1>1. PICK x : x = [t \in Tags |-> IF t \in T THEN <<>> ELSE m.index[t]]
  OBVIOUS
<1>2. /\ m \in Mem /\ IsInjective(m.order) /\ ToSet(m.order) = Stored(m)
      /\ m.bytes = SizeOf(m, Stored(m)) /\ WithinBudgets(m)
      /\ m.index \in [Tags -> Seq(Keys)] /\ Sized(m, Stored(m))
      /\ \A t \in Tags :
           /\ IsInjective(m.index[t])
           /\ \A k \in ToSet(m.index[t]) : k \in Stored(m) /\ t \in m.records[k].tags
  BY CoherentType DEF Sturdy, Coherent
<1>3. /\ n \in Mem /\ n.records = m.records /\ n.order = m.order
      /\ n.index = x /\ n.bytes = m.bytes /\ Stored(n) = Stored(m)
  <2>1. n = [m EXCEPT !.index = x]  BY <1>1 DEF Forgotten
  <2>2. x \in [Tags -> Seq(Keys)]
    <3>1. <<>> \in Seq(Keys)  BY EmptySeq
    <3> QED  BY <1>1, <1>2, <3>1
  <2>3. m = [records |-> m.records, order |-> m.order, index |-> m.index,
             bytes |-> m.bytes]
    BY <1>2 DEF Mem
  <2>4. n = [records |-> m.records, order |-> m.order, index |-> x,
             bytes |-> m.bytes]
    BY <2>1, <2>3
  <2>5. /\ m.records \in UNION {[S -> Record] : S \in SUBSET Keys}
        /\ m.order \in Seq(Keys) /\ m.bytes \in Int
    BY <1>2 DEF Mem
  <2>6. n \in Mem  BY <2>2, <2>4, <2>5 DEF Mem
  <2> QED  BY <2>4, <2>6 DEF Stored
<1>4. SizeOf(n, Stored(n)) = SizeOf(m, Stored(m))
  <2>1. SameSizes(m, n, Stored(m))  BY <1>3 DEF SameSizes
  <2> QED  BY <1>2, <1>3, <2>1, SizeSame
<1>5. ASSUME NEW t \in Tags
      PROVE  /\ IsInjective(n.index[t])
             /\ \A k \in ToSet(n.index[t]) : k \in Stored(n) /\ t \in n.records[k].tags
  <2>1. CASE t \in T
    <3>1. n.index[t] = <<>>  BY <1>1, <1>3, <2>1
    <3> QED  BY <3>1 DEF IsInjective, ToSet
  <2>2. CASE t \notin T
    <3>1. n.index[t] = m.index[t]  BY <1>1, <1>3, <2>2
    <3> QED  BY <1>2, <1>3, <3>1
  <2> QED  BY <2>1, <2>2
<1>6. ASSUME TagIndexLimit > MaxEntries, NEW k \in Stored(n), NEW t \in n.records[k].tags
      PROVE  k \in ToSet(n.index[t])
  <2>1. t \in Tags /\ k \in Stored(m) /\ t \in m.records[k].tags
    BY <1>3, <1>6, CoherentType DEF Sturdy
  <2>2. t \notin T  BY <1>6, <2>1
  <2>3. n.index[t] = m.index[t]  BY <1>1, <1>3, <2>1, <2>2
  <2> QED  BY <1>6, <2>1, <2>3 DEF Sturdy, Complete
<1>7. WithinBudgets(n)
  BY <1>2, <1>3 DEF WithinBudgets
<1>8. Coherent(n)
  BY <1>2, <1>3, <1>4, <1>5 DEF Coherent
<1> QED  BY <1>3, <1>6, <1>7, <1>8 DEF Sturdy, Complete

Cleared(m) == [Removed(m, Keys) EXCEPT !.index = [t \in Tags |-> <<>>]]

(* A cleared storage is the empty one.                                     *)
LEMMA Clearing ==
  ASSUME NEW m, Sturdy(m), NEW n, n = Cleared(m)
  PROVE  Sturdy(n) /\ Stored(n) = {}
<1>1. PICK r : r = Removed(m, Keys)  OBVIOUS
<1>2. Sturdy(r) /\ Stored(r) = {}
  BY <1>1, SturdyRemoved, CoherentType DEF Sturdy
<1>3. [t \in Tags |-> <<>>] = [t \in Tags |-> IF t \in Tags THEN <<>> ELSE r.index[t]]
  OBVIOUS
<1>4. n = Forgotten(r, Tags)
  BY <1>1, <1>3 DEF Forgotten, Cleared
<1>5. Sturdy(n) /\ n.records = r.records
  BY <1>2, <1>4, Forgetting
<1> QED  BY <1>2, <1>5 DEF Stored

Invalidated(m, t) ==
  [Removed(m, ToSet(m.index[t])) EXCEPT !.index[t] = <<>>]

(* An invalidation leaves nothing that carries the tag, if the index is    *)
(* complete, and takes nothing else.                                       *)
LEMMA Invalidating ==
  ASSUME NEW m, Sturdy(m), NEW t \in Tags, NEW n,
         n = Invalidated(m, t)
  PROVE  /\ Sturdy(n) /\ Stored(n) = Stored(m) \ ToSet(m.index[t])
         /\ \A k \in Stored(n) : n.records[k] = m.records[k]
<1>1. PICK r : r = Removed(m, ToSet(m.index[t]))  OBVIOUS
<1>2. /\ Sturdy(r) /\ Stored(r) = Stored(m) \ ToSet(m.index[t])
      /\ \A k \in Stored(r) : r.records[k] = m.records[k]
  BY <1>1, SturdyRemoved
<1>3. r \in Mem /\ r.index \in [Tags -> Seq(Keys)]
  BY <1>2, CoherentType DEF Sturdy, Coherent
<1>4. n = Forgotten(r, {t})
  <2>1. [r.index EXCEPT ![t] = <<>>]
          = [u \in Tags |-> IF u \in {t} THEN <<>> ELSE r.index[u]]
    BY <1>3
  <2> QED  BY <1>1, <2>1 DEF Forgotten, Invalidated
<1>5. TagIndexLimit > MaxEntries =>
        \A k \in Stored(r) : r.records[k].tags \intersect {t} = {}
  BY <1>2 DEF Sturdy, Complete
<1>6. Sturdy(n) /\ n.records = r.records
  BY <1>2, <1>4, <1>5, Forgetting
<1> QED  BY <1>2, <1>6 DEF Stored

(* Tags added to what is stored; the budgets do not change.                *)
LEMMA Tagging ==
  ASSUME NEW m, Sturdy(m), NEW k \in Stored(m), NEW T \in SUBSET Tags, NEW n,
         n = Tagged(m, k, T)
  PROVE  /\ Sturdy(n) /\ Stored(n) = Stored(m)
         /\ n.records = [m.records EXCEPT ![k].tags = @ \union T]
<1>1. Coherent(m)  BY DEF Sturdy
<1>2. /\ Coherent(n) /\ Stored(n) = Stored(m)
      /\ n.records = [m.records EXCEPT ![k].tags = @ \union T]
      /\ n.order = m.order /\ n.bytes = m.bytes
      /\ Complete(m) => Complete(n)
  BY <1>1, TaggedProperties
<1> QED  BY <1>2 DEF Sturdy, WithinBudgets

(* A storage starts empty.                                                 *)
LEMMA InitInvariant == Init => IInv
<1> SUFFICES ASSUME Init PROVE IInv  OBVIOUS
<1>1. PICK m : m = [records |-> <<>>, order |-> <<>>,
                    index |-> [t \in Tags |-> <<>>], bytes |-> 0]
  OBVIOUS
<1>2. mem = m /\ now = 0 /\ lastSweep = 0
  BY <1>1 DEF Init
<1>3. m.records = <<>> /\ m.order = <<>> /\ m.bytes = 0 /\ Stored(m) = {}
  BY <1>1 DEF Stored
<1>4. \A t \in Tags : m.index[t] = <<>>
  BY <1>1
<1>5. m \in Mem
  <2>1. <<>> \in Seq(Keys)  BY EmptySeq
  <2>2. <<>> \in [{} -> Record]  OBVIOUS
  <2>3. <<>> \in UNION {[S -> Record] : S \in SUBSET Keys}  BY <2>2
  <2> QED  BY <1>1, <2>1, <2>3 DEF Mem
<1>6. SizeOf(m, {}) = 0
  <2>1. Sized(m, {})  BY FS_EmptySet DEF Sized
  <2> QED  BY <2>1, SizeStep
<1>7. IsInjective(<<>>) /\ ToSet(<<>>) = {}
  BY DEF IsInjective, ToSet
<1>8. Coherent(m)
  BY <1>3, <1>4, <1>5, <1>6, <1>7 DEF Coherent
<1>9. WithinBudgets(m)
  BY <1>3, StorageAssumption DEF WithinBudgets
<1>10. Complete(m)
  BY <1>3 DEF Complete
<1> QED  BY <1>2, <1>8, <1>9, <1>10 DEF IInv, Sturdy


(* What a write, or a refused one, leaves: what it found, or the new entry *)
(* in it, as far as the budgets allow.                                     *)
LEMMA SetInvariant ==
  ASSUME IInv, NEW k \in Keys, NEW input \in Inputs, NEW rev \in Revisions,
         NEW b \in BOOLEAN, Set(k, input, rev, b)
  PROVE  Sturdy(mem')
<1>1. PICK m : m = IF b THEN Read(MaybeSwept(mem), k) ELSE MaybeSwept(mem)
  OBVIOUS
<1>2. Sturdy(mem) /\ now \in Nat  BY DEF IInv
<1>3. Sturdy(m)
  <2>1. CASE b
    <3>1. Fades(mem, m)  BY <1>1, <1>2, <2>1, Finding
    <3> QED  BY <3>1 DEF Fades
  <2>2. CASE ~b
    <3>1. Fades(mem, m)  BY <1>1, <1>2, <2>2, Sweeping
    <3> QED  BY <3>1 DEF Fades
  <2> QED  BY <2>1, <2>2
<1>4. PICK r : r = RecordOf(input, rev)  OBVIOUS
<1>5. r \in Record  BY <1>2, <1>4, RecordTyped
<1>6. mem' = m \/ mem' = Written(m, k, r)  BY <1>1, <1>4 DEF Set
<1> QED  BY <1>3, <1>5, <1>6, SturdyWritten

LEMMA CompareAndSetInvariant ==
  ASSUME IInv, NEW k \in Keys, NEW input \in Inputs, NEW x \in 0..MaxRevision,
         CompareAndSet(k, input, x)
  PROVE  Sturdy(mem')
<1>1. PICK m : m = Read(MaybeSwept(mem), k)  OBVIOUS
<1>2. Sturdy(mem) /\ now \in Nat  BY DEF IInv
<1>3. Fades(mem, m)  BY <1>1, <1>2, Finding
<1>4. Sturdy(m)  BY <1>3 DEF Fades
<1>5. PICK r : r = RecordOf(input, x + 1)  OBVIOUS
<1>6. x + 1 \in Revisions
  BY StorageAssumption DEF CompareAndSet, Revisions
<1>7. r \in Record  BY <1>2, <1>5, <1>6, RecordTyped
<1>8. mem' = m \/ mem' = Written(m, k, r)  BY <1>1, <1>5 DEF CompareAndSet
<1> QED  BY <1>4, <1>7, <1>8, SturdyWritten

(* Every method keeps the storage sturdy.                                  *)
LEMMA NextInvariant == IInv /\ [Next]_vars => IInv'
<1> SUFFICES ASSUME IInv, [Next]_vars PROVE IInv'  OBVIOUS
<1>1. Sturdy(mem) /\ lastSweep \in Nat /\ now \in Nat  BY DEF IInv
<1>2. lastSweep' \in Nat /\ now' \in Nat
  <2>1. now' \in {now, now + 1}
    BY DEF Next, vars, Get, Has, Set, CompareAndSet, Delete, Clear, AddTags,
           InvalidateTag, Sweep, Tick
  <2>2. lastSweep' \in {lastSweep, now}
    BY DEF Next, vars, Get, Has, Set, CompareAndSet, Delete, Clear, AddTags,
           InvalidateTag, Sweep, Tick, MaybeSweep
  <2> QED  BY <1>1, <2>1, <2>2
<1>3. ASSUME NEW k \in Keys, Get(k) PROVE Sturdy(mem')
  <2>1. PICK m : m = Read(MaybeSwept(mem), k)  OBVIOUS
  <2>2. Fades(mem, m)  BY <1>1, <2>1, Finding
  <2>3. Sturdy(m)  BY <2>2 DEF Fades
  <2>4. mem' = Touched(m, k)  BY <1>3, <2>1 DEF Get
  <2> QED  BY <2>3, <2>4, SturdyTouched
<1>4. ASSUME NEW k \in Keys, Has(k) PROVE Sturdy(mem')
  <2>1. mem' = Read(mem, k)  BY <1>4 DEF Has
  <2>2. Fades(mem, mem')  BY <1>1, <2>1, Reading
  <2> QED  BY <2>2 DEF Fades
<1>5. ASSUME NEW S \in SUBSET Keys, Delete(S) PROVE Sturdy(mem')
  <2>1. mem' = Removed(mem, S)  BY <1>5 DEF Delete
  <2> QED  BY <1>1, <2>1, SturdyRemoved
<1>6. ASSUME NEW k \in Keys, NEW T \in SUBSET Tags, AddTags(k, T) PROVE Sturdy(mem')
  <2>1. CASE k \notin Stored(mem)
    <3>1. mem' = mem  BY <1>6, <2>1 DEF AddTags
    <3> QED  BY <1>1, <3>1
  <2>2. CASE k \in Stored(mem)
    <3>1. mem' = Tagged(mem, k, T)  BY <1>6, <2>2 DEF AddTags, Tagged
    <3> QED  BY <1>1, <2>2, <3>1, Tagging
  <2> QED  BY <2>1, <2>2
<1>7. ASSUME NEW t \in Tags, InvalidateTag(t) PROVE Sturdy(mem')
  <2>1. mem' = Invalidated(mem, t)  BY <1>7 DEF InvalidateTag, Invalidated
  <2> QED  BY <1>1, <2>1, Invalidating
<1>8. ASSUME Clear PROVE Sturdy(mem')
  <2>1. mem' = Cleared(mem)  BY <1>8 DEF Clear, Cleared
  <2> QED  BY <1>1, <2>1, Clearing
<1>9. ASSUME Sweep PROVE Sturdy(mem')
  <2>1. mem' = Removed(mem, Expired(mem))  BY <1>9 DEF Sweep
  <2>2. Fades(mem, mem')  BY <1>1, <2>1, Sweeping
  <2> QED  BY <2>2 DEF Fades
<1>10. ASSUME Tick \/ UNCHANGED vars PROVE Sturdy(mem')
  <2>1. mem' = mem  BY <1>10 DEF Tick, vars
  <2> QED  BY <1>1, <2>1
<1>11. Sturdy(mem')
  BY <1>3, <1>4, <1>5, <1>6, <1>7, <1>8, <1>9, <1>10, SetInvariant,
     CompareAndSetInvariant DEF Next
<1> QED  BY <1>2, <1>11 DEF IInv

LEMMA Invariance == Spec => []IInv
BY InitInvariant, NextInvariant, PTL DEF Spec

(* The records, the LRU order, the index and the count have their types.   *)
THEOREM TypeCorrect == Spec => []TypeOK
<1>1. ASSUME IInv PROVE TypeOK
  <2>1. Coherent(mem) /\ lastSweep \in Nat /\ now \in Nat
    BY <1>1 DEF IInv, Sturdy
  <2>2. /\ Stored(mem) \subseteq Keys /\ mem.records \in [Stored(mem) -> Record]
        /\ mem.index \in [Tags -> Seq(Keys)] /\ mem.bytes \in Nat
    BY <2>1, CoherentType, CoherentBytes
  <2>3. IsInjective(mem.order) /\ Range(mem.order) = Stored(mem)
    BY <2>1 DEF Coherent, Range, ToSet
  <2> QED  BY <2>1, <2>2, <2>3 DEF TypeOK
<1> QED  BY <1>1, Invariance, PTL

(* The running byte count is exact after every operation.                  *)
THEOREM BytesCorrect == Spec => []BytesExact
<1>1. IInv => BytesExact
  BY DEF IInv, Sturdy, Coherent, BytesExact
<1> QED  BY <1>1, Invariance, PTL

(* No operation leaves more entries or bytes than the budgets allow.       *)
THEOREM BudgetsCorrect == Spec => []BudgetsKept
<1>1. IInv => BudgetsKept
  BY DEF IInv, Sturdy, BudgetsKept
<1> QED  BY <1>1, Invariance, PTL

(* The tag index names nothing but stored entries that carry the tag.      *)
THEOREM SoundCorrect == Spec => []IndexSound
<1>1. IInv => IndexSound
  BY DEF IInv, Sturdy, Coherent, IndexSound
<1> QED  BY <1>1, Invariance, PTL

(* If the limit of a tag's Set exceeds maxEntries, as it does by default,  *)
(* every stored entry is found under each of its tags.                     *)
THEOREM CompleteCorrect ==
  ASSUME TagIndexLimit > MaxEntries
  PROVE  Spec => []IndexComplete
<1>1. ASSUME IInv PROVE IndexComplete
  <2>1. Coherent(mem) /\ Complete(mem)
    BY <1>1 DEF IInv, Sturdy
  <2> SUFFICES ASSUME NEW k \in Stored(mem), NEW t \in mem.records[k].tags
               PROVE  Contains(mem.index[t], k)
    BY DEF IndexComplete
  <2>2. t \in Tags  BY <2>1, CoherentType
  <2>3. mem.index[t] \in Seq(Keys)  BY <2>1, <2>2, CoherentType
  <2>4. k \in ToSet(mem.index[t])  BY <2>1 DEF Complete
  <2> QED  BY <2>3, <2>4 DEF Contains, ToSet
<1> QED  BY <1>1, Invariance, PTL


-----------------------------------------------------------------------------
(* The contract of the CacheStorage interface *)

(* What a caller would observe of m now.                                   *)
Live(m) == Stored(m) \ Expired(m)

Shown(m) ==
  [k \in Keys |-> IF k \in Live(m)
                  THEN [rev |-> m.records[k].rev, tags |-> m.records[k].tags]
                  ELSE Absent]

View == Shown(mem)

Observable == [rev : Revisions, tags : SUBSET Tags]

(* What is observed is an entry, and nothing else looks like its absence.  *)
LEMMA ShownTyped ==
  ASSUME NEW m, Sturdy(m)
  PROVE  /\ Shown(m) \in [Keys -> Observable \union {Absent}]
         /\ Absent \notin Observable
         /\ \A k \in Keys : Shown(m)[k] = Absent <=> k \notin Live(m)
         /\ Live(m) \subseteq Keys
<1>1. /\ Stored(m) \subseteq Keys /\ Absent \notin Observable
      /\ \A k \in Stored(m) : /\ m.records[k].tags \subseteq Tags
                              /\ m.records[k].rev \in Revisions
  BY CoherentType, StorageAssumption DEF Sturdy, Observable, Revisions
<1>2. ASSUME NEW k \in Live(m)
      PROVE  [rev |-> m.records[k].rev, tags |-> m.records[k].tags] \in Observable
  BY <1>1 DEF Live, Observable
<1>3. Live(m) \subseteq Keys  BY <1>1 DEF Live
<1>4. Shown(m) \in [Keys -> Observable \union {Absent}]
  BY <1>2 DEF Shown
<1>5. \A k \in Keys : Shown(m)[k] = Absent <=> k \notin Live(m)
  BY <1>1, <1>2 DEF Shown
<1> QED  BY <1>1, <1>3, <1>4, <1>5

(* Removing what has expired is seen by nobody.                            *)
LEMMA FadesUnseen ==
  ASSUME NEW m, NEW n, Fades(m, n)
  PROVE  Live(n) = Live(m) /\ Shown(n) = Shown(m)
<1>1. \A k \in Stored(n) : k \in Expired(n) <=> k \in Expired(m)
  BY DEF Fades, Expired
<1>2. Live(n) = Live(m)
  BY <1>1 DEF Fades, Live
<1>3. \A k \in Live(m) : n.records[k] = m.records[k]
  BY <1>2 DEF Fades, Live
<1> QED  BY <1>2, <1>3 DEF Shown

(* The revision that a method finds is the one a caller observes.          *)
LEMMA RevisionShown ==
  ASSUME NEW m, Sturdy(m), NEW k \in Keys, k \notin Expired(m)
  PROVE  /\ RevisionOf(m, k) = IF Shown(m)[k] = Absent THEN 0 ELSE Shown(m)[k].rev
         /\ RevisionOf(m, k) = 0 <=> Shown(m)[k] = Absent
<1>1. k \in Live(m) <=> k \in Stored(m)
  BY DEF Live
<1>2. Shown(m)[k] = Absent <=> k \notin Live(m)
  BY ShownTyped
<1>3. k \in Stored(m) => Shown(m)[k].rev = m.records[k].rev
  BY <1>1 DEF Shown
<1>4. k \in Stored(m) => m.records[k].rev \in Revisions
  BY CoherentType DEF Sturdy
<1> QED  BY <1>1, <1>2, <1>3, <1>4, StorageAssumption DEF RevisionOf, Revisions

(* Neither does a caller see the order of use.                             *)
LEMMA TouchedUnseen ==
  ASSUME NEW m, Sturdy(m), NEW k \in Keys, NEW n, n = Touched(m, k)
  PROVE  Shown(n) = Shown(m)
<1>1. n.records = m.records  BY SturdyTouched
<1> QED  BY <1>1 DEF Shown, Live, Expired, Stored

(* What is shown while the clock stands still.                             *)
LEMMA ShownNext ==
  ASSUME now' = now, NEW n, mem' = n
  PROVE  View' = Shown(n)
BY DEF View, Shown, Live, Expired, Stored

LEMMA ContractInit == Init => Contract!Init
<1> SUFFICES ASSUME Init PROVE Contract!Init  OBVIOUS
<1>1. reply = [op |-> "none"]  BY DEF Init, NoReply
<1>2. Stored(mem) = {}
  <2>1. mem.records = <<>>  BY DEF Init
  <2> QED  BY <2>1 DEF Stored
<1>3. [k \in Keys |-> IF k \in Stored(mem) \ Expired(mem)
                      THEN [rev |-> mem.records[k].rev, tags |-> mem.records[k].tags]
                      ELSE Absent] = [k \in Keys |-> Absent]
  BY <1>2
<1> QED  BY <1>1, <1>3 DEF Contract!Init, Contract!NoReply

LEMMA ContractGets ==
  ASSUME IInv, NEW k \in Keys, Get(k)
  PROVE  Contract!Get(k)
<1>1. PICK m : m = Read(MaybeSwept(mem), k)  OBVIOUS
<1>2. Fades(mem, m) /\ k \notin Expired(m)
  BY <1>1, Finding DEF IInv
<1>3. Sturdy(m) /\ Shown(m) = View
  BY <1>2, FadesUnseen DEF View, Fades
<1>4. PICK n : n = Touched(m, k)  OBVIOUS
<1>5. Shown(n) = Shown(m)  BY <1>3, <1>4, TouchedUnseen
<1>6. mem' = n /\ now' = now
      /\ reply' = [op |-> "get", key |-> k, rev |-> RevisionOf(m, k)]
  BY <1>1, <1>4 DEF Get
<1>7. View' = View  BY <1>3, <1>5, <1>6, ShownNext
<1>8. RevisionOf(m, k) = IF View[k] = Absent THEN 0 ELSE View[k].rev
  BY <1>2, <1>3, RevisionShown
<1> QED  BY <1>6, <1>7, <1>8
         DEF Contract!Get, Contract!Revision, View, Shown, Live

(* A written entry is observed as it was written, or not at all; any other *)
(* may have been evicted for it.                                           *)
LEMMA ContractPuts ==
  ASSUME NEW m, Sturdy(m), Shown(m) = View, now' = now,
         NEW k \in Keys, NEW r \in Record, mem' = Written(m, k, r),
         NEW e, e = [rev |-> r.rev, tags |-> r.tags]
  PROVE  Contract!Put(k, e)
<1>1. PICK w : w = Written(m, k, r)  OBVIOUS
<1>2. /\ Sturdy(w) /\ Stored(w) \subseteq Stored(m) \union {k}
      /\ \A j \in Stored(w) : w.records[j] = IF j = k THEN r ELSE m.records[j]
  BY <1>1, SturdyWritten
<1>3. View' = Shown(w)  BY <1>1, ShownNext
<1>4. Shown(w)[k] \in {e, Absent}
  BY <1>2 DEF Shown, Live
<1>5. ASSUME NEW j \in Keys \ {k} PROVE Shown(w)[j] \in {Shown(m)[j], Absent}
  <2>1. CASE j \notin Live(w)  BY <2>1 DEF Shown
  <2>2. CASE j \in Live(w)
    <3>1. j \in Stored(m) /\ w.records[j] = m.records[j]
      BY <1>2, <2>2 DEF Live
    <3>2. j \in Live(m)  BY <2>2, <3>1 DEF Live, Expired
    <3> QED  BY <2>2, <3>1, <3>2 DEF Shown
  <2> QED  BY <2>1, <2>2
<1>6. Shown(w) \in [Keys -> Observable \union {Absent}]  BY <1>2, ShownTyped
<1>7. /\ View' \in [Keys -> Observable \union {Absent}]
      /\ View'[k] \in {e, Absent}
      /\ \A j \in Keys \ {k} : View'[j] \in {View[j], Absent}
  BY <1>3, <1>4, <1>5, <1>6
<1> QED  BY <1>7 DEF Contract!Put, Contract!Shrinks, Contract!Visible,
                     Observable, View, Shown, Live

LEMMA ContractSets ==
  ASSUME IInv, NEW k \in Keys, NEW input \in Inputs, NEW rev \in Revisions,
         NEW b \in BOOLEAN, Set(k, input, rev, b)
  PROVE  \E e \in Observable : Contract!Set(k, e, b)
<1>1. PICK m : m = IF b THEN Read(MaybeSwept(mem), k) ELSE MaybeSwept(mem)
  OBVIOUS
<1>2. Sturdy(mem) /\ now \in Nat  BY DEF IInv
<1>3. Fades(mem, m) /\ (b => k \notin Expired(m))
  <2>1. CASE b  BY <1>1, <1>2, <2>1, Finding
  <2>2. CASE ~b  BY <1>1, <1>2, <2>2, Sweeping
  <2> QED  BY <2>1, <2>2
<1>4. Sturdy(m) /\ Shown(m) = View
  BY <1>3, FadesUnseen DEF View, Fades
<1>5. PICK r : r = RecordOf(input, rev)  OBVIOUS
<1>6. r \in Record /\ r.rev = rev  BY <1>2, <1>5, RecordTyped
<1>7. PICK e : e = [rev |-> r.rev, tags |-> r.tags]  OBVIOUS
<1>8. e \in Observable /\ e.rev = rev  BY <1>6, <1>7 DEF Observable, Record
<1>9. /\ mem' = IF b /\ RevisionOf(m, k) >= rev THEN m ELSE Written(m, k, r)
      /\ now' = now /\ reply' = [op |-> "none"]
  BY <1>1, <1>5 DEF Set, NoReply
<1>10. b /\ RevisionOf(m, k) >= rev <=> b /\ View[k] # Absent /\ View[k].rev >= e.rev
  <2>1. b => /\ RevisionOf(m, k) = IF View[k] = Absent THEN 0 ELSE View[k].rev
             /\ RevisionOf(m, k) = 0 <=> View[k] = Absent
    BY <1>3, <1>4, RevisionShown
  <2>2. rev \in Nat \ {0}  BY StorageAssumption DEF Revisions
  <2> QED  BY <1>8, <2>1, <2>2
<1>11. CASE b /\ RevisionOf(m, k) >= rev
  <2>1. View' = View  BY <1>4, <1>9, <1>11, ShownNext
  <2>2. Contract!Set(k, e, b)
    BY <1>9, <1>10, <1>11, <2>1 DEF Contract!Set, Contract!NoReply, View, Shown, Live
  <2> QED  BY <1>8, <2>2
<1>12. CASE ~(b /\ RevisionOf(m, k) >= rev)
  <2>1. mem' = Written(m, k, r)  BY <1>9, <1>12
  <2>2. Contract!Put(k, e)  BY <1>4, <1>6, <1>7, <1>9, <2>1, ContractPuts
  <2>3. Contract!Set(k, e, b)
    BY <1>9, <1>10, <1>12, <2>2 DEF Contract!Set, Contract!NoReply, View, Shown, Live
  <2> QED  BY <1>8, <2>3
<1> QED  BY <1>11, <1>12

LEMMA ContractCompares ==
  ASSUME IInv, NEW k \in Keys, NEW input \in Inputs, NEW x \in 0..MaxRevision,
         CompareAndSet(k, input, x)
  PROVE  \E e \in Observable : Contract!CompareAndSet(k, e, x)
<1>1. PICK m : m = Read(MaybeSwept(mem), k)  OBVIOUS
<1>2. Sturdy(mem) /\ now \in Nat  BY DEF IInv
<1>3. Fades(mem, m) /\ k \notin Expired(m)  BY <1>1, <1>2, Finding
<1>4. Sturdy(m) /\ Shown(m) = View
  BY <1>3, FadesUnseen DEF View, Fades
<1>5. PICK r : r = RecordOf(input, x + 1)  OBVIOUS
<1>6. x + 1 \in Revisions
  BY StorageAssumption DEF CompareAndSet, Revisions
<1>7. r \in Record  BY <1>2, <1>5, <1>6, RecordTyped
<1>8. PICK e : e = [rev |-> r.rev, tags |-> r.tags]  OBVIOUS
<1>9. e \in Observable  BY <1>7, <1>8 DEF Observable, Record
<1>10. /\ mem' = IF RevisionOf(m, k) = x THEN Written(m, k, r) ELSE m
       /\ now' = now
       /\ reply' = [op |-> "compareAndSet", key |-> k, expected |-> x,
                    written |-> RevisionOf(m, k) = x]
  BY <1>1, <1>5 DEF CompareAndSet
<1>11. RevisionOf(m, k) = IF View[k] = Absent THEN 0 ELSE View[k].rev
  BY <1>3, <1>4, RevisionShown
<1>12. Contract!Revision(k) = RevisionOf(m, k)
  BY <1>11 DEF Contract!Revision, View, Shown, Live
<1>13. CASE RevisionOf(m, k) = x
  <2>1. mem' = Written(m, k, r)  BY <1>10, <1>13
  <2>2. Contract!Put(k, e)  BY <1>4, <1>7, <1>8, <1>10, <2>1, ContractPuts
  <2>3. Contract!CompareAndSet(k, e, x)
    BY <1>10, <1>12, <1>13, <2>2 DEF Contract!CompareAndSet
  <2> QED  BY <1>9, <2>3
<1>14. CASE RevisionOf(m, k) # x
  <2>1. View' = View  BY <1>4, <1>10, <1>14, ShownNext
  <2>2. Contract!CompareAndSet(k, e, x)
    BY <1>10, <1>12, <1>14, <2>1 DEF Contract!CompareAndSet, View, Shown, Live
  <2> QED  BY <1>9, <2>2
<1> QED  BY <1>13, <1>14


(* Removed entries are no longer observed, and the others as before.       *)
LEMMA ShownWithout ==
  ASSUME NEW m, Sturdy(m), NEW S, NEW n, Stored(n) = Stored(m) \ S,
         \A k \in Stored(n) : n.records[k] = m.records[k]
  PROVE  Shown(n) = [k \in Keys |-> IF k \in S THEN Absent ELSE Shown(m)[k]]
<1>1. Live(n) = Live(m) \ S
  BY DEF Live, Expired
<1>2. \A k \in Live(n) : n.records[k] = m.records[k]
  BY DEF Live
<1>3. ASSUME NEW k \in Keys
      PROVE  Shown(n)[k] = IF k \in S THEN Absent ELSE Shown(m)[k]
  BY <1>1, <1>2 DEF Shown
<1> QED  BY <1>3 DEF Shown

LEMMA ContractDeletes ==
  ASSUME IInv, NEW S \in SUBSET Keys, Delete(S)
  PROVE  Contract!Delete(S)
<1>1. PICK n : n = Removed(mem, S)  OBVIOUS
<1>2. Sturdy(mem)  BY DEF IInv
<1>3. /\ Stored(n) = Stored(mem) \ S
      /\ \A k \in Stored(n) : n.records[k] = mem.records[k]
  BY <1>1, <1>2, SturdyRemoved
<1>4. Shown(n) = [k \in Keys |-> IF k \in S THEN Absent ELSE View[k]]
  BY <1>2, <1>3, ShownWithout DEF View
<1>5. mem' = n /\ now' = now /\ reply' = [op |-> "none"]
  BY <1>1 DEF Delete, NoReply
<1>6. View' = [k \in Keys |-> IF k \in S THEN Absent ELSE View[k]]
  BY <1>4, <1>5, ShownNext
<1> QED  BY <1>5, <1>6
         DEF Contract!Delete, Contract!Without, Contract!NoReply, View, Shown, Live

LEMMA ContractClears ==
  ASSUME IInv, Clear
  PROVE  Contract!Delete(Keys)
<1>1. PICK n : n = Cleared(mem)  OBVIOUS
<1>2. Stored(n) = {}  BY <1>1, Clearing DEF IInv
<1>3. Shown(n) = [k \in Keys |-> Absent]  BY <1>2 DEF Shown, Live
<1>4. mem' = n /\ now' = now /\ reply' = [op |-> "none"]
  BY <1>1 DEF Clear, Cleared, NoReply
<1>5. View' = [k \in Keys |-> Absent]  BY <1>3, <1>4, ShownNext
<1>6. View' = [k \in Keys |-> IF k \in Keys THEN Absent ELSE View[k]]
  BY <1>5
<1> QED  BY <1>4, <1>6
         DEF Contract!Delete, Contract!Without, Contract!NoReply, View, Shown, Live

(* This is where the index must be complete.                               *)
LEMMA ContractInvalidates ==
  ASSUME IInv, TagIndexLimit > MaxEntries, NEW t \in Tags, InvalidateTag(t)
  PROVE  Contract!InvalidateTag(t)
<1> DEFINE S == ToSet(mem.index[t])
           C == {k \in Keys : View[k] # Absent /\ t \in View[k].tags}
<1>1. Sturdy(mem) /\ Coherent(mem) /\ Complete(mem)  BY DEF IInv, Sturdy
<1>2. PICK n : n = Invalidated(mem, t)  OBVIOUS
<1>3. /\ Stored(n) = Stored(mem) \ S
      /\ \A k \in Stored(n) : n.records[k] = mem.records[k]
  BY <1>1, <1>2, Invalidating
<1>4. Shown(n) = [k \in Keys |-> IF k \in S THEN Absent ELSE View[k]]
  BY <1>1, <1>3, ShownWithout DEF View
<1>5. \A k \in Stored(mem) : t \in mem.records[k].tags <=> k \in S
  BY <1>1 DEF Coherent, Complete
<1>6. ASSUME NEW k \in Keys, View[k] # Absent
      PROVE  t \in View[k].tags <=> k \in S
  <2>1. k \in Live(mem)  BY <1>6 DEF View, Shown
  <2>2. View[k].tags = mem.records[k].tags  BY <2>1 DEF View, Shown
  <2>3. k \in Stored(mem)  BY <2>1 DEF Live
  <2> QED  BY <1>5, <2>2, <2>3
<1>7. [k \in Keys |-> IF k \in S THEN Absent ELSE View[k]]
        = [k \in Keys |-> IF k \in C THEN Absent ELSE View[k]]
  BY <1>6
<1>8. /\ mem' = n /\ now' = now
      /\ reply' = [op |-> "invalidateTag", tag |-> t]
  BY <1>2 DEF InvalidateTag, Invalidated
<1>9. View' = [k \in Keys |-> IF k \in C THEN Absent ELSE View[k]]
  BY <1>4, <1>7, <1>8, ShownNext
<1> QED  BY <1>8, <1>9 DEF Contract!InvalidateTag, Contract!Without, View, Shown, Live

LEMMA ContractAddsTags ==
  ASSUME IInv, NEW k \in Keys, NEW T \in SUBSET Tags, AddTags(k, T)
  PROVE  Contract!AddTags(k, T)
<1>1. Sturdy(mem) /\ now' = now /\ reply' = [op |-> "none"]
  BY DEF IInv, AddTags, NoReply
<1>2. CASE k \notin Stored(mem)
  <2>1. View[k] = Absent  BY <1>2 DEF View, Shown, Live
  <2>2. mem' = mem  BY <1>2 DEF AddTags
  <2>3. View' = View  BY <1>1, <2>2, ShownNext DEF View
  <2> QED  BY <1>1, <2>1, <2>3
           DEF Contract!AddTags, Contract!NoReply, View, Shown, Live
<1>3. CASE k \in Stored(mem)
  <2>1. PICK n : n = Tagged(mem, k, T)  OBVIOUS
  <2>2. /\ Stored(n) = Stored(mem)
        /\ n.records = [mem.records EXCEPT ![k].tags = @ \union T]
    BY <1>1, <1>3, <2>1, Tagging
  <2>3. mem.records \in [Stored(mem) -> Record]
    BY <1>1, CoherentType DEF Sturdy
  <2>4. \A j \in Stored(mem) : /\ n.records[j].rev = mem.records[j].rev
                               /\ n.records[j].expiresAt = mem.records[j].expiresAt
                               /\ n.records[j].staleUntil = mem.records[j].staleUntil
                               /\ n.records[j].tags =
                                    IF j = k THEN mem.records[k].tags \union T
                                    ELSE mem.records[j].tags
    BY <1>3, <2>2, <2>3 DEF Record
  <2>5. Live(n) = Live(mem)
    BY <2>2, <2>4 DEF Live, Expired, RetentionDeadline
  <2>6. \A j \in Live(mem) : j \in Stored(mem)  BY DEF Live
  <2>7. mem' = n  BY <1>3, <2>1 DEF AddTags, Tagged
  <2>8. View' = Shown(n)  BY <1>1, <2>7, ShownNext
  <2>9. CASE k \notin Live(mem)
    <3>1. View[k] = Absent  BY <2>9 DEF View, Shown
    <3>2. Shown(n) = View  BY <2>4, <2>5, <2>6, <2>9 DEF View, Shown
    <3>3. View' = View  BY <2>8, <3>2
    <3> QED  BY <1>1, <3>1, <3>3
             DEF Contract!AddTags, Contract!NoReply, View, Shown, Live
  <2>10. CASE k \in Live(mem)
    <3>1. View[k] # Absent  BY <1>1, <2>10, ShownTyped DEF View
    <3>2. View[k] = [rev |-> mem.records[k].rev, tags |-> mem.records[k].tags]
      BY <2>10 DEF View, Shown
    <3>3. \A j \in Keys : Shown(n)[j] =
            IF j = k THEN [View[k] EXCEPT !.tags = @ \union T] ELSE View[j]
      BY <2>4, <2>5, <2>6, <2>10, <3>2 DEF View, Shown
    <3>4. Shown(n) = [View EXCEPT ![k] = [View[k] EXCEPT !.tags = @ \union T]]
      BY <3>3 DEF View, Shown
    <3>5. View' = [View EXCEPT ![k] = [View[k] EXCEPT !.tags = @ \union T]]
      BY <2>8, <3>4
    <3> QED  BY <1>1, <3>1, <3>5
             DEF Contract!AddTags, Contract!NoReply, View, Shown, Live
  <2> QED  BY <2>9, <2>10
<1> QED  BY <1>2, <1>3


(* Time only takes entries away.                                           *)
LEMMA ContractExpires ==
  ASSUME IInv, Tick
  PROVE  Contract!Expire
<1>1. /\ mem' = mem /\ now' = now + 1 /\ reply' = reply
      /\ Sturdy(mem) /\ now \in Nat
  BY DEF IInv, Tick
<1>2. Expired(mem) \subseteq Expired(mem)'
  <2>1. ASSUME NEW k \in Expired(mem) PROVE k \in Expired(mem)'
    <3>1. mem.records[k] \in Record
      BY <1>1, CoherentType DEF Sturdy, Expired
    <3>2. RetentionDeadline(mem.records[k]) \in Nat
      BY <3>1 DEF Record, RetentionDeadline
    <3>3. RetentionDeadline(mem.records[k]) = RetentionDeadline(mem'.records[k])
      BY <1>1
    <3> QED  BY <1>1, <3>2, <3>3 DEF Expired, Stored, RetentionDeadline
  <2> QED  BY <2>1
<1>3. \A k \in Keys : View'[k] \in {View[k], Absent}
  BY <1>1, <1>2 DEF View, Shown, Live, Stored
<1>4. View' \in [Keys -> Observable \union {Absent}]
  <2>1. View \in [Keys -> Observable \union {Absent}] /\ Absent \notin Observable
    BY <1>1, ShownTyped DEF View
  <2>2. \A k \in Keys : View'[k] \in Observable \union {Absent}
    BY <1>3, <2>1
  <2> QED  BY <2>2 DEF View, Shown
<1> QED  BY <1>1, <1>3, <1>4 DEF Contract!Expire, Contract!Shrinks,
                                 Contract!Visible, Observable, View, Shown, Live

(* What a sweep or a has() removes had expired.                            *)
LEMMA SweepsUnseen ==
  ASSUME IInv, Sweep \/ (\E k \in Keys : Has(k)) \/ UNCHANGED vars
  PROVE  UNCHANGED Contract!vars
<1>1. Sturdy(mem) /\ now' = now /\ reply' = reply
  BY DEF IInv, Sweep, Has, vars
<1>2. Fades(mem, mem')
  <2>1. ASSUME Sweep PROVE Fades(mem, mem')
    <3>1. mem' = Removed(mem, Expired(mem))  BY <2>1 DEF Sweep
    <3> QED  BY <1>1, <3>1, Sweeping
  <2>2. ASSUME NEW k \in Keys, Has(k) PROVE Fades(mem, mem')
    <3>1. mem' = Read(mem, k)  BY <2>2 DEF Has
    <3> QED  BY <1>1, <3>1, Reading
  <2>3. ASSUME UNCHANGED vars PROVE Fades(mem, mem')
    <3>1. mem' = mem  BY <2>3 DEF vars
    <3> QED  BY <1>1, <3>1 DEF Fades
  <2> QED  BY <2>1, <2>2, <2>3
<1>3. PICK n : n = mem'  OBVIOUS
<1>4. Shown(n) = View  BY <1>2, <1>3, FadesUnseen DEF View
<1>5. View' = View  BY <1>1, <1>3, <1>4, ShownNext
<1> QED  BY <1>1, <1>5 DEF Contract!vars, View, Shown, Live

LEMMA ContractNext ==
  ASSUME TagIndexLimit > MaxEntries, IInv, [Next]_vars
  PROVE  [Contract!Next]_Contract!vars
<1>1. ASSUME NEW k \in Keys, Get(k) PROVE Contract!Next
  BY <1>1, ContractGets DEF Contract!Next
<1>2. ASSUME NEW k \in Keys, NEW i \in Inputs, NEW rev \in Revisions,
             NEW b \in BOOLEAN, Set(k, i, rev, b)
      PROVE  Contract!Next
  <2>1. PICK e \in Observable : Contract!Set(k, e, b)  BY <1>2, ContractSets
  <2>2. e \in Contract!Visible  BY DEF Contract!Visible, Observable
  <2> QED  BY <2>1, <2>2 DEF Contract!Next
<1>3. ASSUME NEW k \in Keys, NEW i \in Inputs, NEW x \in 0..MaxRevision,
             CompareAndSet(k, i, x)
      PROVE  Contract!Next
  <2>1. PICK e \in Observable : Contract!CompareAndSet(k, e, x)
    BY <1>3, ContractCompares
  <2>2. e \in Contract!Visible  BY DEF Contract!Visible, Observable
  <2>3. x \in Revisions \union {0}  BY StorageAssumption DEF Revisions
  <2> QED  BY <2>1, <2>2, <2>3 DEF Contract!Next
<1>4. ASSUME NEW S \in SUBSET Keys, Delete(S) PROVE Contract!Next
  BY <1>4, ContractDeletes DEF Contract!Next
<1>5. ASSUME NEW k \in Keys, NEW T \in SUBSET Tags, AddTags(k, T)
      PROVE  Contract!Next
  BY <1>5, ContractAddsTags DEF Contract!Next
<1>6. ASSUME NEW t \in Tags, InvalidateTag(t) PROVE Contract!Next
  BY <1>6, ContractInvalidates DEF Contract!Next
<1>7. ASSUME Clear PROVE Contract!Next
  <2>1. Keys \in SUBSET Keys  OBVIOUS
  <2> QED  BY <1>7, <2>1, ContractClears DEF Contract!Next
<1>8. ASSUME Tick PROVE Contract!Next
  BY <1>8, ContractExpires DEF Contract!Next
<1> QED  BY <1>1, <1>2, <1>3, <1>4, <1>5, <1>6, <1>7, <1>8, SweepsUnseen DEF Next

(* The memory storage implements the abstract CacheStorage, if the limit of*)
(* a tag's Set exceeds maxEntries: each method is one of its operations.   *)
THEOREM ContractKept ==
  ASSUME TagIndexLimit > MaxEntries
  PROVE  Spec => KeepsContract
<1>1. Init => IInv /\ Contract!Init
  BY InitInvariant, ContractInit
<1>2. IInv /\ [Next]_vars => IInv'
  BY NextInvariant
<1>3. IInv /\ [Next]_vars => [Contract!Next]_Contract!vars
  BY ContractNext
<1> QED  BY <1>1, <1>2, <1>3, PTL DEF Spec, KeepsContract, Contract!Spec
=============================================================================
