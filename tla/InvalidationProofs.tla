-------------------------- MODULE InvalidationProofs --------------------------
(* What Invalidation guarantees, proved for every set of instances with    *)
(* any options, of cached calls and of invalidations under way: types, an  *)
(* exact registry, an invalidation that returned has reached what it was   *)
(* meant for, and nothing else was removed by it.                          *)
EXTENDS Invalidation, FiniteSetTheorems, SequenceTheorems, TLAPS

-----------------------------------------------------------------------------
(* Ordered sets *)

Smaller == OpToRel(<, Nat)

(* Every set of naturals that is not empty has a least element.  This      *)
(* stands in for induction: the least counterexample is shown not to be    *)
(* one.                                                                    *)
LEMMA Least ==
  ASSUME NEW T \in SUBSET Nat, T # {}
  PROVE  \E n \in T : \A m \in T : n <= m
<1>1. IsWellFoundedOn(Smaller, Nat)
  BY NatLessThanWellFounded DEF Smaller
<1>2. \A m, n \in Nat : m < n => <<m, n>> \in Smaller
  BY DEF Smaller, OpToRel
<1>3. \E n \in T : \A m \in T : ~(<<m, n>> \in Smaller)
  BY <1>1, WFMin
<1>4. PICK n \in T : \A m \in T : ~(<<m, n>> \in Smaller)
  BY <1>3
<1>5. ASSUME NEW m \in T
      PROVE  n <= m
  <2>1. m \in Nat /\ n \in Nat /\ ~(m < n)
    BY <1>2, <1>4
  <2> QED  BY <2>1
<1> QED  BY <1>5

(* Appending adds one element.                                             *)
LEMMA AppendElements ==
  ASSUME NEW E, NEW s \in Seq(E), NEW e \in E
  PROVE  /\ ToSet(Append(s, e)) = ToSet(s) \union {e}
         /\ IsInjective(s) /\ e \notin ToSet(s) => IsInjective(Append(s, e))
<1> DEFINE t == Append(s, e)
<1>1. /\ Len(s) \in Nat /\ DOMAIN s = 1 .. Len(s)
      /\ DOMAIN t = 1 .. (Len(s) + 1)
      /\ \A i \in 1 .. Len(s) : t[i] = s[i]
      /\ t[Len(s) + 1] = e
  <2>1. t \in Seq(E) /\ Len(t) = Len(s) + 1
    BY AppendProperties
  <2>2. DOMAIN t = 1 .. Len(t)
    BY <2>1, LenProperties
  <2> QED  BY <2>1, <2>2, AppendProperties, LenProperties
<1> HIDE DEF t
<1>2. DOMAIN t = DOMAIN s \union {Len(s) + 1}
  BY <1>1
<1>3. ToSet(t) = ToSet(s) \union {e}
  BY <1>1, <1>2 DEF ToSet
<1>4. ASSUME IsInjective(s), e \notin ToSet(s)
      PROVE  IsInjective(t)
  <2>1. \A i \in DOMAIN s : t[i] # e
    BY <1>1, <1>4 DEF ToSet
  <2> SUFFICES ASSUME NEW i \in DOMAIN t, NEW j \in DOMAIN t, t[i] = t[j]
               PROVE  i = j
    BY DEF IsInjective
  <2> QED  BY <1>1, <1>2, <1>4, <2>1 DEF IsInjective
<1> QED  BY <1>3, <1>4 DEF t

(* The elements are of the sequence's type.                                *)
LEMMA ElementsType ==
  ASSUME NEW E, NEW s \in Seq(E)
  PROVE  ToSet(s) \subseteq E /\ (s # <<>> => ToSet(s) # {})
<1>1. DOMAIN s = 1 .. Len(s) /\ Len(s) \in Nat
  BY LenProperties
<1>2. \A i \in DOMAIN s : s[i] \in E
  BY <1>1, ElementOfSeq
<1>3. ASSUME s # <<>>
      PROVE  s[1] \in ToSet(s)
  BY <1>1, <1>3, EmptySeq DEF ToSet
<1> QED  BY <1>2, <1>3 DEF ToSet

(* The head is one element, the others are in the tail.                    *)
LEMMA TailElements ==
  ASSUME NEW E, NEW s \in Seq(E), s # <<>>
  PROVE  /\ Head(s) \in E /\ Head(s) \in ToSet(s) /\ Tail(s) \in Seq(E)
         /\ ToSet(s) = {Head(s)} \union ToSet(Tail(s))
         /\ IsInjective(s) => Head(s) \notin ToSet(Tail(s)) /\ IsInjective(Tail(s))
<1> DEFINE t == Tail(s)
<1>1. /\ Len(s) \in Nat \ {0} /\ DOMAIN s = 1 .. Len(s)
      /\ Len(t) = Len(s) - 1 /\ t \in Seq(E) /\ DOMAIN t = 1 .. (Len(s) - 1)
      /\ \A i \in 1 .. (Len(s) - 1) : t[i] = s[i + 1]
      /\ Head(s) \in E
  <2>1. t \in Seq(E) /\ Len(t) = Len(s) - 1 /\ Head(s) \in E
        /\ \A i \in 1 .. Len(t) : t[i] = s[i + 1]
    BY HeadTailProperties
  <2>2. DOMAIN t = 1 .. Len(t) /\ DOMAIN s = 1 .. Len(s) /\ Len(s) \in Nat \ {0}
    BY <2>1, LenProperties, EmptySeq
  <2> QED  BY <2>1, <2>2
<1>2. Head(s) = s[1] /\ 1 \in DOMAIN s
  BY <1>1
<1> HIDE DEF t
<1>3. \A i \in DOMAIN s : i = 1 \/ (i - 1 \in DOMAIN t /\ t[i - 1] = s[i])
  BY <1>1
<1>4. \A i \in DOMAIN t : i + 1 \in DOMAIN s /\ i + 1 # 1 /\ t[i] = s[i + 1]
  BY <1>1
<1>5. ToSet(s) = {Head(s)} \union ToSet(t)
  BY <1>2, <1>3, <1>4 DEF ToSet
<1>6. ASSUME IsInjective(s)
      PROVE  Head(s) \notin ToSet(t) /\ IsInjective(t)
  <2>1. Head(s) \notin ToSet(t)
    BY <1>2, <1>4, <1>6 DEF ToSet, IsInjective
  <2>2. ASSUME NEW i \in DOMAIN t, NEW j \in DOMAIN t, t[i] = t[j]
        PROVE  i = j
    <3>1. i + 1 = j + 1
      BY <1>4, <1>6, <2>2 DEF IsInjective
    <3> QED  BY <1>1, <3>1
  <2> QED  BY <2>1, <2>2 DEF IsInjective
<1> QED  BY <1>1, <1>2, <1>5, <1>6 DEF t, ToSet

(* The elements of the two parts.                                          *)
LEMMA ConcatElements ==
  ASSUME NEW E, NEW s \in Seq(E), NEW t \in Seq(E)
  PROVE  ToSet(s \o t) = ToSet(s) \union ToSet(t)
<1> DEFINE u == s \o t
<1>1. /\ Len(s) \in Nat /\ DOMAIN s = 1 .. Len(s)
      /\ Len(t) \in Nat /\ DOMAIN t = 1 .. Len(t)
      /\ DOMAIN u = 1 .. (Len(s) + Len(t))
      /\ \A i \in DOMAIN u : u[i] = IF i <= Len(s) THEN s[i] ELSE t[i - Len(s)]
  <2>1. u \in Seq(E) /\ Len(u) = Len(s) + Len(t)
        /\ \A i \in 1 .. Len(s) + Len(t) :
             u[i] = IF i <= Len(s) THEN s[i] ELSE t[i - Len(s)]
    BY ConcatProperties
  <2> HIDE DEF u
  <2>2. DOMAIN u = 1 .. Len(u)
    BY <2>1, LenProperties
  <2> QED  BY <2>1, <2>2, LenProperties
<1> HIDE DEF u
<1>2. ASSUME NEW i \in DOMAIN u
      PROVE  u[i] \in ToSet(s) \union ToSet(t)
  <2>1. CASE i <= Len(s)
    BY <1>1, <2>1 DEF ToSet
  <2>2. CASE ~(i <= Len(s))
    <3>1. i - Len(s) \in DOMAIN t
      BY <1>1, <2>2
    <3> QED  BY <1>1, <2>2, <3>1 DEF ToSet
  <2> QED  BY <2>1, <2>2
<1>3. ASSUME NEW i \in DOMAIN s
      PROVE  s[i] \in ToSet(u)
  <2>1. i \in DOMAIN u /\ u[i] = s[i]
    BY <1>1
  <2> QED  BY <2>1 DEF ToSet
<1>4. ASSUME NEW i \in DOMAIN t
      PROVE  t[i] \in ToSet(u)
  <2>1. i + Len(s) \in DOMAIN u /\ u[i + Len(s)] = t[i]
    BY <1>1
  <2> QED  BY <2>1 DEF ToSet
<1> QED  BY <1>2, <1>3, <1>4 DEF ToSet, u

(* The place of a position among P, as in Picked.                          *)
Place(P, i) == Cardinality({j \in P : j <= i})

(* Each place is taken by one position.                                    *)
LEMMA PlaceProperties ==
  ASSUME NEW m \in Nat, NEW P \in SUBSET (1 .. m)
  PROVE  /\ Cardinality(P) \in Nat
         /\ \A i \in P : Place(P, i) \in 1 .. Cardinality(P)
         /\ \A i, k \in P : Place(P, i) = Place(P, k) => i = k
         /\ \A n \in 1 .. Cardinality(P) : \E i \in P : Place(P, i) = n
<1> DEFINE Upto(i) == {j \in P : j <= i}
           c == Cardinality(P)
           place == [i \in P |-> Place(P, i)]
<1>1. IsFiniteSet(P) /\ c \in Nat /\ \A i \in P : i \in Nat
  <2>1. IsFiniteSet(1 .. m)
    BY FS_Interval
  <2>2. IsFiniteSet(P)
    BY <2>1, FS_Subset
  <2> QED  BY <2>2, FS_CardinalityType
<1>2. ASSUME NEW i \in P
      PROVE  IsFiniteSet(Upto(i)) /\ Place(P, i) \in 1 .. c
  <2>1. IsFiniteSet(Upto(i)) /\ Cardinality(Upto(i)) <= c /\ Cardinality(Upto(i)) \in Nat
    BY <1>1, FS_Subset, FS_CardinalityType
  <2>2. i \in Upto(i)
    BY <1>1
  <2>3. Cardinality(Upto(i)) # 0
    BY <2>1, <2>2, FS_EmptySet
  <2> HIDE DEF c
  <2> QED  BY <1>1, <2>1, <2>3 DEF Place
<1>3. ASSUME NEW i \in P, NEW k \in P, i < k
      PROVE  Place(P, i) # Place(P, k)
  <2>1. Upto(i) \in SUBSET Upto(k) /\ k \in Upto(k) \ Upto(i)
    <3>1. i \in Nat /\ k \in Nat /\ \A j \in P : j \in Nat
      BY <1>1
    <3>2. \A j \in P : j <= i => j <= k
      BY <1>3, <3>1
    <3>3. k <= k /\ ~(k <= i)
      BY <1>3, <3>1
    <3> QED  BY <3>2, <3>3
  <2>2. Upto(i) # Upto(k)
    BY <2>1
  <2> HIDE DEF Upto
  <2>3. Cardinality(Upto(i)) # Cardinality(Upto(k))
    BY <1>2, <2>1, <2>2, FS_Subset
  <2> QED  BY <2>3 DEF Place, Upto
<1>4. \A i, k \in P : Place(P, i) = Place(P, k) => i = k
  <2> SUFFICES ASSUME NEW i \in P, NEW k \in P, i # k
               PROVE  Place(P, i) # Place(P, k)
    OBVIOUS
  <2>1. i < k \/ k < i
    BY <1>1
  <2> QED  BY <1>3, <2>1
<1>5. place \in Injection(P, 1 .. c)
  BY <1>2, <1>4 DEF Injection, IsInjective
<1>6. IsFiniteSet(1 .. c) /\ Cardinality(1 .. c) = c
  BY <1>1, FS_Interval
<1>7. place \in Surjection(P, 1 .. c)
  <2> HIDE DEF place
  <2> QED  BY <1>5, <1>6, FS_Injection
<1>8. \A n \in 1 .. c : \E i \in P : place[i] = n
  BY <1>7 DEF Surjection
<1> QED  BY <1>1, <1>2, <1>4, <1>8

(* What is picked is what there is at the positions, once for each.        *)
LEMMA PickedProperties ==
  ASSUME NEW E, NEW s \in Seq(E), NEW P \in SUBSET DOMAIN s
  PROVE  /\ Picked(s, P) \in Seq(E)
         /\ ToSet(Picked(s, P)) = {s[i] : i \in P}
         /\ IsInjective(s) => IsInjective(Picked(s, P))
<1> DEFINE c == Cardinality(P)
           At(n) == CHOOSE i \in P : Place(P, i) = n
           p == Picked(s, P)
<1>1. DOMAIN s = 1 .. Len(s) /\ Len(s) \in Nat /\ \A i \in DOMAIN s : s[i] \in E
  BY LenProperties, ElementOfSeq
<1>2. /\ c \in Nat
      /\ \A i \in P : Place(P, i) \in 1 .. c
      /\ \A i, k \in P : Place(P, i) = Place(P, k) => i = k
      /\ \A n \in 1 .. c : \E i \in P : Place(P, i) = n
  BY <1>1, PlaceProperties
<1>3. p = [n \in 1 .. c |-> s[At(n)]]
  BY DEF Picked, Place
<1>4. ASSUME NEW n \in 1 .. c
      PROVE  At(n) \in P /\ Place(P, At(n)) = n
  BY <1>2, <1>4, Zenon
<1>5. \A i \in P : At(Place(P, i)) = i
  BY <1>2, <1>4
<1> HIDE DEF p, At, c
<1>6. p \in Seq(E)
  BY <1>1, <1>2, <1>3, <1>4, IsASeq
<1>7. DOMAIN p = 1 .. c
  BY <1>3
<1>8. ToSet(p) = {s[i] : i \in P}
  <2>1. \A n \in 1 .. c : p[n] = s[At(n)] /\ At(n) \in P
    BY <1>3, <1>4
  <2>2. \A i \in P : Place(P, i) \in 1 .. c /\ p[Place(P, i)] = s[i]
    BY <1>2, <1>3, <1>5
  <2> QED  BY <1>7, <2>1, <2>2 DEF ToSet
<1>9. ASSUME IsInjective(s)
      PROVE  IsInjective(p)
  <2> SUFFICES ASSUME NEW n \in 1 .. c, NEW k \in 1 .. c, p[n] = p[k]
               PROVE  n = k
    BY <1>7 DEF IsInjective
  <2>1. At(n) \in DOMAIN s /\ At(k) \in DOMAIN s /\ s[At(n)] = s[At(k)]
    BY <1>3, <1>4
  <2>2. At(n) = At(k)
    BY <1>9, <2>1 DEF IsInjective
  <2> QED  BY <1>4, <2>2
<1> QED  BY <1>6, <1>8, <1>9 DEF p

(* filter() keeps what it should, and nothing twice that was there once.   *)
LEMMA FilterProperties ==
  ASSUME NEW E, NEW s \in Seq(E), NEW S
  PROVE  /\ Filter(s, S) \in Seq(E)
         /\ ToSet(Filter(s, S)) = ToSet(s) \intersect S
         /\ IsInjective(s) => IsInjective(Filter(s, S))
<1> DEFINE P == {i \in DOMAIN s : s[i] \in S}
<1>1. P \in SUBSET DOMAIN s /\ Filter(s, S) = Picked(s, P)
  BY DEF Filter
<1>2. {s[i] : i \in P} = ToSet(s) \intersect S
  BY DEF ToSet
<1> HIDE DEF P
<1> QED  BY <1>1, <1>2, PickedProperties

(* Of the instances that use one namespace of one storage, exactly one is  *)
(* kept.                                                                   *)
LEMMA DedupeProperties ==
  ASSUME NEW s \in Seq(Instances)
  PROVE  /\ Dedupe(s) \in Seq(Instances)
         /\ ToSet(Dedupe(s)) \subseteq ToSet(s)
         /\ \A i \in ToSet(s) : \E j \in ToSet(Dedupe(s)) : Namesakes(j, i)
         /\ \A i, j \in ToSet(Dedupe(s)) : Namesakes(i, j) => i = j
<1> DEFINE P == {n \in DOMAIN s : \A m \in 1 .. (n - 1) : ~Namesakes(s[m], s[n])}
<1>1. DOMAIN s = 1 .. Len(s) /\ Len(s) \in Nat
  BY LenProperties
<1>2. /\ Dedupe(s) \in Seq(Instances)
      /\ ToSet(Dedupe(s)) = {s[n] : n \in P}
  <2>1. P \in SUBSET DOMAIN s /\ Dedupe(s) = Picked(s, P)
    BY DEF Dedupe
  <2> HIDE DEF P
  <2> QED  BY <2>1, PickedProperties
<1>3. ASSUME NEW i \in ToSet(s)
      PROVE  \E j \in ToSet(Dedupe(s)) : Namesakes(j, i)
  <2> DEFINE T == {n \in DOMAIN s : Namesakes(s[n], i)}
  <2>1. T \in SUBSET Nat /\ T # {}
    BY <1>1 DEF ToSet, Namesakes
  <2>2. PICK n \in T : \A m \in T : n <= m
    <3> HIDE DEF T
    <3> QED  BY <2>1, Least
  <2>3. ASSUME NEW m \in 1 .. (n - 1)
        PROVE  ~Namesakes(s[m], s[n])
    <3>1. m \in DOMAIN s /\ ~(n <= m)
      BY <1>1, <2>2
    <3>2. m \notin T
      BY <2>2, <3>1
    <3> QED  BY <2>2, <3>1, <3>2 DEF Namesakes
  <2>4. n \in P
    BY <2>2, <2>3
  <2> QED  BY <1>2, <2>2, <2>4
<1>4. ASSUME NEW n \in P, NEW m \in P, Namesakes(s[n], s[m])
      PROVE  n = m
  <2>1. n \in Nat /\ m \in Nat /\ n >= 1 /\ m >= 1
    BY <1>1
  <2>2. ~(n \in 1 .. (m - 1))
    BY <1>4
  <2>3. ~(m \in 1 .. (n - 1))
    BY <1>4 DEF Namesakes
  <2> QED  BY <2>1, <2>2, <2>3
<1>5. \A i, j \in ToSet(Dedupe(s)) : Namesakes(i, j) => i = j
  <2> HIDE DEF P
  <2> QED  BY <1>2, <1>4
<1> QED  BY <1>2, <1>3, <1>5 DEF ToSet

-----------------------------------------------------------------------------
(* Requests *)

(* The instances a request is for.                                         *)
LEMMA ResolvedType ==
  ASSUME TypeOK, NEW r \in Requests
  PROVE  Resolved(r) \in Seq(Instances)
<1>1. registry \in Seq(Instances) /\ None \notin Instances
  BY InvalidationAssumption DEF TypeOK
<1>2. \A S : Filter(registry, S) \in Seq(Instances)
  BY <1>1, FilterProperties
<1>3. CASE r.cache \in Instances
  <2>1. <<r.cache>> \in Seq(Instances)
    BY <1>3
  <2>2. Resolved(r) = <<r.cache>>
    BY <1>1, <1>3, Zenon DEF Resolved
  <2> QED  BY <2>1, <2>2
<1>4. CASE r.cache \notin Instances \union {None}
  <2>1. Resolved(r) = Filter(registry, {i \in Instances : Config[i].namespace = r.cache})
    BY <1>4 DEF Resolved
  <2> QED  BY <1>2, <2>1
<1>5. CASE r.cache = None /\ r.namespace # None
  <2>1. Resolved(r) = Filter(registry, {i \in Instances : Config[i].namespace = r.namespace})
    BY <1>1, <1>5 DEF Resolved
  <2> QED  BY <1>2, <2>1
<1>6. CASE r.cache = None /\ r.namespace = None
  <2>1. Resolved(r) = registry
    BY <1>1, <1>6 DEF Resolved
  <2> QED  BY <1>1, <2>1
<1> QED  BY <1>3, <1>4, <1>5, <1>6

(* A command of each kind.                                                 *)
Asked(r, c) ==
  \/ c.kind = "tag" /\ c.of \in ToSet(r.tags)
  \/ c.kind = "key" /\ c.of \in ToSet(r.keys)
  \/ c.kind = "namespace" /\ c.of \in ToSet(r.namespaces)

(* One command for each item.                                              *)
LEMMA CommandsType ==
  ASSUME NEW kind \in {"tag", "key", "namespace"}, NEW X, NEW items \in Seq(X),
         \A x \in ToSet(items) : [kind |-> kind, of |-> x] \in Commands,
         NEW s, s = [n \in DOMAIN items |-> [kind |-> kind, of |-> items[n]]]
  PROVE  /\ s \in Seq(Commands)
         /\ ToSet(s) = {[kind |-> kind, of |-> x] : x \in ToSet(items)}
<1>1. DOMAIN items = 1 .. Len(items) /\ Len(items) \in Nat
  BY LenProperties
<1>2. DOMAIN s = DOMAIN items /\ \A n \in DOMAIN items : s[n] = [kind |-> kind, of |-> items[n]]
  OBVIOUS
<1>3. \A n \in DOMAIN items : s[n] \in Commands
  BY <1>2 DEF ToSet
<1>4. s \in [1 .. Len(items) -> Commands]
  BY <1>1, <1>3
<1>5. s \in Seq(Commands)
  BY <1>1, <1>4, SeqDef
<1>6. ToSet(s) = {[kind |-> kind, of |-> x] : x \in ToSet(items)}
  BY <1>2 DEF ToSet
<1> QED  BY <1>5, <1>6

(* The commands for one instance are what is asked.                        *)
LEMMA AgendaProperties ==
  ASSUME NEW r \in Requests
  PROVE  /\ Agenda(r) \in Seq(Commands)
         /\ \A c \in Commands : c \in ToSet(Agenda(r)) <=> Asked(r, c)
<1> DEFINE As(kind, items) == [n \in DOMAIN items |-> [kind |-> kind, of |-> items[n]]]
           tags == As("tag", r.tags)
           keys == As("key", r.keys)
           spaces == As("namespace", r.namespaces)
<1>1. /\ r.tags \in Seq(ToSet(r.tags)) /\ r.keys \in Seq(Functions)
      /\ r.namespaces \in Seq(ToSet(r.namespaces)) /\ ToSet(r.keys) \subseteq Functions
  BY InvalidationAssumption, ElementsType
<1>2. ASSUME NEW x
      PROVE  /\ x \in ToSet(r.tags) => [kind |-> "tag", of |-> x] \in Commands
             /\ x \in ToSet(r.keys) => [kind |-> "key", of |-> x] \in Commands
             /\ x \in ToSet(r.namespaces) => [kind |-> "namespace", of |-> x] \in Commands
  BY <1>1 DEF Commands, Tags
<1>3. /\ tags \in Seq(Commands)
      /\ ToSet(tags) = {[kind |-> "tag", of |-> x] : x \in ToSet(r.tags)}
  BY <1>1, <1>2, CommandsType
<1>4. /\ keys \in Seq(Commands)
      /\ ToSet(keys) = {[kind |-> "key", of |-> x] : x \in ToSet(r.keys)}
  BY <1>1, <1>2, CommandsType
<1>5. /\ spaces \in Seq(Commands)
      /\ ToSet(spaces) = {[kind |-> "namespace", of |-> x] : x \in ToSet(r.namespaces)}
  BY <1>1, <1>2, CommandsType
<1>6. Agenda(r) = (tags \o keys) \o spaces
  BY DEF Agenda
<1> HIDE DEF tags, keys, spaces
<1>7. tags \o keys \in Seq(Commands)
  BY <1>3, <1>4, ConcatProperties
<1>8. Agenda(r) \in Seq(Commands)
  BY <1>5, <1>6, <1>7, ConcatProperties
<1>9. ToSet(Agenda(r)) = ToSet(tags) \union ToSet(keys) \union ToSet(spaces)
  <2>1. ToSet(tags \o keys) = ToSet(tags) \union ToSet(keys)
    BY <1>3, <1>4, ConcatElements
  <2>2. ToSet(Agenda(r)) = ToSet(tags \o keys) \union ToSet(spaces)
    BY <1>5, <1>6, <1>7, ConcatElements
  <2> QED  BY <2>1, <2>2
<1>10. ASSUME NEW c \in Commands
       PROVE  c \in ToSet(Agenda(r)) <=> Asked(r, c)
  <2>1. PICK k, o : k \in {"tag", "key", "namespace"} /\ c = [kind |-> k, of |-> o]
    BY DEF Commands
  <2>2. c.kind = k /\ c.of = o
    BY <2>1
  <2>3. \A x, l : [kind |-> l, of |-> x] = c <=> l = k /\ x = o
    BY <2>1
  <2>4. c \in ToSet(tags) <=> k = "tag" /\ o \in ToSet(r.tags)
    BY <1>3, <2>3
  <2>5. c \in ToSet(keys) <=> k = "key" /\ o \in ToSet(r.keys)
    BY <1>4, <2>3
  <2>6. c \in ToSet(spaces) <=> k = "namespace" /\ o \in ToSet(r.namespaces)
    BY <1>5, <2>3
  <2> QED  BY <1>9, <2>2, <2>4, <2>5, <2>6 DEF Asked
<1> QED  BY <1>8, <1>10

-----------------------------------------------------------------------------
(* The inductive invariant.  Of the instances: resetCache disposes only    *)
(* instances that were created.                                            *)
ResetsOld == \A i \in ToSet(reset) : life[i] # "new"

(* Of an invalidation: while it runs it has something left to do, for      *)
(* instances it was addressed to, of what it was asked; when it is over    *)
(* the errors it met are in its answer.                                    *)
Underway(v) ==
  LET s == invalidation[v]
  IN  /\ s.pc # "idle" => s.request \in Requests
      /\ s.pc = "idle" => s.owed = {} /\ ~s.failing /\ ~s.error
      /\ s.pc = "running" =>
           /\ s.targets # <<>> /\ s.agenda # <<>> /\ Agenda(s.request) # <<>>
           /\ ToSet(s.targets) \subseteq s.addressed
           /\ ToSet(s.agenda) \subseteq ToSet(Agenda(s.request))
      /\ s.pc \in {"resolved", "rejected"} =>
           s.targets = <<>> /\ ~s.failing /\ (s.error => s.pc = "rejected")

(* A command failed where f is, and it will be in the answer if it counts. *)
FailedFor(v, f) ==
  LET s == invalidation[v]
  IN  /\ \E i \in s.failed : Namesakes(i, InstanceOf(f))
      /\ s.error \/ s.failing \/ f \in ToSet(s.request.keys)

(* A command that removes f is still to come.                              *)
Due(v, f) ==
  LET s == invalidation[v]
  IN  \E n \in DOMAIN s.targets :
        /\ Concerns(s.targets[n], s.request, f)
        /\ Namesakes(s.targets[n], InstanceOf(f))
        /\ n = 1 => \E c \in ToSet(s.agenda) : f \in Matching(s.targets[1], c)

(* What is left of the entries an invalidation found and was meant for.    *)
Owing(v) ==
  LET s == invalidation[v]
  IN  \A f \in s.owed \intersect entries :
        /\ f \in Meant(s.request, s.addressed)
        /\ Shadowed(v, f) \/ FailedFor(v, f) \/ Due(v, f)

IInv ==
  /\ TypeOK
  /\ RegistryExact /\ ResetsOld
  /\ \A v \in Invalidations : Underway(v) /\ Owing(v)

-----------------------------------------------------------------------------
(* Instances *)

(* Types, and what concerns the instances.                                 *)
Caches == TypeOK /\ RegistryExact /\ ResetsOld

(* At the start the registry is what createCache made of it.               *)
LEMMA InitCaches == Init => Caches
<1> SUFFICES ASSUME Init
             PROVE  Caches
  OBVIOUS
<1>1. AtStart \in Seq(Instances) /\ IsInjective(AtStart) /\ None \notin Instances
  BY InvalidationAssumption
<1>2. /\ registry \in Seq(Instances) /\ IsInjective(registry)
      /\ ToSet(registry) = ToSet(AtStart) \intersect {i \in Instances : Config[i].registers}
  BY <1>1, FilterProperties DEF Init
<1>3. <<>> \in Seq(Instances) /\ <<>> \in Seq(Commands) /\ ToSet(<<>>) = {}
  BY EmptySeq DEF ToSet
<1>4. invalidation \in [Invalidations -> Invalidation]
  BY <1>3 DEF Init, Invalidation
<1>5. ToSet(AtStart) \subseteq Instances
  BY <1>1, ElementsType
<1>6. TypeOK
  <2>1. life \in [Instances -> {"new", "live", "disposed"}]
    BY DEF Init
  <2>2. faults \in 0 .. MaxFaults /\ reset \in Seq(Instances)
    BY <1>3, InvalidationAssumption DEF Init
  <2> QED  BY <1>2, <1>4, <2>1, <2>2 DEF Init, TypeOK
<1>7. RegistryExact
  BY <1>2, <1>3, <1>5, InvalidationAssumption DEF Init, RegistryExact
<1>8. ResetsOld
  BY <1>3 DEF Init, ResetsOld
<1> QED  BY <1>6, <1>7, <1>8 DEF Caches

(* An instance is created once, and registered unless it opted out.        *)
LEMMA CreateCaches ==
  ASSUME Caches, NEW i \in Instances, NEW by, Create(i, by), default' \in {default, i}
  PROVE  Caches'
<1>1. registry \in Seq(Instances) /\ IsInjective(registry) /\ i \notin ToSet(registry)
  BY DEF Caches, TypeOK, RegistryExact, Create
<1>2. i \notin ToSet(reset)
  BY DEF Caches, ResetsOld, Create
<1>3. /\ registry' \in Seq(Instances) /\ IsInjective(registry')
      /\ ToSet(registry') = IF Config[i].registers THEN ToSet(registry) \union {i}
                                                   ELSE ToSet(registry)
  <2>1. /\ Append(registry, i) \in Seq(Instances) /\ IsInjective(Append(registry, i))
        /\ ToSet(Append(registry, i)) = ToSet(registry) \union {i}
    BY <1>1, AppendElements, AppendProperties
  <2>2. registry' = IF Config[i].registers THEN Append(registry, i) ELSE registry
    BY DEF Create
  <2> QED  BY <1>1, <2>1, <2>2
<1>4. life' = [life EXCEPT ![i] = "live"] /\ life[i] = "new" /\ reset' = reset
  BY DEF Create
<1>5. TypeOK'
  BY <1>3 DEF Caches, TypeOK, Create
<1>6. ResetsOld'
  BY <1>4 DEF Caches, TypeOK, ResetsOld
<1>7. RegistryExact'
  BY <1>2, <1>3, <1>4, InvalidationAssumption DEF Caches, TypeOK, RegistryExact
<1> QED  BY <1>5, <1>6, <1>7 DEF Caches

(* Unregistering takes one instance out of the registry.                   *)
LEMMA DisposedProperties ==
  ASSUME TypeOK, NEW i \in Instances, Disposed(i)
  PROVE  /\ registry' \in Seq(Instances) /\ IsInjective(registry')
         /\ ToSet(registry') = ToSet(registry) \ {i}
         /\ default' = (IF default = i THEN None ELSE default)
         /\ life' = [life EXCEPT ![i] = "disposed"]
         /\ entries' \subseteq entries
<1>1. registry \in Seq(Instances) /\ IsInjective(registry) /\ ToSet(registry) \subseteq Instances
  BY ElementsType DEF TypeOK
<1>2. /\ registry' \in Seq(Instances) /\ IsInjective(registry')
      /\ ToSet(registry') = ToSet(registry) \intersect (Instances \ {i})
  BY <1>1, FilterProperties DEF Disposed, Unregister
<1> QED  BY <1>1, <1>2 DEF Disposed, Unregister

(* dispose() *)
LEMMA DisposeCaches ==
  ASSUME Caches, NEW i \in Instances, Dispose(i)
  PROVE  Caches'
<1>1. TypeOK /\ Disposed(i) /\ life[i] = "live"
  BY DEF Caches, Dispose
<1>2. /\ registry' \in Seq(Instances) /\ IsInjective(registry')
      /\ ToSet(registry') = ToSet(registry) \ {i}
      /\ default' = (IF default = i THEN None ELSE default)
      /\ life' = [life EXCEPT ![i] = "disposed"]
      /\ entries' \subseteq entries
  BY <1>1, DisposedProperties
<1>3. TypeOK'
  BY <1>2 DEF Caches, TypeOK, Dispose
<1>4. ResetsOld'
  BY <1>2 DEF Caches, TypeOK, ResetsOld, Dispose
<1>5. RegistryExact'
  BY <1>1, <1>2, InvalidationAssumption DEF Caches, TypeOK, RegistryExact, Dispose
<1> QED  BY <1>3, <1>4, <1>5 DEF Caches

(* resetCache(): what it has yet to dispose is no longer registered.       *)
LEMMA ResetCaches ==
  ASSUME Caches, BeginReset \/ ResetNext
  PROVE  Caches' /\ entries' \subseteq entries /\ UNCHANGED <<invalidation, tagScope>>
<1>1. CASE BeginReset
  <2>1. ToSet(<<>>) = {} /\ <<>> \in Seq(Instances) /\ IsInjective(<<>>)
    BY EmptySeq DEF ToSet, IsInjective
  <2>2. /\ reset = <<>> /\ reset' = registry /\ registry' = <<>> /\ default' = None
        /\ UNCHANGED <<life, entries, invalidation, faults, tagScope>>
    BY <1>1 DEF BeginReset
  <2>3. TypeOK'
    BY <2>1, <2>2 DEF Caches, TypeOK
  <2>4. ResetsOld'
    <3>1. ToSet(registry) \subseteq Instances
      BY ElementsType DEF Caches, TypeOK
    <3> QED  BY <2>2, <3>1 DEF Caches, RegistryExact, ResetsOld
  <2>5. RegistryExact'
    BY <2>1, <2>2 DEF Caches, RegistryExact
  <2> QED  BY <2>2, <2>3, <2>4, <2>5 DEF Caches
<1>2. CASE ResetNext
  <2> DEFINE i == Head(reset)
  <2>1. /\ reset # <<>> /\ reset' = Tail(reset) /\ Disposed(i)
        /\ UNCHANGED <<invalidation, faults, tagScope>>
    BY <1>2 DEF ResetNext
  <2>2. /\ i \in Instances /\ Tail(reset) \in Seq(Instances)
        /\ ToSet(reset) = {i} \union ToSet(Tail(reset))
    <3>1. reset \in Seq(Instances)
      BY DEF Caches, TypeOK
    <3> QED  BY <2>1, <3>1, TailElements
  <2> HIDE DEF i
  <2>3. /\ registry' \in Seq(Instances) /\ IsInjective(registry')
        /\ ToSet(registry') = ToSet(registry) \ {i}
        /\ default' = (IF default = i THEN None ELSE default)
        /\ life' = [life EXCEPT ![i] = "disposed"]
        /\ entries' \subseteq entries
    BY <2>1, <2>2, DisposedProperties DEF Caches
  <2>4. TypeOK'
    BY <2>1, <2>2, <2>3 DEF Caches, TypeOK
  <2>5. ResetsOld'
    BY <2>1, <2>2, <2>3 DEF Caches, TypeOK, ResetsOld
  <2>6. RegistryExact'
    BY <2>1, <2>2, <2>3, InvalidationAssumption DEF Caches, TypeOK, RegistryExact
  <2> QED  BY <2>1, <2>3, <2>4, <2>5, <2>6 DEF Caches
<1> QED  BY <1>1, <1>2

(* Steps that leave the instances alone.                                   *)
LEMMA CachesKept ==
  ASSUME Caches, UNCHANGED <<registry, default, life, reset, tagScope>>,
         entries' \subseteq Functions, faults' \in 0 .. MaxFaults,
         invalidation' \in [Invalidations -> Invalidation]
  PROVE  Caches'
BY DEF Caches, TypeOK, RegistryExact, ResetsOld

-----------------------------------------------------------------------------
(* Commands *)

(* What removes an entry removes it as long as it is there.                *)
LEMMA MatchKept ==
  ASSUME NEW i, NEW c \in Commands, NEW f, f \in entries', UNCHANGED tagScope,
         f \in Matching(i, c)
  PROVE  f \in Matching(i, c)'
<1>1. \A j : IndexOf(j)' = IndexOf(j)
  BY DEF IndexOf
<1>2. CASE c.kind = "tag"
  BY <1>1, <1>2 DEF Matching, TaggedIn
<1>3. CASE c.kind = "key"
  BY <1>3 DEF Matching, KeyedIn
<1>4. CASE c.kind = "namespace"
  BY <1>4 DEF Matching, NamedIn, Target
<1> QED  BY <1>2, <1>3, <1>4 DEF Commands

(* An entry is meant as long as it is there.                               *)
LEMMA MeantKept ==
  ASSUME NEW r, NEW addressed, NEW f, f \in entries', f \in Meant(r, addressed)
  PROVE  f \in Meant(r, addressed)'
BY DEF Meant, AskedByTag, AskedByName, Target, InstanceOf

(* What concerns an entry does not change.                                 *)
LEMMA ConcernsKept ==
  ASSUME NEW i, NEW r, NEW f, UNCHANGED tagScope, Concerns(i, r, f)
  PROVE  Concerns(i, r, f)'
<1>1. \A j : IndexOf(j)' = IndexOf(j)
  BY DEF IndexOf
<1> QED  BY <1>1 DEF Concerns, AskedByTag, AskedByName, SameKeySpace, Target, InstanceOf

(* Nor does what does not.                                                 *)
LEMMA ShadowKept ==
  ASSUME NEW i, NEW r, NEW f, UNCHANGED tagScope, ~Concerns(i, r, f)
  PROVE  ~Concerns(i, r, f)'
<1>1. \A j : IndexOf(j)' = IndexOf(j)
  BY DEF IndexOf
<1> QED  BY <1>1 DEF Concerns, AskedByTag, AskedByName, SameKeySpace, Target, InstanceOf

(* An instance that uses f's namespace of f's storage, and that the        *)
(* request makes remove f, has a command that does.                        *)
LEMMA SomeCommand ==
  ASSUME NEW r \in Requests, NEW f \in entries, NEW i,
         Namesakes(i, InstanceOf(f)), Concerns(i, r, f)
  PROVE  \E c \in ToSet(Agenda(r)) : f \in Matching(i, c)
<1>1. f \in entries
  OBVIOUS
<1>2. ASSUME NEW kind \in {"tag", "key", "namespace"}, NEW o,
             Asked(r, [kind |-> kind, of |-> o])
      PROVE  [kind |-> kind, of |-> o] \in ToSet(Agenda(r))
  <2> DEFINE c == [kind |-> kind, of |-> o]
  <2>1. /\ ToSet(r.keys) \subseteq Functions
    BY InvalidationAssumption, ElementsType
  <2>2. o \in Tags \union Functions \union UNION {ToSet(q.namespaces) : q \in Requests}
    BY <1>2, <2>1 DEF Asked, Tags
  <2>3. c \in Commands
    BY <2>2 DEF Commands
  <2> QED  BY <1>2, <2>3, AgendaProperties
<1>3. CASE /\ IndexOf(i) = IndexOf(InstanceOf(f))
           /\ FunctionOf[f].tags \intersect ToSet(r.tags) # {}
  <2>1. PICK t \in FunctionOf[f].tags : t \in ToSet(r.tags)
    BY <1>3
  <2> DEFINE c == [kind |-> "tag", of |-> t]
  <2>2. c \in ToSet(Agenda(r))
    BY <1>2, <2>1 DEF Asked
  <2>3. f \in Matching(i, c)
    BY <1>1, <1>3, <2>1 DEF Matching, TaggedIn
  <2> QED  BY <2>2, <2>3
<1>4. CASE SameKeySpace(i, InstanceOf(f)) /\ f \in ToSet(r.keys)
  <2> DEFINE c == [kind |-> "key", of |-> f]
  <2>1. c \in ToSet(Agenda(r))
    BY <1>2, <1>4 DEF Asked
  <2>2. f \in Matching(i, c)
    BY <1>1, <1>4 DEF Matching, KeyedIn
  <2> QED  BY <2>1, <2>2
<1>5. ASSUME SameKeySpace(i, InstanceOf(f)), NEW n \in ToSet(r.namespaces),
             FunctionOf[f].namespace = Target(InstanceOf(f), n)
      PROVE  \E c \in ToSet(Agenda(r)) : f \in Matching(i, c)
  <2> DEFINE c == [kind |-> "namespace", of |-> n]
  <2>1. c \in ToSet(Agenda(r))
    BY <1>2 DEF Asked
  <2>2. f \in NamedIn(i, n)
    BY <1>5 DEF NamedIn, Namesakes, Target
  <2>3. f \in Matching(i, c)
    BY <2>2 DEF Matching
  <2> QED  BY <2>1, <2>3
<1> QED  BY <1>3, <1>4, <1>5 DEF Concerns, AskedByTag, AskedByName

(* On to the next instance, or to the answer.                              *)
LEMMA AdvanceProperties ==
  ASSUME NEW s \in Invalidation, s.request \in Requests, s.pc = "running",
         s.targets # <<>>, NEW a, a = Advance(s)
  PROVE  /\ a \in Invalidation
         /\ a.request = s.request /\ a.addressed = s.addressed
         /\ a.passed = s.passed /\ a.owed = s.owed /\ a.failed = s.failed
         /\ (a.error \/ a.failing) <=> (s.error \/ s.failing)
         /\ s.agenda # <<>> => a = s
         /\ s.agenda = <<>> =>
              /\ a.targets = Tail(s.targets) /\ a.failing = FALSE
              /\ a.targets = <<>> =>
                   a.pc \in {"resolved", "rejected"} /\ (a.error => a.pc = "rejected")
              /\ a.targets # <<>> =>
                   a.agenda = Agenda(s.request) /\ a.pc = "running"
<1>1. Tail(s.targets) \in Seq(Instances)
  BY HeadTailProperties DEF Invalidation
<1>2. Agenda(s.request) \in Seq(Commands)
  BY AgendaProperties
<1>3. CASE s.agenda # <<>>
  BY <1>3 DEF Advance
<1>4. CASE s.agenda = <<>> /\ Tail(s.targets) = <<>>
  <2>1. a = [s EXCEPT !.pc = IF s.error \/ s.failing THEN "rejected" ELSE "resolved",
                      !.targets = Tail(s.targets), !.failing = FALSE,
                      !.error = s.error \/ s.failing]
    BY <1>4 DEF Advance
  <2> QED  BY <1>1, <1>4, <2>1 DEF Invalidation
<1>5. CASE s.agenda = <<>> /\ Tail(s.targets) # <<>>
  <2>1. a = [s EXCEPT !.targets = Tail(s.targets), !.agenda = Agenda(s.request),
                      !.failing = FALSE, !.error = s.error \/ s.failing]
    BY <1>5 DEF Advance
  <2> QED  BY <1>1, <1>2, <1>5, <2>1 DEF Invalidation
<1> QED  BY <1>3, <1>4, <1>5

(* What becomes of s when its next command has removed gone: the command   *)
(* succeeded and removed all it had to, or it failed where it was sent.    *)
Attempted(s, gone, t) ==
  /\ t \in Invalidation /\ t.pc = "running"
  /\ t.request = s.request /\ t.targets = s.targets
  /\ t.addressed = s.addressed /\ t.passed = s.passed /\ t.error = s.error
  /\ t.owed = s.owed \ gone
  /\ ToSet(t.agenda) \subseteq ToSet(s.agenda)
  /\ s.failing => t.failing
  /\ s.failed \subseteq t.failed
  /\ gone \subseteq Matching(Head(s.targets), Head(s.agenda))
  /\ \/ /\ gone = Matching(Head(s.targets), Head(s.agenda))
        /\ t.agenda = Tail(s.agenda)
     \/ /\ Head(s.targets) \in t.failed
        /\ t.failing \/ (Head(s.agenda).kind = "key" /\ t.agenda = Tail(s.agenda))

(* One command of v.                                                       *)
Attempts(v) ==
  \E gone, t :
    /\ Attempted(invalidation[v], gone, t)
    /\ entries' = entries \ gone
    /\ invalidation' = [invalidation EXCEPT ![v] = Advance(t)]
    /\ UNCHANGED <<registry, default, life, reset, tagScope>>
    /\ faults' \in 0 .. MaxFaults

(* Whether it succeeds or fails, a command is an attempt.                  *)
LEMMA CommandAttempts ==
  ASSUME TypeOK, NEW v \in Invalidations, Underway(v), Command(v) \/ CommandFails(v)
  PROVE  Attempts(v) /\ invalidation[v].pc = "running"
<1> DEFINE s == invalidation[v]
           i == Head(s.targets)
           c == Head(s.agenda)
           ofTags == {d \in Commands : d.kind = "tag"}
<1>1. /\ s \in Invalidation /\ s.pc = "running" /\ s.targets # <<>> /\ s.agenda # <<>>
      /\ s.agenda \in Seq(Commands) /\ s.targets \in Seq(Instances)
      /\ s.owed \in SUBSET Functions /\ s.failed \in SUBSET Instances
      /\ s.failing \in BOOLEAN
  BY DEF TypeOK, Underway, Command, CommandFails, Invalidation
<1>2. /\ i \in Instances /\ c \in Commands /\ Tail(s.agenda) \in Seq(Commands)
      /\ ToSet(Tail(s.agenda)) \subseteq ToSet(s.agenda)
  BY <1>1, TailElements
<1>3. /\ Filter(Tail(s.agenda), ofTags) \in Seq(Commands)
      /\ ToSet(Filter(Tail(s.agenda), ofTags)) \subseteq ToSet(s.agenda)
  <2> DEFINE rest == Tail(s.agenda)
  <2>1. rest \in Seq(Commands) /\ ToSet(rest) \subseteq ToSet(s.agenda)
    BY <1>2
  <2> HIDE DEF s, ofTags, rest
  <2>2. /\ Filter(rest, ofTags) \in Seq(Commands)
        /\ ToSet(Filter(rest, ofTags)) = ToSet(rest) \intersect ofTags
    BY <2>1, FilterProperties
  <2> QED  BY <2>1, <2>2 DEF rest
<1>4. CASE Command(v)
  <2> DEFINE gone == Matching(i, c)
             t == [s EXCEPT !.agenda = Tail(@), !.owed = @ \ gone]
  <2>1. /\ entries' = entries \ gone
        /\ invalidation' = [invalidation EXCEPT ![v] = Advance(t)]
        /\ UNCHANGED <<registry, default, life, reset, faults, tagScope>>
    BY <1>4 DEF Command
  <2>2. t \in Invalidation
    <3> HIDE DEF s, gone
    <3> QED  BY <1>1, <1>2 DEF Invalidation
  <2>3. /\ t.pc = s.pc /\ t.request = s.request /\ t.targets = s.targets
        /\ t.addressed = s.addressed /\ t.passed = s.passed
        /\ t.error = s.error /\ t.owed = s.owed \ gone
        /\ t.agenda = Tail(s.agenda) /\ t.failing = s.failing /\ t.failed = s.failed
    <3> HIDE DEF s, gone
    <3> QED  BY <1>1 DEF Invalidation
  <2>4. Attempted(s, gone, t)
    <3> HIDE DEF t, s
    <3> QED  BY <1>1, <1>2, <2>2, <2>3 DEF Attempted
  <2>5. faults' \in 0 .. MaxFaults
    BY <2>1 DEF TypeOK
  <2> HIDE DEF gone, t
  <2> QED  BY <1>1, <2>1, <2>4, <2>5 DEF Attempts
<1>5. CASE CommandFails(v)
  <2>1. PICK gone \in SUBSET Matching(i, c) :
          /\ entries' = entries \ gone
          /\ invalidation' = [invalidation EXCEPT
               ![v] = Advance(AfterFailure([s EXCEPT !.failed = @ \union {i},
                                                     !.owed = @ \ gone]))]
    BY <1>5 DEF CommandFails
  <2> DEFINE q == [s EXCEPT !.failed = @ \union {i}, !.owed = @ \ gone]
             t == AfterFailure(q)
  <2>2. /\ q \in Invalidation /\ q.pc = s.pc /\ q.request = s.request
        /\ q.targets = s.targets /\ q.addressed = s.addressed /\ q.error = s.error
        /\ q.owed = s.owed \ gone /\ q.agenda = s.agenda /\ q.failing = s.failing
        /\ q.failed = s.failed \union {i} /\ q.passed = s.passed
    <3> HIDE DEF s, i
    <3> QED  BY <1>1, <1>2 DEF Invalidation
  <2> HIDE DEF q
  <2>3. /\ t \in Invalidation /\ t.pc = q.pc /\ t.request = q.request
        /\ t.targets = q.targets /\ t.addressed = q.addressed /\ t.error = q.error
        /\ t.owed = q.owed /\ t.failed = q.failed /\ t.passed = q.passed
        /\ ToSet(t.agenda) \subseteq ToSet(s.agenda)
        /\ q.failing => t.failing
        /\ t.failing \/ (c.kind = "key" /\ t.agenda = Tail(s.agenda))
    <3>1. q.agenda = s.agenda /\ Head(q.agenda) = c
      BY <2>2
    <3>2. CASE c.kind = "tag"
      <4>1. t = [q EXCEPT !.agenda = Filter(Tail(s.agenda), ofTags), !.failing = TRUE]
        BY <3>1, <3>2 DEF AfterFailure
      <4> HIDE DEF s, t, ofTags
      <4> QED  BY <1>3, <2>2, <4>1 DEF Invalidation
    <3>3. CASE c.kind = "key"
      <4>1. t = [q EXCEPT !.agenda = Tail(s.agenda)]
        BY <3>1, <3>3 DEF AfterFailure
      <4> HIDE DEF s, t, ofTags
      <4> QED  BY <1>2, <2>2, <3>3, <4>1 DEF Invalidation
    <3>4. CASE c.kind = "namespace"
      <4>1. t = [q EXCEPT !.agenda = <<>>, !.failing = TRUE]
        BY <3>1, <3>4 DEF AfterFailure
      <4>2. <<>> \in Seq(Commands) /\ ToSet(<<>>) = {}
        BY EmptySeq DEF ToSet
      <4> HIDE DEF s, t, ofTags
      <4> QED  BY <2>2, <4>1, <4>2 DEF Invalidation
    <3> QED  BY <1>2, <3>2, <3>3, <3>4 DEF Commands
  <2> HIDE DEF t
  <2>4. Attempted(s, gone, t)
    BY <1>1, <2>2, <2>3 DEF Attempted
  <2>5. UNCHANGED <<registry, default, life, reset, tagScope>>
        /\ faults' = faults + 1 /\ faults < MaxFaults
    BY <1>5 DEF CommandFails
  <2>6. faults' \in 0 .. MaxFaults
    BY <2>5, InvalidationAssumption DEF TypeOK
  <2> QED  BY <1>1, <2>1, <2>4, <2>5, <2>6 DEF Attempts, t, q
<1> QED  BY <1>4, <1>5

(* An attempt keeps count of what is owed: what the command did not remove *)
(* is left to a command still to come, or to an error in the answer.       *)
LEMMA AttemptOwes ==
  ASSUME TypeOK, NEW v \in Invalidations, Underway(v), Owing(v), Attempts(v),
         invalidation[v].pc = "running"
  PROVE  /\ entries' \subseteq entries
         /\ invalidation' \in [Invalidations -> Invalidation]
         /\ \A w \in Invalidations \ {v} : invalidation'[w] = invalidation[w]
         /\ Underway(v)' /\ Owing(v)'
<1>0. PICK s, i, c :
        s = invalidation[v] /\ i = Head(s.targets) /\ c = Head(s.agenda)
  OBVIOUS
<1>1. PICK gone, t, a :
        /\ Attempted(s, gone, t) /\ a = Advance(t)
        /\ entries' = entries \ gone
        /\ invalidation' = [invalidation EXCEPT ![v] = Advance(t)]
        /\ UNCHANGED <<registry, default, life, reset, tagScope>>
  BY <1>0, Zenon DEF Attempts
<1>2. /\ s \in Invalidation /\ s.pc = "running" /\ s.targets # <<>> /\ s.agenda # <<>>
      /\ s.request \in Requests /\ Agenda(s.request) # <<>>
      /\ ToSet(s.targets) \subseteq s.addressed
      /\ ToSet(s.agenda) \subseteq ToSet(Agenda(s.request))
      /\ s.agenda \in Seq(Commands) /\ s.targets \in Seq(Instances)
      /\ s.failing \in BOOLEAN /\ s.error \in BOOLEAN
  BY <1>0 DEF TypeOK, Underway, Invalidation
<1>3. /\ i \in Instances /\ i \in ToSet(s.targets) /\ c \in Commands
      /\ Tail(s.agenda) \in Seq(Commands)
      /\ ToSet(s.agenda) = {c} \union ToSet(Tail(s.agenda))
      /\ Tail(s.targets) \in Seq(Instances)
      /\ ToSet(s.targets) = {i} \union ToSet(Tail(s.targets))
  BY <1>0, <1>2, TailElements
<1>4. /\ t \in Invalidation /\ t.request = s.request /\ t.targets = s.targets
      /\ t.addressed = s.addressed /\ t.passed = s.passed
      /\ t.error = s.error /\ t.owed = s.owed \ gone
      /\ ToSet(t.agenda) \subseteq ToSet(s.agenda) /\ t.pc = "running"
      /\ t.failing \in BOOLEAN
      /\ s.failing => t.failing
      /\ s.failed \subseteq t.failed
      /\ gone \subseteq Matching(i, c)
      /\ \/ gone = Matching(i, c) /\ t.agenda = Tail(s.agenda)
         \/ /\ i \in t.failed
            /\ t.failing \/ (c.kind = "key" /\ t.agenda = Tail(s.agenda))
  BY <1>0, <1>1 DEF Attempted, Invalidation
<1>5. /\ a \in Invalidation
      /\ a.request = s.request /\ a.addressed = s.addressed
      /\ a.owed = t.owed /\ a.failed = t.failed /\ a.passed = s.passed
      /\ (a.error \/ a.failing) <=> (s.error \/ t.failing)
      /\ t.agenda # <<>> => a = t
      /\ t.agenda = <<>> =>
           /\ a.targets = Tail(s.targets) /\ a.failing = FALSE
           /\ a.targets = <<>> =>
                a.pc \in {"resolved", "rejected"} /\ (a.error => a.pc = "rejected")
           /\ a.targets # <<>> =>
                a.agenda = Agenda(s.request) /\ a.pc = "running"
  <2>1. /\ t \in Invalidation /\ t.request \in Requests /\ t.pc = "running"
        /\ t.targets # <<>>
    BY <1>2, <1>4
  <2>2. a = Advance(t)
    BY <1>1
  <2>3. /\ a \in Invalidation
        /\ a.request = t.request /\ a.addressed = t.addressed
        /\ a.owed = t.owed /\ a.failed = t.failed /\ a.passed = t.passed
        /\ (a.error \/ a.failing) <=> (t.error \/ t.failing)
        /\ t.agenda # <<>> => a = t
        /\ t.agenda = <<>> =>
             /\ a.targets = Tail(t.targets) /\ a.failing = FALSE
             /\ a.targets = <<>> =>
                  a.pc \in {"resolved", "rejected"} /\ (a.error => a.pc = "rejected")
             /\ a.targets # <<>> =>
                  a.agenda = Agenda(t.request) /\ a.pc = "running"
    BY <2>1, <2>2, AdvanceProperties
  <2> QED  BY <1>4, <2>3
<1>6. invalidation' = [invalidation EXCEPT ![v] = a] /\ invalidation'[v] = a
  BY <1>1 DEF TypeOK
<1>7. Underway(v)'
  <2>1. a.pc # "idle" /\ a.request \in Requests
    BY <1>2, <1>4, <1>5
  <2>2. CASE t.agenda # <<>>
    <3>1. a = t
      BY <1>5, <2>2
    <3> QED  BY <1>2, <1>4, <1>6, <2>2, <3>1 DEF Underway
  <2>3. CASE t.agenda = <<>>
    <3>1. ToSet(a.targets) \subseteq a.addressed
      BY <1>2, <1>3, <1>5, <2>3
    <3> QED  BY <1>2, <1>5, <1>6, <2>1, <2>3, <3>1 DEF Underway
  <2> QED  BY <2>2, <2>3
<1>8. ASSUME NEW f \in a.owed \intersect entries'
      PROVE  /\ f \in Meant(a.request, a.addressed)'
             /\ Shadowed(v, f)' \/ FailedFor(v, f)' \/ Due(v, f)'
  <2>1. f \in s.owed \intersect entries /\ f \notin gone /\ f \in entries'
    BY <1>1, <1>4, <1>5, <1>8
  <2>2. /\ f \in Meant(s.request, s.addressed)
        /\ Shadowed(v, f) \/ FailedFor(v, f) \/ Due(v, f)
    BY <1>0, <2>1 DEF Owing
  <2>3. f \in Meant(a.request, a.addressed)'
    <3>1. f \in Meant(s.request, s.addressed)'
      BY <2>1, <2>2, MeantKept
    <3> QED  BY <1>5, <3>1
  <2> SUFFICES Shadowed(v, f)' \/ FailedFor(v, f)' \/ Due(v, f)'
    BY <2>3
  <2>4. CASE Shadowed(v, f)
    <3>1. PICK j \in s.addressed \ s.passed :
            Namesakes(j, InstanceOf(f)) /\ ~Concerns(j, s.request, f)
      BY <1>0, <2>4 DEF Shadowed
    <3>2. ~Concerns(j, s.request, f)'
      BY <1>1, <3>1, ShadowKept
    <3> QED  BY <1>0, <1>5, <1>6, <2>4, <3>1, <3>2 DEF Shadowed, Namesakes, InstanceOf
  <2>5. CASE FailedFor(v, f)
    BY <1>0, <1>4, <1>5, <1>6, <2>5 DEF FailedFor, Namesakes, InstanceOf
  <2>6. CASE Due(v, f)
    <3>1. PICK n \in DOMAIN s.targets :
            /\ Concerns(s.targets[n], s.request, f)
            /\ Namesakes(s.targets[n], InstanceOf(f))
            /\ n = 1 => \E d \in ToSet(s.agenda) : f \in Matching(s.targets[1], d)
      BY <1>0, <2>6 DEF Due
    <3>1a. Concerns(s.targets[n], s.request, f)'
      BY <1>1, <3>1, ConcernsKept
    <3>2. /\ DOMAIN s.targets = 1 .. Len(s.targets) /\ Len(s.targets) \in Nat
          /\ Len(s.targets) # 0 /\ s.targets[1] = i
      BY <1>0, <1>2, LenProperties, EmptySeq
    <3>3. ASSUME n = 1, t.agenda = Tail(s.agenda), NEW d \in ToSet(Tail(s.agenda)),
                 f \in Matching(i, d)
          PROVE  Due(v, f)'
      <4>1. t.agenda # <<>>
        BY <3>3 DEF ToSet
      <4>2. a = t
        BY <1>5, <4>1
      <4>3. d \in Commands
        BY <1>3, <3>3, ElementsType
      <4>4. f \in Matching(i, d)'
        BY <1>1, <2>1, <3>3, <4>3, MatchKept
      <4> QED  BY <1>4, <1>6, <3>1, <3>1a, <3>2, <3>3, <4>2, <4>4 DEF Due, Namesakes, InstanceOf
    <3>4. CASE n = 1
      <4>1. PICK d \in ToSet(s.agenda) : f \in Matching(i, d)
        BY <3>1, <3>2, <3>4
      <4>2. CASE gone = Matching(i, c) /\ t.agenda = Tail(s.agenda)
        <5>1. d # c
          BY <2>1, <4>1, <4>2
        <5>2. d \in ToSet(Tail(s.agenda))
          BY <1>3, <4>1, <5>1
        <5> QED  BY <3>3, <3>4, <4>1, <4>2, <5>2, Zenon
      <4>3. CASE i \in t.failed /\ t.failing
        BY <1>5, <1>6, <3>1, <3>2, <3>4, <4>3 DEF FailedFor, Namesakes, InstanceOf
      <4>4. CASE i \in t.failed /\ c.kind = "key" /\ t.agenda = Tail(s.agenda)
        <5>1. CASE d = c
          <6>1. f = c.of
            BY <4>1, <4>4, <5>1 DEF Matching, KeyedIn
          <6>2. c \in ToSet(Agenda(s.request))
            BY <1>2, <1>3
          <6>3. f \in ToSet(s.request.keys)
            BY <1>2, <1>3, <4>4, <6>1, <6>2, AgendaProperties DEF Asked
          <6> QED  BY <1>5, <1>6, <3>1, <3>2, <3>4, <4>4, <6>3 DEF FailedFor, Namesakes, InstanceOf
        <5>2. CASE d # c
          <6>1. d \in ToSet(Tail(s.agenda))
            BY <1>3, <4>1, <5>2
          <6> QED  BY <3>3, <3>4, <4>1, <4>4, <6>1, Zenon
        <5> QED  BY <5>1, <5>2
      <4> QED  BY <1>4, <4>2, <4>3, <4>4
    <3>5. CASE n # 1 /\ t.agenda # <<>>
      <4>1. a = t
        BY <1>5, <3>5
      <4> QED  BY <1>4, <1>6, <3>1, <3>1a, <3>5, <4>1 DEF Due, Namesakes, InstanceOf
    <3>6. CASE n # 1 /\ t.agenda = <<>>
      <4>1. /\ Len(Tail(s.targets)) = Len(s.targets) - 1
            /\ \A m \in 1 .. Len(Tail(s.targets)) : Tail(s.targets)[m] = s.targets[m + 1]
            /\ DOMAIN Tail(s.targets) = 1 .. Len(Tail(s.targets))
        BY <1>2, <1>3, HeadTailProperties, LenProperties
      <4>2. n - 1 \in DOMAIN a.targets /\ a.targets[n - 1] = s.targets[n]
        <5>1. n \in 1 .. Len(s.targets) /\ n # 1
          BY <3>1, <3>2, <3>6
        <5>2. n - 1 \in 1 .. (Len(s.targets) - 1) /\ (n - 1) + 1 = n
          BY <3>2, <5>1
        <5> QED  BY <1>5, <3>6, <4>1, <5>2
      <4>3. a.agenda = Agenda(s.request)
        <5>1. a.targets # <<>>
          BY <4>2
        <5> QED  BY <1>5, <3>6, <5>1
      <4>4. \E d \in ToSet(Agenda(s.request)) : f \in Matching(s.targets[n], d)'
        <5>1. PICK d \in ToSet(Agenda(s.request)) : f \in Matching(s.targets[n], d)
          BY <1>2, <2>1, <3>1, SomeCommand
        <5>2. d \in Commands
          BY <1>2, AgendaProperties, ElementsType
        <5> QED  BY <1>1, <2>1, <5>1, <5>2, MatchKept
      <4>5. n - 1 = 1 => a.targets[1] = s.targets[n]
        BY <4>2
      <4> QED  BY <1>5, <1>6, <3>1, <3>1a, <4>2, <4>3, <4>4, <4>5 DEF Due, Namesakes, InstanceOf
    <3> QED  BY <3>4, <3>5, <3>6
  <2> QED  BY <2>2, <2>4, <2>5, <2>6
<1>9. Owing(v)'
  BY <1>6, <1>8 DEF Owing
<1>10. entries' \subseteq entries
  BY <1>1
<1>11. invalidation' \in [Invalidations -> Invalidation]
  BY <1>5, <1>6 DEF TypeOK
<1>12. \A w \in Invalidations \ {v} : invalidation'[w] = invalidation[w]
  BY <1>6 DEF TypeOK
<1> QED  BY <1>7, <1>9, <1>10, <1>11, <1>12

(* A step that is not v's own leaves what v owes as it was, or makes less  *)
(* of it.                                                                  *)
LEMMA OthersKept ==
  ASSUME TypeOK, NEW v \in Invalidations, Underway(v), Owing(v), UNCHANGED tagScope,
         NEW O \in SUBSET invalidation[v].owed,
         invalidation'[v] = [invalidation[v] EXCEPT !.owed = O],
         O \intersect entries' \subseteq entries
  PROVE  Underway(v)' /\ Owing(v)'
<1>0. PICK s, a : s = invalidation[v] /\ a = invalidation'[v]
  OBVIOUS
<1>1. /\ s \in Invalidation /\ a = [s EXCEPT !.owed = O]
  BY <1>0 DEF TypeOK
<1>2. /\ a.pc = s.pc /\ a.request = s.request /\ a.targets = s.targets
      /\ a.agenda = s.agenda /\ a.failing = s.failing /\ a.error = s.error
      /\ a.addressed = s.addressed /\ a.passed = s.passed
      /\ a.owed = O /\ a.failed = s.failed
  BY <1>1 DEF Invalidation
<1>3. Underway(v)'
  BY <1>0, <1>2 DEF Underway
<1>4. ASSUME NEW f \in O \intersect entries'
      PROVE  /\ f \in Meant(a.request, a.addressed)'
             /\ Shadowed(v, f)' \/ FailedFor(v, f)' \/ Due(v, f)'
  <2>1. f \in s.owed \intersect entries /\ f \in entries'
    BY <1>0, <1>4
  <2>2. /\ f \in Meant(s.request, s.addressed)
        /\ Shadowed(v, f) \/ FailedFor(v, f) \/ Due(v, f)
    BY <1>0, <2>1 DEF Owing
  <2>3. f \in Meant(a.request, a.addressed)'
    <3>1. f \in Meant(s.request, s.addressed)'
      BY <2>1, <2>2, MeantKept
    <3> QED  BY <1>2, <3>1
  <2>4. ASSUME Shadowed(v, f)
        PROVE  Shadowed(v, f)'
    <3>1. PICK j \in s.addressed \ s.passed :
            Namesakes(j, InstanceOf(f)) /\ ~Concerns(j, s.request, f)
      BY <1>0, <2>4 DEF Shadowed
    <3>2. ~Concerns(j, s.request, f)'
      BY <3>1, ShadowKept
    <3> QED  BY <1>0, <1>2, <2>4, <3>1, <3>2 DEF Shadowed, Namesakes, InstanceOf
  <2>5. ASSUME FailedFor(v, f)
        PROVE  FailedFor(v, f)'
    BY <1>0, <1>2, <2>5 DEF FailedFor, Namesakes, InstanceOf
  <2>6. ASSUME Due(v, f)
        PROVE  Due(v, f)'
    <3>1. PICK n \in DOMAIN s.targets :
            /\ Concerns(s.targets[n], s.request, f)
            /\ Namesakes(s.targets[n], InstanceOf(f))
            /\ n = 1 => \E c \in ToSet(s.agenda) : f \in Matching(s.targets[1], c)
      BY <1>0, <2>6 DEF Due
    <3>2. ToSet(s.agenda) \subseteq Commands
      BY <1>1, ElementsType DEF Invalidation
    <3>3. \A c \in ToSet(s.agenda) :
            f \in Matching(s.targets[1], c) => f \in Matching(s.targets[1], c)'
      BY <2>1, <3>2, MatchKept
    <3>4. Concerns(s.targets[n], s.request, f)'
      BY <3>1, ConcernsKept
    <3> QED  BY <1>0, <1>2, <3>1, <3>3, <3>4 DEF Due, Namesakes, InstanceOf
  <2> QED  BY <2>2, <2>3, <2>4, <2>5, <2>6
<1>5. Owing(v)'
  BY <1>0, <1>2, <1>4 DEF Owing
<1> QED  BY <1>3, <1>5

(* When it begins an invalidation owes all it is meant for.                *)
LEMMA BeginOwes ==
  ASSUME TypeOK, NEW v \in Invalidations, NEW r \in Requests, Underway(v), Begin(v, r)
  PROVE  /\ invalidation' \in [Invalidations -> Invalidation]
         /\ \A w \in Invalidations \ {v} : invalidation'[w] = invalidation[w]
         /\ Underway(v)' /\ Owing(v)'
<1>1. PICK s, all, found, targets :
        /\ s = invalidation[v] /\ all = Resolved(r) /\ found = Dedupe(all)
        /\ targets = IF Agenda(r) = <<>> THEN <<>> ELSE found
  OBVIOUS
<1>2. /\ all \in Seq(Instances) /\ found \in Seq(Instances)
      /\ ToSet(found) \subseteq ToSet(all) /\ ToSet(all) \subseteq Instances
      /\ \A i \in ToSet(all) : \E j \in ToSet(found) : Namesakes(j, i)
      /\ \A i, j \in ToSet(found) : Namesakes(i, j) => i = j
  <2>1. all \in Seq(Instances)
    BY <1>1, ResolvedType
  <2> QED  BY <1>1, <2>1, DedupeProperties, ElementsType
<1>3. /\ Agenda(r) \in Seq(Commands) /\ <<>> \in Seq(Instances) /\ <<>> \in Seq(Commands)
      /\ ToSet(<<>>) = {}
  BY AgendaProperties, EmptySeq DEF ToSet
<1>3a. PICK pc :
        /\ pc \in {"running", "resolved", "rejected"}
        /\ pc = "running" <=> targets # <<>>
        /\ invalidation' = [invalidation EXCEPT ![v] =
             [s EXCEPT !.pc = pc, !.request = r, !.targets = targets,
                       !.agenda = IF targets = <<>> THEN <<>> ELSE Agenda(r),
                       !.addressed = ToSet(all), !.passed = ToSet(all) \ ToSet(found),
                       !.owed = Meant(r, ToSet(all))]]
  <2> DEFINE unknown == r.cache \notin Instances \union {None} /\ found = <<>>
             pc == IF unknown THEN "rejected"
                   ELSE IF targets = <<>> THEN "resolved" ELSE "running"
  <2>1. invalidation' = [invalidation EXCEPT ![v] =
          [s EXCEPT !.pc = pc, !.request = r, !.targets = targets,
                    !.agenda = IF targets = <<>> THEN <<>> ELSE Agenda(r),
                    !.addressed = ToSet(all), !.passed = ToSet(all) \ ToSet(found),
                    !.owed = Meant(r, ToSet(all))]]
    BY <1>1 DEF Begin
  <2>2. pc \in {"running", "resolved", "rejected"} /\ (pc = "running" <=> targets # <<>>)
    BY <1>1
  <2> HIDE DEF pc
  <2> QED  BY <2>1, <2>2
<1>4. PICK a :
        /\ a = [s EXCEPT !.pc = pc, !.request = r, !.targets = targets,
                         !.agenda = IF targets = <<>> THEN <<>> ELSE Agenda(r),
                         !.addressed = ToSet(all), !.passed = ToSet(all) \ ToSet(found),
                         !.owed = Meant(r, ToSet(all))]
        /\ invalidation' = [invalidation EXCEPT ![v] = a]
  BY <1>3a
<1>5. UNCHANGED <<entries, tagScope>>
  BY DEF Begin
<1>6. /\ s \in Invalidation /\ s.pc = "idle" /\ ~s.failing /\ ~s.error
      /\ Meant(r, ToSet(all)) \subseteq entries /\ entries \subseteq Functions
  BY <1>1 DEF TypeOK, Underway, Begin, Meant
<1>7. targets \in Seq(Instances) /\ ToSet(targets) \subseteq ToSet(all)
  BY <1>1, <1>2, <1>3
<1>8. /\ a \in Invalidation /\ a.pc = pc /\ a.request = r /\ a.targets = targets
      /\ a.agenda = (IF targets = <<>> THEN <<>> ELSE Agenda(r))
      /\ a.addressed = ToSet(all) /\ a.passed = ToSet(all) \ ToSet(found)
      /\ a.owed = Meant(r, ToSet(all))
      /\ ~a.failing /\ ~a.error
  BY <1>2, <1>3, <1>4, <1>3a, <1>6, <1>7 DEF Invalidation
<1>9. invalidation'[v] = a
  BY <1>1, <1>4 DEF TypeOK
<1>10. Underway(v)'
  <2>1. targets # <<>> => Agenda(r) # <<>>
    BY <1>1
  <2> QED  BY <1>3a, <1>7, <1>8, <1>9, <2>1 DEF Underway
<1>11. ASSUME NEW f \in Meant(r, ToSet(all))
       PROVE  /\ f \in Meant(r, ToSet(all))'
              /\ Shadowed(v, f)' \/ Due(v, f)'
  <2>1. f \in entries /\ f \in entries' /\ InstanceOf(f) \in ToSet(all)
    BY <1>5, <1>11 DEF Meant
  <2>2. f \in Meant(r, ToSet(all))'
    BY <1>11, <2>1, MeantKept
  <2>3. PICK j \in ToSet(found) : Namesakes(j, InstanceOf(f))
    BY <1>2, <2>1
  <2>4. CASE Concerns(j, r, f)
    <3>1. PICK c \in ToSet(Agenda(r)) : f \in Matching(j, c)
      BY <2>1, <2>3, <2>4, SomeCommand
    <3>2. targets = found /\ targets # <<>> /\ c \in Commands
      BY <1>1, <1>3, <2>3, <3>1, ElementsType
    <3>3. PICK n \in DOMAIN targets : targets[n] = j
      BY <2>3, <3>2 DEF ToSet
    <3>4. f \in Matching(j, c)' /\ Concerns(j, r, f)'
      BY <1>5, <2>1, <2>4, <3>1, <3>2, MatchKept, ConcernsKept
    <3>5. Due(v, f)'
      BY <1>8, <1>9, <2>3, <3>1, <3>2, <3>3, <3>4 DEF Due, Namesakes, InstanceOf
    <3> QED  BY <2>2, <3>5
  <2>5. CASE ~Concerns(j, r, f)
    <3>1. Concerns(InstanceOf(f), r, f)
      BY <1>11 DEF Meant, Concerns, SameKeySpace
    <3>2. InstanceOf(f) \notin ToSet(found)
      BY <1>2, <2>3, <2>5, <3>1
    <3>3. j \in a.addressed \ a.passed /\ InstanceOf(f) \in a.passed
      BY <1>2, <1>8, <2>1, <2>3, <3>2
    <3>4. ~Concerns(j, r, f)'
      BY <1>5, <2>5, ShadowKept
    <3>5. Shadowed(v, f)'
      BY <1>8, <1>9, <2>3, <3>3, <3>4 DEF Shadowed, Namesakes, InstanceOf
    <3> QED  BY <2>2, <3>5
  <2> QED  BY <2>2, <2>4, <2>5
<1>12. Owing(v)'
  BY <1>8, <1>9, <1>11 DEF Owing
<1>13. invalidation' \in [Invalidations -> Invalidation]
  BY <1>4, <1>8 DEF TypeOK
<1>14. \A w \in Invalidations \ {v} : invalidation'[w] = invalidation[w]
  BY <1>4 DEF TypeOK
<1> QED  BY <1>10, <1>12, <1>13, <1>14

-----------------------------------------------------------------------------
(* Theorems *)

(* The invariant holds at the start.                                       *)
LEMMA InitInvariant == Init => IInv
<1> SUFFICES ASSUME Init
             PROVE  IInv
  OBVIOUS
<1>1. Caches
  BY InitCaches
<1>2. ASSUME NEW v \in Invalidations
      PROVE  Underway(v) /\ Owing(v)
  BY <1>2 DEF Init, Underway, Owing
<1> QED  BY <1>1, <1>2 DEF IInv, Caches

(* Every step keeps it.                                                    *)
LEMMA NextInvariant ==
  ASSUME IInv, [Next]_vars
  PROVE  IInv'
<1>1. /\ Caches /\ TypeOK /\ default \in Instances \union {None}
      /\ entries \subseteq Functions /\ faults \in 0 .. MaxFaults
      /\ invalidation \in [Invalidations -> Invalidation]
      /\ \A v \in Invalidations : Underway(v) /\ Owing(v)
  BY DEF IInv, Caches, TypeOK
<1>2. ASSUME Caches', UNCHANGED tagScope,
             \A v \in Invalidations :
               \/ Underway(v)' /\ Owing(v)'
               \/ \E O \in SUBSET invalidation[v].owed :
                    /\ invalidation'[v] = [invalidation[v] EXCEPT !.owed = O]
                    /\ O \intersect entries' \subseteq entries
      PROVE  IInv'
  <2>1. ASSUME NEW v \in Invalidations
        PROVE  Underway(v)' /\ Owing(v)'
    BY <1>1, <1>2, OthersKept
  <2> QED  BY <1>2, <2>1 DEF IInv, Caches
<1>3. ASSUME NEW v \in Invalidations, invalidation'[v] = invalidation[v],
             entries' \subseteq entries
      PROVE  \E O \in SUBSET invalidation[v].owed :
               /\ invalidation'[v] = [invalidation[v] EXCEPT !.owed = O]
               /\ O \intersect entries' \subseteq entries
  <2>1. invalidation[v] = [invalidation[v] EXCEPT !.owed = invalidation[v].owed]
    BY <1>1 DEF Invalidation
  <2> QED  BY <1>3, <2>1
<1>4. ASSUME NEW i \in Instances, CreateCache(i) \/ ConfigureCache(i) \/ GetCache(i)
      PROVE  IInv'
  <2>1. /\ \E by : Create(i, by)
        /\ default' \in {default, i}
        /\ UNCHANGED <<entries, invalidation, tagScope>>
    BY <1>4 DEF CreateCache, ConfigureCache, GetCache, Create
  <2>2. Caches'
    BY <1>1, <2>1, CreateCaches
  <2> QED  BY <1>2, <1>3, <2>1, <2>2
<1>5. ASSUME NEW i \in Instances, Dispose(i)
      PROVE  IInv'
  <2>1. Caches' /\ entries' \subseteq entries /\ UNCHANGED <<invalidation, tagScope>>
    BY <1>1, <1>5, DisposeCaches, DisposedProperties DEF Dispose
  <2> QED  BY <1>2, <1>3, <2>1
<1>6. CASE BeginReset \/ ResetNext
  <2>1. Caches' /\ entries' \subseteq entries /\ UNCHANGED <<invalidation, tagScope>>
    BY <1>1, <1>6, ResetCaches
  <2> QED  BY <1>2, <1>3, <2>1
<1>7. ASSUME NEW f \in Functions, Write(f)
      PROVE  IInv'
  <2>1. /\ entries' = entries \union {f}
        /\ invalidation' = [v \in Invalidations |->
                              [invalidation[v] EXCEPT !.owed = @ \ {f}]]
        /\ UNCHANGED <<registry, default, life, reset, faults, tagScope>>
    BY <1>7 DEF Write
  <2>2. invalidation' \in [Invalidations -> Invalidation]
    <3>1. ASSUME NEW v \in Invalidations
          PROVE  [invalidation[v] EXCEPT !.owed = @ \ {f}] \in Invalidation
      BY <1>1 DEF Invalidation
    <3> QED  BY <2>1, <3>1
  <2>3. Caches'
    BY <1>1, <2>1, <2>2, CachesKept
  <2>4. ASSUME NEW v \in Invalidations
        PROVE  \E O \in SUBSET invalidation[v].owed :
                 /\ invalidation'[v] = [invalidation[v] EXCEPT !.owed = O]
                 /\ O \intersect entries' \subseteq entries
    <3> DEFINE O == invalidation[v].owed \ {f}
    <3>1. invalidation'[v] = [invalidation[v] EXCEPT !.owed = O]
      BY <2>1
    <3>2. O \intersect entries' \subseteq entries
      BY <2>1
    <3> QED  BY <3>1, <3>2
  <2> QED  BY <1>2, <2>1, <2>3, <2>4
<1>8. ASSUME NEW v \in Invalidations, NEW r \in Requests, Begin(v, r)
      PROVE  IInv'
  <2>1. /\ invalidation' \in [Invalidations -> Invalidation]
        /\ \A w \in Invalidations \ {v} : invalidation'[w] = invalidation[w]
        /\ Underway(v)' /\ Owing(v)'
    BY <1>1, <1>8, BeginOwes
  <2>2. UNCHANGED <<registry, default, life, entries, reset, faults, tagScope>>
    BY <1>8 DEF Begin
  <2>3. Caches'
    BY <1>1, <2>1, <2>2, CachesKept
  <2>4. \A w \in Invalidations \ {v} : \E O \in SUBSET invalidation[w].owed :
          /\ invalidation'[w] = [invalidation[w] EXCEPT !.owed = O]
          /\ O \intersect entries' \subseteq entries
    BY <1>3, <2>1, <2>2
  <2> QED  BY <1>2, <2>1, <2>2, <2>3, <2>4
<1>9. ASSUME NEW v \in Invalidations, Command(v) \/ CommandFails(v)
      PROVE  IInv'
  <2>1. Attempts(v) /\ invalidation[v].pc = "running"
    BY <1>1, <1>9, CommandAttempts
  <2>2. /\ entries' \subseteq entries
        /\ invalidation' \in [Invalidations -> Invalidation]
        /\ \A w \in Invalidations \ {v} : invalidation'[w] = invalidation[w]
        /\ Underway(v)' /\ Owing(v)'
    BY <1>1, <2>1, AttemptOwes
  <2>3. UNCHANGED <<registry, default, life, reset, tagScope>> /\ faults' \in 0 .. MaxFaults
    BY <2>1 DEF Attempts
  <2>4. Caches'
    BY <1>1, <2>2, <2>3, CachesKept
  <2>5. \A w \in Invalidations \ {v} : \E O \in SUBSET invalidation[w].owed :
          /\ invalidation'[w] = [invalidation[w] EXCEPT !.owed = O]
          /\ O \intersect entries' \subseteq entries
    BY <1>3, <2>2
  <2> QED  BY <1>2, <2>2, <2>3, <2>4, <2>5
<1>10. CASE UNCHANGED vars
  <2>1. /\ entries' = entries /\ invalidation' = invalidation
        /\ UNCHANGED <<registry, default, life, reset, faults, tagScope>>
    BY <1>10 DEF vars
  <2>2. Caches'
    BY <1>1, <2>1, CachesKept
  <2> QED  BY <1>2, <1>3, <2>1, <2>2
<1> QED  BY <1>4, <1>5, <1>6, <1>7, <1>8, <1>9, <1>10 DEF Next

(* The invariant of every behaviour.                                       *)
LEMMA Invariant == Spec => []IInv
BY InitInvariant, NextInvariant, PTL DEF Spec

(* Instances, entries and invalidations keep their types; nothing is       *)
(* registered twice, and what an invalidation has yet to do is made of     *)
(* commands it was asked for.                                              *)
THEOREM TypeCorrect == Spec => []TypeOK
<1>1. IInv => TypeOK
  BY DEF IInv
<1> QED  BY <1>1, Invariant, PTL

(* The registry and the default cache, for any number of instances created *)
(* in any way, disposed and reset in any order.                            *)
THEOREM RegistryCorrect == Spec => []RegistryExact
<1>1. IInv => RegistryExact
  BY DEF IInv
<1> QED  BY <1>1, Invariant, PTL

(* An invalidation that has returned, of any request and among any others, *)
(* has reached every entry it was meant for, or its caller was told; the   *)
(* exceptions are those InvalidationReaches names.                         *)
THEOREM ReachesCorrect == Spec => []InvalidationReaches
<1>1. IInv => InvalidationReaches
  <2> SUFFICES ASSUME IInv, NEW v \in Invalidations,
                      invalidation[v].pc \in {"resolved", "rejected"},
                      NEW f \in invalidation[v].owed \intersect entries
               PROVE  \/ /\ \E i \in invalidation[v].failed : Namesakes(i, InstanceOf(f))
                         /\ \/ invalidation[v].pc = "rejected"
                            \/ f \in ToSet(invalidation[v].request.keys)
                      \/ Shadowed(v, f)
    BY DEF InvalidationReaches
  <2>1. /\ invalidation[v].targets = <<>> /\ ~invalidation[v].failing
        /\ invalidation[v].error => invalidation[v].pc = "rejected"
    BY DEF IInv, Underway
  <2>2. Shadowed(v, f) \/ FailedFor(v, f) \/ Due(v, f)
    BY DEF IInv, Owing
  <2>3. ~Due(v, f)
    BY <2>1 DEF Due
  <2> QED  BY <2>1, <2>2, <2>3 DEF FailedFor
<1> QED  BY <1>1, Invariant, PTL

(* A command reaches an instance it was addressed to, and the entries that *)
(* instance shares an index, a key or a namespace with.                    *)
THEOREM SparedCorrect == Spec => OthersSpared
<1>1. ASSUME IInv, [Next]_vars, NEW f \in entries \ entries',
             NEW v \in Invalidations, invalidation'[v] # invalidation[v]
      PROVE  \E i \in invalidation[v].addressed :
               /\ Config[i].storage = Config[InstanceOf(f)].storage
               /\ \/ Namesakes(i, InstanceOf(f))
                  \/ f \in ToSet(invalidation[v].request.keys)
                  \/ FunctionOf[f].namespace \in
                       {Config[i].namespace}
                         \union ToSet(invalidation[v].request.namespaces)
                  \/ /\ tagScope[Config[InstanceOf(f)].storage] = "storage"
                     /\ invalidation[v].request.tags # <<>>
  <2>1. /\ TypeOK /\ Underway(v)
        /\ f \in Functions /\ f \in entries /\ f \notin entries'
    BY <1>1 DEF IInv, TypeOK
  <2>2. ASSUME UNCHANGED entries \/ UNCHANGED invalidation
        PROVE  FALSE
    BY <1>1, <2>1, <2>2
  <2>3. Command(v) \/ CommandFails(v)
    <3>1. ASSUME NEW w \in Invalidations, Command(w) \/ CommandFails(w)
          PROVE  w = v
      <4>1. Underway(w)
        BY <1>1 DEF IInv
      <4>2. Attempts(w)
        BY <2>1, <3>1, <4>1, CommandAttempts
      <4>3. PICK a : invalidation' = [invalidation EXCEPT ![w] = a]
        BY <4>2 DEF Attempts
      <4> QED  BY <1>1, <2>1, <4>3 DEF TypeOK
    <3>2. ASSUME NEW i \in Instances,
                 CreateCache(i) \/ ConfigureCache(i) \/ GetCache(i) \/ Dispose(i)
          PROVE  FALSE
      BY <2>2, <3>2 DEF CreateCache, ConfigureCache, GetCache, Create, Dispose
    <3>3. ~BeginReset /\ ~ResetNext
      BY <2>2 DEF BeginReset, ResetNext
    <3>4. ASSUME NEW g \in Functions, Write(g)
          PROVE  FALSE
      BY <2>1, <3>4 DEF Write
    <3>5. ASSUME NEW w \in Invalidations, NEW r \in Requests, Begin(w, r)
          PROVE  FALSE
      BY <2>2, <3>5 DEF Begin
    <3>6. ~UNCHANGED vars
      BY <2>2 DEF vars
    <3> QED  BY <1>1, <3>1, <3>2, <3>3, <3>4, <3>5, <3>6 DEF Next
  <2>4. PICK s, i, c : /\ s = invalidation[v] /\ i = Head(s.targets)
                       /\ c = Head(s.agenda)
    OBVIOUS
  <2>5. s.pc = "running" /\ f \in Matching(i, c)
    <3>1. Attempts(v) /\ invalidation[v].pc = "running"
      BY <2>1, <2>3, CommandAttempts
    <3>2. PICK gone, t : Attempted(s, gone, t) /\ entries' = entries \ gone
      BY <2>4, <3>1 DEF Attempts
    <3> QED  BY <2>1, <2>4, <3>1, <3>2 DEF Attempted
  <2>6. /\ i \in s.addressed /\ i \in Instances /\ s.request \in Requests
        /\ c \in Commands /\ c \in ToSet(Agenda(s.request))
    <3>1. /\ s.targets \in Seq(Instances) /\ s.agenda \in Seq(Commands)
          /\ s.targets # <<>> /\ s.agenda # <<>> /\ s.request \in Requests
          /\ ToSet(s.targets) \subseteq s.addressed
          /\ ToSet(s.agenda) \subseteq ToSet(Agenda(s.request))
      BY <2>1, <2>4, <2>5 DEF TypeOK, Underway, Invalidation
    <3> QED  BY <2>4, <3>1, TailElements
  <2>7. Asked(s.request, c)
    BY <2>6, AgendaProperties
  <2>8. CASE c.kind = "tag"
    <3>1. IndexOf(InstanceOf(f)) = IndexOf(i)
      BY <2>5, <2>8 DEF Matching, TaggedIn
    <3>2. /\ tagScope[Config[i].storage] \in {"storage", "namespace", "key"}
          /\ tagScope[Config[InstanceOf(f)].storage] \in {"storage", "namespace", "key"}
      BY <1>1, <2>1, <2>6, InvalidationAssumption DEF TypeOK, InstanceOf
    <3>3. s.request.tags # <<>>
      BY <2>7, <2>8 DEF Asked, ToSet
    <3>4. Config[i].storage = Config[InstanceOf(f)].storage
      BY <3>1, <3>2 DEF IndexOf
    <3>5. Namesakes(i, InstanceOf(f)) \/ tagScope[Config[i].storage] = "storage"
      BY <3>1, <3>2, <3>4 DEF IndexOf, Namesakes
    <3> QED  BY <2>4, <2>6, <3>3, <3>4, <3>5
  <2>9. CASE c.kind = "key"
    <3>1. f = c.of /\ SameKeySpace(i, InstanceOf(f))
      BY <2>5, <2>9 DEF Matching, KeyedIn
    <3>2. f \in ToSet(s.request.keys)
      BY <2>7, <2>9, <3>1 DEF Asked
    <3> QED  BY <2>4, <2>6, <3>1, <3>2 DEF SameKeySpace
  <2>10. CASE c.kind = "namespace"
    <3>1. /\ SameKeySpace(i, InstanceOf(f))
          /\ FunctionOf[f].namespace = IF c.of = None THEN Config[i].namespace ELSE c.of
      BY <2>5, <2>10 DEF Matching, NamedIn, Target
    <3>2. c.of \in ToSet(s.request.namespaces)
      BY <2>7, <2>10 DEF Asked
    <3> QED  BY <2>4, <2>6, <3>1, <3>2 DEF SameKeySpace
  <2> QED  BY <2>6, <2>8, <2>9, <2>10 DEF Commands
<1>2. IInv /\ [Next]_vars =>
        [\A f \in entries \ entries', v \in Invalidations :
           LET s == invalidation[v]
               own == Config[InstanceOf(f)]
           IN  invalidation'[v] # s =>
                 \E i \in s.addressed :
                   /\ Config[i].storage = own.storage
                   /\ \/ Namesakes(i, InstanceOf(f)) \/ f \in ToSet(s.request.keys)
                      \/ FunctionOf[f].namespace \in
                           {Config[i].namespace} \union ToSet(s.request.namespaces)
                      \/ /\ tagScope[own.storage] = "storage"
                         /\ s.request.tags # <<>>]_vars
  BY <1>1
<1> QED  BY <1>2, Invariant, PTL DEF Spec, OthersSpared
=============================================================================
