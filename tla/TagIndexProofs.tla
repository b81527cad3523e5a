--------------------------- MODULE TagIndexProofs ---------------------------
(***************************************************************************)
(* What TagIndex guarantees, proved for every set of writers: its types;   *)
(* that over an atomic compareAndSet an invalidation reaches every entry   *)
(* whose membership was registered; and, over any kind of compareAndSet,   *)
(* that a writer gives up only when it was beaten each time.               *)
(***************************************************************************)
EXTENDS TagIndex, SequenceTheorems, FiniteSetTheorems, TLAPS

-----------------------------------------------------------------------------
(* Types *)

LEMMA Constants ==
  /\ Ttl \in Nat \ {0} /\ MaxKeysPerTag \in Nat \ {0}
  /\ CasRetries \in Nat \ {0} /\ MaxNow \in Nat
  /\ \A a \in Adders : KeyOf[a] \in Keys
  /\ \A r \in Index : r # None
  /\ \A r \in Entry : r # None
<1>1. {CasRetries, MaxKeysPerTag, Ttl} \subseteq Nat \ {0} /\ MaxNow \in Nat
  BY IndexAssumption
<1> QED  BY <1>1, NoneAssumption DEF Keys

(* What is read of an index entry, or of none. *)
LEMMA ReadTypes ==
  ASSUME NEW r \in Index \union {None}
  PROVE  /\ RevisionOf(r) \in Nat
         /\ Members(r) \in Seq(Keys)
<1>1. CASE r = None
  BY <1>1, EmptySeq DEF RevisionOf, Members
<1>2. CASE r # None
  BY <1>2 DEF RevisionOf, Members, Index
<1> QED  BY <1>1, <1>2

(* A list of keys stays one when it is extended, and loses nothing as long *)
(* as it is within the limit.                                              *)
LEMMA ExtendedProperties ==
  ASSUME NEW s \in Seq(Keys), NEW k \in Keys
  PROVE  /\ Extended(s, k) \in Seq(Keys)
         /\ Len(s) < MaxKeysPerTag => Extended(s, k) = Append(s, k)
<1> DEFINE t == Append(s, k)
           extra == Len(t) - MaxKeysPerTag
<1>1. t \in Seq(Keys) /\ Len(t) = Len(s) + 1
  BY AppendProperties
<1>2. Len(s) \in Nat /\ Len(t) \in Nat /\ extra \in Int
  BY <1>1, LenProperties, Constants
<1>3. Extended(s, k) = IF extra > 0 THEN SubSeq(t, extra + 1, Len(t)) ELSE t
  BY DEF Extended
<1>4. extra > 0 => \A i \in (extra + 1) .. Len(t) : t[i] \in Keys
  BY <1>1, <1>2, ElementOfSeq
<1>5. extra > 0 => SubSeq(t, extra + 1, Len(t)) \in Seq(Keys)
  BY <1>2, <1>4, SubSeqProperties
<1>6. Len(s) < MaxKeysPerTag => ~(extra > 0)
  BY <1>1, <1>2, Constants
<1> HIDE DEF t, extra
<1>7. Extended(s, k) \in Seq(Keys)
  BY <1>1, <1>3, <1>5
<1>8. Len(s) < MaxKeysPerTag => Extended(s, k) = t
  BY <1>3, <1>6
<1> QED  BY <1>7, <1>8 DEF t

LEMMA LiveType ==
  ASSUME TypeOK
  PROVE  Live(index) \in Index \union {None}
BY DEF TypeOK, Live

(* An index entry that a writer stores. *)
LEMMA StoreType ==
  ASSUME TypeOK, NEW a \in Adders, StoreIndex(a)
  PROVE  index' \in Index /\ adder' \in [Adders -> Adder]
<1>1. adder[a] \in Adder /\ adder[a].seen \in Index \union {None}
  BY DEF TypeOK, Adder
<1>2. /\ RevisionOf(adder[a].seen) + 1 \in Nat \ {0}
      /\ Extended(Members(adder[a].seen), KeyOf[a]) \in Seq(Keys)
  BY <1>1, ReadTypes, ExtendedProperties, Constants
<1>3. now + Ttl \in Nat
  BY Constants DEF TypeOK
<1>4. index' \in Index
  BY <1>2, <1>3 DEF StoreIndex, Index
<1>5. adder' = [adder EXCEPT ![a].pc = "added", ![a].seen = None]
  BY DEF StoreIndex
<1>6. adder' \in [Adders -> Adder]
  BY <1>1, <1>5 DEF TypeOK, Adder
<1> QED  BY <1>4, <1>6

LEMMA TypeInit == Init => TypeOK
<1> SUFFICES ASSUME Init
             PROVE  TypeOK
  OBVIOUS
<1>1. adder \in [Adders -> Adder]
  BY DEF Init, Adder
<1>2. invalidation \in [Invalidations -> Invalidation]
  BY EmptySeq DEF Init, Invalidation
<1> QED  BY <1>1, <1>2 DEF Init, TypeOK

LEMMA TypeStep == TypeOK /\ [Next]_vars => TypeOK'
<1> SUFFICES ASSUME TypeOK, [Next]_vars
             PROVE  TypeOK'
  OBVIOUS
<1>0. /\ now \in Nat /\ entries \in [Keys -> Entry \union {None}]
      /\ index \in Index \union {None} /\ adder \in [Adders -> Adder]
      /\ invalidation \in [Invalidations -> Invalidation] /\ cas \in CasModes
  BY DEF TypeOK
<1>1. ASSUME NEW a \in Adders, WriteEntry(a)
      PROVE  TypeOK'
  <2>1. [by |-> a, until |-> now + Ttl] \in Entry
    BY <1>0, Constants DEF Entry
  <2>2. entries' \in [Keys -> Entry \union {None}]
    BY <1>0, <1>1, <2>1 DEF WriteEntry
  <2>3. adder' \in [Adders -> Adder]
    BY <1>0, <1>1 DEF WriteEntry, Adder
  <2> QED  BY <1>0, <1>1, <2>2, <2>3 DEF TypeOK, WriteEntry
<1>2. ASSUME NEW a \in Adders, ReadIndex(a)
      PROVE  TypeOK'
  <2>1. adder[a] \in Adder /\ adder[a].tries + 1 \in Nat
    BY <1>0 DEF Adder
  <2>2. PICK w : w = Live(index)
    OBVIOUS
  <2>3. w \in Index \union {None}
    BY <2>2, LiveType
  <2>4. [adder[a] EXCEPT !.pc = "added"] \in Adder
    BY <2>1 DEF Adder
  <2>5. [adder[a] EXCEPT !.pc = IF cas = "none" THEN "set" ELSE "compare",
                         !.seen = w, !.tries = adder[a].tries + 1] \in Adder
    BY <2>1, <2>3 DEF Adder
  <2>6. adder' \in [Adders -> Adder]
    BY <1>0, <1>2, <2>2, <2>4, <2>5 DEF ReadIndex
  <2> QED  BY <1>0, <1>2, <2>6 DEF TypeOK, ReadIndex
<1>3. ASSUME NEW a \in Adders, CompareIndex(a)
      PROVE  TypeOK'
  <2>1. CASE StoreIndex(a)
    BY <1>0, <1>3, <2>1, StoreType DEF TypeOK, CompareIndex
  <2>2. CASE adder' = [adder EXCEPT ![a].pc = "set"] /\ UNCHANGED index
    <3>1. adder' \in [Adders -> Adder]
      BY <1>0, <2>2 DEF Adder
    <3> QED  BY <1>0, <1>3, <2>2, <3>1 DEF TypeOK, CompareIndex
  <2>3. CASE Retry(a) /\ UNCHANGED index
    <3>1. adder' \in [Adders -> Adder]
      BY <1>0, <2>3 DEF Retry, Adder
    <3> QED  BY <1>0, <1>3, <2>3, <3>1 DEF TypeOK, CompareIndex
  <2> QED  BY <1>3, <2>1, <2>2, <2>3 DEF CompareIndex
<1>4. ASSUME NEW a \in Adders, SetIndex(a)
      PROVE  TypeOK'
  BY <1>0, <1>4, StoreType DEF TypeOK, SetIndex
<1>5. ASSUME NEW i \in Invalidations, BeginInvalidate(i)
      PROVE  TypeOK'
  <2>1. Registered \in SUBSET Adders
    BY DEF Registered
  <2>2. invalidation' \in [Invalidations -> Invalidation]
    BY <1>0, <1>5, <2>1 DEF BeginInvalidate, Invalidation
  <2> QED  BY <1>0, <1>5, <2>2 DEF TypeOK, BeginInvalidate
<1>6. ASSUME NEW i \in Invalidations, ReadKeys(i)
      PROVE  TypeOK'
  <2>1. Members(Live(index)) \in Seq(Keys)
    BY LiveType, ReadTypes
  <2>2. invalidation' \in [Invalidations -> Invalidation]
    BY <1>0, <1>6, <2>1 DEF ReadKeys, Invalidation
  <2> QED  BY <1>0, <1>6, <2>2 DEF TypeOK, ReadKeys
<1>7. ASSUME NEW i \in Invalidations, DeleteEntry(i)
      PROVE  TypeOK'
  <2>1. invalidation[i] \in Invalidation /\ invalidation[i].keys \in Seq(Keys)
    BY <1>0 DEF Invalidation
  <2>2. Tail(invalidation[i].keys) \in Seq(Keys)
    BY <1>7, <2>1, HeadTailProperties DEF DeleteEntry
  <2>3. invalidation' \in [Invalidations -> Invalidation]
    BY <1>0, <1>7, <2>1, <2>2 DEF DeleteEntry, Invalidation
  <2>4. entries' \in [Keys -> Entry \union {None}]
    BY <1>0, <1>7 DEF DeleteEntry
  <2> QED  BY <1>0, <1>7, <2>3, <2>4 DEF TypeOK, DeleteEntry
<1>8. ASSUME NEW i \in Invalidations, DeleteIndex(i)
      PROVE  TypeOK'
  <2>1. invalidation' \in [Invalidations -> Invalidation]
    BY <1>0, <1>8 DEF DeleteIndex, Invalidation
  <2> QED  BY <1>0, <1>8, <2>1 DEF TypeOK, DeleteIndex
<1>9. CASE Tick
  BY <1>0, <1>9 DEF TypeOK, Tick
<1>10. CASE UNCHANGED vars
  BY <1>0, <1>10 DEF TypeOK, vars
<1> QED  BY <1>1, <1>2, <1>3, <1>4, <1>5, <1>6, <1>7, <1>8, <1>9, <1>10
            DEF Next

(* Entries, the index, writers and invalidations keep their types, over    *)
(* every kind of compareAndSet and with every limit.                       *)
THEOREM TypeCorrect == Spec => []TypeOK
<1>1. Init => TypeOK
  BY TypeInit
<1>2. TypeOK /\ [Next]_vars => TypeOK'
  BY TypeStep
<1> QED  BY <1>1, <1>2, PTL DEF Spec

-----------------------------------------------------------------------------
(* Lists of different keys *)

Distinct(s) == \A i, j \in 1..Len(s) : s[i] = s[j] => i = j

LEMMA AppendContains ==
  ASSUME NEW s \in Seq(Keys), NEW k \in Keys
  PROVE  /\ Append(s, k) \in Seq(Keys)
         /\ \A x : Contains(s, x) => Contains(Append(s, k), x)
         /\ Contains(Append(s, k), k)
         /\ Distinct(s) /\ ~Contains(s, k) => Distinct(Append(s, k))
<1> DEFINE t == Append(s, k)
<1>1. /\ t \in Seq(Keys) /\ Len(t) = Len(s) + 1
      /\ \A i \in 1..Len(s) : t[i] = s[i]
      /\ t[Len(s) + 1] = k
  BY AppendProperties
<1>2. Len(s) \in Nat
  BY LenProperties
<1> HIDE DEF t
<1>3. \A x : Contains(s, x) => Contains(t, x)
  BY <1>1, <1>2 DEF Contains
<1>4. Contains(t, k)
  BY <1>1, <1>2 DEF Contains
<1>5. ASSUME Distinct(s), ~Contains(s, k)
      PROVE  Distinct(t)
  <2>1. \A i \in 1..Len(t) : i \in 1..Len(s) \/ i = Len(s) + 1
    BY <1>1, <1>2
  <2>2. \A i \in 1..Len(s) : s[i] # k
    BY <1>5 DEF Contains
  <2> QED  BY <1>1, <1>5, <2>1, <2>2 DEF Distinct
<1> QED  BY <1>1, <1>3, <1>4, <1>5 DEF t

LEMMA TailContains ==
  ASSUME NEW s \in Seq(Keys), s # <<>>, NEW k, Contains(s, k)
  PROVE  k = Head(s) \/ Contains(Tail(s), k)
<1>1. Len(s) \in Nat \ {0} /\ Len(Tail(s)) = Len(s) - 1
  BY EmptySeq, HeadTailProperties
<1>2. \A i \in 1..Len(Tail(s)) : Tail(s)[i] = s[i + 1]
  BY HeadTailProperties
<1>3. Head(s) = s[1]
  OBVIOUS
<1>4. PICK i \in 1..Len(s) : s[i] = k
  BY DEF Contains
<1>5. CASE i = 1
  BY <1>3, <1>4, <1>5
<1>6. CASE i # 1
  <2>1. i - 1 \in 1..Len(Tail(s)) /\ (i - 1) + 1 = i
    BY <1>1, <1>6
  <2>2. Tail(s)[i - 1] = k
    BY <1>2, <1>4, <2>1
  <2> QED  BY <2>1, <2>2 DEF Contains
<1> QED  BY <1>5, <1>6

-----------------------------------------------------------------------------
(* Reaching what was registered *)

(* Neither expiry, nor another invalidation, nor the limit of the index    *)
(* takes a membership away.                                                *)
Undisturbed ==
  /\ MaxNow < Ttl
  /\ \A i, j \in Invalidations : i = j
  /\ IsFiniteSet(Keys) /\ Cardinality(Keys) <= MaxKeysPerTag

(* Another key fits into an index within the limit. *)
LEMMA Fits ==
  ASSUME Undisturbed, NEW s \in Seq(Keys), NEW k \in Keys,
         Distinct(s), ~Contains(s, k)
  PROVE  Len(s) < MaxKeysPerTag
<1> DEFINE t == Append(s, k)
           n == Len(t)
<1>1. t \in Seq(Keys) /\ Distinct(t) /\ n = Len(s) + 1
  BY AppendContains, AppendProperties
<1>2. n \in Nat /\ Len(s) \in Nat /\ t \in [1..n -> Keys]
  BY <1>1, LenProperties
<1> HIDE DEF t
<1>3. t \in Injection(1..n, Keys)
  BY <1>1, <1>2 DEF Distinct, Injection, IsInjective
<1>4. Cardinality(1..n) = n
  BY <1>1, <1>2, FS_Interval
<1>5. Cardinality(1..n) <= Cardinality(Keys) /\ Cardinality(Keys) \in Nat
  BY <1>3, FS_Injection, FS_CardinalityType DEF Undisturbed
<1> HIDE DEF n
<1> QED  BY <1>1, <1>2, <1>4, <1>5, Constants DEF Undisturbed

(* The index has been deleted. *)
Over == \E i \in Invalidations : invalidation[i].pc = "done"

(* Nothing has expired. *)
AllLive ==
  /\ now \in 0..MaxNow
  /\ \A k \in Keys : entries[k] # None => Ttl <= entries[k].until
  /\ index # None => Ttl <= index.until

(* A writer that is about to compare has read the index as it is, or an    *)
(* older one, which its revision tells.                                    *)
SeenExact(a) ==
  LET seen == adder[a].seen
  IN  /\ ~Contains(Members(seen), KeyOf[a])
      /\ RevisionOf(seen) <= RevisionOf(index)
      /\ RevisionOf(seen) = RevisionOf(index) => Members(seen) = Members(index)

(* Until it is deleted, the index names every registered key, once. *)
Indexed ==
  /\ Distinct(Members(index))
  /\ \A a \in Adders :
       /\ adder[a].pc = "added" => Contains(Members(index), KeyOf[a])
       /\ adder[a].pc = "compare" => SeenExact(a)

Gone(a) == entries[KeyOf[a]] # None => entries[KeyOf[a]].by # a

(* What an invalidation owes is gone or still among the keys it read. *)
OwedKept ==
  \A i \in Invalidations : \A a \in invalidation[i].owed :
    /\ adder[a].pc = "added"
    /\ invalidation[i].pc = "delete" =>
         Gone(a) \/ Contains(invalidation[i].keys, KeyOf[a])
    /\ invalidation[i].pc = "done" => Gone(a)

ReachInv ==
  /\ AllLive
  /\ \A a \in Adders : adder[a].pc # "set"
  /\ ~Over => Indexed
  /\ OwedKept

LEMMA LiveIndex ==
  ASSUME TypeOK, Undisturbed, AllLive
  PROVE  Live(index) = index
<1>1. index # None => index.until \in Nat /\ Ttl <= index.until
  BY DEF TypeOK, Index, AllLive
<1>2. now < Ttl
  BY Constants DEF AllLive, Undisturbed
<1> QED  BY <1>1, <1>2, Constants DEF Live, TypeOK

LEMMA ReachInit == Init /\ Undisturbed => ReachInv
<1> SUFFICES ASSUME Init, Undisturbed
             PROVE  ReachInv
  OBVIOUS
<1>1. AllLive
  BY Constants DEF Init, AllLive
<1>2. Distinct(Members(index))
  BY EmptySeq DEF Init, Members, Distinct
<1> QED  BY <1>1, <1>2 DEF Init, ReachInv, Indexed, OwedKept

(* A step of a writer that stores nothing. *)
LEMMA WriterReads ==
  ASSUME TypeOK, ReachInv, NEW a \in Adders,
         UNCHANGED <<now, entries, index, invalidation>>,
         \A b \in Adders \ {a} : adder'[b] = adder[b],
         adder[a].pc # "added",
         adder'[a].pc # "set",
         ~Over /\ adder'[a].pc = "added" =>
           Contains(Members(index), KeyOf[a]),
         ~Over /\ adder'[a].pc = "compare" => SeenExact(a)'
  PROVE  ReachInv'
<1>1. AllLive'
  BY DEF ReachInv, AllLive
<1>2. \A b \in Adders : adder'[b].pc # "set"
  BY DEF ReachInv
<1>3. Over' = Over
  BY DEF Over
<1>4. ASSUME ~Over
      PROVE  Indexed'
  <2>1. Distinct(Members(index)) /\ Members(index') = Members(index)
    BY <1>4 DEF ReachInv, Indexed
  <2>2. \A b \in Adders : adder'[b].pc = "added" =>
          Contains(Members(index), KeyOf[b])
    BY <1>4 DEF ReachInv, Indexed
  <2>3. ASSUME NEW b \in Adders \ {a}, adder'[b].pc = "compare"
        PROVE  SeenExact(b)'
    BY <1>4, <2>3 DEF ReachInv, Indexed, SeenExact, RevisionOf, Members
  <2>4. \A b \in Adders : adder'[b].pc = "compare" => SeenExact(b)'
    BY <1>4, <2>3
  <2> QED  BY <2>1, <2>2, <2>4 DEF Indexed, Members
<1>5. OwedKept'
  <2> SUFFICES ASSUME NEW i \in Invalidations, NEW b \in invalidation[i].owed
               PROVE  /\ adder'[b].pc = "added"
                      /\ invalidation[i].pc = "delete" =>
                           Gone(b) \/ Contains(invalidation[i].keys, KeyOf[b])
                      /\ invalidation[i].pc = "done" => Gone(b)
    BY DEF OwedKept, Gone
  <2>1. adder[b].pc = "added"
    BY DEF ReachInv, OwedKept
  <2>2. b \in Adders
    BY DEF TypeOK, Invalidation
  <2>3. adder'[b] = adder[b]
    BY <2>1, <2>2
  <2> QED  BY <2>1, <2>3 DEF ReachInv, OwedKept
<1> QED  BY <1>1, <1>2, <1>3, <1>4, <1>5 DEF ReachInv

LEMMA ReachWriteEntry ==
  ASSUME TypeOK, ReachInv, Undisturbed, NEW a \in Adders, WriteEntry(a)
  PROVE  ReachInv'
<1> DEFINE written == [by |-> a, until |-> now + Ttl]
<1>1. /\ entries' = [entries EXCEPT ![KeyOf[a]] = written]
      /\ adder' = [adder EXCEPT ![a].pc = "read"]
      /\ adder[a].pc = "idle"
      /\ UNCHANGED <<now, index, invalidation>>
  BY DEF WriteEntry
<1>2. /\ adder \in [Adders -> Adder] /\ now \in Nat
      /\ entries \in [Keys -> Entry \union {None}]
  BY DEF TypeOK
<1>3. adder'[a].pc = "read" /\ \A b \in Adders \ {a} : adder'[b] = adder[b]
  BY <1>1, <1>2 DEF Adder
<1>4. AllLive'
  <2>1. Ttl <= written.until
    BY <1>2, Constants
  <2>2. \A k \in Keys : entries'[k] = entries[k] \/ entries'[k] = written
    BY <1>1, <1>2
  <2> HIDE DEF written
  <2> QED  BY <1>1, <2>1, <2>2 DEF ReachInv, AllLive
<1>5. \A b \in Adders : adder'[b].pc # "set"
  BY <1>3 DEF ReachInv
<1>6. Over' = Over
  BY <1>1 DEF Over
<1>7. ASSUME ~Over
      PROVE  Indexed'
  <2>1. \A b \in Adders : adder'[b].pc \in {"added", "compare"} =>
          adder'[b] = adder[b]
    BY <1>3
  <2>2. Indexed
    BY <1>7 DEF ReachInv
  <2>3. Members(index') = Members(index) /\ RevisionOf(index') = RevisionOf(index)
    BY <1>1
  <2>4. \A b \in Adders : adder'[b].pc = "compare" => SeenExact(b)'
    BY <2>1, <2>2, <2>3 DEF Indexed, SeenExact
  <2> QED  BY <2>1, <2>2, <2>3, <2>4 DEF Indexed
<1>8. OwedKept'
  <2> SUFFICES ASSUME NEW i \in Invalidations, NEW b \in invalidation[i].owed
               PROVE  /\ adder'[b].pc = "added"
                      /\ invalidation[i].pc = "delete" =>
                           Gone(b)' \/ Contains(invalidation[i].keys, KeyOf[b])
                      /\ invalidation[i].pc = "done" => Gone(b)'
    BY <1>1 DEF OwedKept
  <2>1. b \in Adders
    BY DEF TypeOK, Invalidation
  <2>2. adder[b].pc = "added" /\ adder'[b] = adder[b] /\ b # a
    BY <1>1, <1>3, <2>1 DEF ReachInv, OwedKept
  <2>3. written.by = a
    OBVIOUS
  <2>4. entries'[KeyOf[b]] = entries[KeyOf[b]] \/ entries'[KeyOf[b]] = written
    BY <1>1, <1>2, <2>1, Constants
  <2> HIDE DEF written
  <2>5. Gone(b) => Gone(b)'
    BY <2>2, <2>3, <2>4 DEF Gone
  <2> QED  BY <2>2, <2>5 DEF ReachInv, OwedKept
<1> QED  BY <1>4, <1>5, <1>6, <1>7, <1>8 DEF ReachInv

LEMMA ReachReadIndex ==
  ASSUME TypeOK, ReachInv, Undisturbed, cas = "atomic",
         NEW a \in Adders, ReadIndex(a)
  PROVE  ReachInv'
<1>1. Live(index) = index
  BY LiveIndex DEF ReachInv
<1>2. adder \in [Adders -> Adder] /\ index \in Index \union {None}
  BY DEF TypeOK
<1>3. /\ adder[a].pc = "read"
      /\ UNCHANGED <<now, entries, index, invalidation>>
      /\ adder' = [adder EXCEPT ![a] =
           IF Contains(Members(index), KeyOf[a])
           THEN [adder[a] EXCEPT !.pc = "added"]
           ELSE [adder[a] EXCEPT !.pc = "compare",
                                 !.seen = index, !.tries = adder[a].tries + 1]]
  BY <1>1 DEF ReadIndex
<1>4. \A b \in Adders \ {a} : adder'[b] = adder[b]
  BY <1>2, <1>3
<1>5. CASE Contains(Members(index), KeyOf[a])
  <2>1. adder'[a].pc = "added"
    BY <1>2, <1>3, <1>5 DEF Adder
  <2> QED  BY <1>3, <1>4, <1>5, <2>1, WriterReads
<1>6. CASE ~Contains(Members(index), KeyOf[a])
  <2>1. adder'[a].pc = "compare" /\ adder'[a].seen = index
    BY <1>2, <1>3, <1>6 DEF Adder
  <2>2. RevisionOf(index) \in Nat
    BY <1>2, ReadTypes
  <2>3. SeenExact(a)'
    BY <1>3, <1>6, <2>1, <2>2 DEF SeenExact
  <2> QED  BY <1>3, <1>4, <2>1, <2>3, WriterReads
<1> QED  BY <1>5, <1>6

LEMMA ReachStore ==
  ASSUME TypeOK, ReachInv, Undisturbed, NEW a \in Adders,
         adder[a].pc = "compare", Agrees(a), StoreIndex(a),
         UNCHANGED <<now, entries, invalidation>>
  PROVE  ReachInv'
<1> DEFINE seen == adder[a].seen
           stored == [rev |-> RevisionOf(seen) + 1,
                      keys |-> Extended(Members(seen), KeyOf[a]),
                      until |-> now + Ttl]
<1>1. /\ index' = stored
      /\ adder' = [adder EXCEPT ![a].pc = "added", ![a].seen = None]
  BY DEF StoreIndex
<1>2. /\ adder \in [Adders -> Adder] /\ now \in Nat
      /\ index \in Index \union {None} /\ seen \in Index \union {None}
  BY DEF TypeOK, Adder
<1>3. adder'[a].pc = "added" /\ \A b \in Adders \ {a} : adder'[b] = adder[b]
  BY <1>1, <1>2 DEF Adder
<1>4. Live(index) = index
  BY LiveIndex DEF ReachInv
<1>5. RevisionOf(seen) = RevisionOf(index)
  BY <1>4 DEF Agrees
<1>6. /\ RevisionOf(seen) \in Nat /\ Members(seen) \in Seq(Keys)
      /\ KeyOf[a] \in Keys
  BY <1>2, ReadTypes, Constants
<1>7. index' # None
  BY <1>1, StoreType, Constants
<1> HIDE DEF seen
<1>8. /\ RevisionOf(index') = RevisionOf(index) + 1
      /\ Members(index') = Extended(Members(seen), KeyOf[a])
  BY <1>1, <1>5, <1>7 DEF RevisionOf, Members
<1>9. AllLive'
  <2>1. Ttl <= stored.until
    BY <1>2, Constants
  <2> QED  BY <1>1, <2>1 DEF ReachInv, AllLive
<1>10. \A b \in Adders : adder'[b].pc # "set"
  BY <1>3 DEF ReachInv
<1>11. Over' = Over
  BY DEF Over
<1>12. ASSUME ~Over
       PROVE  Indexed'
  <2>1. Indexed /\ SeenExact(a)
    BY <1>12 DEF ReachInv, Indexed
  <2>2. Members(seen) = Members(index) /\ ~Contains(Members(seen), KeyOf[a])
    BY <1>5, <2>1 DEF SeenExact, seen
  <2>3. Distinct(Members(seen))
    BY <2>1, <2>2 DEF Indexed
  <2>4. Len(Members(seen)) < MaxKeysPerTag
    BY <1>6, <2>2, <2>3, Fits
  <2>5. Members(index') = Append(Members(index), KeyOf[a])
    BY <1>6, <1>8, <2>2, <2>4, ExtendedProperties
  <2>6. /\ Distinct(Members(index')) /\ Contains(Members(index'), KeyOf[a])
        /\ \A x : Contains(Members(index), x) => Contains(Members(index'), x)
    BY <1>6, <2>2, <2>3, <2>5, AppendContains
  <2>7. ASSUME NEW b \in Adders, adder'[b].pc = "added"
        PROVE  Contains(Members(index'), KeyOf[b])
    BY <1>3, <2>1, <2>6, <2>7 DEF Indexed
  <2>8. ASSUME NEW b \in Adders, adder'[b].pc = "compare"
        PROVE  SeenExact(b)'
    <3>1. b # a /\ adder'[b] = adder[b] /\ SeenExact(b)
      BY <1>3, <2>1, <2>8 DEF Indexed
    <3>2. RevisionOf(adder[b].seen) \in Nat /\ RevisionOf(index) \in Nat
      BY <1>2, ReadTypes DEF Adder
    <3>3. /\ RevisionOf(adder[b].seen) <= RevisionOf(index')
          /\ RevisionOf(adder[b].seen) # RevisionOf(index')
      BY <1>8, <3>1, <3>2 DEF SeenExact
    <3> QED  BY <3>1, <3>3 DEF SeenExact
  <2> QED  BY <2>6, <2>7, <2>8 DEF Indexed
<1>13. OwedKept'
  <2> SUFFICES ASSUME NEW i \in Invalidations, NEW b \in invalidation[i].owed
               PROVE  /\ adder'[b].pc = "added"
                      /\ invalidation[i].pc = "delete" =>
                           Gone(b) \/ Contains(invalidation[i].keys, KeyOf[b])
                      /\ invalidation[i].pc = "done" => Gone(b)
    BY DEF OwedKept, Gone
  <2>1. b \in Adders /\ adder[b].pc = "added"
    BY DEF TypeOK, Invalidation, ReachInv, OwedKept
  <2>2. adder'[b] = adder[b]
    BY <1>3, <2>1
  <2> QED  BY <2>1, <2>2 DEF ReachInv, OwedKept
<1> QED  BY <1>9, <1>10, <1>11, <1>12, <1>13 DEF ReachInv

LEMMA ReachCompareIndex ==
  ASSUME TypeOK, ReachInv, Undisturbed, cas = "atomic",
         NEW a \in Adders, CompareIndex(a)
  PROVE  ReachInv'
<1>1. adder[a].pc = "compare" /\ UNCHANGED <<now, entries, invalidation>>
  BY DEF CompareIndex
<1>2. CASE Agrees(a) /\ StoreIndex(a)
  BY <1>1, <1>2, ReachStore
<1>3. CASE Retry(a) /\ UNCHANGED index
  <2>1. adder \in [Adders -> Adder]
    BY DEF TypeOK
  <2>2. /\ adder'[a].pc \in {"failed", "read"}
        /\ \A b \in Adders \ {a} : adder'[b] = adder[b]
    BY <1>3, <2>1 DEF Retry, Adder
  <2> QED  BY <1>1, <1>3, <2>2, WriterReads
<1> QED  BY <1>1, <1>2, <1>3 DEF CompareIndex

(* A step of an invalidation that has not deleted the index yet. *)
LEMMA IndexUntouched ==
  ASSUME ReachInv, UNCHANGED <<now, index, adder>>,
         Over => Over',
         \A k \in Keys : entries'[k] \in {entries[k], None}
  PROVE  /\ AllLive'
         /\ \A a \in Adders : adder'[a].pc # "set"
         /\ ~Over' => Indexed'
<1>1. AllLive'
  BY DEF ReachInv, AllLive
<1>2. ASSUME ~Over'
      PROVE  Indexed'
  BY <1>2 DEF ReachInv, Indexed, SeenExact, RevisionOf, Members
<1> QED  BY <1>1, <1>2 DEF ReachInv

LEMMA ReachBeginInvalidate ==
  ASSUME TypeOK, ReachInv, NEW i \in Invalidations, BeginInvalidate(i)
  PROVE  ReachInv'
<1>1. /\ invalidation' = [invalidation EXCEPT ![i].pc = "read",
                                              ![i].owed = Registered]
      /\ invalidation[i].pc = "idle"
      /\ UNCHANGED <<now, entries, index, adder>>
  BY DEF BeginInvalidate
<1>2. invalidation \in [Invalidations -> Invalidation]
  BY DEF TypeOK
<1>3. /\ invalidation'[i].pc = "read" /\ invalidation'[i].owed = Registered
      /\ \A j \in Invalidations \ {i} : invalidation'[j] = invalidation[j]
  BY <1>1, <1>2 DEF Invalidation
<1>4. Over => Over'
  BY <1>1, <1>3 DEF Over
<1>5. \A a \in Registered : adder[a].pc = "added"
  BY DEF Registered
<1>6. OwedKept'
  <2> SUFFICES ASSUME NEW j \in Invalidations, NEW b \in invalidation'[j].owed
               PROVE  /\ adder[b].pc = "added"
                      /\ invalidation'[j].pc = "delete" =>
                           Gone(b) \/ Contains(invalidation'[j].keys, KeyOf[b])
                      /\ invalidation'[j].pc = "done" => Gone(b)
    BY <1>1 DEF OwedKept, Gone
  <2>1. CASE j # i
    BY <1>3, <2>1 DEF ReachInv, OwedKept
  <2>2. CASE j = i
    BY <1>3, <1>5, <2>2
  <2> QED  BY <2>1, <2>2
<1> QED  BY <1>1, <1>4, <1>6, IndexUntouched DEF ReachInv

LEMMA ReachReadKeys ==
  ASSUME TypeOK, ReachInv, Undisturbed, NEW i \in Invalidations, ReadKeys(i)
  PROVE  ReachInv'
<1>1. /\ invalidation' = [invalidation EXCEPT ![i].pc = "delete",
                                              ![i].keys = Members(index)]
      /\ invalidation[i].pc = "read"
      /\ UNCHANGED <<now, entries, index, adder>>
  BY LiveIndex DEF ReadKeys, ReachInv
<1>2. invalidation \in [Invalidations -> Invalidation]
  BY DEF TypeOK
<1>3. /\ invalidation'[i].pc = "delete"
      /\ invalidation'[i].keys = Members(index)
      /\ invalidation'[i].owed = invalidation[i].owed
      /\ \A j \in Invalidations \ {i} : invalidation'[j] = invalidation[j]
  BY <1>1, <1>2 DEF Invalidation
<1>4. Over => Over'
  BY <1>1, <1>3 DEF Over
<1>5. ~Over
  BY <1>1 DEF Over, Undisturbed
<1>6. \A a \in invalidation[i].owed : Contains(Members(index), KeyOf[a])
  <2>1. \A a \in invalidation[i].owed : a \in Adders /\ adder[a].pc = "added"
    BY <1>2 DEF ReachInv, OwedKept, Invalidation
  <2> QED  BY <1>5, <2>1 DEF ReachInv, Indexed
<1>7. OwedKept'
  <2> SUFFICES ASSUME NEW j \in Invalidations, NEW b \in invalidation'[j].owed
               PROVE  /\ adder[b].pc = "added"
                      /\ invalidation'[j].pc = "delete" =>
                           Gone(b) \/ Contains(invalidation'[j].keys, KeyOf[b])
                      /\ invalidation'[j].pc = "done" => Gone(b)
    BY <1>1 DEF OwedKept, Gone
  <2>1. CASE j # i
    BY <1>3, <2>1 DEF ReachInv, OwedKept
  <2>2. CASE j = i
    <3>1. b \in invalidation[i].owed /\ b \in Adders
      BY <1>2, <1>3, <2>2 DEF Invalidation
    <3>2. adder[b].pc = "added" /\ Contains(Members(index), KeyOf[b])
      BY <1>6, <3>1 DEF ReachInv, OwedKept
    <3> QED  BY <1>3, <2>2, <3>2
  <2> QED  BY <2>1, <2>2
<1> QED  BY <1>1, <1>4, <1>7, IndexUntouched DEF ReachInv

LEMMA ReachDeleteEntry ==
  ASSUME TypeOK, ReachInv, NEW i \in Invalidations, DeleteEntry(i)
  PROVE  ReachInv'
<1> DEFINE keys == invalidation[i].keys
<1>1. /\ invalidation[i].pc = "delete" /\ keys # <<>>
      /\ entries' = [entries EXCEPT ![Head(keys)] = None]
      /\ invalidation' = [invalidation EXCEPT ![i].keys = Tail(keys)]
      /\ UNCHANGED <<now, index, adder>>
  BY DEF DeleteEntry
<1>2. /\ invalidation \in [Invalidations -> Invalidation]
      /\ keys \in Seq(Keys) /\ entries \in [Keys -> Entry \union {None}]
  BY DEF TypeOK, Invalidation
<1>3. /\ invalidation'[i].pc = "delete" /\ invalidation'[i].keys = Tail(keys)
      /\ invalidation'[i].owed = invalidation[i].owed
      /\ \A j \in Invalidations \ {i} : invalidation'[j] = invalidation[j]
  BY <1>1, <1>2 DEF Invalidation
<1>4. Over => Over'
  BY <1>1, <1>3 DEF Over
<1>5. Head(keys) \in Keys
  BY <1>1, <1>2, HeadTailProperties
<1> HIDE DEF keys
<1>6. /\ \A k \in Keys : entries'[k] \in {entries[k], None}
      /\ entries'[Head(keys)] = None
  BY <1>1, <1>2, <1>5
<1>7. \A a \in Adders : Gone(a) => Gone(a)'
  BY <1>6, Constants DEF Gone
<1>8. OwedKept'
  <2> SUFFICES ASSUME NEW j \in Invalidations, NEW b \in invalidation'[j].owed
               PROVE  /\ adder[b].pc = "added"
                      /\ invalidation'[j].pc = "delete" =>
                           Gone(b)' \/ Contains(invalidation'[j].keys, KeyOf[b])
                      /\ invalidation'[j].pc = "done" => Gone(b)'
    BY <1>1 DEF OwedKept
  <2>1. b \in invalidation[j].owed /\ b \in Adders /\ KeyOf[b] \in Keys
    BY <1>2, <1>3, Constants DEF Invalidation
  <2>2. CASE j # i
    BY <1>3, <1>7, <2>1, <2>2 DEF ReachInv, OwedKept
  <2>3. CASE j = i
    <3>1. adder[b].pc = "added" /\ (Gone(b) \/ Contains(keys, KeyOf[b]))
      BY <1>1, <2>1, <2>3 DEF ReachInv, OwedKept, keys
    <3>2. Contains(keys, KeyOf[b]) =>
            KeyOf[b] = Head(keys) \/ Contains(Tail(keys), KeyOf[b])
      BY <1>1, <1>2, TailContains
    <3>3. KeyOf[b] = Head(keys) => Gone(b)'
      BY <1>6 DEF Gone
    <3> QED  BY <1>3, <1>7, <2>1, <2>3, <3>1, <3>2, <3>3
  <2> QED  BY <2>2, <2>3
<1> QED  BY <1>1, <1>4, <1>6, <1>8, IndexUntouched DEF ReachInv

LEMMA ReachDeleteIndex ==
  ASSUME TypeOK, ReachInv, NEW i \in Invalidations, DeleteIndex(i)
  PROVE  ReachInv'
<1>1. /\ invalidation[i].pc = "delete" /\ invalidation[i].keys = <<>>
      /\ index' = None
      /\ invalidation' = [invalidation EXCEPT ![i].pc = "done"]
      /\ UNCHANGED <<now, entries, adder>>
  BY DEF DeleteIndex
<1>2. invalidation \in [Invalidations -> Invalidation]
  BY DEF TypeOK
<1>3. /\ invalidation'[i].pc = "done"
      /\ invalidation'[i].owed = invalidation[i].owed
      /\ \A j \in Invalidations \ {i} : invalidation'[j] = invalidation[j]
  BY <1>1, <1>2 DEF Invalidation
<1>4. Over'
  BY <1>3 DEF Over
<1>5. \A a \in invalidation[i].owed : Gone(a)
  <2>1. \A k : ~Contains(<<>>, k)
    BY DEF Contains
  <2> QED  BY <1>1, <2>1 DEF ReachInv, OwedKept
<1>6. OwedKept'
  BY <1>1, <1>3, <1>5 DEF ReachInv, OwedKept, Gone
<1>7. AllLive'
  BY <1>1 DEF ReachInv, AllLive
<1> QED  BY <1>1, <1>4, <1>6, <1>7 DEF ReachInv

LEMMA ReachStep ==
  TypeOK /\ Undisturbed /\ cas = "atomic" /\ ReachInv /\ [Next]_vars
    => ReachInv'
<1> SUFFICES ASSUME TypeOK, Undisturbed, cas = "atomic", ReachInv, [Next]_vars
             PROVE  ReachInv'
  OBVIOUS
<1>1. ASSUME NEW a \in Adders,
             WriteEntry(a) \/ ReadIndex(a) \/ CompareIndex(a)
      PROVE  ReachInv'
  BY <1>1, ReachWriteEntry, ReachReadIndex, ReachCompareIndex
<1>2. ASSUME NEW a \in Adders, SetIndex(a)
      PROVE  ReachInv'
  BY <1>2 DEF SetIndex, ReachInv
<1>3. ASSUME NEW i \in Invalidations,
             \/ BeginInvalidate(i) \/ ReadKeys(i)
             \/ DeleteEntry(i) \/ DeleteIndex(i)
      PROVE  ReachInv'
  BY <1>3, ReachBeginInvalidate, ReachReadKeys, ReachDeleteEntry,
     ReachDeleteIndex
<1>4. CASE Tick \/ UNCHANGED vars
  <2>1. UNCHANGED <<entries, index, adder, invalidation>>
    BY <1>4 DEF Tick, vars
  <2>2. now' \in 0..MaxNow
    BY <1>4, Constants DEF Tick, vars, ReachInv, AllLive
  <2> QED  BY <2>1, <2>2
           DEF ReachInv, AllLive, Over, Indexed, SeenExact, RevisionOf,
               Members, OwedKept, Gone
<1> QED  BY <1>1, <1>2, <1>3, <1>4 DEF Next

(* tag-index.ts:13-17, over an atomic compareAndSet: however many writers  *)
(* share the tag, none of them loses another one's membership, and an      *)
(* invalidation deletes every entry whose write was over when it began -   *)
(* while neither expiry, nor the limit, nor another invalidation takes a   *)
(* membership away.                                                        *)
THEOREM RegisteredReached ==
  Undisturbed => (Spec => []InvalidationReaches)
<1> DEFINE IInv == TypeOK /\ (cas = "atomic" => ReachInv)
<1> SUFFICES ASSUME Undisturbed
             PROVE  Spec => []InvalidationReaches
  OBVIOUS
<1>1. Init => IInv
  BY TypeInit, ReachInit
<1>2. IInv /\ [Next]_vars => IInv'
  <2> SUFFICES ASSUME IInv, [Next]_vars
               PROVE  IInv'
    OBVIOUS
  <2>1. cas' = cas
    BY DEF Next, vars, WriteEntry, ReadIndex, CompareIndex, SetIndex,
           BeginInvalidate, ReadKeys, DeleteEntry, DeleteIndex, Tick
  <2> QED  BY <2>1, TypeStep, ReachStep
<1>3. IInv => InvalidationReaches
  BY DEF InvalidationReaches, NothingKept, ReachInv, OwedKept, Gone
<1> QED  BY <1>1, <1>2, <1>3, PTL DEF Spec


-----------------------------------------------------------------------------
(* Giving up *)

Added(a) == {b \in Adders \ {a} : adder[b].pc = "added"}

Done == {i \in Invalidations : invalidation[i].pc = "done"}

(* The time that the expiries of the index have taken so far, at least: it *)
(* only grows, and by a whole Ttl whenever the index expires.              *)
Since == IF index = None THEN now
         ELSE IF now < index.until THEN index.until - Ttl
         ELSE index.until

(* How often an attempt of a can have been beaten.                         *)
Beaten(a) == Cardinality(Added(a)) + Cardinality(Done) + Since \div Ttl

Timely == index # None => index.until \in Ttl..(now + Ttl)

(* Each attempt of a writer that failed, or is about to, was beaten by     *)
(* something of its own.                                                   *)
Counted(a) ==
  /\ adder[a].pc = "idle" => adder[a].tries = 0
  /\ adder[a].pc \in {"read", "failed"} => adder[a].tries <= Beaten(a)
  /\ adder[a].pc = "compare" =>
       adder[a].tries <= Beaten(a) + (IF Agrees(a) THEN 1 ELSE 0)
  /\ adder[a].pc = "failed" => CasRetries <= adder[a].tries

CountInv == TypeOK /\ Timely /\ \A a \in Adders : Counted(a)

(* Quotients by the ttl.                                                   *)
LEMMA Quotients ==
  ASSUME NEW x \in Nat
  PROVE  /\ x \div Ttl \in Nat /\ (x + Ttl) \div Ttl = (x \div Ttl) + 1
         /\ \A y \in Nat : x <= y => x \div Ttl <= y \div Ttl
<1>1. Ttl \in Nat \ {0}  BY Constants
<1>2. x \div Ttl \in Nat  BY <1>1
<1>3. (x + Ttl) \div Ttl = (x \div Ttl) + 1  BY <1>1
<1>4. ASSUME NEW y \in Nat, x <= y PROVE x \div Ttl <= y \div Ttl
  BY <1>1, <1>4
<1> QED  BY <1>2, <1>3, <1>4

(* Larger finite sets have no fewer elements.                              *)
LEMMA Larger ==
  ASSUME NEW T, IsFiniteSet(T), NEW S \in SUBSET T
  PROVE  /\ Cardinality(S) \in Nat /\ Cardinality(T) \in Nat
         /\ Cardinality(S) <= Cardinality(T)
         /\ S # T => Cardinality(S) + 1 <= Cardinality(T)
<1>1. IsFiniteSet(S) /\ Cardinality(S) <= Cardinality(T)
      /\ (Cardinality(S) = Cardinality(T) => S = T)
  BY FS_Subset
<1>2. Cardinality(S) \in Nat /\ Cardinality(T) \in Nat
  BY <1>1, FS_CardinalityType
<1> QED  BY <1>1, <1>2

LEMMA SinceType ==
  ASSUME TypeOK, Timely
  PROVE  Since \in Nat /\ Since <= now
<1>1. now \in Nat /\ Ttl \in Nat  BY Constants DEF TypeOK
<1>2. index # None => index.until \in Nat
                      /\ Ttl <= index.until /\ index.until <= now + Ttl
  BY <1>1 DEF Timely, TypeOK, Index
<1> QED  BY <1>1, <1>2 DEF Since

(* What has been added stays added, and what is done is done.              *)
LEMMA Progress ==
  ASSUME TypeOK, [Next]_vars, NEW a \in Adders
  PROVE  Added(a) \subseteq Added(a)' /\ Done \subseteq Done'
<1>1. /\ adder \in [Adders -> Adder]
      /\ invalidation \in [Invalidations -> Invalidation]
  BY DEF TypeOK
<1>2. ASSUME NEW b \in Adders, adder[b].pc = "added" PROVE adder'[b].pc = "added"
  <2>1. ASSUME NEW c \in Adders, WriteEntry(c) \/ ReadIndex(c) \/ CompareIndex(c)
                                 \/ SetIndex(c)
        PROVE  adder'[b] = adder[b] \/ adder'[b].pc = "added"
    <3>1. CASE b # c
      BY <1>1, <2>1, <3>1 DEF WriteEntry, ReadIndex, CompareIndex, SetIndex,
                              StoreIndex, Retry
    <3>2. CASE b = c
      <4>1. CASE WriteEntry(c)  BY <1>2, <3>2, <4>1 DEF WriteEntry
      <4>2. CASE ReadIndex(c)  BY <1>2, <3>2, <4>2 DEF ReadIndex
      <4>3. CASE CompareIndex(c)  BY <1>2, <3>2, <4>3 DEF CompareIndex
      <4>4. CASE SetIndex(c)  BY <1>2, <3>2, <4>4 DEF SetIndex
      <4> QED  BY <2>1, <4>1, <4>2, <4>3, <4>4
    <3> QED  BY <3>1, <3>2
  <2>2. ASSUME NEW i \in Invalidations, BeginInvalidate(i) \/ ReadKeys(i)
                                        \/ DeleteEntry(i) \/ DeleteIndex(i)
        PROVE  adder' = adder
    BY <2>2 DEF BeginInvalidate, ReadKeys, DeleteEntry, DeleteIndex
  <2>3. CASE Tick \/ UNCHANGED vars
    BY <1>2, <2>3 DEF Tick, vars
  <2> QED  BY <1>2, <2>1, <2>2, <2>3 DEF Next
<1>3. ASSUME NEW i \in Invalidations, invalidation[i].pc = "done"
      PROVE  invalidation'[i].pc = "done"
  <2>1. ASSUME NEW j \in Invalidations, BeginInvalidate(j) \/ ReadKeys(j)
                                        \/ DeleteEntry(j) \/ DeleteIndex(j)
        PROVE  invalidation'[i] = invalidation[i]
    <3>1. i # j
      BY <1>3, <2>1 DEF BeginInvalidate, ReadKeys, DeleteEntry, DeleteIndex
    <3> QED  BY <1>1, <2>1, <3>1
             DEF BeginInvalidate, ReadKeys, DeleteEntry, DeleteIndex
  <2>2. ASSUME NEW c \in Adders, WriteEntry(c) \/ ReadIndex(c) \/ CompareIndex(c)
                                 \/ SetIndex(c)
        PROVE  invalidation' = invalidation
    BY <2>2 DEF WriteEntry, ReadIndex, CompareIndex, SetIndex
  <2>3. CASE Tick \/ UNCHANGED vars
    BY <1>3, <2>3 DEF Tick, vars
  <2> QED  BY <1>3, <2>1, <2>2, <2>3 DEF Next
<1> QED  BY <1>2, <1>3 DEF Added, Done


(* Only a writer that stores, an invalidation that ends and the clock      *)
(* change what is read of the index.                                       *)
LEMMA Causes ==
  ASSUME [Next]_vars
  PROVE  \/ index' = index /\ now' = now
         \/ \E b \in Adders : /\ StoreIndex(b) /\ adder[b].pc \in {"compare", "set"}
                              /\ now' = now
         \/ \E i \in Invalidations : DeleteIndex(i)
         \/ Tick
<1>1. ASSUME NEW b \in Adders, CompareIndex(b) \/ SetIndex(b)
      PROVE  \/ index' = index /\ now' = now
             \/ StoreIndex(b) /\ adder[b].pc \in {"compare", "set"} /\ now' = now
  BY <1>1 DEF CompareIndex, SetIndex
<1>2. ASSUME NEW b \in Adders, WriteEntry(b) \/ ReadIndex(b)
      PROVE  index' = index /\ now' = now
  BY <1>2 DEF WriteEntry, ReadIndex
<1>3. ASSUME NEW i \in Invalidations,
             BeginInvalidate(i) \/ ReadKeys(i) \/ DeleteEntry(i)
      PROVE  index' = index /\ now' = now
  BY <1>3 DEF BeginInvalidate, ReadKeys, DeleteEntry
<1> QED  BY <1>1, <1>2, <1>3 DEF Next, vars

(* The counts of what can beat a writer.                                   *)
LEMMA BeatenType ==
  ASSUME TypeOK, Timely, NEW a \in Adders
  PROVE  /\ Cardinality(Added(a)) \in Nat /\ Cardinality(Done) \in Nat
         /\ Since \div Ttl \in Nat /\ Beaten(a) \in Nat
<1>1. IsFiniteSet(Adders) /\ IsFiniteSet(Invalidations)  BY IndexAssumption
<1>2. Added(a) \in SUBSET Adders /\ Done \in SUBSET Invalidations
  BY DEF Added, Done
<1>3. Cardinality(Added(a)) \in Nat /\ Cardinality(Done) \in Nat
  BY <1>1, <1>2, Larger
<1>4. Since \div Ttl \in Nat  BY SinceType, Quotients
<1> QED  BY <1>3, <1>4 DEF Beaten

(* Whatever changes the revision that is read beats the writers that have  *)
(* read it before, and nothing takes that back.                            *)
LEMMA BeatenGrows ==
  ASSUME TypeOK, TypeOK', Timely, [Next]_vars, NEW a \in Adders
  PROVE  /\ Timely'
         /\ Beaten(a)' \in Nat /\ Beaten(a) <= Beaten(a)'
         /\ \/ RevisionOf(Live(index))' = RevisionOf(Live(index))
            \/ StoreIndex(a) /\ adder[a].pc \in {"compare", "set"}
            \/ Beaten(a) + 1 <= Beaten(a)'
<1> DEFINE x == Cardinality(Added(a))
           y == Cardinality(Done)
           z == Since \div Ttl
           Same == RevisionOf(Live(index))' = RevisionOf(Live(index))
<1>1. IsFiniteSet(Adders) /\ IsFiniteSet(Invalidations) /\ Ttl \in Nat \ {0}
  BY IndexAssumption, Constants
<1>2. /\ now \in Nat /\ now' \in Nat
      /\ index # None => index.until \in Nat
                         /\ Ttl <= index.until /\ index.until <= now + Ttl
  BY <1>1 DEF TypeOK, Index, Timely
<1>3. IsFiniteSet(Added(a)') /\ IsFiniteSet(Done')
  <2>1. Added(a)' \in SUBSET Adders /\ Done' \in SUBSET Invalidations
    BY DEF Added, Done
  <2> QED  BY <1>1, <2>1, FS_Subset
<1>4. /\ x \in Nat /\ y \in Nat /\ x' \in Nat /\ y' \in Nat
      /\ x <= x' /\ y <= y'
      /\ Added(a) # Added(a)' => x + 1 <= x'
      /\ Done # Done' => y + 1 <= y'
  BY <1>3, Progress, Larger
<1>5. Since \in Nat /\ Since <= now /\ z \in Nat
  BY SinceType, Quotients
<1>6. /\ Timely' /\ Since <= Since' /\ Since' \in Nat
      /\ Same \/ Since' = Since + Ttl \/ ~Tick
  <2>1. CASE index' = index /\ now' = now
    <3>1. Since' = Since /\ Live(index)' = Live(index)
      BY <2>1 DEF Since, Live
    <3> QED  BY <1>5, <2>1, <3>1 DEF Timely, RevisionOf
  <2>2. ASSUME NEW b \in Adders, StoreIndex(b), now' = now
        PROVE  Timely' /\ Since <= Since' /\ Since' \in Nat /\ ~Tick
    <3>1. index' # None
      BY <2>2, StoreType, Constants
    <3>2. index'.until = now + Ttl
      BY <2>2 DEF StoreIndex
    <3>3. Since' = now /\ Timely'
      BY <1>1, <1>2, <2>2, <3>1, <3>2 DEF Since, Timely
    <3>4. ~Tick  BY <1>2, <2>2 DEF Tick
    <3> QED  BY <1>2, <1>5, <3>3, <3>4
  <2>3. ASSUME NEW i \in Invalidations, DeleteIndex(i)
        PROVE  Timely' /\ Since <= Since' /\ Since' \in Nat /\ ~Tick
    <3>1. index' = None /\ now' = now  BY <2>3 DEF DeleteIndex
    <3>2. ~Tick  BY <1>2, <3>1 DEF Tick
    <3> QED  BY <1>2, <1>5, <3>1, <3>2 DEF Since, Timely
  <2>4. CASE Tick
    <3>1. index' = index /\ now' = now + 1  BY <2>4 DEF Tick
    <3>2. Timely'
      BY <1>1, <1>2, <3>1 DEF Timely
    <3>3. CASE index = None
      BY <1>2, <3>1, <3>2, <3>3 DEF Since, Live, RevisionOf
    <3>4. CASE index # None /\ now' < index.until
      <4>1. Since' = Since /\ Live(index)' = Live(index)
        BY <1>2, <3>1, <3>4 DEF Since, Live
      <4> QED  BY <1>5, <3>2, <4>1 DEF RevisionOf
    <3>5. CASE index # None /\ now < index.until /\ ~(now' < index.until)
      <4>1. Since' = Since + Ttl
        BY <1>1, <1>2, <3>1, <3>5 DEF Since
      <4> QED  BY <1>1, <1>5, <3>2, <4>1
    <3>6. CASE index # None /\ ~(now < index.until)
      <4>1. ~(now' < index.until)  BY <1>2, <3>1, <3>6
      <4>2. Since' = Since /\ Live(index)' = Live(index)
        BY <3>1, <3>6, <4>1 DEF Since, Live
      <4> QED  BY <1>5, <3>2, <4>2 DEF RevisionOf
    <3> QED  BY <3>3, <3>4, <3>5, <3>6
  <2> QED  BY <2>1, <2>2, <2>3, <2>4, Causes
<1>7. z <= z' /\ z' \in Nat /\ (Since' = Since + Ttl => z' = z + 1)
  BY <1>5, <1>6, Quotients
<1>8. Beaten(a) = x + y + z /\ Beaten(a)' = x' + y' + z'
  BY DEF Beaten
<1>9. Beaten(a)' \in Nat /\ Beaten(a) <= Beaten(a)'
  BY <1>4, <1>5, <1>7, <1>8
<1>10. \/ Same
       \/ StoreIndex(a) /\ adder[a].pc \in {"compare", "set"}
       \/ x + 1 <= x' \/ y + 1 <= y' \/ z + 1 <= z'
  <2>1. CASE index' = index /\ now' = now
    BY <2>1 DEF Live, RevisionOf
  <2>2. ASSUME NEW b \in Adders \ {a}, StoreIndex(b), adder[b].pc \in {"compare", "set"}
        PROVE  x + 1 <= x'
    <3>1. b \notin Added(a)  BY <2>2 DEF Added
    <3>2. adder'[b].pc = "added"
      <4>1. adder[b] \in Adder /\ adder \in [Adders -> Adder]  BY DEF TypeOK
      <4> QED  BY <2>2, <4>1 DEF StoreIndex, Adder
    <3>3. b \in Added(a)'  BY <3>2 DEF Added
    <3> QED  BY <1>4, <3>1, <3>3
  <2>3. ASSUME NEW i \in Invalidations, DeleteIndex(i) PROVE y + 1 <= y'
    <3>1. i \notin Done  BY <2>3 DEF Done, DeleteIndex
    <3>2. invalidation'[i].pc = "done"
      <4>1. invalidation \in [Invalidations -> Invalidation]  BY DEF TypeOK
      <4> QED  BY <2>3, <4>1 DEF DeleteIndex, Invalidation
    <3>3. i \in Done'  BY <3>2 DEF Done
    <3> QED  BY <1>4, <3>1, <3>3
  <2>4. CASE Tick  BY <1>5, <1>6, <1>7, <2>4
  <2> QED  BY <2>1, <2>2, <2>3, <2>4, Causes
<1>11. ASSUME x + 1 <= x' \/ y + 1 <= y' \/ z + 1 <= z'
       PROVE  Beaten(a) + 1 <= Beaten(a)'
  BY <1>4, <1>5, <1>7, <1>8, <1>11
<1> QED  BY <1>6, <1>9, <1>10, <1>11


(* The attempts of a writer are counted by each of its steps.              *)
LEMMA CountOwn ==
  ASSUME CountInv, TypeOK', [Next]_vars, NEW a \in Adders,
         WriteEntry(a) \/ ReadIndex(a) \/ CompareIndex(a) \/ SetIndex(a)
  PROVE  Counted(a)'
<1>1. /\ adder \in [Adders -> Adder] /\ adder[a].tries \in Nat
      /\ Counted(a) /\ TypeOK /\ Timely
  BY DEF CountInv, TypeOK, Adder
<1>2. /\ Beaten(a) \in Nat /\ Beaten(a)' \in Nat /\ Beaten(a) <= Beaten(a)'
  <2>1. Beaten(a)' \in Nat /\ Beaten(a) <= Beaten(a)'  BY <1>1, BeatenGrows
  <2>2. Beaten(a) \in Nat  BY <1>1, BeatenType
  <2> QED  BY <2>1, <2>2
<1>3. ASSUME adder'[a].pc \in {"added", "set"} PROVE Counted(a)'
  BY <1>3 DEF Counted
<1>4. CASE WriteEntry(a)
  <2>1. /\ adder'[a].pc = "read" /\ adder'[a].tries = adder[a].tries
        /\ adder[a].pc = "idle"
    BY <1>1, <1>4 DEF WriteEntry, Adder
  <2> QED  BY <1>1, <1>2, <2>1 DEF Counted
<1>5. CASE ReadIndex(a)
  <2>1. adder[a].pc = "read" /\ index' = index /\ now' = now
    BY <1>5 DEF ReadIndex
  <2>2. CASE adder'[a].pc \in {"added", "set"}  BY <1>3, <2>2
  <2>3. CASE adder'[a].pc \notin {"added", "set"}
    <3>1. /\ adder'[a].pc = "compare" /\ adder'[a].tries = adder[a].tries + 1
          /\ adder'[a].seen = Live(index)
      BY <1>1, <1>5, <2>3 DEF ReadIndex, Adder
    <3>2. Agrees(a)'
      BY <2>1, <3>1 DEF Agrees, RevisionOf, Live
    <3> QED  BY <1>1, <1>2, <2>1, <3>1, <3>2 DEF Counted
  <2> QED  BY <2>2, <2>3
<1>6. CASE CompareIndex(a)
  <2>1. CASE StoreIndex(a) \/ Agrees(a)
    <3>1. adder'[a].pc \in {"added", "set"}
      BY <1>1, <1>6, <2>1 DEF CompareIndex, StoreIndex, Retry, Adder
    <3> QED  BY <1>3, <3>1
  <2>2. CASE Retry(a) /\ ~Agrees(a)
    <3>1. adder[a].pc = "compare"  BY <1>6 DEF CompareIndex
    <3>2. adder[a].tries <= Beaten(a)
      BY <1>1, <1>2, <2>2, <3>1 DEF Counted
    <3>3. /\ adder'[a].tries = adder[a].tries
          /\ adder'[a].pc = IF GivesUp(a) THEN "failed" ELSE "read"
      BY <1>1, <2>2 DEF Retry, Adder
    <3>4. GivesUp(a) => CasRetries <= adder[a].tries
      BY <1>1, Constants DEF GivesUp
    <3> QED  BY <1>1, <1>2, <3>2, <3>3, <3>4 DEF Counted
  <2> QED  BY <1>6, <2>1, <2>2 DEF CompareIndex
<1>7. CASE SetIndex(a)
  <2>1. adder'[a].pc = "added"
    BY <1>1, <1>7 DEF SetIndex, StoreIndex, Adder
  <2> QED  BY <1>3, <2>1
<1> QED  BY <1>4, <1>5, <1>6, <1>7

(* What others do leaves the count of a writer, or beats it.               *)
LEMMA CountOthers ==
  ASSUME CountInv, TypeOK', [Next]_vars, NEW a \in Adders, adder'[a] = adder[a]
  PROVE  Counted(a)'
<1>1. Counted(a) /\ TypeOK /\ Timely /\ adder[a] \in Adder /\ adder[a].tries \in Nat
  BY DEF CountInv, TypeOK, Adder
<1>2. Beaten(a) \in Nat  BY <1>1, BeatenType
<1>3. /\ Beaten(a)' \in Nat /\ Beaten(a) <= Beaten(a)'
      /\ \/ RevisionOf(Live(index))' = RevisionOf(Live(index))
         \/ StoreIndex(a) /\ adder[a].pc \in {"compare", "set"}
         \/ Beaten(a) + 1 <= Beaten(a)'
  BY <1>1, BeatenGrows
<1>4. Beaten(a)' \in Nat  BY <1>3
<1>5. ~(StoreIndex(a) /\ adder[a].pc \in {"compare", "set"})
  <2>1. adder \in [Adders -> Adder]  BY <1>1 DEF TypeOK
  <2>2. StoreIndex(a) => adder'[a].pc = "added"
    BY <2>1 DEF StoreIndex, Adder
  <2> QED  BY <2>2
<1>6. RevisionOf(Live(index))' = RevisionOf(Live(index)) => Agrees(a)' = Agrees(a)
  BY DEF Agrees, RevisionOf
<1>7. CASE adder[a].pc = "compare"
  <2>1. adder[a].tries <= Beaten(a) + (IF Agrees(a) THEN 1 ELSE 0)
    BY <1>1, <1>7 DEF Counted
  <2>2. adder[a].tries <= Beaten(a)' + (IF Agrees(a)' THEN 1 ELSE 0)
    <3>1. CASE Agrees(a)' = Agrees(a)
      BY <1>1, <1>2, <1>3, <1>4, <2>1, <3>1
    <3>2. CASE Beaten(a) + 1 <= Beaten(a)'
      BY <1>1, <1>2, <1>4, <2>1, <3>2
    <3> QED  BY <1>3, <1>5, <1>6, <3>1, <3>2
  <2> QED  BY <1>7, <2>2 DEF Counted
<1>8. CASE adder[a].pc # "compare"
  BY <1>1, <1>2, <1>3, <1>4, <1>8 DEF Counted
<1> QED  BY <1>7, <1>8

LEMMA CountInit == Init => CountInv
<1> SUFFICES ASSUME Init PROVE CountInv  OBVIOUS
<1>1. TypeOK /\ Timely  BY TypeInit DEF Init, Timely
<1>2. \A a \in Adders : Counted(a)  BY DEF Init, Counted
<1> QED  BY <1>1, <1>2 DEF CountInv

LEMMA CountStep == CountInv /\ [Next]_vars => CountInv'
<1> SUFFICES ASSUME CountInv, [Next]_vars PROVE CountInv'  OBVIOUS
<1>1. TypeOK /\ Timely /\ TypeOK'  BY TypeStep DEF CountInv
<1>2. ASSUME NEW a \in Adders PROVE Timely' /\ Counted(a)'
  <2>1. Timely'  BY <1>1, BeatenGrows
  <2>2. CASE WriteEntry(a) \/ ReadIndex(a) \/ CompareIndex(a) \/ SetIndex(a)
    BY <1>1, <2>1, <2>2, CountOwn
  <2>3. CASE ~(WriteEntry(a) \/ ReadIndex(a) \/ CompareIndex(a) \/ SetIndex(a))
    <3>1. ASSUME NEW b \in Adders \ {a}, WriteEntry(b) \/ ReadIndex(b)
                                         \/ CompareIndex(b) \/ SetIndex(b)
          PROVE  adder'[a] = adder[a]
      BY <1>1, <3>1 DEF WriteEntry, ReadIndex, CompareIndex, SetIndex,
                        StoreIndex, Retry, TypeOK
    <3>2. ASSUME NEW i \in Invalidations, BeginInvalidate(i) \/ ReadKeys(i)
                                          \/ DeleteEntry(i) \/ DeleteIndex(i)
          PROVE  adder' = adder
      BY <3>2 DEF BeginInvalidate, ReadKeys, DeleteEntry, DeleteIndex
    <3>3. (Tick \/ UNCHANGED vars) => adder' = adder
      BY DEF Tick, vars
    <3>4. adder'[a] = adder[a]
      BY <2>3, <3>1, <3>2, <3>3 DEF Next
    <3> QED  BY <1>1, <2>1, <3>4, CountOthers
  <2> QED  BY <2>2, <2>3
<1>3. Timely'
  <2>1. CASE Adders # {}  BY <1>2, <2>1
  <2>2. CASE Adders = {}
    <3>1. (index' = index /\ now' \in {now, now + 1}) \/ index' = None
      BY <2>2, Causes DEF DeleteIndex, Tick
    <3>2. index # None => index.until \in Int  BY <1>1 DEF TypeOK, Index
    <3> QED  BY <1>1, <3>1, <3>2, Constants DEF Timely, TypeOK
  <2> QED  BY <2>1, <2>2
<1> QED  BY <1>1, <1>2, <1>3 DEF CountInv

(* A writer gives up on its membership only after CasRetries attempts, each*)
(* of them beaten by another writer, an invalidation or an expiry of its   *)
(* own: none is beaten twice by the same, over any kind of compareAndSet.  *)
THEOREM GivesUpCorrect == Spec => []GivesUpOnlyWhenBeaten
<1>1. ASSUME CountInv PROVE GivesUpOnlyWhenBeaten
  <2> SUFFICES ASSUME NEW a \in Adders, adder[a].pc = "failed"
               PROVE  CasRetries <= Cardinality(Added(a)) + Cardinality(Done)
                                      + now \div Ttl
    BY DEF GivesUpOnlyWhenBeaten, Added, Done
  <2>1. TypeOK /\ Timely /\ Counted(a) /\ adder[a].tries \in Nat
    BY <1>1 DEF CountInv, TypeOK, Adder
  <2>2. Since \div Ttl <= now \div Ttl /\ now \div Ttl \in Nat
    <3>1. Since \in Nat /\ now \in Nat /\ Since <= now
      BY <2>1, SinceType DEF TypeOK
    <3> QED  BY <3>1, Quotients
  <2>3. CasRetries <= Beaten(a)
    BY <2>1, BeatenType, Constants DEF Counted
  <2> QED  BY <2>1, <2>2, <2>3, BeatenType, Constants DEF Beaten
<1> QED  BY <1>1, CountInit, CountStep, PTL DEF Spec
=============================================================================
