-------------------------- MODULE RedisStorageProofs --------------------------
(* What RedisStorage guarantees, proved for every set of keys, tags,       *)
(* writers, invalidations and erasers, over scripts and over commands:     *)
(* types; an invalidation reaches what was registered when it began, a     *)
(* clear what was stored, a lock is its holder's; and over scripts the     *)
(* storage keeps the contract of the CacheStorage interface.               *)
EXTENDS RedisStorage, FiniteSetTheorems, TLAPS

-----------------------------------------------------------------------------
(* Revisions are bounded by the number of writers: each writes at most     *)
(* once, one more than it observed.                                        *)

(* The writers that have written, or will not write.                       *)
Past == {w \in Writers : writer[w].pc \notin {"idle", "lock", "write", "set"}}

RevisionsBounded ==
  /\ \A k \in Keys : entries[k] # None => entries[k].rev <= Cardinality(Past)
  /\ \A w \in Writers : writer[w].seen <= Cardinality(Past)

LEMMA PastFinite ==
  /\ IsFiniteSet(Past) /\ Cardinality(Past) \in Nat
  /\ Cardinality(Past) <= Cardinality(Writers) /\ Cardinality(Writers) \in Nat
BY FS_Subset, FS_CardinalityType, RedisAssumption DEF Past

(* A writer that has yet to write raises the bound when it does.           *)
LEMMA PastGrows ==
  ASSUME NEW w \in Writers, w \notin Past, Past' = Past \union {w}
  PROVE  /\ Cardinality(Past') = Cardinality(Past) + 1
         /\ Cardinality(Past') <= Cardinality(Writers)
<1>1. Cardinality(Past') = Cardinality(Past) + 1
  BY PastFinite, FS_AddElement
<1>2. Past' \subseteq Writers  BY DEF Past
<1> QED  BY <1>1, <1>2, FS_Subset, RedisAssumption

(* Steps that write nothing keep the bound.                                *)
LEMMA BoundKept ==
  ASSUME TypeOK, RevisionsBounded, TypeOK',
         \A w \in Writers : w \in Past => w \in Past',
         \A k \in Keys : entries'[k] \in {entries[k], None},
         \A w \in Writers : \/ writer'[w].seen = writer[w].seen
                            \/ writer'[w].seen = RevisionOf(KeyOf[w])
  PROVE  RevisionsBounded'
<1>1. /\ IsFiniteSet(Past') /\ Past \subseteq Past'
  BY PastFinite, FS_Subset, RedisAssumption DEF Past
<1>2. /\ Cardinality(Past) <= Cardinality(Past')
      /\ Cardinality(Past) \in Nat /\ Cardinality(Past') \in Nat
  BY <1>1, FS_Subset, FS_CardinalityType
<1>3. ASSUME NEW k \in Keys, entries'[k] # None
      PROVE  entries'[k].rev <= Cardinality(Past')
  <2>1. entries'[k] = entries[k] /\ entries[k].rev <= Cardinality(Past)
    BY <1>3 DEF RevisionsBounded
  <2>2. entries[k].rev \in Nat  BY <1>3, <2>1, RedisAssumption DEF TypeOK, Entry
  <2> QED  BY <2>1, <2>2, <1>2
<1>4. ASSUME NEW w \in Writers
      PROVE  writer'[w].seen <= Cardinality(Past')
  <2>1. /\ KeyOf[w] \in Keys
        /\ entries[KeyOf[w]] # None => entries[KeyOf[w]].rev \in Nat
        /\ writer[w].seen \in Nat
    BY RedisAssumption DEF TypeOK, Entry, Writer
  <2>2. RevisionOf(KeyOf[w]) <= Cardinality(Past) /\ RevisionOf(KeyOf[w]) \in Nat
    BY <2>1, <1>2 DEF RevisionsBounded, RevisionOf, Stored, Live
  <2> QED  BY <2>1, <2>2, <1>2 DEF RevisionsBounded
<1> QED  BY <1>3, <1>4 DEF RevisionsBounded

-----------------------------------------------------------------------------
(* Types *)

LEMMA TagKeysTyped ==
  ASSUME NEW T \in SUBSET Tags
  PROVE  /\ IndexesOf(T, "runtime") \subseteq TagKeys
         /\ IndexesOf(T, WriteSpace) \subseteq TagKeys
BY DEF IndexesOf, TagKeys, WriteSpace

LEMMA RefsTyped ==
  ASSUME TypeOK, NEW k \in Keys PROVE RefsOf(k) \subseteq TagKeys
BY DEF TypeOK, Refs, RefsOf

Pcs == {"idle", "lock", "write", "set", "refs", "srem", "unref", "sadd",
        "ref", "expire", "index", "release", "unlock", "done"}

(* What a writer becomes is a writer.                                      *)
LEMMA PcMoves ==
  ASSUME NEW r \in Writer, NEW p \in Pcs
  PROVE  [r EXCEPT !.pc = p] \in Writer
BY DEF Writer, Pcs

LEMMA SeenMoves ==
  ASSUME NEW r \in Writer, NEW p \in Pcs, NEW n \in 0..Cardinality(Writers)
  PROVE  [r EXCEPT !.pc = p, !.seen = n] \in Writer
BY DEF Writer, Pcs

LEMMA LeaseMoves ==
  ASSUME NEW r \in Writer, NEW p \in Pcs, NEW l \in Nat
  PROVE  [r EXCEPT !.pc = p, !.lease = l] \in Writer
BY DEF Writer, Pcs

LEMMA RacedMoves ==
  ASSUME NEW r \in Writer, NEW p \in Pcs, NEW b \in BOOLEAN
  PROVE  /\ [r EXCEPT !.pc = p, !.raced = b] \in Writer
         /\ [r EXCEPT !.raced = b] \in Writer
         /\ [r EXCEPT !.unindexed = b] \in Writer
BY DEF Writer, Pcs

LEMMA LeftMoves ==
  ASSUME NEW r \in Writer, NEW p \in Pcs, NEW T \in SUBSET TagKeys,
         NEW g \in {"write", "addTags"}
  PROVE  /\ [r EXCEPT !.pc = p, !.left = T] \in Writer
         /\ [r EXCEPT !.left = T, !.pc = p] \in Writer
         /\ [r EXCEPT !.pc = p, !.left = T, !.was = T] \in Writer
         /\ [r EXCEPT !.stage = g, !.pc = p, !.left = T] \in Writer
BY DEF Writer, Pcs

(* Only the writer w moves.                                                *)
Moves(w) == /\ writer' = [writer EXCEPT ![w] = writer'[w]]
            /\ writer'[w] \in Writer

LEMMA WriterMoves ==
  ASSUME TypeOK, NEW w \in Writers, NEW r \in Writer,
         writer' = [writer EXCEPT ![w] = r]
  PROVE  Moves(w) /\ writer'[w] = r
BY DEF TypeOK, Moves

LEMMA MovesTyped ==
  ASSUME TypeOK, NEW w \in Writers, Moves(w)
  PROVE  /\ writer' \in [Writers -> Writer]
         /\ \A v \in Writers : v = w \/ writer'[v] = writer[v]
BY DEF TypeOK, Moves

(* It goes on with what it observed.                                       *)
Goes(w) ==
  /\ Moves(w)
  /\ writer'[w].seen = writer[w].seen
  /\ w \in Past => writer'[w].pc \notin {"idle", "lock", "write", "set"}

(* A writer goes on and nothing is stored.                                 *)
LEMMA BoundGoes ==
  ASSUME TypeOK, RevisionsBounded, TypeOK', NEW w \in Writers, Goes(w),
         \A k \in Keys : entries'[k] \in {entries[k], None}
  PROVE  RevisionsBounded'
<1>1. \A v \in Writers : v = w \/ writer'[v] = writer[v]
  BY MovesTyped DEF Goes
<1>2. \A v \in Writers : v \in Past => v \in Past'
  BY <1>1 DEF Goes, Past
<1> QED  BY <1>1, <1>2, BoundKept DEF Goes

LEMMA InitType == Init => TypeOK /\ RevisionsBounded
<1> SUFFICES ASSUME Init PROVE TypeOK /\ RevisionsBounded  OBVIOUS
<1>1. Cardinality(Writers) \in Nat /\ Cardinality(Past) \in Nat
  BY PastFinite
<1>2. [k \in Keys |-> NoRefs] \in [Keys -> Refs]
  BY RedisAssumption DEF NoRefs, Refs, Forever
<1>3. writer \in [Writers -> Writer]  BY <1>1 DEF Init, Writer
<1>4. invalidation \in [Invalidations -> Invalidation]
  BY DEF Init, Invalidation
<1>5. eraser \in [Erasers -> Eraser]  BY DEF Init, Eraser
<1>6. TypeOK
  BY <1>2, <1>3, <1>4, <1>5, RedisAssumption DEF Init, TypeOK
<1>7. RevisionsBounded  BY <1>1 DEF Init, RevisionsBounded
<1> QED  BY <1>6, <1>7

LEMMA ObserveType ==
  ASSUME TypeOK, RevisionsBounded, NEW w \in Writers, Observe(w)
  PROVE  TypeOK' /\ RevisionsBounded'
<1>1. RevisionOf(KeyOf[w]) \in 0..Cardinality(Writers)
  BY PastFinite, RedisAssumption DEF TypeOK, Entry, RevisionOf, Stored, Live
<1>2. Moves(w)
  <2>1. writer' = [writer EXCEPT ![w] =
          [writer[w] EXCEPT !.pc = "lock", !.seen = RevisionOf(KeyOf[w])]]
    BY DEF Observe
  <2> QED  BY <1>1, <2>1, SeenMoves, WriterMoves DEF TypeOK, Pcs
<1>3. TypeOK'  BY <1>2, MovesTyped DEF Observe, TypeOK, redis, options
<1>4. RevisionsBounded'
  BY <1>3, BoundKept DEF Observe, Past, redis, TypeOK
<1> QED  BY <1>3, <1>4

(* Whoever has nothing more to store goes to release, or is done.          *)
LEMMA BecomesMoves ==
  ASSUME TypeOK, NEW w \in Writers, NEW p \in Pcs, Becomes(w, p)
  PROVE  /\ Moves(w)
         /\ writer'[w] = [writer[w] EXCEPT !.pc = p]
         /\ writer'[w].pc = p /\ writer'[w].seen = writer[w].seen
<1>1. writer[w] \in Writer  BY DEF TypeOK
<1>2. writer' = [writer EXCEPT ![w] = [writer[w] EXCEPT !.pc = p]]
  BY DEF Becomes
<1>3. Moves(w) /\ writer'[w] = [writer[w] EXCEPT !.pc = p]
  BY <1>1, <1>2, PcMoves, WriterMoves
<1> QED  BY <1>1, <1>3 DEF Writer

LEMMA LeaseBecomes ==
  ASSUME TypeOK, NEW w \in Writers, NEW p \in Pcs, NEW l \in Nat,
         writer' = [writer EXCEPT ![w] = [writer[w] EXCEPT !.pc = p, !.lease = l]]
  PROVE  /\ Moves(w)
         /\ writer'[w].pc = p /\ writer'[w].seen = writer[w].seen
<1>1. writer[w] \in Writer  BY DEF TypeOK
<1>2. Moves(w) /\ writer'[w] = [writer[w] EXCEPT !.pc = p, !.lease = l]
  BY <1>1, LeaseMoves, WriterMoves
<1> QED  BY <1>1, <1>2 DEF Writer

(* The locks.                                                              *)
LEMMA LockType ==
  ASSUME TypeOK, RevisionsBounded, NEW w \in Writers,
         AcquireLock(w) \/ ReleaseLock(w) \/ DeleteLock(w) \/ Fail(w)
  PROVE  TypeOK' /\ RevisionsBounded'
<1>1. locks' \in [Keys -> Lock \union {None}]
  BY RedisAssumption
  DEF AcquireLock, ReleaseLock, DeleteLock, Unlocked, Fail, TypeOK, Lock, redis
<1>2. Goes(w)
  <2> USE DEF Goes
  <2>1. writer[w] \in Writer  BY DEF TypeOK
  <2>2. CASE AcquireLock(w)
    <3>1. now + LockTtl \in Nat  BY RedisAssumption DEF TypeOK
    <3>2. w \notin Past  BY <2>2 DEF AcquireLock, Past
    <3>3. CASE writer' = [writer EXCEPT ![w] =
                 [writer[w] EXCEPT !.pc = "write", !.lease = now + LockTtl]]
      BY <3>1, <3>2, <3>3, LeaseBecomes DEF Pcs
    <3>4. CASE Becomes(w, "write")
      BY <3>2, <3>4, BecomesMoves DEF Pcs
    <3> QED  BY <2>2, <3>3, <3>4 DEF AcquireLock
  <2>3. CASE ReleaseLock(w) \/ DeleteLock(w)
    <3>1. CASE writer' = [writer EXCEPT ![w] =
                 [writer[w] EXCEPT !.pc = "done", !.lease = 0]]
      BY <3>1, LeaseBecomes DEF Pcs
    <3>2. CASE Becomes(w, "unlock")
      BY <3>2, BecomesMoves DEF Pcs
    <3> QED  BY <2>3, <3>1, <3>2 DEF ReleaseLock, DeleteLock, Unlocked
  <2>4. CASE Fail(w)
    <3>1. Leaves(w) \in Pcs \ {"idle", "lock", "write", "set"}
      BY DEF Leaves, Pcs
    <3> QED  BY <2>4, <3>1, BecomesMoves DEF Fail
  <2> QED  BY <2>2, <2>3, <2>4
<1>3. TypeOK'
  BY <1>1, <1>2, MovesTyped
  DEF Goes, AcquireLock, ReleaseLock, DeleteLock, Fail, TypeOK, redis, options
<1>4. entries' = entries
  BY DEF AcquireLock, ReleaseLock, DeleteLock, Fail, redis
<1> QED  BY <1>2, <1>3, <1>4, BoundGoes

LEMMA LeftBecomes ==
  ASSUME TypeOK, NEW w \in Writers, NEW p \in Pcs, NEW T \in SUBSET TagKeys,
         NEW g \in {"write", "addTags"},
         \/ writer' = [writer EXCEPT ![w] = [writer[w] EXCEPT !.pc = p, !.left = T]]
         \/ writer' = [writer EXCEPT ![w] = [writer[w] EXCEPT !.left = T, !.pc = p]]
         \/ writer' = [writer EXCEPT ![w] =
                         [writer[w] EXCEPT !.pc = p, !.left = T, !.was = T]]
         \/ writer' = [writer EXCEPT ![w] =
                         [writer[w] EXCEPT !.stage = g, !.pc = p, !.left = T]]
  PROVE  /\ Moves(w)
         /\ writer'[w].pc = p /\ writer'[w].seen = writer[w].seen
         /\ writer'[w].left = T
<1>1. writer[w] \in Writer  BY DEF TypeOK
<1>2. PICK r \in Writer : /\ writer' = [writer EXCEPT ![w] = r]
                          /\ r.pc = p /\ r.seen = writer[w].seen /\ r.left = T
  <2>1. CASE writer' = [writer EXCEPT ![w] =
                         [writer[w] EXCEPT !.pc = p, !.left = T]]
    <3>1. [writer[w] EXCEPT !.pc = p, !.left = T] \in Writer
      BY <1>1, LeftMoves
    <3>2. LET r == [writer[w] EXCEPT !.pc = p, !.left = T]
          IN  r.pc = p /\ r.seen = writer[w].seen /\ r.left = T
      BY <1>1 DEF Writer
    <3> QED  BY <2>1, <3>1, <3>2
  <2>2. CASE writer' = [writer EXCEPT ![w] =
                         [writer[w] EXCEPT !.left = T, !.pc = p]]
    <3>1. [writer[w] EXCEPT !.left = T, !.pc = p] \in Writer
      BY <1>1, LeftMoves
    <3>2. LET r == [writer[w] EXCEPT !.left = T, !.pc = p]
          IN  r.pc = p /\ r.seen = writer[w].seen /\ r.left = T
      BY <1>1 DEF Writer
    <3> QED  BY <2>2, <3>1, <3>2
  <2>3. CASE writer' = [writer EXCEPT ![w] =
                         [writer[w] EXCEPT !.pc = p, !.left = T, !.was = T]]
    <3>1. [writer[w] EXCEPT !.pc = p, !.left = T, !.was = T] \in Writer
      BY <1>1, LeftMoves
    <3>2. LET r == [writer[w] EXCEPT !.pc = p, !.left = T, !.was = T]
          IN  r.pc = p /\ r.seen = writer[w].seen /\ r.left = T
      BY <1>1 DEF Writer
    <3> QED  BY <2>3, <3>1, <3>2
  <2>4. CASE writer' = [writer EXCEPT ![w] =
                         [writer[w] EXCEPT !.stage = g, !.pc = p, !.left = T]]
    <3>1. [writer[w] EXCEPT !.stage = g, !.pc = p, !.left = T] \in Writer
      BY <1>1, LeftMoves
    <3>2. LET r == [writer[w] EXCEPT !.stage = g, !.pc = p, !.left = T]
          IN  r.pc = p /\ r.seen = writer[w].seen /\ r.left = T
      BY <1>1 DEF Writer
    <3> QED  BY <2>4, <3>1, <3>2
  <2> QED  BY <2>1, <2>2, <2>3, <2>4
<1> QED  BY <1>2, WriterMoves

(* After its write a writer registers tags, or is done.                    *)
Onward == Pcs \ {"idle", "lock", "write", "set"}

LEMMA BeginAddTagsMoves ==
  ASSUME TypeOK, NEW w \in Writers, BeginAddTags(w)
  PROVE  /\ Moves(w) /\ writer'[w].pc \in Onward
         /\ writer'[w].seen = writer[w].seen
<1> DEFINE p == IF TagsOf[w] = {} THEN Leaves(w) ELSE "sadd"
<1> HIDE DEF p
<1>1. p \in Onward  BY DEF p, Onward, Leaves, Pcs
<1>2. IndexesOf(TagsOf[w], "runtime") \in SUBSET TagKeys
  BY TagKeysTyped, RedisAssumption
<1>3. writer' = [writer EXCEPT ![w] =
        [writer[w] EXCEPT !.stage = "addTags", !.pc = p,
                          !.left = IndexesOf(TagsOf[w], "runtime")]]
  BY DEF BeginAddTags, p
<1> QED  BY <1>1, <1>2, <1>3, LeftBecomes DEF Onward

LEMMA BeginRegisterMoves ==
  ASSUME TypeOK, NEW w \in Writers, BeginRegister(w)
  PROVE  /\ Moves(w) /\ writer'[w].pc \in Onward
         /\ writer'[w].seen = writer[w].seen
<1> DEFINE p == IF TagsOf[w] # {} THEN "sadd" ELSE IF useKeyIndex THEN "index"
                ELSE Leaves(w)
<1> HIDE DEF p
<1>1. p \in Onward  BY DEF p, Onward, Leaves, Pcs
<1>2. IndexesOf(TagsOf[w], WriteSpace) \in SUBSET TagKeys
  BY TagKeysTyped, RedisAssumption
<1>3. writer' = [writer EXCEPT ![w] =
        [writer[w] EXCEPT !.pc = p, !.left = IndexesOf(TagsOf[w], WriteSpace)]]
  BY DEF BeginRegister, p
<1> QED  BY <1>1, <1>2, <1>3, LeftBecomes DEF Onward

(* What a writer stores has the next revision, within the bound.           *)
LEMMA StoresBound ==
  ASSUME TypeOK, RevisionsBounded, TypeOK', NEW w \in Writers, w \notin Past,
         Moves(w), writer'[w].pc \in Onward, writer'[w].seen = writer[w].seen,
         entries' = [entries EXCEPT ![KeyOf[w]] = EntryOf(w)]
  PROVE  RevisionsBounded'
<1>1. \A v \in Writers : v = w \/ writer'[v] = writer[v]
  BY MovesTyped
<1>2. Past' = Past \union {w}  BY <1>1 DEF Past, Onward
<1>3. /\ Cardinality(Past') = Cardinality(Past) + 1
      /\ Cardinality(Past) \in Nat
  BY <1>2, PastGrows, PastFinite
<1>4. ASSUME NEW v \in Writers PROVE writer'[v].seen <= Cardinality(Past')
  <2>1. writer'[v].seen = writer[v].seen /\ writer[v].seen \in Nat
    BY <1>1 DEF TypeOK, Writer
  <2> QED  BY <2>1, <1>3 DEF RevisionsBounded
<1>5. ASSUME NEW k \in Keys, entries'[k] # None
      PROVE  entries'[k].rev <= Cardinality(Past')
  <2>1. writer[w].seen \in Nat /\ writer[w].seen <= Cardinality(Past)
    BY DEF TypeOK, Writer, RevisionsBounded
  <2>2. CASE k = KeyOf[w]
    BY <2>1, <2>2, <1>3 DEF TypeOK, EntryOf
  <2>3. CASE k # KeyOf[w]
    <3>1. entries'[k] = entries[k] /\ entries[k].rev \in Nat
      BY <1>5, <2>3, RedisAssumption DEF TypeOK, Entry
    <3> QED  BY <1>3, <1>5, <3>1 DEF RevisionsBounded
  <2> QED  BY <2>2, <2>3
<1> QED  BY <1>4, <1>5 DEF RevisionsBounded

LEMMA EntryOfTyped ==
  ASSUME TypeOK, RevisionsBounded, NEW w \in Writers, w \notin Past
  PROVE  EntryOf(w) \in Entry
<1>1. Cardinality(Past) + 1 <= Cardinality(Writers)
  <2>1. IsFiniteSet(Past) /\ Past \union {w} \subseteq Writers
    BY PastFinite DEF Past
  <2>2. Cardinality(Past \union {w}) = Cardinality(Past) + 1
    BY <2>1, FS_AddElement
  <2>3. Cardinality(Past \union {w}) <= Cardinality(Writers)
    BY <2>1, FS_Subset, RedisAssumption
  <2> QED  BY <2>2, <2>3
<1>2. /\ writer[w].seen \in Nat /\ writer[w].seen <= Cardinality(Past)
      /\ now + Ttl \in Nat
  BY RedisAssumption DEF TypeOK, Writer, RevisionsBounded
<1>3. writer[w].seen + 1 \in 1..Cardinality(Writers)
  BY <1>1, <1>2, PastFinite
<1> QED  BY <1>2, <1>3 DEF EntryOf, Entry

LEMMA SetEntryScriptType ==
  ASSUME TypeOK, RevisionsBounded, NEW w \in Writers, SetEntryScript(w)
  PROVE  TypeOK' /\ RevisionsBounded'
<1>1. w \notin Past /\ KeyOf[w] \in Keys
  BY RedisAssumption DEF SetEntryScript, Past
<1>2. CASE Agrees(w)
  <2>1. /\ Moves(w) /\ writer'[w].pc \in Onward
        /\ writer'[w].seen = writer[w].seen
    BY <1>2, BeginAddTagsMoves DEF SetEntryScript
  <2>2. entries' = [entries EXCEPT ![KeyOf[w]] = EntryOf(w)]
    BY <1>2 DEF SetEntryScript
  <2>3. entries' \in [Keys -> Entry \union {None}]
    BY <1>1, <2>2, EntryOfTyped DEF TypeOK
  <2>4. IndexesOf(TagsOf[w], WriteSpace) \in SUBSET TagKeys
    BY TagKeysTyped, RedisAssumption
  <2>5. refs' \in [Keys -> Refs]
    BY <1>2, <2>4, RedisAssumption DEF SetEntryScript, TypeOK, Refs, Forever
  <2>6. members' \in [TagKeys -> SUBSET Keys] /\ index' \subseteq Keys
    BY <1>1, <1>2 DEF SetEntryScript, TypeOK, Moved
  <2>7. TypeOK'
    BY <2>1, <2>3, <2>5, <2>6, MovesTyped DEF SetEntryScript, TypeOK, options
  <2> QED  BY <1>1, <2>1, <2>2, <2>7, StoresBound
<1>3. CASE ~Agrees(w)
  <2>1. Leaves(w) \in Onward /\ Leaves(w) \in Pcs
    BY DEF Leaves, Onward, Pcs
  <2>2. Goes(w)
    BY <1>3, <2>1, BecomesMoves DEF SetEntryScript, Goes, Onward
  <2>3. TypeOK'
    BY <1>3, <2>2, MovesTyped DEF SetEntryScript, Goes, TypeOK, options
  <2> QED  BY <1>3, <2>2, <2>3, BoundGoes DEF SetEntryScript
<1> QED  BY <1>2, <1>3

LEMMA SetCommandType ==
  ASSUME TypeOK, RevisionsBounded, NEW w \in Writers, SetCommand(w)
  PROVE  TypeOK' /\ RevisionsBounded'
<1>1. w \notin Past /\ KeyOf[w] \in Keys
  BY RedisAssumption DEF SetCommand, Past
<1>2. /\ Moves(w) /\ writer'[w].pc \in Onward
      /\ writer'[w].seen = writer[w].seen
  BY BecomesMoves DEF SetCommand, Pcs, Onward
<1>3. entries' \in [Keys -> Entry \union {None}]
  BY <1>1, EntryOfTyped DEF SetCommand, TypeOK
<1>4. TypeOK'
  BY <1>2, <1>3, MovesTyped DEF SetCommand, TypeOK, options
<1> QED  BY <1>1, <1>2, <1>4, StoresBound DEF SetCommand

(* The registration of tags, by commands.                                  *)
LEMMA RegisterGoes ==
  ASSUME TypeOK, NEW w \in Writers,
         \/ ReadRefs(w) \/ Unrefer(w) \/ ReferIndexes(w) \/ ExpireRefs(w)
         \/ EnterKeyIndex(w)
         \/ \E m \in TagKeys : LeaveIndex(w, m) \/ EnterIndex(w, m)
  PROVE  Goes(w)
<1> SUFFICES /\ Moves(w) /\ writer'[w].pc \in Onward
             /\ writer'[w].seen = writer[w].seen
  BY DEF Goes, Onward
<1>1. writer[w] \in Writer /\ writer[w].left \in SUBSET TagKeys
  BY DEF TypeOK, Writer
<1>2. CASE ReadRefs(w)
  <2>1. CASE RefsOf(KeyOf[w]) = {}
    BY <1>2, <2>1, BeginRegisterMoves DEF ReadRefs
  <2>2. CASE RefsOf(KeyOf[w]) # {}
    <3>1. RefsOf(KeyOf[w]) \in SUBSET TagKeys
      BY RefsTyped, RedisAssumption
    <3>2. writer' = [writer EXCEPT ![w] =
            [writer[w] EXCEPT !.pc = "srem", !.left = RefsOf(KeyOf[w]),
                              !.was = RefsOf(KeyOf[w])]]
      BY <1>2, <2>2 DEF ReadRefs
    <3> QED  BY <3>1, <3>2, LeftBecomes DEF Onward, Pcs
  <2> QED  BY <2>1, <2>2
<1>3. CASE Unrefer(w)
  BY <1>3, BeginRegisterMoves DEF Unrefer
<1>4. CASE ReferIndexes(w)
  BY <1>4, BecomesMoves DEF ReferIndexes, Onward, Pcs
<1>5. CASE ExpireRefs(w)
  <2>1. Leaves(w) \in Onward /\ Leaves(w) \in Pcs
    BY DEF Leaves, Onward, Pcs
  <2>2. CASE Becomes(w, Leaves(w)) \/ Becomes(w, "index")
    BY <2>1, <2>2, BecomesMoves DEF Onward, Pcs
  <2> QED  BY <1>5, <2>2, BeginAddTagsMoves DEF ExpireRefs
<1>6. CASE EnterKeyIndex(w)
  BY <1>6, BeginAddTagsMoves DEF EnterKeyIndex
<1>7. ASSUME NEW m \in TagKeys, LeaveIndex(w, m) \/ EnterIndex(w, m)
      PROVE  /\ Moves(w) /\ writer'[w].pc \in Onward
             /\ writer'[w].seen = writer[w].seen
  <2> DEFINE T == writer[w].left \ {m}
             p == IF writer[w].left = {m} THEN "unref" ELSE "srem"
             q == IF writer[w].left = {m} THEN "ref" ELSE "sadd"
  <2>1. T \in SUBSET TagKeys  BY <1>1
  <2>2. p \in Onward /\ q \in Onward  BY DEF Onward, Pcs
  <2>3. CASE LeaveIndex(w, m)
    <3>1. writer' = [writer EXCEPT ![w] = [writer[w] EXCEPT !.left = T, !.pc = p]]
      BY <2>3, <1>1 DEF LeaveIndex, Writer
    <3> HIDE DEF T, p
    <3> QED  BY <2>1, <2>2, <3>1, LeftBecomes DEF Onward
  <2>4. CASE EnterIndex(w, m)
    <3>1. writer' = [writer EXCEPT ![w] = [writer[w] EXCEPT !.left = T, !.pc = q]]
      BY <2>4, <1>1 DEF EnterIndex, Writer
    <3> HIDE DEF T, q
    <3> QED  BY <2>1, <2>2, <3>1, LeftBecomes DEF Onward
  <2> QED  BY <1>7, <2>3, <2>4
<1> QED  BY <1>2, <1>3, <1>4, <1>5, <1>6, <1>7

LEMMA RegisterType ==
  ASSUME TypeOK, RevisionsBounded, NEW w \in Writers,
         \/ ReadRefs(w) \/ Unrefer(w) \/ ReferIndexes(w) \/ ExpireRefs(w)
         \/ EnterKeyIndex(w)
         \/ \E m \in TagKeys : LeaveIndex(w, m) \/ EnterIndex(w, m)
  PROVE  TypeOK' /\ RevisionsBounded'
<1>1. Goes(w) /\ writer' \in [Writers -> Writer]
  BY RegisterGoes, MovesTyped DEF Goes
<1>2. KeyOf[w] \in Keys /\ RefsOf(KeyOf[w]) \subseteq TagKeys
  BY RefsTyped, RedisAssumption
<1>3. refs' \in [Keys -> Refs]
  <2>1. Forever \in Nat /\ now + Ttl \in Nat
    BY RedisAssumption DEF Forever, TypeOK
  <2>2. ASSUME NEW T \in SUBSET TagKeys, RefsBecome(KeyOf[w], T)
        PROVE  refs' \in [Keys -> Refs]
    BY <1>2, <2>1, <2>2 DEF RefsBecome, NoRefs, Refs, TypeOK
  <2>3. CASE Unrefer(w)
    BY <1>2, <2>2, <2>3 DEF Unrefer
  <2>4. CASE ReferIndexes(w)
    <3>1. /\ IndexesOf(TagsOf[w], WriteSpace) \subseteq TagKeys
          /\ IndexesOf(TagsOf[w], "runtime") \subseteq TagKeys
      BY TagKeysTyped, RedisAssumption
    <3>2. IndexesOf(TagsOf[w], IF writer[w].stage = "write" THEN WriteSpace
                               ELSE "runtime") \subseteq TagKeys
      BY <3>1
    <3> QED  BY <1>2, <2>2, <2>4, <3>2 DEF ReferIndexes
  <2>5. CASE ExpireRefs(w)
    BY <1>2, <2>1, <2>5 DEF ExpireRefs, NoRefs, Refs, TypeOK
  <2>6. refs' = refs \/ Unrefer(w) \/ ReferIndexes(w) \/ ExpireRefs(w)
    BY DEF ReadRefs, EnterKeyIndex, LeaveIndex, EnterIndex, redis
  <2> QED  BY <2>3, <2>4, <2>5, <2>6 DEF TypeOK
<1>4. members' \in [TagKeys -> SUBSET Keys] /\ index' \subseteq Keys
  <2>1. ASSUME NEW m \in TagKeys, LeaveIndex(w, m) \/ EnterIndex(w, m)
        PROVE  members' \in [TagKeys -> SUBSET Keys] /\ index' = index
    BY <1>2, <2>1 DEF LeaveIndex, EnterIndex, TypeOK
  <2>2. CASE EnterKeyIndex(w)
    BY <1>2, <2>2 DEF EnterKeyIndex, TypeOK
  <2>3. CASE ReadRefs(w) \/ Unrefer(w) \/ ReferIndexes(w) \/ ExpireRefs(w)
    BY <2>3 DEF ReadRefs, Unrefer, ReferIndexes, ExpireRefs, redis, TypeOK
  <2> QED  BY <2>1, <2>2, <2>3 DEF TypeOK
<1>5. UNCHANGED <<now, options, faults, entries, locks, invalidation, eraser>>
  BY DEF ReadRefs, Unrefer, ReferIndexes, ExpireRefs, EnterKeyIndex,
         LeaveIndex, EnterIndex, redis
<1>6. TypeOK'  BY <1>1, <1>3, <1>4, <1>5 DEF TypeOK, options
<1> QED  BY <1>1, <1>5, <1>6, BoundGoes

(* A comparison marks its rivals and, when it agrees, goes on to the SET.  *)
LEMMA CompareCommandType ==
  ASSUME TypeOK, RevisionsBounded, NEW w \in Writers, CompareCommand(w)
  PROVE  TypeOK' /\ RevisionsBounded'
<1>1. ASSUME NEW v \in Writers
      PROVE  writer[v] \in Writer
  BY DEF TypeOK
<1>2. CASE Agrees(w)
  <2> DEFINE b == \/ Rivals(w) # {}
                  \/ \E i \in Invalidations : /\ invalidation[i].pc = "delete"
                                              /\ invalidation[i].tag \in TagsOf[w]
             next(v) == IF v = w THEN [writer[w] EXCEPT !.pc = "set", !.raced = b]
                        ELSE IF v \in Rivals(w) THEN [writer[v] EXCEPT !.raced = TRUE]
                        ELSE writer[v]
  <2>1. b \in BOOLEAN  OBVIOUS
  <2>2. writer' = [v \in Writers |-> next(v)]
    BY <1>2 DEF CompareCommand
  <2> HIDE DEF b
  <2>3. [writer[w] EXCEPT !.pc = "set", !.raced = b] \in Writer
    BY <1>1, <2>1, RacedMoves DEF Pcs
  <2>4. ASSUME NEW v \in Writers
        PROVE  next(v) \in Writer
    <3>1. [writer[v] EXCEPT !.raced = TRUE] \in Writer
      BY <1>1, RacedMoves DEF Pcs
    <3> QED  BY <1>1, <2>3, <3>1
  <2>5. writer' \in [Writers -> Writer]  BY <2>2, <2>4
  <2>6. ASSUME NEW v \in Writers
        PROVE  /\ writer'[v].seen = writer[v].seen
               /\ v \in Past => writer'[v].pc \notin {"idle", "lock", "write", "set"}
    <3>1. writer[v] \in Writer /\ writer[w] \in Writer
          /\ writer'[v] = next(v)  BY <1>1, <2>2
    <3>2. CASE v = w  BY <3>1, <3>2, <1>2 DEF Writer, CompareCommand, Past
    <3>3. CASE v # w  BY <3>1, <3>3 DEF Writer, Past
    <3> QED  BY <3>2, <3>3
  <2>7. TypeOK'  BY <2>5 DEF CompareCommand, TypeOK, redis, options
  <2>8. \A v \in Writers : v \in Past => v \in Past'  BY <2>6 DEF Past
  <2> QED  BY <2>6, <2>7, <2>8, BoundKept DEF CompareCommand, redis
<1>3. CASE ~Agrees(w)
  <2>1. Leaves(w) \in Onward /\ Leaves(w) \in Pcs
    BY DEF Leaves, Onward, Pcs
  <2>2. Goes(w)
    BY <1>3, <2>1, BecomesMoves DEF CompareCommand, Goes, Onward
  <2>3. TypeOK'
    BY <1>3, <2>2, MovesTyped DEF CompareCommand, Goes, TypeOK, options, redis
  <2> QED  BY <1>3, <2>2, <2>3, BoundGoes DEF CompareCommand, redis
<1> QED  BY <1>2, <1>3

(* Writers whose history alone changes, if anything does.                  *)
Marked == \A w \in Writers : /\ writer'[w].pc = writer[w].pc
                              /\ writer'[w].seen = writer[w].seen

LEMMA BoundMarked ==
  ASSUME TypeOK, RevisionsBounded, TypeOK', Marked,
         \A k \in Keys : entries'[k] \in {entries[k], None}
  PROVE  RevisionsBounded'
<1>1. \A w \in Writers : w \in Past => w \in Past'  BY DEF Marked, Past
<1> QED  BY <1>1, BoundKept DEF Marked

LEMMA ErasedTyped ==
  ASSUME TypeOK, NEW S \in SUBSET Keys
  PROVE  /\ Erased(S) \in [Keys -> Entry \union {None}]
         /\ \A k \in Keys : Erased(S)[k] \in {entries[k], None}
BY DEF TypeOK, Erased

LEMMA InvalidateType ==
  ASSUME TypeOK, RevisionsBounded, NEW i \in Invalidations, Invalidate(i)
  PROVE  TypeOK' /\ RevisionsBounded'
<1>1. /\ TagKeyOf(i) \in TagKeys /\ members[TagKeyOf(i)] \in SUBSET Keys
      /\ invalidation[i] \in Invalidation
  BY DEF TagKeyOf, TagKeys, TypeOK, Invalidation
<1>2. CASE BeginInvalidate(i)
  <2>1. Registered(invalidation[i].tag) \in SUBSET Writers  BY DEF Registered
  <2>2. invalidation' \in [Invalidations -> Invalidation]
    BY <1>1, <1>2, <2>1 DEF BeginInvalidate, TypeOK, Invalidation
  <2>3. TypeOK' /\ Marked
    BY <1>2, <2>2 DEF BeginInvalidate, TypeOK, Marked, redis, options
  <2> QED  BY <1>2, <2>3, BoundMarked DEF BeginInvalidate, redis, TypeOK
<1>3. CASE InvalidateScript(i)
  <2>1. /\ invalidation' \in [Invalidations -> Invalidation]
        /\ members' \in [TagKeys -> SUBSET Keys]
    BY <1>1, <1>3 DEF InvalidateScript, TypeOK, Invalidation
  <2>2. TypeOK' /\ Marked
    BY <1>1, <1>3, <2>1, ErasedTyped DEF InvalidateScript, TypeOK, Marked, options
  <2> QED  BY <1>1, <1>3, <2>2, ErasedTyped, BoundMarked DEF InvalidateScript
<1>4. CASE ReadMembers(i)
  <2>1. invalidation' \in [Invalidations -> Invalidation]
    BY <1>1, <1>4 DEF ReadMembers, TypeOK, Invalidation
  <2> DEFINE next(v) == IF UnderWay(v) /\ invalidation[i].tag \in TagsOf[v]
                        THEN [writer[v] EXCEPT !.raced = TRUE] ELSE writer[v]
  <2>2. ASSUME NEW v \in Writers
        PROVE  /\ next(v) \in Writer /\ writer'[v] = next(v)
               /\ writer'[v].pc = writer[v].pc
               /\ writer'[v].seen = writer[v].seen
    <3>1. writer[v] \in Writer  BY DEF TypeOK
    <3>2. [writer[v] EXCEPT !.raced = TRUE] \in Writer  BY <3>1, RacedMoves DEF Pcs
    <3>3. writer'[v] = next(v)  BY <1>4 DEF ReadMembers
    <3> QED  BY <3>1, <3>2, <3>3 DEF Writer
  <2>3. writer' \in [Writers -> Writer]  BY <1>4, <2>2 DEF ReadMembers
  <2>4. TypeOK' /\ Marked
    BY <1>4, <2>1, <2>2, <2>3 DEF ReadMembers, TypeOK, Marked, redis, options
  <2> QED  BY <1>4, <2>4, BoundMarked DEF ReadMembers, redis, TypeOK
<1>5. ASSUME NEW B \in SUBSET Keys, DeleteMembers(i, B)
      PROVE  TypeOK' /\ RevisionsBounded'
  <2>1. invalidation' \in [Invalidations -> Invalidation]
    BY <1>1, <1>5 DEF DeleteMembers, TypeOK, Invalidation
  <2>2. TypeOK' /\ Marked
    BY <1>5, <2>1, ErasedTyped DEF DeleteMembers, TypeOK, Marked, options
  <2> QED  BY <1>5, <2>2, ErasedTyped, BoundMarked DEF DeleteMembers
<1>6. CASE DeleteTagIndex(i)
  <2>1. /\ invalidation' \in [Invalidations -> Invalidation]
        /\ members' \in [TagKeys -> SUBSET Keys]
    BY <1>1, <1>6 DEF DeleteTagIndex, TypeOK, Invalidation
  <2>2. TypeOK' /\ Marked
    BY <1>6, <2>1 DEF DeleteTagIndex, TypeOK, Marked, options
  <2> QED  BY <1>6, <2>2, BoundMarked DEF DeleteTagIndex, TypeOK
<1> QED  BY <1>2, <1>3, <1>4, <1>5, <1>6 DEF Invalidate

LEMMA DropTyped ==
  ASSUME TypeOK, NEW N, Drop(N)
  PROVE  /\ entries' \in [Keys -> Entry \union {None}]
         /\ \A k \in Keys : entries'[k] \in {entries[k], None}
         /\ refs' \in [Keys -> Refs]
         /\ locks' \in [Keys -> Lock \union {None}]
<1>1. NoRefs \in Refs  BY RedisAssumption DEF NoRefs, Refs, Forever
<1> QED  BY <1>1 DEF TypeOK, Drop

(* Where an eraser goes is within its type.                                *)
LEMMA EraserGoes ==
  ASSUME TypeOK, NEW e \in Erasers, Erase(e)
  PROVE  eraser' \in [Erasers -> Eraser]
<1>1. eraser[e] \in Eraser /\ index \subseteq Keys  BY DEF TypeOK
<1>2. AfterDeletes \in {"unindex", "done"}  BY DEF AfterDeletes
<1>3. ASSUME NEW k \in Keys, Delete(e, k)
      PROVE  eraser' \in [Erasers -> Eraser]
  BY <1>1, <1>2, <1>3 DEF Delete, TypeOK, Eraser
<1>4. ASSUME NEW k \in Keys, ScanKey(e, k)
      PROVE  eraser' \in [Erasers -> Eraser]
  <2>1. Existing(k) \in SUBSET Names  BY DEF Existing, Names
  <2> QED  BY <1>1, <1>4, <2>1 DEF ScanKey, TypeOK, Eraser
<1>5. ASSUME NEW S \in SUBSET Keys, BeginDeleteMany(e, S)
      PROVE  eraser' \in [Erasers -> Eraser]
  BY <1>1, <1>5 DEF BeginDeleteMany, TypeOK, Eraser
<1>6. CASE BeginClear(e)
  <2>1. Present \in SUBSET Writers  BY DEF Present
  <2> QED  BY <1>1, <1>6, <2>1 DEF BeginClear, TypeOK, Eraser
<1>7. CASE DeleteScanned(e)
  BY <1>1, <1>7 DEF DeleteScanned, TypeOK, Eraser
<1>8. CASE LeaveKeyIndex(e)
  BY <1>1, <1>8 DEF LeaveKeyIndex, TypeOK, Eraser
<1>9. ASSUME NEW B \in SUBSET Keys, DeleteListed(e, B)
      PROVE  eraser' \in [Erasers -> Eraser]
  BY <1>1, <1>2, <1>9 DEF DeleteListed, TypeOK, Eraser
<1> QED  BY <1>3, <1>4, <1>5, <1>6, <1>7, <1>8, <1>9 DEF Erase

LEMMA EraseType ==
  ASSUME TypeOK, RevisionsBounded, NEW e \in Erasers, Erase(e)
  PROVE  TypeOK' /\ RevisionsBounded'
<1>1. eraser' \in [Erasers -> Eraser]  BY EraserGoes
<1>2. ASSUME NEW N, Drop(N),
             UNCHANGED <<now, options, faults, members, index, writer, invalidation>>
      PROVE  TypeOK' /\ RevisionsBounded'
  <2>1. TypeOK' /\ Marked
    BY <1>1, <1>2, DropTyped DEF TypeOK, Marked, options
  <2> QED  BY <1>2, <2>1, DropTyped, BoundMarked
<1>3. ASSUME UNCHANGED <<now, options, faults, redis, writer, invalidation>>
      PROVE  TypeOK' /\ RevisionsBounded'
  <2>1. TypeOK' /\ Marked
    BY <1>1, <1>3 DEF TypeOK, Marked, options, redis
  <2> QED  BY <1>3, <2>1, BoundMarked DEF redis, TypeOK
<1>4. CASE LeaveKeyIndex(e)
  <2> DEFINE next(w) == IF KeyOf[w] \in eraser[e].erased /\ writer[w].stage = "addTags"
                        THEN [writer[w] EXCEPT !.unindexed = TRUE] ELSE writer[w]
  <2>1. ASSUME NEW w \in Writers
        PROVE  /\ next(w) \in Writer /\ writer'[w] = next(w)
               /\ writer'[w].pc = writer[w].pc
               /\ writer'[w].seen = writer[w].seen
    <3>1. writer[w] \in Writer  BY DEF TypeOK
    <3>2. [writer[w] EXCEPT !.unindexed = TRUE] \in Writer
      BY <3>1, RacedMoves DEF Pcs
    <3>3. writer'[w] = next(w)  BY <1>4 DEF LeaveKeyIndex
    <3> QED  BY <3>1, <3>2, <3>3 DEF Writer
  <2>2. writer' \in [Writers -> Writer]  BY <1>4, <2>1 DEF LeaveKeyIndex
  <2>3. index' \subseteq Keys  BY <1>4 DEF LeaveKeyIndex, TypeOK
  <2>4. TypeOK' /\ Marked
    BY <1>1, <1>4, <2>1, <2>2, <2>3 DEF LeaveKeyIndex, TypeOK, Marked, options
  <2> QED  BY <1>4, <2>4, BoundMarked DEF LeaveKeyIndex, TypeOK
<1>5. ASSUME NEW k \in Keys, Delete(e, k) \/ ScanKey(e, k)
      PROVE  TypeOK' /\ RevisionsBounded'
  BY <1>2, <1>3, <1>5 DEF Delete, ScanKey
<1>6. ASSUME NEW S \in SUBSET Keys, BeginDeleteMany(e, S) \/ DeleteListed(e, S)
      PROVE  TypeOK' /\ RevisionsBounded'
  BY <1>2, <1>3, <1>6 DEF BeginDeleteMany, DeleteListed
<1>7. CASE BeginClear(e) \/ DeleteScanned(e)
  BY <1>2, <1>3, <1>7 DEF BeginClear, DeleteScanned
<1> QED  BY <1>4, <1>5, <1>6, <1>7 DEF Erase

LEMMA NextType ==
  ASSUME TypeOK, RevisionsBounded, [Next]_vars
  PROVE  TypeOK' /\ RevisionsBounded'
<1>1. ASSUME NEW w \in Writers, Write(w) \/ Fail(w)
      PROVE  TypeOK' /\ RevisionsBounded'
  BY <1>1, ObserveType, LockType, SetEntryScriptType, CompareCommandType,
     SetCommandType, RegisterType DEF Write
<1>2. CASE Tick
  <2>1. TypeOK' /\ Marked
    BY <1>2, RedisAssumption DEF Tick, TypeOK, Marked, options, redis, actors
  <2> QED  BY <1>2, <2>1, BoundMarked DEF Tick, redis, TypeOK
<1>3. CASE UNCHANGED vars
  <2>1. TypeOK' /\ Marked
    BY <1>3 DEF vars, TypeOK, Marked, options, redis, actors
  <2> QED  BY <1>3, <2>1, BoundMarked DEF vars, redis, TypeOK
<1> QED  BY <1>1, <1>2, <1>3, InvalidateType, EraseType DEF Next

(* Types, and with them the bound on revisions: what compareAndSet stores  *)
(* never has a revision above the number of writes there were.             *)
THEOREM TypeCorrect == Spec => []TypeOK
<1>1. Init => TypeOK /\ RevisionsBounded  BY InitType
<1>2. TypeOK /\ RevisionsBounded /\ [Next]_vars => (TypeOK /\ RevisionsBounded)'
  BY NextType
<1> QED  BY <1>1, <1>2, PTL DEF Spec

-----------------------------------------------------------------------------
(* The inductive invariant *)

(* Before its write, and while it leaves the indexes of the entry it       *)
(* replaced, a writer is in compareAndSet.                                 *)
InWrite == {"idle", "lock", "write", "set", "refs", "srem", "unref", "index"}

(* A writer that has nothing more to store.                                *)
Over == {"release", "unlock", "done"}

(* The key holds what w stored, expired or not.                            *)
By(w) == entries[KeyOf[w]] # None /\ entries[KeyOf[w]].by = w

(* By commands, between the SET of compareAndSet and its end.              *)
Bookkeeps(v) == writer[v].stage = "write" /\ UnderWay(v) /\ writer[v].pc # "set"

Stages ==
  /\ \A w \in Writers :
       /\ writer[w].pc \in InWrite => writer[w].stage = "write"
       /\ writer[w].pc = "sadd" /\ writer[w].stage = "addTags" =>
            writer[w].left \subseteq IndexesOf(TagsOf[w], "runtime")
  /\ mode = "scripts" =>
       /\ \A w \in Writers : ~writer[w].raced
                             /\ (UnderWay(w) => writer[w].stage = "addTags")
       /\ \A i \in Invalidations : invalidation[i].pc # "delete"

(* Two writes of one key that are under way together know it; what an      *)
(* undisturbed writer stored is not followed by another's bookkeeping.     *)
RivalsKnown ==
  \A w, v \in Writers : w # v /\ KeyOf[w] = KeyOf[v] /\ ~writer[w].raced =>
    /\ writer[w].stage = "write" /\ UnderWay(w) =>
         ~(writer[v].stage = "write" /\ UnderWay(v))
    /\ By(w) => ~Bookkeeps(v)

(* What an undisturbed writer stored is in each of its tag indexes, or     *)
(* will be.                                                                *)
Member(w, t) ==
  <<t, "runtime">> \in writer[w].left \/ KeyOf[w] \in members[<<t, "runtime">>]

Memberships ==
  \A w \in Writers :
    /\ writer[w].stage = "addTags" /\ By(w) /\ ~writer[w].raced
    /\ UnderWay(w) \/ writer[w].left = {}
    => \A t \in TagsOf[w] : Member(w, t)

(* An invalidation in its deletions met no undisturbed write under way;    *)
(* it has the keys of those that were over.                                *)
Deleting ==
  \A i \in Invalidations, w \in Writers :
    invalidation[i].pc = "delete" /\ invalidation[i].tag \in TagsOf[w]
      /\ ~writer[w].raced =>
        /\ ~UnderWay(w)
        /\ By(w) /\ writer[w].stage = "addTags" /\ writer[w].left = {} =>
             KeyOf[w] \in invalidation[i].left

(* What an invalidation owes stays complete, until it is gone.             *)
Owing ==
  \A i \in Invalidations : \A w \in invalidation[i].owed :
    /\ writer[w].pc \in Over /\ writer[w].stage = "addTags"
    /\ writer[w].left = {} /\ ~writer[w].raced
    /\ invalidation[i].tag \in TagsOf[w]
    /\ invalidation[i].pc = "done" => ~By(w)

ReachInv == Stages /\ RivalsKnown /\ Memberships /\ Deleting /\ Owing

-----------------------------------------------------------------------------
(* The steps of a writer, by what they do to the invariant *)

(* Only w moves, and nothing is stored.                                    *)
Alone(w) ==
  /\ \A v \in Writers : v = w \/ writer'[v] = writer[v]
  /\ writer'[w].raced = writer[w].raced
  /\ UNCHANGED <<invalidation, mode>>

(* It goes on within its stage.                                            *)
Walks(w) ==
  /\ Alone(w) /\ UNCHANGED <<entries, members>>
  /\ writer'[w].stage = writer[w].stage
  /\ UnderWay(w)' => UnderWay(w)
  /\ Bookkeeps(w)' => Bookkeeps(w)
  /\ writer'[w].pc \in InWrite => writer[w].stage = "write"
  /\ writer[w].pc \in Over => writer'[w].pc \in Over
  /\ writer[w].stage = "addTags" => /\ writer'[w].left = writer[w].left
                                    /\ writer'[w].pc # "sadd"

LEMMA WalksKeeps ==
  ASSUME TypeOK, ReachInv, NEW w \in Writers, Walks(w)
  PROVE  ReachInv'
<1>1. Stages'
  BY DEF ReachInv, Stages, Walks, Alone, UnderWay
<1>2. \A v \in Writers : /\ By(v)' <=> By(v)
                         /\ UnderWay(v)' => UnderWay(v)
                         /\ Bookkeeps(v)' => Bookkeeps(v)
                         /\ writer'[v].stage = writer[v].stage
                         /\ writer'[v].raced = writer[v].raced
  BY DEF Walks, Alone, By, UnderWay, Bookkeeps
<1>3. RivalsKnown'  BY <1>2 DEF ReachInv, RivalsKnown
<1>4. \A v \in Writers : writer[v].stage = "addTags" =>
                           writer'[v].left = writer[v].left
  BY DEF Walks, Alone
<1>5. \A v \in Writers : writer[v].stage = "addTags" =>
                           \A t \in TagsOf[v] : Member(v, t) => Member(v, t)'
  BY <1>4 DEF Member, Walks
<1>6. Memberships'  BY <1>2, <1>4, <1>5 DEF ReachInv, Memberships
<1>7. Deleting'  BY <1>2, <1>4 DEF ReachInv, Deleting, Walks, Alone
<1>8. Owing'
  <2>1. \A v \in Writers : writer[v].pc \in Over => writer'[v].pc \in Over
    BY DEF Walks, Alone
  <2>2. \A i \in Invalidations : invalidation[i].owed \subseteq Writers
    BY DEF TypeOK, Invalidation
  <2> QED  BY <1>2, <1>4, <2>1, <2>2 DEF ReachInv, Owing, Walks, Alone
<1> QED  BY <1>1, <1>3, <1>6, <1>7, <1>8 DEF ReachInv

(* It turns from compareAndSet to addTags, all its indexes before it.      *)
Turns(w) ==
  /\ Alone(w)
  /\ writer[w].stage = "write" /\ writer[w].pc \notin Over
  /\ writer'[w].stage = "addTags"
  /\ writer'[w].left = IndexesOf(TagsOf[w], "runtime")
  /\ writer'[w].pc \in {"sadd"} \union Over

LEMMA BeginAddTagsTurns ==
  ASSUME TypeOK, NEW w \in Writers, BeginAddTags(w),
         writer[w].stage = "write", writer[w].pc \notin Over,
         UNCHANGED <<invalidation, mode>>
  PROVE  Turns(w)
<1>1. writer[w] \in Writer  BY DEF TypeOK
<1> DEFINE p == IF TagsOf[w] = {} THEN Leaves(w) ELSE "sadd"
<1>2. p \in {"sadd"} \union Over  BY DEF Leaves, Over
<1> HIDE DEF p
<1>3. writer' = [writer EXCEPT ![w] =
        [writer[w] EXCEPT !.stage = "addTags", !.pc = p,
                          !.left = IndexesOf(TagsOf[w], "runtime")]]
  BY DEF BeginAddTags, p
<1>4. \A v \in Writers : v = w \/ writer'[v] = writer[v]
  BY <1>3 DEF TypeOK
<1>5. writer'[w] = [writer[w] EXCEPT !.stage = "addTags", !.pc = p,
                          !.left = IndexesOf(TagsOf[w], "runtime")]
  BY <1>3 DEF TypeOK
<1>6. /\ writer'[w].stage = "addTags" /\ writer'[w].pc = p
      /\ writer'[w].left = IndexesOf(TagsOf[w], "runtime")
      /\ writer'[w].raced = writer[w].raced
  BY <1>1, <1>5 DEF Writer
<1> QED  BY <1>2, <1>4, <1>6 DEF Turns, Alone

(* A step that stores nothing of another writer under its own name, and    *)
(* leaves no membership but of entries it removes.                         *)
LEMMA TurnsKeeps ==
  ASSUME TypeOK, ReachInv, NEW w \in Writers, Turns(w),
         \A v \in Writers : By(v)' /\ v # w => By(v),
         \A v \in Writers, t \in Tags :
           By(v)' /\ v # w /\ KeyOf[v] \in members[<<t, "runtime">>] =>
             KeyOf[v] \in members'[<<t, "runtime">>],
         \/ UnderWay(w) /\ (By(w)' => By(w))
         \/ mode = "scripts"
  PROVE  ReachInv'
<1>1. \A v \in Writers : v # w => writer'[v] = writer[v]
  BY DEF Turns, Alone
<1>2. ~Bookkeeps(w)' /\ (By(w)' => writer'[w].raced = writer[w].raced)
  BY DEF Turns, Alone, Bookkeeps
<1>3. Stages'
  <2>1. ASSUME NEW v \in Writers
        PROVE  /\ writer'[v].pc \in InWrite => writer'[v].stage = "write"
               /\ writer'[v].pc = "sadd" /\ writer'[v].stage = "addTags" =>
                    writer'[v].left \subseteq IndexesOf(TagsOf[v], "runtime")
    BY <1>1 DEF ReachInv, Stages, Turns, InWrite, Over
  <2>2. ASSUME mode = "scripts", NEW v \in Writers
        PROVE  ~writer'[v].raced /\ (UnderWay(v)' => writer'[v].stage = "addTags")
    BY <1>1, <2>2 DEF ReachInv, Stages, Turns, Alone, UnderWay
  <2> QED  BY <2>1, <2>2 DEF Stages, Turns, Alone, ReachInv
<1>4. RivalsKnown'
  <2> SUFFICES ASSUME NEW u \in Writers, NEW v \in Writers,
                      u # v, KeyOf[u] = KeyOf[v], ~writer'[u].raced
               PROVE  /\ writer'[u].stage = "write" /\ UnderWay(u)' =>
                           ~(writer'[v].stage = "write" /\ UnderWay(v)')
                      /\ By(u)' => ~Bookkeeps(v)'
    BY DEF RivalsKnown
  <2>1. ~writer[u].raced  BY <1>1 DEF Turns, Alone
  <2>2. CASE v = w
    BY <1>1, <1>2, <2>1, <2>2 DEF Turns
  <2>3. CASE v # w
    <3>1. writer'[v] = writer[v] /\ (UnderWay(v)' = UnderWay(v))
          /\ (Bookkeeps(v)' = Bookkeeps(v))
      BY <1>1, <2>3 DEF UnderWay, Bookkeeps
    <3>2. CASE u = w
      <4>1. writer'[u].stage # "write"  BY <3>2 DEF Turns
      <4>2. ASSUME By(u)' PROVE ~Bookkeeps(v)
        <5>1. CASE mode = "scripts"
          BY <5>1 DEF ReachInv, Stages, Bookkeeps
        <5>2. CASE By(w)
          BY <2>1, <3>2, <5>2 DEF ReachInv, RivalsKnown
        <5> QED  BY <3>2, <4>2, <5>1, <5>2
      <4> QED  BY <3>1, <4>1, <4>2
    <3>3. CASE u # w
      <4>1. writer'[u] = writer[u] /\ (UnderWay(u)' = UnderWay(u))
        BY <1>1, <3>3 DEF UnderWay
      <4>2. By(u)' => By(u)  BY <3>3
      <4> QED  BY <2>1, <3>1, <4>1, <4>2 DEF ReachInv, RivalsKnown
    <3> QED  BY <3>2, <3>3
  <2> QED  BY <2>2, <2>3
<1>5. Memberships'
  <2> SUFFICES ASSUME NEW v \in Writers, NEW t \in TagsOf[v],
                      writer'[v].stage = "addTags", By(v)', ~writer'[v].raced,
                      UnderWay(v)' \/ writer'[v].left = {}
               PROVE  Member(v, t)'
    BY DEF Memberships
  <2>1. t \in Tags  BY RedisAssumption
  <2>2. CASE v = w  BY <2>2 DEF Turns, Member, IndexesOf
  <2>3. CASE v # w
    <3>1. By(v) /\ writer'[v] = writer[v] /\ (UnderWay(v)' = UnderWay(v))
      BY <1>1, <2>3 DEF UnderWay
    <3>2. Member(v, t)  BY <3>1 DEF ReachInv, Memberships
    <3> QED  BY <2>1, <2>3, <3>1, <3>2 DEF Member
  <2> QED  BY <2>2, <2>3
<1>6. Deleting'
  <2> SUFFICES ASSUME NEW i \in Invalidations, NEW v \in Writers,
                      invalidation[i].pc = "delete",
                      invalidation[i].tag \in TagsOf[v], ~writer'[v].raced
               PROVE  /\ ~UnderWay(v)'
                      /\ By(v)' /\ writer'[v].stage = "addTags"
                         /\ writer'[v].left = {} => KeyOf[v] \in invalidation[i].left
    BY DEF Deleting, Turns, Alone
  <2>1. mode # "scripts"  BY DEF ReachInv, Stages
  <2>2. v # w
    BY <2>1 DEF ReachInv, Deleting, Turns, Alone
  <2>3. By(v)' => By(v)  BY <2>2
  <2> QED  BY <1>1, <2>2, <2>3 DEF ReachInv, Deleting, UnderWay
<1>7. Owing'
  <2> SUFFICES ASSUME NEW i \in Invalidations, NEW v \in invalidation[i].owed
               PROVE  /\ writer'[v].pc \in Over /\ writer'[v].stage = "addTags"
                      /\ writer'[v].left = {} /\ ~writer'[v].raced
                      /\ invalidation[i].tag \in TagsOf[v]
                      /\ invalidation[i].pc = "done" => ~By(v)'
    BY DEF Owing, Turns, Alone
  <2>1. v \in Writers  BY DEF TypeOK, Invalidation
  <2>2. v # w  BY DEF ReachInv, Owing, Turns
  <2> QED  BY <1>1, <2>1, <2>2 DEF ReachInv, Owing
<1> QED  BY <1>3, <1>4, <1>5, <1>6, <1>7 DEF ReachInv

LEMMA SetEntryScriptKeeps ==
  ASSUME TypeOK, ReachInv, NEW w \in Writers, SetEntryScript(w), Agrees(w)
  PROVE  ReachInv'
<1>1. writer[w].stage = "write" /\ KeyOf[w] \in Keys
  BY RedisAssumption DEF ReachInv, Stages, InWrite, SetEntryScript
<1>2. Turns(w)
  BY <1>1, BeginAddTagsTurns DEF SetEntryScript, options, Over
<1>3. ASSUME NEW v \in Writers, v # w, By(v)'
      PROVE  By(v) /\ KeyOf[v] # KeyOf[w]
  BY <1>1, <1>3, RedisAssumption DEF SetEntryScript, TypeOK, By, EntryOf
<1>4. ASSUME NEW v \in Writers, NEW t \in Tags, By(v)', v # w,
             KeyOf[v] \in members[<<t, "runtime">>]
      PROVE  KeyOf[v] \in members'[<<t, "runtime">>]
  <2>1. KeyOf[v] # KeyOf[w]  BY <1>3, <1>4
  <2>2. <<t, "runtime">> \in TagKeys  BY DEF TagKeys
  <2> QED  BY <1>4, <2>1, <2>2 DEF SetEntryScript, Moved
<1> QED  BY <1>2, <1>3, <1>4, TurnsKeeps DEF SetEntryScript

UnderWayPcs == {"set", "refs", "srem", "unref", "sadd", "ref", "expire", "index"}

LEMMA BecomesWalks ==
  ASSUME TypeOK, NEW w \in Writers, NEW p \in Pcs, Becomes(w, p),
         UNCHANGED <<entries, members, invalidation, mode>>,
         p \in UnderWayPcs => UnderWay(w),
         p \in UnderWayPcs \ {"set"} => writer[w].stage = "addTags" \/ Bookkeeps(w),
         p \in InWrite => writer[w].stage = "write",
         writer[w].pc \in Over => p \in Over,
         writer[w].stage = "addTags" => p # "sadd"
  PROVE  Walks(w)
<1>1. writer[w] \in Writer  BY DEF TypeOK
<1>2. writer'[w] = [writer[w] EXCEPT !.pc = p] /\ Moves(w)
  BY BecomesMoves
<1>3. /\ writer'[w].pc = p /\ writer'[w].stage = writer[w].stage
      /\ writer'[w].left = writer[w].left /\ writer'[w].raced = writer[w].raced
  BY <1>1, <1>2 DEF Writer
<1>4. \A v \in Writers : v = w \/ writer'[v] = writer[v]
  BY <1>2, MovesTyped
<1>5. Alone(w)  BY <1>3, <1>4 DEF Alone
<1> QED  BY <1>3, <1>5 DEF Walks, UnderWay, Bookkeeps, UnderWayPcs

(* The steps that take the lock, give up and release it.                   *)
LEMMA LockWalks ==
  ASSUME TypeOK, ReachInv, NEW w \in Writers,
         \/ Observe(w) \/ AcquireLock(w) \/ ReleaseLock(w) \/ DeleteLock(w)
         \/ Fail(w)
         \/ (SetEntryScript(w) \/ CompareCommand(w)) /\ ~Agrees(w)
  PROVE  Walks(w)
<1>1. writer[w] \in Writer /\ Stages  BY DEF TypeOK, ReachInv
<1>2. Leaves(w) \in Pcs /\ Leaves(w) \in Over  BY DEF Leaves, Pcs, Over
<1>3. UNCHANGED <<entries, members, invalidation, mode>>
  BY DEF Observe, AcquireLock, ReleaseLock, DeleteLock, Fail, SetEntryScript,
         CompareCommand, redis, options
<1>4. CASE Observe(w)
  <2>1. writer' = [writer EXCEPT ![w] =
          [writer[w] EXCEPT !.pc = "lock", !.seen = RevisionOf(KeyOf[w])]]
    BY <1>4 DEF Observe
  <2>2. /\ writer'[w].pc = "lock" /\ writer'[w].stage = writer[w].stage
        /\ writer'[w].left = writer[w].left /\ writer'[w].raced = writer[w].raced
        /\ \A v \in Writers : v = w \/ writer'[v] = writer[v]
    BY <1>1, <2>1 DEF TypeOK, Writer
  <2> QED  BY <1>1, <1>3, <1>4, <2>2
           DEF Observe, Walks, Alone, UnderWay, Bookkeeps, Stages, InWrite, Over
<1>5. CASE AcquireLock(w)
  <2>1. CASE Becomes(w, "write")
    BY <1>1, <1>3, <1>5, <2>1, BecomesWalks
    DEF AcquireLock, Pcs, Over, InWrite, UnderWayPcs, Stages
  <2>2. CASE writer' = [writer EXCEPT ![w] =
               [writer[w] EXCEPT !.pc = "write", !.lease = now + LockTtl]]
    <3>1. /\ writer'[w].pc = "write" /\ writer'[w].stage = writer[w].stage
          /\ writer'[w].left = writer[w].left /\ writer'[w].raced = writer[w].raced
          /\ \A v \in Writers : v = w \/ writer'[v] = writer[v]
      BY <1>1, <2>2 DEF TypeOK, Writer
    <3> QED  BY <1>1, <1>3, <1>5, <3>1
             DEF AcquireLock, Walks, Alone, UnderWay, Bookkeeps, Stages, InWrite, Over
  <2> QED  BY <1>5, <2>1, <2>2 DEF AcquireLock
<1>6. CASE ReleaseLock(w) \/ DeleteLock(w)
  <2>1. CASE Becomes(w, "unlock")
    BY <1>3, <2>1, BecomesWalks DEF Pcs, Over, InWrite, UnderWayPcs
  <2>2. CASE writer' = [writer EXCEPT ![w] =
               [writer[w] EXCEPT !.pc = "done", !.lease = 0]]
    <3>1. /\ writer'[w].pc = "done" /\ writer'[w].stage = writer[w].stage
          /\ writer'[w].left = writer[w].left /\ writer'[w].raced = writer[w].raced
          /\ \A v \in Writers : v = w \/ writer'[v] = writer[v]
      BY <1>1, <2>2 DEF TypeOK, Writer
    <3> QED  BY <1>3, <3>1 DEF Walks, Alone, UnderWay, Bookkeeps, InWrite, Over
  <2> QED  BY <1>6, <2>1, <2>2 DEF ReleaseLock, DeleteLock, Unlocked
<1>7. CASE Becomes(w, Leaves(w))
  BY <1>2, <1>3, <1>7, BecomesWalks DEF Over, InWrite, UnderWayPcs
<1> QED
  BY <1>4, <1>5, <1>6, <1>7 DEF Fail, SetEntryScript, CompareCommand

(* The bookkeeping of compareAndSet, up to its end.                        *)
LEMMA BookkeepingWalks ==
  ASSUME TypeOK, ReachInv, NEW w \in Writers,
         \/ ReadRefs(w) \/ Unrefer(w) \/ ReferIndexes(w)
         \/ ExpireRefs(w) /\ (writer[w].stage = "addTags" \/ useKeyIndex)
  PROVE  Walks(w)
<1>1. writer[w] \in Writer /\ Stages  BY DEF TypeOK, ReachInv
<1>2. Leaves(w) \in Pcs /\ Leaves(w) \in Over  BY DEF Leaves, Pcs, Over
<1>3. UNCHANGED <<entries, members, invalidation, mode>>
  BY DEF ReadRefs, Unrefer, ReferIndexes, ExpireRefs, redis, options
<1>4. ASSUME writer[w].pc \in {"refs", "unref"}, BeginRegister(w)
      PROVE  Walks(w)
    <2> DEFINE p == IF TagsOf[w] # {} THEN "sadd" ELSE IF useKeyIndex THEN "index"
                    ELSE Leaves(w)
    <2>1. p \in {"sadd", "index"} \union Over  BY <1>2
    <2> HIDE DEF p
    <2>2. writer' = [writer EXCEPT ![w] =
            [writer[w] EXCEPT !.pc = p, !.left = IndexesOf(TagsOf[w], WriteSpace)]]
      BY <1>4 DEF BeginRegister, p
    <2>3. /\ writer'[w].pc = p /\ writer'[w].stage = writer[w].stage
          /\ writer'[w].raced = writer[w].raced
          /\ \A v \in Writers : v = w \/ writer'[v] = writer[v]
      BY <1>1, <2>2 DEF TypeOK, Writer
    <2>4. writer[w].stage = "write" /\ UnderWay(w) /\ Bookkeeps(w)
      BY <1>1, <1>4 DEF Stages, InWrite, UnderWay, Bookkeeps
    <2> QED  BY <1>3, <1>4, <2>1, <2>3, <2>4
             DEF Walks, Alone, InWrite, Over
<1>5. CASE ReadRefs(w)
  <2>1. CASE RefsOf(KeyOf[w]) # {}
    <3>1. writer' = [writer EXCEPT ![w] =
            [writer[w] EXCEPT !.pc = "srem", !.left = RefsOf(KeyOf[w]),
                              !.was = RefsOf(KeyOf[w])]]
      BY <1>5, <2>1 DEF ReadRefs
    <3>2. /\ writer'[w].pc = "srem" /\ writer'[w].stage = writer[w].stage
          /\ writer'[w].raced = writer[w].raced
          /\ \A v \in Writers : v = w \/ writer'[v] = writer[v]
      BY <1>1, <3>1 DEF TypeOK, Writer
    <3>3. writer[w].stage = "write" /\ UnderWay(w) /\ Bookkeeps(w)
      BY <1>1, <1>5 DEF ReadRefs, Stages, InWrite, UnderWay, Bookkeeps
    <3> QED  BY <1>3, <1>5, <3>2, <3>3 DEF ReadRefs, Walks, Alone, InWrite, Over
  <2> QED  BY <1>4, <1>5, <2>1 DEF ReadRefs
<1>6. CASE Unrefer(w)  BY <1>4, <1>6 DEF Unrefer
<1>7. CASE \/ ReferIndexes(w)
           \/ ExpireRefs(w) /\ (writer[w].stage = "addTags" \/ useKeyIndex)
  <2>1. UnderWay(w) /\ (writer[w].stage = "addTags" \/ Bookkeeps(w))
        /\ writer[w].pc \notin Over
    BY <1>1, <1>7 DEF ReferIndexes, ExpireRefs, UnderWay, Bookkeeps, Writer, Over
  <2>2. CASE Becomes(w, "expire")
    BY <1>3, <2>1, <2>2, BecomesWalks DEF Pcs, InWrite
  <2>3. CASE Becomes(w, Leaves(w))
    BY <1>2, <1>3, <2>1, <2>3, BecomesWalks DEF Over, InWrite, UnderWayPcs
  <2>4. CASE Becomes(w, "index") /\ writer[w].stage # "addTags"
    <3>1. writer[w].stage = "write"  BY <1>1, <2>4 DEF Writer
    <3> QED  BY <1>3, <2>1, <2>4, <3>1, BecomesWalks DEF Pcs, Over
  <2> QED  BY <1>7, <2>2, <2>3, <2>4 DEF ReferIndexes, ExpireRefs
<1> QED  BY <1>5, <1>6, <1>7

(* Its end: addTags begins.                                                *)
LEMMA BookkeepingEnds ==
  ASSUME TypeOK, ReachInv, NEW w \in Writers,
         \/ EnterKeyIndex(w)
         \/ ExpireRefs(w) /\ writer[w].stage # "addTags" /\ ~useKeyIndex
  PROVE  ReachInv'
<1>1. writer[w] \in Writer /\ Stages  BY DEF TypeOK, ReachInv
<1>2. writer[w].stage = "write" /\ UnderWay(w)
  BY <1>1 DEF Stages, InWrite, EnterKeyIndex, ExpireRefs, Writer, UnderWay
<1>3. UNCHANGED <<entries, members, invalidation, mode>>
  BY DEF EnterKeyIndex, ExpireRefs, options
<1>4. Turns(w)
  BY <1>2, <1>3, BeginAddTagsTurns DEF EnterKeyIndex, ExpireRefs, UnderWay, Over
<1>5. \A v \in Writers : By(v)' <=> By(v)  BY <1>3 DEF By
<1> QED  BY <1>2, <1>3, <1>4, <1>5, TurnsKeeps

(* The SET of compareAndSet.                                               *)
LEMMA SetCommandKeeps ==
  ASSUME TypeOK, ReachInv, NEW w \in Writers, SetCommand(w)
  PROVE  ReachInv'
<1>1. writer[w] \in Writer /\ Stages /\ KeyOf[w] \in Keys
  BY RedisAssumption DEF TypeOK, ReachInv
<1>2. writer[w].stage = "write" /\ UnderWay(w) /\ writer[w].pc \notin Over
  BY <1>1 DEF SetCommand, Stages, InWrite, UnderWay, Over
<1>3. /\ writer'[w] = [writer[w] EXCEPT !.pc = "refs"]
      /\ \A v \in Writers : v = w \/ writer'[v] = writer[v]
  BY BecomesMoves, MovesTyped DEF SetCommand, Pcs
<1>4. /\ writer'[w].pc = "refs" /\ writer'[w].stage = "write"
      /\ writer'[w].raced = writer[w].raced
  BY <1>1, <1>2, <1>3 DEF Writer
<1>5. UNCHANGED <<members, invalidation, mode>>
  BY DEF SetCommand, options
<1>6. ASSUME NEW v \in Writers, v # w, By(v)'
      PROVE  By(v) /\ KeyOf[v] # KeyOf[w]
  BY <1>1, <1>6, RedisAssumption DEF SetCommand, TypeOK, By, EntryOf
<1>7. \A v \in Writers : UnderWay(v)' <=> UnderWay(v)
  BY <1>2, <1>3, <1>4 DEF UnderWay
<1>8. Stages'
  <2>1. ASSUME NEW v \in Writers
        PROVE  /\ writer'[v].pc \in InWrite => writer'[v].stage = "write"
               /\ writer'[v].pc = "sadd" /\ writer'[v].stage = "addTags" =>
                    writer'[v].left \subseteq IndexesOf(TagsOf[v], "runtime")
    BY <1>1, <1>3, <1>4 DEF Stages
  <2>2. mode # "scripts"  BY <1>1, <1>2 DEF Stages
  <2> QED  BY <1>5, <2>1, <2>2 DEF Stages
<1>9. RivalsKnown'
  <2> SUFFICES ASSUME NEW u \in Writers, NEW v \in Writers,
                      u # v, KeyOf[u] = KeyOf[v], ~writer'[u].raced
               PROVE  /\ writer'[u].stage = "write" /\ UnderWay(u)' =>
                           ~(writer'[v].stage = "write" /\ UnderWay(v)')
                      /\ By(u)' => ~Bookkeeps(v)'
    BY DEF RivalsKnown
  <2>1. \A x \in Writers : /\ writer'[x].stage = writer[x].stage
                           /\ writer'[x].raced = writer[x].raced
    BY <1>2, <1>3, <1>4
  <2>2. writer'[u].stage = "write" /\ UnderWay(u)' =>
           ~(writer'[v].stage = "write" /\ UnderWay(v)')
    BY <1>7, <2>1 DEF ReachInv, RivalsKnown
  <2>3. ASSUME By(u)' PROVE ~Bookkeeps(v)'
    <3>1. CASE u = w
      <4>1. ~(writer[v].stage = "write" /\ UnderWay(v))
        BY <1>2, <2>1, <3>1 DEF ReachInv, RivalsKnown
      <4> QED  BY <1>7, <2>1, <4>1 DEF Bookkeeps
    <3>2. CASE u # w
      <4>1. By(u) /\ v # w  BY <1>6, <2>3, <3>2
      <4>2. ~Bookkeeps(v)  BY <2>1, <4>1 DEF ReachInv, RivalsKnown
      <4> QED  BY <1>3, <4>1, <4>2 DEF Bookkeeps, UnderWay
    <3> QED  BY <3>1, <3>2
  <2> QED  BY <2>2, <2>3
<1>10. Memberships'
  <2> SUFFICES ASSUME NEW v \in Writers, NEW t \in TagsOf[v],
                      writer'[v].stage = "addTags", By(v)', ~writer'[v].raced,
                      UnderWay(v)' \/ writer'[v].left = {}
               PROVE  Member(v, t)'
    BY DEF Memberships
  <2>1. v # w  BY <1>4
  <2>2. By(v) /\ writer'[v] = writer[v]  BY <1>3, <1>6, <2>1
  <2>3. Member(v, t)  BY <1>7, <2>2 DEF ReachInv, Memberships
  <2> QED  BY <1>5, <2>2, <2>3 DEF Member
<1>11. Deleting'
  BY <1>3, <1>4, <1>5, <1>6, <1>7 DEF ReachInv, Deleting
<1>12. Owing'
  <2> SUFFICES ASSUME NEW i \in Invalidations, NEW v \in invalidation[i].owed
               PROVE  /\ writer'[v].pc \in Over /\ writer'[v].stage = "addTags"
                      /\ writer'[v].left = {} /\ ~writer'[v].raced
                      /\ invalidation[i].tag \in TagsOf[v]
                      /\ invalidation[i].pc = "done" => ~By(v)'
    BY <1>5 DEF Owing
  <2>1. v \in Writers  BY DEF TypeOK, Invalidation
  <2>2. v # w  BY <1>2 DEF ReachInv, Owing
  <2> QED  BY <1>3, <1>6, <2>1, <2>2 DEF ReachInv, Owing
<1> QED  BY <1>8, <1>9, <1>10, <1>11, <1>12 DEF ReachInv

(* The comparison of compareAndSet: who is under way knows of each other.  *)
LEMMA CompareCommandKeeps ==
  ASSUME TypeOK, ReachInv, NEW w \in Writers, CompareCommand(w), Agrees(w)
  PROVE  ReachInv'
<1> DEFINE b == \/ Rivals(w) # {}
                \/ \E i \in Invalidations : /\ invalidation[i].pc = "delete"
                                            /\ invalidation[i].tag \in TagsOf[w]
<1>1. Stages /\ mode = "commands" /\ writer[w].pc = "write"
  BY DEF ReachInv, CompareCommand
<1>2. writer[w].stage = "write"  BY <1>1 DEF Stages, InWrite
<1>3. UNCHANGED <<entries, members, invalidation, mode>>
  BY DEF CompareCommand, redis, options
<1>4. \A v \in Writers : writer[v] \in Writer  BY DEF TypeOK
<1> DEFINE next(v) == IF v = w THEN [writer[w] EXCEPT !.pc = "set", !.raced = b]
                      ELSE IF v \in Rivals(w) THEN [writer[v] EXCEPT !.raced = TRUE]
                      ELSE writer[v]
<1>a. writer' = [v \in Writers |-> next(v)]  BY DEF CompareCommand
<1>b. b \in BOOLEAN  OBVIOUS
<1> HIDE DEF b
<1>5. /\ writer'[w].pc = "set" /\ writer'[w].stage = "write"
      /\ writer'[w].left = writer[w].left /\ writer'[w].raced = b
  <2>1. writer'[w] = [writer[w] EXCEPT !.pc = "set", !.raced = b]
    BY <1>a
  <2>2. writer[w] \in Writer  BY <1>4
  <2> QED  BY <1>2, <2>1, <2>2 DEF Writer
<1>6. ASSUME NEW v \in Writers, v # w
      PROVE  /\ writer'[v].pc = writer[v].pc /\ writer'[v].stage = writer[v].stage
             /\ writer'[v].left = writer[v].left
             /\ v \in Rivals(w) => writer'[v].raced
             /\ v \notin Rivals(w) => writer'[v].raced = writer[v].raced
             /\ ~writer'[v].raced => ~writer[v].raced
  <2>1. CASE v \in Rivals(w)
    <3>1. writer'[v] = [writer[v] EXCEPT !.raced = TRUE]
      BY <1>a, <1>6, <2>1
    <3>2. writer[v] \in Writer  BY <1>4
    <3> QED  BY <2>1, <3>1, <3>2 DEF Writer
  <2>2. CASE v \notin Rivals(w)
    BY <1>a, <1>6, <2>2
  <2> QED  BY <2>1, <2>2
<1>7. \A v \in Writers : /\ By(v)' <=> By(v)
                         /\ Bookkeeps(v)' <=> Bookkeeps(v)
                         /\ v # w => (UnderWay(v)' <=> UnderWay(v))
  BY <1>1, <1>3, <1>5, <1>6 DEF By, Bookkeeps, UnderWay
<1>8. Stages'
  BY <1>1, <1>3, <1>5, <1>6 DEF Stages
<1>9. RivalsKnown'
  <2> SUFFICES ASSUME NEW u \in Writers, NEW v \in Writers,
                      u # v, KeyOf[u] = KeyOf[v], ~writer'[u].raced
               PROVE  /\ writer'[u].stage = "write" /\ UnderWay(u)' =>
                           ~(writer'[v].stage = "write" /\ UnderWay(v)')
                      /\ By(u)' => ~Bookkeeps(v)'
    BY DEF RivalsKnown
  <2>1. CASE u # w
    <3>1. ~writer[u].raced /\ u \notin Rivals(w)  BY <1>6, <2>1
    <3>2. By(u)' => ~Bookkeeps(v)'
      BY <1>7, <3>1 DEF ReachInv, RivalsKnown
    <3>3. CASE v = w
      BY <1>6, <1>7, <2>1, <3>1, <3>2, <3>3 DEF Rivals
    <3>4. CASE v # w
      BY <1>6, <1>7, <2>1, <3>1, <3>2, <3>4 DEF ReachInv, RivalsKnown
    <3> QED  BY <3>3, <3>4
  <2>2. CASE u = w
    <3>1. Rivals(w) = {}  BY <1>5, <2>2 DEF b
    <3>2. ~(writer[v].stage = "write" /\ UnderWay(v))
      BY <2>2, <3>1 DEF Rivals
    <3> QED  BY <1>6, <1>7, <2>2, <3>2 DEF Bookkeeps
  <2> QED  BY <2>1, <2>2
<1>10. Memberships'
  <2> SUFFICES ASSUME NEW v \in Writers, NEW t \in TagsOf[v],
                      writer'[v].stage = "addTags", By(v)', ~writer'[v].raced,
                      UnderWay(v)' \/ writer'[v].left = {}
               PROVE  Member(v, t)'
    BY DEF Memberships
  <2>1. v # w  BY <1>5
  <2>2. Member(v, t)
    BY <1>6, <1>7, <2>1 DEF ReachInv, Memberships
  <2> QED  BY <1>3, <1>6, <2>1, <2>2 DEF Member
<1>11. Deleting'
  <2> SUFFICES ASSUME NEW i \in Invalidations, NEW v \in Writers,
                      invalidation[i].pc = "delete",
                      invalidation[i].tag \in TagsOf[v], ~writer'[v].raced
               PROVE  /\ ~UnderWay(v)'
                      /\ By(v)' /\ writer'[v].stage = "addTags"
                         /\ writer'[v].left = {} => KeyOf[v] \in invalidation[i].left
    BY <1>3 DEF Deleting
  <2>1. v # w  BY <1>5 DEF b
  <2> QED  BY <1>6, <1>7, <2>1 DEF ReachInv, Deleting
<1>12. Owing'
  <2> SUFFICES ASSUME NEW i \in Invalidations, NEW v \in invalidation[i].owed
               PROVE  /\ writer'[v].pc \in Over /\ writer'[v].stage = "addTags"
                      /\ writer'[v].left = {} /\ ~writer'[v].raced
                      /\ invalidation[i].tag \in TagsOf[v]
                      /\ invalidation[i].pc = "done" => ~By(v)'
    BY <1>3 DEF Owing
  <2>1. v \in Writers  BY DEF TypeOK, Invalidation
  <2>2. v # w /\ v \notin Rivals(w)
    BY <1>2 DEF ReachInv, Owing, Rivals
  <2> QED  BY <1>6, <1>7, <2>1, <2>2 DEF ReachInv, Owing
<1> QED  BY <1>8, <1>9, <1>10, <1>11, <1>12 DEF ReachInv

(* SREM and SADD of the key, to and from one index.                        *)
LEMMA LeaveIndexKeeps ==
  ASSUME TypeOK, ReachInv, NEW w \in Writers, NEW m \in TagKeys, LeaveIndex(w, m)
  PROVE  ReachInv'
<1>1. writer[w] \in Writer /\ Stages  BY DEF TypeOK, ReachInv
<1>2. writer[w].stage = "write" /\ Bookkeeps(w) /\ writer[w].pc \notin Over
      /\ UnderWay(w)
  BY <1>1 DEF LeaveIndex, Stages, InWrite, Bookkeeps, UnderWay, Over
<1>3. UNCHANGED <<entries, invalidation, mode>>
  BY DEF LeaveIndex, options
<1>4. /\ writer'[w].pc \in {"srem", "unref"} /\ writer'[w].stage = "write"
      /\ writer'[w].raced = writer[w].raced
      /\ \A v \in Writers : v = w \/ writer'[v] = writer[v]
  <2> DEFINE p == IF writer[w].left = {m} THEN "unref" ELSE writer[w].pc
  <2>1. p \in {"srem", "unref"}  BY DEF LeaveIndex
  <2>2. writer' = [writer EXCEPT ![w] =
          [writer[w] EXCEPT !.left = writer[w].left \ {m}, !.pc = p]]
    BY <1>1 DEF LeaveIndex, Writer
  <2> HIDE DEF p
  <2> QED  BY <1>1, <1>2, <2>1, <2>2 DEF TypeOK, Writer
<1>5. \A v \in Writers : /\ By(v)' <=> By(v)
                         /\ UnderWay(v)' <=> UnderWay(v)
                         /\ Bookkeeps(v)' <=> Bookkeeps(v)
                         /\ writer'[v].stage = writer[v].stage
                         /\ writer'[v].raced = writer[v].raced
                         /\ v # w => writer'[v] = writer[v]
  BY <1>2, <1>3, <1>4 DEF By, UnderWay, Bookkeeps
<1>6. Stages'
  BY <1>1, <1>2, <1>3, <1>4 DEF Stages
<1>7. RivalsKnown'  BY <1>5 DEF ReachInv, RivalsKnown
<1>8. Memberships'
  <2> SUFFICES ASSUME NEW v \in Writers, NEW t \in TagsOf[v],
                      writer'[v].stage = "addTags", By(v)', ~writer'[v].raced,
                      UnderWay(v)' \/ writer'[v].left = {}
               PROVE  Member(v, t)'
    BY DEF Memberships
  <2>1. v # w  BY <1>4
  <2>2. Member(v, t) /\ writer'[v] = writer[v]
    BY <1>5, <2>1 DEF ReachInv, Memberships
  <2>3. KeyOf[v] # KeyOf[w]
    BY <1>2, <1>5, <2>1 DEF ReachInv, RivalsKnown
  <2>4. <<t, "runtime">> \in TagKeys  BY RedisAssumption DEF TagKeys
  <2>5. KeyOf[v] \in members[<<t, "runtime">>] =>
          KeyOf[v] \in members'[<<t, "runtime">>]
    BY <2>3, <2>4 DEF LeaveIndex, TypeOK
  <2> QED  BY <2>2, <2>5 DEF Member
<1>9. Deleting'
  BY <1>2, <1>3, <1>5 DEF ReachInv, Deleting
<1>10. Owing'
  <2> SUFFICES ASSUME NEW i \in Invalidations, NEW v \in invalidation[i].owed
               PROVE  /\ writer'[v].pc \in Over /\ writer'[v].stage = "addTags"
                      /\ writer'[v].left = {} /\ ~writer'[v].raced
                      /\ invalidation[i].tag \in TagsOf[v]
                      /\ invalidation[i].pc = "done" => ~By(v)'
    BY <1>3 DEF Owing
  <2>1. v \in Writers  BY DEF TypeOK, Invalidation
  <2>2. v # w  BY <1>2 DEF ReachInv, Owing
  <2> QED  BY <1>5, <2>1, <2>2 DEF ReachInv, Owing
<1> QED  BY <1>6, <1>7, <1>8, <1>9, <1>10 DEF ReachInv

LEMMA EnterIndexKeeps ==
  ASSUME TypeOK, ReachInv, NEW w \in Writers, NEW m \in TagKeys, EnterIndex(w, m)
  PROVE  ReachInv'
<1>1. writer[w] \in Writer /\ Stages  BY DEF TypeOK, ReachInv
<1>2. writer[w].pc \notin Over /\ UnderWay(w)
      /\ (writer[w].stage = "write" => Bookkeeps(w))
  BY <1>1 DEF EnterIndex, Bookkeeps, UnderWay, Over
<1>3. UNCHANGED <<entries, invalidation, mode>>
  BY DEF EnterIndex, options
<1>4. /\ writer'[w].pc \in {"sadd", "ref"} /\ writer'[w].stage = writer[w].stage
      /\ writer'[w].raced = writer[w].raced
      /\ writer'[w].left = writer[w].left \ {m}
      /\ \A v \in Writers : v = w \/ writer'[v] = writer[v]
  <2> DEFINE p == IF writer[w].left = {m} THEN "ref" ELSE writer[w].pc
  <2>1. p \in {"sadd", "ref"}  BY DEF EnterIndex
  <2>2. writer' = [writer EXCEPT ![w] =
          [writer[w] EXCEPT !.left = writer[w].left \ {m}, !.pc = p]]
    BY <1>1 DEF EnterIndex, Writer
  <2> HIDE DEF p
  <2> QED  BY <1>1, <2>1, <2>2 DEF TypeOK, Writer
<1>5. \A v \in Writers : /\ By(v)' <=> By(v)
                         /\ UnderWay(v)' <=> UnderWay(v)
                         /\ Bookkeeps(v)' <=> Bookkeeps(v)
                         /\ writer'[v].stage = writer[v].stage
                         /\ writer'[v].raced = writer[v].raced
                         /\ v # w => writer'[v] = writer[v]
  BY <1>2, <1>3, <1>4 DEF By, UnderWay, Bookkeeps
<1>6. Stages'
  <2>1. ASSUME NEW v \in Writers
        PROVE  /\ writer'[v].pc \in InWrite => writer'[v].stage = "write"
               /\ writer'[v].pc = "sadd" /\ writer'[v].stage = "addTags" =>
                    writer'[v].left \subseteq IndexesOf(TagsOf[v], "runtime")
    <3>1. CASE v = w
      BY <1>1, <1>4, <3>1 DEF Stages, InWrite, EnterIndex
    <3>2. CASE v # w
      BY <1>1, <1>5, <3>2 DEF Stages
    <3> QED  BY <3>1, <3>2
  <2> QED  BY <1>1, <1>3, <1>5, <2>1 DEF Stages
<1>7. RivalsKnown'  BY <1>5 DEF ReachInv, RivalsKnown
<1>8. Memberships'
  <2> SUFFICES ASSUME NEW v \in Writers, NEW t \in TagsOf[v],
                      writer'[v].stage = "addTags", By(v)', ~writer'[v].raced,
                      UnderWay(v)' \/ writer'[v].left = {}
               PROVE  Member(v, t)'
    BY DEF Memberships
  <2>1. <<t, "runtime">> \in TagKeys  BY RedisAssumption DEF TagKeys
  <2>2. KeyOf[v] \in members[<<t, "runtime">>] =>
          KeyOf[v] \in members'[<<t, "runtime">>]
    BY <2>1 DEF EnterIndex, TypeOK
  <2>3. Member(v, t)
    BY <1>2, <1>5 DEF ReachInv, Memberships
  <2>4. CASE v = w /\ <<t, "runtime">> = m
    BY <2>4 DEF EnterIndex, TypeOK, Member
  <2>5. CASE ~(v = w /\ <<t, "runtime">> = m)
    BY <1>4, <1>5, <2>2, <2>3, <2>5 DEF Member
  <2> QED  BY <2>4, <2>5
<1>9. Deleting'
  BY <1>2, <1>3, <1>5 DEF ReachInv, Deleting
<1>10. Owing'
  <2> SUFFICES ASSUME NEW i \in Invalidations, NEW v \in invalidation[i].owed
               PROVE  /\ writer'[v].pc \in Over /\ writer'[v].stage = "addTags"
                      /\ writer'[v].left = {} /\ ~writer'[v].raced
                      /\ invalidation[i].tag \in TagsOf[v]
                      /\ invalidation[i].pc = "done" => ~By(v)'
    BY <1>3 DEF Owing
  <2>1. v \in Writers  BY DEF TypeOK, Invalidation
  <2>2. v # w  BY <1>2 DEF ReachInv, Owing
  <2> QED  BY <1>5, <2>1, <2>2 DEF ReachInv, Owing
<1> QED  BY <1>6, <1>7, <1>8, <1>9, <1>10 DEF ReachInv

LEMMA WriteKeeps ==
  ASSUME TypeOK, ReachInv, NEW w \in Writers, Write(w) \/ Fail(w)
  PROVE  ReachInv'
<1>1. CASE \E m \in TagKeys : LeaveIndex(w, m) \/ EnterIndex(w, m)
  BY <1>1, LeaveIndexKeeps, EnterIndexKeeps
<1>2. CASE SetEntryScript(w) \/ CompareCommand(w)
  BY <1>2, LockWalks, WalksKeeps, SetEntryScriptKeeps, CompareCommandKeeps
<1>3. CASE Observe(w) \/ AcquireLock(w) \/ ReleaseLock(w) \/ DeleteLock(w) \/ Fail(w)
  BY <1>3, LockWalks, WalksKeeps
<1>4. CASE ReadRefs(w) \/ Unrefer(w) \/ ReferIndexes(w)
  BY <1>4, BookkeepingWalks, WalksKeeps
<1>5. CASE ExpireRefs(w)
  BY <1>5, BookkeepingWalks, BookkeepingEnds, WalksKeeps
<1>6. CASE EnterKeyIndex(w)  BY <1>6, BookkeepingEnds
<1>7. CASE SetCommand(w)  BY <1>7, SetCommandKeeps
<1> QED  BY <1>1, <1>2, <1>3, <1>4, <1>5, <1>6, <1>7 DEF Write

-----------------------------------------------------------------------------
(* Invalidations, erasers and time *)

(* Entries vanish, and nothing else the invariant speaks of changes.       *)
Vanishes ==
  /\ UNCHANGED <<members, invalidation, mode>>
  /\ \A w \in Writers :
       /\ writer'[w].pc = writer[w].pc /\ writer'[w].stage = writer[w].stage
       /\ writer'[w].left = writer[w].left /\ writer'[w].raced = writer[w].raced
  /\ \A k \in Keys : entries'[k] \in {entries[k], None}

LEMMA VanishesKeeps ==
  ASSUME TypeOK, ReachInv, Vanishes
  PROVE  ReachInv'
<1>1. \A w \in Writers : /\ By(w)' => By(w)
                         /\ UnderWay(w)' <=> UnderWay(w)
                         /\ Bookkeeps(w)' <=> Bookkeeps(w)
  BY RedisAssumption DEF Vanishes, By, UnderWay, Bookkeeps
<1>2. Stages'  BY <1>1 DEF Vanishes, ReachInv, Stages
<1>3. RivalsKnown'  BY <1>1 DEF Vanishes, ReachInv, RivalsKnown
<1>4. Memberships'
  BY <1>1 DEF Vanishes, ReachInv, Memberships, Member
<1>5. Deleting'  BY <1>1 DEF Vanishes, ReachInv, Deleting
<1>6. \A i \in Invalidations : invalidation[i].owed \subseteq Writers
  BY DEF TypeOK, Invalidation
<1>7. Owing'  BY <1>1, <1>6 DEF Vanishes, ReachInv, Owing
<1> QED  BY <1>2, <1>3, <1>4, <1>5, <1>7 DEF ReachInv

LEMMA EraseKeeps ==
  ASSUME TypeOK, ReachInv, NEW e \in Erasers, Erase(e)
  PROVE  ReachInv'
<1> SUFFICES Vanishes  BY VanishesKeeps
<1>1. ASSUME NEW N, Drop(N), UNCHANGED <<options, members, writer, invalidation>>
      PROVE  Vanishes
  BY <1>1, DropTyped DEF Vanishes, options
<1>2. ASSUME UNCHANGED <<options, redis, writer, invalidation>>
      PROVE  Vanishes
  BY <1>2 DEF Vanishes, options, redis
<1>3. CASE LeaveKeyIndex(e)
  <2>1. ASSUME NEW w \in Writers
        PROVE  /\ writer'[w].pc = writer[w].pc /\ writer'[w].stage = writer[w].stage
               /\ writer'[w].left = writer[w].left
               /\ writer'[w].raced = writer[w].raced
    <3>1. writer[w] \in Writer  BY DEF TypeOK
    <3> QED  BY <1>3, <3>1 DEF LeaveKeyIndex, Writer
  <2> QED  BY <1>3, <2>1 DEF LeaveKeyIndex, Vanishes, options
<1>4. CASE \E k \in Keys : Delete(e, k) \/ ScanKey(e, k)
  BY <1>1, <1>2, <1>4 DEF Delete, ScanKey
<1>5. CASE \E S \in SUBSET Keys : BeginDeleteMany(e, S) \/ DeleteListed(e, S)
  BY <1>1, <1>2, <1>5 DEF BeginDeleteMany, DeleteListed
<1>6. CASE BeginClear(e) \/ DeleteScanned(e)
  BY <1>1, <1>2, <1>6 DEF BeginClear, DeleteScanned
<1> QED  BY <1>3, <1>4, <1>5, <1>6 DEF Erase

LEMMA InvalidateKeeps ==
  ASSUME TypeOK, ReachInv, NEW i \in Invalidations, Invalidate(i)
  PROVE  ReachInv'
<1>1. /\ invalidation[i] \in Invalidation /\ TagKeyOf(i) \in TagKeys
      /\ invalidation[i].owed \subseteq Writers /\ Stages
      /\ mode \in {"scripts", "commands"}
      /\ \A j \in Invalidations : invalidation[j].owed \subseteq Writers
  BY RedisAssumption
  DEF TypeOK, Invalidation, TagKeyOf, TagKeys, ReachInv
<1>2. CASE BeginInvalidate(i)
  <2>1. /\ invalidation'[i].pc = "begun"
        /\ invalidation'[i].tag = invalidation[i].tag
        /\ invalidation'[i].owed = Registered(invalidation[i].tag)
        /\ \A j \in Invalidations : j = i \/ invalidation'[j] = invalidation[j]
    BY <1>1, <1>2 DEF BeginInvalidate, TypeOK, Invalidation
  <2>2. UNCHANGED <<entries, members, writer, mode>>
    BY <1>2 DEF BeginInvalidate, redis, options
  <2>3. /\ \A w \in Writers : /\ By(w)' <=> By(w)
                              /\ UnderWay(w)' <=> UnderWay(w)
                              /\ Bookkeeps(w)' <=> Bookkeeps(w)
    BY <2>2 DEF By, UnderWay, Bookkeeps
  <2>4. Stages'  BY <1>1, <2>1, <2>2, <2>3 DEF Stages
  <2>5. RivalsKnown'  BY <2>2, <2>3 DEF ReachInv, RivalsKnown
  <2>6. Memberships'  BY <2>2, <2>3 DEF ReachInv, Memberships, Member
  <2>7. Deleting'  BY <2>1, <2>2, <2>3 DEF ReachInv, Deleting
  <2>8. ASSUME NEW w \in Registered(invalidation[i].tag)
        PROVE  /\ writer[w].pc \in Over /\ writer[w].stage = "addTags"
               /\ writer[w].left = {} /\ ~writer[w].raced
               /\ invalidation[i].tag \in TagsOf[w]
    BY <1>1 DEF Registered, Over, Stages
  <2>9. Owing'
    <3> SUFFICES ASSUME NEW j \in Invalidations, NEW v \in invalidation'[j].owed
                 PROVE  /\ writer[v].pc \in Over /\ writer[v].stage = "addTags"
                        /\ writer[v].left = {} /\ ~writer[v].raced
                        /\ invalidation'[j].tag \in TagsOf[v]
                        /\ invalidation'[j].pc = "done" => ~By(v)'
      BY <2>2 DEF Owing
    <3>1. CASE j = i  BY <2>1, <2>8, <3>1
    <3>2. CASE j # i  BY <1>1, <2>1, <2>3, <3>2 DEF ReachInv, Owing
    <3> QED  BY <3>1, <3>2
  <2> QED  BY <2>4, <2>5, <2>6, <2>7, <2>9 DEF ReachInv
<1>3. CASE InvalidateScript(i)
  <2>1. /\ invalidation'[i].pc = "done"
        /\ \A j \in Invalidations :
             /\ invalidation'[j].tag = invalidation[j].tag
             /\ invalidation'[j].owed = invalidation[j].owed
             /\ j = i \/ invalidation'[j] = invalidation[j]
    BY <1>1, <1>3 DEF InvalidateScript, TypeOK, Invalidation
  <2>2. UNCHANGED <<writer, mode>> /\ mode = "scripts"
    BY <1>3 DEF InvalidateScript, options
  <2>3. /\ members' = [members EXCEPT ![TagKeyOf(i)] = {}]
        /\ entries' = Erased(members[TagKeyOf(i)])
    BY <1>3 DEF InvalidateScript
  <2>4. /\ \A w \in Writers : /\ By(w)' => By(w) /\ KeyOf[w] \notin members[TagKeyOf(i)]
                              /\ UnderWay(w)' <=> UnderWay(w)
                              /\ Bookkeeps(w)' <=> Bookkeeps(w)
    BY <2>2, <2>3, RedisAssumption DEF By, UnderWay, Bookkeeps, Erased
  <2>5. Stages'  BY <1>1, <2>1, <2>2, <2>4 DEF Stages
  <2>6. RivalsKnown'  BY <2>2, <2>4 DEF ReachInv, RivalsKnown
  <2>7. Memberships'
    <3> SUFFICES ASSUME NEW v \in Writers, NEW t \in TagsOf[v],
                        writer[v].stage = "addTags", By(v)', ~writer[v].raced,
                        UnderWay(v) \/ writer[v].left = {}
                 PROVE  Member(v, t)'
      BY <2>2, <2>4 DEF Memberships
    <3>1. Member(v, t) /\ KeyOf[v] \notin members[TagKeyOf(i)]
      BY <2>4 DEF ReachInv, Memberships
    <3>2. <<t, "runtime">> \in TagKeys  BY RedisAssumption DEF TagKeys
    <3> QED  BY <2>2, <2>3, <3>1, <3>2 DEF Member, TypeOK
  <2>8. Deleting'
    BY <2>1, <2>2, <1>1 DEF Deleting, Stages
  <2>9. Owing'
    <3> SUFFICES ASSUME NEW j \in Invalidations, NEW v \in invalidation[j].owed,
                        v \in Writers
                 PROVE  /\ writer[v].pc \in Over /\ writer[v].stage = "addTags"
                        /\ writer[v].left = {} /\ ~writer[v].raced
                        /\ invalidation[j].tag \in TagsOf[v]
                        /\ invalidation'[j].pc = "done" => ~By(v)'
      BY <1>1, <2>1, <2>2 DEF Owing
    <3>1. /\ writer[v].pc \in Over /\ writer[v].stage = "addTags"
          /\ writer[v].left = {} /\ ~writer[v].raced
          /\ invalidation[j].tag \in TagsOf[v]
          /\ invalidation[j].pc = "done" => ~By(v)
      BY DEF ReachInv, Owing
    <3>2. ASSUME j = i, By(v)' PROVE FALSE
      <4>1. By(v) /\ KeyOf[v] \notin members[TagKeyOf(i)]  BY <2>4, <3>2
      <4>2. Member(v, invalidation[i].tag)
        BY <3>1, <3>2, <4>1 DEF ReachInv, Memberships
      <4> QED  BY <3>1, <4>1, <4>2 DEF Member, TagKeyOf
    <3>3. j # i => (invalidation'[j].pc = "done" => ~By(v)')
      BY <2>1, <2>4, <3>1
    <3> QED  BY <3>1, <3>2, <3>3
  <2> QED  BY <2>5, <2>6, <2>7, <2>8, <2>9 DEF ReachInv
<1>4. CASE ReadMembers(i)
  <2>1. /\ invalidation'[i].pc = "delete"
        /\ invalidation'[i].left = members[TagKeyOf(i)]
        /\ \A j \in Invalidations :
             /\ invalidation'[j].tag = invalidation[j].tag
             /\ invalidation'[j].owed = invalidation[j].owed
             /\ j = i \/ invalidation'[j] = invalidation[j]
    BY <1>1, <1>4 DEF ReadMembers, TypeOK, Invalidation
  <2>2. UNCHANGED <<entries, members, mode>> /\ mode = "commands"
    BY <1>4 DEF ReadMembers, redis, options
  <2> DEFINE hit(v) == UnderWay(v) /\ invalidation[i].tag \in TagsOf[v]
  <2>3. ASSUME NEW v \in Writers
        PROVE  /\ writer'[v].pc = writer[v].pc /\ writer'[v].stage = writer[v].stage
               /\ writer'[v].left = writer[v].left
               /\ hit(v) => writer'[v].raced
               /\ ~hit(v) => writer'[v].raced = writer[v].raced
               /\ ~writer'[v].raced => ~writer[v].raced
    <3>1. writer[v] \in Writer  BY DEF TypeOK
    <3>2. CASE hit(v)
      <4>1. writer'[v] = [writer[v] EXCEPT !.raced = TRUE]
        BY <1>4, <3>2 DEF ReadMembers
      <4> QED  BY <3>1, <3>2, <4>1 DEF Writer
    <3>3. CASE ~hit(v)
      <4>1. writer'[v] = writer[v]  BY <1>4, <3>3 DEF ReadMembers
      <4> QED  BY <3>3, <4>1
    <3> QED  BY <3>2, <3>3
  <2> HIDE DEF hit
  <2>4. /\ \A w \in Writers : /\ By(w)' <=> By(w)
                              /\ UnderWay(w)' <=> UnderWay(w)
                              /\ Bookkeeps(w)' <=> Bookkeeps(w)
    BY <2>2, <2>3 DEF By, UnderWay, Bookkeeps
  <2>5. Stages'  BY <1>1, <2>2, <2>3, <2>4 DEF Stages
  <2>6. RivalsKnown'  BY <2>3, <2>4 DEF ReachInv, RivalsKnown
  <2>7. Memberships'  BY <2>2, <2>3, <2>4 DEF ReachInv, Memberships, Member
  <2>8. Deleting'
    <3> SUFFICES ASSUME NEW j \in Invalidations, NEW v \in Writers,
                        invalidation'[j].pc = "delete",
                        invalidation'[j].tag \in TagsOf[v], ~writer'[v].raced
                 PROVE  /\ ~UnderWay(v)
                        /\ By(v) /\ writer[v].stage = "addTags" /\ writer[v].left = {}
                           => KeyOf[v] \in invalidation'[j].left
      BY <2>3, <2>4 DEF Deleting
    <3>1. CASE j # i
      BY <2>1, <2>3, <3>1 DEF ReachInv, Deleting
    <3>2. CASE j = i
      <4>1. ~UnderWay(v)  BY <2>1, <2>3, <3>2 DEF hit
      <4>2. ASSUME By(v), writer[v].stage = "addTags", writer[v].left = {}
            PROVE  KeyOf[v] \in members[TagKeyOf(i)]
        <5>1. Member(v, invalidation[i].tag)
          BY <2>1, <2>3, <3>2, <4>2 DEF ReachInv, Memberships
        <5> QED  BY <4>2, <5>1 DEF Member, TagKeyOf
      <4> QED  BY <2>1, <3>2, <4>1, <4>2
    <3> QED  BY <3>1, <3>2
  <2>9. Owing'
    <3> SUFFICES ASSUME NEW j \in Invalidations, NEW v \in invalidation[j].owed,
                        v \in Writers
                 PROVE  /\ writer'[v].pc \in Over /\ writer'[v].stage = "addTags"
                        /\ writer'[v].left = {} /\ ~writer'[v].raced
                        /\ invalidation[j].tag \in TagsOf[v]
                        /\ invalidation'[j].pc = "done" => ~By(v)'
      BY <1>1, <2>1 DEF Owing
    <3>1. ~UnderWay(v)
      BY DEF ReachInv, Owing, Over, UnderWay
    <3>2. invalidation'[j].pc = "done" => invalidation[j].pc = "done"
      BY <2>1
    <3> QED  BY <2>3, <2>4, <3>1, <3>2 DEF ReachInv, Owing, hit
  <2> QED  BY <2>5, <2>6, <2>7, <2>8, <2>9 DEF ReachInv
<1>5. ASSUME NEW B \in SUBSET Keys, DeleteMembers(i, B)
      PROVE  ReachInv'
  <2>1. /\ invalidation'[i].pc = "delete"
        /\ invalidation'[i].left = invalidation[i].left \ B
        /\ \A j \in Invalidations :
             /\ invalidation'[j].tag = invalidation[j].tag
             /\ invalidation'[j].owed = invalidation[j].owed
             /\ invalidation'[j].pc = invalidation[j].pc
             /\ j = i \/ invalidation'[j] = invalidation[j]
    BY <1>1, <1>5 DEF DeleteMembers, TypeOK, Invalidation
  <2>2. UNCHANGED <<members, writer, mode>> /\ entries' = Erased(B)
    BY <1>5 DEF DeleteMembers, options
  <2>3. \A w \in Writers : /\ By(w)' => By(w) /\ KeyOf[w] \notin B
                           /\ UnderWay(w)' <=> UnderWay(w)
                           /\ Bookkeeps(w)' <=> Bookkeeps(w)
    BY <2>2, RedisAssumption DEF By, UnderWay, Bookkeeps, Erased
  <2>4. Stages'  BY <1>1, <2>1, <2>2, <2>3 DEF Stages
  <2>5. RivalsKnown'  BY <2>2, <2>3 DEF ReachInv, RivalsKnown
  <2>6. Memberships'  BY <2>2, <2>3 DEF ReachInv, Memberships, Member
  <2>7. Deleting'
    BY <2>1, <2>2, <2>3 DEF ReachInv, Deleting
  <2>8. Owing'
    BY <1>1, <2>1, <2>2, <2>3 DEF ReachInv, Owing
  <2> QED  BY <2>4, <2>5, <2>6, <2>7, <2>8 DEF ReachInv
<1>6. CASE DeleteTagIndex(i)
  <2>1. /\ invalidation[i].pc = "delete" /\ invalidation[i].left = {}
        /\ invalidation'[i].pc = "done"
        /\ \A j \in Invalidations :
             /\ invalidation'[j].tag = invalidation[j].tag
             /\ invalidation'[j].owed = invalidation[j].owed
             /\ j = i \/ invalidation'[j] = invalidation[j]
    BY <1>1, <1>6 DEF DeleteTagIndex, TypeOK, Invalidation
  <2>2. /\ UNCHANGED <<entries, writer, mode>>
        /\ members' = [members EXCEPT ![TagKeyOf(i)] = {}]
    BY <1>6 DEF DeleteTagIndex, options
  <2>3. \A w \in Writers : /\ By(w)' <=> By(w)
                           /\ UnderWay(w)' <=> UnderWay(w)
                           /\ Bookkeeps(w)' <=> Bookkeeps(w)
    BY <2>2 DEF By, UnderWay, Bookkeeps
  <2>4. Stages'  BY <1>1, <2>1, <2>2, <2>3 DEF Stages
  <2>5. RivalsKnown'  BY <2>2, <2>3 DEF ReachInv, RivalsKnown
  <2>6. ASSUME NEW v \in Writers, ~writer[v].raced, By(v),
               writer[v].stage = "addTags", UnderWay(v) \/ writer[v].left = {}
        PROVE  invalidation[i].tag \notin TagsOf[v]
    BY <2>1, <2>6 DEF ReachInv, Deleting
  <2>7. Memberships'
    <3> SUFFICES ASSUME NEW v \in Writers, NEW t \in TagsOf[v],
                        writer[v].stage = "addTags", By(v), ~writer[v].raced,
                        UnderWay(v) \/ writer[v].left = {}
                 PROVE  Member(v, t)'
      BY <2>2, <2>3 DEF Memberships
    <3>1. Member(v, t) /\ t # invalidation[i].tag
      BY <2>6 DEF ReachInv, Memberships
    <3>2. <<t, "runtime">> \in TagKeys /\ <<t, "runtime">> # TagKeyOf(i)
      BY <3>1, RedisAssumption DEF TagKeys, TagKeyOf
    <3> QED  BY <2>2, <3>1, <3>2 DEF Member, TypeOK
  <2>8. Deleting'
    BY <2>1, <2>2, <2>3 DEF ReachInv, Deleting
  <2>9. Owing'
    <3> SUFFICES ASSUME NEW j \in Invalidations, NEW v \in invalidation[j].owed,
                        v \in Writers
                 PROVE  /\ writer[v].pc \in Over /\ writer[v].stage = "addTags"
                        /\ writer[v].left = {} /\ ~writer[v].raced
                        /\ invalidation[j].tag \in TagsOf[v]
                        /\ invalidation'[j].pc = "done" => ~By(v)
      BY <1>1, <2>1, <2>2, <2>3 DEF Owing
    <3>1. j = i => ~By(v)
      BY <2>6 DEF ReachInv, Owing
    <3> QED  BY <2>1, <3>1 DEF ReachInv, Owing
  <2> QED  BY <2>4, <2>5, <2>7, <2>8, <2>9 DEF ReachInv
<1> QED  BY <1>2, <1>3, <1>4, <1>5, <1>6 DEF Invalidate

LEMMA ReachNext ==
  ASSUME TypeOK, ReachInv, [Next]_vars
  PROVE  ReachInv'
<1>1. CASE Tick \/ UNCHANGED vars
  <2>1. Vanishes
    BY <1>1 DEF Tick, vars, redis, actors, options, Vanishes
  <2> QED  BY <2>1, VanishesKeeps
<1> QED  BY <1>1, WriteKeeps, InvalidateKeeps, EraseKeeps DEF Next

LEMMA ReachInit == Init => ReachInv
<1> SUFFICES ASSUME Init PROVE ReachInv  OBVIOUS
<1>1. \A w \in Writers : /\ writer[w].pc = "idle" /\ writer[w].stage = "write"
                         /\ ~writer[w].raced
  BY DEF Init
<1>2. \A i \in Invalidations : invalidation[i].pc = "idle"
                               /\ invalidation[i].owed = {}
  BY DEF Init
<1> QED  BY <1>1, <1>2 DEF ReachInv, Stages, RivalsKnown, By, UnderWay, Bookkeeps,
                           Memberships, Deleting, Owing, RevisionsBounded, Init

(* A registered write does not survive an invalidation of its tag that     *)
(* begins later: by one script always; by commands when no other write of  *)
(* its key, and no invalidation of its tags, ran beside it.                *)
THEOREM InvalidationsReach == Spec => []InvalidationReaches
<1>1. Init => TypeOK /\ RevisionsBounded /\ ReachInv
  BY InitType, ReachInit
<1>2. TypeOK /\ RevisionsBounded /\ ReachInv /\ [Next]_vars
        => (TypeOK /\ RevisionsBounded /\ ReachInv)'
  BY NextType, ReachNext
<1>3. TypeOK /\ ReachInv => InvalidationReaches
  <2> SUFFICES ASSUME TypeOK, ReachInv, NEW i \in Invalidations,
                      invalidation[i].pc = "done", NEW w \in invalidation[i].owed
               PROVE  Stored(KeyOf[w]) # None => Stored(KeyOf[w]).by # w
    BY DEF InvalidationReaches
  <2>1. ~By(w)  BY DEF ReachInv, Owing
  <2> QED  BY <2>1 DEF By, Stored, Live
<1> QED  BY <1>1, <1>2, <1>3, PTL DEF Spec

-----------------------------------------------------------------------------
(* Over scripts, and with the cache's namespace, what is stored is at any  *)
(* moment in its tag indexes.                                              *)
AllRegistered ==
  mode = "scripts" =>
    \A k \in Keys : entries[k] # None =>
      \A t \in TagsOf[entries[k].by] : k \in members[<<t, "runtime">>]

(* Over scripts, what a step can do to the entries and their indexes.      *)
Erases(S) == /\ entries' = Erased(S) /\ UNCHANGED <<now, members>>
             /\ reply' = [op |-> "none"]

Rests == UNCHANGED <<now, entries, members, reply>>

LEMMA ScriptSteps ==
  ASSUME TypeOK, ReachInv, mode = "scripts", [Next]_vars
  PROVE  /\ mode' = mode
         /\ \/ \E w \in Writers : SetEntryScript(w)
            \/ \E w \in Writers : \E t \in TagsOf[w] :
                 /\ EnterIndex(w, <<t, "runtime">>) /\ writer[w].stage = "addTags"
            \/ \E i \in Invalidations : InvalidateScript(i)
            \/ \E S \in SUBSET Keys : Erases(S)
            \/ Tick
            \/ Rests
<1>1. Stages  BY DEF ReachInv
<1>2. CASE Tick \/ UNCHANGED vars
  BY <1>2 DEF Tick, vars, options, redis, Rests
<1>3. ASSUME NEW w \in Writers, Write(w) \/ Fail(w)
      PROVE  /\ mode' = mode
             /\ \/ SetEntryScript(w)
                \/ \E t \in TagsOf[w] : /\ EnterIndex(w, <<t, "runtime">>)
                                         /\ writer[w].stage = "addTags"
                \/ Rests
  <2>1. ~SetCommand(w) /\ ~CompareCommand(w)
    BY <1>1 DEF SetCommand, CompareCommand, Stages, UnderWay, InWrite
  <2>2. CASE \/ Observe(w) \/ AcquireLock(w) \/ ReadRefs(w) \/ Unrefer(w)
             \/ ReferIndexes(w) \/ ExpireRefs(w) \/ EnterKeyIndex(w)
             \/ ReleaseLock(w) \/ DeleteLock(w) \/ Fail(w)
    BY <2>2 DEF Observe, AcquireLock, ReadRefs, Unrefer, ReferIndexes, ExpireRefs,
                EnterKeyIndex, ReleaseLock, DeleteLock, Fail, redis, options, Rests
  <2>3. CASE SetEntryScript(w)  BY <2>3 DEF SetEntryScript, options
  <2>4. ASSUME NEW m \in TagKeys, LeaveIndex(w, m)
        PROVE  FALSE
    BY <1>1, <2>4 DEF LeaveIndex, Stages, UnderWay, InWrite
  <2>5. ASSUME NEW m \in TagKeys, EnterIndex(w, m)
        PROVE  /\ mode' = mode
               /\ \E t \in TagsOf[w] : /\ EnterIndex(w, <<t, "runtime">>)
                                        /\ writer[w].stage = "addTags"
    <3>1. writer[w].stage = "addTags" /\ m \in IndexesOf(TagsOf[w], "runtime")
      BY <1>1, <2>5 DEF EnterIndex, Stages, UnderWay
    <3>2. PICK t \in TagsOf[w] : m = <<t, "runtime">>
      BY <3>1 DEF IndexesOf
    <3> QED  BY <2>5, <3>1, <3>2 DEF EnterIndex, options
  <2> QED  BY <1>3, <2>1, <2>2, <2>3, <2>4, <2>5 DEF Write
<1>4. ASSUME NEW i \in Invalidations, Invalidate(i)
      PROVE  mode' = mode /\ (InvalidateScript(i) \/ Rests)
  <2>1. \A B \in SUBSET Keys : ~DeleteMembers(i, B)
    BY <1>1 DEF DeleteMembers, Stages
  <2>2. ~DeleteTagIndex(i)  BY <1>1 DEF DeleteTagIndex, Stages
  <2>3. ~ReadMembers(i)  BY DEF ReadMembers
  <2>4. CASE BeginInvalidate(i)
    BY <2>4 DEF BeginInvalidate, redis, options, Rests
  <2>5. CASE InvalidateScript(i)
    BY <2>5 DEF InvalidateScript, options
  <2> QED  BY <1>4, <2>1, <2>2, <2>3, <2>4, <2>5 DEF Invalidate
<1>5. ASSUME NEW e \in Erasers, Erase(e)
      PROVE  mode' = mode /\ (Rests \/ \E S \in SUBSET Keys : Erases(S))
  <2>1. ASSUME NEW N, Drop(N), UNCHANGED <<now, options, members>>,
               reply' = [op |-> "none"]
        PROVE  mode' = mode /\ \E S \in SUBSET Keys : Erases(S)
    <3> DEFINE S == {k \in Keys : <<k, "entry">> \in N}
    <3>1. entries' = Erased(S)  BY <2>1 DEF Drop, Erased
    <3> QED  BY <2>1, <3>1 DEF Erases, options
  <2>2. ASSUME UNCHANGED <<now, options, redis, reply>>
        PROVE  mode' = mode /\ Rests
    BY <2>2 DEF Rests, options, redis
  <2>3. CASE LeaveKeyIndex(e)
    BY <2>3 DEF LeaveKeyIndex, Rests, options
  <2>4. CASE \E k \in Keys : Delete(e, k) \/ ScanKey(e, k)
    BY <2>1, <2>2, <2>4 DEF Delete, ScanKey
  <2>5. CASE \E S \in SUBSET Keys : BeginDeleteMany(e, S) \/ DeleteListed(e, S)
    BY <2>1, <2>2, <2>5 DEF BeginDeleteMany, DeleteListed
  <2>6. CASE BeginClear(e) \/ DeleteScanned(e)
    BY <2>1, <2>2, <2>6 DEF BeginClear, DeleteScanned
  <2> QED  BY <1>5, <2>3, <2>4, <2>5, <2>6 DEF Erase
<1> QED  BY <1>2, <1>3, <1>4, <1>5 DEF Next

(* The mode never changes.                                                 *)
LEMMA ModeStays ==
  ASSUME [Next]_vars PROVE mode' = mode
<1>1. CASE \E w \in Writers : Write(w) \/ Fail(w)
  BY <1>1 DEF Write, Fail, Observe, AcquireLock,
           SetEntryScript, CompareCommand, SetCommand, ReadRefs, Unrefer,
           LeaveIndex, EnterIndex, ReferIndexes, ExpireRefs, EnterKeyIndex,
           ReleaseLock, DeleteLock, options
<1>2. CASE \E i \in Invalidations : Invalidate(i)
  BY <1>2 DEF Invalidate, BeginInvalidate, InvalidateScript,
           ReadMembers, DeleteMembers, DeleteTagIndex, options
<1>3. CASE \E e \in Erasers : Erase(e)
  BY <1>3 DEF Erase, Delete, ScanKey, BeginDeleteMany, BeginClear,
           DeleteScanned, LeaveKeyIndex, DeleteListed, options
<1> QED  BY <1>1, <1>2, <1>3 DEF Next, Tick, vars, options

(* What the script writes of one key leaves the others alone.              *)
LEMMA ScriptWrites ==
  ASSUME TypeOK, NEW w \in Writers, SetEntryScript(w)
  PROVE  \/ ~Agrees(w) /\ UNCHANGED <<now, entries, members>>
         \/ /\ Agrees(w) /\ now' = now
            /\ entries' = [entries EXCEPT ![KeyOf[w]] = EntryOf(w)]
            /\ \A k \in Keys, m \in TagKeys :
                 k # KeyOf[w] => (k \in members'[m] <=> k \in members[m])
            /\ \A m \in IndexesOf(TagsOf[w], WriteSpace) : KeyOf[w] \in members'[m]
<1>1. CASE ~Agrees(w)  BY <1>1 DEF SetEntryScript
<1>2. CASE Agrees(w)
  <2>1. /\ entries' = [entries EXCEPT ![KeyOf[w]] = EntryOf(w)] /\ now' = now
        /\ members' = Moved(KeyOf[w], RefsOf(KeyOf[w]),
                            IndexesOf(TagsOf[w], WriteSpace))
    BY <1>2 DEF SetEntryScript
  <2>2. \A k \in Keys, m \in TagKeys :
           k # KeyOf[w] => (k \in members'[m] <=> k \in members[m])
    BY <2>1 DEF Moved
  <2>3. IndexesOf(TagsOf[w], WriteSpace) \subseteq TagKeys
    BY TagKeysTyped, RedisAssumption
  <2>4. \A m \in IndexesOf(TagsOf[w], WriteSpace) : KeyOf[w] \in members'[m]
    BY <2>1, <2>3 DEF Moved
  <2> QED  BY <1>2, <2>1, <2>2, <2>4
<1> QED  BY <1>1, <1>2

LEMMA RegisteredNext ==
  ASSUME Scoped, TypeOK, TypeOK', ReachInv, AllRegistered, [Next]_vars
  PROVE  AllRegistered'
<1> SUFFICES ASSUME mode = "scripts", NEW k \in Keys, entries'[k] # None,
                    NEW t \in TagsOf[entries'[k].by]
             PROVE  k \in members'[<<t, "runtime">>]
  BY ModeStays DEF AllRegistered
<1>1. entries'[k] = entries[k] => k \in members[<<t, "runtime">>]
  BY DEF AllRegistered
<1>2. entries'[k] \in Entry  BY DEF TypeOK
<1>3. t \in Tags /\ <<t, "runtime">> \in TagKeys
  BY <1>2, RedisAssumption DEF Entry, TagKeys
<1>4. ASSUME NEW w \in Writers, SetEntryScript(w)
      PROVE  k \in members'[<<t, "runtime">>]
  <2>1. CASE k = KeyOf[w] /\ Agrees(w)
    <3>1. entries'[k] = EntryOf(w)
      BY <1>4, <2>1, ScriptWrites DEF TypeOK
    <3>2. <<t, "runtime">> \in IndexesOf(TagsOf[w], WriteSpace)
      BY <3>1 DEF EntryOf, IndexesOf, WriteSpace
    <3> QED  BY <1>4, <2>1, <3>2, ScriptWrites
  <2>2. CASE ~(k = KeyOf[w] /\ Agrees(w))
    BY <1>1, <1>3, <1>4, <2>2, ScriptWrites DEF TypeOK
  <2> QED  BY <2>1, <2>2
<1>5. ASSUME NEW w \in Writers, NEW u \in TagsOf[w], EnterIndex(w, <<u, "runtime">>)
      PROVE  k \in members'[<<t, "runtime">>]
  BY <1>1, <1>3, <1>5, RedisAssumption DEF EnterIndex, TypeOK, TagKeys
<1>6. ASSUME NEW i \in Invalidations, InvalidateScript(i)
      PROVE  k \in members'[<<t, "runtime">>]
  <2>1. /\ entries'[k] = entries[k] /\ k \notin members[TagKeyOf(i)]
    BY <1>6 DEF InvalidateScript, Erased
  <2> QED  BY <1>1, <1>3, <1>6, <2>1 DEF InvalidateScript, TypeOK
<1>7. ASSUME NEW S \in SUBSET Keys, Erases(S)
      PROVE  k \in members'[<<t, "runtime">>]
  BY <1>1, <1>7 DEF Erases, Erased
<1>8. CASE Tick \/ Rests
  BY <1>1, <1>8 DEF Tick, redis, Rests
<1> QED  BY <1>4, <1>5, <1>6, <1>7, <1>8, ScriptSteps

(* A storage created with the namespace of the cache, whose client runs    *)
(* scripts, keeps each entry within the reach of invalidateTag.            *)
THEOREM RegisteredAlways == Scoped => (Spec => []AlwaysRegistered)
<1> SUFFICES ASSUME Scoped PROVE Spec => []AlwaysRegistered  OBVIOUS
<1>1. Init => TypeOK /\ RevisionsBounded /\ ReachInv /\ AllRegistered
  <2>1. Init => AllRegistered  BY DEF Init, AllRegistered
  <2> QED  BY <2>1, InitType, ReachInit
<1>2. TypeOK /\ RevisionsBounded /\ ReachInv /\ AllRegistered /\ [Next]_vars
        => (TypeOK /\ RevisionsBounded /\ ReachInv /\ AllRegistered)'
  BY NextType, ReachNext, RegisteredNext
<1>3. AllRegistered => AlwaysRegistered
  BY DEF AllRegistered, AlwaysRegistered, Stored, Live
<1> QED  BY <1>1, <1>2, <1>3, PTL DEF Spec

-----------------------------------------------------------------------------
(* Over scripts the storage keeps the contract of CacheStorage *)

(* What a caller can observe: the `stored` of the contract.                *)
View == [k \in Keys |->
    IF mode = "scripts" /\ Stored(k) # None
    THEN [rev |-> Stored(k).rev,
          tags |-> {t \in Tags : k \in members[<<t, "runtime">>]}]
    ELSE Absent]

Observable == [rev : 1..Cardinality(Writers), tags : SUBSET Tags]

ViewOK ==
  /\ View \in [Keys -> Observable \union {Absent}]
  /\ \A k \in Keys : View[k] = Absent <=> ~(mode = "scripts" /\ Stored(k) # None)

LEMMA ViewTyped == TypeOK => ViewOK
<1> SUFFICES ASSUME TypeOK PROVE ViewOK  OBVIOUS
<1>1. ASSUME NEW k \in Keys, Stored(k) # None
      PROVE  [rev |-> Stored(k).rev,
              tags |-> {t \in Tags : k \in members[<<t, "runtime">>]}] \in Observable
  BY <1>1 DEF TypeOK, Stored, Live, Entry, Observable
<1> QED  BY <1>1, AbsentAssumption DEF ViewOK, View, Observable

LEMMA ContractInit == Init => Contract!Init
<1> SUFFICES ASSUME Init PROVE Contract!Init  OBVIOUS
<1>1. \A k \in Keys : Stored(k) = None  BY DEF Init, Stored, Live
<1>2. reply = [op |-> "none"]  BY DEF Init
<1> QED  BY <1>1, <1>2 DEF Contract!Init, Contract!NoReply

LEMMA ContractExpires ==
  ASSUME TypeOK, TypeOK', mode = "scripts", mode' = mode, Tick
  PROVE  Contract!Expire
<1>1. ASSUME NEW k \in Keys PROVE View'[k] \in {View[k], Absent}
  <2>1. members' = members /\ entries' = entries /\ now' = now + 1 /\ now \in Nat
    BY DEF Tick, redis, TypeOK
  <2>2. Stored(k)' = None \/ Stored(k)' = Stored(k)
    <3>1. CASE entries[k] = None  BY <2>1, <3>1 DEF Stored, Live
    <3>2. CASE entries[k] # None
      <4>1. entries[k].until \in Nat  BY <3>2 DEF TypeOK, Entry
      <4> QED  BY <2>1, <4>1 DEF Stored, Live
    <3> QED  BY <3>1, <3>2
  <2> QED  BY <2>1, <2>2 DEF View
<1>2. View' \in [Keys -> Observable \union {Absent}]
  <2>1. ViewOK'  BY ViewTyped, PTL
  <2> QED  BY <2>1 DEF ViewOK
<1>3. reply' = reply  BY DEF Tick
<1> QED  BY <1>1, <1>2, <1>3
         DEF Contract!Expire, Contract!Shrinks, Contract!Visible, View, Observable

(* Entries erased are entries a caller deleted.                            *)
LEMMA ContractDeletes ==
  ASSUME NEW S \in SUBSET Keys, Erases(S), mode' = mode
  PROVE  Contract!Delete(S)
<1>1. \A k \in Keys : Stored(k)' = IF k \in S THEN None ELSE Stored(k)
  BY DEF Erases, Erased, Stored, Live
<1>2. \A k \in Keys : View'[k] = IF k \in S THEN Absent ELSE View[k]
  BY <1>1 DEF View, Erases
<1>3. View' = [k \in Keys |-> IF k \in S THEN Absent ELSE View[k]]
  BY <1>2 DEF View
<1> QED  BY <1>3 DEF Contract!Delete, Contract!Without, Contract!NoReply, View, Erases

LEMMA ContractInvalidates ==
  ASSUME TypeOK, NEW i \in Invalidations, InvalidateScript(i),
         NEW t, t = invalidation[i].tag
  PROVE  Contract!InvalidateTag(t)
<1> DEFINE S == members[<<t, "runtime">>]
<1>1. t \in Tags /\ <<t, "runtime">> \in TagKeys /\ S \in SUBSET Keys
  BY DEF TypeOK, Invalidation, TagKeys
<1>2. /\ mode = "scripts" /\ mode' = mode /\ now' = now
      /\ entries' = Erased(S)
      /\ members' = [members EXCEPT ![<<t, "runtime">>] = {}]
      /\ reply' = [op |-> "invalidateTag", tag |-> t]
  BY DEF InvalidateScript, options, TagKeyOf, Answered
<1>3. \A k \in Keys : Stored(k)' = IF k \in S THEN None ELSE Stored(k)
  BY <1>2 DEF Erased, Stored, Live
<1>4. ASSUME NEW k \in Keys
      PROVE  View'[k] = IF View[k] # Absent /\ t \in View[k].tags THEN Absent
                        ELSE View[k]
  <2>1. CASE View[k] = Absent
    <3>1. Stored(k) = None  BY <1>2, <2>1, ViewTyped DEF ViewOK
    <3> QED  BY <1>2, <1>3, <2>1, <3>1 DEF View
  <2>2. CASE View[k] # Absent
    <3>1. Stored(k) # None  BY <1>2, <2>2, ViewTyped DEF ViewOK
    <3>2. View[k] = [rev |-> Stored(k).rev,
                     tags |-> {u \in Tags : k \in members[<<u, "runtime">>]}]
      BY <1>2, <3>1 DEF View
    <3>3. t \in View[k].tags <=> k \in S  BY <1>1, <3>2
    <3>4. CASE k \in S  BY <1>3, <2>2, <3>3, <3>4 DEF View
    <3>5. CASE k \notin S
      <4>1. Stored(k)' = Stored(k)  BY <1>3, <3>5
      <4>2. {u \in Tags : k \in members'[<<u, "runtime">>]}
              = {u \in Tags : k \in members[<<u, "runtime">>]}
        BY <1>1, <1>2, <3>5 DEF TypeOK, TagKeys
      <4>3. View'[k] = View[k]
        BY <1>2, <3>1, <3>2, <4>1, <4>2 DEF View
      <4> QED  BY <3>3, <3>5, <4>3
    <3> QED  BY <3>4, <3>5
  <2> QED  BY <2>1, <2>2
<1>5. View' = [k \in Keys |->
        IF k \in {j \in Keys : View[j] # Absent /\ t \in View[j].tags}
        THEN Absent ELSE View[k]]
  BY <1>4 DEF View
<1>6. \A j \in Keys : View[j] =
        IF mode = "scripts" /\ Stored(j) # None
        THEN [rev |-> Stored(j).rev,
              tags |-> {u \in Tags : j \in members[<<u, "runtime">>]}]
        ELSE Absent
  BY DEF View
<1> QED  BY <1>2, <1>5 DEF Contract!InvalidateTag, Contract!Without, View

LEMMA ContractAddsTags ==
  ASSUME TypeOK, NEW w \in Writers, NEW t \in TagsOf[w], mode = "scripts",
         mode' = mode, writer[w].stage = "addTags", EnterIndex(w, <<t, "runtime">>)
  PROVE  Contract!AddTags(KeyOf[w], {t})
<1> DEFINE k == KeyOf[w]
           m == <<t, "runtime">>
<1>1. t \in Tags /\ m \in TagKeys /\ k \in Keys
  BY RedisAssumption DEF TagKeys
<1>2. /\ now' = now /\ entries' = entries /\ reply' = [op |-> "none"]
      /\ members' = [members EXCEPT ![m] = @ \union {k}]
  BY DEF EnterIndex
<1>3. \A j \in Keys : Stored(j)' = Stored(j)  BY <1>2 DEF Stored, Live
<1>4. ASSUME NEW j \in Keys
      PROVE  {u \in Tags : j \in members'[<<u, "runtime">>]} =
               {u \in Tags : j \in members[<<u, "runtime">>]}
               \union (IF j = k THEN {t} ELSE {})
  BY <1>1, <1>2 DEF TypeOK, TagKeys
<1> HIDE DEF k, m
<1>5. CASE View[k] = Absent
  <2>1. Stored(k) = None  BY <1>1, <1>5, ViewTyped DEF ViewOK
  <2>2. \A j \in Keys : View'[j] = View[j]
    BY <1>3, <1>4, <2>1 DEF View
  <2>3. View' = View  BY <2>2 DEF View
  <2> QED  BY <1>2, <1>5, <2>3 DEF Contract!AddTags, Contract!NoReply, View, k
<1>6. CASE View[k] # Absent
  <2>1. Stored(k) # None  BY <1>1, <1>6, ViewTyped DEF ViewOK
  <2>2. \A j \in Keys : View'[j] =
          IF j = k THEN [View[k] EXCEPT !.tags = @ \union {t}] ELSE View[j]
    BY <1>1, <1>3, <1>4, <2>1 DEF View
  <2>3. View' = [View EXCEPT ![k] = [View[k] EXCEPT !.tags = @ \union {t}]]
    BY <1>1, <2>2 DEF View
  <2> QED  BY <1>2, <1>6, <2>3 DEF Contract!AddTags, Contract!NoReply, View, k
<1> QED  BY <1>5, <1>6

LEMMA ContractWrites ==
  ASSUME TypeOK, RevisionsBounded, TypeOK', NEW w \in Writers, SetEntryScript(w)
  PROVE  \E e \in Contract!Visible :
           Contract!CompareAndSet(KeyOf[w], e, writer[w].seen)
<1> DEFINE k == KeyOf[w]
<1>1. /\ k \in Keys /\ now \in Nat /\ Ttl \in Nat \ {0}
      /\ writer[w].seen \in 0..Cardinality(Writers)
  BY RedisAssumption DEF TypeOK, Writer
<1>2. /\ mode = "scripts" /\ mode' = mode /\ now' = now
      /\ reply' = [op |-> "compareAndSet", key |-> k,
                   expected |-> writer[w].seen, written |-> Agrees(w)]
  BY DEF SetEntryScript, options, Answered
<1>3. Contract!Revision(k) = RevisionOf(k)
  <2>1. View[k] = Absent <=> Stored(k) = None
    BY <1>1, <1>2, ViewTyped DEF ViewOK
  <2>2. Stored(k) # None => View[k].rev = Stored(k).rev
    BY <1>1, <1>2 DEF View
  <2> QED  BY <2>1, <2>2 DEF Contract!Revision, RevisionOf, View
<1> HIDE DEF k
<1>4. CASE ~Agrees(w)
  <2>1. entries' = entries /\ members' = members
    BY <1>4, ScriptWrites
  <2>2. View' = View  BY <1>2, <2>1 DEF View, Stored, Live
  <2>3. Cardinality(Writers) \in Nat \ {0}
    BY FS_CardinalityType, FS_EmptySet, RedisAssumption
  <2>4. [rev |-> 1, tags |-> {}] \in Contract!Visible
    BY <2>3 DEF Contract!Visible
  <2>5. Contract!CompareAndSet(k, [rev |-> 1, tags |-> {}], writer[w].seen)
    BY <1>2, <1>3, <1>4, <2>2 DEF Contract!CompareAndSet, Agrees, View, k
  <2> QED  BY <2>4, <2>5 DEF k
<1>5. CASE Agrees(w)
  <2>1. /\ entries' = [entries EXCEPT ![k] = EntryOf(w)]
        /\ \A j \in Keys, m \in TagKeys :
             j # k => (j \in members'[m] <=> j \in members[m])
    BY <1>5, ScriptWrites DEF k
  <2>2. Stored(k)' # None
    <3>1. EntryOf(w).until = now + Ttl /\ entries'[k] = EntryOf(w)
      BY <1>1, <2>1 DEF EntryOf, TypeOK
    <3>2. EntryOf(w) # None
      <4>1. w \notin Past  BY DEF SetEntryScript, Past
      <4> QED  BY <4>1, EntryOfTyped, NoneAssumption
    <3> QED  BY <1>1, <1>2, <3>1, <3>2 DEF Stored, Live
  <2>3. ViewOK'  BY ViewTyped, PTL
  <2>4. View'[k] \in Observable
    BY <1>1, <1>2, <2>2, <2>3 DEF ViewOK
  <2>5. \A j \in Keys \ {k} : View'[j] = View[j]
    <3> SUFFICES ASSUME NEW j \in Keys, j # k PROVE View'[j] = View[j]
      OBVIOUS
    <3>1. Stored(j)' = Stored(j)  BY <1>2, <2>1 DEF Stored, Live, TypeOK
    <3>2. {t \in Tags : j \in members'[<<t, "runtime">>]}
            = {t \in Tags : j \in members[<<t, "runtime">>]}
      BY <2>1 DEF TagKeys
    <3> QED  BY <1>2, <3>1, <3>2 DEF View
  <2>6. View' \in [Keys -> Observable \union {Absent}]
    BY <2>3 DEF ViewOK
  <2>7. PICK e : e = View'[k]  OBVIOUS
  <2>8. Contract!Put(k, e)
    BY <2>5, <2>6, <2>7
    DEF Contract!Put, Contract!Shrinks, Contract!Visible, View, Observable
  <2>9. RevisionOf(k) = writer[w].seen  BY <1>5 DEF Agrees, k
  <2>10. Contract!CompareAndSet(k, e, writer[w].seen)
    BY <1>2, <1>3, <1>5, <2>8, <2>9 DEF Contract!CompareAndSet
  <2>11. e \in Contract!Visible
    BY <2>4, <2>7 DEF Contract!Visible, Observable
  <2> QED  BY <2>10, <2>11 DEF k
<1> QED  BY <1>4, <1>5

(* Over commands nothing is promised: the view is empty, and no answer is  *)
(* recorded.                                                               *)
LEMMA CommandsAnswerNothing ==
  ASSUME TypeOK, mode = "commands", [Next]_vars
  PROVE  reply' \in {reply, [op |-> "none"]}
<1>1. ASSUME NEW w \in Writers, Write(w) \/ Fail(w)
      PROVE  reply' \in {reply, [op |-> "none"]}
  BY <1>1
  DEF Write, Fail, Observe, AcquireLock, SetEntryScript, CompareCommand,
      SetCommand, ReadRefs, Unrefer, LeaveIndex, EnterIndex, ReferIndexes,
      ExpireRefs, EnterKeyIndex, ReleaseLock, DeleteLock
<1>2. ASSUME NEW i \in Invalidations, Invalidate(i)
      PROVE  reply' \in {reply, [op |-> "none"]}
  BY <1>2 DEF Invalidate, BeginInvalidate, InvalidateScript, ReadMembers,
              DeleteMembers, DeleteTagIndex
<1>3. ASSUME NEW e \in Erasers, Erase(e)
      PROVE  reply' \in {reply, [op |-> "none"]}
  BY <1>3 DEF Erase, Delete, ScanKey, BeginDeleteMany, BeginClear,
              DeleteScanned, LeaveKeyIndex, DeleteListed
<1> QED  BY <1>1, <1>2, <1>3 DEF Next, Tick, vars

LEMMA ContractNext ==
  ASSUME TypeOK, RevisionsBounded, TypeOK', ReachInv, [Next]_vars
  PROVE  [Contract!Next]_Contract!vars
<1>1. mode' = mode /\ mode \in {"scripts", "commands"}
  BY ModeStays, RedisAssumption DEF TypeOK
<1>2. CASE mode = "scripts"
  <2>1. ASSUME NEW w \in Writers, SetEntryScript(w)
        PROVE  Contract!Next
    <3>1. PICK e \in Contract!Visible :
            Contract!CompareAndSet(KeyOf[w], e, writer[w].seen)
      BY <2>1, ContractWrites
    <3>2. KeyOf[w] \in Keys /\ writer[w].seen \in 1..Cardinality(Writers) \union {0}
      BY FS_CardinalityType, RedisAssumption DEF TypeOK, Writer
    <3> QED  BY <3>1, <3>2 DEF Contract!Next
  <2>2. ASSUME NEW w \in Writers, NEW t \in TagsOf[w],
               EnterIndex(w, <<t, "runtime">>), writer[w].stage = "addTags"
        PROVE  Contract!Next
    <3>1. KeyOf[w] \in Keys /\ {t} \in SUBSET Tags  BY RedisAssumption
    <3>2. Contract!AddTags(KeyOf[w], {t})  BY <1>1, <1>2, <2>2, ContractAddsTags
    <3> QED  BY <3>1, <3>2 DEF Contract!Next
  <2>3. ASSUME NEW i \in Invalidations, InvalidateScript(i)
        PROVE  Contract!Next
    <3>1. invalidation[i].tag \in Tags  BY DEF TypeOK, Invalidation
    <3>2. PICK t \in Tags : t = invalidation[i].tag  BY <3>1
    <3>3. Contract!InvalidateTag(t)  BY <2>3, <3>2, ContractInvalidates
    <3> QED  BY <3>3 DEF Contract!Next
  <2>4. ASSUME NEW S \in SUBSET Keys, Erases(S)
        PROVE  Contract!Next
    BY <1>1, <2>4, ContractDeletes DEF Contract!Next
  <2>5. CASE Tick
    BY <1>1, <1>2, <2>5, ContractExpires DEF Contract!Next
  <2>6. CASE Rests
    <3>1. View' = View /\ reply' = reply
      BY <1>1, <2>6 DEF Rests, View, Stored, Live
    <3> QED  BY <3>1 DEF Contract!vars, View
  <2> QED  BY <1>2, <2>1, <2>2, <2>3, <2>4, <2>5, <2>6, ScriptSteps
<1>3. CASE mode = "commands"
  <2>1. View' = View /\ View = [k \in Keys |-> Absent]
    BY <1>1, <1>3 DEF View
  <2>2. CASE reply' = reply
    BY <2>1, <2>2 DEF Contract!vars, View
  <2>3. CASE reply' = [op |-> "none"]
    <3>1. Contract!Delete({})
      BY <2>1, <2>3 DEF Contract!Delete, Contract!Without, Contract!NoReply, View
    <3> QED  BY <3>1 DEF Contract!Next
  <2> QED  BY <1>3, <2>2, <2>3, CommandsAnswerNothing
<1> QED  BY <1>1, <1>2, <1>3

(* The Redis storage over scripts implements the abstract CacheStorage:    *)
(* each command is one of its operations, or changes nothing a caller sees.*)
THEOREM ContractKept == Spec => KeepsContract
<1>1. Init => TypeOK /\ RevisionsBounded /\ ReachInv /\ Contract!Init
  BY InitType, ReachInit, ContractInit
<1>2. TypeOK /\ RevisionsBounded /\ ReachInv /\ [Next]_vars
        => (TypeOK /\ RevisionsBounded /\ ReachInv)'
  BY NextType, ReachNext
<1>3. TypeOK /\ RevisionsBounded /\ TypeOK' /\ ReachInv /\ [Next]_vars
        => [Contract!Next]_Contract!vars
  BY ContractNext
<1> QED  BY <1>1, <1>2, <1>3, PTL DEF Spec, KeepsContract, Contract!Spec

-----------------------------------------------------------------------------
(* clear() *)

(* What is stored is in the key index, if there is one, unless an eraser   *)
(* has taken it out since.                                                 *)
Indexed ==
  useKeyIndex => \A w \in Writers :
    writer[w].stage = "addTags" /\ By(w) /\ ~writer[w].unindexed => KeyOf[w] \in index

StoredBy(w) == Stored(KeyOf[w]) # None /\ Stored(KeyOf[w]).by = w

(* A clear has what it owes still before it.                               *)
Clearing ==
  \A e \in Erasers :
    /\ eraser[e].pc = "idle" => eraser[e].owed = {}
    /\ \A w \in eraser[e].owed :
         /\ writer[w].stage = "addTags"
         /\ StoredBy(w) =>
              \/ /\ eraser[e].pc = "scan"
                 /\ \/ KeyOf[w] \in eraser[e].left
                    \/ <<KeyOf[w], "entry">> \in eraser[e].names
              \/ eraser[e].pc = "delete" /\ KeyOf[w] \in eraser[e].left

LEMMA CompareFields ==
  ASSUME TypeOK, NEW v \in Writers, CompareCommand(v), Agrees(v), NEW w \in Writers
  PROVE  /\ writer'[w].unindexed = writer[w].unindexed
         /\ writer'[w].stage = writer[w].stage
<1> DEFINE b == \/ Rivals(v) # {}
                \/ \E i \in Invalidations : /\ invalidation[i].pc = "delete"
                                            /\ invalidation[i].tag \in TagsOf[v]
           next(u) == IF u = v THEN [writer[v] EXCEPT !.pc = "set", !.raced = b]
                      ELSE IF u \in Rivals(v) THEN [writer[u] EXCEPT !.raced = TRUE]
                      ELSE writer[u]
<1>1. writer' = [u \in Writers |-> next(u)]  BY DEF CompareCommand
<1> HIDE DEF b
<1>2. writer[w] \in Writer  BY DEF TypeOK
<1>3. writer'[w] = next(w)  BY <1>1
<1> QED  BY <1>2, <1>3 DEF Writer

(* The step of a writer forgets no history.                                *)
LEMMA UnindexedStays ==
  ASSUME TypeOK, NEW v \in Writers, Write(v) \/ Fail(v), NEW w \in Writers
  PROVE  writer'[w].unindexed = writer[w].unindexed
<1>1. writer[w] \in Writer /\ writer[v] \in Writer  BY DEF TypeOK
<1>2. CASE \E m \in TagKeys : LeaveIndex(v, m) \/ EnterIndex(v, m)
  BY <1>1, <1>2 DEF LeaveIndex, EnterIndex, TypeOK, Writer
<1>3. CASE BeginAddTags(v) \/ BeginRegister(v)
  <2>1. CASE BeginAddTags(v)
    <3> DEFINE p == IF TagsOf[v] = {} THEN Leaves(v) ELSE "sadd"
    <3>1. writer' = [writer EXCEPT ![v] =
            [writer[v] EXCEPT !.stage = "addTags", !.pc = p,
                              !.left = IndexesOf(TagsOf[v], "runtime")]]
      BY <2>1 DEF BeginAddTags
    <3> HIDE DEF p
    <3> QED  BY <1>1, <3>1 DEF TypeOK, Writer
  <2>2. CASE BeginRegister(v)
    <3> DEFINE p == IF TagsOf[v] # {} THEN "sadd" ELSE IF useKeyIndex THEN "index"
                    ELSE Leaves(v)
    <3>1. writer' = [writer EXCEPT ![v] =
            [writer[v] EXCEPT !.pc = p, !.left = IndexesOf(TagsOf[v], WriteSpace)]]
      BY <2>2 DEF BeginRegister
    <3> HIDE DEF p
    <3> QED  BY <1>1, <3>1 DEF TypeOK, Writer
  <2> QED  BY <1>3, <2>1, <2>2
<1>4. ASSUME NEW p, Becomes(v, p)
      PROVE  writer'[w].unindexed = writer[w].unindexed
  BY <1>1, <1>4 DEF Becomes, TypeOK, Writer
<1>5. CASE CompareCommand(v) /\ Agrees(v)
  BY <1>5, CompareFields
<1>6. CASE Observe(v) \/ AcquireLock(v) \/ ReleaseLock(v) \/ DeleteLock(v)
  <2>1. CASE Observe(v)  BY <1>1, <2>1 DEF Observe, TypeOK, Writer
  <2>2. CASE AcquireLock(v)
    BY <1>1, <1>4, <2>2 DEF AcquireLock, TypeOK, Writer
  <2>3. CASE ReleaseLock(v) \/ DeleteLock(v)
    BY <1>1, <1>4, <2>3 DEF ReleaseLock, DeleteLock, Unlocked, TypeOK, Writer
  <2> QED  BY <1>6, <2>1, <2>2, <2>3
<1>7. CASE ReadRefs(v)
  BY <1>1, <1>3, <1>7 DEF ReadRefs, TypeOK, Writer
<1>8. CASE \/ SetEntryScript(v) \/ CompareCommand(v) \/ SetCommand(v) \/ Unrefer(v)
           \/ ReferIndexes(v) \/ ExpireRefs(v) \/ EnterKeyIndex(v) \/ Fail(v)
  BY <1>3, <1>4, <1>5, <1>8
  DEF SetEntryScript, CompareCommand, SetCommand, Unrefer, ReferIndexes,
      ExpireRefs, EnterKeyIndex, Fail
<1> QED  BY <1>2, <1>6, <1>7, <1>8 DEF Write

(* A writer that has come to addTags stays there, and stores no more.      *)
StagesStay ==
  /\ UNCHANGED <<now, useKeyIndex, eraser>> /\ index \subseteq index'
  /\ \A w \in Writers : writer[w].stage = "addTags" =>
       /\ writer'[w].stage = "addTags"
       /\ By(w)' => entries'[KeyOf[w]] = entries[KeyOf[w]]
  /\ \A w \in Writers :
       writer[w].stage # "addTags" /\ writer'[w].stage = "addTags" /\ useKeyIndex
         => KeyOf[w] \in index'

LEMMA StageStays ==
  ASSUME TypeOK, ReachInv, NEW v \in Writers, Write(v) \/ Fail(v)
  PROVE  StagesStay
<1>1. UNCHANGED <<now, useKeyIndex, eraser>> /\ index \subseteq index'
  BY DEF Write, Fail, Observe, AcquireLock, SetEntryScript, CompareCommand,
         SetCommand, ReadRefs, Unrefer, LeaveIndex, EnterIndex, ReferIndexes,
         ExpireRefs, EnterKeyIndex, ReleaseLock, DeleteLock, redis, options
<1>2. ASSUME Walks(v) PROVE \A w \in Writers :
              writer'[w].stage = writer[w].stage /\ entries' = entries
  BY <1>2 DEF Walks, Alone
<1>3. ASSUME Turns(v), useKeyIndex => KeyOf[v] \in index',
             \A k \in Keys : entries'[k] = entries[k] \/ entries'[k].by = v
      PROVE  /\ \A w \in Writers : writer[w].stage = "addTags" =>
                  /\ writer'[w].stage = "addTags"
                  /\ By(w)' => entries'[KeyOf[w]] = entries[KeyOf[w]]
             /\ \A w \in Writers :
                  writer[w].stage # "addTags" /\ writer'[w].stage = "addTags"
                  /\ useKeyIndex => KeyOf[w] \in index'
  BY <1>3, RedisAssumption DEF Turns, Alone, By
<1>4. Stages  BY DEF ReachInv
<1>5. CASE SetEntryScript(v) /\ Agrees(v)
  <2>1. writer[v].stage = "write" /\ writer[v].pc \notin Over
    BY <1>4, <1>5 DEF SetEntryScript, Stages, InWrite, Over
  <2>2. Turns(v)
    BY <1>5, <2>1, BeginAddTagsTurns DEF SetEntryScript, options
  <2>3. useKeyIndex => KeyOf[v] \in index'  BY <1>5 DEF SetEntryScript
  <2>4. \A k \in Keys : entries'[k] = entries[k] \/ entries'[k].by = v
    BY <1>5 DEF SetEntryScript, EntryOf, TypeOK
  <2> QED  BY <1>1, <1>3, <2>2, <2>3, <2>4 DEF StagesStay
<1>6. CASE \/ EnterKeyIndex(v)
           \/ ExpireRefs(v) /\ writer[v].stage # "addTags" /\ ~useKeyIndex
  <2>1. writer[v].stage = "write" /\ writer[v].pc \notin Over
    BY <1>4, <1>6 DEF EnterKeyIndex, ExpireRefs, Stages, InWrite, Over, TypeOK, Writer
  <2>2. Turns(v) /\ entries' = entries
    BY <1>6, <2>1, BeginAddTagsTurns DEF EnterKeyIndex, ExpireRefs, options
  <2>3. useKeyIndex => KeyOf[v] \in index'  BY <1>6 DEF EnterKeyIndex
  <2> QED  BY <1>1, <1>3, <2>2, <2>3 DEF StagesStay
<1>7. CASE SetCommand(v)
  <2>1. \A w \in Writers : writer'[w].stage = writer[w].stage
    BY <1>7 DEF SetCommand, Becomes, TypeOK, Writer
  <2>2. \A k \in Keys : entries'[k] = entries[k] \/ entries'[k].by = v
    BY <1>7 DEF SetCommand, EntryOf, TypeOK
  <2>3. writer[v].stage = "write"
    BY <1>4, <1>7 DEF SetCommand, Stages, InWrite
  <2> QED  BY <1>1, <2>1, <2>2, <2>3, RedisAssumption DEF By, StagesStay
<1>8. CASE CompareCommand(v) /\ Agrees(v)
  <2>1. \A w \in Writers : writer'[w].stage = writer[w].stage
    BY <1>8, CompareFields
  <2> QED  BY <1>1, <1>8, <2>1 DEF CompareCommand, redis, StagesStay
<1>9. CASE \E m \in TagKeys : LeaveIndex(v, m) \/ EnterIndex(v, m)
  <2>1. \A w \in Writers : writer'[w].stage = writer[w].stage
    BY <1>9 DEF LeaveIndex, EnterIndex, TypeOK, Writer
  <2> QED  BY <1>1, <1>9, <2>1 DEF LeaveIndex, EnterIndex, StagesStay
<1>10. CASE Walks(v)  BY <1>1, <1>2, <1>10 DEF StagesStay
<1>11. CASE \/ Observe(v) \/ AcquireLock(v) \/ ReleaseLock(v) \/ DeleteLock(v)
            \/ Fail(v)
            \/ (SetEntryScript(v) \/ CompareCommand(v)) /\ ~Agrees(v)
  BY <1>10, <1>11, LockWalks
<1>12. CASE \/ ReadRefs(v) \/ Unrefer(v) \/ ReferIndexes(v)
            \/ ExpireRefs(v) /\ (writer[v].stage = "addTags" \/ useKeyIndex)
  BY <1>10, <1>12, BookkeepingWalks
<1>13. CASE SetEntryScript(v) \/ CompareCommand(v)
  BY <1>5, <1>8, <1>11, <1>13
<1>14. CASE ExpireRefs(v)
  BY <1>6, <1>12, <1>14
<1>15. CASE EnterKeyIndex(v)  BY <1>6, <1>15
<1>16. CASE Observe(v) \/ AcquireLock(v) \/ ReleaseLock(v) \/ DeleteLock(v) \/ Fail(v)
  BY <1>11, <1>16
<1>17. CASE ReadRefs(v) \/ Unrefer(v) \/ ReferIndexes(v)
  BY <1>12, <1>17
<1> QED
  BY <1>7, <1>9, <1>13, <1>14, <1>15, <1>16, <1>17 DEF Write

LEMMA ClearWrite ==
  ASSUME TypeOK, ReachInv, Indexed, Clearing,
         NEW v \in Writers, Write(v) \/ Fail(v)
  PROVE  Indexed' /\ Clearing'
<1>1. \A w \in Writers : writer[w].stage = "addTags" =>
        /\ By(w)' => By(w) /\ entries'[KeyOf[w]] = entries[KeyOf[w]]
        /\ StoredBy(w)' => StoredBy(w)
  BY StageStays DEF StagesStay, By, StoredBy, Stored, Live
<1>2. Indexed'
  <2> SUFFICES ASSUME useKeyIndex, NEW w \in Writers, writer'[w].stage = "addTags",
                      By(w)', ~writer[w].unindexed
               PROVE  KeyOf[w] \in index'
    BY StageStays, UnindexedStays DEF StagesStay, Indexed
  <2>1. CASE writer[w].stage = "addTags"
    BY <1>1, <2>1, StageStays DEF StagesStay, Indexed
  <2>2. CASE writer[w].stage # "addTags"
    BY <2>2, StageStays DEF StagesStay
  <2> QED  BY <2>1, <2>2
<1>3. Clearing'
  <2>1. \A e \in Erasers : eraser[e].owed \subseteq Writers
    BY DEF TypeOK, Eraser
  <2> QED  BY <1>1, <2>1, StageStays DEF StagesStay, Clearing
<1> QED  BY <1>2, <1>3

(* Entries vanish or expire, and nothing else changes that matters here.   *)
LEMMA ClearVanishes ==
  ASSUME TypeOK, Indexed, Clearing,
         UNCHANGED <<useKeyIndex, index, eraser>>,
         now' \in Nat, now' >= now,
         \A w \in Writers : /\ writer'[w].stage = writer[w].stage
                            /\ writer'[w].unindexed = writer[w].unindexed,
         \A k \in Keys : entries'[k] \in {entries[k], None}
  PROVE  Indexed' /\ Clearing'
<1>1. ASSUME NEW w \in Writers
      PROVE  (By(w)' => By(w)) /\ (StoredBy(w)' => StoredBy(w))
  <2>1. KeyOf[w] \in Keys /\ now \in Nat  BY RedisAssumption DEF TypeOK
  <2>2. entries[KeyOf[w]] # None => entries[KeyOf[w]].until \in Nat
    BY <2>1 DEF TypeOK, Entry
  <2> QED  BY <2>1, <2>2 DEF By, StoredBy, Stored, Live
<1>2. \A e \in Erasers : eraser[e].owed \subseteq Writers
  BY DEF TypeOK, Eraser
<1> QED  BY <1>1, <1>2 DEF Indexed, Clearing

LEMMA ClearInvalidate ==
  ASSUME TypeOK, Indexed, Clearing, NEW i \in Invalidations, Invalidate(i)
  PROVE  Indexed' /\ Clearing'
<1>1. UNCHANGED <<now, useKeyIndex, index, eraser>>
  BY DEF Invalidate, BeginInvalidate, InvalidateScript, ReadMembers, DeleteMembers,
         DeleteTagIndex, redis, options
<1>2. ASSUME NEW w \in Writers
      PROVE  /\ writer'[w].stage = writer[w].stage
             /\ writer'[w].unindexed = writer[w].unindexed
  <2>1. writer[w] \in Writer  BY DEF TypeOK
  <2>2. CASE ReadMembers(i)  BY <2>1, <2>2 DEF ReadMembers, Writer
  <2>3. CASE ~ReadMembers(i)
    BY <2>3 DEF Invalidate, BeginInvalidate, InvalidateScript, DeleteMembers,
                DeleteTagIndex
  <2> QED  BY <2>2, <2>3
<1>3. \A k \in Keys : entries'[k] \in {entries[k], None}
  BY DEF Invalidate, BeginInvalidate, InvalidateScript, ReadMembers, DeleteMembers,
         DeleteTagIndex, redis, Erased
<1> QED  BY <1>1, <1>2, <1>3, ClearVanishes DEF TypeOK

(* An eraser changes itself alone, and what it owes when it begins.        *)
LEMMA ClearErase ==
  ASSUME TypeOK, Indexed, Clearing, NEW e \in Erasers, Erase(e)
  PROVE  Indexed' /\ Clearing'
<1>1. eraser[e] \in Eraser /\ now \in Nat
      /\ \A f \in Erasers : eraser[f].owed \subseteq Writers
  BY DEF TypeOK, Eraser
<1>2. /\ now' = now /\ useKeyIndex' = useKeyIndex
      /\ \A f \in Erasers : f = e \/ eraser'[f] = eraser[f]
  BY DEF Erase, Delete, ScanKey, BeginDeleteMany, BeginClear, DeleteScanned,
         LeaveKeyIndex, DeleteListed, redis, options, TypeOK
<1>3. ASSUME NEW w \in Writers
      PROVE  /\ writer'[w].stage = writer[w].stage
             /\ ~writer'[w].unindexed => ~writer[w].unindexed
             /\ By(w)' => By(w) /\ entries'[KeyOf[w]] = entries[KeyOf[w]]
             /\ StoredBy(w)' => StoredBy(w)
  <2>1. writer[w] \in Writer /\ KeyOf[w] \in Keys
    BY RedisAssumption DEF TypeOK
  <2>2. /\ writer'[w].stage = writer[w].stage
        /\ ~writer'[w].unindexed => ~writer[w].unindexed
    <3>1. CASE LeaveKeyIndex(e)
      BY <2>1, <3>1 DEF LeaveKeyIndex, Writer
    <3>2. CASE ~LeaveKeyIndex(e)
      BY <3>2 DEF Erase, Delete, ScanKey, BeginDeleteMany, BeginClear,
                  DeleteScanned, DeleteListed
    <3> QED  BY <3>1, <3>2
  <2>3. entries'[KeyOf[w]] \in {entries[KeyOf[w]], None}
    <3>1. entries' = entries \/ \E N : Drop(N)
      <4>1. CASE \E k \in Keys : Delete(e, k) \/ ScanKey(e, k)
        BY <4>1 DEF Delete, ScanKey, redis
      <4>2. CASE \E S \in SUBSET Keys : BeginDeleteMany(e, S) \/ DeleteListed(e, S)
        BY <4>2 DEF BeginDeleteMany, DeleteListed, redis
      <4>3. CASE BeginClear(e) \/ DeleteScanned(e) \/ LeaveKeyIndex(e)
        BY <4>3 DEF BeginClear, DeleteScanned, LeaveKeyIndex, redis
      <4> QED  BY <4>1, <4>2, <4>3 DEF Erase
    <3> QED  BY <2>1, <3>1, DropTyped
  <2> QED  BY <1>2, <2>2, <2>3 DEF By, StoredBy, Stored, Live
<1>4. Indexed'
  <2> SUFFICES ASSUME useKeyIndex, NEW w \in Writers, writer[w].stage = "addTags",
                      By(w), ~writer'[w].unindexed
               PROVE  KeyOf[w] \in index'
    BY <1>2, <1>3 DEF Indexed
  <2>1. KeyOf[w] \in index  BY <1>3 DEF Indexed
  <2>2. CASE LeaveKeyIndex(e)
    <3>1. KeyOf[w] \notin eraser[e].erased
      <4>1. SUFFICES ASSUME KeyOf[w] \in eraser[e].erased PROVE FALSE  OBVIOUS
      <4>2. writer'[w] = [writer[w] EXCEPT !.unindexed = TRUE]
        BY <2>2, <4>1 DEF LeaveKeyIndex
      <4> QED  BY <4>2 DEF TypeOK, Writer
    <3> QED  BY <2>1, <2>2, <3>1 DEF LeaveKeyIndex
  <2>3. CASE ~LeaveKeyIndex(e)
    BY <2>1, <2>3 DEF Erase, Delete, ScanKey, BeginDeleteMany, BeginClear,
                      DeleteScanned, DeleteListed, redis
  <2> QED  BY <2>2, <2>3
<1> DEFINE Before(w) ==
      \/ /\ eraser[e].pc = "scan"
         /\ \/ KeyOf[w] \in eraser[e].left
            \/ <<KeyOf[w], "entry">> \in eraser[e].names
      \/ eraser[e].pc = "delete" /\ KeyOf[w] \in eraser[e].left
<1>5. ASSUME NEW w \in eraser'[e].owed
      PROVE  /\ eraser'[e].pc # "idle" /\ w \in Writers
             /\ writer[w].stage = "addTags" /\ (StoredBy(w)' => Before(w)')
  <2>1. /\ \A x \in eraser[e].owed : /\ writer[x].stage = "addTags" /\ x \in Writers
                                     /\ StoredBy(x) => Before(x)
                                     /\ eraser[e].pc # "idle"
    BY <1>1 DEF Clearing
  <2>2. CASE eraser[e].pc = "idle"
    <3>1. eraser[e].owed = {}  BY <2>2 DEF Clearing
    <3>2. BeginClear(e)
      <4>1. CASE \E k \in Keys : Delete(e, k) \/ ScanKey(e, k)
        BY <1>1, <1>5, <2>2, <3>1, <4>1 DEF Delete, ScanKey, TypeOK, Eraser
      <4>2. CASE \E S \in SUBSET Keys : BeginDeleteMany(e, S) \/ DeleteListed(e, S)
        BY <1>1, <1>5, <2>2, <3>1, <4>2 DEF BeginDeleteMany, DeleteListed, TypeOK, Eraser
      <4>3. CASE DeleteScanned(e) \/ LeaveKeyIndex(e)
        BY <2>2, <4>3 DEF DeleteScanned, LeaveKeyIndex
      <4> QED  BY <4>1, <4>2, <4>3 DEF Erase
    <3>3. /\ w \in Present /\ entries' = entries
          /\ eraser'[e].pc = IF ~useKeyIndex THEN "scan"
                             ELSE IF index = {} THEN "done" ELSE "delete"
          /\ eraser'[e].left = IF useKeyIndex THEN index ELSE Keys
      BY <1>1, <1>5, <3>2 DEF BeginClear, TypeOK, Eraser, redis
    <3>4. /\ w \in Writers /\ KeyOf[w] \in Keys /\ writer[w].stage = "addTags"
          /\ useKeyIndex => KeyOf[w] \in index
      BY <3>3, RedisAssumption DEF Present, Indexed, By, Stored, Live
    <3> QED  BY <3>3, <3>4
  <2>3. CASE eraser[e].pc # "idle"
    <3>1. eraser'[e].owed = eraser[e].owed /\ eraser'[e].pc # "idle"
      <4>1. CASE \E k \in Keys : Delete(e, k) \/ ScanKey(e, k)
        BY <1>1, <2>3, <4>1 DEF Delete, ScanKey, MayErase, TypeOK, Eraser
      <4>2. CASE \E S \in SUBSET Keys : BeginDeleteMany(e, S) \/ DeleteListed(e, S)
        BY <1>1, <2>3, <4>2
        DEF BeginDeleteMany, DeleteListed, MayErase, AfterDeletes, TypeOK, Eraser
      <4>3. CASE DeleteScanned(e) \/ LeaveKeyIndex(e)
        <5>1. CASE DeleteScanned(e)
          BY <1>1, <2>3, <5>1 DEF DeleteScanned, TypeOK, Eraser
        <5>2. CASE LeaveKeyIndex(e)
          BY <1>1, <2>3, <5>2 DEF LeaveKeyIndex, TypeOK, Eraser
        <5> QED  BY <4>3, <5>1, <5>2
      <4>4. ~BeginClear(e)  BY <2>3 DEF BeginClear, MayErase
      <4> QED  BY <4>1, <4>2, <4>3, <4>4 DEF Erase
    <3>2. /\ w \in Writers /\ writer[w].stage = "addTags"
          /\ StoredBy(w) => Before(w)
      BY <1>5, <2>1, <3>1
    <3> SUFFICES ASSUME StoredBy(w)' PROVE Before(w)'
      BY <3>1, <3>2
    <3>3. /\ StoredBy(w) /\ Before(w) /\ KeyOf[w] \in Keys
          /\ entries'[KeyOf[w]] # None /\ Stored(KeyOf[w]) # None
      BY <1>3, <3>2, RedisAssumption DEF StoredBy, Stored, Live
    <3>4. ASSUME NEW k \in Keys, ScanKey(e, k)
          PROVE  Before(w)'
      <4>1. /\ eraser[e].pc = "scan" /\ eraser'[e].pc = "scan"
            /\ eraser'[e].left = eraser[e].left \ {k}
            /\ eraser'[e].names = eraser[e].names \union Existing(k)
        BY <1>1, <3>4 DEF ScanKey, TypeOK, Eraser
      <4>2. k = KeyOf[w] => <<KeyOf[w], "entry">> \in Existing(k)
        BY <3>3 DEF Existing
      <4> QED  BY <3>3, <4>1, <4>2
    <3>5. CASE DeleteScanned(e)
      <4>1. /\ eraser[e].pc = "scan" /\ eraser'[e].left = eraser[e].left
            /\ eraser'[e].pc = IF eraser[e].left = {} THEN "done" ELSE "scan"
        BY <1>1, <3>5 DEF DeleteScanned, TypeOK, Eraser
      <4>2. <<KeyOf[w], "entry">> \notin eraser[e].names
        BY <3>3, <3>5 DEF DeleteScanned, Drop
      <4> QED  BY <3>3, <4>1, <4>2
    <3>6. ASSUME NEW B \in SUBSET Keys, DeleteListed(e, B)
          PROVE  Before(w)'
      <4>1. /\ eraser[e].pc = "delete" /\ eraser'[e].left = eraser[e].left \ B
            /\ eraser'[e].pc = IF B = eraser[e].left THEN AfterDeletes ELSE "delete"
        BY <1>1, <3>6 DEF DeleteListed, TypeOK, Eraser
      <4>2. KeyOf[w] \notin B
        BY <3>3, <3>6 DEF DeleteListed, Drop
      <4> QED  BY <3>3, <4>1, <4>2
    <3>7. ~LeaveKeyIndex(e)  BY <3>3 DEF LeaveKeyIndex
    <3>8. ~BeginClear(e) /\ (\A k \in Keys : ~Delete(e, k))
          /\ (\A S \in SUBSET Keys : ~BeginDeleteMany(e, S))
      BY <2>3 DEF BeginClear, Delete, BeginDeleteMany, MayErase
    <3> QED  BY <3>4, <3>5, <3>6, <3>7, <3>8 DEF Erase
  <2> QED  BY <2>2, <2>3
<1>6. Clearing'
  <2> SUFFICES ASSUME NEW f \in Erasers
               PROVE  /\ eraser'[f].pc = "idle" => eraser'[f].owed = {}
                      /\ \A w \in eraser'[f].owed :
                           /\ writer'[w].stage = "addTags"
                           /\ StoredBy(w)' =>
                                \/ /\ eraser'[f].pc = "scan"
                                   /\ \/ KeyOf[w] \in eraser'[f].left
                                      \/ <<KeyOf[w], "entry">> \in eraser'[f].names
                                \/ eraser'[f].pc = "delete" /\ KeyOf[w] \in eraser'[f].left
    BY DEF Clearing
  <2>1. CASE f = e  BY <1>3, <1>5, <2>1
  <2>2. CASE f # e  BY <1>1, <1>2, <1>3, <2>2 DEF Clearing
  <2> QED  BY <2>1, <2>2
<1> QED  BY <1>4, <1>6

(* A clear that ends has removed every entry that was stored, and in the   *)
(* key index, when it began.                                               *)
THEOREM ClearsReach == Spec => []ClearReaches
<1>1. Init => TypeOK /\ RevisionsBounded /\ ReachInv /\ Indexed /\ Clearing
  <2>1. Init => Indexed /\ Clearing
    BY DEF Init, Indexed, Clearing
  <2> QED  BY <2>1, InitType, ReachInit
<1>2. ASSUME TypeOK, RevisionsBounded, ReachInv, Indexed, Clearing, [Next]_vars
      PROVE  (TypeOK /\ RevisionsBounded /\ ReachInv /\ Indexed /\ Clearing)'
  <2>1. (TypeOK /\ RevisionsBounded /\ ReachInv)'  BY <1>2, NextType, ReachNext
  <2>2. CASE Tick \/ UNCHANGED vars
    <3>1. UNCHANGED <<useKeyIndex, index, eraser, writer, entries>>
      BY <2>2 DEF Tick, vars, redis, actors, options
    <3>2. now \in Nat /\ now' \in {now, now + 1}
      BY <1>2, <2>2 DEF Tick, vars, TypeOK
    <3>3. Indexed' /\ Clearing'  BY <1>2, <3>1, <3>2, ClearVanishes
    <3> QED  BY <2>1, <3>3
  <2>3. ASSUME NEW w \in Writers, Write(w) \/ Fail(w)
        PROVE  Indexed' /\ Clearing'
    BY <1>2, <2>3, ClearWrite
  <2>4. ASSUME NEW i \in Invalidations, Invalidate(i)
        PROVE  Indexed' /\ Clearing'
    BY <1>2, <2>4, ClearInvalidate
  <2>5. ASSUME NEW e \in Erasers, Erase(e)
        PROVE  Indexed' /\ Clearing'
    BY <1>2, <2>5, ClearErase
  <2> QED  BY <1>2, <2>1, <2>2, <2>3, <2>4, <2>5 DEF Next
<1>3. TypeOK /\ Clearing => ClearReaches
  BY DEF Clearing, ClearReaches, StoredBy
<1> QED  BY <1>1, <1>2, <1>3, PTL DEF Spec

-----------------------------------------------------------------------------
(* Locks *)

(* Who is to release a lock has taken it; a script does it in one step.    *)
Leased ==
  \A w \in Writers : /\ writer[w].pc = "release" => HoldsLock(w)
                     /\ writer[w].pc = "unlock" => mode # "scripts"

(* Where a writer may go.                                                  *)
MayGo(v, p) == /\ p = "release" => writer[v].lease > 0
               /\ p = "unlock" => mode # "scripts"

LEMMA LeasedWrite ==
  ASSUME TypeOK, Leased, NEW v \in Writers, Write(v) \/ Fail(v)
  PROVE  Leased'
<1> SUFFICES ASSUME NEW w \in Writers
             PROVE  /\ writer'[w].pc = "release" => writer'[w].lease > 0
                    /\ writer'[w].pc = "unlock" => mode # "scripts"
  BY ModeStays DEF Leased, HoldsLock, Next
<1>1. /\ writer[w] \in Writer /\ writer[v] \in Writer
      /\ MayGo(w, writer[w].pc)
  BY DEF TypeOK, Leased, HoldsLock, MayGo
<1>2. MayGo(v, Leaves(v))  BY DEF Leaves, HoldsLock, MayGo
<1>3. CASE \E m \in TagKeys : LeaveIndex(v, m) \/ EnterIndex(v, m)
  <2>1. PICK m \in TagKeys : LeaveIndex(v, m) \/ EnterIndex(v, m)  BY <1>3
  <2>2. PICK p, T : /\ MayGo(v, p)
                    /\ writer' = [writer EXCEPT ![v] =
                                    [writer[v] EXCEPT !.left = T, !.pc = p]]
    <3>1. CASE LeaveIndex(v, m)
      BY <1>1, <3>1 DEF LeaveIndex, Writer, MayGo
    <3>2. CASE EnterIndex(v, m)
      BY <1>1, <3>2 DEF EnterIndex, Writer, MayGo
    <3> QED  BY <2>1, <3>1, <3>2
  <2> QED  BY <1>1, <2>2 DEF TypeOK, Writer, MayGo
<1>4. CASE BeginAddTags(v) \/ BeginRegister(v)
  <2>1. CASE BeginAddTags(v)
    <3> DEFINE p == IF TagsOf[v] = {} THEN Leaves(v) ELSE "sadd"
    <3>1. writer' = [writer EXCEPT ![v] =
            [writer[v] EXCEPT !.stage = "addTags", !.pc = p,
                              !.left = IndexesOf(TagsOf[v], "runtime")]]
      BY <2>1 DEF BeginAddTags
    <3>2. MayGo(v, p)  BY <1>2 DEF MayGo
    <3> HIDE DEF p
    <3> QED  BY <1>1, <3>1, <3>2 DEF TypeOK, Writer, MayGo
  <2>2. CASE BeginRegister(v)
    <3> DEFINE p == IF TagsOf[v] # {} THEN "sadd" ELSE IF useKeyIndex THEN "index"
                    ELSE Leaves(v)
    <3>1. writer' = [writer EXCEPT ![v] =
            [writer[v] EXCEPT !.pc = p, !.left = IndexesOf(TagsOf[v], WriteSpace)]]
      BY <2>2 DEF BeginRegister
    <3>2. MayGo(v, p)  BY <1>2 DEF MayGo
    <3> HIDE DEF p
    <3> QED  BY <1>1, <3>1, <3>2 DEF TypeOK, Writer, MayGo
  <2> QED  BY <1>4, <2>1, <2>2
<1>5. ASSUME NEW p, Becomes(v, p), MayGo(v, p)
      PROVE  /\ writer'[w].pc = "release" => writer'[w].lease > 0
             /\ writer'[w].pc = "unlock" => mode # "scripts"
  BY <1>1, <1>5 DEF Becomes, TypeOK, Writer, MayGo
<1>6. CASE CompareCommand(v) /\ Agrees(v)
  <2> DEFINE b == \/ Rivals(v) # {}
                  \/ \E i \in Invalidations : /\ invalidation[i].pc = "delete"
                                              /\ invalidation[i].tag \in TagsOf[v]
             next(u) == IF u = v THEN [writer[v] EXCEPT !.pc = "set", !.raced = b]
                        ELSE IF u \in Rivals(v) THEN [writer[u] EXCEPT !.raced = TRUE]
                        ELSE writer[u]
  <2>1. writer' = [u \in Writers |-> next(u)]  BY <1>6 DEF CompareCommand
  <2> HIDE DEF b
  <2>2. writer'[w] = next(w)  BY <2>1
  <2> QED  BY <1>1, <2>2 DEF Writer, MayGo
<1>7. CASE Observe(v) \/ AcquireLock(v)
  <2>1. CASE Observe(v)  BY <1>1, <2>1 DEF Observe, TypeOK, Writer, MayGo
  <2>2. CASE AcquireLock(v)
    BY <1>1, <1>5, <2>2 DEF AcquireLock, TypeOK, Writer, MayGo
  <2> QED  BY <1>7, <2>1, <2>2
<1>8. CASE ReleaseLock(v) \/ DeleteLock(v)
  BY <1>1, <1>5, <1>8 DEF ReleaseLock, DeleteLock, Unlocked, TypeOK, Writer, MayGo
<1>9. CASE ReadRefs(v)
  BY <1>1, <1>4, <1>9 DEF ReadRefs, TypeOK, Writer, MayGo
<1>10. CASE SetCommand(v) \/ Unrefer(v) \/ ReferIndexes(v) \/ EnterKeyIndex(v)
  BY <1>4, <1>5, <1>10 DEF SetCommand, Unrefer, ReferIndexes, EnterKeyIndex, MayGo
<1>11. CASE ExpireRefs(v) \/ SetEntryScript(v) \/ Fail(v)
  BY <1>2, <1>4, <1>5, <1>11 DEF ExpireRefs, SetEntryScript, Fail, MayGo
<1>12. CASE CompareCommand(v)
  BY <1>2, <1>5, <1>6, <1>12 DEF CompareCommand
<1> QED
  BY <1>3, <1>7, <1>8, <1>9, <1>10, <1>11, <1>12 DEF Write

LEMMA LeasedNext ==
  ASSUME TypeOK, Leased, [Next]_vars
  PROVE  Leased'
<1>1. ASSUME \A w \in Writers : /\ writer'[w].pc = writer[w].pc
                                /\ writer'[w].lease = writer[w].lease
      PROVE  Leased'
  BY <1>1, ModeStays DEF Leased, HoldsLock
<1>2. ASSUME NEW i \in Invalidations, Invalidate(i)
      PROVE  Leased'
  <2>1. CASE ReadMembers(i)
    BY <1>1, <2>1 DEF ReadMembers, TypeOK, Writer
  <2>2. CASE ~ReadMembers(i)
    BY <1>1, <1>2, <2>2 DEF Invalidate, BeginInvalidate, InvalidateScript,
                            DeleteMembers, DeleteTagIndex
  <2> QED  BY <2>1, <2>2
<1>3. ASSUME NEW e \in Erasers, Erase(e)
      PROVE  Leased'
  <2>1. CASE LeaveKeyIndex(e)
    BY <1>1, <2>1 DEF LeaveKeyIndex, TypeOK, Writer
  <2>2. CASE ~LeaveKeyIndex(e)
    BY <1>1, <1>3, <2>2 DEF Erase, Delete, ScanKey, BeginDeleteMany, BeginClear,
                            DeleteScanned, DeleteListed
  <2> QED  BY <2>1, <2>2
<1>4. CASE Tick \/ UNCHANGED vars
  BY <1>1, <1>4 DEF Tick, vars, actors
<1> QED  BY <1>2, <1>3, <1>4, LeasedWrite DEF Next

(* By a script a writer releases its own lock or none: one that has not    *)
(* expired disappears by its holder's release, or by the SCAN of a clear().*)
THEOREM LocksKept ==
  Clients \subseteq {"scripts"} \X BOOLEAN => (Spec => LockKeptFromPeers)
<1> SUFFICES ASSUME Clients \subseteq {"scripts"} \X BOOLEAN
             PROVE  Spec => LockKeptFromPeers
  OBVIOUS
<1>1. Init => TypeOK /\ RevisionsBounded /\ ReachInv /\ Leased
  <2>1. Init => Leased  BY DEF Init, Leased
  <2> QED  BY <2>1, InitType, ReachInit
<1>2. TypeOK /\ RevisionsBounded /\ ReachInv /\ Leased /\ [Next]_vars
        => (TypeOK /\ RevisionsBounded /\ ReachInv /\ Leased)'
  BY NextType, ReachNext, LeasedNext
<1>3. ASSUME TypeOK, ReachInv, Leased, Next
      PROVE  \A k \in Keys : Live(locks[k]) # None /\ locks'[k] # locks[k] =>
               \/ HoldsLock(locks[k].by) /\ writer'[locks[k].by].pc = "done"
               \/ \E e \in Erasers : <<k, "lock">> \in eraser[e].names
               \/ \E w \in Writers :
                    /\ mode = "commands" /\ writer[w].pc = "unlock" /\ KeyOf[w] = k
                    /\ \/ writer[w].lease <= now
                       \/ \E e \in Erasers : ~useKeyIndex /\ k \in eraser[e].erased
  <2> SUFFICES ASSUME NEW k \in Keys, Live(locks[k]) # None, locks'[k] # locks[k]
               PROVE  \/ HoldsLock(locks[k].by) /\ writer'[locks[k].by].pc = "done"
                      \/ \E e \in Erasers : <<k, "lock">> \in eraser[e].names
    OBVIOUS
  <2>1. mode = "scripts"  BY <1>3 DEF TypeOK
  <2>2. ASSUME NEW w \in Writers, Write(w) \/ Fail(w)
        PROVE  HoldsLock(locks[k].by) /\ writer'[locks[k].by].pc = "done"
    <3>1. locks' # locks  OBVIOUS
    <3>2. AcquireLock(w) \/ ReleaseLock(w) \/ DeleteLock(w)
      BY <2>2, <3>1 DEF Write, Fail, Observe, SetEntryScript, CompareCommand,
         SetCommand, ReadRefs, Unrefer, LeaveIndex, EnterIndex, ReferIndexes,
         ExpireRefs, EnterKeyIndex, redis
    <3>3. ~AcquireLock(w)
      <4>1. SUFFICES ASSUME AcquireLock(w), locks' # locks PROVE FALSE  BY <3>1
      <4>2. Live(locks[KeyOf[w]]) = None
            /\ \A j \in Keys : j # KeyOf[w] => locks'[j] = locks[j]
        BY <1>3, <4>1 DEF AcquireLock, TypeOK
      <4> QED  BY <4>2
    <3>4. ~DeleteLock(w)  BY <1>3, <2>1 DEF DeleteLock, Leased
    <3>5. ReleaseLock(w)  BY <3>2, <3>3, <3>4
    <3>6. OwnsLock(w) /\ Unlocked(w) /\ HoldsLock(w)
      BY <1>3, <2>1, <3>1, <3>5 DEF ReleaseLock, Leased
    <3>7. k = KeyOf[w] /\ locks[k].by = w
      <4>1. \A j \in Keys : j # KeyOf[w] => locks'[j] = locks[j]
        BY <1>3, <3>6 DEF Unlocked, TypeOK
      <4>2. k = KeyOf[w]  BY <4>1
      <4> QED  BY <3>6, <4>2 DEF OwnsLock, Live
    <3>8. writer'[w].pc = "done"
      BY <1>3, <3>6 DEF Unlocked, TypeOK, Writer
    <3> QED  BY <3>6, <3>7, <3>8
  <2>3. \A i \in Invalidations : ~Invalidate(i)
    BY DEF Invalidate, BeginInvalidate, InvalidateScript, ReadMembers,
           DeleteMembers, DeleteTagIndex, redis
  <2>4. ASSUME NEW e \in Erasers, Erase(e)
        PROVE  <<k, "lock">> \in eraser[e].names
    <3>1. ASSUME NEW N, Drop(N) PROVE <<k, "lock">> \in N
      BY <3>1 DEF Drop
    <3>2. ~BeginClear(e) /\ ~LeaveKeyIndex(e)
          /\ (\A j \in Keys : ~Delete(e, j) /\ ~ScanKey(e, j))
      <4>1. \A j \in Keys : ~Delete(e, j)  BY <3>1 DEF Delete
      <4>2. ~BeginClear(e) /\ ~LeaveKeyIndex(e) /\ \A j \in Keys : ~ScanKey(e, j)
        BY DEF BeginClear, LeaveKeyIndex, ScanKey, redis
      <4> QED  BY <4>1, <4>2
    <3>3. \A S \in SUBSET Keys : ~BeginDeleteMany(e, S) /\ ~DeleteListed(e, S)
      BY <3>1 DEF BeginDeleteMany, DeleteListed, redis
    <3>4. DeleteScanned(e)  BY <2>4, <3>2, <3>3 DEF Erase
    <3> QED  BY <3>1, <3>4 DEF DeleteScanned
  <2>5. ~Tick  BY DEF Tick, redis
  <2> QED  BY <1>3, <2>2, <2>3, <2>4, <2>5 DEF Next
<1> QED  BY <1>1, <1>2, <1>3, PTL DEF Spec, LockKeptFromPeers
=============================================================================
