---------------------------- MODULE RedisStorage ----------------------------
(***************************************************************************)
(* The Redis storage of src/redis.ts with the Lua scripts of               *)
(* src/redis-scripts.ts, used the way the runtime uses it: a writer reads  *)
(* an entry, takes the lock of its key, writes with compareAndSet,         *)
(* registers the tags with addTags and releases the lock.  Beside writers  *)
(* there are invalidations of a tag and erasers (delete, deleteMany,       *)
(* clear).                                                                 *)
(*                                                                         *)
(* A step is one command or one script: that is what Redis runs without    *)
(* interruption.  The variables `mode` and `useKeyIndex`, fixed by the     *)
(* initial state, tell what the client can do.                             *)
(***************************************************************************)
EXTENDS Integers, FiniteSets

CONSTANTS Keys, Tags, None, Absent,
          Writers, KeyOf, TagsOf, \* what each writer stores, with which tags
          Fallible,    \* the writers a command of which may fail
          Invalidations, Erasers,
          Scoped,      \* the storage was created with the cache's namespace
          Clients,     \* pairs of mode, "scripts" (hasEval) or "commands",
                       \* and useKeyIndex, FALSE when the client can SCAN
          BatchSize,
          Ttl, StaleTtl, LockTtl,
          MaxNow,
          MaxDisturbances \* invalidations and erasers that begin, and
                          \* commands that fail

ASSUME RedisAssumption ==
  /\ KeyOf \in [Writers -> Keys] /\ TagsOf \in [Writers -> SUBSET Tags]
  /\ Fallible \subseteq Writers
  /\ Clients \subseteq {"scripts", "commands"} \X BOOLEAN
  /\ Scoped \in BOOLEAN
  /\ {BatchSize, Ttl, LockTtl} \subseteq Nat \ {0}
  /\ {StaleTtl, MaxNow, MaxDisturbances} \subseteq Nat
  /\ IsFiniteSet(Writers)

VARIABLES now, faults,
          mode, useKeyIndex, \* the options of this storage; they never change
          entries, \* the Redis key of each entry
          refs,    \* `:~t~`: the tag indexes an entry was put into
          members, \* the tag indexes
          index,   \* the key index
          locks,
          writer, invalidation, eraser,
          reply    \* history, for scripts: the last operation that may write,
                   \* and its answer

redis == <<entries, refs, members, index, locks>>
actors == <<writer, invalidation, eraser>>
options == <<mode, useKeyIndex>>
vars == <<now, options, faults, redis, actors, reply>>

(* A tag index is named after its tag and a namespace: the one the runtime *)
(* passes at call time, or the empty one that writeEntry falls back to.    *)
TagKeys == Tags \X {"runtime", "empty"}

IndexesOf(T, space) == {<<t, space>> : t \in T}

WriteSpace == IF Scoped THEN "runtime" ELSE "empty"

Forever == MaxNow + 1

(* An entry is named after the writer that stored it. *)
Entry == [rev : 1..Cardinality(Writers), by : Writers, until : Nat]

Refs == [keys : SUBSET TagKeys, until : Nat]

NoRefs == [keys |-> {}, until |-> Forever]

Lock == [by : Writers, until : Nat]

(* seen: the revision observed; left: the tag indexes still to leave or to *)
(* enter; was: those read from the `:~t~` key; lease: until when the lock  *)
(* it took lasts, 0 without one.  History: raced, another write of the key *)
(* or an invalidation of one of its tags ran beside the write; unindexed,  *)
(* an eraser has since taken its key out of the key index.                 *)
Writer ==
  [pc : {"idle", "lock", "write", "set", "refs", "srem", "unref", "sadd",
         "ref", "expire", "index", "release", "unlock", "done"},
   stage : {"write", "addTags"}, seen : 0..Cardinality(Writers),
   left : SUBSET TagKeys, was : SUBSET TagKeys, lease : Nat, raced : BOOLEAN,
   unindexed : BOOLEAN]

(* owed: history, the writes that were over when the invalidation began.   *)
Invalidation ==
  [pc : {"idle", "begun", "delete", "done"}, tag : Tags,
   left : SUBSET Keys, owed : SUBSET Writers]

(* The keys of one entry: its own, its `:~t~` key and its lock. *)
Names == Keys \X {"entry", "refs", "lock"}

Eraser ==
  [pc : {"idle", "scan", "delete", "unindex", "done"},
   left : SUBSET Keys, names : SUBSET Names, erased : SUBSET Keys,
   owed : SUBSET Writers]

ASSUME NoneAssumption == None \notin Entry \union Lock

ASSUME AbsentAssumption ==
  Absent \notin [rev : 1..Cardinality(Writers), tags : SUBSET Tags]

TypeOK ==
  /\ now \in 0..MaxNow /\ faults \in Nat
  /\ <<mode, useKeyIndex>> \in Clients
  /\ entries \in [Keys -> Entry \union {None}]
  /\ refs \in [Keys -> Refs]
  /\ members \in [TagKeys -> SUBSET Keys]
  /\ index \subseteq Keys
  /\ locks \in [Keys -> Lock \union {None}]
  /\ writer \in [Writers -> Writer]
  /\ invalidation \in [Invalidations -> Invalidation]
  /\ eraser \in [Erasers -> Eraser]

Init ==
  /\ now = 0 /\ faults = 0
  /\ \E c \in Clients : mode = c[1] /\ useKeyIndex = c[2]
  /\ entries = [k \in Keys |-> None]
  /\ refs = [k \in Keys |-> NoRefs]
  /\ members = [m \in TagKeys |-> {}]
  /\ index = {}
  /\ locks = [k \in Keys |-> None]
  /\ writer = [w \in Writers |->
                 [pc |-> "idle", stage |-> "write", seen |-> 0, left |-> {},
                  was |-> {}, lease |-> 0, raced |-> FALSE,
                  unindexed |-> FALSE]]
  /\ invalidation \in [Invalidations ->
                        [pc : {"idle"}, tag : Tags, left : {{}}, owed : {{}}]]
  /\ eraser = [e \in Erasers |-> [pc |-> "idle", left |-> {}, names |-> {},
                                  erased |-> {}, owed |-> {}]]
  /\ reply = [op |-> "none"]

-----------------------------------------------------------------------------
(* What Redis answers: keys vanish when their time to live has passed. *)

Live(r) == IF r # None /\ now < r.until THEN r ELSE None

Stored(k) == Live(entries[k])

RevisionOf(k) == IF Stored(k) = None THEN 0 ELSE Stored(k).rev

RefsOf(k) == IF now < refs[k].until THEN refs[k].keys ELSE {}

(* A Redis set that loses its last member is gone, and its time to live    *)
(* with it; one that is written anew has none.                             *)
RefsBecome(k, T) ==
  refs' = [refs EXCEPT ![k] =
    IF T = {} THEN NoRefs
    ELSE [keys |-> T,
          until |-> IF RefsOf(k) = {} THEN Forever ELSE refs[k].until]]

HoldsLock(w) == writer[w].lease > 0

Becomes(w, pc) == writer' = [writer EXCEPT ![w].pc = pc]

MayDisturb ==
  MaxDisturbances >
    Cardinality({i \in Invalidations : invalidation[i].pc # "idle"})
    + Cardinality({e \in Erasers : eraser[e].pc # "idle"}) + faults

Answered(r) == reply' = IF mode = "scripts" THEN r ELSE reply

-----------------------------------------------------------------------------
(* The writers *)

(* readEntry, at the start of the runtime's call. *)
Observe(w) ==
  /\ writer[w].pc = "idle"
  /\ writer' = [writer EXCEPT ![w].pc = "lock",
                              ![w].seen = RevisionOf(KeyOf[w])]
  /\ UNCHANGED <<now, options, faults, redis, invalidation, eraser, reply>>

(* acquireLock: SET NX PX.  Without the lock the runtime waits for a while *)
(* and then proceeds.                                                      *)
AcquireLock(w) ==
  /\ writer[w].pc = "lock"
  /\ IF Live(locks[KeyOf[w]]) = None
     THEN /\ locks' = [locks EXCEPT ![KeyOf[w]] =
                         [by |-> w, until |-> now + LockTtl]]
          /\ writer' = [writer EXCEPT ![w].pc = "write",
                                      ![w].lease = now + LockTtl]
     ELSE Becomes(w, "write") /\ UNCHANGED locks
  /\ UNCHANGED <<now, options, faults, entries, refs, members, index,
                 invalidation, eraser, reply>>

EntryOfSameRevision(w) ==
  [rev |-> writer[w].seen, by |-> w, until |-> now + Ttl]

EntryOf(w) == [rev |-> writer[w].seen + 1, by |-> w, until |-> now + Ttl]

AgreesOrNewer(w) == RevisionOf(KeyOf[w]) >= writer[w].seen

Agrees(w) == RevisionOf(KeyOf[w]) = writer[w].seen

(* Where a writer goes when it has nothing more to store. *)
Leaves(w) == IF HoldsLock(w) THEN "release" ELSE "done"

(* The runtime's addTags follows a write that happened, if there are tags. *)
BeginAddTags(w) ==
  writer' = [writer EXCEPT
    ![w].stage = "addTags",
    ![w].pc = IF TagsOf[w] = {} THEN Leaves(w) ELSE "sadd",
    ![w].left = IndexesOf(TagsOf[w], "runtime")]

MovedLeavingLast(k, leave, enter) ==
  [m \in TagKeys |-> IF m \in leave THEN members[m] \ {k}
                     ELSE IF m \in enter THEN members[m] \union {k}
                     ELSE members[m]]

Moved(k, leave, enter) ==
  [m \in TagKeys |-> IF m \in enter THEN members[m] \union {k}
                     ELSE IF m \in leave THEN members[m] \ {k}
                     ELSE members[m]]

(* SET_ENTRY_SCRIPT.  Its PEXPIRE of the tags key finds no key. *)
SetEntryScript(w) ==
  /\ mode = "scripts"
  /\ writer[w].pc = "write"
  /\ LET k == KeyOf[w]
         enter == IndexesOf(TagsOf[w], WriteSpace)
     IN  /\ IF Agrees(w)
            THEN /\ entries' = [entries EXCEPT ![k] = EntryOf(w)]
                 /\ refs' = [refs EXCEPT ![k] = [keys |-> enter, until |-> Forever]]
                 /\ members' = Moved(k, RefsOf(k), enter)
                 /\ index' = IF useKeyIndex THEN index \union {k} ELSE index
                 /\ BeginAddTags(w)
            ELSE Becomes(w, Leaves(w)) /\ UNCHANGED <<entries, refs, members, index>>
         /\ Answered([op |-> "compareAndSet", key |-> k,
                      expected |-> writer[w].seen, written |-> Agrees(w)])
  /\ UNCHANGED <<now, options, faults, locks, invalidation, eraser>>

(* Without scripts compareAndSet is a GET, a SET, and the tag bookkeeping. *)
UnderWay(v) == writer[v].pc \in {"set", "refs", "srem", "unref", "sadd",
                                 "ref", "expire", "index"}

Rivals(w) == {v \in Writers \ {w} : /\ KeyOf[v] = KeyOf[w] /\ UnderWay(v)
                                     /\ writer[v].stage = "write"}

CompareCommand(w) ==
  /\ mode = "commands"
  /\ writer[w].pc = "write"
  /\ IF Agrees(w)
     THEN writer' = [v \in Writers |->
            IF v = w
            THEN [writer[w] EXCEPT !.pc = "set", !.raced = \/ Rivals(w) # {}
                    \/ \E i \in Invalidations : /\ invalidation[i].pc = "delete"
                                               /\ invalidation[i].tag \in TagsOf[w]]
            ELSE IF v \in Rivals(w) THEN [writer[v] EXCEPT !.raced = TRUE]
            ELSE writer[v]]
     ELSE Becomes(w, Leaves(w))
  /\ UNCHANGED <<now, options, faults, redis, invalidation, eraser, reply>>

SetCommand(w) ==
  /\ writer[w].pc = "set"
  /\ entries' = [entries EXCEPT ![KeyOf[w]] = EntryOf(w)]
  /\ Becomes(w, "refs")
  /\ UNCHANGED <<now, options, faults, refs, members, index, locks,
                 invalidation, eraser, reply>>

(* The indexes to leave are known; then come the ones to enter. *)
BeginRegister(w) ==
  writer' = [writer EXCEPT
    ![w].pc = IF TagsOf[w] # {} THEN "sadd" ELSE IF useKeyIndex THEN "index"
              ELSE Leaves(w),
    ![w].left = IndexesOf(TagsOf[w], WriteSpace)]

ReadRefs(w) ==
  /\ writer[w].pc = "refs"
  /\ IF RefsOf(KeyOf[w]) = {} THEN BeginRegister(w)
     ELSE writer' = [writer EXCEPT ![w].pc = "srem", ![w].left = RefsOf(KeyOf[w]),
                                   ![w].was = RefsOf(KeyOf[w])]
  /\ UNCHANGED <<now, options, faults, redis, invalidation, eraser, reply>>

LeaveIndex(w, m) ==
  /\ writer[w].pc = "srem"
  /\ m \in writer[w].left
  /\ members' = [members EXCEPT ![m] = @ \ {KeyOf[w]}]
  /\ writer' = [writer EXCEPT ![w].left = @ \ {m},
                              ![w].pc = IF writer[w].left = {m} THEN "unref" ELSE @]
  /\ UNCHANGED <<now, options, faults, entries, refs, index, locks,
                 invalidation, eraser, reply>>

Unrefer(w) ==
  /\ writer[w].pc = "unref"
  /\ RefsBecome(KeyOf[w], RefsOf(KeyOf[w]) \ writer[w].was)
  /\ BeginRegister(w)
  /\ UNCHANGED <<now, options, faults, entries, members, index, locks,
                 invalidation, eraser, reply>>

(* SADD of the key to one of its tag indexes, in writeEntry or in addTags. *)
EnterIndex(w, m) ==
  /\ writer[w].pc = "sadd"
  /\ m \in writer[w].left
  /\ members' = [members EXCEPT ![m] = @ \union {KeyOf[w]}]
  /\ writer' = [writer EXCEPT ![w].left = @ \ {m},
                              ![w].pc = IF writer[w].left = {m} THEN "ref" ELSE @]
  /\ reply' = IF writer[w].stage = "addTags" THEN [op |-> "none"] ELSE reply
  /\ UNCHANGED <<now, options, faults, entries, refs, index, locks,
                 invalidation, eraser>>

(* The indexes entered, under the `:~t~` key; then its time to live, which *)
(* addTags sets to thirty days: beyond what a run lasts.                   *)
ReferIndexes(w) ==
  /\ writer[w].pc = "ref"
  /\ RefsBecome(KeyOf[w], RefsOf(KeyOf[w]) \union
       IndexesOf(TagsOf[w], IF writer[w].stage = "write" THEN WriteSpace ELSE "runtime"))
  /\ Becomes(w, "expire")
  /\ UNCHANGED <<now, options, faults, entries, members, index, locks,
                 invalidation, eraser, reply>>

ExpireRefs(w) ==
  /\ writer[w].pc = "expire"
  /\ refs' = [refs EXCEPT ![KeyOf[w]] =
       IF RefsOf(KeyOf[w]) = {} THEN NoRefs
       ELSE [keys |-> RefsOf(KeyOf[w]),
             until |-> IF writer[w].stage = "write" THEN now + Ttl ELSE Forever]]
  /\ IF writer[w].stage = "addTags" THEN Becomes(w, Leaves(w))
     ELSE IF useKeyIndex THEN Becomes(w, "index")
     ELSE BeginAddTags(w)
  /\ UNCHANGED <<now, options, faults, entries, members, index, locks,
                 invalidation, eraser, reply>>

EnterNoIndex(w) ==
  /\ writer[w].pc = "index"
  /\ BeginAddTags(w)
  /\ UNCHANGED <<now, options, faults, redis, invalidation, eraser, reply>>

EnterKeyIndex(w) ==
  /\ writer[w].pc = "index"
  /\ index' = index \union {KeyOf[w]}
  /\ BeginAddTags(w)
  /\ UNCHANGED <<now, options, faults, entries, refs, members, locks,
                 invalidation, eraser, reply>>

OwnsAnyLock(w) == Live(locks[KeyOf[w]]) # None

OwnsLock(w) == /\ Live(locks[KeyOf[w]]) # None
               /\ Live(locks[KeyOf[w]]).by = w

Unlocked(w) ==
  /\ locks' = [locks EXCEPT ![KeyOf[w]] = None]
  /\ writer' = [writer EXCEPT ![w].pc = "done", ![w].lease = 0]

(* release: a script, or a GET and then a DEL. *)
ReleaseLock(w) ==
  /\ writer[w].pc = "release"
  /\ IF OwnsLock(w)
     THEN IF mode = "scripts" THEN Unlocked(w)
                              ELSE Becomes(w, "unlock") /\ UNCHANGED locks
     ELSE /\ writer' = [writer EXCEPT ![w].pc = "done", ![w].lease = 0]
          /\ UNCHANGED locks
  /\ UNCHANGED <<now, options, faults, entries, refs, members, index,
                 invalidation, eraser, reply>>

DeleteLock(w) ==
  /\ writer[w].pc = "unlock"
  /\ Unlocked(w)
  /\ UNCHANGED <<now, options, faults, entries, refs, members, index,
                 invalidation, eraser, reply>>

(* A command fails: what it asked for has not happened, or, if it happened *)
(* before, the writer does not learn of it.  The runtime swallows it and   *)
(* releases the lock.  (A process that dies takes no further step: nothing *)
(* requires a writer to go on, so that needs no action.)                   *)
Fail(w) ==
  /\ w \in Fallible
  /\ MayDisturb
  /\ writer[w].pc \notin {"idle", "lock", "release", "unlock", "done"}
  /\ faults' = faults + 1
  /\ Becomes(w, Leaves(w))
  /\ UNCHANGED <<now, options, redis, invalidation, eraser, reply>>

-----------------------------------------------------------------------------
(* Invalidations *)

(* The writes that are stored and over, their tags registered.  Without    *)
(* scripts, what runs beside a write may undo its memberships for good.    *)
Registered(t) ==
  {w \in Writers : /\ writer[w].pc \in {"release", "unlock", "done"}
                   /\ writer[w].stage = "addTags" /\ writer[w].left = {}
                   /\ t \in TagsOf[w]
                   /\ mode = "commands" => ~writer[w].raced
                   /\ Stored(KeyOf[w]) # None /\ Stored(KeyOf[w]).by = w}

BeginInvalidate(i) ==
  /\ MayDisturb
  /\ invalidation[i].pc = "idle"
  /\ invalidation' = [invalidation EXCEPT
       ![i].pc = "begun", ![i].owed = Registered(invalidation[i].tag)]
  /\ UNCHANGED <<now, options, faults, redis, writer, eraser, reply>>

TagKeyOfNobody(i) == <<invalidation[i].tag, "empty">>

TagKeyOf(i) == <<invalidation[i].tag, "runtime">>

Erased(S) == [k \in Keys |-> IF k \in S THEN None ELSE entries[k]]

(* INVALIDATE_TAG_SCRIPT; the tags keys of the entries are left. *)
InvalidateScript(i) ==
  /\ mode = "scripts"
  /\ invalidation[i].pc = "begun"
  /\ entries' = Erased(members[TagKeyOf(i)])
  /\ members' = [members EXCEPT ![TagKeyOf(i)] = {}]
  /\ invalidation' = [invalidation EXCEPT ![i].pc = "done"]
  /\ Answered([op |-> "invalidateTag", tag |-> invalidation[i].tag])
  /\ UNCHANGED <<now, options, faults, refs, index, locks, writer, eraser>>

ReadMembers(i) ==
  /\ mode = "commands"
  /\ invalidation[i].pc = "begun"
  /\ invalidation' = [invalidation EXCEPT ![i].pc = "delete",
                                          ![i].left = members[TagKeyOf(i)]]
  /\ writer' = [v \in Writers |->
       IF UnderWay(v) /\ invalidation[i].tag \in TagsOf[v]
       THEN [writer[v] EXCEPT !.raced = TRUE] ELSE writer[v]]
  /\ UNCHANGED <<now, options, faults, redis, eraser, reply>>

(* One DEL removes up to BatchSize keys. *)
Batches(S) == {B \in SUBSET S : Cardinality(B) = IF Cardinality(S) < BatchSize
                                                 THEN Cardinality(S) ELSE BatchSize}

DeleteMembers(i, B) ==
  /\ invalidation[i].pc = "delete"
  /\ invalidation[i].left # {}
  /\ B \in Batches(invalidation[i].left)
  /\ entries' = Erased(B)
  /\ invalidation' = [invalidation EXCEPT ![i].left = @ \ B]
  /\ UNCHANGED <<now, options, faults, refs, members, index, locks, writer, eraser, reply>>

DeleteTagIndex(i) ==
  /\ invalidation[i].pc = "delete"
  /\ invalidation[i].left = {}
  /\ members' = [members EXCEPT ![TagKeyOf(i)] = {}]
  /\ invalidation' = [invalidation EXCEPT ![i].pc = "done"]
  /\ UNCHANGED <<now, options, faults, entries, refs, index, locks, writer, eraser, reply>>

-----------------------------------------------------------------------------
(* delete, deleteMany and clear *)

MayErase(e) == eraser[e].pc = "idle" /\ MayDisturb

(* DEL of a list of Redis keys. *)
Drop(N) ==
  /\ entries' = [k \in Keys |-> IF <<k, "entry">> \in N THEN None ELSE entries[k]]
  /\ refs' = [k \in Keys |-> IF <<k, "refs">> \in N THEN NoRefs ELSE refs[k]]
  /\ locks' = [k \in Keys |-> IF <<k, "lock">> \in N THEN None ELSE locks[k]]

AfterDeletes == IF useKeyIndex THEN "unindex" ELSE "done"

(* delete: the entry and its tags key, but not its memberships. *)
Delete(e, k) ==
  /\ MayErase(e)
  /\ Drop({<<k, "entry">>, <<k, "refs">>})
  /\ eraser' = [eraser EXCEPT ![e].pc = AfterDeletes, ![e].erased = {k}]
  /\ reply' = [op |-> "none"]
  /\ UNCHANGED <<now, options, faults, members, index, writer, invalidation>>

BeginDeleteMany(e, S) ==
  /\ MayErase(e)
  /\ eraser' = [eraser EXCEPT ![e].pc = "delete", ![e].left = S, ![e].erased = S]
  /\ UNCHANGED <<now, options, faults, redis, writer, invalidation, reply>>

(* The stored writes that a clear beginning now must remove. *)
Present ==
  {w \in Writers : /\ writer[w].stage = "addTags" /\ ~writer[w].unindexed
                   /\ Stored(KeyOf[w]) # None /\ Stored(KeyOf[w]).by = w}

(* clear: the keys of the key index, or those that SCAN finds. *)
BeginClear(e) ==
  /\ MayErase(e)
  /\ eraser' = [eraser EXCEPT
       ![e].owed = Present,
       ![e].pc = IF ~useKeyIndex THEN "scan"
                 ELSE IF index = {} THEN "done" ELSE "delete",
       ![e].left = IF useKeyIndex THEN index ELSE Keys,
       ![e].erased = IF useKeyIndex THEN index ELSE {}]
  /\ UNCHANGED <<now, options, faults, redis, writer, invalidation, reply>>

(* SCAN visits the keys one by one, in an order of its own, and reports    *)
(* those that exist: the lock and the tags key have the entry's prefix.    *)
Existing(k) ==
  {n \in {k} \X {"entry", "refs", "lock"} :
     CASE n[2] = "entry" -> Stored(k) # None
       [] n[2] = "refs" -> RefsOf(k) # {}
       [] OTHER -> Live(locks[k]) # None}

ScanKey(e, k) ==
  /\ eraser[e].pc = "scan"
  /\ Cardinality(eraser[e].names) < BatchSize
  /\ k \in eraser[e].left
  /\ eraser' = [eraser EXCEPT ![e].left = @ \ {k}, ![e].names = @ \union Existing(k)]
  /\ UNCHANGED <<now, options, faults, redis, writer, invalidation, reply>>

(* The buffer is deleted when it is full, and at the end. *)
DeleteScanned(e) ==
  /\ eraser[e].pc = "scan"
  /\ Cardinality(eraser[e].names) >= BatchSize \/ eraser[e].left = {}
  /\ Drop(eraser[e].names)
  /\ eraser' = [eraser EXCEPT ![e].names = {},
                              ![e].erased = @ \union {k \in Keys : <<k, "lock">> \in eraser[e].names},
                              ![e].pc = IF eraser[e].left = {} THEN "done" ELSE @]
  /\ reply' = [op |-> "none"]
  /\ UNCHANGED <<now, options, faults, members, index, writer, invalidation>>

DeleteListed(e, B) ==
  /\ eraser[e].pc = "delete"
  /\ eraser[e].left # {}
  /\ B \in Batches(eraser[e].left)
  /\ Drop(B \X {"entry"})
  /\ eraser' = [eraser EXCEPT ![e].left = @ \ B,
                              ![e].pc = IF B = eraser[e].left THEN AfterDeletes ELSE @]
  /\ reply' = [op |-> "none"]
  /\ UNCHANGED <<now, options, faults, members, index, writer, invalidation>>

LeaveKeyIndex(e) ==
  /\ eraser[e].pc = "unindex"
  /\ index' = index \ eraser[e].erased
  /\ eraser' = [eraser EXCEPT ![e].pc = "done"]
  /\ writer' = [w \in Writers |->
       IF KeyOf[w] \in eraser[e].erased /\ writer[w].stage = "addTags"
       THEN [writer[w] EXCEPT !.unindexed = TRUE] ELSE writer[w]]
  /\ UNCHANGED <<now, options, faults, entries, refs, members, locks,
                 invalidation, reply>>

Tick ==
  /\ now < MaxNow
  /\ now' = now + 1
  /\ UNCHANGED <<options, faults, redis, actors, reply>>

Write(w) ==
  \/ Observe(w) \/ AcquireLock(w) \/ SetEntryScript(w)
  \/ CompareCommand(w) \/ SetCommand(w) \/ ReadRefs(w) \/ Unrefer(w)
  \/ \E m \in TagKeys : LeaveIndex(w, m) \/ EnterIndex(w, m)
  \/ ReferIndexes(w) \/ ExpireRefs(w) \/ EnterKeyIndex(w)
  \/ ReleaseLock(w) \/ DeleteLock(w)

Invalidate(i) ==
  \/ BeginInvalidate(i) \/ InvalidateScript(i) \/ ReadMembers(i)
  \/ \E B \in SUBSET Keys : DeleteMembers(i, B)
  \/ DeleteTagIndex(i)

Erase(e) ==
  \/ \E k \in Keys : Delete(e, k) \/ ScanKey(e, k)
  \/ \E S \in SUBSET Keys \ {{}} : BeginDeleteMany(e, S)
  \/ BeginClear(e) \/ DeleteScanned(e) \/ LeaveKeyIndex(e)
  \/ \E B \in SUBSET Keys : DeleteListed(e, B)

Next ==
  \/ \E w \in Writers : Write(w) \/ Fail(w)
  \/ \E i \in Invalidations : Invalidate(i)
  \/ \E e \in Erasers : Erase(e)
  \/ Tick

Spec == Init /\ [][Next]_vars

-----------------------------------------------------------------------------
(* Properties *)

(* A write that is over, its tags registered, does not survive an          *)
(* invalidation of one of them that begins later, whatever runs meanwhile: *)
(* other writes of the key, other invalidations, a delete, a clear, a      *)
(* failing command.  Without scripts this is so unless a second write of   *)
(* the key or an invalidation of the tag ran beside the write itself.      *)
InvalidationReaches ==
  \A i \in Invalidations : invalidation[i].pc = "done" =>
    \A w \in invalidation[i].owed :
      Stored(KeyOf[w]) # None => Stored(KeyOf[w]).by # w

(* redis.ts:101: the namespace of tag indexes "defaults to the value       *)
(* passed at call time", so that what is stored is at any moment within    *)
(* the reach of invalidateTag.  It needs the scripts and, in fact, a       *)
(* storage created with the namespace.                                     *)
AlwaysRegistered ==
  mode = "scripts" =>
    \A k \in Keys : Stored(k) # None =>
      \A t \in TagsOf[Stored(k).by] : k \in members[<<t, "runtime">>]

(* A clear removes every entry whose write was over when it began, also if *)
(* it runs in batches beside writers that replace and index the same keys. *)
(* The key index forgets a key that was written again between the DEL and  *)
(* the SREM of an earlier eraser (redis.ts:378): that entry is passed over.*)
ClearReaches ==
  \A e \in Erasers : eraser[e].pc = "done" =>
    \A w \in eraser[e].owed :
      Stored(KeyOf[w]) # None => Stored(KeyOf[w]).by # w

(* A lock that has not expired disappears only by its holder's own release,*)
(* by a SCAN of clear(), or, without scripts, by a release between whose   *)
(* GET and DEL the lease ran out or a clear() took the lock away.          *)
LockKeptFromPeers ==
  [][\A k \in Keys : Live(locks[k]) # None /\ locks'[k] # locks[k] =>
       \/ HoldsLock(locks[k].by) /\ writer'[locks[k].by].pc = "done"
       \/ \E e \in Erasers : <<k, "lock">> \in eraser[e].names
       \/ \E w \in Writers :
            /\ mode = "commands" /\ writer[w].pc = "unlock" /\ KeyOf[w] = k
            /\ \/ writer[w].lease <= now
               \/ \E e \in Erasers : ~useKeyIndex /\ k \in eraser[e].erased]_vars

(* README.md:115: an entry with a stale window stays usable for that long  *)
(* after its ttl.                                                          *)
StaleWindowKept ==
  [][\A k \in Keys :
       now' > now /\ Stored(k) # None /\ now' < entries[k].until + StaleTtl
       => Stored(k)' # None]_vars

(* With scripts the storage keeps the contract of the CacheStorage         *)
(* interface, but for tags that an entry may have kept from an earlier one *)
(* of its key: delete and INVALIDATE_TAG leave memberships behind.         *)
Contract == INSTANCE StorageContract WITH
  Exact <- FALSE, Revisions <- 1..Cardinality(Writers),
  stored <- [k \in Keys |->
    IF mode = "scripts" /\ Stored(k) # None
    THEN [rev |-> Stored(k).rev,
          tags |-> {t \in Tags : k \in members[<<t, "runtime">>]}]
    ELSE Absent]

KeepsContract == Contract!Spec
=============================================================================
