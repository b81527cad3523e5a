--------------------------- MODULE MemoryStorage ---------------------------
(***************************************************************************)
(* The process-local storage of src/memory.ts: entries in a Map whose      *)
(* insertion order is the LRU order, a tag index of Sets in insertion      *)
(* order, a running byte count, and lazy expiry.  (Its locks live in a Map *)
(* of their own and are not part of this module.)                          *)
(*                                                                         *)
(* A method runs to its return without awaiting, so each is one step.  The *)
(* Maps and the byte count are one record `mem`, and the private functions *)
(* of the code are operators that take such a record and return the next.  *)
(***************************************************************************)
EXTENDS OrderedSets

CONSTANTS Keys, Tags, Absent,
          Inputs,          \* tags, size, ttl and staleTtl of written entries
          Cleanup,         \* "lazy", "interval" or "none"
          CleanupInterval,
          UpdateAgeOnGet,
          MaxEntries, MaxSizeBytes, TagIndexLimit,
          MaxRevision, MaxNow

ASSUME StorageAssumption ==
  /\ Inputs \subseteq [tags : SUBSET Tags, size : Nat, ttl : Nat, stale : Nat]
  /\ Cleanup \in {"lazy", "interval", "none"}
  /\ UpdateAgeOnGet \in BOOLEAN
  /\ {CleanupInterval, MaxEntries, MaxSizeBytes, MaxRevision, MaxNow}
       \subseteq Nat
  /\ TagIndexLimit \in Nat \ {0}
  /\ Absent \notin [rev : 1..MaxRevision, tags : SUBSET Tags]

VARIABLES mem, lastSweep, now,
          reply  \* history: the last operation, and what it answered

vars == <<mem, lastSweep, now, reply>>

Revisions == 1..MaxRevision

NoReply == [op |-> "none"]

(* A StoredRecord; staleUntil is 0 when the entry has no stale window. *)
Record == [rev : Revisions, tags : SUBSET Tags, size : Nat,
           expiresAt : Nat, staleUntil : Nat]

Stored(m) == DOMAIN m.records

TypeOK ==
  /\ Stored(mem) \subseteq Keys /\ \A k \in Stored(mem) : mem.records[k] \in Record
  /\ IsInjective(mem.order) /\ Range(mem.order) = Stored(mem)
  /\ mem.index \in [Tags -> Seq(Keys)]
  /\ mem.bytes \in Nat
  /\ lastSweep \in Nat /\ now \in Nat

Init ==
  /\ mem = [records |-> <<>>, order |-> <<>>,
            index |-> [t \in Tags |-> <<>>], bytes |-> 0]
  /\ lastSweep = 0 /\ now = 0
  /\ reply = NoReply

-----------------------------------------------------------------------------
(* Private functions *)

RetentionDeadline(r) == IF r.staleUntil > r.expiresAt THEN r.staleUntil
                                                      ELSE r.expiresAt

SizeOf(m, S) == MapThenSumSet(LAMBDA k : m.records[k].size, S)

UnregisteredNever(m, S) == m.index

Unregistered(m, S) ==
  LET tagged(t) == {k \in S : t \in m.records[k].tags}
  IN  [t \in Tags |-> Filter(m.index[t], Keys \ tagged(t))]

(* remove, of every key of a set. *)
Removed(m, keys) ==
  LET gone == keys \intersect Stored(m)
  IN  [records |-> Restrict(m.records, Stored(m) \ gone),
       order |-> Filter(m.order, Keys \ gone),
       index |-> Unregistered(m, gone),
       bytes |-> m.bytes - SizeOf(m, gone)]

Expired(m) == {k \in Stored(m) : now >= RetentionDeadline(m.records[k])}

ReadRetained(m, k) == m

(* read: an expired record is removed on the way. *)
Read(m, k) == Removed(m, Expired(m) \intersect {k})

SweepDue == Cleanup # "none" /\ now - lastSweep >= CleanupInterval

MaybeSwept(m) == IF SweepDue THEN Removed(m, Expired(m)) ELSE m

MaybeSweep == lastSweep' = IF SweepDue THEN now ELSE lastSweep

WithinBudgets(m) ==
  Len(m.order) <= MaxEntries /\ m.bytes <= MaxSizeBytes

EvictedByCount(m) ==
  IF Len(m.order) <= MaxEntries THEN m ELSE Removed(m, {Head(m.order)})

(* enforceBudgets: the least recently used go until the rest fits. *)
Evicted(m) ==
  LET Without(i) == Removed(m, ToSet(SubSeq(m.order, 1, i)))
      least == CHOOSE i \in 0..Len(m.order) :
             /\ WithinBudgets(Without(i))
             /\ \A j \in 0..(i - 1) : ~WithinBudgets(Without(j))
  IN  Without(least)

TrimmedAtLimit(s) ==
  IF Len(s) < TagIndexLimit THEN s
  ELSE SubSeq(s, Len(s) - TagIndexLimit + 2, Len(s))

(* A Set that remembers its newest TagIndexLimit members. *)
Trimmed(s) == IF Len(s) <= TagIndexLimit THEN s
              ELSE SubSeq(s, Len(s) - TagIndexLimit + 1, Len(s))

WrittenOver(m, k, r) ==
  LET rest == Removed(m, {k})
  IN  Evicted([records |-> [j \in Stored(rest) \union {k} |->
                              IF j = k THEN r ELSE rest.records[j]],
               order |-> Append(rest.order, k),
               index |-> [t \in Tags |->
                            IF t \in r.tags
                            THEN Trimmed(SetAdd(rest.index[t], k))
                            ELSE rest.index[t]],
               bytes |-> m.bytes + r.size])

Written(m, k, r) ==
  LET rest == Removed(m, {k})
  IN  Evicted([records |-> [j \in Stored(rest) \union {k} |->
                              IF j = k THEN r ELSE rest.records[j]],
               order |-> Append(rest.order, k),
               index |-> [t \in Tags |->
                            IF t \in r.tags
                            THEN Trimmed(SetAdd(rest.index[t], k))
                            ELSE rest.index[t]],
               bytes |-> rest.bytes + r.size])

TouchedAgain(m, k) ==
  IF k \in Stored(m) THEN [m EXCEPT !.order = Append(@, k)] ELSE m

Touched(m, k) ==
  IF UpdateAgeOnGet /\ k \in Stored(m)
  THEN [m EXCEPT !.order = Append(Filter(@, Keys \ {k}), k)]
  ELSE m

RevisionOf(m, k) == IF k \in Stored(m) THEN m.records[k].rev ELSE 0

(* The entry a caller writes now. *)
RecordOf(input, rev) ==
  [rev |-> rev, tags |-> input.tags, size |-> input.size,
   expiresAt |-> now + input.ttl,
   staleUntil |-> IF input.stale = 0 THEN 0 ELSE now + input.ttl + input.stale]

-----------------------------------------------------------------------------
(* Methods *)

Get(k) ==
  /\ LET m == Read(MaybeSwept(mem), k)
     IN  /\ mem' = Touched(m, k)
         /\ reply' = [op |-> "get", key |-> k, rev |-> RevisionOf(m, k)]
  /\ MaybeSweep
  /\ UNCHANGED now

Has(k) ==
  /\ mem' = Read(mem, k)
  /\ UNCHANGED <<lastSweep, now, reply>>

Set(k, input, rev, onlyIfNewer) ==
  /\ LET m == IF onlyIfNewer THEN Read(MaybeSwept(mem), k)
                             ELSE MaybeSwept(mem)
     IN  mem' = IF onlyIfNewer /\ RevisionOf(m, k) >= rev THEN m
                ELSE Written(m, k, RecordOf(input, rev))
  /\ reply' = NoReply
  /\ MaybeSweep
  /\ UNCHANGED now

CompareAndSet(k, input, expected) ==
  /\ expected < MaxRevision
  /\ LET m == Read(MaybeSwept(mem), k)
         agrees == RevisionOf(m, k) = expected
     IN  /\ mem' = IF agrees THEN Written(m, k, RecordOf(input, expected + 1))
                             ELSE m
         /\ reply' = [op |-> "compareAndSet", key |-> k,
                      expected |-> expected, written |-> agrees]
  /\ MaybeSweep
  /\ UNCHANGED now

(* delete, deleteMany, and clear of the keys that have a prefix. *)
Delete(S) ==
  /\ mem' = Removed(mem, S)
  /\ reply' = NoReply
  /\ UNCHANGED <<lastSweep, now>>

(* clear without a prefix; close does the same. *)
Clear ==
  /\ mem' = [Removed(mem, Keys) EXCEPT !.index = [t \in Tags |-> <<>>]]
  /\ reply' = NoReply
  /\ UNCHANGED <<lastSweep, now>>

AddTags(k, T) ==
  /\ mem' = IF k \notin Stored(mem) THEN mem
            ELSE [mem EXCEPT
                    !.records[k].tags = @ \union T,
                    !.index = [t \in Tags |-> IF t \in T THEN SetAdd(@[t], k)
                                                         ELSE @[t]]]
  /\ reply' = NoReply
  /\ UNCHANGED <<lastSweep, now>>

InvalidateTag(t) ==
  /\ mem' = [Removed(mem, ToSet(mem.index[t])) EXCEPT !.index[t] = <<>>]
  /\ reply' = [op |-> "invalidateTag", tag |-> t]
  /\ UNCHANGED <<lastSweep, now>>

(* The interval timer's sweep. *)
Sweep ==
  /\ Cleanup = "interval"
  /\ mem' = Removed(mem, Expired(mem))
  /\ lastSweep' = now
  /\ UNCHANGED <<now, reply>>

Tick ==
  /\ now < MaxNow
  /\ now' = now + 1
  /\ UNCHANGED <<mem, lastSweep, reply>>

Next ==
  \/ \E k \in Keys : Get(k) \/ Has(k)
  \/ \E k \in Keys, i \in Inputs, rev \in Revisions, b \in BOOLEAN :
       Set(k, i, rev, b)
  \/ \E k \in Keys, i \in Inputs, x \in 0..MaxRevision : CompareAndSet(k, i, x)
  \/ \E S \in SUBSET Keys : Delete(S)
  \/ \E k \in Keys, T \in SUBSET Tags : AddTags(k, T)
  \/ \E t \in Tags : InvalidateTag(t)
  \/ Clear \/ Sweep \/ Tick

Spec == Init /\ [][Next]_vars

-----------------------------------------------------------------------------
(* Properties *)

(* The running byte count is the sum of the sizes of what is stored,       *)
(* through overwrites, evictions, expiries and invalidations of all kinds. *)
BytesExact == mem.bytes = SizeOf(mem, Stored(mem))

(* No operation leaves the storage above its budgets. *)
BudgetsKept == WithinBudgets(mem)

(* The tag index names only entries that are stored and carry the tag, so  *)
(* that an invalidation deletes nothing else and no Set outlives its keys. *)
IndexSound ==
  \A t \in Tags :
    /\ IsInjective(mem.index[t])
    /\ \A k \in ToSet(mem.index[t]) :
         k \in Stored(mem) /\ t \in mem.records[k].tags

(* Every stored entry is found under each of its tags, so that invalidating*)
(* a tag reaches it.  The limit must exceed maxEntries: a full Set forgets *)
(* its oldest key, which the LRU order may keep.                           *)
IndexComplete ==
  \A k \in Stored(mem) : \A t \in mem.records[k].tags :
    Contains(mem.index[t], k)

(* The storage keeps the contract of the CacheStorage interface: what a    *)
(* caller observes is the retained entries, with their tags.               *)
Contract == INSTANCE StorageContract WITH
  Exact <- TRUE,
  stored <- [k \in Keys |->
               IF k \in Stored(mem) \ Expired(mem)
               THEN [rev |-> mem.records[k].rev, tags |-> mem.records[k].tags]
               ELSE Absent]

KeepsContract == Contract!Spec
=============================================================================
