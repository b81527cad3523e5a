------------------------------ MODULE TagIndex ------------------------------
(***************************************************************************)
(* The tag index fallback of src/tag-index.ts, for storages without native *)
(* tags (the KV adapter and custom ones): one tag's index entry, a list of *)
(* entry keys, that writers extend in a read-modify-write loop and that    *)
(* invalidations read, act upon and delete.                                *)
(*                                                                         *)
(* Every storage call is a step of its own.  The storage expires what it   *)
(* holds by the ttlMs of the call that wrote it (src/kv.ts).               *)
(***************************************************************************)
EXTENDS Integers, FiniteSets, SequencesExt

CONSTANTS Adders,        \* calls of writeEntry: store an entry, then add()
          KeyOf,         \* the entry key each of them writes
          Invalidations, \* calls of invalidate()
          None,          \* nothing is stored under a key
          CasModes,      \* the storage's compareAndSet: "atomic",
                         \* "emulated" (by get and set) or "none"
          CasRetries,    \* CAS_RETRIES
          MaxKeysPerTag,
          Ttl,           \* ttlMs of every entry
          MaxNow

ASSUME IndexAssumption ==
  /\ CasModes \subseteq {"atomic", "emulated", "none"}
  /\ {CasRetries, MaxKeysPerTag, Ttl} \subseteq Nat \ {0}
  /\ MaxNow \in Nat
  /\ IsFiniteSet(Adders) /\ IsFiniteSet(Invalidations)

VARIABLES now, entries, index, adder, invalidation,
          cas  \* the mode of this storage; it never changes

vars == <<now, entries, index, adder, invalidation, cas>>

Keys == {KeyOf[a] : a \in Adders}

(* An entry is named after the call that wrote it. *)
Entry == [by : Adders, until : Nat]

Index == [rev : Nat \ {0}, keys : Seq(Keys), until : Nat]

(* seen: the index entry the last read returned; tries: attempts begun. *)
Adder == [pc : {"idle", "read", "compare", "set", "added", "failed"},
          seen : Index \union {None}, tries : Nat]

(* keys: those still to delete; owed: history, the writes that were over,  *)
(* their membership included, when the invalidation began.                 *)
Invalidation == [pc : {"idle", "read", "delete", "done"},
                 keys : Seq(Keys), owed : SUBSET Adders]

ASSUME NoneAssumption == None \notin Entry \union Index

TypeOK ==
  /\ now \in Nat
  /\ entries \in [Keys -> Entry \union {None}]
  /\ index \in Index \union {None}
  /\ adder \in [Adders -> Adder]
  /\ invalidation \in [Invalidations -> Invalidation]
  /\ cas \in CasModes

Init ==
  /\ now = 0
  /\ entries = [k \in Keys |-> None]
  /\ index = None
  /\ adder = [a \in Adders |-> [pc |-> "idle", seen |-> None, tries |-> 0]]
  /\ invalidation = [i \in Invalidations |->
                       [pc |-> "idle", keys |-> <<>>, owed |-> {}]]
  /\ cas \in CasModes

(* What the storage returns for a record. *)
Live(r) == IF r # None /\ now < r.until THEN r ELSE None

RevisionOf(r) == IF r = None THEN 0 ELSE r.rev

(* decodeIndex *)
Members(r) == IF r = None THEN <<>> ELSE r.keys

-----------------------------------------------------------------------------
(* add *)

WriteEntry(a) ==
  /\ adder[a].pc = "idle"
  /\ entries' = [entries EXCEPT ![KeyOf[a]] = [by |-> a, until |-> now + Ttl]]
  /\ adder' = [adder EXCEPT ![a].pc = "read"]
  /\ UNCHANGED <<now, index, invalidation, cas>>

ReadIndex(a) ==
  /\ adder[a].pc = "read"
  /\ LET was == adder[a]
     IN  adder' = [adder EXCEPT ![a] =
           IF Contains(Members(Live(index)), KeyOf[a])
           THEN [was EXCEPT !.pc = "added"]
           ELSE [was EXCEPT !.pc = IF cas = "none" THEN "set" ELSE "compare",
                            !.seen = Live(index), !.tries = was.tries + 1]]
  /\ UNCHANGED <<now, entries, index, invalidation, cas>>

(* The newest MaxKeysPerTag members, the key appended. *)
Extended(s, k) ==
  LET keys == Append(s, k)
      extra == Len(keys) - MaxKeysPerTag
  IN  IF extra > 0 THEN SubSeq(keys, extra + 1, Len(keys)) ELSE keys

StoreSameRevision(a) ==
  /\ index' = [rev |-> RevisionOf(adder[a].seen),
               keys |-> Extended(Members(adder[a].seen), KeyOf[a]),
               until |-> now + Ttl]
  /\ adder' = [adder EXCEPT ![a].pc = "added", ![a].seen = None]

StoreIndex(a) ==
  /\ index' = [rev |-> RevisionOf(adder[a].seen) + 1,
               keys |-> Extended(Members(adder[a].seen), KeyOf[a]),
               until |-> now + Ttl]
  /\ adder' = [adder EXCEPT ![a].pc = "added", ![a].seen = None]

GivesUpEarly(a) == adder[a].tries >= CasRetries - 1

GivesUp(a) == adder[a].tries >= CasRetries

Retry(a) ==
  adder' = [adder EXCEPT ![a].pc = IF GivesUp(a) THEN "failed" ELSE "read",
                         ![a].seen = None]

Agrees(a) == RevisionOf(Live(index)) = RevisionOf(adder[a].seen)

(* compareAndSet; an emulated one only reads here and writes later. *)
CompareIndex(a) ==
  /\ adder[a].pc = "compare"
  /\ \/ Agrees(a) /\ cas = "atomic" /\ StoreIndex(a)
     \/ /\ Agrees(a) /\ cas = "emulated"
        /\ adder' = [adder EXCEPT ![a].pc = "set"]
        /\ UNCHANGED index
     \/ ~Agrees(a) /\ Retry(a) /\ UNCHANGED index
  /\ UNCHANGED <<now, entries, invalidation, cas>>

SetIndex(a) ==
  /\ adder[a].pc = "set"
  /\ StoreIndex(a)
  /\ UNCHANGED <<now, entries, invalidation, cas>>

-----------------------------------------------------------------------------
(* invalidate *)

(* The writes that are in the storage with their membership registered. *)
Registered ==
  {a \in Adders : /\ adder[a].pc = "added"
                  /\ Live(entries[KeyOf[a]]) # None
                  /\ entries[KeyOf[a]].by = a}

BeginInvalidate(i) ==
  /\ invalidation[i].pc = "idle"
  /\ invalidation' = [invalidation EXCEPT ![i].pc = "read",
                                          ![i].owed = Registered]
  /\ UNCHANGED <<now, entries, index, adder, cas>>

ReadKeys(i) ==
  /\ invalidation[i].pc = "read"
  /\ invalidation' = [invalidation EXCEPT ![i].pc = "delete",
                                          ![i].keys = Members(Live(index))]
  /\ UNCHANGED <<now, entries, index, adder, cas>>

DeleteLast(i) ==
  /\ invalidation[i].pc = "delete"
  /\ invalidation[i].keys # <<>>
  /\ entries' = [entries EXCEPT ![Last(invalidation[i].keys)] = None]
  /\ invalidation' = [invalidation EXCEPT ![i].keys = <<>>]
  /\ UNCHANGED <<now, index, adder, cas>>

DeleteEntry(i) ==
  /\ invalidation[i].pc = "delete"
  /\ invalidation[i].keys # <<>>
  /\ entries' = [entries EXCEPT ![Head(invalidation[i].keys)] = None]
  /\ invalidation' = [invalidation EXCEPT ![i].keys = Tail(@)]
  /\ UNCHANGED <<now, index, adder, cas>>

DeleteIndex(i) ==
  /\ invalidation[i].pc = "delete"
  /\ invalidation[i].keys = <<>>
  /\ index' = None
  /\ invalidation' = [invalidation EXCEPT ![i].pc = "done"]
  /\ UNCHANGED <<now, entries, adder, cas>>

Tick ==
  /\ now < MaxNow
  /\ now' = now + 1
  /\ UNCHANGED <<entries, index, adder, invalidation, cas>>

Next ==
  \/ \E a \in Adders : WriteEntry(a) \/ ReadIndex(a) \/ CompareIndex(a)
                                     \/ SetIndex(a)
  \/ \E i \in Invalidations : BeginInvalidate(i) \/ ReadKeys(i)
                              \/ DeleteEntry(i) \/ DeleteIndex(i)
  \/ Tick

Spec == Init /\ [][Next]_vars

-----------------------------------------------------------------------------
(* Properties *)

(* tag-index.ts:13-17: a membership lost to a concurrent writer never      *)
(* means that stale data is kept after an invalidation.                    *)
NothingKept ==
  \A i \in Invalidations : invalidation[i].pc = "done" =>
    \A a \in invalidation[i].owed :
      entries[KeyOf[a]] # None => entries[KeyOf[a]].by # a

(* Over an atomic compareAndSet, nothing that was written and registered   *)
(* before an invalidation began survives it: concurrent writers lose no    *)
(* membership.  (As long as the index is neither deleted by an earlier     *)
(* invalidation nor expires: its revision then begins again at 1, and a    *)
(* writer that has read the old one may overwrite the new.)                *)
InvalidationReaches ==
  cas = "atomic" => NothingKept

(* A writer gives up on its membership only after each of its attempts was *)
(* beaten by a different writer, by an invalidation or by the expiry of    *)
(* the index.                                                              *)
GivesUpOnlyWhenBeaten ==
  \A a \in Adders : adder[a].pc = "failed" =>
    CasRetries <= Cardinality({b \in Adders \ {a} : adder[b].pc = "added"})
                + Cardinality({i \in Invalidations :
                                 invalidation[i].pc = "done"})
                + now \div Ttl
=============================================================================
