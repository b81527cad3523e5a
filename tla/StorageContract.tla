-------------------------- MODULE StorageContract --------------------------
(***************************************************************************)
(* What a CacheStorage promises its callers: the optional capabilities of  *)
(* the interface in src/types.ts, with no word of how they are kept.  A    *)
(* storage may lose an entry at any time, to expiry or to eviction; it may *)
(* never invent one, return one that has expired, keep one that carries an *)
(* invalidated tag, or overwrite one whose revision was not the expected.  *)
(***************************************************************************)
EXTENDS Integers

CONSTANTS Keys, Tags, Absent,
          Exact,     \* an entry carries no tag it was not written with
          Revisions  \* of entries, positive: 0 stands for no entry

VARIABLES stored, \* the entry a caller can observe under each key
          reply   \* the last operation, and what it answered

vars == <<stored, reply>>

NoReply == [op |-> "none"]

(* An observable entry: its revision and the tags it carries. *)
Visible == [rev : Revisions, tags : SUBSET Tags]

Revision(k) == IF stored[k] = Absent THEN 0 ELSE stored[k].rev

(* Some of the entries of S may have been lost. *)
Shrinks(S) == \A k \in S : stored'[k] \in {stored[k], Absent}

Without(S) == [k \in Keys |-> IF k \in S THEN Absent ELSE stored[k]]

Init == stored = [k \in Keys |-> Absent] /\ reply = NoReply

Get(k) ==
  /\ UNCHANGED stored
  /\ reply' = [op |-> "get", key |-> k, rev |-> Revision(k)]

(* Writing one entry may cost any other, and even the entry itself. *)
Put(k, e) ==
  /\ stored' \in [Keys -> Visible \union {Absent}]
  /\ \/ stored'[k] \in {e, Absent}
     \/ ~Exact /\ stored'[k].rev = e.rev /\ e.tags \subseteq stored'[k].tags
  /\ Shrinks(Keys \ {k})

Set(k, e, onlyIfNewer) ==
  /\ IF onlyIfNewer /\ stored[k] # Absent /\ stored[k].rev >= e.rev
     THEN UNCHANGED stored
     ELSE Put(k, e)
  /\ reply' = NoReply

CompareAndSet(k, e, expected) ==
  /\ IF Revision(k) = expected THEN Put(k, e) ELSE UNCHANGED stored
  /\ reply' = [op |-> "compareAndSet", key |-> k, expected |-> expected,
               written |-> Revision(k) = expected]

Delete(S) ==
  /\ stored' = Without(S)
  /\ reply' = NoReply

AddTags(k, T) ==
  /\ stored' = IF stored[k] = Absent THEN stored
               ELSE [stored EXCEPT ![k].tags = @ \union T]
  /\ reply' = NoReply

(* Remove every entry carrying the tag, and no other. *)
InvalidateTag(t) ==
  /\ stored' = Without({k \in Keys : stored[k] # Absent
                                     /\ t \in stored[k].tags})
  /\ reply' = [op |-> "invalidateTag", tag |-> t]

Expire ==
  /\ stored' \in [Keys -> Visible \union {Absent}]
  /\ Shrinks(Keys)
  /\ UNCHANGED reply

Next ==
  \/ \E k \in Keys : Get(k)
  \/ \E k \in Keys, e \in Visible, b \in BOOLEAN : Set(k, e, b)
  \/ \E k \in Keys, e \in Visible, x \in Revisions \union {0} : CompareAndSet(k, e, x)
  \/ \E S \in SUBSET Keys : Delete(S)
  \/ \E k \in Keys, T \in SUBSET Tags : AddTags(k, T)
  \/ \E t \in Tags : InvalidateTag(t)
  \/ Expire

Spec == Init /\ [][Next]_vars
=============================================================================
