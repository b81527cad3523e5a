--------------------------- MODULE PayloadsProofs ---------------------------
(***************************************************************************)
(* What a call is served was stored for it and is what its serializer      *)
(* promises to keep, and a call whose entry nobody disturbs leaves one it  *)
(* can read: proved of Payloads for every set of processes and scenarios,  *)
(* for every key of a call that is given to calls that may share it only,  *)
(* and for all serializers that read what they wrote and share no name.    *)
(*                                                                         *)
(* Whatever a storage holds under a key, one of the processes that use the *)
(* key has written it, and only the wear of the storage has changed it     *)
(* since: this is what makes ServedAsStored inductive.  Recached looks at  *)
(* processes at rest; its strengthening says what is known of the entry    *)
(* while an operation is under way.                                        *)
(*                                                                         *)
(* The second half is about the keys of Keys: calls that get one key are   *)
(* of one scope, namespace and version, so that nothing is served across   *)
(* them.  A key is read from its ends, where its parts are of a fixed      *)
(* length, end in a hash or begin with a token that occurs nowhere else.   *)
(* Concatenation is an operator, Cat, that is not expanded: of \o the      *)
(* provers are told by the lemmas on texts what each step needs.           *)
(***************************************************************************)
EXTENDS Payloads, Keys, FiniteSetTheorems, SequenceTheorems, TLAPS

WrittenBy(p) ==
  [intact : BOOLEAN, value : {PrepareBytes(Setup(p), scenario.data), Spoilt},
   compressed : {Setup(p).compression},
   serializer : {NameOf(Setup(p).serializer)},
   revision : Nat, expires : Int, stale : Int,
   by : {scenario.call[p]}, data : {scenario.data},
   writer : {Setup(p).serializer}]

TypeOK ==
  /\ scenario \in Scenarios
  /\ key = [p \in Processes |-> EntryKey(scenario.call[p])]
  /\ now \in Nat
  /\ DOMAIN process = Processes
  /\ \A p \in Processes : /\ process[p].pc \in {"idle", "drop", "write", "raw"}
                          /\ process[p].observed \in Nat
  /\ settled \subseteq Processes

Origin ==
  \A k \in DOMAIN store :
    \E p \in Processes : /\ key[p] = k
                         /\ Prepares(Setup(p), scenario.data)
                         /\ store[k] \in WrittenBy(p)

(* What a process was served was stored under its key.                     *)
ServedUnderKey ==
  \A p \in Processes :
    LET s == process[p].served
    IN s # None => \E q \in Processes : /\ s.by = scenario.call[q]
                                        /\ EntryKey(s.by) = EntryKey(scenario.call[p])

(* A rawSet goes on with what can be prepared only. *)
Prepared ==
  \A p \in Processes : process[p].pc = "raw" => Prepares(Setup(p), scenario.data)

(* What an undisturbed operation leaves, or will find when it goes on: the *)
(* revision it observed.                                                   *)
Ready(p) ==
  /\ process[p].pc = "idle" => Found(p) /\ Readable(Setup(p), Entry(p))
  /\ process[p].pc \in {"write", "raw"} => Accepted(p)

Undisturbed == \A p \in settled : Ready(p)

IInv ==
  TypeOK /\ Origin /\ Prepared /\ ServedUnderKey /\ ServedAsStored /\ Undisturbed

-----------------------------------------------------------------------------
(* The conversions between an entry and what a storage keeps of it leave   *)
(* all but the times of the entry as they are.                             *)
LEMMA KeptByStorage ==
  ASSUME NEW p \in Processes, NEW q \in Processes, Held(p),
         store[key[p]] \in WrittenBy(q)
  PROVE  /\ Entry(p).value = store[key[p]].value
         /\ Entry(p).compressed = Setup(q).compression
         /\ Entry(p).serializer = NameOf(Setup(q).serializer)
         /\ Entry(p).writer = Setup(q).serializer
         /\ Entry(p).revision = store[key[p]].revision
         /\ Entry(p).by = scenario.call[q]
         /\ Entry(p).data = scenario.data
<1> DEFINE e == store[key[p]]
<1>1. /\ e.compressed = Setup(q).compression
      /\ e.serializer = NameOf(Setup(q).serializer)
      /\ e.writer = Setup(q).serializer
      /\ e.by = scenario.call[q]
      /\ e.data = scenario.data
  BY DEF WrittenBy
<1>2. Entry(p) = e \/ Entry(p) = FromMeta(e)
  BY DEF Entry, Decoded
<1>3. /\ FromMeta(e).value = e.value
      /\ FromMeta(e).compressed = e.compressed
      /\ FromMeta(e).serializer = e.serializer
      /\ FromMeta(e).writer = e.writer
      /\ FromMeta(e).revision = e.revision
      /\ FromMeta(e).by = e.by
      /\ FromMeta(e).data = e.data
  BY DEF FromMeta, WrittenBy
<1> QED
  BY <1>1, <1>2, <1>3

(* What a process reads under its key was written by one that uses it.     *)
LEMMA Writer ==
  ASSUME TypeOK, Origin, NEW p \in Processes, Held(p)
  PROVE  \E q \in Processes :
           /\ EntryKey(scenario.call[q]) = EntryKey(scenario.call[p])
           /\ Prepares(Setup(q), scenario.data)
           /\ store[key[p]] \in WrittenBy(q)
BY DEF TypeOK, Origin, Held

(* The revision a process observes is a number. *)
LEMMA RevisionType ==
  ASSUME TypeOK, Origin, NEW p \in Processes
  PROVE  Revision(p) \in Nat
<1>1. CASE Found(p)
  <2>1. PICK q \in Processes : store[key[p]] \in WrittenBy(q)
    BY <1>1, Writer DEF Found
  <2>2. Entry(p).revision = store[key[p]].revision
    BY <1>1, <2>1, KeptByStorage DEF Found
  <2> QED
    BY <1>1, <2>1, <2>2 DEF Revision, WrittenBy
<1> QED
  BY <1>1 DEF Revision

(* Bytes that go through decompression and the parser were not spoilt: no  *)
(* compression is called so.                                               *)
LEMMA Intact ==
  ASSUME TypeOK, NEW p \in Processes, NEW q \in Processes, Held(p),
         store[key[p]] \in WrittenBy(q), Deserializes(Setup(p), Entry(p))
  PROVE  Entry(p).value = PrepareBytes(Setup(q), scenario.data)
<1>1. Entry(p).value \in {PrepareBytes(Setup(q), scenario.data), Spoilt}
  BY KeptByStorage DEF WrittenBy
<1>2. Entry(p).compressed = Setup(q).compression
  BY KeptByStorage
<1>3. Setup(q).compression # "spoilt"
  BY PayloadsAssumption DEF TypeOK, Setup
<1>4. Entry(p).value[1] # "spoilt"
  BY <1>2, <1>3 DEF Deserializes
<1> QED
  BY <1>1, <1>4 DEF Spoilt

(* Whatever deserializes is what the caller may be served.                 *)
LEMMA Serve ==
  ASSUME TypeOK, Origin, NEW p \in Processes, NEW raw \in BOOLEAN,
         Held(p), Deserializes(Setup(p), Entry(p)),
         raw \/ ~Mismatched(Setup(p), Entry(p))
  PROVE  LET s == Served(p, raw)
         IN /\ \E q \in Processes : /\ s.by = scenario.call[q]
                                    /\ EntryKey(s.by) = EntryKey(scenario.call[p])
            /\ MayShare(s.by, scenario.call[p])
            /\ \/ s.writer = Setup(p).serializer \/ s.raw
               \/ None \in {NameOf(s.writer), NameOf(Setup(p).serializer)}
            /\ s.writer = Setup(p).serializer =>
                 Promised(Setup(p).serializer, s.data, s.got)
<1>1. PICK q \in Processes :
        /\ EntryKey(scenario.call[q]) = EntryKey(scenario.call[p])
        /\ Prepares(Setup(q), scenario.data)
        /\ store[key[p]] \in WrittenBy(q)
  BY Writer
<1>2. /\ Entry(p).serializer = NameOf(Setup(q).serializer)
      /\ Entry(p).writer = Setup(q).serializer
      /\ Entry(p).by = scenario.call[q]
      /\ Entry(p).data = scenario.data
  BY <1>1, KeptByStorage
<1>3. MayShare(scenario.call[q], scenario.call[p])
  BY <1>1, KeyAssumption DEF TypeOK
<1>4. ASSUME Setup(q).serializer = Setup(p).serializer
      PROVE  Promised(Setup(q).serializer, scenario.data,
                      Deserialize(Setup(p), Entry(p)))
  <2>1. Entry(p).value[2] = Serialized(Setup(q).serializer, scenario.data)
    BY <1>1, Intact DEF PrepareBytes
  <2>2. Promised(Setup(q).serializer, scenario.data,
                 Parsed(Setup(q).serializer,
                        Serialized(Setup(q).serializer, scenario.data)))
    BY <1>1, SerializerAssumption DEF TypeOK, Prepares, Setup
  <2> QED
    BY <1>4, <2>1, <2>2 DEF Deserialize
<1>5. \/ Setup(q).serializer = Setup(p).serializer \/ raw
      \/ None \in {NameOf(Setup(q).serializer), NameOf(Setup(p).serializer)}
  <2>1. NameOf(Setup(q).serializer) = NameOf(Setup(p).serializer) =>
          \/ NameOf(Setup(q).serializer) = None
          \/ Setup(q).serializer = Setup(p).serializer
    BY NameAssumption DEF TypeOK, Setup
  <2> QED
    BY <1>2, <2>1 DEF Mismatched
<1> QED
  BY <1>1, <1>2, <1>3, <1>4, <1>5 DEF Served

-----------------------------------------------------------------------------
(* What a process writes *)

Sets(p, ttl, staleTtl) == CompareAndSet(p, Written(p, ttl, staleTtl))

LEMMA WrittenType ==
  ASSUME TypeOK, NEW p \in Processes, NEW ttl \in Nat, NEW staleTtl \in Nat
  PROVE  Encoded(Written(p, ttl, staleTtl)) \in WrittenBy(p)
<1> DEFINE e == Written(p, ttl, staleTtl)
<1>1. e \in WrittenBy(p)
  BY PayloadsAssumption DEF Written, WrittenBy, TypeOK, Forever
<1>2. ASSUME NEW x \in Int, NEW y \in Int
      PROVE  [e EXCEPT !.expires = x, !.stale = y] \in WrittenBy(p)
  BY <1>1 DEF WrittenBy
<1>3. e.expires \in Int /\ e.stale \in Int
  BY <1>1 DEF WrittenBy
<1>4. ToMeta(e) \in WrittenBy(p)
  <2>1. ToMeta(e) = [e EXCEPT !.expires = IF e.expires = Forever THEN Null ELSE e.expires,
                              !.stale = IF e.stale = Forever THEN Null ELSE e.stale]
    BY DEF ToMeta, Written
  <2>2. Null \in Int
    BY DEF Null
  <2> HIDE DEF e
  <2> QED
    BY <1>2, <1>3, <2>1, <2>2
<1> QED
  BY <1>1, <1>4 DEF Encoded

(* It reads what it has written. *)
LEMMA ReadsBack ==
  ASSUME TypeOK, NEW p \in Processes, NEW ttl \in Nat, NEW staleTtl \in Nat,
         Prepares(Setup(p), scenario.data)
  PROVE  /\ Encoded(Written(p, ttl, staleTtl)).intact
         /\ Readable(Setup(p), Decoded(Encoded(Written(p, ttl, staleTtl))))
<1> DEFINE e == Written(p, ttl, staleTtl)
           d == Decoded(Encoded(e))
<1>1. /\ e.intact
      /\ e.value = PrepareBytes(Setup(p), scenario.data)
      /\ e.compressed = Setup(p).compression
      /\ e.serializer = NameOf(Setup(p).serializer)
  BY DEF Written
<1>2. /\ Encoded(e).intact = e.intact
      /\ d.value = e.value
      /\ d.compressed = e.compressed
      /\ d.serializer = e.serializer
  BY DEF Written, Encoded, Decoded, ToMeta, FromMeta
<1>3. ~Mismatched(Setup(p), d)
  BY <1>1, <1>2 DEF Mismatched
<1>4. Parses(Setup(p).serializer, Serialized(Setup(p).serializer, scenario.data))
  BY SerializerAssumption DEF TypeOK, Prepares, Setup
<1>5. Deserializes(Setup(p), d)
  BY <1>1, <1>2, <1>4 DEF Deserializes, PrepareBytes, Prepares, Compresses
<1> HIDE DEF e, d
<1> QED
  BY <1>1, <1>2, <1>3, <1>5 DEF Readable, e, d

-----------------------------------------------------------------------------
(* What a step does to those it does not concern *)

(* A process is as ready as before if its own state and what is held under *)
(* its key stay.                                                           *)
LEMMA Bystander ==
  ASSUME NEW q \in Processes, Ready(q),
         scenario' = scenario, key' = key, process'[q] = process[q],
         key[q] \in DOMAIN store' <=> key[q] \in DOMAIN store,
         key[q] \in DOMAIN store => store'[key[q]] = store[key[q]]
  PROVE  Ready(q)'
<1>1. /\ Held(q)' <=> Held(q)
      /\ Setup(q)' = Setup(q)
  BY DEF Held, Setup
<1>2. Held(q) => Entry(q)' = Entry(q) /\ (Broken(q)' <=> Broken(q))
  BY <1>1 DEF Held, Broken, Entry, Decoded
<1>3. /\ Found(q)' <=> Found(q)
      /\ Broken(q)' <=> Broken(q)
      /\ Found(q) => Entry(q)' = Entry(q)
  BY <1>1, <1>2 DEF Found, Broken
<1>4. Revision(q)' = Revision(q)
  BY <1>3 DEF Revision
<1> QED
  BY <1>1, <1>3, <1>4 DEF Ready, Accepted

(* The entries of a storage in which a compare-and-set was made. *)
LEMMA SetOrigin ==
  ASSUME TypeOK, Origin, NEW p \in Processes, NEW ttl \in Nat, NEW staleTtl \in Nat,
         Prepares(Setup(p), scenario.data), Sets(p, ttl, staleTtl),
         scenario' = scenario, key' = key
  PROVE  Origin'
<1>1. CASE Accepted(p)
  <2>1. store' = [k \in DOMAIN store \union {key[p]} |->
                    IF k = key[p] THEN Encoded(Written(p, ttl, staleTtl)) ELSE store[k]]
    BY <1>1 DEF Sets, CompareAndSet
  <2>2. Encoded(Written(p, ttl, staleTtl)) \in WrittenBy(p)
    BY WrittenType
  <2>3. \A q \in Processes : WrittenBy(q)' = WrittenBy(q) /\ Setup(q)' = Setup(q)
    BY DEF WrittenBy, Setup
  <2> SUFFICES ASSUME NEW k \in DOMAIN store'
               PROVE  \E q \in Processes : /\ key[q] = k
                                           /\ Prepares(Setup(q), scenario.data)
                                           /\ store'[k] \in WrittenBy(q)
    BY <2>3 DEF Origin
  <2>4. CASE k = key[p]
    BY <2>1, <2>2, <2>4
  <2>5. CASE k # key[p]
    BY <2>1, <2>5 DEF Origin
  <2> QED
    BY <2>4, <2>5
<1>2. CASE ~Accepted(p)
  BY <1>2 DEF Sets, CompareAndSet, Origin, WrittenBy, Setup
<1> QED
  BY <1>1, <1>2

(* A compare-and-set disturbs the others that use the key only, and they   *)
(* are not settled after it.                                               *)
LEMMA SetUndisturbed ==
  ASSUME TypeOK, Undisturbed, NEW p \in Processes,
         NEW ttl \in Nat, NEW staleTtl \in Nat,
         Prepares(Setup(p), scenario.data), Sets(p, ttl, staleTtl),
         process[p].pc \in {"write", "raw"},
         process'[p].pc = "idle", scenario' = scenario, key' = key,
         \A q \in Processes \ {p} : process'[q] = process[q]
  PROVE  Undisturbed'
<1> SUFFICES ASSUME NEW q \in settled' PROVE Ready(q)'
  BY DEF Undisturbed
<1>1. q \in settled /\ q \in Processes /\ Ready(q)
  BY DEF Sets, CompareAndSet, TypeOK, Undisturbed
<1>2. CASE q = p
  <2>1. Accepted(p)
    BY <1>1, <1>2 DEF Ready
  <2>2. store' = [k \in DOMAIN store \union {key[p]} |->
                    IF k = key[p] THEN Encoded(Written(p, ttl, staleTtl)) ELSE store[k]]
    BY <2>1 DEF Sets, CompareAndSet
  <2>3. /\ Held(p)'
        /\ store'[key[p]] = Encoded(Written(p, ttl, staleTtl))
    BY <2>2 DEF Held
  <2>4. Entry(p)' = Decoded(Encoded(Written(p, ttl, staleTtl)))
    BY <2>3 DEF Entry, Decoded
  <2>5. Found(p)'
    BY <2>3, ReadsBack DEF Found, Broken
  <2>6. Readable(Setup(p), Entry(p))'
    <3>1. Setup(p)' = Setup(p)
      BY DEF Setup
    <3> QED
      BY <2>4, <3>1, ReadsBack DEF Readable, Deserializes, Mismatched
  <2> QED
    BY <1>2, <2>5, <2>6 DEF Ready
<1>3. CASE q # p
  <2>1. process'[q] = process[q]
    BY <1>1, <1>3
  <2>2. CASE Accepted(p)
    <3>1. key[q] # key[p]
      BY <1>1, <1>3, <2>2 DEF Sets, CompareAndSet, Sharing
    <3>2. /\ key[q] \in DOMAIN store' <=> key[q] \in DOMAIN store
          /\ key[q] \in DOMAIN store => store'[key[q]] = store[key[q]]
      BY <2>2, <3>1 DEF Sets, CompareAndSet
    <3> QED
      BY <1>1, <2>1, <3>2, Bystander
  <2>3. CASE ~Accepted(p)
    BY <1>1, <2>1, <2>3, Bystander DEF Sets, CompareAndSet
  <2> QED
    BY <2>2, <2>3
<1> QED
  BY <1>2, <1>3

(* A deletion under the key of a process does too. *)
LEMMA DeleteUndisturbed ==
  ASSUME TypeOK, Undisturbed, NEW p \in Processes,
         store' = [k \in DOMAIN store \ {key[p]} |-> store[k]],
         scenario' = scenario, key' = key, settled' \subseteq settled,
         \A q \in Processes \ {p} : process'[q] = process[q],
         \A q \in settled' \ {p} : key[q] # key[p],
         p \in settled' => process'[p].pc = "write" /\ process'[p].observed = 0
  PROVE  Undisturbed'
<1> SUFFICES ASSUME NEW q \in settled' PROVE Ready(q)'
  BY DEF Undisturbed
<1>1. q \in settled /\ q \in Processes /\ Ready(q)
  BY DEF TypeOK, Undisturbed
<1>2. CASE q = p
  BY <1>2 DEF Ready, Accepted, Revision, Found, Broken, Held
<1>3. CASE q # p
  <2>1. /\ key[q] \in DOMAIN store' <=> key[q] \in DOMAIN store
        /\ key[q] \in DOMAIN store => store'[key[q]] = store[key[q]]
    BY <1>3
  <2> QED
    BY <1>1, <1>3, <2>1, Bystander
<1> QED
  BY <1>2, <1>3

(* While nothing is written, what is left to show is that the process      *)
(* itself is ready, if it is settled.                                      *)
LEMMA ReadUndisturbed ==
  ASSUME TypeOK, Undisturbed, NEW p \in Processes,
         UNCHANGED <<scenario, key, store>>, settled' \subseteq settled \union {p},
         \A q \in Processes \ {p} : process'[q] = process[q],
         p \in settled' => Ready(p)'
  PROVE  Undisturbed'
<1> SUFFICES ASSUME NEW q \in settled', q # p PROVE Ready(q)'
  BY DEF Undisturbed
<1>1. q \in settled /\ q \in Processes /\ Ready(q)
  BY DEF TypeOK, Undisturbed
<1> QED
  BY <1>1, Bystander

LEMMA DeleteOrigin ==
  ASSUME Origin, NEW j,
         store' = [k \in DOMAIN store \ {j} |-> store[k]],
         scenario' = scenario, key' = key
  PROVE  Origin'
BY DEF Origin, WrittenBy, Setup

(* A process is served what it was served before, nothing, or what it      *)
(* reads.                                                                  *)
LEMMA ServedStep ==
  ASSUME TypeOK, Origin, ServedUnderKey, ServedAsStored, scenario' = scenario,
         \A p \in Processes :
           \/ process'[p].served \in {process[p].served, None}
           \/ \E raw \in BOOLEAN : /\ Held(p)
                                   /\ Deserializes(Setup(p), Entry(p))
                                   /\ raw \/ ~Mismatched(Setup(p), Entry(p))
                                   /\ process'[p].served = Served(p, raw)
  PROVE  ServedUnderKey' /\ ServedAsStored'
<1> DEFINE Right(p, s) ==
      s # None => /\ \E q \in Processes : /\ s.by = scenario.call[q]
                                          /\ EntryKey(s.by) = EntryKey(scenario.call[p])
                  /\ MayShare(s.by, scenario.call[p])
                  /\ \/ s.writer = Setup(p).serializer \/ s.raw
                     \/ None \in {NameOf(s.writer), NameOf(Setup(p).serializer)}
                  /\ s.writer = Setup(p).serializer =>
                       Promised(Setup(p).serializer, s.data, s.got)
<1>1. \A p \in Processes : Right(p, process[p].served)
  BY DEF ServedAsStored, ServedUnderKey
<1>2. \A p \in Processes : Right(p, process'[p].served)
  <2> SUFFICES ASSUME NEW p \in Processes PROVE Right(p, process'[p].served)
    OBVIOUS
  <2>1. CASE process'[p].served \in {process[p].served, None}
    BY <1>1, <2>1
  <2>2. ASSUME NEW raw \in BOOLEAN, Held(p), Deserializes(Setup(p), Entry(p)),
               raw \/ ~Mismatched(Setup(p), Entry(p)),
               process'[p].served = Served(p, raw)
        PROVE  Right(p, process'[p].served)
    BY <2>2, Serve
  <2> QED
    BY <2>1, <2>2
<1>3. \A p \in Processes : Setup(p)' = Setup(p)
  BY DEF Setup
<1> QED
  BY <1>2, <1>3 DEF ServedAsStored, ServedUnderKey

(* A step of one process, by what it becomes.                              *)
LEMMA OneProcess ==
  ASSUME TypeOK, NEW p \in Processes, NEW pc, NEW observed, NEW served,
         Become(p, pc, observed, served)
  PROVE  /\ DOMAIN process' = Processes
         /\ process'[p].pc = pc
         /\ process'[p].observed = observed
         /\ process'[p].served = served
         /\ \A q \in Processes \ {p} : process'[q] = process[q]
BY DEF TypeOK, Become

LEMMA TypeStep ==
  ASSUME TypeOK, NEW p \in Processes,
         NEW pc \in {"idle", "drop", "write", "raw"}, NEW observed \in Nat,
         NEW served, Become(p, pc, observed, served),
         UNCHANGED <<scenario, key, now>>, settled' \subseteq settled \union {p}
  PROVE  TypeOK'
<1>1. /\ DOMAIN process' = Processes
      /\ process'[p].pc = pc
      /\ process'[p].observed = observed
      /\ \A q \in Processes \ {p} : process'[q] = process[q]
  BY OneProcess
<1> QED
  BY <1>1 DEF TypeOK

LEMMA PreparedStep ==
  ASSUME Prepared, NEW p \in Processes, scenario' = scenario,
         process'[p].pc = "raw" => Prepares(Setup(p), scenario.data),
         \A q \in Processes \ {p} : process'[q] = process[q]
  PROVE  Prepared'
BY DEF Prepared, Prepares, Setup

-----------------------------------------------------------------------------
(* The actions *)

(* What a call finds, by what it becomes. *)
LEMMA ReadOutcome ==
  ASSUME TypeOK, Origin, NEW p \in Processes, Read(p)
  PROVE  \E pc \in {"idle", "drop", "write"}, observed \in Nat,
            served \in {None, Served(p, FALSE)} :
           /\ Become(p, pc, observed, served)
           /\ served # None => Found(p) /\ Readable(Setup(p), Entry(p))
           /\ settled' \subseteq settled \union {p}
           /\ p \in settled' =>
                /\ pc = "idle" => Found(p) /\ Readable(Setup(p), Entry(p))
                /\ pc = "write" => ~Broken(p) /\ Revision(p) = observed
<1> DEFINE P(pc, observed, served) ==
      /\ Become(p, pc, observed, served)
      /\ served # None => Found(p) /\ Readable(Setup(p), Entry(p))
      /\ settled' \subseteq settled \union {p}
      /\ p \in settled' =>
           /\ pc = "idle" => Found(p) /\ Readable(Setup(p), Entry(p))
           /\ pc = "write" => ~Broken(p) /\ Revision(p) = observed
      Outcome == \E pc \in {"idle", "drop", "write"}, observed \in Nat,
                    served \in {None, Served(p, FALSE)} : P(pc, observed, served)
<1> SUFFICES Outcome
  OBVIOUS
<1> DEFINE after == IF Freshness(Entry(p)) = "fresh" THEN "idle" ELSE "write"
           missed == IF scenario.failOpen THEN "write" ELSE "idle"
<1>1. Revision(p) \in Nat /\ 0 \in Nat
  BY RevisionType
<1>2. CASE GetThrows(p) /\ Become(p, missed, 0, None) /\ settled' = settled \ {p}
  <2>1. P(missed, 0, None)
    BY <1>2
  <2> QED
    BY <1>1, <2>1
<1>3. CASE Malformed(p) /\ Become(p, "drop", 0, None) /\ settled' = settled \union {p}
  <2>1. P("drop", 0, None)
    BY <1>3
  <2> QED
    BY <1>1, <2>1
<1>4. ASSUME ~Broken(p), settled' = settled \union {p}, ~Held(p),
             Become(p, "write", 0, None)
      PROVE  Outcome
  <2>1. P("write", 0, None)
    BY <1>4 DEF Revision, Found
  <2> QED
    BY <1>1, <2>1
<1>5. ASSUME ~Broken(p), settled' = settled \union {p},
             Become(p, "write", Revision(p), None)
      PROVE  Outcome
  <2>1. P("write", Revision(p), None)
    BY <1>5
  <2> QED
    BY <1>1, <2>1
<1>6. ASSUME ~Broken(p), settled' = settled \union {p}, Become(p, "drop", 0, None)
      PROVE  Outcome
  <2>1. P("drop", 0, None)
    BY <1>6
  <2> QED
    BY <1>1, <2>1
<1>7. ASSUME ~Broken(p), settled' = settled \union {p}, Held(p),
             Readable(Setup(p), Entry(p)),
             Become(p, after, Revision(p), Served(p, FALSE))
      PROVE  Outcome
  <2>1. P(after, Revision(p), Served(p, FALSE))
    BY <1>7 DEF Found
  <2> QED
    BY <1>1, <2>1
<1> HIDE DEF P
<1> QED
  BY <1>2, <1>3, <1>4, <1>5, <1>6, <1>7 DEF Read

LEMMA ReadStep ==
  ASSUME IInv, NEW p \in Processes, Read(p)
  PROVE  IInv'
<1> USE DEF IInv
<1>1. UNCHANGED <<scenario, key, now, store>>
  BY DEF Read
<1>2. PICK pc \in {"idle", "drop", "write"}, observed \in Nat,
           served \in {None, Served(p, FALSE)} :
        /\ Become(p, pc, observed, served)
        /\ served # None => Found(p) /\ Readable(Setup(p), Entry(p))
        /\ settled' \subseteq settled \union {p}
        /\ p \in settled' =>
             /\ pc = "idle" => Found(p) /\ Readable(Setup(p), Entry(p))
             /\ pc = "write" => ~Broken(p) /\ Revision(p) = observed
  BY ReadOutcome
<1>3. /\ process'[p].pc = pc
      /\ process'[p].observed = observed
      /\ process'[p].served = served
      /\ \A q \in Processes \ {p} : process'[q] = process[q]
  BY <1>2, OneProcess
<1>4. TypeOK'
  BY <1>1, <1>2, TypeStep
<1>5. Origin'
  BY <1>1 DEF Origin, WrittenBy, Setup
<1>6. ServedUnderKey' /\ ServedAsStored'
  BY <1>1, <1>2, <1>3, ServedStep DEF Found, Readable
<1>7. Prepared'
  BY <1>1, <1>2, <1>3, PreparedStep
<1>8. Undisturbed'
  <2>1. p \in settled' => Ready(p)'
    <3>1. Setup(p)' = Setup(p) /\ Entry(p)' = Entry(p)
      BY <1>1 DEF Setup, Entry, Decoded
    <3>2. /\ Found(p)' <=> Found(p)
          /\ Broken(p)' <=> Broken(p)
      BY <1>1 DEF Found, Broken, Held
    <3>3. Revision(p)' = Revision(p)
      BY <3>1, <3>2 DEF Revision
    <3> QED
      BY <1>2, <1>3, <3>1, <3>2, <3>3 DEF Ready, Accepted
  <2> QED
    BY <1>1, <1>2, <1>3, <2>1, ReadUndisturbed
<1> QED
  BY <1>4, <1>5, <1>6, <1>7, <1>8

LEMMA SilentDeleteStep ==
  ASSUME IInv, NEW p \in Processes, SilentDelete(p)
  PROVE  IInv'
<1> USE DEF IInv
<1>1. UNCHANGED <<scenario, key, now>> /\ Become(p, "write", 0, None)
  BY DEF SilentDelete
<1>2. /\ process'[p].pc = "write"
      /\ process'[p].observed = 0
      /\ process'[p].served = None
      /\ \A q \in Processes \ {p} : process'[q] = process[q]
  BY <1>1, OneProcess
<1>3. TypeOK'
  BY <1>1, TypeStep DEF SilentDelete
<1>4. ServedUnderKey' /\ ServedAsStored' /\ Prepared'
  BY <1>1, <1>2, ServedStep, PreparedStep
<1>5. CASE /\ store' = [k \in DOMAIN store \ {key[p]} |-> store[k]]
           /\ settled' = settled \ (Sharing(p) \ {p})
  <2>1. Origin'
    BY <1>1, <1>5, DeleteOrigin
  <2>2. Undisturbed'
    <3>1. \A q \in settled' \ {p} : key[q] # key[p]
      BY <1>5 DEF Sharing, TypeOK
    <3> QED
      BY <1>1, <1>2, <1>5, <3>1, DeleteUndisturbed
  <2> QED
    BY <1>3, <1>4, <2>1, <2>2
<1>6. CASE store' = store /\ settled' = settled \ {p}
  <2>1. Origin'
    BY <1>1, <1>6 DEF Origin, WrittenBy, Setup
  <2>2. Undisturbed'
    BY <1>1, <1>2, <1>6, ReadUndisturbed
  <2> QED
    BY <1>3, <1>4, <2>1, <2>2
<1> QED
  BY <1>5, <1>6 DEF SilentDelete

LEMMA WriteStep ==
  ASSUME IInv, NEW p \in Processes, Write(p)
  PROVE  IInv'
<1> USE DEF IInv
<1>1. /\ UNCHANGED <<scenario, key, now>>
      /\ Become(p, "idle", 0, process[p].served)
      /\ process[p].pc = "write"
  BY DEF Write, May
<1>2. /\ process'[p].pc = "idle"
      /\ process'[p].served = process[p].served
      /\ \A q \in Processes \ {p} : process'[q] = process[q]
  BY <1>1, OneProcess
<1>3. ServedUnderKey' /\ ServedAsStored' /\ Prepared'
  BY <1>1, <1>2, ServedStep, PreparedStep
<1>4. CASE /\ Prepares(Setup(p), scenario.data)
           /\ Sets(p, scenario.ttl, scenario.staleTtl)
  <2>1. scenario.ttl \in Nat /\ scenario.staleTtl \in Nat
    BY PayloadsAssumption DEF TypeOK
  <2>2. TypeOK'
    <3>1. settled' \subseteq settled
      BY <1>4 DEF Sets, CompareAndSet
    <3> QED
      BY <1>1, <3>1, TypeStep
  <2>3. Origin'
    BY <1>1, <1>4, <2>1, SetOrigin
  <2>4. Undisturbed'
    BY <1>1, <1>2, <1>4, <2>1, SetUndisturbed
  <2> QED
    BY <1>3, <2>2, <2>3, <2>4
<1>5. CASE settled' = settled \ {p} /\ store' = store
  <2>1. TypeOK'
    BY <1>1, <1>5, TypeStep
  <2>2. Origin'
    BY <1>1, <1>5 DEF Origin, WrittenBy, Setup
  <2>3. Undisturbed'
    BY <1>1, <1>2, <1>5, ReadUndisturbed
  <2> QED
    BY <1>3, <2>1, <2>2, <2>3
<1> QED
  BY <1>4, <1>5 DEF Write, Sets

LEMMA RawGetStep ==
  ASSUME IInv, NEW p \in Processes, RawGet(p)
  PROVE  IInv'
<1> USE DEF IInv
<1>1. UNCHANGED <<scenario, key, now, store, settled>> /\ process[p].pc = "idle"
  BY DEF RawGet, May
<1>2. PICK served :
        /\ Become(p, "idle", 0, served)
        /\ \/ served = None
           \/ /\ Found(p)
              /\ Deserializes(Setup(p), Entry(p))
              /\ served = Served(p, TRUE)
  BY DEF RawGet
<1>3. /\ process'[p].pc = "idle"
      /\ process'[p].served = served
      /\ \A q \in Processes \ {p} : process'[q] = process[q]
  BY <1>2, OneProcess
<1>4. TypeOK'
  BY <1>1, <1>2, TypeStep
<1>5. Origin'
  BY <1>1 DEF Origin, WrittenBy, Setup
<1>6. ServedUnderKey' /\ ServedAsStored'
  BY <1>1, <1>2, <1>3, ServedStep DEF Found
<1>7. Prepared'
  BY <1>1, <1>3, PreparedStep
<1>8. Undisturbed'
  <2>1. p \in settled' => Ready(p)'
    <3>1. Setup(p)' = Setup(p) /\ Entry(p)' = Entry(p)
      BY <1>1 DEF Setup, Entry, Decoded
    <3>2. Found(p)' <=> Found(p)
      BY <1>1 DEF Found, Broken, Held
    <3> QED
      BY <1>1, <1>3, <3>1, <3>2 DEF Ready, Undisturbed
  <2> QED
    BY <1>1, <1>3, <2>1, ReadUndisturbed
<1> QED
  BY <1>4, <1>5, <1>6, <1>7, <1>8

LEMMA RawReadStep ==
  ASSUME IInv, NEW p \in Processes, RawRead(p)
  PROVE  IInv'
<1> USE DEF IInv
<1> DEFINE prepared == Prepares(Setup(p), scenario.data)
<1>1. /\ UNCHANGED <<scenario, key, now, store>>
      /\ settled' = IF prepared /\ ~Broken(p) THEN settled \union {p} ELSE settled \ {p}
  BY DEF RawRead
<1>2. PICK pc \in {"idle", "raw"}, observed \in Nat :
        /\ Become(p, pc, observed, None)
        /\ pc = "raw" => prepared /\ observed = Revision(p)
        /\ pc = "idle" => ~prepared \/ Broken(p)
  BY RevisionType DEF RawRead, GetThrows
<1>3. /\ process'[p].pc = pc
      /\ process'[p].observed = observed
      /\ process'[p].served = None
      /\ \A q \in Processes \ {p} : process'[q] = process[q]
  BY <1>2, OneProcess
<1>4. TypeOK'
  BY <1>1, <1>2, TypeStep
<1>5. Origin'
  BY <1>1 DEF Origin, WrittenBy, Setup
<1>6. ServedUnderKey' /\ ServedAsStored'
  BY <1>1, <1>3, ServedStep
<1>7. Prepared'
  BY <1>1, <1>2, <1>3, PreparedStep
<1>8. Undisturbed'
  <2>1. p \in settled' => Ready(p)'
    <3> SUFFICES ASSUME p \in settled' PROVE Ready(p)'
      OBVIOUS
    <3>1. pc = "raw" /\ ~Broken(p) /\ observed = Revision(p)
      BY <1>1, <1>2
    <3>2. /\ Broken(p)' <=> Broken(p)
          /\ Revision(p)' = Revision(p)
      BY <1>1 DEF Revision, Entry, Decoded, Found, Broken, Held
    <3> QED
      BY <1>3, <3>1, <3>2 DEF Ready, Accepted
  <2> QED
    BY <1>1, <1>3, <2>1, ReadUndisturbed
<1> QED
  BY <1>4, <1>5, <1>6, <1>7, <1>8

LEMMA RawWriteStep ==
  ASSUME IInv, NEW p \in Processes, RawWrite(p)
  PROVE  IInv'
<1> USE DEF IInv
<1>1. /\ UNCHANGED <<scenario, key, now>>
      /\ Become(p, "idle", 0, None)
      /\ process[p].pc = "raw"
      /\ Sets(p, scenario.ttl, 0)
  BY DEF RawWrite, May, Sets
<1>2. /\ process'[p].pc = "idle"
      /\ process'[p].served = None
      /\ \A q \in Processes \ {p} : process'[q] = process[q]
  BY <1>1, OneProcess
<1>3. Prepares(Setup(p), scenario.data)
  BY <1>1 DEF Prepared
<1>4. scenario.ttl \in Nat /\ 0 \in Nat
  BY PayloadsAssumption DEF TypeOK
<1>5. TypeOK'
  <2>1. settled' \subseteq settled
    BY <1>1 DEF Sets, CompareAndSet
  <2> QED
    BY <1>1, <1>4, <2>1, TypeStep
<1>6. Origin'
  BY <1>1, <1>3, <1>4, SetOrigin
<1>7. ServedUnderKey' /\ ServedAsStored' /\ Prepared'
  BY <1>1, <1>2, ServedStep, PreparedStep
<1>8. Undisturbed'
  BY <1>1, <1>2, <1>3, <1>4, SetUndisturbed
<1> QED
  BY <1>5, <1>6, <1>7, <1>8

LEMMA RawDeleteStep ==
  ASSUME IInv, NEW p \in Processes, RawDelete(p)
  PROVE  IInv'
<1> USE DEF IInv
<1>1. /\ UNCHANGED <<scenario, key, now>>
      /\ Become(p, "idle", 0, None)
      /\ store' = [k \in DOMAIN store \ {key[p]} |-> store[k]]
      /\ settled' = settled \ Sharing(p)
  BY DEF RawDelete
<1>2. /\ process'[p].pc = "idle"
      /\ process'[p].served = None
      /\ \A q \in Processes \ {p} : process'[q] = process[q]
  BY <1>1, OneProcess
<1>3. TypeOK'
  BY <1>1, TypeStep
<1>4. Origin'
  BY <1>1, DeleteOrigin
<1>5. ServedUnderKey' /\ ServedAsStored' /\ Prepared'
  BY <1>1, <1>2, ServedStep, PreparedStep
<1>6. Undisturbed'
  <2>1. \A q \in settled' : key[q] # key[p]
    BY <1>1 DEF Sharing, TypeOK
  <2>2. p \notin settled'
    BY <2>1
  <2> QED
    BY <1>1, <1>2, <2>1, <2>2, DeleteUndisturbed
<1> QED
  BY <1>3, <1>4, <1>5, <1>6

(* A fault spoils what a process has written; it makes nothing up.         *)
LEMMA FaultStep ==
  ASSUME IInv, Fault
  PROVE  IInv'
<1> USE DEF IInv
<1>1. UNCHANGED <<scenario, key, now, process>> /\ settled' = {}
  BY DEF Fault
<1>2. PICK k \in DOMAIN store : Tamper(k)
  BY DEF Fault
<1>3. TypeOK' /\ Prepared' /\ Undisturbed'
  BY <1>1 DEF TypeOK, Prepared, Undisturbed, Setup, Prepares
<1>4. ServedUnderKey' /\ ServedAsStored'
  BY <1>1 DEF ServedUnderKey, ServedAsStored, Setup
<1>5. ASSUME NEW p \in Processes, NEW e \in WrittenBy(p)
      PROVE  /\ [e EXCEPT !.intact = FALSE] \in WrittenBy(p)
             /\ [e EXCEPT !.value = Spoilt] \in WrittenBy(p)
  BY DEF WrittenBy
<1>6. Origin'
  <2>1. \A p \in Processes : WrittenBy(p)' = WrittenBy(p) /\ Setup(p)' = Setup(p)
    BY <1>1 DEF WrittenBy, Setup
  <2> SUFFICES ASSUME NEW j \in DOMAIN store'
               PROVE  \E p \in Processes : /\ key[p] = j
                                           /\ Prepares(Setup(p), scenario.data)
                                           /\ store'[j] \in WrittenBy(p)
    BY <1>1, <2>1 DEF Origin
  <2>2. /\ j \in DOMAIN store
        /\ store'[j] \in {store[j], [store[j] EXCEPT !.intact = FALSE],
                          [store[j] EXCEPT !.value = Spoilt]}
    BY <1>2 DEF Tamper
  <2>3. PICK p \in Processes : /\ key[p] = j
                               /\ Prepares(Setup(p), scenario.data)
                               /\ store[j] \in WrittenBy(p)
    BY <2>2 DEF Origin
  <2>4. store'[j] \in WrittenBy(p)
    BY <1>5, <2>2, <2>3
  <2> QED
    BY <2>3, <2>4
<1> QED
  BY <1>3, <1>4, <1>6

(* Neither does the time: nothing that is claimed depends on it. *)
LEMMA TickStep ==
  ASSUME IInv, Tick \/ UNCHANGED vars
  PROVE  IInv'
<1> USE DEF IInv
<1>1. UNCHANGED <<scenario, key, store, process, settled>> /\ now' \in Nat
  BY DEF Tick, vars, TypeOK
<1>2. TypeOK' /\ Prepared'
  BY <1>1 DEF TypeOK, Prepared, Setup, Prepares
<1>3. Origin' /\ ServedUnderKey' /\ ServedAsStored'
  BY <1>1 DEF Origin, WrittenBy, Setup, ServedUnderKey, ServedAsStored
<1>4. Undisturbed'
  <2> SUFFICES ASSUME NEW p \in settled' PROVE Ready(p)'
    BY DEF Undisturbed
  <2> QED
    BY <1>1, Bystander DEF TypeOK, Undisturbed
<1> QED
  BY <1>2, <1>3, <1>4

-----------------------------------------------------------------------------
LEMMA Initially == Init => IInv
<1> SUFFICES ASSUME Init PROVE IInv
  OBVIOUS
<1>1. TypeOK
  BY DEF Init, TypeOK
<1>2. Origin /\ Prepared /\ ServedUnderKey /\ ServedAsStored /\ Undisturbed
  BY DEF Init, Origin, Prepared, ServedUnderKey, ServedAsStored, Undisturbed
<1> QED
  BY <1>1, <1>2 DEF IInv

LEMMA Inductive == IInv /\ [Next]_vars => IInv'
<1> SUFFICES ASSUME IInv, [Next]_vars PROVE IInv'
  OBVIOUS
<1>1. ASSUME NEW p \in Processes, Read(p) PROVE IInv'
  BY <1>1, ReadStep
<1>2. ASSUME NEW p \in Processes, SilentDelete(p) PROVE IInv'
  BY <1>2, SilentDeleteStep
<1>3. ASSUME NEW p \in Processes, Write(p) PROVE IInv'
  BY <1>3, WriteStep
<1>4. ASSUME NEW p \in Processes, RawGet(p) PROVE IInv'
  BY <1>4, RawGetStep
<1>5. ASSUME NEW p \in Processes, RawRead(p) PROVE IInv'
  BY <1>5, RawReadStep
<1>6. ASSUME NEW p \in Processes, RawWrite(p) PROVE IInv'
  BY <1>6, RawWriteStep
<1>7. ASSUME NEW p \in Processes, RawDelete(p) PROVE IInv'
  BY <1>7, RawDeleteStep
<1>8. CASE Fault
  BY <1>8, FaultStep
<1>9. CASE Tick \/ UNCHANGED vars
  BY <1>9, TickStep
<1> QED
  BY <1>1, <1>2, <1>3, <1>4, <1>5, <1>6, <1>7, <1>8, <1>9 DEF Next

(* Whatever a storage holds was written under its key by a process that    *)
(* uses the key, as the process's setup writes it, but for what faults     *)
(* have spoilt (codec.ts and kv.ts around compareAndSet).                  *)
THEOREM Invariance == Spec => []IInv
BY Initially, Inductive, PTL DEF Spec

(* A call is served what was stored for the same call, but for the known   *)
(* confusions of keys, and by its own serializer, unless that or the       *)
(* writer's states no name; from its own serializer it gets what that      *)
(* promises to keep (deserializeEntry and rawGet in runtime.ts): for every *)
(* number of processes and versions, and every wear of the storage.        *)
THEOREM ServedCorrect == Spec => []ServedAsStored
<1>1. IInv => ServedAsStored
  BY DEF IInv
<1> QED
  BY <1>1, Invariance, PTL

(* An unreadable entry does not keep its key from being cached: a call, or *)
(* a rawSet, that nobody disturbs leaves an entry it can read              *)
(* (runtime.ts:450, and the revision that the write is checked against).   *)
THEOREM RecachedCorrect == Spec => []Recached
<1>1. IInv => Recached
  BY DEF IInv, TypeOK, Undisturbed, Ready, Recached
<1> QED
  BY <1>1, Invariance, PTL

-----------------------------------------------------------------------------
(* Texts *)

(* A function on the first n numbers is a text of length n.                *)
LEMMA FunctionText ==
  ASSUME NEW n \in Nat, NEW f, f = [i \in 1 .. n |-> f[i]]
  PROVE  IsText(f) /\ Len(f) = n
<1>1. f \in [1 .. n -> ToSet(f)]
  BY DEF ToSet
<1>2. f \in Seq(ToSet(f))
  BY <1>1, SeqDef
<1>3. DOMAIN f = 1 .. Len(f) /\ Len(f) \in Nat
  BY <1>2, LenProperties
<1>4. DOMAIN f = 1 .. n
  BY <1>1
<1> QED
  BY <1>2, <1>3, <1>4 DEF IsText

LEMMA TextProperties ==
  ASSUME NEW t, IsText(t)
  PROVE  /\ Len(t) \in Nat
         /\ DOMAIN t = 1 .. Len(t)
         /\ t = [i \in 1 .. Len(t) |-> t[i]]
BY LenProperties DEF IsText

(* Concatenation, as an operator that the provers do not look into.        *)
Cat(s, t) == s \o t

LEMMA ConcatType ==
  ASSUME NEW s, NEW t, IsText(s), IsText(t)
  PROVE  \E T : s \in Seq(T) /\ t \in Seq(T)
<1> DEFINE T == ToSet(s) \union ToSet(t)
<1>1. s \in Seq(T) /\ t \in Seq(T)
  BY SeqMonotonic DEF IsText
<1> QED
  BY <1>1

LEMMA ConcatAt ==
  ASSUME NEW s, NEW t, IsText(s), IsText(t), NEW i \in 1 .. Len(s) + Len(t)
  PROVE  Cat(s, t)[i] = IF i <= Len(s) THEN s[i] ELSE t[i - Len(s)]
BY ConcatType, ConcatProperties DEF Cat

LEMMA TextConcat ==
  ASSUME NEW s, NEW t, IsText(s), IsText(t)
  PROVE  /\ IsText(Cat(s, t))
         /\ Len(Cat(s, t)) = Len(s) + Len(t)
<1>1. PICK T : s \in Seq(T) /\ t \in Seq(T)
  BY ConcatType
<1>2. Cat(s, t) \in Seq(T) /\ Len(Cat(s, t)) = Len(s) + Len(t)
  BY <1>1, ConcatProperties DEF Cat
<1>3. /\ Len(Cat(s, t)) \in Nat
      /\ Cat(s, t) = [i \in 1 .. Len(Cat(s, t)) |-> Cat(s, t)[i]]
  BY <1>2, LenProperties
<1>4. IsText(Cat(s, t))
  BY <1>3, FunctionText
<1> QED
  BY <1>2, <1>4

LEMMA ConcatHead ==
  ASSUME NEW s, NEW t, IsText(s), IsText(t), NEW i \in 1 .. Len(s)
  PROVE  Cat(s, t)[i] = s[i]
<1>1. Len(s) \in Nat /\ Len(t) \in Nat
  BY TextProperties
<1>2. i \in 1 .. Len(s) + Len(t) /\ i <= Len(s)
  BY <1>1
<1> QED
  BY <1>2, ConcatAt

LEMMA ConcatTail ==
  ASSUME NEW s, NEW t, IsText(s), IsText(t), NEW i \in 1 .. Len(t)
  PROVE  Cat(s, t)[Len(s) + i] = t[i]
<1> DEFINE j == Len(s) + i
<1>1. Len(s) \in Nat /\ Len(t) \in Nat
  BY TextProperties
<1>2. j \in 1 .. Len(s) + Len(t) /\ ~(j <= Len(s)) /\ j - Len(s) = i
  BY <1>1
<1> HIDE DEF j
<1>3. Cat(s, t)[j] = t[i]
  BY <1>2, ConcatAt
<1> QED
  BY <1>3 DEF j

(* Two texts are one if they have the same tokens.                         *)
LEMMA TextEqual ==
  ASSUME NEW s, NEW t, IsText(s), IsText(t), Len(s) = Len(t),
         \A i \in 1 .. Len(s) : s[i] = t[i]
  PROVE  s = t
BY TextProperties

(* Equal texts whose first parts are as long have equal parts.             *)
LEMMA CutAtLength ==
  ASSUME NEW s, NEW t, NEW u, NEW v, IsText(s), IsText(t), IsText(u), IsText(v),
         Len(s) = Len(u), Cat(s, t) = Cat(u, v)
  PROVE  s = u /\ t = v
<1>1. Len(s) \in Nat /\ Len(t) \in Nat /\ Len(v) \in Nat
  BY TextProperties
<1>2. Len(t) = Len(v)
  BY <1>1, TextConcat
<1>3. \A i \in 1 .. Len(s) : s[i] = u[i]
  BY ConcatHead
<1>4. \A i \in 1 .. Len(t) : t[i] = v[i]
  <2>1. \A i \in 1 .. Len(t) : Cat(s, t)[Len(s) + i] = t[i]
    BY ConcatTail
  <2>2. \A i \in 1 .. Len(v) : Cat(u, v)[Len(u) + i] = v[i]
    BY ConcatTail
  <2> QED
    BY <1>2, <2>1, <2>2
<1> QED
  BY <1>2, <1>3, <1>4, TextEqual

(* So have texts that are cut at the first token of a kind.                *)
LEMMA CutAtToken ==
  ASSUME NEW s, NEW t, NEW u, NEW v, NEW mark,
         IsText(s), IsText(t), IsText(u), IsText(v),
         mark \notin ToSet(s), mark \notin ToSet(u),
         Len(t) > 0, t[1] = mark, Len(v) > 0, v[1] = mark,
         Cat(s, t) = Cat(u, v)
  PROVE  s = u /\ t = v
<1>1. /\ Len(s) \in Nat /\ Len(u) \in Nat /\ Len(t) \in Nat /\ Len(v) \in Nat
      /\ DOMAIN s = 1 .. Len(s) /\ DOMAIN u = 1 .. Len(u)
  BY TextProperties
<1>2. Cat(s, t)[Len(s) + 1] = mark /\ Cat(u, v)[Len(u) + 1] = mark
  <2>1. 1 \in 1 .. Len(t) /\ 1 \in 1 .. Len(v)
    BY <1>1
  <2> QED
    BY <2>1, ConcatTail
<1>3. ASSUME Len(s) < Len(u) PROVE FALSE
  <2>1. Len(s) + 1 \in 1 .. Len(u)
    BY <1>1, <1>3
  <2>2. Cat(u, v)[Len(s) + 1] = u[Len(s) + 1]
    BY <2>1, ConcatHead
  <2> QED
    BY <1>1, <1>2, <2>1, <2>2 DEF ToSet
<1>4. ASSUME Len(u) < Len(s) PROVE FALSE
  <2>1. Len(u) + 1 \in 1 .. Len(s)
    BY <1>1, <1>4
  <2>2. Cat(s, t)[Len(u) + 1] = s[Len(u) + 1]
    BY <2>1, ConcatHead
  <2> QED
    BY <1>1, <1>2, <2>1, <2>2 DEF ToSet
<1>5. Len(s) = Len(u)
  <2>1. \A m, n \in Nat : ~(m < n) /\ ~(n < m) => m = n
    OBVIOUS
  <2> QED
    BY <1>1, <1>3, <1>4, <2>1
<1> QED
  BY <1>5, CutAtLength

LEMMA TextAssoc ==
  ASSUME NEW r, NEW s, NEW t, IsText(r), IsText(s), IsText(t)
  PROVE  Cat(Cat(r, s), t) = Cat(r, Cat(s, t))
<1> DEFINE T == ToSet(r) \union ToSet(s) \union ToSet(t)
<1>1. r \in Seq(T) /\ s \in Seq(T) /\ t \in Seq(T)
  BY SeqMonotonic DEF IsText
<1> QED
  BY <1>1, ConcatAssociative DEF Cat

LEMMA ConcatTokens ==
  ASSUME NEW s, NEW t, IsText(s), IsText(t)
  PROVE  ToSet(Cat(s, t)) = ToSet(s) \union ToSet(t)
<1>1. /\ IsText(Cat(s, t)) /\ Len(Cat(s, t)) = Len(s) + Len(t)
      /\ Len(s) \in Nat /\ Len(t) \in Nat
      /\ DOMAIN s = 1 .. Len(s) /\ DOMAIN t = 1 .. Len(t)
      /\ DOMAIN Cat(s, t) = 1 .. (Len(s) + Len(t))
  BY TextConcat, TextProperties
<1>2. ASSUME NEW i \in 1 .. (Len(s) + Len(t))
      PROVE  Cat(s, t)[i] \in ToSet(s) \union ToSet(t)
  <2>1. Cat(s, t)[i] = IF i <= Len(s) THEN s[i] ELSE t[i - Len(s)]
    BY ConcatAt
  <2>2. IF i <= Len(s) THEN i \in DOMAIN s ELSE i - Len(s) \in DOMAIN t
    BY <1>1
  <2> QED
    BY <2>1, <2>2 DEF ToSet
<1>3. ASSUME NEW i \in DOMAIN s PROVE s[i] \in ToSet(Cat(s, t))
  <2>1. i \in DOMAIN Cat(s, t) /\ Cat(s, t)[i] = s[i]
    BY <1>1, ConcatHead
  <2> QED
    BY <2>1 DEF ToSet
<1>4. ASSUME NEW i \in DOMAIN t PROVE t[i] \in ToSet(Cat(s, t))
  <2>1. Len(s) + i \in DOMAIN Cat(s, t) /\ Cat(s, t)[Len(s) + i] = t[i]
    BY <1>1, ConcatTail
  <2> QED
    BY <2>1 DEF ToSet
<1> QED
  BY <1>1, <1>2, <1>3, <1>4 DEF ToSet

LEMMA LastConcat ==
  ASSUME NEW s, NEW t, IsText(s), IsText(t), Len(t) > 0
  PROVE  Last(Cat(s, t)) = Last(t)
<1>1. Len(t) \in Nat /\ Len(Cat(s, t)) = Len(s) + Len(t)
  BY TextConcat, TextProperties
<1>2. Len(t) \in 1 .. Len(t)
  BY <1>1
<1>3. Cat(s, t)[Len(s) + Len(t)] = t[Len(t)]
  BY <1>2, ConcatTail
<1> QED
  BY <1>1, <1>3 DEF Last

LEMMA ConcatFirst ==
  ASSUME NEW s, NEW t, IsText(s), IsText(t), Len(s) > 0
  PROVE  /\ IsText(Cat(s, t)) /\ Len(Cat(s, t)) > 0
         /\ Cat(s, t)[1] = s[1]
         /\ ToSet(Cat(s, t)) = ToSet(s) \union ToSet(t)
<1>1. Len(s) \in Nat /\ Len(t) \in Nat
  BY TextProperties
<1>2. IsText(Cat(s, t)) /\ Len(Cat(s, t)) = Len(s) + Len(t)
  BY TextConcat
<1>3. 1 \in 1 .. Len(s)
  BY <1>1
<1>4. Cat(s, t)[1] = s[1]
  BY <1>3, ConcatHead
<1>5. ToSet(Cat(s, t)) = ToSet(s) \union ToSet(t)
  BY ConcatTokens
<1> QED
  BY <1>1, <1>2, <1>4, <1>5

(* Texts of one token, and of given runs.                                  *)
LEMMA OneToken ==
  ASSUME NEW e
  PROVE  IsText(<<e>>) /\ Len(<<e>>) = 1 /\ <<e>>[1] = e /\ Last(<<e>>) = e
BY FunctionText DEF IsText, ToSet, Last

LEMMA HashText ==
  ASSUME NEW m
  PROVE  /\ IsText(Hash(m)) /\ Len(Hash(m)) = 1
         /\ Hash(m)[1] = <<"hash", m>> /\ Last(Hash(m)) = <<"hash", m>>
BY OneToken DEF Hash

LEMMA RunsText ==
  ASSUME NEW S, NEW runs \in Seq(S)
  PROVE  /\ IsText(Text(runs)) /\ Len(Text(runs)) = Len(runs)
         /\ DOMAIN Text(runs) = 1 .. Len(runs)
         /\ \A i \in 1 .. Len(runs) : Text(runs)[i] = <<"run", runs[i]>>
<1>1. Len(runs) \in Nat
  BY LenProperties
<1> DEFINE f == Text(runs)
<1>2. /\ f = [i \in 1 .. Len(runs) |-> f[i]]
      /\ \A i \in 1 .. Len(runs) : f[i] = <<"run", runs[i]>>
      /\ DOMAIN f = 1 .. Len(runs)
  BY DEF Text
<1> HIDE DEF f
<1>3. IsText(f) /\ Len(f) = Len(runs)
  BY <1>1, <1>2, FunctionText
<1> QED
  BY <1>2, <1>3 DEF f

LEMMA RunText ==
  ASSUME NEW r
  PROVE  /\ IsText(Text(<<r>>)) /\ Len(Text(<<r>>)) = 1
         /\ Text(<<r>>)[1] = <<"run", r>>
         /\ ToSet(Text(<<r>>)) = {<<"run", r>>}
<1> DEFINE runs == <<r>>
<1>1. runs \in Seq({r}) /\ Len(runs) = 1 /\ runs[1] = r /\ 1 \in 1 .. 1
  OBVIOUS
<1> HIDE DEF runs
<1>2. /\ IsText(Text(runs)) /\ Len(Text(runs)) = 1
      /\ Text(runs)[1] = <<"run", r>>
      /\ DOMAIN Text(runs) = 1 .. 1
  BY <1>1, RunsText
<1> QED
  BY <1>2 DEF ToSet, runs

LEMMA TwoRunsText ==
  ASSUME NEW r, NEW q
  PROVE  /\ IsText(Text(<<r, q>>)) /\ Len(Text(<<r, q>>)) = 2
         /\ Text(<<r, q>>)[1] = <<"run", r>>
         /\ ToSet(Text(<<r, q>>)) = {<<"run", r>>, <<"run", q>>}
<1> DEFINE runs == <<r, q>>
<1>1. /\ runs \in Seq({r, q}) /\ Len(runs) = 2
      /\ runs[1] = r /\ runs[2] = q
      /\ 1 \in 1 .. 2 /\ 2 \in 1 .. 2
  OBVIOUS
<1> HIDE DEF runs
<1>2. /\ IsText(Text(runs)) /\ Len(Text(runs)) = 2
      /\ Text(runs)[1] = <<"run", r>> /\ Text(runs)[2] = <<"run", q>>
      /\ DOMAIN Text(runs) = 1 .. 2
  BY <1>1, RunsText
<1> QED
  BY <1>2 DEF ToSet, runs

LEMMA PickedText ==
  ASSUME NEW s, NEW P, IsText(s), P \subseteq DOMAIN s
  PROVE  IsText(Picked(s, P)) /\ Len(Picked(s, P)) \in Nat
<1>1. IsFiniteSet(P)
  <2>1. IsFiniteSet(1 .. Len(s)) /\ DOMAIN s = 1 .. Len(s)
    BY TextProperties, FS_Interval
  <2> QED
    BY <2>1, FS_Subset
<1>2. Cardinality(P) \in Nat
  BY <1>1, FS_CardinalityType
<1> QED
  BY <1>2, FunctionText DEF Picked

-----------------------------------------------------------------------------
(* The parts of a key *)

LEMMA LabelText ==
  ASSUME NEW label, IsText(label)
  PROVE  IsText(SanitizeLabel(label))
<1> DEFINE Bad(i) == label[i][2] \in Unsafe
           dashed == [i \in DOMAIN label |-> IF Bad(i) THEN <<"run", "-">> ELSE label[i]]
           Solid(i) == dashed[i][2] # "-"
           kept == {i \in DOMAIN label :
                      /\ \E j \in 1 .. i : Solid(j)
                      /\ \E j \in i .. Len(label) : Solid(j)
                      /\ Bad(i) => ~Bad(i - 1)}
           sanitized == Picked(dashed, kept)
<1>1. SanitizeLabel(label) =
        IF kept = {} THEN Text(<<"fn">>)
        ELSE IF Len(sanitized) <= MaxLabel THEN sanitized
        ELSE SubSeq(sanitized, 1, MaxLabel)
  BY DEF SanitizeLabel
<1>2. IsText(dashed) /\ DOMAIN dashed = DOMAIN label
  <2>1. Len(label) \in Nat /\ DOMAIN label = 1 .. Len(label)
    BY TextProperties
  <2>2. dashed = [i \in 1 .. Len(label) |-> dashed[i]]
    BY <2>1
  <2> HIDE DEF dashed
  <2>3. IsText(dashed)
    BY <2>1, <2>2, FunctionText
  <2>4. DOMAIN dashed = DOMAIN label
    BY <2>1, <2>2
  <2> QED
    BY <2>3, <2>4
<1>3. kept \subseteq DOMAIN dashed
  BY <1>2
<1> HIDE DEF dashed, kept
<1>4. IsText(sanitized) /\ Len(sanitized) \in Nat
  BY <1>2, <1>3, PickedText
<1> HIDE DEF sanitized
<1>5. Len(sanitized) > MaxLabel => IsText(SubSeq(sanitized, 1, MaxLabel))
  <2> DEFINE t == SubSeq(sanitized, 1, MaxLabel)
  <2> SUFFICES ASSUME Len(sanitized) > MaxLabel PROVE IsText(t)
    OBVIOUS
  <2>1. MaxLabel \in Nat
    BY KeysAssumption
  <2>2. t = [i \in 1 .. MaxLabel |-> t[i]]
    BY <1>4, <2>1, SubSeqProperties, LenProperties DEF IsText
  <2> HIDE DEF t
  <2> QED
    BY <2>1, <2>2, FunctionText
<1>6. IsText(Text(<<"fn">>))
  BY RunText
<1> QED
  BY <1>1, <1>4, <1>5, <1>6, KeysAssumption

LEMMA BaseText ==
  ASSUME NEW f
  PROVE  /\ IsText(KeyBase(f)) /\ Len(KeyBase(f)) = 7
         /\ KeyBase(f)[1] = <<"run", "rsc-cache">>
         /\ KeyBase(f)[5] = <<"run", f.namespace>>
         /\ KeyBase(f)[7] = <<"hash", Text(<<f.version>>)>>
<1> DEFINE runs == <<"rsc-cache", ":", "v1", ":", f.namespace, ":">>
           S == {"rsc-cache", ":", "v1", f.namespace}
           h == Hash(Text(<<f.version>>))
<1>1. /\ runs \in Seq(S) /\ Len(runs) = 6
      /\ runs[1] = "rsc-cache" /\ runs[5] = f.namespace
  OBVIOUS
<1>2. KeyBase(f) = Cat(Text(runs), h)
  BY DEF KeyBase, Cat
<1>3. IsText(h) /\ Len(h) = 1 /\ h[1] = <<"hash", Text(<<f.version>>)>>
  BY HashText
<1> HIDE DEF runs, h, S
<1>4. /\ IsText(Text(runs)) /\ Len(Text(runs)) = 6
      /\ Text(runs)[1] = <<"run", "rsc-cache">>
      /\ Text(runs)[5] = <<"run", f.namespace>>
  <2>1. 1 \in 1 .. 6 /\ 5 \in 1 .. 6
    OBVIOUS
  <2> QED
    BY <1>1, <2>1, RunsText
<1> DEFINE t == Text(runs)
<1>5. IsText(Cat(t, h)) /\ Len(Cat(t, h)) = 7
  <2>1. IsText(Cat(t, h))
    BY <1>3, <1>4, TextConcat
  <2>2. Len(Cat(t, h)) = Len(t) + Len(h)
    BY <1>3, <1>4, TextConcat
  <2>3. Len(t) = 6 /\ Len(h) = 1
    BY <1>3, <1>4
  <2> QED
    BY <2>1, <2>2, <2>3
<1>6. Cat(t, h)[1] = t[1] /\ Cat(t, h)[5] = t[5]
  <2>1. 1 \in 1 .. Len(t) /\ 5 \in 1 .. Len(t)
    BY <1>4
  <2> QED
    BY <1>3, <1>4, <2>1, ConcatHead
<1>7. Cat(t, h)[7] = h[1]
  <2>1. IsText(t) /\ Len(t) = 6 /\ Len(h) = 1
    BY <1>3, <1>4
  <2>2. 7 \in 1 .. Len(t) + Len(h) /\ ~(7 <= Len(t)) /\ 7 - Len(t) = 1
    BY <2>1
  <2> HIDE DEF t
  <2>3. \A i \in 1 .. Len(t) + Len(h) :
          Cat(t, h)[i] = IF i <= Len(t) THEN t[i] ELSE h[i - Len(t)]
    BY <1>3, <2>1, ConcatAt
  <2> QED
    BY <2>1, <2>2, <2>3
<1> QED
  BY <1>2, <1>3, <1>4, <1>5, <1>6, <1>7

(* A key that is cut ends in the hash of the whole.                        *)
LEMMA Enforced ==
  ASSUME NEW whole, IsText(whole)
  PROVE  EnforceMaxLength(whole) = whole \/ Last(EnforceMaxLength(whole)) = <<"hash", whole>>
<1> DEFINE t == Text(<<":", "h">>)
           suffix == Cat(t, Hash(whole))
           head == {i \in DOMAIN whole :
                      /\ i <= MaxKeyLength - Len(suffix)
                      /\ \E j \in DOMAIN whole : j > i /\ whole[j] = <<"run", ":">>}
<1>1. \/ EnforceMaxLength(whole) = whole
      \/ EnforceMaxLength(whole) = Cat(Text(<<"h">>), Hash(whole))
      \/ EnforceMaxLength(whole) = Cat(Picked(whole, head), suffix)
  BY DEF EnforceMaxLength, Cat
<1>2. /\ IsText(Hash(whole)) /\ Len(Hash(whole)) = 1
      /\ Last(Hash(whole)) = <<"hash", whole>>
  BY HashText
<1>3. IsText(t) /\ Len(t) = 2 /\ IsText(Text(<<"h">>))
  BY RunText, TwoRunsText
<1>4. head \subseteq DOMAIN whole
  OBVIOUS
<1> HIDE DEF t, head
<1>5. IsText(suffix) /\ Len(suffix) = 3 /\ Last(suffix) = <<"hash", whole>>
  <2>1. IsText(suffix) /\ Len(suffix) = Len(t) + Len(Hash(whole))
    BY <1>2, <1>3, TextConcat
  <2>2. Last(suffix) = <<"hash", whole>>
    BY <1>2, <1>3, LastConcat
  <2> QED
    BY <1>2, <1>3, <2>1, <2>2
<1>6. Last(Cat(Text(<<"h">>), Hash(whole))) = <<"hash", whole>>
  BY <1>2, <1>3, LastConcat
<1> HIDE DEF suffix
<1>7. IsText(Picked(whole, head))
  BY <1>4, PickedText
<1>8. Last(Cat(Picked(whole, head), suffix)) = <<"hash", whole>>
  BY <1>5, <1>7, LastConcat
<1> QED
  BY <1>1, <1>6, <1>8

-----------------------------------------------------------------------------
(* Keys *)

Runs == {"run"} \X STRING
Bar == <<"run", "|">>

(* A call as the code makes a key of: what a user names is a string, and   *)
(* scope and arguments can be encoded.  A name with a bar is left out: the *)
(* bar separates a name from what follows it in what is hashed.            *)
WellFormed(call) ==
  /\ {call.of.fn, call.of.name, call.of.key} \subseteq Seq(Runs)
  /\ Bar \notin ToSet(call.of.fn) \union ToSet(call.of.name)
  /\ call.scope \in Lists
  /\ ~Named(call.of.key) => call.args \in Lists

LEMMA RunsAreText ==
  ASSUME NEW t \in Seq(Runs)
  PROVE  IsText(t)
<1>1. Len(t) \in Nat /\ t = [i \in 1 .. Len(t) |-> t[i]]
  BY LenProperties
<1> QED
  BY <1>1, FunctionText

LEMMA EncodedText ==
  ASSUME NEW list \in Lists
  PROVE  /\ IsText(StableStringify(list)) /\ Len(StableStringify(list)) > 0
         /\ StableStringify(list)[1] = <<"run", "A">>
<1> DEFINE text == StableStringify(list)
<1>1. IsText(text) /\ text # <<>> /\ text[1] = <<"run", "A">>
  BY KeysAssumption
<1> HIDE DEF text
<1>2. Len(text) > 0
  BY <1>1, EmptySeq DEF IsText
<1> QED
  BY <1>1, <1>2 DEF text

LEMMA IdentityText ==
  ASSUME NEW c, WellFormed(c)
  PROVE  /\ IsText(Identity(c.of)) /\ Len(Identity(c.of)) > 0
         /\ Identity(c.of)[1] \in {<<"run", "name">>, <<"run", "src">>}
         /\ Bar \notin ToSet(Identity(c.of))
<1> DEFINE f == c.of
           name == Text(<<"name", ":">>)
           src == Text(<<"src", ":">>)
           colon == Text(<<":">>)
<1>1. /\ IsText(f.fn) /\ IsText(Label(f))
      /\ Bar \notin ToSet(f.fn) /\ Bar \notin ToSet(Label(f))
  BY RunsAreText DEF WellFormed, Label
<1>2. /\ IsText(name) /\ Len(name) = 2 /\ name[1] = <<"run", "name">>
      /\ Bar \notin ToSet(name)
      /\ IsText(src) /\ Len(src) = 2 /\ src[1] = <<"run", "src">>
      /\ Bar \notin ToSet(src)
      /\ IsText(colon) /\ Len(colon) = 1 /\ Bar \notin ToSet(colon)
  BY RunText, TwoRunsText DEF Bar
<1>3. IsText(Hash(f.source)) /\ Len(Hash(f.source)) = 1 /\ Bar \notin ToSet(Hash(f.source))
  <2>1. ToSet(Hash(f.source)) = {<<"hash", f.source>>}
    BY DEF ToSet, Hash
  <2> QED
    BY <2>1, HashText DEF Bar
<1> HIDE DEF name, src, colon
<1> DEFINE named == Cat(name, Label(f))
           sourced == Cat(Cat(Cat(src, f.fn), colon), Hash(f.source))
<1>4. Identity(f) \in {named, sourced}
  BY DEF Identity, Cat, name, src, colon
<1>5. /\ IsText(named) /\ Len(named) > 0 /\ named[1] = <<"run", "name">>
      /\ Bar \notin ToSet(named)
  BY <1>1, <1>2, ConcatFirst
<1>6. /\ IsText(sourced) /\ Len(sourced) > 0 /\ sourced[1] = <<"run", "src">>
      /\ Bar \notin ToSet(sourced)
  <2> DEFINE a == Cat(src, f.fn)
             b == Cat(a, colon)
  <2>1. /\ IsText(a) /\ Len(a) > 0 /\ a[1] = <<"run", "src">>
        /\ Bar \notin ToSet(a)
    BY <1>1, <1>2, ConcatFirst
  <2> HIDE DEF a
  <2>2. /\ IsText(b) /\ Len(b) > 0 /\ b[1] = <<"run", "src">>
        /\ Bar \notin ToSet(b)
    BY <1>2, <2>1, ConcatFirst
  <2>3. sourced = Cat(b, Hash(f.source))
    BY DEF a
  <2> HIDE DEF b
  <2> QED
    BY <1>3, <2>2, <2>3, ConcatFirst
<1> QED
  BY <1>4, <1>5, <1>6

LEMMA ScopeText ==
  ASSUME NEW c
  PROVE  IsText(ScopeToken(c.scope)) /\ Bar \notin ToSet(ScopeToken(c.scope))
<1>1. CASE c.scope = <<>>
  <2>1. IsText(<<>>) /\ ToSet(<<>>) = {}
    BY EmptySeq DEF IsText, ToSet
  <2> QED
    BY <1>1, <2>1 DEF ScopeToken
<1>2. CASE c.scope # <<>>
  <2>1. ToSet(Hash(StableStringify(c.scope))) = {<<"hash", StableStringify(c.scope)>>}
    BY DEF ToSet, Hash
  <2> QED
    BY <1>2, <2>1, HashText DEF ScopeToken, Bar
<1> QED
  BY <1>1, <1>2

(* What is hashed, cut at its bars.                                        *)
AfterScope(c) == Cat(Text(<<"|">>), StableStringify(c.args))
AfterIdentity(c) == Cat(Text(<<"|">>), Cat(ScopeToken(c.scope), AfterScope(c)))

LEMMA MaterialParts ==
  ASSUME NEW c, WellFormed(c), ~Named(c.of.key)
  PROVE  /\ IsText(AfterScope(c)) /\ Len(AfterScope(c)) > 0 /\ AfterScope(c)[1] = Bar
         /\ IsText(Cat(ScopeToken(c.scope), AfterScope(c)))
         /\ IsText(AfterIdentity(c)) /\ Len(AfterIdentity(c)) > 0
         /\ AfterIdentity(c)[1] = Bar
         /\ Material(c) = Cat(Identity(c.of), AfterIdentity(c))
<1> DEFINE bar == Text(<<"|">>)
           i == Identity(c.of)
           s == ScopeToken(c.scope)
           a == StableStringify(c.args)
           t == Cat(bar, a)
           u == Cat(s, t)
<1>1. IsText(bar) /\ Len(bar) = 1 /\ Len(bar) > 0 /\ bar[1] = Bar
  BY RunText DEF Bar
<1>2. IsText(i) /\ IsText(s) /\ IsText(a)
  BY IdentityText, ScopeText, EncodedText DEF WellFormed
<1>3. Material(c) = Cat(Cat(Cat(Cat(i, bar), s), bar), a)
  BY DEF Material, Cat
<1>4. AfterScope(c) = t /\ AfterIdentity(c) = Cat(bar, u)
  BY DEF AfterScope, AfterIdentity
<1> HIDE DEF bar, i, s, a, t, u
<1>5. IsText(t) /\ Len(t) > 0 /\ t[1] = Bar
  BY <1>1, <1>2, ConcatFirst DEF t
<1>6. IsText(u)
  BY <1>2, <1>5, TextConcat DEF u
<1>7. IsText(Cat(bar, u)) /\ Len(Cat(bar, u)) > 0 /\ Cat(bar, u)[1] = Bar
  BY <1>1, <1>6, ConcatFirst
<1>8. Material(c) = Cat(i, Cat(bar, u))
  <2>1. IsText(Cat(i, bar)) /\ IsText(Cat(Cat(i, bar), s))
    BY <1>1, <1>2, TextConcat
  <2>2. Cat(Cat(Cat(Cat(i, bar), s), bar), a) = Cat(Cat(Cat(i, bar), s), t)
    BY <1>1, <1>2, <2>1, TextAssoc DEF t
  <2>3. Cat(Cat(Cat(i, bar), s), t) = Cat(Cat(i, bar), u)
    BY <1>2, <1>5, <2>1, TextAssoc DEF u
  <2>4. Cat(Cat(i, bar), u) = Cat(i, Cat(bar, u))
    BY <1>1, <1>2, <1>6, TextAssoc
  <2> QED
    BY <1>3, <2>2, <2>3, <2>4
<1> QED
  BY <1>4, <1>5, <1>6, <1>7, <1>8 DEF i, s, u

LEMMA MaterialFirst ==
  ASSUME NEW c, WellFormed(c), ~Named(c.of.key)
  PROVE  Material(c)[1] \in {<<"run", "name">>, <<"run", "src">>}
BY MaterialParts, IdentityText, ConcatFirst

(* Two functions, scopes or lists of arguments make two materials.         *)
LEMMA MaterialApart ==
  ASSUME NEW c, NEW d, WellFormed(c), WellFormed(d),
         ~Named(c.of.key), ~Named(d.of.key), Material(c) = Material(d)
  PROVE  /\ Identity(c.of) = Identity(d.of)
         /\ ScopeToken(c.scope) = ScopeToken(d.scope)
         /\ StableStringify(c.args) = StableStringify(d.args)
<1>1. Identity(c.of) = Identity(d.of) /\ AfterIdentity(c) = AfterIdentity(d)
  <2>1. Cat(Identity(c.of), AfterIdentity(c)) = Cat(Identity(d.of), AfterIdentity(d))
    BY MaterialParts
  <2>2. /\ IsText(Identity(c.of)) /\ Bar \notin ToSet(Identity(c.of))
        /\ IsText(Identity(d.of)) /\ Bar \notin ToSet(Identity(d.of))
    BY IdentityText
  <2>3. /\ IsText(AfterIdentity(c)) /\ Len(AfterIdentity(c)) > 0
        /\ AfterIdentity(c)[1] = Bar
        /\ IsText(AfterIdentity(d)) /\ Len(AfterIdentity(d)) > 0
        /\ AfterIdentity(d)[1] = Bar
    BY MaterialParts
  <2> QED
    BY <2>1, <2>2, <2>3, CutAtToken
<1>2. Cat(ScopeToken(c.scope), AfterScope(c)) = Cat(ScopeToken(d.scope), AfterScope(d))
  <2>1. IsText(Text(<<"|">>))
    BY RunText
  <2> QED
    BY <1>1, <2>1, MaterialParts, CutAtLength DEF AfterIdentity
<1>3. ScopeToken(c.scope) = ScopeToken(d.scope) /\ AfterScope(c) = AfterScope(d)
  <2>1. /\ IsText(ScopeToken(c.scope)) /\ Bar \notin ToSet(ScopeToken(c.scope))
        /\ IsText(ScopeToken(d.scope)) /\ Bar \notin ToSet(ScopeToken(d.scope))
    BY ScopeText
  <2>2. /\ IsText(AfterScope(c)) /\ Len(AfterScope(c)) > 0 /\ AfterScope(c)[1] = Bar
        /\ IsText(AfterScope(d)) /\ Len(AfterScope(d)) > 0 /\ AfterScope(d)[1] = Bar
    BY MaterialParts
  <2> QED
    BY <1>2, <2>1, <2>2, CutAtToken
<1>4. StableStringify(c.args) = StableStringify(d.args)
  <2>1. IsText(Text(<<"|">>))
    BY RunText
  <2>2. IsText(StableStringify(c.args)) /\ IsText(StableStringify(d.args))
    BY EncodedText DEF WellFormed
  <2> QED
    BY <1>3, <2>1, <2>2, CutAtLength DEF AfterScope
<1> QED
  BY <1>1, <1>3, <1>4

(* The whole key of a call, before its length is looked at.                *)
Colon == Text(<<":">>)
Particular(c) ==
  IF Named(c.of.key) THEN Segment(c.of, Custom(c))
  ELSE Cat(Cat(SanitizeLabel(Label(c.of)), Colon), Hash(Material(c)))
Whole(c) == Cat(Cat(KeyBase(c.of), Colon), Particular(c))

(* What a key of the user's ends in: the hash of the scope, or a run.      *)
LEMMA SegmentText ==
  ASSUME NEW c, WellFormed(c), Named(c.of.key)
  PROVE  LET segment == Segment(c.of, Custom(c))
         IN /\ IsText(segment) /\ Len(segment) > 0
            /\ IF c.scope = <<>> THEN Last(segment)[1] = "run"
               ELSE Last(segment) = <<"hash", StableStringify(c.scope)>>
<1> DEFINE label == SanitizeLabel(Label(c.of))
           custom == Custom(c)
           t == Cat(Cat(label, Colon), custom)
           segment == Segment(c.of, Custom(c))
<1>1. IsText(label)
  BY RunsAreText, LabelText DEF WellFormed, Label
<1>2. IsText(Colon)
  BY RunText DEF Colon
<1>3. /\ IsText(c.of.key) /\ Len(c.of.key) \in Nat \ {0}
      /\ Last(c.of.key)[1] = "run"
  <2>1. c.of.key \in Seq(Runs) /\ c.of.key # <<>>
    BY DEF WellFormed, Named
  <2>2. IsText(c.of.key) /\ Len(c.of.key) \in Nat \ {0}
    BY <2>1, RunsAreText, EmptySeq
  <2>3. c.of.key[Len(c.of.key)] \in Runs
    BY <2>1, <2>2, ElementOfSeq
  <2> QED
    BY <2>2, <2>3 DEF Last, Runs
<1>4. /\ IsText(custom) /\ Len(custom) > 0
      /\ IF c.scope = <<>> THEN Last(custom)[1] = "run"
         ELSE Last(custom) = <<"hash", StableStringify(c.scope)>>
  <2>1. CASE c.scope = <<>>
    BY <1>3, <2>1 DEF Custom
  <2>2. CASE c.scope # <<>>
    <3> DEFINE h == Hash(StableStringify(c.scope))
               front == Cat(c.of.key, Text(<<"~">>))
    <3>1. custom = Cat(front, h)
      BY <2>2 DEF Custom, ScopeToken, Cat
    <3>2. IsText(h) /\ Len(h) > 0 /\ Last(h) = <<"hash", StableStringify(c.scope)>>
      BY HashText
    <3>3. IsText(front) /\ Len(front) > 0
      BY <1>3, RunText, ConcatFirst
    <3> HIDE DEF custom, front, h
    <3>4. IsText(custom) /\ Len(custom) > 0
      BY <3>1, <3>2, <3>3, ConcatFirst
    <3>5. Last(custom) = Last(h)
      BY <3>1, <3>2, <3>3, LastConcat
    <3> QED
      BY <2>2, <3>2, <3>4, <3>5
  <2> QED
    BY <2>1, <2>2
<1>5. segment = Dashed(t)
  BY DEF Segment, Cat, Colon
<1> HIDE DEF label, custom, segment
<1>6. IsText(t) /\ Len(t) \in Nat \ {0} /\ Last(t) = Last(custom)
  <2>1. IsText(Cat(label, Colon))
    BY <1>1, <1>2, TextConcat
  <2>2. IsText(t) /\ Len(t) = Len(Cat(label, Colon)) + Len(custom)
    BY <1>4, <2>1, TextConcat
  <2>3. Last(t) = Last(custom)
    BY <1>4, <2>1, LastConcat
  <2>4. Len(Cat(label, Colon)) \in Nat /\ Len(custom) \in Nat
    BY <1>4, <2>1, TextProperties
  <2> QED
    BY <1>4, <2>2, <2>3, <2>4
<1> HIDE DEF t
<1>7. /\ IsText(segment) /\ Len(segment) = Len(t)
      /\ Last(segment) = IF Last(t) = <<"run", ":">> THEN <<"run", "-">> ELSE Last(t)
  <2>1. /\ segment = [i \in 1 .. Len(t) |-> segment[i]]
        /\ \A i \in 1 .. Len(t) :
             segment[i] = IF t[i] = <<"run", ":">> THEN <<"run", "-">> ELSE t[i]
    BY <1>5 DEF Dashed
  <2>2. IsText(segment) /\ Len(segment) = Len(t)
    BY <1>6, <2>1, FunctionText
  <2>3. Len(t) \in 1 .. Len(t)
    BY <1>6
  <2> QED
    BY <2>1, <2>2, <2>3 DEF Last
<1> QED
  BY <1>4, <1>6, <1>7 DEF segment

LEMMA ParticularText ==
  ASSUME NEW c, WellFormed(c)
  PROVE  /\ IsText(Particular(c)) /\ Len(Particular(c)) > 0
         /\ ~Named(c.of.key) => Last(Particular(c)) = <<"hash", Material(c)>>
<1>1. CASE Named(c.of.key)
  BY <1>1, SegmentText DEF Particular
<1>2. CASE ~Named(c.of.key)
  <2> DEFINE label == SanitizeLabel(Label(c.of))
             front == Cat(label, Colon)
             h == Hash(Material(c))
  <2>1. IsText(label)
    BY RunsAreText, LabelText DEF WellFormed, Label
  <2>2. IsText(Colon)
    BY RunText DEF Colon
  <2>3. Particular(c) = Cat(front, h)
    BY <1>2 DEF Particular
  <2>4. IsText(h) /\ Len(h) > 0 /\ Last(h) = <<"hash", Material(c)>>
    BY HashText
  <2> HIDE DEF label, h
  <2>5. IsText(front)
    BY <2>1, <2>2, TextConcat
  <2> HIDE DEF front
  <2>6. IsText(Cat(front, h)) /\ Len(Cat(front, h)) = Len(front) + Len(h)
    BY <2>4, <2>5, TextConcat
  <2>7. Last(Cat(front, h)) = Last(h)
    BY <2>4, <2>5, LastConcat
  <2>8. Len(front) \in Nat /\ Len(h) \in Nat
    BY <2>4, <2>5, TextProperties
  <2> QED
    BY <2>3, <2>4, <2>6, <2>7, <2>8
<1> QED
  BY <1>1, <1>2

LEMMA WholeText ==
  ASSUME NEW c, WellFormed(c)
  PROVE  /\ IsText(Whole(c))
         /\ Whole(c)[1] = <<"run", "rsc-cache">>
         /\ Last(Whole(c)) = Last(Particular(c))
<1> DEFINE base == KeyBase(c.of)
           front == Cat(base, Colon)
<1>1. IsText(base) /\ Len(base) > 0 /\ base[1] = <<"run", "rsc-cache">>
  <2> DEFINE f == c.of
  <2> HIDE DEF f
  <2>1. /\ IsText(KeyBase(f)) /\ Len(KeyBase(f)) = 7
        /\ KeyBase(f)[1] = <<"run", "rsc-cache">>
    BY BaseText, Zenon
  <2> DEFINE b == KeyBase(f)
  <2> HIDE DEF b
  <2>2. IsText(b) /\ Len(b) = 7 /\ b[1] = <<"run", "rsc-cache">>
    BY <2>1 DEF b
  <2>3. IsText(b) /\ Len(b) > 0 /\ b[1] = <<"run", "rsc-cache">>
    BY <2>2
  <2> QED
    BY <2>3, Zenon DEF b, f
<1>2. IsText(Colon)
  BY RunText DEF Colon
<1>3. IsText(Particular(c)) /\ Len(Particular(c)) > 0
  BY ParticularText
<1>4. Whole(c) = Cat(front, Particular(c))
  BY DEF Whole
<1> HIDE DEF base
<1>5. IsText(front) /\ Len(front) > 0 /\ front[1] = <<"run", "rsc-cache">>
  BY <1>1, <1>2, ConcatFirst
<1> HIDE DEF front
<1>6. IsText(Whole(c)) /\ Whole(c)[1] = <<"run", "rsc-cache">>
  BY <1>3, <1>4, <1>5, ConcatFirst
<1>7. Last(Whole(c)) = Last(Particular(c))
  BY <1>3, <1>4, <1>5, LastConcat
<1> QED
  BY <1>6, <1>7

(* The key of a call is the whole key, or ends in its hash.                *)
LEMMA KeyOfWhole ==
  ASSUME NEW c, WellFormed(c)
  PROVE  KeyOf(c) = EnforceMaxLength(Whole(c))
<1>1. CASE Named(c.of.key)
  BY <1>1 DEF KeyOf, BuildCustomEntryKey, Whole, Particular, Cat, Colon
<1>2. CASE ~Named(c.of.key)
  <2> DEFINE front == Cat(KeyBase(c.of), Colon)
             label == SanitizeLabel(Label(c.of))
             h == Hash(Material(c))
  <2>1. IsText(KeyBase(c.of)) /\ IsText(Colon) /\ IsText(label) /\ IsText(h)
    BY BaseText, RunText, RunsAreText, LabelText, HashText DEF Colon, WellFormed, Label
  <2>2. KeyOf(c) = EnforceMaxLength(Cat(Cat(Cat(front, label), Colon), h))
    BY <1>2 DEF KeyOf, BuildEntryKey, Cat, Colon
  <2>3. Whole(c) = Cat(front, Cat(Cat(label, Colon), h))
    BY <1>2 DEF Whole, Particular
  <2> HIDE DEF label, h
  <2>4. IsText(front) /\ IsText(Cat(label, Colon))
    BY <2>1, TextConcat
  <2> HIDE DEF front
  <2>5. Cat(Cat(front, label), Colon) = Cat(front, Cat(label, Colon))
    BY <2>1, <2>4, TextAssoc
  <2>6. Cat(Cat(front, Cat(label, Colon)), h) = Cat(front, Cat(Cat(label, Colon), h))
    BY <2>1, <2>4, TextAssoc
  <2> QED
    BY <2>2, <2>3, <2>5, <2>6
<1> QED
  BY <1>1, <1>2

(* No key ends in the hash of a whole key but one that was cut: what other *)
(* hashes are of begins differently.                                       *)
LEMMA NotTheHashOfAKey ==
  ASSUME NEW c, NEW d, WellFormed(c), WellFormed(d)
  PROVE  Last(Whole(c)) # <<"hash", Whole(d)>>
<1> SUFFICES ASSUME Last(Particular(c)) = <<"hash", Whole(d)>> PROVE FALSE
  BY WholeText
<1>1. Whole(d)[1] = <<"run", "rsc-cache">>
  BY WholeText
<1>2. CASE ~Named(c.of.key)
  <2>1. Material(c) = Whole(d)
    BY <1>2, ParticularText
  <2> QED
    BY <1>1, <1>2, <2>1, MaterialFirst
<1>3. CASE Named(c.of.key)
  <2>1. IF c.scope = <<>> THEN Last(Particular(c))[1] = "run"
        ELSE Last(Particular(c)) = <<"hash", StableStringify(c.scope)>>
    BY <1>3, SegmentText DEF Particular
  <2>2. StableStringify(c.scope)[1] = <<"run", "A">>
    BY EncodedText DEF WellFormed
  <2>3. c.scope # <<>> => StableStringify(c.scope) = Whole(d)
    BY <2>1
  <2> QED
    BY <1>1, <2>1, <2>2, <2>3
<1> QED
  BY <1>2, <1>3

(* A limit of length makes one key of no two.                              *)
LEMMA LengthKeepsApart ==
  ASSUME NEW c, NEW d, WellFormed(c), WellFormed(d), KeyOf(c) = KeyOf(d)
  PROVE  Whole(c) = Whole(d)
<1>1. /\ KeyOf(c) = Whole(c) \/ Last(KeyOf(c)) = <<"hash", Whole(c)>>
      /\ KeyOf(d) = Whole(d) \/ Last(KeyOf(d)) = <<"hash", Whole(d)>>
  BY KeyOfWhole, WholeText, Enforced
<1>2. /\ Last(Whole(c)) # <<"hash", Whole(d)>>
      /\ Last(Whole(d)) # <<"hash", Whole(c)>>
  BY NotTheHashOfAKey
<1> HIDE DEF KeyOf, Whole
<1> QED
  BY <1>1, <1>2

LEMMA WholeApart ==
  ASSUME NEW c, NEW d, WellFormed(c), WellFormed(d), Whole(c) = Whole(d)
  PROVE  /\ c.of.namespace = d.of.namespace
         /\ c.of.version = d.of.version
         /\ Particular(c) = Particular(d)
<1> DEFINE b == KeyBase(c.of)
           e == KeyBase(d.of)
<1>1. /\ IsText(b) /\ Len(b) = 7
      /\ b[5] = <<"run", c.of.namespace>> /\ b[7] = <<"hash", Text(<<c.of.version>>)>>
      /\ IsText(e) /\ Len(e) = 7
      /\ e[5] = <<"run", d.of.namespace>> /\ e[7] = <<"hash", Text(<<d.of.version>>)>>
  BY BaseText
<1>2. IsText(Colon)
  BY RunText DEF Colon
<1>3. Cat(Cat(b, Colon), Particular(c)) = Cat(Cat(e, Colon), Particular(d))
  BY DEF Whole
<1> HIDE DEF b, e
<1>4. /\ IsText(Cat(b, Colon)) /\ Len(Cat(b, Colon)) = 7 + Len(Colon)
      /\ IsText(Cat(e, Colon)) /\ Len(Cat(e, Colon)) = 7 + Len(Colon)
  BY <1>1, <1>2, TextConcat
<1>5. Cat(b, Colon) = Cat(e, Colon) /\ Particular(c) = Particular(d)
  BY <1>3, <1>4, ParticularText, CutAtLength
<1>6. b = e
  BY <1>1, <1>2, <1>5, CutAtLength
<1>7. Text(<<c.of.version>>) = Text(<<d.of.version>>)
  BY <1>1, <1>6
<1>8. c.of.version = d.of.version
  <2>1. /\ Text(<<c.of.version>>)[1] = <<"run", c.of.version>>
        /\ Text(<<d.of.version>>)[1] = <<"run", d.of.version>>
    BY RunText
  <2> QED
    BY <1>7, <2>1
<1> QED
  BY <1>1, <1>5, <1>6, <1>8

(* Calls that get one key are calls of one namespace and version under one *)
(* scope, so that no user is given what was stored for another; and either *)
(* both keys are explicit, and of the same text but for colons and what a  *)
(* label may not contain, or function and arguments are the same too, as   *)
(* far as their encodings tell (keys.ts, createPlan in runtime.ts).        *)
THEOREM KeysTellApart ==
  ASSUME NEW c, NEW d, WellFormed(c), WellFormed(d), KeyOf(c) = KeyOf(d)
  PROVE  /\ c.of.namespace = d.of.namespace
         /\ c.of.version = d.of.version
         /\ \/ c.scope = <<>> /\ d.scope = <<>>
            \/ /\ c.scope # <<>> /\ d.scope # <<>>
               /\ StableStringify(c.scope) = StableStringify(d.scope)
         /\ \/ /\ Named(c.of.key) /\ Named(d.of.key)
               /\ Segment(c.of, Custom(c)) = Segment(d.of, Custom(d))
            \/ /\ ~Named(c.of.key) /\ ~Named(d.of.key)
               /\ Identity(c.of) = Identity(d.of)
               /\ StableStringify(c.args) = StableStringify(d.args)
<1>1. /\ c.of.namespace = d.of.namespace
      /\ c.of.version = d.of.version
      /\ Particular(c) = Particular(d)
  BY LengthKeepsApart, WholeApart
<1>2. ASSUME NEW x, NEW y, WellFormed(x), WellFormed(y),
             Named(x.of.key), ~Named(y.of.key), Particular(x) = Particular(y)
      PROVE  FALSE
  <2>1. Last(Particular(y)) = <<"hash", Material(y)>>
    BY <1>2, ParticularText
  <2>2. Material(y)[1] \in {<<"run", "name">>, <<"run", "src">>}
    BY <1>2, MaterialFirst
  <2>3. IF x.scope = <<>> THEN Last(Particular(x))[1] = "run"
        ELSE Last(Particular(x)) = <<"hash", StableStringify(x.scope)>>
    BY <1>2, SegmentText DEF Particular
  <2>4. StableStringify(x.scope)[1] = <<"run", "A">>
    BY <1>2, EncodedText DEF WellFormed
  <2>5. x.scope # <<>> => StableStringify(x.scope) = Material(y)
    BY <1>2, <2>1, <2>3
  <2> QED
    BY <1>2, <2>1, <2>2, <2>3, <2>4, <2>5
<1>3. CASE Named(c.of.key) /\ Named(d.of.key)
  <2>1. Segment(c.of, Custom(c)) = Segment(d.of, Custom(d))
    BY <1>1, <1>3 DEF Particular
  <2>2. /\ IF c.scope = <<>> THEN Last(Segment(c.of, Custom(c)))[1] = "run"
           ELSE Last(Segment(c.of, Custom(c))) = <<"hash", StableStringify(c.scope)>>
        /\ IF d.scope = <<>> THEN Last(Segment(d.of, Custom(d)))[1] = "run"
           ELSE Last(Segment(d.of, Custom(d))) = <<"hash", StableStringify(d.scope)>>
    BY <1>3, SegmentText
  <2> QED
    BY <1>1, <1>3, <2>1, <2>2
<1>4. CASE ~Named(c.of.key) /\ ~Named(d.of.key)
  <2>1. Material(c) = Material(d)
    <3>1. /\ Last(Particular(c)) = <<"hash", Material(c)>>
          /\ Last(Particular(d)) = <<"hash", Material(d)>>
      BY <1>4, ParticularText
    <3> QED
      BY <1>1, <3>1
  <2>2. /\ Identity(c.of) = Identity(d.of)
        /\ ScopeToken(c.scope) = ScopeToken(d.scope)
        /\ StableStringify(c.args) = StableStringify(d.args)
    BY <1>4, <2>1, MaterialApart
  <2>3. \/ c.scope = <<>> /\ d.scope = <<>>
        \/ /\ c.scope # <<>> /\ d.scope # <<>>
           /\ StableStringify(c.scope) = StableStringify(d.scope)
    <3>1. /\ c.scope = <<>> => ScopeToken(c.scope) = <<>>
          /\ d.scope = <<>> => ScopeToken(d.scope) = <<>>
      BY DEF ScopeToken
    <3>2. \A m : Hash(m) # <<>>
      BY HashText, EmptySeq
    <3>3. \A m, n : Hash(m) = Hash(n) => m = n
      BY HashText
    <3>4. /\ c.scope # <<>> => ScopeToken(c.scope) = Hash(StableStringify(c.scope))
          /\ d.scope # <<>> => ScopeToken(d.scope) = Hash(StableStringify(d.scope))
      BY DEF ScopeToken
    <3> QED
      BY <2>2, <3>1, <3>2, <3>3, <3>4
  <2> QED
    BY <1>1, <1>4, <2>2, <2>3
<1> QED
  BY <1>1, <1>2, <1>3, <1>4

-----------------------------------------------------------------------------
(* Under such keys, what a call is served was stored by a call of its own  *)
(* namespace and version, under its own scope.                             *)
WithinScope ==
  \A p \in Processes :
    LET s == process[p].served
        mine == scenario.call[p]
    IN s # None =>
         /\ s.by.of.namespace = mine.of.namespace
         /\ s.by.of.version = mine.of.version
         /\ \/ s.by.scope = <<>> /\ mine.scope = <<>>
            \/ /\ s.by.scope # <<>> /\ mine.scope # <<>>
               /\ StableStringify(s.by.scope) = StableStringify(mine.scope)

(* Whatever keys are known to confuse, no call or raw read is served what  *)
(* was stored for another user, tenant, namespace or version (createPlan   *)
(* and deserializeEntry in runtime.ts, keys.ts).                           *)
THEOREM ServedWithinScope ==
  ASSUME \A s \in Scenarios : \A p \in Processes :
           WellFormed(s.call[p]) /\ EntryKey(s.call[p]) = KeyOf(s.call[p])
  PROVE  Spec => []WithinScope
<1>1. IInv => WithinScope
  <2> SUFFICES ASSUME IInv, NEW p \in Processes, process[p].served # None
               PROVE  LET s == process[p].served
                          mine == scenario.call[p]
                      IN /\ s.by.of.namespace = mine.of.namespace
                         /\ s.by.of.version = mine.of.version
                         /\ \/ s.by.scope = <<>> /\ mine.scope = <<>>
                            \/ /\ s.by.scope # <<>> /\ mine.scope # <<>>
                               /\ StableStringify(s.by.scope) = StableStringify(mine.scope)
    BY DEF WithinScope
  <2>1. PICK q \in Processes :
          /\ process[p].served.by = scenario.call[q]
          /\ EntryKey(scenario.call[q]) = EntryKey(scenario.call[p])
    BY DEF IInv, ServedUnderKey
  <2>2. /\ WellFormed(scenario.call[q]) /\ WellFormed(scenario.call[p])
        /\ KeyOf(scenario.call[q]) = KeyOf(scenario.call[p])
    BY <2>1 DEF IInv, TypeOK
  <2> QED
    BY <2>1, <2>2, KeysTellApart
<1> QED
  BY <1>1, Invariance, PTL
=============================================================================
