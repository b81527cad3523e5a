------------------------------ MODULE Payloads ------------------------------
(***************************************************************************)
(* What becomes of a value between the call that stores it and the call    *)
(* that is served it: its payload and the compression of that              *)
(* (src/compression.ts), the envelope (src/codec.ts, src/kv.ts) and the    *)
(* treatment of what cannot be read back (src/runtime.ts).                 *)
(*                                                                         *)
(* The processes share a storage, as two versions of an application do     *)
(* while one replaces the other: each makes calls of one cached function,  *)
(* or of its own, under its own serializer and compression, and reads and  *)
(* writes raw entries under the same key.  What happens between a read and *)
(* a write inside a process is left to CacheRuntime.                       *)
(*                                                                         *)
(* Keys and serializers are constants, of which three things are assumed;  *)
(* Keys and Codec define them.  The calls are such as get a key: one that  *)
(* does not throws before it comes to the storage.                         *)
(***************************************************************************)
EXTENDS Integers

CONSTANTS Processes,
          Scenarios,  \* data (what the functions return), wire (how the
                      \* storage keeps entries), failOpen, ttl, staleTtl,
                      \* faults, and for every process: call, setup, uses
          Oversized,  \* data above maxValueSize
          None,
          MaxTime,
          EntryKey(_),          \* the key of a call
          MayShare(_, _),       \* two calls are one, or known to be confused
          Serializes(_, _),     \* a serializer accepts a value,
          Serialized(_, _),     \* and what it makes of it
          Parses(_, _),         \* it accepts a text,
          Parsed(_, _),         \* and what it makes of that
          Promised(_, _, _),    \* it promises that a value becomes this
          NameOf(_)             \* the name it states, None without one

Forever == MaxTime + 3  \* Infinity
Null == -1              \* null in JSON

(* No compression has the name of a format of its own.                     *)
ASSUME PayloadsAssumption ==
  /\ MaxTime \in Nat
  /\ \A s \in Scenarios :
       /\ s.wire \in {"object", "string", "binary"}
       /\ {s.ttl, s.staleTtl} \subseteq Nat
       /\ \A p \in Processes : s.setup[p].compression \notin {"plain", "spoilt"}

(* Calls that get one key may share it. *)
ASSUME KeyAssumption ==
  \A s \in Scenarios : \A p, q \in Processes :
    EntryKey(s.call[p]) = EntryKey(s.call[q]) => MayShare(s.call[p], s.call[q])

(* A serializer reads what it wrote, and keeps of it what it promises.     *)
ASSUME SerializerAssumption ==
  \A s \in Scenarios : \A p \in Processes :
    LET by == s.setup[p].serializer
        text == Serialized(by, s.data)
    IN  Serializes(by, s.data) =>
          Parses(by, text) /\ Promised(by, s.data, Parsed(by, text))

(* A name identifies the serializer that states it (types.ts:45).          *)
ASSUME NameAssumption ==
  \A s \in Scenarios : \A p, q \in Processes :
    LET one == s.setup[p].serializer
        other == s.setup[q].serializer
    IN  NameOf(one) = NameOf(other) => NameOf(one) = None \/ one = other

VARIABLES scenario, key, now, store, process, faults,
          settled  \* the processes whose last operation should have left an
                   \* entry, and whom nobody has disturbed since it began

vars == <<scenario, key, now, store, process, faults, settled>>

-----------------------------------------------------------------------------
(* Payloads: a format and JSON, or bytes that are neither.  Damage that    *)
(* makes another payload of one is left out: no checksum would tell.       *)

(* Without CompressionStream the provider throws. *)
Compresses(setup) == setup.compression = "none" \/ setup.streams

Prepares(setup, value) ==
  Serializes(setup.serializer, value) /\ Compresses(setup)

PrepareBytes(setup, value) ==
  <<IF setup.compression = "none" THEN "plain" ELSE setup.compression,
    Serialized(setup.serializer, value)>>

Spoilt == <<"spoilt", None>>

(* The provider in use must be the one the entry names, and the bytes its  *)
(* output.                                                                 *)
Deserializes(setup, entry) ==
  /\ entry.compressed # "none" =>
       entry.compressed = setup.compression /\ setup.streams
  /\ entry.value[1] = IF entry.compressed = "none" THEN "plain" ELSE entry.compressed
  /\ Parses(setup.serializer, entry.value[2])

Deserialize(setup, entry) == Parsed(setup.serializer, entry.value[2])

(* Only two names can differ: a serializer need not have one. *)
Mismatched(setup, entry) ==
  /\ entry.serializer # None /\ NameOf(setup.serializer) # None
  /\ entry.serializer # NameOf(setup.serializer)

(* A mistake of Readable: any serializer will do. *)
ReadableByAny(setup, entry) == Deserializes(setup, entry)

(* What deserializeEntry accepts. *)
Readable(setup, entry) == ~Mismatched(setup, entry) /\ Deserializes(setup, entry)

-----------------------------------------------------------------------------
(* Entries and what a storage keeps of them.  by, data and writer are      *)
(* history: the call the entry was written for, what it returned, and the  *)
(* serializer, of which an entry has the name alone.                       *)

ToMeta(entry) ==
  LET Finite(time) == IF time = Forever THEN Null ELSE time
  IN [entry EXCEPT !.expires = Finite(@), !.stale = Finite(@)]

FromMeta(entry) ==
  LET Time(time) == IF time = Null THEN Forever ELSE time
  IN [entry EXCEPT !.expires = Time(@), !.stale = Time(@)]

(* The two encodings differ in their layout only, for the payload is       *)
(* opaque to both.                                                         *)
Encoded(entry) == IF scenario.wire = "object" THEN entry ELSE ToMeta(entry)
Decoded(entry) == IF scenario.wire = "object" THEN entry ELSE FromMeta(entry)

Freshness(entry) ==
  IF now < entry.expires THEN "fresh"
  ELSE IF now < entry.stale THEN "stale" ELSE "expired"

Setup(p) == scenario.setup[p]
Held(p) == key[p] \in DOMAIN store
Broken(p) == Held(p) /\ ~store[key[p]].intact
Entry(p) == Decoded(store[key[p]])

(* A damaged envelope makes get() throw; without one the entry comes back  *)
(* malformed.                                                              *)
GetThrows(p) == Broken(p) /\ scenario.wire # "object"
Malformed(p) == Broken(p) /\ scenario.wire = "object"
Found(p) == Held(p) /\ ~Broken(p)

(* The revision of nothing is 0: code says null. *)
Revision(p) == IF Found(p) THEN Entry(p).revision ELSE 0

Sharing(p) == {q \in Processes : key[q] = key[p]}

Accepted(p) == ~Broken(p) /\ Revision(p) = process[p].observed

(* What another process finds from now on is p's. *)
CompareAndSet(p, entry) ==
  IF Accepted(p)
    THEN /\ store' = [k \in DOMAIN store \union {key[p]} |->
                    IF k = key[p] THEN Encoded(entry) ELSE store[k]]
         /\ settled' = settled \ (Sharing(p) \ {p})
    ELSE UNCHANGED <<store, settled>>

-----------------------------------------------------------------------------
Init ==
  /\ \E s \in Scenarios :
       /\ scenario = s
       /\ key = [p \in Processes |-> EntryKey(s.call[p])]
       /\ faults = s.faults
  /\ now = 0
  /\ store = [k \in {} |-> None]
  /\ process = [p \in Processes |->
                  [pc |-> "idle", observed |-> 0, uses |-> 0, served |-> None]]
  /\ settled = {}

Become(p, pc, observed, served) ==
  process' = [process EXCEPT ![p] =
    [pc |-> pc, observed |-> observed, served |-> served,
     uses |-> IF @.pc = "idle" THEN @.uses + 1 ELSE @.uses]]

May(p, pc) == process[p].pc = pc /\ (pc = "idle" => process[p].uses < scenario.uses[p])

Served(p, raw) ==
  [by |-> Entry(p).by, data |-> Entry(p).data, writer |-> Entry(p).writer,
   got |-> Deserialize(Setup(p), Entry(p)), raw |-> raw]

(* A call reads.  A stale value is served while the call goes on in the    *)
(* background.  A read that throws is a miss under fail-open, but nothing  *)
(* can be written until the damaged record is gone.                        *)
Read(p) ==
  /\ May(p, "idle")
  /\ \/ /\ GetThrows(p)
        /\ Become(p, IF scenario.failOpen THEN "write" ELSE "idle", 0, None)
        /\ settled' = settled \ {p}
     \/ /\ Malformed(p)
        /\ Become(p, "drop", 0, None)
        /\ settled' = settled \union {p}
     \/ /\ ~Broken(p)
        /\ settled' = settled \union {p}
        /\ CASE ~Held(p) -> Become(p, "write", 0, None)
             [] Held(p) /\ Freshness(Entry(p)) = "expired" ->
                  Become(p, "write", Revision(p), None)
             [] Held(p) /\ Freshness(Entry(p)) # "expired"
                  /\ ~Readable(Setup(p), Entry(p)) -> Become(p, "drop", 0, None)
             [] OTHER ->
                  Become(p, IF Freshness(Entry(p)) = "fresh" THEN "idle" ELSE "write",
                         Revision(p), Served(p, FALSE))
  /\ UNCHANGED <<scenario, key, now, store, faults>>

SilentDeleteNothing(p) ==
  /\ May(p, "drop")
  /\ Become(p, "write", 0, None)
  /\ UNCHANGED <<scenario, key, now, store, faults, settled>>

(* What is unusable is deleted, whatever is there by now; a failure is     *)
(* ignored.                                                                *)
SilentDelete(p) ==
  /\ May(p, "drop")
  /\ Become(p, "write", 0, None)
  /\ \/ /\ store' = [k \in DOMAIN store \ {key[p]} |-> store[k]]
        /\ settled' = settled \ (Sharing(p) \ {p})
        /\ UNCHANGED faults
     \/ /\ faults > 0
        /\ faults' = faults - 1
        /\ settled' = settled \ {p}
        /\ UNCHANGED store
  /\ UNCHANGED <<scenario, key, now>>

Written(p, ttl, staleTtl) ==
  [intact |-> TRUE, value |-> PrepareBytes(Setup(p), scenario.data),
   compressed |-> Setup(p).compression,
   serializer |-> NameOf(Setup(p).serializer),
   revision |-> process[p].observed + 1,
   expires |-> IF ttl = 0 THEN Forever ELSE now + ttl,
   stale |-> IF ttl = 0 \/ staleTtl = 0 THEN 0 ELSE now + ttl + staleTtl,
   by |-> scenario.call[p], data |-> scenario.data,
   writer |-> Setup(p).serializer]

(* The call writes, unless the value cannot be written or the revision is  *)
(* not the one it observed.                                                *)
Write(p) ==
  LET storable == scenario.data \notin Oversized /\ Prepares(Setup(p), scenario.data)
      entry == Written(p, scenario.ttl, scenario.staleTtl)
  IN /\ May(p, "write")
     /\ Become(p, "idle", 0, process[p].served)
     /\ \/ storable /\ CompareAndSet(p, entry)
        \/ ~storable /\ settled' = settled \ {p} /\ UNCHANGED store
     /\ UNCHANGED <<scenario, key, now, faults>>

-----------------------------------------------------------------------------
(* The raw API, under the key of a call                                    *)

(* rawGet: whatever does not read is undefined; the serializer of the      *)
(* entry is not looked at, and nothing is deleted.                         *)
RawGet(p) ==
  /\ May(p, "idle")
  /\ Become(p, "idle", 0,
            IF /\ Found(p)
               /\ Freshness(Entry(p)) = "fresh"
               /\ Deserializes(Setup(p), Entry(p))
              THEN Served(p, TRUE) ELSE None)
  /\ UNCHANGED <<scenario, key, now, store, faults, settled>>

(* rawSet rejects what it cannot serialize and what it cannot read. *)
RawRead(p) ==
  /\ May(p, "idle")
  /\ IF Prepares(Setup(p), scenario.data) /\ ~GetThrows(p)
       THEN Become(p, "raw", Revision(p), None)
       ELSE Become(p, "idle", 0, None)
  /\ settled' = IF Prepares(Setup(p), scenario.data) /\ ~Broken(p)
                  THEN settled \union {p} ELSE settled \ {p}
  /\ UNCHANGED <<scenario, key, now, store, faults>>

(* The answer of compareAndSet is ignored. *)
RawWrite(p) ==
  /\ May(p, "raw")
  /\ Become(p, "idle", 0, None)
  /\ CompareAndSet(p, Written(p, scenario.ttl, 0))
  /\ UNCHANGED <<scenario, key, now, faults>>

RawDelete(p) ==
  /\ May(p, "idle")
  /\ Held(p)
  /\ Become(p, "idle", 0, None)
  /\ store' = [k \in DOMAIN store \ {key[p]} |-> store[k]]
  /\ settled' = settled \ Sharing(p)
  /\ UNCHANGED <<scenario, key, now, faults>>

-----------------------------------------------------------------------------
(* What happens to the storage                                             *)

Tamper(k) ==
  \/ store' = [store EXCEPT ![k].intact = FALSE]
  \/ store' = [store EXCEPT ![k].value = Spoilt]
  \/ store' = [j \in DOMAIN store \ {k} |-> store[j]]

Fault ==
  /\ faults > 0
  /\ faults' = faults - 1
  /\ \E k \in DOMAIN store : Tamper(k)
  /\ settled' = {}
  /\ UNCHANGED <<scenario, key, now, process>>

Tick ==
  /\ now < MaxTime
  /\ scenario.ttl > 0
  /\ now' = now + 1
  /\ UNCHANGED <<scenario, key, store, process, faults, settled>>

Next ==
  \/ \E p \in Processes :
       \/ Read(p) \/ SilentDelete(p) \/ Write(p)
       \/ RawGet(p) \/ RawRead(p) \/ RawWrite(p) \/ RawDelete(p)
  \/ Fault
  \/ Tick

Spec == Init /\ [][Next]_vars

-----------------------------------------------------------------------------
(* Properties                                                              *)

(* What a call is served was stored for the same call, but for the known   *)
(* confusions of keys, and by its own serializer, unless that or the       *)
(* writer's states no name (runtime.ts:432).  Under the writer's           *)
(* serializer, in a call or a raw read, it is what that promises to keep   *)
(* of the value (serializer.ts:9, 312): whatever the storage, the          *)
(* compression, the processes and the raw API have done to the entry on    *)
(* the way.                                                                *)
ServedAsStored ==
  \A p \in Processes :
    LET s == process[p].served
        mine == scenario.call[p]
        own == Setup(p).serializer
    IN s # None =>
         /\ MayShare(s.by, mine)
         /\ s.writer = own \/ s.raw \/ None \in {NameOf(s.writer), NameOf(own)}
         /\ s.writer = own => Promised(own, s.data, s.got)

(* An entry that a call could not read does not keep the key from being    *)
(* cached again (runtime.ts:450): a call, or a rawSet, of a value that can *)
(* be stored leaves an entry it could read itself, unless another process  *)
(* or a fault comes between, or the envelope was damaged in a storage that *)
(* then throws.                                                            *)
Recached ==
  \A p \in settled :
    process[p].pc = "idle" => Found(p) /\ Readable(Setup(p), Entry(p))
=============================================================================
