---------------------------- MODULE Invalidation ----------------------------
(***************************************************************************)
(* The instances of one process and the helpers that invalidate in them:   *)
(* the registry and the default cache (src/global.ts), the instances of    *)
(* createCache (src/create-cache.ts), and the fan-out of revalidateTag,    *)
(* revalidateKey, revalidateNamespace, clearCache and invalidate           *)
(* (src/invalidation.ts), with what CacheRuntime does for one instance.    *)
(*                                                                         *)
(* An invalidation awaits each storage command, so instances are created,  *)
(* disposed and reset, and entries written, between any two of them.  The  *)
(* commands are those of one storage each; how a storage carries one out   *)
(* is the subject of TagIndex, MemoryStorage and RedisStorage.             *)
(***************************************************************************)
EXTENDS OrderedSets, FiniteSets

CONSTANTS Instances,     \* the cache instances that may be created
          Config,          \* their options: storage, prefix, namespace,
                           \* version, owns (no storage was given),
                           \* registers and by (what may create it: createCache,
                           \* configureCache or getCache)
          AtStart,         \* those the process creates before anything else,
                           \* in this order
          Functions,       \* cached calls, each with one entry key
          FunctionOf,      \* their instance, namespace and tags
          TagScopes,       \* what the storages may index tags by: "storage"
                           \* (one index, src/memory.ts), "namespace" (that
                           \* of the call, src/redis.ts) or "key" (no native
                           \* tags: an index entry, src/tag-index.ts)
          Invalidations, Requests,
          None,
          MaxFaults        \* storage commands that fail in a behaviour

ASSUME InvalidationAssumption ==
  /\ \A i \in Instances :
       /\ Config[i].by \subseteq {"createCache", "configureCache", "getCache"}
       /\ Config[i].registers \in BOOLEAN
       /\ \A scope \in TagScopes :
            scope[Config[i].storage] \in {"storage", "namespace", "key"}
  /\ AtStart \in Seq(Instances) /\ IsInjective(AtStart)
  /\ \A i \in ToSet(AtStart) : "createCache" \in Config[i].by
  /\ \A f \in Functions : FunctionOf[f].instance \in Instances
  /\ \A r \in Requests : /\ r.tags \in Seq(ToSet(r.tags))
                         /\ r.keys \in Seq(Functions)
                         /\ r.namespaces \in Seq(ToSet(r.namespaces))
  /\ None \notin Instances
  /\ MaxFaults \in Nat

VARIABLES registry,   \* a JavaScript Set keeps the order of insertion
          default, life, entries, invalidation, reset, faults,
          tagScope    \* of each storage; it never changes

vars ==
  <<registry, default, life, entries, invalidation, reset, faults, tagScope>>

InstanceOf(f) == FunctionOf[f].instance

Tags == UNION {ToSet(r.tags) : r \in Requests}
Commands == [kind : {"tag", "key", "namespace"},
             of : Tags \union Functions
                    \union UNION {ToSet(r.namespaces) : r \in Requests}]

(* targets: the instances still to visit, agenda: what the first of them   *)
(* still has to do, failing: one of its tags failed, error: firstError.    *)
(* History: addressed, the instances the call was meant for; passed, those *)
(* of them that dedupe left out; owed, the entries it found that nobody    *)
(* wrote since; failed, where a command of it failed.                      *)
Invalidation ==
  [pc : {"idle", "running", "resolved", "rejected"},
   request : Requests \union {None}, targets : Seq(Instances),
   agenda : Seq(Commands), failing : BOOLEAN, error : BOOLEAN,
   addressed : SUBSET Instances, passed : SUBSET Instances,
   owed : SUBSET Functions, failed : SUBSET Instances]

TypeOK ==
  /\ registry \in Seq(Instances) /\ IsInjective(registry)
  /\ default \in Instances \union {None}
  /\ life \in [Instances -> {"new", "live", "disposed"}]
  /\ entries \subseteq Functions
  /\ invalidation \in [Invalidations -> Invalidation]
  /\ reset \in Seq(Instances)
  /\ faults \in 0 .. MaxFaults
  /\ tagScope \in TagScopes

Init ==
  /\ registry = Filter(AtStart, {i \in Instances : Config[i].registers})
  /\ default = None
  /\ life = [i \in Instances |-> IF i \in ToSet(AtStart) THEN "live" ELSE "new"]
  /\ entries = {}
  /\ invalidation = [v \in Invalidations |->
       [pc |-> "idle", request |-> None, targets |-> <<>>, agenda |-> <<>>,
        failing |-> FALSE, error |-> FALSE, addressed |-> {}, passed |-> {},
        owed |-> {}, failed |-> {}]]
  /\ reset = <<>>
  /\ faults = 0
  /\ tagScope \in TagScopes

-----------------------------------------------------------------------------
(* Instances *)

(* A mistake of Create: it forgets that the cache exists. *)
CreateForgotten(i, by) ==
  /\ life[i] = "new" /\ by \in Config[i].by
  /\ registry' = IF Config[i].registers THEN Append(registry, i) ELSE registry
  /\ UNCHANGED <<life, entries, invalidation, reset, faults, tagScope>>

Create(i, by) ==
  /\ life[i] = "new" /\ by \in Config[i].by
  /\ life' = [life EXCEPT ![i] = "live"]
  /\ registry' = IF Config[i].registers THEN Append(registry, i) ELSE registry
  /\ UNCHANGED <<entries, invalidation, reset, faults, tagScope>>

CreateCache(i) == Create(i, "createCache") /\ UNCHANGED default

ConfigureCache(i) == Create(i, "configureCache") /\ default' = i

GetCache(i) == default = None /\ Create(i, "getCache") /\ default' = i

(* A mistake of Unregister: the default cache outlives its disposal. *)
UnregisterOnly(i) ==
  /\ registry' = Filter(registry, Instances \ {i})
  /\ UNCHANGED default

(* unregisterCache *)
Unregister(i) ==
  /\ registry' = Filter(registry, Instances \ {i})
  /\ default' = IF default = i THEN None ELSE default

(* dispose: a storage of its own is closed, and forgets everything.  It    *)
(* happens at once: nothing is awaited before close() is called.           *)
Disposed(i) ==
  /\ Unregister(i)
  /\ life' = [life EXCEPT ![i] = "disposed"]
  /\ entries' = IF Config[i].owns
                THEN {f \in entries : Config[InstanceOf(f)].storage
                                       # Config[i].storage}
                ELSE entries

Dispose(i) ==
  /\ life[i] = "live"
  /\ Disposed(i)
  /\ UNCHANGED <<invalidation, reset, faults, tagScope>>

(* resetCache empties the registry first, then disposes what was in it,    *)
(* one instance after another.  A close() that fails changes nothing.      *)
BeginReset ==
  /\ reset = <<>>
  /\ registry # <<>> \/ default # None
  /\ reset' = registry
  /\ registry' = <<>>
  /\ default' = None
  /\ UNCHANGED <<life, entries, invalidation, faults, tagScope>>

ResetNext ==
  /\ reset # <<>>
  /\ reset' = Tail(reset)
  /\ Disposed(Head(reset))
  /\ UNCHANGED <<invalidation, faults, tagScope>>

-----------------------------------------------------------------------------
(* Entries.  A call stores its value and registers its tags; what happens  *)
(* between the two is the subject of CacheRuntime and RedisStorage.        *)

Write(f) ==
  /\ life[InstanceOf(f)] # "new"
  /\ entries' = entries \union {f}
  /\ invalidation' = [v \in Invalidations |->
                        [invalidation[v] EXCEPT !.owed = @ \ {f}]]
  /\ UNCHANGED <<registry, default, life, reset, faults, tagScope>>

-----------------------------------------------------------------------------
(* What a command of one instance removes *)

SameKeySpace(i, j) ==
  /\ Config[i].storage = Config[j].storage
  /\ Config[i].prefix = Config[j].prefix

(* A mistake of IndexOf: the namespace is left out. *)
IndexOfPrefix(i) ==
  IF tagScope[Config[i].storage] = "key"
  THEN <<Config[i].storage, Config[i].prefix>>
  ELSE <<Config[i].storage>>

(* The tag index an instance writes to and invalidates through.  The key   *)
(* of an index entry names the version of the instance.                    *)
IndexOf(i) ==
  LET c == Config[i]
  IN  CASE tagScope[c.storage] = "storage" -> <<c.storage>>
        [] tagScope[c.storage] = "namespace" -> <<c.storage, c.namespace>>
        [] tagScope[c.storage] = "key" ->
               <<c.storage, c.prefix, c.namespace, c.version>>

(* invalidateTags *)
TaggedIn(i, tag) ==
  {f \in entries : /\ tag \in FunctionOf[f].tags
                   /\ IndexOf(InstanceOf(f)) = IndexOf(i)}

(* storageKeyFor: a full key of another prefix is taken for a logical one. *)
KeyedIn(i, f) == {f} \intersect {g \in entries : SameKeySpace(i, InstanceOf(g))}

Target(i, namespace) == IF namespace = None THEN Config[i].namespace ELSE namespace

(* invalidateNamespace clears every version of it. *)
NamedIn(i, namespace) ==
  {f \in entries : /\ SameKeySpace(i, InstanceOf(f))
                   /\ FunctionOf[f].namespace = Target(i, namespace)}

Matching(i, command) ==
  CASE command.kind = "tag" -> TaggedIn(i, command.of)
    [] command.kind = "key" -> KeyedIn(i, command.of)
    [] command.kind = "namespace" -> NamedIn(i, command.of)

-----------------------------------------------------------------------------
(* The fan-out *)

(* resolveInstances.  A cache is given as an instance or by its namespace. *)
Resolved(r) ==
  LET Named(namespace) ==
        Filter(registry, {i \in Instances : Config[i].namespace = namespace})
  IN  CASE r.cache \in Instances -> <<r.cache>>
        [] r.cache \notin Instances \union {None} -> Named(r.cache)
        [] r.cache = None /\ r.namespace # None -> Named(r.namespace)
        [] r.cache = None /\ r.namespace = None -> registry

(* The two instances use one namespace of one storage. *)
Namesakes(i, j) ==
  /\ Config[i].storage = Config[j].storage
  /\ Config[i].namespace = Config[j].namespace

(* A mistake of Dedupe: one instance per storage. *)
DedupeByStorage(instances) ==
  Picked(instances,
         {n \in DOMAIN instances : \A m \in 1 .. (n - 1) :
            Config[instances[m]].storage # Config[instances[n]].storage})

Dedupe(instances) ==
  Picked(instances, {n \in DOMAIN instances :
                       \A m \in 1 .. (n - 1) : ~Namesakes(instances[m], instances[n])})

(* invalidate of an instance: the tags, then the keys, then the namespaces *)
Agenda(r) ==
  LET As(kind, items) == [n \in DOMAIN items |-> [kind |-> kind, of |-> items[n]]]
  IN  As("tag", r.tags) \o As("key", r.keys) \o As("namespace", r.namespaces)

(* The agenda of the first target is done: on to the next, or return. *)
Advance(s) ==
  IF s.agenda # <<>> THEN s
  ELSE LET error == s.error \/ s.failing
           rest == Tail(s.targets)
       IN  IF rest = <<>>
           THEN [s EXCEPT !.pc = IF error THEN "rejected" ELSE "resolved",
                          !.targets = rest, !.failing = FALSE, !.error = error]
           ELSE [s EXCEPT !.targets = rest, !.agenda = Agenda(s.request),
                          !.failing = FALSE, !.error = error]

(* A request asks for an entry by a tag, or by its key or namespace.       *)
AskedByTag(r, f) == FunctionOf[f].tags \intersect ToSet(r.tags) # {}

AskedByName(r, f) ==
  \/ f \in ToSet(r.keys)
  \/ \E n \in ToSet(r.namespaces) : FunctionOf[f].namespace = Target(InstanceOf(f), n)

(* What an invalidation is meant to remove, had every storage one index    *)
(* per instance: of the instances addressed, the entries it asks for.      *)
Meant(r, addressed) ==
  {f \in entries : /\ InstanceOf(f) \in addressed
                   /\ AskedByTag(r, f) \/ AskedByName(r, f)}

(* What is asked of no instance, or asks for nothing, returns at once.     *)
Begin(v, r) ==
  LET found == Dedupe(Resolved(r))
      unknown == r.cache \notin Instances \union {None} /\ found = <<>>
      targets == IF Agenda(r) = <<>> THEN <<>> ELSE found
  IN  /\ invalidation[v].pc = "idle"
      /\ r.cache \in Instances => life[r.cache] # "new"
      /\ invalidation' = [invalidation EXCEPT ![v] =
           [@ EXCEPT !.pc = IF unknown THEN "rejected"
                            ELSE IF targets = <<>> THEN "resolved" ELSE "running",
                     !.request = r, !.targets = targets,
                     !.agenda = IF targets = <<>> THEN <<>> ELSE Agenda(r),
                     !.addressed = ToSet(Resolved(r)),
                     !.passed = ToSet(Resolved(r)) \ ToSet(found),
                     !.owed = Meant(r, ToSet(Resolved(r)))]]
      /\ UNCHANGED <<registry, default, life, entries, reset, faults, tagScope>>

Command(v) ==
  LET s == invalidation[v]
      gone == Matching(Head(s.targets), Head(s.agenda))
  IN  /\ s.pc = "running"
      /\ entries' = entries \ gone
      /\ invalidation' = [invalidation EXCEPT
           ![v] = Advance([s EXCEPT !.agenda = Tail(@), !.owed = @ \ gone])]
      /\ UNCHANGED <<registry, default, life, reset, faults, tagScope>>

(* What is left of the agenda when its first command has failed: further   *)
(* tags are attempted, then their error is thrown; a key is passed over    *)
(* without an error; a namespace throws at once.                           *)
AfterFailure(s) ==
  CASE Head(s.agenda).kind = "tag" ->
         [s EXCEPT !.agenda = Filter(Tail(@), {c \in Commands : c.kind = "tag"}),
                   !.failing = TRUE]
    [] Head(s.agenda).kind = "key" -> [s EXCEPT !.agenda = Tail(@)]
    [] Head(s.agenda).kind = "namespace" ->
         [s EXCEPT !.agenda = <<>>, !.failing = TRUE]

(* A command throws or times out, part or all of it done. *)
CommandFails(v) ==
  LET s == invalidation[v]
  IN  /\ s.pc = "running" /\ faults < MaxFaults
      /\ \E gone \in SUBSET Matching(Head(s.targets), Head(s.agenda)) :
           /\ entries' = entries \ gone
           /\ invalidation' = [invalidation EXCEPT
                ![v] = Advance(AfterFailure([s EXCEPT
                                 !.failed = @ \union {Head(s.targets)},
                                 !.owed = @ \ gone]))]
      /\ faults' = faults + 1
      /\ UNCHANGED <<registry, default, life, reset, tagScope>>

Next ==
  \/ \E i \in Instances : \/ CreateCache(i) \/ ConfigureCache(i) \/ GetCache(i)
                          \/ Dispose(i)
  \/ BeginReset \/ ResetNext
  \/ \E f \in Functions : Write(f)
  \/ \E v \in Invalidations : \/ \E r \in Requests : Begin(v, r)
                              \/ Command(v) \/ CommandFails(v)

Spec == Init /\ [][Next]_vars

-----------------------------------------------------------------------------
(* Properties *)

(* Among the commands of r at instance i is one that removes f.            *)
Concerns(i, r, f) ==
  \/ AskedByTag(r, f) /\ IndexOf(i) = IndexOf(InstanceOf(f))
  \/ AskedByName(r, f) /\ SameKeySpace(i, InstanceOf(f))

(* Dedupe left the instance of f out for one of its storage and namespace  *)
(* that does not see f, under another prefix or, if f was asked for by     *)
(* tags only and the storage has no native ones, of another version.       *)
Shadowed(v, f) ==
  LET s == invalidation[v]
  IN  /\ InstanceOf(f) \in s.passed
      /\ \E i \in s.addressed \ s.passed :
           Namesakes(i, InstanceOf(f)) /\ ~Concerns(i, s.request, f)

(* Once an invalidation has returned, every entry it was meant for and     *)
(* found is gone, in every instance registered when it began: whatever     *)
(* else was created, disposed, written or failed meanwhile.  An entry      *)
(* outlives it only where a command failed at its instance, and then the   *)
(* caller is told, save of a key (runtime.ts:1406); or where dedupe leaves *)
(* its instance out and visits one that does not see it (Shadowed).        *)
InvalidationReaches ==
  \A v \in Invalidations :
    LET s == invalidation[v]
    IN  s.pc \in {"resolved", "rejected"} =>
          \A f \in s.owed \intersect entries :
            \/ /\ \E i \in s.failed : Namesakes(i, InstanceOf(f))
               /\ s.pc = "rejected" \/ f \in ToSet(s.request.keys)
            \/ Shadowed(v, f)

(* An invalidation removes nothing of a cache it was not addressed to      *)
(* ("Instances sharing a storage stay isolated", create-cache.ts:6),       *)
(* unless it names that cache's namespace or key, or the storage indexes   *)
(* tags for all of its caches at once (memory.ts:370).                     *)
OthersSpared ==
  [][\A f \in entries \ entries', v \in Invalidations :
       LET s == invalidation[v]
           own == Config[InstanceOf(f)]
       IN  invalidation'[v] # s =>
             \E i \in s.addressed :
               /\ Config[i].storage = own.storage
               /\ \/ Namesakes(i, InstanceOf(f)) \/ f \in ToSet(s.request.keys)
                  \/ FunctionOf[f].namespace \in
                       {Config[i].namespace} \union ToSet(s.request.namespaces)
                  \/ /\ tagScope[own.storage] = "storage"
                     /\ s.request.tags # <<>>]_vars

(* The registry holds exactly the instances in use that did not opt out    *)
(* and are not being reset, and the default cache is one in use: in every  *)
(* order of configuring, disposing and resetting, a cache created while    *)
(* resetCache awaits a close() included.                                   *)
RegistryExact ==
  /\ \A i \in Instances :
       i \in ToSet(registry) <=> /\ life[i] = "live" /\ Config[i].registers
                                /\ i \notin ToSet(reset)
  /\ default # None => life[default] = "live" /\ default \notin ToSet(reset)
=============================================================================
