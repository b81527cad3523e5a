# A TLA+ verification project for rsc-cache

rsc-cache caches the results of asynchronous functions: it coalesces concurrent calls in a process,
stores entries in a replaceable storage shared by processes, serves stale entries while it
revalidates them, and invalidates entries by key, tag or namespace. This directory specifies the
parts of it in which order matters, model-checks them with TLC on small instances and proves the
central invariants with TLAPS. Paths are relative to the repository (`src/src/...` in `PROJECT.json`
is `src/...` of the package).

## 1. Inventory

| Component | State it keeps | Operations | Interacts with |
|---|---|---|---|
| single-flight (`single-flight.ts`) | map key → FlightRecord, set of tracked background tasks; per record: consumers, keepAlive, settled, shared abort signal | `run`, `track`, `settle`, `clear` | the runtime calls `run` and `track`; request signals call `release` |
| runtime (`runtime.ts`) | none of its own per key besides the single flight; everything else is in the storage | `execute`, `forceRecompute`, `invalidateFunction`, `invalidateTags`, `invalidateKeys`, `invalidateNamespace`, `rawGet/Set/Delete/Has`, `settle`, `dispose` | storage, tag index, single flight, source function, request memo |
| storage contract (`types.ts`, `storage.ts`) | - | `get set delete has clear`, optional `compareAndSet deleteMany addTags invalidateTag acquireLock` | implemented by memory, redis, kv and user storages |
| memory storage (`memory.ts`) | `records` in LRU order, `tagIndex`, `locks`, `bytes`, `lastSweep` | the contract, plus `close` and the interval sweep | clock, timer |
| tag index (`tag-index.ts`) | one storage entry per tag (list of keys), one tombstone per tag | `add`, `invalidate`, `writeTagTombstone`, `readTagTombstones` | any storage without native tags |
| redis storage (`redis.ts`, `redis-scripts.ts`) | entry keys with native ttl, a set of keys per tag, lock keys | the contract by Lua scripts or by fallback commands | Redis server (external) |
| kv storage (`kv.ts`) | entry keys with native ttl, lock keys | the contract over `get`/`set`/`delete`/`list` | KV service (external) |
| request cache and context (`context.ts`) | promises of one request by key, async-local context | `run`, `peek`, `evict`, `withCacheContext` | `execute` |
| invalidation fan-out (`invalidation.ts`, `global.ts`) | registered instances | `revalidateTag/Key/Namespace`, `clearCache`, `invalidate` | cache instances |
| cache instance (`create-cache.ts`, `cache-function.ts`, `cache.ts`) | options, handles | `createCache`, `cache(fn)` | runtime |
| prefetch and warmup (`prefetch.ts`) | cursor of a worker pool | `prefetch`, `warm`, `warmup` | cached functions |
| timeouts (`timeout.ts`) | timers | `withTimeout`, `delay`, `createSharedSignal`, `anySignal` | runtime |
| keys, durations (`keys.ts`, `duration.ts`, `stable-stringify.ts`, `hash.ts`, `sha256.ts`) | - | pure functions | runtime |
| payloads (`serializer.ts`, `codec.ts`, `compression.ts`, `bytes.ts`) | - | pure conversions | runtime, redis, kv |
| react, next, cli, testing, events, stats, logger, telemetry | - | adapters and reporting | - |

What is hard in this code:

* **Interleaving across awaits.** Between any two awaits of a computation another call, another
  process, an invalidation, an expiry or a cancellation can change what was read.
* **Optimistic writes.** Entries are overwritten by compare-and-set on a per-key revision that
  starts again when the record disappears.
* **Two mechanisms for one race.** Compare-and-set and tombstones each close part of the race
  between an invalidation and a slow computation.
* **Leases.** The distributed lock expires under a holder that computes too long, and a crashed
  process leaves its lock behind.
* **Partial failure.** Each storage call of a computation may fail or time out; fail-open and
  fail-closed treat them differently at each point.
* **Cancellation.** A shared computation is aborted when its last consumer leaves, while others
  arrive.
* **Bounded indexes.** Tag indexes forget keys at a limit, and expire.
* **Shared keys.** Two calls that are given one key are served each other's results: across users,
  functions, argument lists and explicit keys.
* **Values that change on the way.** Two serializers, three compressions and three storages' encodings
  lie between what a function returns and what the next caller is served, possibly in another version
  of the application.
* **Scopes that end.** Contexts of requests nest and end at awaits; instances are created, disposed and
  reset while invalidations visit them.

Correctness, per component:

* single-flight: one computation per key; consumers counted exactly; aborted only when abandoned;
  every call returns; `settle()` waits for everything.
* runtime: newer computations are not overwritten by older ones; nothing read before an
  invalidation is stored after it (strict mode); storage failures do not surface under fail-open;
  locks are released, and only by their holder; every call returns.
* memory storage: implements the contract; byte count and budgets exact; tag index and records
  agree in both directions.
* tag index: invalidation reaches every entry whose membership was registered; a writer gives up
  only when it was beaten each time.
* redis storage: implements the contract with scripts; what was written and registered does not
  outlive an invalidation or a `clear()`; a lock is only lost by its holder or by time.
* request cache and context: a call is served what was computed for its own function, user and
  tenant; a request resolves a key once, and sees its own revalidations.
* invalidation fan-out: an invalidation that returned has reached every entry it was meant for, in
  every instance, and nothing else; the registry holds exactly the caches in use.
* keys and payloads: calls that differ get keys that differ; a value is served as it was stored; what
  cannot be read does not keep a key from being cached again.

## 2. Modules

| Module | What it is |
|---|---|
| `SingleFlight` | `single-flight.ts`, one action per task of the event loop |
| `SingleFlightProofs` | its inductive invariant and theorems |
| `CacheRuntime` | the path of one key through `runtime.ts`, several processes over one storage |
| `CacheRuntimeProofs` | its inductive invariant and theorems |
| `StorageContract` | abstract specification of the `CacheStorage` interface |
| `OrderedSets` | JavaScript Sets and Map keys as sequences without repetitions |
| `MemoryStorage` | `memory.ts`, shown to implement `StorageContract` |
| `MemoryStorageProofs` | its inductive invariant, its theorems and the proof of the refinement |
| `TagIndex` | `tag-index.ts` for one tag over atomic, emulated or missing compare-and-set |
| `TagIndexProofs` | its types, that an invalidation reaches what was registered, and when a writer gives up |
| `RedisStorage` | `redis.ts` and its Lua scripts, command by command, shown to implement `StorageContract` |
| `RedisStorageProofs` | its inductive invariants, its theorems and the proof of the refinement |
| `Invalidation` | the cache instances of a process, their registry, and the fan-out of the helpers |
| `InvalidationProofs` | its inductive invariant and theorems |
| `Requests` | contexts, the memo of a request and the use of cached functions in them |
| `RequestsProofs` | its inductive invariants and theorems |
| `Keys` | pure: identity of functions and layout of keys, around an encoding of arguments |
| `Encoding` | pure: that encoding (`stable-stringify.ts`), and what keys should tell apart (extends `Keys`) |
| `Codec` | pure: the two serializers and base64 (extends `Encoding`) |
| `Payloads` | from the value a function returns to the value a later call is served, in two processes; keys and serializers are constants |
| `PayloadsProofs` | its inductive invariant and theorems, and what the keys of `Keys` tell apart |
| `MC*` | instances for TLC: functions and inputs that a `.cfg` cannot write |

### SingleFlight

`registry` is the map `flights`, `flight` holds every FlightRecord ever created (a record is named
after the call that creates it), `call` holds every call of `run`, `background` the tracked tasks and
`settler` one caller of `settle()`. The code between two awaits is one action; the reactions of a
promise that settled are later actions of their own, in any order:

| Action | Code |
|---|---|
| `StartFlight`, `JoinFlight`, `RejectRun` | `run`, 46-121 |
| `CancelWaiting`, `CancelReleased`, `CancelIdle` | the abort listeners (104-109, 138-145), before or after the call released |
| `StartFactory`, `FinishFactory`, `Finally` | the promise chain 70-77; the factory may ignore the signal |
| `Deliver`, `Resolve` | the reactions 87-96 and 110-119 |
| `Untrack`, `Settle`, `SettleWakes`, `Clear` | `track`, `settle`, `clear` |

`cleared` is a history field: `clear()` makes the map forget computations that still run, and the
properties say what remains true in spite of that.

### CacheRuntime

One key, one tag. `store` is the key's record, `tomb` the tag's tombstone, `lock` the distributed
lock, `caller` the calls, `flight` the computation of each process, `writer` the callers that change
the source of truth and then run `invalidateTags`. Values are versions of the source, so that "stale"
has a meaning. A step ends at the next await:

| Action | Code |
|---|---|
| `Call`, `Read`, `Decide` | `execute`/`forceRecompute`, `readEntry`, `resolveWithCache` |
| `Delete` | `deleteEntry` |
| `Refresh` (in `Decide`) | the head of `refresh`: join, or create with observed revision and start time |
| `Acquire`, `Recheck`, `Poll` | `acquireLockOrWait` |
| `StartSource`, `FinishSource` | `callSource` and what follows it in `refresh` |
| `CheckTombstone`, `Write`, `AddTags` | `writeEntry` |
| `LandWrite` | the storage carries out a write that `withTimeout` has given up |
| `Release`, `End` | `releaseLock`, the settling of the flight and the callers' reactions |
| `Cancel`, `Crash` | the request's signal; a process that dies |
| `Mutate`, `BeginInvalidate`, `InvalidateTag`, `WriteTombstone` | a mutation, then `invalidateTags` |

Options of the code are CONSTANTS (`Strict`, `Versioned`, `Background`, `ServeStale`, `CacheErrors`,
`UseLock`, `LockThrows`, `FailClosed`). A `Fault` is one failing storage call: an error or a timeout.
A write that failed stays in `late` and may land at any later time, when its flight is over and others
have begun, or never; so does the write of a process that crashed. A failed delete or lock call has
taken effect at once or never does. `lives`, `life`, `origin` and `seen` are history: which life of
the record was observed, where a call's value came from, which invalidations were over at the
tombstone check. The single flight is simplified here to
what a flight's owner can see (its own specification is `SingleFlight`).

### StorageContract and MemoryStorage

`StorageContract` says what a caller of a `CacheStorage` may rely on: entries may vanish at any time,
but are never invented, returned after their retention, kept when they carry an invalidated tag, or
overwritten under the wrong revision. `MemoryStorage` keeps Maps, Sets and the byte count in one
record `mem`; the private functions of the code are operators from `mem` to `mem`, each public method
one action (none of them awaits). The refinement maps the contract's `stored` to the records that are
still retained, so expiry of unswept records is invisible, and `reply` to the last answer. `Exact` says
whether an entry carries just the tags it was written with: memory storage keeps that, Redis does not
(`delete` and `INVALIDATE_TAG` leave memberships behind, which then make a later entry of the key
vanish with a tag it no longer has).

### TagIndex

One tag: its index entry, writers in the read-modify-write loop of `add`, invalidations that read,
delete and drop the index; every storage call is a step. The variable `cas`, fixed by the initial
state among the constant `CasModes`, selects an atomic compare-and-set, the emulated one of `kv.ts`
(a read, then a write), or none.

### RedisStorage

A step is one Redis command or one script. `entries`, `refs` (the `:~t~` keys), `members` (the tag
indexes), `index` (the key index) and `locks` are the keys in Redis, each with its native ttl where the
code gives it one. `mode` and `useKeyIndex`, fixed by the initial state, say whether the client can
run scripts and whether it can SCAN.

| Action | Code |
|---|---|
| `Observe`, `AcquireLock`, `ReleaseLock`, `DeleteLock` | the runtime's use of `get`, `acquireLock`, `release` |
| `SetEntryScript`; `CompareCommand` .. `EnterKeyIndex` | `compareAndSet` by `SET_ENTRY_SCRIPT`; by GET, SET and the tag bookkeeping, then the runtime's `addTags` |
| `InvalidateScript`; `ReadMembers`, `DeleteMembers`, `DeleteTagIndex` | `invalidateTag` |
| `Delete`, `BeginDeleteMany`, `BeginClear`, `ScanKey`, `DeleteScanned`, `DeleteListed`, `LeaveKeyIndex` | `delete`, `deleteMany`, `clear`, in batches |
| `Fail` | a command that throws or times out |

An entry is named after its writer, so that "the write that was invalidated" has a meaning; `owed` is
history, the writes that were over when an invalidation or a `clear()` began; `raced` marks a write
beside which another write of the key, or an invalidation of its tags, ran without scripts, and
`unindexed` one whose key an eraser took out of the key index after it had been entered.

### Invalidation

`registry` and `default` are the module state of `global.ts`, `life` the instances, `entries` the
entries present in all storages, `invalidation` the calls of the helpers, `reset` the instances that
`resetCache` has yet to dispose. `Begin` resolves and dedupes the targets, and returns at once if there is
nothing to do; `Command` is one storage command of one target, `CommandFails` one that fails with any
part of it done, after which the code goes on with the remaining tags, passes over a key, or
stops at a namespace. `tagScope`, fixed by the initial state, is how a storage indexes tags:
once for all caches, per namespace, or in an entry per prefix, namespace and version
(`runtime.ts:245`). `addressed`, `passed`, `owed` and `failed` are history: the instances a call was
meant for, those of them that `dedupe` left out, what it has to remove, and where a command failed.

### Requests

`context` holds the calls of `withCacheContext`, `memo` the request caches, `call` every use of a
cached function, `flight` and `entries` what a call meets in the single flight and in the cache, and
`source` the version of what the functions read. `Use` is the synchronous head of a call, a revalidation
or an invalidation, up to its first await, in any context and before or after an await inside of it
(`later`); `asyncStore` says whether AsyncLocalStorage has been loaded. `after` and `during` are history:
the evictions of its key that a call came after, or among.

### Keys, Encoding, Codec and Payloads

Texts are sequences of tokens, so that it matters where a part of a key ends and the next begins, and
a hash is a token that stands for what was hashed. `Identity`, `SanitizeLabel`, `EnforceMaxLength`,
`BuildEntryKey` and `BuildCustomEntryKey` (`Keys`) follow `cache-function.ts` and `keys.ts`, and `Encode`
(`Encoding`) `stable-stringify.ts`; the reference they are held against is `SameCall`, which compares
the calls themselves. `Codec` has `ToJsonSafe`/`FromJsonSafe` (`serializer.ts`), base64 and the strict
JSON serializer; the reference is `PromisedBy`, the value but for what a serializer is known to drop.

`Payloads` has the choice of a compression, the envelope of `codec.ts` and `kv.ts`, and what the runtime
does with entries it cannot read: `Read`, `SilentDelete`, `Write` of a call, `RawGet`, `RawRead`,
`RawWrite`, `RawDelete` of the raw API under the same key. `Fault` damages an envelope or a payload, or
loses an entry. An entry has the name of its writer's serializer, if that states one (`NameOf`);
`writer`, `by` and `data` are history. A scenario, fixed by the initial state, gives the two processes their functions,
arguments, serializers, compressions and the storage's encoding. `Payloads` knows keys and serializers
as constants, of which `KeyAssumption`, `SerializerAssumption` and `NameAssumption` say that calls with
one key may share it, that a serializer reads what it wrote, and that no two serializers state one name
(`types.ts:45`). The run gives these constants the definitions of `Keys`, `Encoding` and `Codec`, so that
TLC evaluates the assumptions over all calls and values of the run.

## 3. Runs

Every run finishes within four minutes with two workers.

| Run | Property | What it asks |
|---|---|---|
| `single_flight` | `ConsumersCounted`, `OneFlightPerKey`, `RegistryExact`, `AbortOnlyWhenAbandoned`, `SettleWaitsForAll` | counting, coalescing, aborting and settling for three calls of a key, in every order of cancellations, reactions and `clear()` |
| `single_flight_live` | `EveryCallReturns`, `SettleReturns` | nobody is left waiting |
| `runtime_strict` | `StrictRefusesStale` | the tombstone check refuses what was read before an invalidated change, with cancellations, cached errors and a failure of any call |
| `runtime_failures` | `NewerKeptWithinLife` | three computations in two processes, fail-closed, cached errors, a background revalidation, a failure of any call: no slow one replaces a newer one while the record lives |
| `runtime_lock` | `OnlyOverstayersShare`, `LockReleased`, `FailOpenHidesStorage`, `EveryCallReturns` | two processes contend for the lock while it expires, a call fails or a process dies |
| `memory` | `BytesExact`, `BudgetsKept`, `IndexSound`, `IndexComplete`, `KeepsContract` | the books of `memory.ts`, and that it implements `StorageContract` |
| `tag_index` | `InvalidationReaches`, `GivesUpOnlyWhenBeaten` | no membership is lost over an atomic compare-and-set; a writer gives up only when beaten each time |
| `redis` | `InvalidationReaches`, `AlwaysRegistered`, `ClearReaches`, `LockKeptFromPeers`, `KeepsContract` | two writers and any two of invalidations, erasers and failing commands, over scripts with SCAN and over commands with a key index |
| `redis_stale` (expected to fail) | `StaleWindowKept` | an entry stays usable for its stale window, as `README.md:115` says: Redis drops it at the end of its ttl |
| `invalidation` | `InvalidationReaches`, `RegistryExact`, `OthersSpared` | every helper over five instances, while caches are created, configured, disposed and reset, entries written, and a command fails |
| `requests` | `ServedOwnData`, `MemoExact`, `RevalidateSeen` | three uses of a private and a shared function in a request, in a context nested in it, and outside of both |
| `payloads` | `ServedAsStored`, `Recached` | no two calls are confused, no value is changed, no unreadable entry sticks, save for what section 6 lists |

`TypeOK` is checked once per module, except in `Payloads`, whose values are of no bounded type.

**Bounds.**

* `SingleFlight` needs three calls for its races: one to create a record, one to join it, one to arrive
  after it was aborted, dropped or settled. Its runs use one key: no action relates two keys except
  `clear()` and `settle()`, which treat each registered record alike; the proofs cover any number.
* `CacheRuntime` uses two processes (the third actor of every race it is about is the storage) and a
  clock of 0..1 with ttl, stale window and lock ttl of 1, so that a computation can outlast each of
  them. `NewerKeptWithinLife` needs three computations: one to create a record, two that observe it or
  its successor. One failure is enough for statements about one failing step, and any step may be it.
* `MemoryStorage` has three keys against a budget of two entries, inputs of three sizes (one above the
  byte budget) and a tag limit of three, one above the entry limit: the code trims a tag's list only
  beyond it, and `IndexComplete` is about the limits at which nothing has to be forgotten.
* `TagIndex` has three writers against two attempts, so that each attempt of one of them may be beaten.
* `RedisStorage` has two writers of one key and one tag, and batches of one, so that every `clear()`
  spans several commands. Two disturbances (`MaxDisturbances`) may occur, each an invalidation, a
  `delete`, `deleteMany` or `clear()`, or a failing command of either writer; the lock's and the
  entry's ttl is 1 in a clock of 0..1, so that both may run out under a writer. The stale run has no
  disturbance and a clock of 0..2.
* `Invalidation` has the three kinds of neighbour that instances can be: of one namespace under another
  prefix, of one namespace and another version, and of another namespace in the same storage; and a
  default cache that is configured, and one that is not. A cache of another namespace, of another prefix
  and the cache `shop` exist from the start; the other version of `shop`, which may become the default,
  and the unconfigured default may be created at any time, and have an entry each. So the entry of the
  other version meets, in the registry, the cache of another prefix, that of another version, or neither,
  as the former are disposed. One
  invalidation, taken from the five helpers, is enough: the properties are about what one of them owes,
  and the other actors are `Write`, `Dispose` and `resetCache`.
* `Requests` has three uses: one to be memoized, one to evict it, one to come after. `MaxSource` is 1:
  older or newer is all that matters.
* `Payloads` scales the limits of keys and numbers down (`MaxDepth`, `MaxInlineBytes`, `MaxLabel`,
  `MaxKeyLength`, each small enough to be exceeded) and has three groups of scenarios: pairs of calls
  whose functions, scopes or arguments almost coincide, each made once; values of every type, alone and
  in each container, through both serializers and every compression; two processes of all pairs of
  setups, a serializer without a name among them, one with two operations and one with one, with one fault, over each encoding and with finite
  and infinite lifetimes. More operations only repeat: a write leaves nothing of the entry before it but
  the revision.

Counters bounded in guards: `now < MaxNow` (`MaxTime`), `polls < MaxPolls`, `faults < MaxFaults`,
`MaxDisturbances`, `source < MaxSource`, a scenario's `uses`, revisions `< MaxRevision` (memory).

**Fairness.** The event loop runs every queued reaction, so reactions are weakly fair. A source is
assumed to settle; a call is not assumed to be made, cancelled or invalidated, and the clock is not
assumed to advance. Storage calls answer or fail: those guarded by a timeout (`GuardedStep`) because
of it, provided timeouts are configured (`resolveTimeouts`, runtime.ts:82-96, has no default); those
that none guards (`UnguardedStep`: `addTags` 653 and 655, the tombstone reads 505, `lock.release`
848) by assumption. The deadline of a lock waiter is the guard `polls < MaxPolls`: time is not needed
to pass it. The runs of the other modules check safety and assume no fairness.

Deadlock checking is off in every run, because the systems stop once every call has been made and has
returned and the clock has reached its bound.

## 4. Proofs

**`SingleFlightProofs`** proves, for every non-empty set of keys and every finite set of calls
(`FlightAssumption`, `KeyAssumption`, `FiniteAssumption`), every safety property that the run
`single_flight` checks. None of them is inductive by itself. `consumers` never drops below zero only
because it counts exactly the waiting calls, and a release keeps that only if the call's record
exists; a join keeps the registry exact only if a key's registered record is a record of that key. So
`IInv` adds `CallsConsistent`: an idle call has no record yet, a joined one has a record that was
created, and the map is consistent with the records' keys. Counting (`CountUp`, `CountDown`,
`CountKept`) is separated from the state machine; each action then needs one step per conjunct.
`OneFlightPerKey` follows from `RegistryExact`: two records of a key would both be the registered one.
`AbortOnlyWhenAbandoned` needs in addition that a record remembers for ever that a background
revalidation has joined it (`Attached`), and `SettleWaitsForAll` that an empty map means that nothing
is under way except what `clear()` dropped.

**`CacheRuntimeProofs`** proves, for every set of processes, calls and writers and every setting of
the options (`RuntimeAssumption`, and that `NoEntry` is not an entry: `NoEntryAssumption`), every
safety property of the passing runtime runs. Its invariant has one part per argument:

* `Ages` and `Observations`: nothing that was observed of a living record is newer than the record;
  if it is the record's own revision, the record was written by a computation that began before the
  observer's. A compare-and-set that passes within a life therefore replaces an older computation
  (`NewerKeptWithinLife`), and however late: `WriteFits` and `LateKept` say the same of the writes that
  were given up and may still land. A record that was deleted begins a new life, about which this says
  nothing, and where the code accepts the slower one (section 6).
* `ReadAfter`: a flight that began after an invalidation's time stamp has read the change the
  invalidation is for, because writers invalidate after they change. With a tombstone older than the
  flight's start this gives `StrictRefusesStale`, for functions without a version. An invalidation is
  counted only while its time stamp stands: of two overlapping ones the last to write decides, which
  may be the older.
* `LockOwned`: who believes to hold the lock holds it until its ttl has passed since the flight's
  start; hence `OnlyOverstayersShare`. `LockHeld`: before the first failure, an unexpired lock has an
  owner that has yet to release it; hence `LockReleased`.
* `Hidden`: under fail-open no flight and no call carries a storage failure (`FailOpenHidesStorage`).

The steps of a flight are treated alike: lemmas say what a step keeps when it touches no record
(`RecordsKept`), no lock (`LockKept`) or reads nothing (`ReadKept`), and each action's lemma only
argues for what it does touch.

**`RedisStorageProofs`** proves, for every set of keys, tags, invalidations and
erasers and every finite set of writers (`RedisAssumption`, and that `None` and `Absent` are neither
records nor observations: `NoneAssumption`, `AbsentAssumption`), what the run `redis` checks of two
writers. Revisions are bounded by the number of writers past their write, which types need because a
revision is read, then written back plus one.

* `InvalidationsReach`, over scripts and over commands. An invalidation over commands reads the index,
  then deletes in batches; so the invariant follows a membership from writer to invalidation. An
  undisturbed writer's entry is in each of its indexes or about to be (`Memberships`); an invalidation
  that has read an index has the keys of what it owes still before it, or they are gone (`Deleting`,
  `Owing`); and two writes of a key that overlap know of each other (`RivalsKnown`), which is what makes
  an undisturbed writer's membership safe from the bookkeeping of the entry it replaced.
* `ClearsReach`. A key that was written and indexed is in the key index unless an eraser took it out
  afterwards (`Indexed`); a clear that has listed its keys has still to delete what it owes (`Clearing`).
* `RegisteredAlways` holds of a storage created with the cache's namespace (`Scoped`).
* `ContractKept`: over scripts each command is one step of `StorageContract` or a stutter. There is one
  lemma per operation, which names the contract's step; `View` says when two states look alike to it, and
  `ScriptSteps` confines a step to the scripts.
* `LocksKept` is restricted to scripts (`Clients`): a lease and the record of its lock agree (`Leased`)
  because `RELEASE_LOCK_SCRIPT` compares and deletes at once. Over commands they need not: a holder whose
  lock was deleted by a late release goes on, and may delete the lock of a third client.

**`TagIndexProofs`** proves `InvalidationReaches` for every set of writers (`IndexAssumption`,
`NoneAssumption`) under `Undisturbed`: nothing expires, no second invalidation runs, and the index has
room for every key. These are the ways in which a membership may go in spite of compare-and-set (section
5). What remains is the race of writers among themselves: until the index is deleted its revision only
grows, so a writer whose revision still agrees has read the index as it is (`SeenExact`), and what it
stores names every key that was registered (`Indexed`). `Fits` is where the limit comes in: keys that
differ are no more than there are.

**`RequestsProofs`** proves all safety properties of `Requests` for every set of contexts, functions and
calls (`RequestsAssumption`):

* `UsersIsolated`. A value passes from call to call through the memo, the single flight and the cache,
  all by key; `ValuesOK` says of each of these places that what is under a key was computed by a call of
  that key, and `PartsTold` that a key tells function, user and tenant, or is the one collision.
* `MemoCorrect`. `EvictionsKnown`: a memoized promise knows of every eviction of its key that has
  happened, so that two promises which do not know of the same evictions are never both in the memo; and
  one that neither failed nor was evicted is still there.
* `RevalidationsSeen` rests on an order of ages, `FreshInv`: no answer is newer than the entry of its
  key, no entry newer than the source, and whoever came after a revalidation is bound by what that returned.

**`MemoryStorageProofs`** proves, for every set of keys and tags, every input, every limit and every
cleanup (`StorageAssumption`), all that the run `memory` checks. Each private function of the code has a
lemma about an arbitrary `mem`, and each method composes them:

* `Coherent` is what every function relies on: the LRU order names the stored keys once each, the byte
  count is the sum of their sizes, and the index is sound. None of these is inductive alone: `remove`
  subtracts the right size only of a key that is stored, and an eviction removes the right key only if
  the order has no other. `SizeRemove` and `SizeMinus` say what becomes of a sum.
* `Sturdy` adds that the budgets are kept and, if `tagIndexLimit` exceeds `maxEntries`, that the index is
  complete (`Complete`). That needs the budgets: a list is trimmed only above the limit, and no list is
  longer than there are entries, which before a write are at most `maxEntries`. `EvictedProperties` shows
  that the loop of `enforceBudgets` finds enough to remove.
* `CompleteCorrect` and `ContractKept` have the hypothesis `TagIndexLimit > MaxEntries`. It is what the
  defaults are (1000 entries, `memory.ts:34`; 5000 keys, `tag-index.ts:30`), and without it they fail:
  the storage forgets memberships, and an invalidation leaves entries (section 5).
* `ContractKept` has one lemma per operation of `StorageContract`. `Fades` is the reason why sweeping
  and lazy expiry are steps that nobody sees: what they remove had expired.

**`InvalidationProofs`** proves, for every set of instances, functions and invalidations and every
configuration and request (`InvalidationAssumption`), all that the run `invalidation` checks:

* `RegistryCorrect` needs, beyond the property itself, that the registry has no repetitions and that
  what `resetCache` took over had been created (`ResetsOld`): a cache created meanwhile is none of that.
* `ReachesCorrect`. `Underway` describes an invalidation between two commands: its agenda is made of
  commands of its request, its targets are instances it addressed. `Owing` is the argument: each entry
  it owes is gone, or the command that removes it is still on the agenda of the current or of a later
  target, or a command failed at its instance, or dedupe passed its instance over for one that does not
  see it. Whether a later target sees it depends on options and request only (`Concerns`), so that it
  is settled at the beginning: of the instances that share f's storage and namespace exactly one is
  visited (`DedupeProperties`), f's own or another. A command that runs keeps the invariant because it
  removes all that it stands for, in the index its instance uses.
* `SparedCorrect` follows from `Underway` step by step: who is commanded was addressed.

**`TagIndexProofs`, `GivesUpCorrect`** counts. `Beaten` is the number of other writers that are done, of
invalidations that are done, and of expiries that the elapsed time allows (`Since`: an index that expires
has lived for a whole ttl, so that `Since` jumps by one ttl when it does). Whatever changes the revision
that a waiting writer has read makes `Beaten` grow by one (`BeatenGrows`); hence a writer's failed attempts
are at most `Beaten` (`Counted`), over any kind of compare-and-set. Writers and invalidations must be
finitely many, or there is nothing to count.

**`PayloadsProofs`** proves, for every set of processes and scenarios and any keys and serializers
that keep `KeyAssumption`, `SerializerAssumption` and `NameAssumption`, both properties of the run
`payloads`:

* `ServedCorrect`. `Origin` says of every storage key that what it holds was written by a process which
  uses the key, as that process's setup writes it, but for what faults have spoilt; `Intact` that what
  passes decompression and parser has not been spoilt; and `Serve` that whatever `deserializeEntry`
  accepts, under the serializer that wrote it, is what that serializer promises. An entry of another
  compression is refused, and so is one of another serializer if both state a name. If one of them does
  not, the entry is read by whatever serializer the reader has, and nothing is claimed of the result
  (section 6).
* `RecachedCorrect`. `Undisturbed` follows an operation between its steps: a process that found an
  unreadable entry and deleted it, or goes on to write over it, will find the revision it observed
  unless another process interferes, which takes it out of `settled`. An unreadable entry without a
  delete would leave a revision that no writer had observed, and the key would never be cached again.

It also proves, of `Keys` for any encoding of lists that begins as that of an array does
(`KeysAssumption`), what the layout of a key is worth:

* `KeysTellApart`. Calls that get one key are of one namespace and version and under one scope, as
  encoded; and either both have explicit keys of the same text but for colons and unsafe characters, or
  function and encoded arguments are the same. The argument reads a key from its ends: namespace and
  version have a fixed place (`BaseText`); what a key ends in is the hash of the material, of the scope,
  or a run of the user's; a key that was cut ends in a hash of the whole, which is like no other hash
  because what it is of begins with the prefix (`NotTheHashOfAKey`), so that the limit of length makes
  one key of no two (`LengthKeepsApart`); and the material is cut at its first bars (`CutAtToken`).
* `ServedWithinScope`. Under such keys the entry that a call or a raw read is served was stored under
  its own scope, namespace and version, whatever arguments or explicit keys are confused: what
  section 6 lists never crosses users.

Both are about calls whose names contain no bar (`WellFormed`). A bar ends the name in what is hashed,
and the name is written without its length: a name that goes on like a scope and a list of arguments
gives the material of another call. The two keys differ in their labels all the same, unless the names
agree in their first 40 characters. What the encodings themselves confuse (`Confusable`) is for TLC:
`KeysTellApart` ends at equal encodings.

**Data.** The induction theorems of the library take an operator as parameter, which the provers cannot
instantiate; in their stead a proof looks at the least index (`Least`), or at a smallest set
(`SmallestSubset`), of which a claim fails, and goes one step back from there. What a filter keeps is
defined by ranks (`Picked` in `OrderedSets`) and not by a recursion, so that `PickedProperties` and
`FilterProperties` follow from facts about cardinalities. The sums of sizes are folds; `FoldExists` of
`MemoryStorageProofs` makes of such a fold the function of its prefixes.

Model-checked only: the liveness properties; the lock of `RedisStorage` over commands; and what the
recursive operators of `Encoding` and `Codec` compute, that encodings of different arguments differ and
that serializers read what they wrote. Out of the prover's reach are liveness under fairness and
ENABLED, and RECURSIVE operators, over whose declarations the SMT backend is not available: `Encode`,
`ToJsonSafe` and their like follow the nesting of values and are kept out of the modules with theorems.

## 5. Abstractions and what is not modelled

* Keys and tags are model values, except in `Keys`, `Encoding` and `Payloads`; hashing is injective. Payloads and
  their damage are the subject of `Payloads` only: elsewhere serialization succeeds.
* Damage to a payload never parses (`Spoilt`). Damage that does parse is served, for an entry has no
  checksum; no property holds of it.
* `CacheRuntime` assumes a storage whose compare-and-set is atomic and registers the tag (memory, and
  Redis with Lua). What happens between writing and registering is in `TagIndex` and `RedisStorage`.
* A timed-out delete or lock call takes effect at once or not at all; only writes may land later
  (`LandWrite`). `timeout.ts` is taken as one of the ways in which a call fails.
* A call cancelled before it joins a computation is modelled in `SingleFlight` (`RejectRun`) only.
* The invalidations of the writers in `CacheRuntime` succeed; failing ones are in `Invalidation`.
* `Requests` reduces the cache to entries that do not expire, and a failure to that of the source.
* `RedisStorage` leaves `set` (which is `compareAndSet` without its test) and `extend` (which nothing
  calls) without actions of their own. Its locks are the only ones modelled from inside: the locks of
  `memory.ts` and `kv.ts` are not, nor is `clear` of `kv.ts` over a listing that the service may delay.
* Not modelled: `prefetch.ts` (a worker pool whose only shared state is its cursor), `rawHas`,
  diagnostics, the validation of options, prefixes, durations and tags; events, statistics, logging,
  telemetry, CLI, integrations and test helpers, which carry no state that a property is about.

Behaviours of the modelled code that no property forbids, and that a reader of the model should
expect: `revalidate()` under the lock may return a peer's fresh entry instead of recomputing; with
`cacheErrors` a failed revalidation replaces a usable stale value by an error entry, and under
fail-closed a failed write is cached as an error of the source; a stale value checked before a long
revalidation is served as fallback after its window; a membership of a tag index is forgotten when a
second invalidation deletes the index, when the index expires before the entry, or when its revision
restarts; above `tagIndexLimit` memory storage forgets the oldest entries of a tag.

## 6. Known disagreements between code and documentation

One is checked by a run of its own, `redis_stale`. The others were met while modelling; the properties
are stated so that they hold in spite of them, and name the exception. Paths are relative to the
package's `src`.

Runtime and single flight:

* A call may join a computation that was already aborted, because its record stays registered until
  the factory settles; `single-flight.ts:12-13` has it that one consumer's cancellation never reaches
  another.
* A revision observed before a record was deleted or expired equals that of its successor, so a slow
  revalidation overwrites a newer record; `runtime.ts:981-983` says that it cannot.
* An invalidation between the tombstone check and the write is missed, contrary to `types.ts:296`.
* The tombstone of a versioned function is written under one key and read under another
  (`runtime.ts:1375`): the check never fires.
* A damaged envelope makes `get` of kv and redis throw; under fail-open the call recomputes, cannot
  write, and deletes nothing (`runtime.ts:358`), so each call recomputes until the record expires.
* `rawGet` does not look at the serializer an entry names, and `rawSet` ignores the answer of
  `compareAndSet` (`runtime.ts:1564`).

Storages and tag index:

* Without compare-and-set, or over the emulated one of `kv.ts`, a membership is lost and the entry
  outlives `revalidateTag`, contrary to `tag-index.ts:13-17`.
* Without scripts a release can delete the lock of a peer, contrary to `redis.ts:460-461`; and so may
  that peer, which does not learn of it.
* A key written again between the DEL and the SREM of an earlier eraser leaves the key index although it
  is stored, and `clear()` passes it over (`redis.ts:378`); the DEL and SREM of a batch likewise (331).
* A Redis storage created without the cache's namespace writes tags into another index than the one it
  invalidates through, until `addTags` has run (`redis.ts:101, 219`).
* The tag index of `memory.ts` is shared by all caches of the storage, contrary to
  `create-cache.ts:6`.

Instances, requests and keys:

* `invalidateKeys` swallows the failure of a key (`runtime.ts:1406`); `invalidation.ts:8-10` promises
  that it is thrown in the end.
* Of two instances of one storage and namespace the fan-out visits the first only, on the ground that
  they share storage keys (`invalidation.ts:50`). They do not under different prefixes; and the entry of
  a tag is one per version (`runtime.ts:245`, `keys.ts:104, 154`), so that over a storage without native
  tags `revalidateTag` leaves the entries of the second of two versions. `Shadowed` is exactly this.
* The id of an ambient user without a tenant and that of a tenant without a user give one key
  (`runtime.ts:893`), and a scope array of undefined parts passes the check for private functions
  (`runtime.ts:884`).
* `revalidate()` evicts the memo of the request when it begins only: what is memoized meanwhile stays
  (`runtime.ts:1266`). A nested `withCacheContext` never inherits a request cache, contrary to
  `context.ts:213`.
* Explicit keys that differ in ":" for "-", or in where the label ends, share an entry
  (`keys.ts:148`); so do arguments with property names or URLs that contain the separators of the
  encoding, which are written without their length (`stable-stringify.ts:118, 170`). `Confusable` is
  exactly this. None of it crosses scopes, namespaces or versions (`ServedWithinScope`).
* The typed serializer drops properties named `~rsc` and `__proto__` and undefined properties, and
  gives back buffers and typed arrays of every kind as `Uint8Array` (`serializer.ts:97-107`).
* Serializers do mix if the writer's or the reader's states no name, which is optional: the entry is read
  by the reader's (`runtime.ts:432-436`, `types.ts:46`), contrary to `types.ts:45`. `ServedAsStored`
  excepts exactly that.

## 7. Plan

Done: `SingleFlight`, `CacheRuntime`, `MemoryStorage`, `RedisStorage`, `TagIndex`, `Invalidation`,
`Requests` and `Payloads` with proofs of their safety, and of the refinements of `StorageContract` by
`MemoryStorage` and `RedisStorage`; `Keys` with a proof of what its layout tells apart; `Encoding` and
`Codec` with a run.

What could follow, in this order:

1. An abstract lease, and the locks of `memory.ts` and `kv.ts` against it; KV's get-then-set does not
   keep it.
2. `Encode` and `ToJsonSafe` without recursion, as functions of the paths in a value, so that what
   they keep apart could be proved.
3. `warmup` and its stop on error; `clear` of `kv.ts` over a delayed listing.
