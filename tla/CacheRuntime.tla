---------------------------- MODULE CacheRuntime ----------------------------
(***************************************************************************)
(* The read, compute and write path of src/runtime.ts for one key, shared  *)
(* by several processes over one storage.                                  *)
(*                                                                         *)
(* Calls of a cached function read the storage, decide on the entry's      *)
(* freshness, and compute through their process's single flight; a flight  *)
(* may take the distributed lock, runs the source, checks the tombstone    *)
(* and writes with compare-and-set.  Writers of the source of truth change *)
(* it and then invalidate the entry's tag.  A step ends at the next await  *)
(* of the code, so whatever was read before an await may be stale after.   *)
(*                                                                         *)
(* The storage has an atomic compareAndSet that registers the entry's tag  *)
(* (memory; Redis with Lua).  Values are the versions of the source.       *)
(***************************************************************************)
EXTENDS Integers, FiniteSets

CONSTANTS Procs, Calls, Writers,
          ProcOf,          \* the process that makes a call
          NoEntry, NoProc,
          Ttl, StaleTtl,   \* ttlMs and staleTtlMs, 0 for no stale window
          ErrorTtl,        \* errorTtlMs
          LockTtl,
          Strict,          \* strictInvalidation
          Versioned,       \* the function, or its cache, has a version
          Background,      \* revalidate = "background", else "blocking"
          ServeStale,      \* onRevalidationError = "stale", else "throw"
          CacheErrors,
          UseLock,         \* distributedLock
          LockThrows,      \* its failure = "throw", else "proceed"
          FailClosed,      \* failureMode
          Cancellable,     \* the calls whose request may be cancelled
          SourceFails,     \* the source may throw
          MaxNow, MaxPolls, MaxFaults

ASSUME RuntimeAssumption ==
  /\ ProcOf \in [Calls -> Procs] /\ Cancellable \subseteq Calls
  /\ NoProc \notin Procs
  /\ {Ttl, ErrorTtl, LockTtl} \subseteq Nat \ {0}
  /\ {StaleTtl, MaxNow, MaxPolls, MaxFaults} \subseteq Nat
  /\ {Strict, Versioned, Background, ServeStale, CacheErrors, UseLock,
      LockThrows, FailClosed, SourceFails} \subseteq BOOLEAN

VARIABLES now,      \* the clock
          version,  \* of the source of truth
          store,    \* the key's record in the storage
          lives,    \* history: how many times the record was created
          tomb,     \* invalidatedAt of the tag's tombstone, -1 for none
          lock,     \* the storage's lock of the key
          caller, flight, writer,
          late,     \* writes that failed or timed out and may still land
          faults    \* storage failures and crashes so far

vars == <<now, version, store, lives, tomb, lock, caller, flight, writer, faults,
          late>>

-----------------------------------------------------------------------------
(* Data *)

Entry == [rev : Nat \ {0}, kind : {"value", "error"}, value : Nat,
          expires : Nat, retained : Nat, started : Nat, life : Nat]

Lock == [holder : Procs \union {NoProc}, expires : Nat]

Ops == {"get", "revalidate", "invalidate"}

(* entry: what the last read returned; origin: history, where the call's   *)
(* value comes from.                                                       *)
Caller == [pc : {"idle", "read", "decide", "delete", "wait", "done", "gone"},
           op : Ops, entry : Entry \union {NoEntry},
           kind : {"none", "value", "error"}, value : Nat,
           origin : {"none", "hit", "stale", "source", "peer", "fallback",
                     "storage"}]

(* obs: observedRevision, 0 for null; seen: history, the writers whose     *)
(* invalidation was over at the tombstone check (and whose time stamp an   *)
(* older invalidation had not put back); life: history, the life of the    *)
(* record that obs was read from.                                          *)
FlightPcs == {"none", "lock", "recheck", "poll", "source", "running",
              "check", "write", "tags", "release", "end"}

Flight == [pc : FlightPcs, obs : Nat, life : Nat, started : Nat,
           keepAlive : BOOLEAN, aborted : BOOLEAN, polls : Nat,
           locked : BOOLEAN, kind : {"value", "error"}, value : Nat,
           created : Nat, outcome : {"none", "value", "error"},
           origin : {"source", "peer", "storage"}, seen : SUBSET Writers]

Writer == [pc : {"idle", "begin", "delete", "tomb", "done"},
           wrote : Nat, at : Nat]

NoFlight == [pc |-> "none", obs |-> 0, life |-> 0, started |-> 0,
             keepAlive |-> FALSE, aborted |-> FALSE, polls |-> 0,
             locked |-> FALSE, kind |-> "value", value |-> 0, created |-> 0,
             outcome |-> "none", origin |-> "source", seen |-> {}]

FreeLock == [holder |-> NoProc, expires |-> 0]

ASSUME NoEntryAssumption == NoEntry \notin Entry

StateOK ==
  /\ now \in Nat /\ version \in Nat /\ lives \in Nat /\ faults \in Nat
  /\ tomb \in Nat \union {-1}
  /\ store \in Entry \union {NoEntry}
  /\ lock \in Lock
  /\ caller \in [Calls -> Caller]
  /\ flight \in [Procs -> Flight]
  /\ writer \in [Writers -> Writer]

TypeOK == StateOK /\ late \subseteq Flight

Init ==
  /\ now = 0 /\ version = 0 /\ lives = 0 /\ faults = 0 /\ tomb = -1
  /\ late = {}
  /\ store = NoEntry
  /\ lock = FreeLock
  /\ caller = [c \in Calls |->
                 [pc |-> "idle", op |-> "get", entry |-> NoEntry,
                  kind |-> "none", value |-> 0, origin |-> "none"]]
  /\ flight = [p \in Procs |-> NoFlight]
  /\ writer = [w \in Writers |-> [pc |-> "idle", wrote |-> 0, at |-> 0]]

(* getFreshness, and the storage's own retention deadline. *)
Freshness(e, t) == IF t < e.expires THEN "fresh"
                   ELSE IF t < e.retained THEN "stale" ELSE "expired"

Stored == IF store # NoEntry /\ now < store.retained THEN store ELSE NoEntry

HasFresh == Stored # NoEntry /\ Freshness(Stored, now) = "fresh"

Revision(e) == IF e = NoEntry THEN 0 ELSE e.rev

Waiting(p) == {c \in Calls : caller[c].pc = "wait" /\ ProcOf[c] = p}

Done == {w \in Writers : writer[w].pc = "done"}

(* One more storage call fails, by an error or by its timeout. *)
Fault == faults < MaxFaults /\ faults' = faults + 1

-----------------------------------------------------------------------------
(* Calls: execute, resolveWithCache, forceRecompute, invalidateFunction *)

Call(c) ==
  /\ caller[c].pc = "idle"
  /\ \E op \in Ops :
       caller' = [caller EXCEPT
                    ![c].op = op,
                    ![c].pc = IF op = "invalidate" THEN "delete" ELSE "read"]
  /\ UNCHANGED <<now, version, store, lives, tomb, lock, flight, writer, faults, late>>

Finish(c, kind, value, origin) ==
  caller' = [caller EXCEPT ![c].pc = "done", ![c].kind = kind,
                           ![c].value = value, ![c].origin = origin,
                           ![c].entry = NoEntry]

ReadAlwaysClosed(c) ==
  /\ caller[c].pc = "read"
  /\ \/ /\ caller' = [caller EXCEPT ![c].pc = "decide", ![c].entry = Stored]
        /\ UNCHANGED faults
     \/ Fault /\ Finish(c, "error", 0, "storage")
  /\ UNCHANGED <<now, version, store, lives, tomb, lock, flight, writer, late>>

(* readEntry: the storage answers, or fails open as a miss, or closed.     *)
Read(c) ==
  /\ caller[c].pc = "read"
  /\ \/ /\ caller' = [caller EXCEPT ![c].pc = "decide", ![c].entry = Stored]
        /\ UNCHANGED faults
     \/ /\ Fault
        /\ IF FailClosed THEN Finish(c, "error", 0, "storage")
           ELSE caller' = [caller EXCEPT ![c].pc = "decide"]
  /\ UNCHANGED <<now, version, store, lives, tomb, lock, flight, writer, late>>

(* refresh: join the process's flight, or create it with the revision and  *)
(* the time of this call.                                                  *)
Refresh(p, e, keepAlive) ==
  \/ /\ flight[p].pc # "none"
     /\ flight' = [flight EXCEPT ![p].keepAlive = @ \/ keepAlive]
  \/ /\ flight[p].pc = "none"
     /\ flight' = [flight EXCEPT ![p] =
                     [NoFlight EXCEPT !.pc = IF UseLock THEN "lock" ELSE "source",
                                      !.obs = Revision(e),
                                      !.life = IF e = NoEntry THEN 0 ELSE e.life,
                                      !.started = now,
                                      !.keepAlive = keepAlive]]

Wait(c, fallback) ==
  caller' = [caller EXCEPT ![c].pc = "wait", ![c].entry = fallback]

Decide(c) ==
  /\ caller[c].pc = "decide"
  /\ LET e == caller[c].entry
         p == ProcOf[c]
         f == IF e = NoEntry THEN "expired" ELSE Freshness(e, now)
     IN  \/ /\ caller[c].op = "get" /\ f = "fresh"
            /\ Finish(c, e.kind, e.value, "hit")
            /\ UNCHANGED flight
         \/ /\ caller[c].op = "get" /\ f = "stale" /\ Background
            /\ Refresh(p, e, TRUE)
            /\ Finish(c, e.kind, e.value, "stale")
         \/ /\ caller[c].op = "get" /\ f = "stale" /\ ~Background
            /\ Refresh(p, e, FALSE)
            /\ Wait(c, IF ServeStale THEN e ELSE NoEntry)
         \/ /\ caller[c].op = "revalidate" \/ f = "expired"
            /\ Refresh(p, e, FALSE)
            /\ Wait(c, NoEntry)
  /\ UNCHANGED <<now, version, store, lives, tomb, lock, writer, faults, late>>

(* deleteEntry answers false when the storage fails. *)
Delete(c) ==
  /\ caller[c].pc = "delete"
  /\ \/ store' = NoEntry /\ UNCHANGED faults
     \/ Fault /\ (UNCHANGED store \/ store' = NoEntry)
  /\ Finish(c, "value", 0, "none")
  /\ UNCHANGED <<now, version, lives, tomb, lock, flight, writer, late>>

(* The request is cancelled: the call detaches from its flight, which is   *)
(* aborted when that was the last one and nobody keeps it alive.           *)
Cancel(c) ==
  /\ caller[c].pc = "wait" /\ c \in Cancellable
  /\ caller' = [caller EXCEPT ![c].pc = "gone", ![c].entry = NoEntry]
  /\ flight' = [flight EXCEPT ![ProcOf[c]].aborted =
                  @ \/ (/\ Waiting(ProcOf[c]) = {c}
                        /\ ~flight[ProcOf[c]].keepAlive)]
  /\ UNCHANGED <<now, version, store, lives, tomb, lock, writer, faults, late>>

-----------------------------------------------------------------------------
(* The flight of a process: acquireLockOrWait *)

Goto(p, pc) == flight' = [flight EXCEPT ![p].pc = pc]

(* The flight settles without having run the source. *)
Settle(p, pc, kind, value, origin) ==
  flight' = [flight EXCEPT ![p].pc = pc, ![p].outcome = kind,
                           ![p].value = value, ![p].origin = origin]

LockIsFree == lock.holder = NoProc \/ now >= lock.expires

TakeLock(p) == lock' = [holder |-> p, expires |-> now + LockTtl]

Acquire(p) ==
  /\ flight[p].pc = "lock"
  /\ \/ /\ LockIsFree
        /\ TakeLock(p)
        /\ flight' = [flight EXCEPT ![p].pc = "recheck", ![p].locked = TRUE]
        /\ UNCHANGED faults
     \/ /\ ~LockIsFree
        /\ Goto(p, "poll")
        /\ UNCHANGED <<lock, faults>>
     \/ /\ Fault
        /\ Goto(p, "source")
        /\ \/ UNCHANGED lock
           \/ LockIsFree /\ TakeLock(p)
  /\ UNCHANGED <<now, version, store, lives, tomb, caller, writer, late>>

RecheckKeepsLock(p) ==
  /\ flight[p].pc = "recheck"
  /\ \/ HasFresh /\ Settle(p, "end", Stored.kind, Stored.value, "peer")
     \/ ~HasFresh /\ Goto(p, "source")
  /\ UNCHANGED <<now, version, store, lives, tomb, lock, caller, writer, faults, late>>

(* The double check under the lock; a read that fails closed throws from   *)
(* here, where no `finally` releases the lock.                             *)
Recheck(p) ==
  /\ flight[p].pc = "recheck"
  /\ \/ /\ HasFresh
        /\ Settle(p, "release", Stored.kind, Stored.value, "peer")
        /\ UNCHANGED faults
     \/ /\ ~HasFresh
        /\ Goto(p, "source")
        /\ UNCHANGED faults
     \/ /\ Fault
        /\ IF FailClosed THEN Settle(p, "end", "error", 0, "storage")
           ELSE Goto(p, "source")
  /\ UNCHANGED <<now, version, store, lives, tomb, lock, caller, writer, late>>

PollForever(p) == flight' = [flight EXCEPT ![p].pc = "lock"]

(* Nothing fresh yet: try the lock again, or the deadline has passed; it   *)
(* does by the MaxPolls-th poll.                                           *)
PollAgain(p) ==
  \/ /\ flight[p].polls < MaxPolls
     /\ flight' = [flight EXCEPT ![p].pc = "lock", ![p].polls = @ + 1]
  \/ IF LockThrows THEN Settle(p, "end", "error", 0, "storage")
     ELSE Goto(p, "source")

(* One poll while a peer holds the lock. *)
Poll(p) ==
  /\ flight[p].pc = "poll"
  /\ \/ /\ HasFresh
        /\ Settle(p, "end", Stored.kind, Stored.value, "peer")
        /\ UNCHANGED faults
     \/ ~HasFresh /\ PollAgain(p) /\ UNCHANGED faults
     \/ /\ Fault
        /\ IF FailClosed THEN Settle(p, "end", "error", 0, "storage")
           ELSE PollAgain(p)
  /\ UNCHANGED <<now, version, store, lives, tomb, lock, caller, writer, late>>

-----------------------------------------------------------------------------
(* The flight of a process: the source and writeEntry *)

(* A source reads the truth as it is at some moment after it was called.   *)
StartSource(p) ==
  /\ flight[p].pc = "source"
  /\ flight' = [flight EXCEPT ![p].pc = "running", ![p].value = version]
  /\ UNCHANGED <<now, version, store, lives, tomb, lock, caller, writer, faults, late>>

(* writeEntry takes its time stamp when it is called. *)
BeginWrite(p, kind) ==
  flight' = [flight EXCEPT ![p].kind = kind, ![p].outcome = kind,
                           ![p].created = now,
                           ![p].pc = IF Strict THEN "check" ELSE "write"]

(* A null that is not cached, an abandoned result, an AbortError and,       *)
(* without cacheErrors, any error are returned and not stored.             *)
FinishSource(p) ==
  /\ flight[p].pc = "running"
  /\ \/ ~flight[p].aborted /\ BeginWrite(p, "value")
     \/ Settle(p, "release", "value", flight[p].value, "source")
     \/ /\ SourceFails /\ CacheErrors /\ ~flight[p].aborted
        /\ BeginWrite(p, "error")
     \/ SourceFails /\ Settle(p, "release", "error", 0, "source")
  /\ UNCHANGED <<now, version, store, lives, tomb, lock, caller, writer, faults, late>>

(* invalidateTags writes the tombstone under the key of no version, the    *)
(* check reads it under the key of the function's.                         *)
Tombstone == IF Versioned THEN -1 ELSE tomb

RefusedLater(f) == Tombstone > f.started

Refused(f) == Tombstone >= f.started

CheckTombstone(p) ==
  /\ flight[p].pc = "check"
  /\ \/ /\ UNCHANGED faults
        /\ flight' = [flight EXCEPT
                        ![p].pc = IF Refused(flight[p]) THEN "release"
                                                        ELSE "write",
                        ![p].seen = {w \in Done : tomb >= writer[w].at}]
     \/ Fault /\ Goto(p, "write")
  /\ UNCHANGED <<now, version, store, lives, tomb, lock, caller, writer, late>>

EntryOfSameRevision(f) ==
  [rev |-> f.obs, kind |-> f.kind, value |-> f.value,
   expires |-> f.created + Ttl, retained |-> f.created + Ttl + StaleTtl,
   started |-> f.started, life |-> IF Stored = NoEntry THEN lives + 1
                                                       ELSE Stored.life]

NewEntry(f) ==
  LET ttl == IF f.kind = "error" THEN ErrorTtl ELSE Ttl
  IN  [rev |-> f.obs + 1, kind |-> f.kind, value |-> f.value,
       expires |-> f.created + ttl,
       retained |-> f.created + ttl + (IF f.kind = "error" THEN 0
                                                           ELSE StaleTtl),
       started |-> f.started,
       life |-> IF Stored = NoEntry THEN lives + 1 ELSE Stored.life]

MatchesNewer(f) == Revision(Stored) >= f.obs

(* The storage's compareAndSet: what it does when the revisions agree.     *)
Matches(f) == Revision(Stored) = f.obs

Put(f) ==
  /\ store' = NewEntry(f)
  /\ lives' = IF Stored = NoEntry THEN lives + 1 ELSE lives

(* What refresh does when writeEntry throws: an error entry is attempted.  *)
WriteThrows(p) ==
  IF CacheErrors /\ ~flight[p].aborted /\ flight[p].kind = "value"
  THEN flight' = [flight EXCEPT ![p].kind = "error", ![p].outcome = "error",
                                ![p].origin = "storage", ![p].created = now,
                                ![p].pc = IF Strict THEN "check" ELSE "write"]
  ELSE flight' = [flight EXCEPT ![p].pc = "release", ![p].outcome = "error",
                                ![p].origin = IF flight[p].kind = "value"
                                              THEN "storage" ELSE @]

(* The request of a failed write is left under way, for ever if the        *)
(* storage never got it.                                                   *)
Write(p) ==
  /\ flight[p].pc = "write"
  /\ \/ /\ Matches(flight[p]) /\ Put(flight[p])
        /\ Goto(p, "tags")
        /\ UNCHANGED <<faults, late>>
     \/ /\ ~Matches(flight[p])
        /\ Goto(p, "release")
        /\ UNCHANGED <<store, lives, faults, late>>
     \/ /\ Fault
        /\ late' = late \union {flight[p]}
        /\ IF FailClosed THEN WriteThrows(p) ELSE Goto(p, "release")
        /\ UNCHANGED <<store, lives>>
  /\ UNCHANGED <<now, version, tomb, lock, caller, writer>>

(* withTimeout stops waiting for the request, not the request.             *)
LandWrite(f) ==
  /\ late' = late \ {f}
  /\ \/ Matches(f) /\ Put(f)
     \/ ~Matches(f) /\ UNCHANGED <<store, lives>>
  /\ UNCHANGED <<now, version, tomb, lock, caller, flight, writer, faults>>

(* addTags: the entry's tag is registered already, the call is awaited.    *)
AddTags(p) ==
  /\ flight[p].pc = "tags"
  /\ Goto(p, "release")
  /\ UNCHANGED <<now, version, store, lives, tomb, lock, caller, writer, faults, late>>

-----------------------------------------------------------------------------
(* The flight of a process: releaseLock, and the flight's end *)

UnlockedByKey(p) == FreeLock

(* The storage deletes a lock whose token is the flight's. *)
Unlocked(p) == IF lock.holder = p THEN FreeLock ELSE lock

Release(p) ==
  /\ flight[p].pc = "release"
  /\ flight' = [flight EXCEPT ![p].pc = "end", ![p].locked = FALSE]
  /\ \/ /\ lock' = IF flight[p].locked THEN Unlocked(p) ELSE lock
        /\ UNCHANGED faults
     \/ flight[p].locked /\ Fault /\ UNCHANGED lock
  /\ UNCHANGED <<now, version, store, lives, tomb, caller, writer, late>>

(* Every call that waits gets the outcome; one that read a stale entry     *)
(* falls back on it when the outcome is an error.                          *)
End(p) ==
  /\ flight[p].pc = "end"
  /\ flight' = [flight EXCEPT ![p] = NoFlight]
  /\ LET f == flight[p]
         Answer(c) ==
           IF f.outcome = "error" /\ caller[c].entry # NoEntry
           THEN [caller[c] EXCEPT !.pc = "done", !.kind = "value",
                                  !.value = caller[c].entry.value,
                                  !.origin = "fallback", !.entry = NoEntry]
           ELSE [caller[c] EXCEPT !.pc = "done", !.kind = f.outcome,
                                  !.value = IF f.outcome = "error" THEN 0
                                            ELSE f.value,
                                  !.origin = f.origin, !.entry = NoEntry]
     IN  caller' = [c \in Calls |-> IF c \in Waiting(p) THEN Answer(c)
                                                        ELSE caller[c]]
  /\ UNCHANGED <<now, version, store, lives, tomb, lock, writer, faults, late>>

(* The process dies with its calls; a lock it held stays in the storage,   *)
(* a write it was about to make may have been sent.                        *)
Crash(p) ==
  /\ flight[p].pc # "none"
  /\ Fault
  /\ flight' = [flight EXCEPT ![p] = NoFlight]
  /\ caller' = [c \in Calls |->
                  IF ProcOf[c] = p /\ caller[c].pc \in {"read", "decide",
                                                        "delete", "wait"}
                  THEN [caller[c] EXCEPT !.pc = "gone", !.entry = NoEntry]
                  ELSE caller[c]]
  /\ late' = late \union (IF flight[p].pc = "write" THEN {flight[p]} ELSE {})
  /\ UNCHANGED <<now, version, store, lives, tomb, lock, writer>>

-----------------------------------------------------------------------------
(* Writers: change the source of truth, then invalidateTags *)

Mutate(w) ==
  /\ writer[w].pc = "idle"
  /\ version' = version + 1
  /\ writer' = [writer EXCEPT ![w].pc = "begin", ![w].wrote = version + 1]
  /\ UNCHANGED <<now, store, lives, tomb, lock, caller, flight, faults, late>>

BeginInvalidate(w) ==
  /\ writer[w].pc = "begin"
  /\ writer' = [writer EXCEPT ![w].pc = "delete", ![w].at = now]
  /\ UNCHANGED <<now, version, store, lives, tomb, lock, caller, flight, faults, late>>

InvalidateTag(w) ==
  /\ writer[w].pc = "delete"
  /\ store' = NoEntry
  /\ writer' = [writer EXCEPT ![w].pc = "tomb"]
  /\ UNCHANGED <<now, version, lives, tomb, lock, caller, flight, faults, late>>

WriteTombstone(w) ==
  /\ writer[w].pc = "tomb"
  /\ tomb' = writer[w].at
  /\ writer' = [writer EXCEPT ![w].pc = "done"]
  /\ UNCHANGED <<now, version, store, lives, lock, caller, flight, faults, late>>

Tick ==
  /\ now < MaxNow
  /\ now' = now + 1
  /\ UNCHANGED <<version, store, lives, tomb, lock, caller, flight, writer, faults, late>>

-----------------------------------------------------------------------------
CallerStep(c) == Read(c) \/ Decide(c) \/ Delete(c)

GuardedStep(p) ==
  \/ Acquire(p) \/ Recheck(p) \/ Poll(p) \/ StartSource(p) \/ FinishSource(p)
  \/ Write(p) \/ End(p)

(* The storage calls that no timeout guards. *)
UnguardedStep(p) == CheckTombstone(p) \/ AddTags(p) \/ Release(p)

WriterStep(w) ==
  Mutate(w) \/ BeginInvalidate(w) \/ InvalidateTag(w) \/ WriteTombstone(w)

Next ==
  \/ \E c \in Calls : Call(c) \/ CallerStep(c) \/ Cancel(c)
  \/ \E p \in Procs : GuardedStep(p) \/ UnguardedStep(p) \/ Crash(p)
  \/ \E w \in Writers : WriterStep(w)
  \/ \E f \in late : LandWrite(f)
  \/ Tick

Spec == Init /\ [][Next]_vars

(* Storage calls answer, those that a timeout guards at the latest when it *)
(* is over; sources settle.                                                *)
Fairness ==
  /\ \A c \in Calls : WF_vars(CallerStep(c))
  /\ \A p \in Procs : WF_vars(GuardedStep(p)) /\ WF_vars(UnguardedStep(p))

FairSpec == Spec /\ Fairness

-----------------------------------------------------------------------------
(* Properties *)

(* What is to be written, by flights and by requests they gave up on.      *)
Writing == late \union {flight[p] : p \in {q \in Procs : flight[q].pc = "write"}}

(* While a record lives, computations replace it in the order they began:  *)
(* compare-and-set refuses a slow revalidation whose observation another   *)
(* write has overtaken, and a write that timed out and lands when others   *)
(* have begun.  (Revisions start again once the record was deleted or has  *)
(* expired, and a slow revalidation may then pass.)                        *)
NewerKeptWithinLife ==
  [][\A f \in Writing :
       (/\ store' # store /\ store' = NewEntry(f)
        /\ Stored # NoEntry /\ Stored.life = f.life)
       => store'.started >= store.started]_vars

(* Strict invalidation, as far as it goes: a flight that read the          *)
(* tombstones after an invalidation was over never stores what its source  *)
(* read before the change that was invalidated, however late its write     *)
(* lands, and although its start, the invalidation's time stamp and the    *)
(* read were taken at different moments.                                   *)
(* (Of two invalidations, the later writeTagTombstone decides the stamp.)  *)
StrictRefusesStale ==
  \A f \in Writing :
    f.kind = "value" => \A w \in f.seen : f.value >= writer[w].wrote

(* A process shares its lock with a peer only when its computation has     *)
(* outlasted the lock's ttl: release() of an overtaken lock does not free  *)
(* the successor's.                                                        *)
OnlyOverstayersShare ==
  \A p \in Procs :
    (flight[p].locked /\ lock.holder # p) => now >= flight[p].started + LockTtl

(* No path of a flight leaves the lock behind: until a storage call fails, *)
(* an unexpired lock belongs to a flight that will release it.             *)
LockReleased ==
  (faults = 0 /\ lock.holder # NoProc /\ now < lock.expires)
  => flight[lock.holder].locked

(* fail-open: no storage failure reaches a caller, whichever of the reads, *)
(* lock calls and writes of its computation failed or timed out; the only  *)
(* errors it sees are the source's own.                                    *)
FailOpenHidesStorage ==
  (~FailClosed /\ ~LockThrows) =>
    \A c \in Calls : caller[c].kind = "error" => caller[c].origin # "storage"

(* Every call returns, however the lock is contended and whatever fails.   *)
EveryCallReturns ==
  \A c \in Calls : (caller[c].pc \in {"read", "wait", "delete"})
                   ~> (caller[c].pc \in {"done", "gone"})
=============================================================================
