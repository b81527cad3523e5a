------------------------------ MODULE Requests ------------------------------
(***************************************************************************)
(* Cached calls inside the contexts of requests: the nesting and the       *)
(* propagation of contexts and the memo of a request (src/context.ts), the *)
(* key a call is given (createPlan in src/runtime.ts, src/keys.ts), and    *)
(* the calls, revalidations and invalidations of cached functions that     *)
(* meet in the memo, in the single flight and in the cache.                *)
(*                                                                         *)
(* One process.  The cache and the single flight are reduced to what a     *)
(* call meets there: an entry, or a computation to join or to begin (see   *)
(* CacheRuntime and SingleFlight).                                         *)
(***************************************************************************)
EXTENDS Integers, FiniteSets, SequencesExt

CONSTANTS Contexts,    \* calls of withCacheContext
          InitOf,      \* what they are given: outer (the context they are
                       \* made in), user, tenant, cache (a request cache)
          Functions,
          FunctionOf,  \* private, scope (its parts, none: <<>>), memo
          Calls,
          None,
          MaxSource    \* changes of what the functions read

ASSUME RequestsAssumption ==
  /\ \A x \in Contexts : {InitOf[x].outer, InitOf[x].cache}
                           \subseteq Contexts \union {None}
  /\ None \notin Contexts \union Calls
  /\ MaxSource \in Nat

VARIABLES asyncStore, \* AsyncLocalStorage has been loaded
          context, memo, call, flight, entries, source

vars == <<asyncStore, context, memo, call, flight, entries, source>>

(* A request cache is named after the context it was made for. *)
Caches == Contexts

(* kept: entered through AsyncLocalStorage. *)
NoContext == [user |-> None, tenant |-> None, cache |-> None, kept |-> TRUE]

Users == {InitOf[x].user : x \in Contexts}
Tenants == {InitOf[x].tenant : x \in Contexts}

Context == [user : Users \union {None}, tenant : Tenants \union {None},
            cache : Caches \union {None}, kept : BOOLEAN]

-----------------------------------------------------------------------------
(* Keys *)

Part(id) == IF id = None THEN <<>> ELSE <<id>>

(* A mistake of ScopeParts: the tenant is left out. *)
ScopePartsOfUser(f, seen) ==
  IF FunctionOf[f].scope # <<>> THEN FunctionOf[f].scope ELSE Part(seen.user)

(* The scope of a function, or the ambient identity. *)
ScopeParts(f, seen) ==
  IF FunctionOf[f].scope # <<>> THEN FunctionOf[f].scope
  ELSE Part(seen.user) \o Part(seen.tenant)

(* The function stands for its identity and the arguments, or for its      *)
(* label and custom key: see Payloads.                                     *)
KeyOf(f, seen) == <<f, ScopeParts(f, seen)>>

Seens == [user : Users \union {None}, tenant : Tenants \union {None}]
Keys == {KeyOf(f, seen) : f \in Functions, seen \in Seens}

(* What a source returned: for which call, and how fresh it was. *)
Values == [fn : Functions, user : Users \union {None},
           tenant : Tenants \union {None}, at : 0 .. MaxSource]

(* from: the call whose promise answers this one.  History: after and      *)
(* during, the revalidations and invalidations of its key in its request   *)
(* that were over, or under way, when it began.                            *)
Call == [pc : {"idle", "memo", "read", "wait", "delete", "done", "failed"},
         op : {"call", "revalidate", "invalidate"}, fn : Functions \union {None},
         user : Users \union {None}, tenant : Tenants \union {None},
         cache : Caches \union {None}, key : Keys \union {None},
         from : Calls \union {None}, value : Values \union {None},
         after : SUBSET Calls, during : SUBSET Calls]

Flight == [pc : {"source", "write"}, leader : Calls,
           observed : Values \union {None}, value : Values \union {None}]

TypeOK ==
  /\ asyncStore \in BOOLEAN
  /\ context \in [Contexts -> Context \union {None}]
  /\ memo \in [Caches -> [Keys -> Calls \union {None}]]
  /\ call \in [Calls -> Call]
  /\ flight \in [Keys -> Flight \union {None}]
  /\ \A k \in Keys : flight[k] # None =>
       call[flight[k].leader].pc = "wait" /\ call[flight[k].leader].key = k
  /\ entries \in [Keys -> Values \union {None}]
  /\ source \in 0 .. MaxSource

Init ==
  /\ asyncStore \in BOOLEAN
  /\ context = [x \in Contexts |-> None]
  /\ memo = [m \in Caches |-> [k \in Keys |-> None]]
  /\ call = [c \in Calls |->
       [pc |-> "idle", op |-> "call", fn |-> None, user |-> None,
        tenant |-> None, cache |-> None, key |-> None, from |-> None,
        value |-> None, after |-> {}, during |-> {}]]
  /\ flight = [k \in Keys |-> None]
  /\ entries = [k \in Keys |-> None]
  /\ source = 0

-----------------------------------------------------------------------------
(* Contexts *)

(* warmUpContextStore: the import ends. *)
LoadAsyncStore ==
  /\ ~ asyncStore
  /\ asyncStore' = TRUE
  /\ UNCHANGED <<context, memo, call, flight, entries, source>>

(* getCacheContext, before (~ later) or after an await inside of x.  The   *)
(* stack of the fallback is empty again after the await.                   *)
Seen(x, later) ==
  IF x = None \/ (later /\ ~ context[x].kept) THEN NoContext ELSE context[x]

Inner(mine, outer) == IF mine # None THEN mine ELSE outer

(* createCacheContext makes a request cache where none is given, so        *)
(* mergeContext never inherits one.                                        *)
Merged(x, outer) ==
  [user |-> Inner(InitOf[x].user, outer.user),
   tenant |-> Inner(InitOf[x].tenant, outer.tenant),
   cache |-> Inner(InitOf[x].cache, x),
   kept |-> asyncStore]

WithCacheContext(x, later) ==
  /\ context[x] = None
  /\ InitOf[x].outer # None => context[InitOf[x].outer] # None
  /\ context' = [context EXCEPT ![x] = Merged(x, Seen(InitOf[x].outer, later))]
  /\ UNCHANGED <<asyncStore, memo, call, flight, entries, source>>

-----------------------------------------------------------------------------
(* Calls *)

Throws(f, seen) == FunctionOf[f].private /\ ScopeParts(f, seen) = <<>>

(* The call that op of f in the context seen begins. *)
Planned(c, op, f, seen, pc, from) ==
  LET key == KeyOf(f, seen)
      Evictions(pcs) ==
        {r \in Calls : /\ call[r].op # "call" /\ call[r].pc \in pcs
                       /\ seen.cache # None /\ call[r].cache = seen.cache
                       /\ call[r].key = key}
  IN  [call[c] EXCEPT !.pc = pc, !.op = op, !.fn = f,
         !.user = seen.user, !.tenant = seen.tenant, !.cache = seen.cache,
         !.key = key, !.from = from,
         !.after = Evictions({"done", "failed"}),
         !.during = Evictions({"read", "wait", "delete"})]

(* createPlan throws. *)
Refuse(c, f, seen) ==
  /\ Throws(f, seen)
  /\ call' = [call EXCEPT ![c].pc = "failed", ![c].fn = f]
  /\ UNCHANGED memo

(* execute: peek, or run.  A promise that has settled answers at once: one *)
(* that rejected is no longer in the memo.                                 *)
Execute(c, f, seen) ==
  LET key == KeyOf(f, seen)
      memoized == FunctionOf[f].memo /\ seen.cache # None
      known == IF memoized THEN memo[seen.cache][key] ELSE None
  IN  /\ ~ Throws(f, seen)
      /\ call' = [call EXCEPT ![c] =
           IF known = None THEN Planned(c, "call", f, seen, "read", c)
           ELSE [Planned(c, "call", f, seen, "memo", known) EXCEPT
                   !.pc = IF call[known].pc = "done" THEN "done" ELSE "memo",
                   !.value = call[known].value]]
      /\ memo' = IF memoized /\ known = None
                 THEN [memo EXCEPT ![seen.cache][key] = c] ELSE memo

EvictNothing(cache, key) == memo

Evict(cache, key) ==
  IF cache = None THEN memo ELSE [memo EXCEPT ![cache][key] = None]

(* forceRecompute *)
Revalidate(c, f, seen) ==
  /\ ~ Throws(f, seen)
  /\ memo' = Evict(seen.cache, KeyOf(f, seen))
  /\ call' = [call EXCEPT ![c] = Planned(c, "revalidate", f, seen, "read", c)]

(* invalidateFunction *)
Invalidate(c, f, seen) ==
  /\ ~ Throws(f, seen)
  /\ memo' = Evict(seen.cache, KeyOf(f, seen))
  /\ call' = [call EXCEPT ![c] = Planned(c, "invalidate", f, seen, "delete", c)]

(* A cached function is used inside of x, or outside of every context. *)
Use(c, f, x, later) ==
  /\ call[c].pc = "idle"
  /\ x # None => context[x] # None
  /\ LET seen == Seen(x, later)
     IN  \/ Refuse(c, f, seen) \/ Execute(c, f, seen)
         \/ Revalidate(c, f, seen) \/ Invalidate(c, f, seen)
  /\ UNCHANGED <<asyncStore, context, flight, entries, source>>

(* The promises of these calls settle, and with them whoever they answer.  *)
Answered(settled, pc, value) ==
  [c \in Calls |->
     IF c \in settled \/ (call[c].pc = "memo" /\ call[c].from \in settled)
     THEN [call[c] EXCEPT !.pc = pc, !.value = value] ELSE call[c]]

DroppedByKey(rejected) ==
  [m \in Caches |-> [k \in Keys |->
     IF \E c \in rejected : call[c].cache = m /\ call[c].key = k
     THEN None ELSE memo[m][k]]]

(* A rejected promise leaves the memo, unless another took its place. *)
Dropped(rejected) ==
  [m \in Caches |-> [k \in Keys |->
     IF memo[m][k] \in rejected THEN None ELSE memo[m][k]]]

(* resolveWithCache, or the read of forceRecompute, and the head of        *)
(* refresh: join the computation of the key, or begin one.                 *)
Read(c) ==
  LET key == call[c].key
      entry == entries[key]
  IN  /\ call[c].pc = "read"
      /\ IF entry # None /\ call[c].op = "call"
         THEN call' = Answered({c}, "done", entry) /\ UNCHANGED flight
         ELSE /\ call' = [call EXCEPT ![c].pc = "wait"]
              /\ flight' = IF flight[key] # None THEN flight
                           ELSE [flight EXCEPT ![key] =
                                   [pc |-> "source", leader |-> c,
                                    observed |-> entry, value |-> None]]
      /\ UNCHANGED <<asyncStore, context, memo, entries, source>>

(* The source answers for the call that began the computation. *)
ReadSource(k) ==
  /\ flight[k] # None /\ flight[k].pc = "source"
  /\ LET leader == call[flight[k].leader]
     IN  flight' = [flight EXCEPT ![k].pc = "write",
           ![k].value = [fn |-> leader.fn, user |-> leader.user,
                         tenant |-> leader.tenant, at |-> source]]
  /\ UNCHANGED <<asyncStore, context, memo, call, entries, source>>

Waiting(k) == {c \in Calls : call[c].pc = "wait" /\ call[c].key = k}

(* writeEntry by compareAndSet, which refuses when the entry is another    *)
(* one by now; the computation settles either way.                         *)
EndFlight(k) ==
  /\ flight[k] # None /\ flight[k].pc = "write"
  /\ entries' = IF entries[k] = flight[k].observed
                THEN [entries EXCEPT ![k] = flight[k].value] ELSE entries
  /\ call' = Answered(Waiting(k), "done", flight[k].value)
  /\ flight' = [flight EXCEPT ![k] = None]
  /\ UNCHANGED <<asyncStore, context, memo, source>>

FailFlightKept(k) ==
  /\ flight[k] # None /\ flight[k].pc = "source"
  /\ call' = Answered(Waiting(k), "failed", None)
  /\ memo' = Dropped(Waiting(k))
  /\ UNCHANGED <<asyncStore, context, flight, entries, source>>

FailFlight(k) ==
  /\ flight[k] # None /\ flight[k].pc = "source"
  /\ call' = Answered(Waiting(k), "failed", None)
  /\ memo' = Dropped(Waiting(k))
  /\ flight' = [flight EXCEPT ![k] = None]
  /\ UNCHANGED <<asyncStore, context, entries, source>>

Delete(c) ==
  /\ call[c].pc = "delete"
  /\ entries' = [entries EXCEPT ![call[c].key] = None]
  /\ call' = Answered({c}, "done", None)
  /\ UNCHANGED <<asyncStore, context, memo, flight, source>>

(* What the functions read changes. *)
Mutate ==
  /\ source < MaxSource
  /\ source' = source + 1
  /\ UNCHANGED <<asyncStore, context, memo, call, flight, entries>>

Next ==
  \/ LoadAsyncStore \/ Mutate
  \/ \E x \in Contexts, later \in BOOLEAN : WithCacheContext(x, later)
  \/ \E c \in Calls :
       \/ \E f \in Functions, x \in Contexts \union {None}, later \in BOOLEAN :
            Use(c, f, x, later)
       \/ Read(c) \/ Delete(c)
  \/ \E k \in Keys : ReadSource(k) \/ EndFlight(k) \/ FailFlight(k)

Spec == Init /\ [][Next]_vars

-----------------------------------------------------------------------------
(* Properties *)

(* One context names only a user, the other only a tenant, by one id. *)
Confused(u, t, v, s) ==
  \/ t = None /\ v = None /\ u = s
  \/ u = None /\ s = None /\ t = v

(* Whatever was memoized, joined or cached by whom, in whichever context   *)
(* and on whichever side of an await: a call returns what its own function *)
(* computed, and one without a scope of its own what was computed for the  *)
(* user and tenant it was made for (runtime.ts:891); a private one always  *)
(* has either.  The one collision is the code's: the id of an ambient user *)
(* without a tenant stands where that of a tenant would (runtime.ts:893).  *)
ServedOwnData ==
  \A c \in Calls :
    LET own == call[c]
        value == own.value
    IN  (own.pc = "done" /\ value # None) =>
          /\ value.fn = own.fn
          /\ FunctionOf[own.fn].scope = <<>> =>
               /\ \/ value.user = own.user /\ value.tenant = own.tenant
                  \/ Confused(own.user, own.tenant, value.user, value.tenant)
               /\ FunctionOf[own.fn].private =>
                    own.user # None \/ own.tenant # None

(* The evictions a call came after, or among. *)
Evicted(c) == call[c].after \union call[c].during

(* c runs a memoized call of this key in this request, itself. *)
Runs(c, m, k) ==
  /\ call[c].op = "call" /\ call[c].cache = m /\ call[c].key = k
  /\ call[c].from = c /\ FunctionOf[call[c].fn].memo

(* A request resolves a key once, and keeps the promise while it is        *)
(* pending and after it succeeded, until a revalidation or an invalidation *)
(* of the key evicts it (context.ts:38: "failed promises are dropped ...   *)
(* while a pending promise is always shared"): a rejected one never stays, *)
(* and takes no other one with it.                                         *)
MemoExact ==
  \A m \in Caches, k \in Keys :
    /\ memo[m][k] # None =>
         Runs(memo[m][k], m, k) /\ call[memo[m][k]].pc # "failed"
    /\ \A c \in Calls :
         /\ Runs(c, m, k)
         /\ call[c].pc # "failed"
         /\ \A e \in Calls : (/\ call[e].op # "call" /\ call[e].pc # "idle"
                             /\ call[e].cache = m /\ call[e].key = k)
                              => e \in Evicted(c)
         => memo[m][k] = c

(* Once revalidate() of a cached function has resolved, no later call in   *)
(* that request is answered from what the request had memoized before it,  *)
(* nor with an older value than the one revalidate() returned - save for   *)
(* one memoized while it was under way (runtime.ts:1266 evicts at its      *)
(* start only).                                                            *)
RevalidateSeen ==
  \A c \in Calls : \A r \in call[c].after :
    (/\ call[c].op = "call" /\ call[c].pc = "done"
     /\ call[r].op = "revalidate" /\ call[r].pc = "done") =>
      LET answerer == call[call[c].from]
      IN  \/ r \in answerer.during
          \/ r \in answerer.after /\ call[c].value.at >= call[r].value.at
=============================================================================
