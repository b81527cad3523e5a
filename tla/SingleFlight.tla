---------------------------- MODULE SingleFlight ----------------------------
(***************************************************************************)
(* In-process request coalescing, src/single-flight.ts.                    *)
(*                                                                         *)
(* A call of run(key, factory) either creates the FlightRecord of its key  *)
(* or joins the one already registered; every joined call holds one unit   *)
(* of the record's `consumers` count until the computation settles or the  *)
(* call's own signal aborts.  A call made by a background revalidation is  *)
(* keepAlive and is also tracked, so that settle() waits for it.           *)
(*                                                                         *)
(* A step is one macro- or microtask of the event loop: what the code does *)
(* between two awaits happens at once, and the handlers of a settled       *)
(* promise run in later steps of their own.                                *)
(***************************************************************************)
EXTENDS Integers, FiniteSets

CONSTANTS Keys,      \* cache keys
          Calls,     \* calls of run(), each made at most once
          NoFlight   \* the key has no registered flight, the call none yet

ASSUME FlightAssumption == NoFlight \notin Calls
ASSUME KeyAssumption == Keys # {}
ASSUME FiniteAssumption == IsFiniteSet(Calls)

VARIABLES registry,   \* the Map `flights`: key -> registered record
          flight,     \* every FlightRecord, registered or not
          call,       \* every call of run()
          background, \* the Set `background` of tracked calls
          settler     \* one caller of settle(), and what it awaits

vars == <<registry, flight, call, background, settler>>

-----------------------------------------------------------------------------
(* A record's promise goes through: scheduled (Promise.resolve().then),    *)
(* running (inside the factory), finished (the factory's promise settled,  *)
(* `finally` not run yet), settled.  `cleared` is history: clear() has     *)
(* dropped the record from the map.                                        *)

(* A record is named after the call that creates it.                       *)

Flights == Calls
Outcomes == {"value", "error"}
Unsettled == {"scheduled", "running", "finished"}
FlightPhases == {"unborn", "settled"} \union Unsettled

FlightRecord == [phase : FlightPhases, key : Keys, consumers : Nat,
                 keepAlive : BOOLEAN, aborted : BOOLEAN,
                 outcome : Outcomes, cleared : BOOLEAN]

(* `plain` runs without a signal, `signal` with the request's own signal,  *)
(* `background` with keepAlive.  A call is waiting while its release() has *)
(* not run; a call with a signal goes through `released` before the outer  *)
(* promise resolves.  `gone` says that its request's signal has aborted.   *)
Modes == {"plain", "signal", "background"}
CallPhases == {"idle", "waiting", "released", "aborted"} \union Outcomes

CallRecord == [phase : CallPhases, mode : Modes, gone : BOOLEAN,
               flight : Flights \union {NoFlight}]

Waiting(f) == {c \in Calls : call[c].phase = "waiting" /\ call[c].flight = f}

Returned(c) == call[c].phase \in Outcomes \union {"aborted"}

TypeOK ==
  /\ registry \in [Keys -> Flights \union {NoFlight}]
  /\ flight \in [Flights -> FlightRecord]
  /\ call \in [Calls -> CallRecord]
  /\ background \in SUBSET Calls
  /\ settler \in [phase : {"idle", "waiting", "done"},
                  flights : SUBSET Flights, tasks : SUBSET Calls]

Init ==
  /\ registry = [k \in Keys |-> NoFlight]
  /\ flight = [f \in Flights |->
                 [phase |-> "unborn", key |-> CHOOSE k \in Keys : TRUE,
                  consumers |-> 0, keepAlive |-> FALSE, aborted |-> FALSE,
                  outcome |-> "value", cleared |-> FALSE]]
  /\ call = [c \in Calls |-> [phase |-> "idle", mode |-> "plain",
                              gone |-> FALSE, flight |-> NoFlight]]
  /\ background = {}
  /\ settler = [phase |-> "idle", flights |-> {}, tasks |-> {}]

-----------------------------------------------------------------------------
(* run() *)

(* The record a new flight starts with, its first consumer attached. *)
Created(k, keepAlive) ==
  [phase |-> "scheduled", key |-> k, consumers |-> 1, keepAlive |-> keepAlive,
   aborted |-> FALSE, outcome |-> "value", cleared |-> FALSE]

JoinedUncounted(record, keepAlive) ==
  [record EXCEPT !.keepAlive = @ \/ keepAlive]

(* What joining does to a record: keepAlive is sticky. *)
Joined(record, keepAlive) ==
  [record EXCEPT !.consumers = @ + 1, !.keepAlive = @ \/ keepAlive]

Attach(c, f, mode) ==
  call' = [call EXCEPT ![c].phase = "waiting", ![c].mode = mode,
                       ![c].flight = f]

(* startBackgroundRefresh hands the refresh to track() in the same step. *)
Track(c, mode) ==
  background' = IF mode = "background" THEN background \union {c}
                                       ELSE background

MayRun(c, mode) ==
  /\ call[c].phase = "idle"
  /\ mode = "signal" => ~call[c].gone

StartFlight(c, k, mode) ==
  /\ MayRun(c, mode)
  /\ registry[k] = NoFlight
  /\ flight' = [flight EXCEPT ![c] = Created(k, mode = "background")]
  /\ registry' = [registry EXCEPT ![k] = c]
  /\ Attach(c, c, mode)
  /\ Track(c, mode)
  /\ UNCHANGED settler

JoinFlight(c, k, mode) ==
  /\ MayRun(c, mode)
  /\ registry[k] # NoFlight
  /\ LET f == registry[k]
     IN  /\ flight' = [flight EXCEPT ![f] = Joined(@, mode = "background")]
         /\ Attach(c, f, mode)
  /\ Track(c, mode)
  /\ UNCHANGED <<registry, settler>>

(* A request that is already cancelled is rejected before it joins. *)
RejectRun(c) ==
  /\ call[c].phase = "idle"
  /\ call[c].gone
  /\ call' = [call EXCEPT ![c].phase = "aborted", ![c].mode = "signal"]
  /\ UNCHANGED <<registry, flight, background, settler>>

-----------------------------------------------------------------------------
(* release() *)

ReleasedIgnoringOthers(record) ==
  [record EXCEPT !.consumers = @ - 1,
                 !.aborted = @ \/ (~record.keepAlive
                                   /\ record.phase # "settled")]

ReleasedTwice(record) ==
  [record EXCEPT !.consumers = @ - 2,
                 !.aborted = @ \/ (/\ record.consumers <= 2
                                   /\ ~record.keepAlive
                                   /\ record.phase # "settled")]

(* The record after release() of one of its consumers. *)
Released(record) ==
  LET left == record.consumers - 1
  IN  [record EXCEPT
         !.consumers = left,
         !.aborted = @ \/ (/\ left <= 0
                           /\ ~record.keepAlive
                           /\ record.phase # "settled")]

(* The request's signal aborts.  The listeners of a waiting call release   *)
(* it and reject its promise; a call already released is only rejected.  A *)
(* signal shared by several calls runs their listeners one after another.  *)
CancelWaiting(c) ==
  /\ call[c].phase = "waiting"
  /\ call[c].mode = "signal"
  /\ call' = [call EXCEPT ![c].phase = "aborted", ![c].gone = TRUE]
  /\ flight' = [flight EXCEPT ![call[c].flight] = Released(@)]
  /\ UNCHANGED <<registry, background, settler>>

CancelReleased(c) ==
  /\ call[c].phase = "released"
  /\ call' = [call EXCEPT ![c].phase = "aborted", ![c].gone = TRUE]
  /\ UNCHANGED <<registry, flight, background, settler>>

CancelIdle(c) ==
  /\ call[c].phase = "idle"
  /\ ~call[c].gone
  /\ call' = [call EXCEPT ![c].gone = TRUE]
  /\ UNCHANGED <<registry, flight, background, settler>>

(* The shared promise settled: the call releases and hands the outcome on. *)
Deliver(c) ==
  /\ call[c].phase = "waiting"
  /\ LET f == call[c].flight
     IN  /\ flight[f].phase = "settled"
         /\ flight' = [flight EXCEPT ![f] = Released(@)]
         /\ call' = [call EXCEPT ![c].phase = IF call[c].mode = "signal"
                                              THEN "released"
                                              ELSE flight[f].outcome]
  /\ UNCHANGED <<registry, background, settler>>

Resolve(c) ==
  /\ call[c].phase = "released"
  /\ call' = [call EXCEPT ![c].phase = flight[call[c].flight].outcome]
  /\ UNCHANGED <<registry, flight, background, settler>>

-----------------------------------------------------------------------------
(* The shared computation *)

StartFactoryUnlessAborted(f) ==
  /\ flight[f].phase = "scheduled"
  /\ ~flight[f].aborted
  /\ flight' = [flight EXCEPT ![f].phase = "running"]
  /\ UNCHANGED <<registry, call, background, settler>>

StartFactory(f) ==
  /\ flight[f].phase = "scheduled"
  /\ flight' = [flight EXCEPT ![f].phase = "running"]
  /\ UNCHANGED <<registry, call, background, settler>>

(* The factory's promise settles, aborted or not: it may ignore the signal. *)
FinishFactory(f) ==
  /\ flight[f].phase = "running"
  /\ \E o \in Outcomes :
       flight' = [flight EXCEPT ![f].phase = "finished", ![f].outcome = o]
  /\ UNCHANGED <<registry, call, background, settler>>

ForgottenByKey(f) == [registry EXCEPT ![flight[f].key] = NoFlight]

NeverForgotten(f) == registry

(* The map forgets a record only while it is the one registered. *)
Forgotten(f) ==
  IF registry[flight[f].key] = f
  THEN [registry EXCEPT ![flight[f].key] = NoFlight]
  ELSE registry

Finally(f) ==
  /\ flight[f].phase = "finished"
  /\ flight' = [flight EXCEPT ![f].phase = "settled"]
  /\ registry' = Forgotten(f)
  /\ UNCHANGED <<call, background, settler>>

-----------------------------------------------------------------------------
(* track(), settle() and clear() *)

Untrack(c) ==
  /\ c \in background
  /\ Returned(c)
  /\ background' = background \ {c}
  /\ UNCHANGED <<registry, flight, call, settler>>

Registered == {f \in Flights : \E k \in Keys : registry[k] = f}

AwaitSnapshotOnce ==
  settler' = IF settler.phase = "waiting" \/ Registered = {}
             THEN [settler EXCEPT !.phase = "done"]
             ELSE [phase |-> "waiting", flights |-> Registered,
                   tasks |-> background]

(* The head of settle()'s loop: return, or await a snapshot of the work. *)
AwaitSnapshot ==
  settler' = IF Registered = {} /\ background = {}
             THEN [settler EXCEPT !.phase = "done"]
             ELSE [phase |-> "waiting", flights |-> Registered,
                   tasks |-> background]

Settle ==
  /\ settler.phase = "idle"
  /\ AwaitSnapshot
  /\ UNCHANGED <<registry, flight, call, background>>

SnapshotSettled ==
  /\ \A f \in settler.flights : flight[f].phase = "settled"
  /\ \A c \in settler.tasks : Returned(c)

SettleWakes ==
  /\ settler.phase = "waiting"
  /\ SnapshotSettled
  /\ AwaitSnapshot
  /\ UNCHANGED <<registry, flight, call, background>>

(* dispose() clears the map under computations that still run.  A second   *)
(* clear() of the same records changes nothing.                            *)
Clear ==
  /\ Registered # {} \/ background # {}
  /\ flight' = [f \in Flights |->
                  IF f \in Registered
                  THEN [flight[f] EXCEPT !.aborted = TRUE, !.cleared = TRUE]
                  ELSE flight[f]]
  /\ registry' = [k \in Keys |-> NoFlight]
  /\ background' = {}
  /\ UNCHANGED <<call, settler>>

-----------------------------------------------------------------------------
CallStep(c) ==
  \/ \E k \in Keys, mode \in Modes : StartFlight(c, k, mode)
  \/ \E k \in Keys, mode \in Modes : JoinFlight(c, k, mode)
  \/ RejectRun(c)
  \/ CancelWaiting(c)
  \/ CancelReleased(c)
  \/ CancelIdle(c)
  \/ Deliver(c)
  \/ Resolve(c)
  \/ Untrack(c)

FlightStep(f) == StartFactory(f) \/ FinishFactory(f) \/ Finally(f)

Next ==
  \/ \E c \in Calls : CallStep(c)
  \/ \E f \in Flights : FlightStep(f)
  \/ Settle
  \/ SettleWakes
  \/ Clear

Spec == Init /\ [][Next]_vars

(* The event loop runs every queued reaction, and a source settles.        *)
Fairness ==
  /\ \A f \in Flights : WF_vars(FlightStep(f))
  /\ \A c \in Calls : WF_vars(Deliver(c)) /\ WF_vars(Resolve(c))
                                          /\ WF_vars(Untrack(c))
  /\ WF_vars(SettleWakes)

FairSpec == Spec /\ Fairness

-----------------------------------------------------------------------------
(* Properties *)

(* The consumers of a record are exactly the joined calls that have not    *)
(* released it: no call releases twice, through its signal's listener and  *)
(* through the settled promise, and none is forgotten (attachConsumer).    *)
ConsumersCounted ==
  \A f \in Flights : flight[f].consumers = Cardinality(Waiting(f))

(* Coalescing: two computations of one key that are both under way are one *)
(* and the same, unless clear() dropped a record while it was running.     *)
OneFlightPerKey ==
  \A f, g \in Flights :
    (/\ flight[f].phase \in Unsettled /\ ~flight[f].cleared
     /\ flight[g].phase \in Unsettled /\ ~flight[g].cleared
     /\ flight[f].key = flight[g].key)
    => f = g

(* The registry and the records agree: a computation under way that clear()*)
(* did not drop is the one the next call of its key joins, and a settled   *)
(* one is never joined (the identity check in `finally`).                  *)
RegistryExact ==
  \A f \in Flights :
    (registry[flight[f].key] = f)
    <=> (flight[f].phase \in Unsettled /\ ~flight[f].cleared)

(* A shared computation is aborted only by the step after which no call    *)
(* waits for it and no background revalidation has joined it, or by        *)
(* clear(); never once it has settled (lines 10-14 of the source).         *)
AbortOnlyWhenAbandoned ==
  [][\A f \in Flights :
       (~flight[f].aborted /\ flight[f].aborted') =>
         \/ ~flight[f].cleared /\ flight[f].cleared'
         \/ /\ Waiting(f)' = {}
            /\ flight[f].phase # "settled"
            /\ \A c \in Calls : call[c].flight = f =>
                                    call[c].mode # "background"]_vars

(* settle() returns only when every computation is over, those that began *)
(* while it waited included, except the ones that clear() made it forget.  *)
SettleWaitsForAll ==
  [][(settler.phase # "done" /\ settler'.phase = "done") =>
       \A f \in Flights : flight[f].phase \in Unsettled
                           => flight[f].cleared]_vars

(* No call is left hanging: each one that joined a flight returns.         *)
EveryCallReturns ==
  \A c \in Calls : (call[c].phase = "waiting") ~> Returned(c)

(* settle() returns, however many flights start while it waits.            *)
SettleReturns == (settler.phase = "waiting") ~> (settler.phase = "done")
=============================================================================
