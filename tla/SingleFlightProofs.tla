------------------------- MODULE SingleFlightProofs -------------------------
(* Coalescing and the consumers' count of SingleFlight, proved for every   *)
(* set of keys and every finite set of calls.                              *)
EXTENDS SingleFlight, FiniteSetTheorems, TLAPS

(* What ties calls to records: a call that has not run has no record, one  *)
(* that joined waits on a record that exists, and a key's registered       *)
(* record is a record of that key.                                         *)
CallsConsistent ==
  /\ \A c \in Calls : call[c].phase = "idle" =>
                        call[c].flight = NoFlight /\ flight[c].phase = "unborn"
  /\ \A c \in Calls : call[c].phase \in {"waiting", "released"} =>
                        /\ call[c].flight \in Flights
                        /\ flight[call[c].flight].phase # "unborn"
  /\ \A k \in Keys : registry[k] # NoFlight => flight[registry[k]].key = k

IInv == TypeOK /\ ConsumersCounted /\ RegistryExact /\ CallsConsistent

-----------------------------------------------------------------------------
(* Counting the consumers of a record *)

(* Who waits on a record is a finite set of calls, so it can be counted.   *)
LEMMA WaitingFinite ==
  ASSUME NEW f PROVE IsFiniteSet(Waiting(f)) /\ Cardinality(Waiting(f)) \in Nat
<1>1. Waiting(f) \in SUBSET Calls  BY DEF Waiting
<1> QED  BY <1>1, FS_Subset, FS_CardinalityType, FiniteAssumption

(* A step that touches neither who waits nor the counts keeps them equal.  *)
LEMMA CountKept ==
  ASSUME ConsumersCounted,
         \A f \in Flights : /\ Waiting(f)' = Waiting(f)
                            /\ flight'[f].consumers = flight[f].consumers
  PROVE  ConsumersCounted'
BY DEF ConsumersCounted

(* One call joins record g, and g counts one consumer more.                *)
LEMMA CountUp ==
  ASSUME ConsumersCounted, NEW g \in Flights, NEW c, c \notin Waiting(g),
         Waiting(g)' = Waiting(g) \union {c},
         flight'[g].consumers = flight[g].consumers + 1,
         \A f \in Flights \ {g} :
           /\ Waiting(f)' = Waiting(f)
           /\ flight'[f].consumers = flight[f].consumers
  PROVE  ConsumersCounted'
<1>1. Cardinality(Waiting(g) \union {c}) = Cardinality(Waiting(g)) + 1
  BY WaitingFinite, FS_AddElement
<1> QED  BY <1>1 DEF ConsumersCounted

(* One call leaves record g, which counted it.                             *)
LEMMA CountDown ==
  ASSUME ConsumersCounted, NEW g \in Flights, NEW c \in Waiting(g),
         Waiting(g)' = Waiting(g) \ {c},
         flight'[g].consumers = flight[g].consumers - 1,
         \A f \in Flights \ {g} :
           /\ Waiting(f)' = Waiting(f)
           /\ flight'[f].consumers = flight[f].consumers
  PROVE  ConsumersCounted' /\ flight[g].consumers - 1 \in Nat
<1>1. Cardinality(Waiting(g) \ {c}) = Cardinality(Waiting(g)) - 1
  BY WaitingFinite, FS_RemoveElement
<1>2. IsFiniteSet(Waiting(g) \ {c})
  BY WaitingFinite, FS_RemoveElement
<1>3. Cardinality(Waiting(g) \ {c}) \in Nat
  BY <1>2, FS_CardinalityType
<1> QED  BY <1>1, <1>3 DEF ConsumersCounted

-----------------------------------------------------------------------------
(* What joining and releasing do to a record *)

(* Replacing one FlightRecord by another keeps the records well typed.     *)
LEMMA RecordUpdate ==
  ASSUME NEW r \in FlightRecord, NEW n \in Nat, NEW b \in BOOLEAN
  PROVE  [r EXCEPT !.consumers = n, !.keepAlive = b] \in FlightRecord
BY DEF FlightRecord

(* Replacing one CallRecord by another keeps the calls well typed.         *)
LEMMA CallUpdate ==
  ASSUME NEW r \in CallRecord, NEW p \in CallPhases, NEW b \in BOOLEAN
  PROVE  [r EXCEPT !.phase = p, !.gone = b] \in CallRecord
BY DEF CallRecord

(* What joining does to a record, field by field (run, lines 82-86).       *)
LEMMA JoinedRecord ==
  ASSUME NEW r \in FlightRecord, NEW b \in BOOLEAN
  PROVE  /\ Joined(r, b) \in FlightRecord
         /\ Joined(r, b).phase = r.phase
         /\ Joined(r, b).key = r.key
         /\ Joined(r, b).cleared = r.cleared
         /\ Joined(r, b).consumers = r.consumers + 1
<1> DEFINE n == r.consumers + 1
           e == r.keepAlive \/ b
<1>1. n \in Nat /\ e \in BOOLEAN  BY DEF FlightRecord
<1>2. Joined(r, b) = [r EXCEPT !.consumers = n, !.keepAlive = e]  BY DEF Joined
<1>3. Joined(r, b) \in FlightRecord
  <2> HIDE DEF n, e
  <2> QED  BY <1>1, <1>2, RecordUpdate
<1> QED  BY <1>3 DEF FlightRecord, Joined

(* What release() does to a record, field by field (lines 127-136).        *)
LEMMA ReleasedRecord ==
  ASSUME NEW r \in FlightRecord
  PROVE  /\ Released(r).phase = r.phase
         /\ Released(r).key = r.key
         /\ Released(r).cleared = r.cleared
         /\ Released(r).consumers = r.consumers - 1
         /\ r.consumers - 1 \in Nat => Released(r) \in FlightRecord
BY DEF FlightRecord, Released

-----------------------------------------------------------------------------
(* The inductive invariant holds before any call.                          *)
LEMMA InitInv == Init => IInv
<1> SUFFICES ASSUME Init PROVE IInv  OBVIOUS
<1>1. \A f \in Flights : Waiting(f) = {}
  BY DEF Init, Waiting, Flights
<1>2. ConsumersCounted
  BY <1>1, FS_EmptySet DEF Init, ConsumersCounted, Flights
<1>3. TypeOK
  BY KeyAssumption DEF Init, TypeOK, FlightRecord, CallRecord, FlightPhases, CallPhases,
     Outcomes, Unsettled, Modes, Flights
<1>4. RegistryExact
  BY FlightAssumption, KeyAssumption DEF Init, RegistryExact, Flights, Unsettled
<1>5. CallsConsistent
  BY DEF Init, CallsConsistent, Flights
<1> QED  BY <1>2, <1>3, <1>4, <1>5 DEF IInv

(* A call that creates the record of its key is its first consumer.        *)
LEMMA StartFlightInv ==
  ASSUME IInv, NEW c \in Calls, NEW k \in Keys, NEW mode \in Modes,
         StartFlight(c, k, mode)
  PROVE  IInv'
<1> USE FlightAssumption DEF Flights
<1>1. /\ call[c].phase = "idle" /\ call[c].flight = NoFlight
      /\ flight[c].phase = "unborn" /\ registry[k] = NoFlight
      /\ flight' = [flight EXCEPT ![c] = Created(k, mode = "background")]
      /\ registry' = [registry EXCEPT ![k] = c]
      /\ call' = [call EXCEPT ![c].phase = "waiting", ![c].mode = mode,
                              ![c].flight = c]
      /\ background' \in {background, background \union {c}}
      /\ settler' = settler
  BY DEF StartFlight, MayRun, Attach, Track, IInv, CallsConsistent
<1>2. TypeOK'
  BY <1>1 DEF IInv, TypeOK, Created, FlightRecord, CallRecord, FlightPhases,
     CallPhases, Outcomes, Unsettled, Modes
<1>3. Waiting(c) = {}
  <2>1. ASSUME NEW d \in Waiting(c) PROVE FALSE
    BY <1>1, <2>1 DEF IInv, CallsConsistent, Waiting
  <2> QED  BY <2>1
<1>4. ConsumersCounted'
  <2>1. Waiting(c)' = {c}
    BY <1>1, <1>3 DEF Waiting, IInv, TypeOK, CallRecord
  <2>2. \A f \in Calls \ {c} : /\ Waiting(f)' = Waiting(f)
                               /\ flight'[f].consumers = flight[f].consumers
    BY <1>1 DEF Waiting, IInv, TypeOK, CallRecord
  <2>3. flight'[c].consumers = 1
    BY <1>1 DEF IInv, TypeOK, Created
  <2>4. Cardinality({c}) = 1  BY FS_Singleton
  <2> QED  BY <2>1, <2>2, <2>3, <2>4 DEF ConsumersCounted, IInv
<1>5. RegistryExact'
  BY <1>1 DEF IInv, TypeOK, FlightRecord, CallsConsistent, RegistryExact, Created, Unsettled
<1>6. CallsConsistent'
  BY <1>1 DEF IInv, TypeOK, FlightRecord, CallRecord, CallsConsistent, RegistryExact,
     Created, Unsettled
<1> QED  BY <1>2, <1>4, <1>5, <1>6 DEF IInv

(* A call that joins the registered record adds one consumer.              *)
LEMMA JoinFlightInv ==
  ASSUME IInv, NEW c \in Calls, NEW k \in Keys, NEW mode \in Modes,
         JoinFlight(c, k, mode)
  PROVE  IInv'
<1> USE FlightAssumption DEF Flights
<1> PICK g \in {registry[k]} : TRUE  OBVIOUS
<1>1. /\ call[c].phase = "idle" /\ call[c].flight = NoFlight
      /\ flight[c].phase = "unborn"
      /\ g = registry[k] /\ g \in Calls /\ flight[g].key = k
      /\ flight' = [flight EXCEPT ![g] = Joined(@, mode = "background")]
      /\ call' = [call EXCEPT ![c].phase = "waiting", ![c].mode = mode,
                              ![c].flight = g]
      /\ background' \in {background, background \union {c}}
      /\ settler' = settler /\ registry' = registry
  BY DEF JoinFlight, MayRun, Attach, Track, IInv, CallsConsistent, TypeOK
<1>2. flight[g].phase \in Unsettled
  BY <1>1 DEF IInv, RegistryExact
<1>3. /\ flight'[g] \in FlightRecord
      /\ flight'[g].phase = flight[g].phase
      /\ flight'[g].key = flight[g].key
      /\ flight'[g].cleared = flight[g].cleared
      /\ flight'[g].consumers = flight[g].consumers + 1
      /\ \A f \in Calls \ {g} : flight'[f] = flight[f]
  <2>1. flight[g] \in FlightRecord /\ (mode = "background") \in BOOLEAN
    BY <1>1 DEF IInv, TypeOK
  <2>2. flight'[g] = Joined(flight[g], mode = "background")
    BY <1>1 DEF IInv, TypeOK
  <2>3. \A f \in Calls \ {g} : flight'[f] = flight[f]
    BY <1>1 DEF IInv, TypeOK
  <2> QED  BY <2>1, <2>2, <2>3, JoinedRecord
<1>4. TypeOK'
  <2>1. flight' \in [Flights -> FlightRecord]
    BY <1>1, <1>3 DEF IInv, TypeOK
  <2> QED  BY <1>1, <2>1 DEF IInv, TypeOK, CallRecord, CallPhases, Modes
<1>5. ConsumersCounted'
  <2>1. c \notin Waiting(g)  BY <1>1 DEF Waiting
  <2>2. Waiting(g)' = Waiting(g) \union {c}
    BY <1>1 DEF Waiting, IInv, TypeOK, CallRecord
  <2>3. \A f \in Calls \ {g} : /\ Waiting(f)' = Waiting(f)
                               /\ flight'[f].consumers = flight[f].consumers
    BY <1>1, <1>3 DEF Waiting, IInv, TypeOK, CallRecord
  <2> QED  BY <1>1, <1>3, <2>1, <2>2, <2>3, CountUp DEF IInv
<1>6. \A f \in Calls : /\ flight'[f].phase = flight[f].phase
                       /\ flight'[f].key = flight[f].key
                       /\ flight'[f].cleared = flight[f].cleared
  BY <1>3
<1>7. RegistryExact'
  BY <1>1, <1>6 DEF IInv, TypeOK, RegistryExact
<1>8. CallsConsistent'
  BY <1>1, <1>2, <1>6 DEF IInv, TypeOK, CallRecord, CallsConsistent, Unsettled
<1> QED  BY <1>4, <1>5, <1>7, <1>8 DEF IInv

(* CancelWaiting and Deliver: a waiting call releases its record.          *)
LEMMA ReleaseInv ==
  ASSUME IInv, NEW c \in Calls, call[c].phase = "waiting",
         NEW after \in CallPhases \ {"idle", "waiting"}, NEW gone \in BOOLEAN,
         call' = [call EXCEPT ![c].phase = after, ![c].gone = gone],
         flight' = [flight EXCEPT ![call[c].flight] = Released(@)],
         registry' = registry, background' = background, settler' = settler
  PROVE  IInv'
<1> USE FlightAssumption DEF Flights
<1> PICK g \in {call[c].flight} : TRUE  OBVIOUS
<1>1. g = call[c].flight /\ g \in Calls /\ c \in Waiting(g)
  BY DEF IInv, CallsConsistent, Waiting
<1>2. flight' = [flight EXCEPT ![g] = Released(@)]  BY <1>1
<1>3. /\ flight'[g] = Released(flight[g])
      /\ flight'[g].phase = flight[g].phase
      /\ flight'[g].key = flight[g].key
      /\ flight'[g].cleared = flight[g].cleared
      /\ flight'[g].consumers = flight[g].consumers - 1
      /\ flight[g].consumers - 1 \in Nat => flight'[g] \in FlightRecord
  BY <1>1, <1>2, ReleasedRecord DEF IInv, TypeOK
<1>4. \A f \in Calls \ {g} : flight'[f] = flight[f]
  BY <1>1, <1>2 DEF IInv, TypeOK
<1>5. ConsumersCounted' /\ flight[g].consumers - 1 \in Nat
  <2>1. Waiting(g)' = Waiting(g) \ {c}
    BY <1>1 DEF Waiting, IInv, TypeOK, CallRecord, CallPhases
  <2>2. \A f \in Calls \ {g} : Waiting(f)' = Waiting(f)
    BY <1>1 DEF Waiting, IInv, TypeOK, CallRecord, CallPhases
  <2> QED  BY <1>1, <1>3, <1>4, <2>1, <2>2, CountDown DEF IInv
<1>6. TypeOK'
  <2>1. flight' \in [Flights -> FlightRecord]
    BY <1>2, <1>3, <1>5 DEF IInv, TypeOK
  <2>2. [call[c] EXCEPT !.phase = after, !.gone = gone] \in CallRecord
    BY CallUpdate DEF IInv, TypeOK
  <2>3. call' = [call EXCEPT ![c] = [call[c] EXCEPT !.phase = after, !.gone = gone]]
    BY DEF IInv, TypeOK, CallRecord
  <2>4. call' \in [Calls -> CallRecord]
    BY <2>2, <2>3 DEF IInv, TypeOK
  <2> QED  BY <2>1, <2>4 DEF IInv, TypeOK
<1>7. \A f \in Calls : /\ flight'[f].phase = flight[f].phase
                       /\ flight'[f].key = flight[f].key
                       /\ flight'[f].cleared = flight[f].cleared
  BY <1>3, <1>4
<1>8. RegistryExact'
  BY <1>7 DEF IInv, TypeOK, RegistryExact
<1>9. CallsConsistent'
  BY <1>7 DEF IInv, TypeOK, CallRecord, CallsConsistent
<1> QED  BY <1>5, <1>6, <1>8, <1>9 DEF IInv

(* RejectRun, CancelReleased, CancelIdle and Resolve: only one call moves, *)
(* to or from a phase in which it holds no consumer.                       *)
LEMMA CallMovesInv ==
  ASSUME IInv, NEW c \in Calls, call[c].phase \in {"idle", "released"},
         NEW after \in CallRecord,
         call' = [call EXCEPT ![c] = after],
         after.flight = call[c].flight,
         after.phase \in {"aborted", "value", "error"} \/ after.phase = call[c].phase,
         UNCHANGED <<registry, flight, background, settler>>
  PROVE  IInv'
<1> USE FlightAssumption DEF Flights
<1>1. TypeOK'
  BY DEF IInv, TypeOK
<1>2. \A f \in Calls : Waiting(f)' = Waiting(f)
  BY DEF Waiting, IInv, TypeOK
<1>3. ConsumersCounted'
  BY <1>2, CountKept DEF IInv
<1>4. RegistryExact' /\ CallsConsistent'
  BY DEF IInv, TypeOK, CallRecord, RegistryExact, CallsConsistent
<1> QED  BY <1>1, <1>3, <1>4 DEF IInv

(* The computation runs and settles; `finally` unregisters its record.     *)
LEMMA FlightStepInv ==
  ASSUME IInv, NEW g \in Flights, FlightStep(g)
  PROVE  IInv'
<1> USE FlightAssumption DEF Flights
<1>1. UNCHANGED <<call, background, settler>>
  BY DEF FlightStep, StartFactory, FinishFactory, Finally
<1>2. \A f \in Calls : Waiting(f)' = Waiting(f)
  BY <1>1 DEF Waiting
<1>3. CASE StartFactory(g) \/ FinishFactory(g)
  <2>1. /\ registry' = registry
        /\ \A f \in Calls \ {g} : flight'[f] = flight[f]
        /\ flight[g].phase \in Unsettled /\ flight'[g].phase \in Unsettled
        /\ flight'[g].key = flight[g].key
        /\ flight'[g].cleared = flight[g].cleared
        /\ flight'[g].consumers = flight[g].consumers
    BY <1>3 DEF StartFactory, FinishFactory, IInv, TypeOK, FlightRecord, Unsettled
  <2>2. TypeOK'
    BY <1>1, <1>3, <2>1 DEF StartFactory, FinishFactory, IInv, TypeOK,
       FlightRecord, FlightPhases, Unsettled
  <2>3. ConsumersCounted'
    BY <1>2, <2>1, CountKept DEF IInv
  <2>4. RegistryExact' /\ CallsConsistent'
    BY <1>1, <2>1 DEF IInv, TypeOK, RegistryExact, CallsConsistent, Unsettled
  <2> QED  BY <2>2, <2>3, <2>4 DEF IInv
<1>4. CASE Finally(g)
  <2>1. /\ flight[g].phase = "finished" /\ flight'[g].phase = "settled"
        /\ registry' = IF registry[flight[g].key] = g
                       THEN [registry EXCEPT ![flight[g].key] = NoFlight]
                       ELSE registry
        /\ \A f \in Calls \ {g} : flight'[f] = flight[f]
        /\ flight'[g].key = flight[g].key
        /\ flight'[g].cleared = flight[g].cleared
        /\ flight'[g].consumers = flight[g].consumers
        /\ flight[g].key \in Keys
    BY <1>4 DEF Finally, Forgotten, IInv, TypeOK, FlightRecord
  <2>2. TypeOK'
    BY <1>1, <1>4, <2>1 DEF Finally, IInv, TypeOK, FlightRecord, FlightPhases
  <2>3. ConsumersCounted'
    BY <1>2, <2>1, CountKept DEF IInv
  <2>4. RegistryExact'
    BY <2>1 DEF IInv, TypeOK, FlightRecord, RegistryExact, Unsettled
  <2>5. CallsConsistent'
    BY <1>1, <2>1 DEF IInv, TypeOK, CallsConsistent
  <2> QED  BY <2>2, <2>3, <2>4, <2>5 DEF IInv
<1> QED  BY <1>3, <1>4 DEF FlightStep

(* clear() drops every registered record and leaves its consumers counted. *)
LEMMA ClearInv == ASSUME IInv, Clear PROVE IInv'
<1> USE FlightAssumption DEF Flights
<1>1. /\ call' = call /\ settler' = settler /\ background' = {}
      /\ registry' = [k \in Keys |-> NoFlight]
  BY DEF Clear
<1>2. ASSUME NEW f \in Calls
      PROVE  /\ flight'[f] \in FlightRecord
             /\ flight'[f].phase = flight[f].phase
             /\ flight'[f].key = flight[f].key
             /\ flight'[f].consumers = flight[f].consumers
             /\ flight'[f].cleared = (flight[f].cleared \/ f \in Registered)
  <2>1. flight[f] \in FlightRecord  BY DEF IInv, TypeOK
  <2>2. CASE f \in Registered
    <3>1. flight'[f] = [flight[f] EXCEPT !.aborted = TRUE, !.cleared = TRUE]
      BY <2>2 DEF Clear
    <3> QED  BY <2>1, <2>2, <3>1 DEF FlightRecord
  <2>3. CASE f \notin Registered
    <3>1. flight'[f] = flight[f]  BY <2>3 DEF Clear
    <3>2. flight[f].cleared \in BOOLEAN  BY <2>1 DEF FlightRecord
    <3> QED  BY <2>1, <2>3, <3>1, <3>2
  <2> QED  BY <2>2, <2>3
<1>3. TypeOK'
  <2>1. flight' \in [Flights -> FlightRecord]
    BY <1>2 DEF Clear
  <2> QED  BY <1>1, <2>1 DEF IInv, TypeOK
<1>4. ConsumersCounted'
  BY <1>1, <1>2, CountKept DEF IInv, Waiting
<1>5. \A f \in Calls : flight[f].phase \in Unsettled /\ ~flight[f].cleared
                       => f \in Registered
  BY DEF IInv, TypeOK, FlightRecord, RegistryExact, Registered
<1>6. RegistryExact'
  BY <1>1, <1>2, <1>5 DEF IInv, TypeOK, FlightRecord, RegistryExact
<1>7. CallsConsistent'
  BY <1>1, <1>2 DEF IInv, CallsConsistent
<1> QED  BY <1>3, <1>4, <1>6, <1>7 DEF IInv

(* settle() and the bookkeeping of background calls change no record.      *)
LEMMA QuietInv ==
  ASSUME IInv, UNCHANGED <<registry, flight, call>>,
         background' \in SUBSET Calls,
         settler' \in [phase : {"idle", "waiting", "done"},
                       flights : SUBSET Flights, tasks : SUBSET Calls]
  PROVE  IInv'
BY DEF IInv, TypeOK, ConsumersCounted, Waiting, RegistryExact, CallsConsistent

(* Every step keeps the inductive invariant, one case for each action.     *)
LEMMA NextInv == IInv /\ [Next]_vars => IInv'
<1> SUFFICES ASSUME IInv, [Next]_vars PROVE IInv'  OBVIOUS
<1>1. ASSUME NEW c \in Calls, CallStep(c) PROVE IInv'
  <2>1. ASSUME NEW k \in Keys, NEW mode \in Modes, StartFlight(c, k, mode)
        PROVE  IInv'
    BY <2>1, StartFlightInv
  <2>2. ASSUME NEW k \in Keys, NEW mode \in Modes, JoinFlight(c, k, mode)
        PROVE  IInv'
    BY <2>2, JoinFlightInv
  <2>3. CASE RejectRun(c)
    <3>1. call' = [call EXCEPT ![c] = [call[c] EXCEPT !.phase = "aborted",
                                                      !.mode = "signal"]]
      BY <2>3 DEF RejectRun, IInv, TypeOK, CallRecord
    <3>2. [call[c] EXCEPT !.phase = "aborted", !.mode = "signal"] \in CallRecord
      BY DEF IInv, TypeOK, CallRecord, CallPhases, Modes
    <3> QED  BY <2>3, <3>1, <3>2, CallMovesInv DEF RejectRun, IInv, TypeOK, CallRecord
  <2>4. CASE CancelWaiting(c)
    BY <2>4, ReleaseInv DEF CancelWaiting, CallPhases
  <2>5. CASE CancelReleased(c)
    <3>1. call' = [call EXCEPT ![c] = [call[c] EXCEPT !.phase = "aborted",
                                                      !.gone = TRUE]]
      BY <2>5 DEF CancelReleased, IInv, TypeOK, CallRecord
    <3>2. [call[c] EXCEPT !.phase = "aborted", !.gone = TRUE] \in CallRecord
      BY DEF IInv, TypeOK, CallRecord, CallPhases
    <3> QED  BY <2>5, <3>1, <3>2, CallMovesInv DEF CancelReleased, IInv, TypeOK, CallRecord
  <2>6. CASE CancelIdle(c)
    <3>1. call' = [call EXCEPT ![c] = [call[c] EXCEPT !.gone = TRUE]]
      BY <2>6 DEF CancelIdle, IInv, TypeOK, CallRecord
    <3>2. [call[c] EXCEPT !.gone = TRUE] \in CallRecord
      BY DEF IInv, TypeOK, CallRecord
    <3> QED  BY <2>6, <3>1, <3>2, CallMovesInv DEF CancelIdle, IInv, TypeOK, CallRecord
  <2>7. CASE Deliver(c)
    <3> DEFINE after == IF call[c].mode = "signal" THEN "released"
                        ELSE flight[call[c].flight].outcome
    <3>1. call[c].flight \in Flights
      BY <2>7 DEF Deliver, IInv, CallsConsistent
    <3>2. after \in CallPhases \ {"idle", "waiting"}
      BY <3>1 DEF IInv, TypeOK, FlightRecord, CallPhases, Outcomes
    <3>3. call' = [call EXCEPT ![c].phase = after, ![c].gone = call[c].gone]
      BY <2>7 DEF Deliver, IInv, TypeOK, CallRecord
    <3>4. call[c].gone \in BOOLEAN  BY DEF IInv, TypeOK, CallRecord
    <3>5. /\ call[c].phase = "waiting"
          /\ flight' = [flight EXCEPT ![call[c].flight] = Released(@)]
          /\ registry' = registry /\ background' = background /\ settler' = settler
      BY <2>7 DEF Deliver
    <3> HIDE DEF after
    <3> QED  BY <3>2, <3>3, <3>4, <3>5, ReleaseInv
  <2>8. CASE Resolve(c)
    <3> DEFINE o == flight[call[c].flight].outcome
    <3>1. call' = [call EXCEPT ![c] = [call[c] EXCEPT !.phase = o]]
      BY <2>8 DEF Resolve, IInv, TypeOK, CallRecord
    <3>2. o \in Outcomes
      BY <2>8 DEF Resolve, IInv, TypeOK, CallsConsistent, FlightRecord
    <3>3. [call[c] EXCEPT !.phase = o] \in CallRecord
      BY <3>2 DEF IInv, TypeOK, CallRecord, CallPhases
    <3> QED  BY <2>8, <3>1, <3>2, <3>3, CallMovesInv
             DEF Resolve, IInv, TypeOK, CallRecord, Outcomes
  <2>9. CASE Untrack(c)
    BY <2>9, QuietInv DEF Untrack, IInv, TypeOK
  <2> QED  BY <1>1, <2>1, <2>2, <2>3, <2>4, <2>5, <2>6, <2>7, <2>8, <2>9 DEF CallStep
<1>2. ASSUME NEW f \in Flights, FlightStep(f) PROVE IInv'
  BY <1>2, FlightStepInv
<1>3. CASE Settle \/ SettleWakes
  <2>1. settler' \in [phase : {"idle", "waiting", "done"},
                      flights : SUBSET Flights, tasks : SUBSET Calls]
    BY <1>3 DEF Settle, SettleWakes, AwaitSnapshot, Registered, IInv, TypeOK
  <2>2. UNCHANGED <<registry, flight, call, background>>
    BY <1>3 DEF Settle, SettleWakes
  <2> QED  BY <2>1, <2>2, QuietInv DEF IInv, TypeOK
<1>4. CASE Clear  BY <1>4, ClearInv
<1>5. CASE UNCHANGED vars
  BY <1>5, QuietInv DEF vars, IInv, TypeOK
<1> QED  BY <1>1, <1>2, <1>3, <1>4, <1>5 DEF Next

-----------------------------------------------------------------------------
(* Aborting *)

(* A call that has joined keeps its record, which is alive and remembers   *)
(* that a background revalidation has joined it.                           *)
Attached ==
  \A c \in Calls : call[c].flight # NoFlight =>
     /\ flight[call[c].flight].phase # "unborn"
     /\ call[c].mode = "background" => flight[call[c].flight].keepAlive

(* Joining forgets neither an abort nor an earlier keepAlive.              *)
LEMMA JoinedFlags ==
  ASSUME NEW r \in FlightRecord, NEW b \in BOOLEAN
  PROVE  /\ Joined(r, b).aborted = r.aborted
         /\ Joined(r, b).keepAlive <=> (r.keepAlive \/ b)
BY DEF Joined, FlightRecord

(* release() aborts a record only when it has let its last consumer go.    *)
LEMMA ReleasedFlags ==
  ASSUME NEW r \in FlightRecord
  PROVE  /\ Released(r).keepAlive = r.keepAlive
         /\ Released(r).aborted =>
              \/ r.aborted
              \/ r.consumers - 1 <= 0 /\ ~r.keepAlive /\ r.phase # "settled"
BY DEF Released, FlightRecord

(* Every step keeps the calls attached.                                    *)
LEMMA AttachedInv == IInv /\ Attached /\ [Next]_vars => Attached'
<1> SUFFICES ASSUME IInv, Attached, [Next]_vars PROVE Attached'  OBVIOUS
<1> USE FlightAssumption DEF Flights
<1> DEFINE Kept == \A f \in Calls :
                     flight[f].phase # "unborn" =>
                       /\ flight'[f].phase # "unborn"
                       /\ flight[f].keepAlive => flight'[f].keepAlive
           Still == \A c \in Calls : /\ call'[c].flight = call[c].flight
                                     /\ call[c].flight # NoFlight =>
                                          call'[c].mode = call[c].mode
<1>1. ASSUME Kept, Still PROVE Attached'
  BY <1>1 DEF Attached, IInv, TypeOK, CallRecord
<1> HIDE DEF Kept, Still
<1>2. ASSUME NEW c \in Calls, NEW k \in Keys, NEW mode \in Modes,
             StartFlight(c, k, mode)
      PROVE  Attached'
  <2>1. /\ call' = [call EXCEPT ![c].phase = "waiting", ![c].mode = mode,
                                ![c].flight = c]
        /\ flight' = [flight EXCEPT ![c] = Created(k, mode = "background")]
        /\ flight[c].phase = "unborn"
    BY <1>2 DEF StartFlight, MayRun, Attach, IInv, CallsConsistent
  <2>2. /\ call'[c].flight = c /\ call'[c].mode = mode
        /\ flight'[c].phase # "unborn"
        /\ flight'[c].keepAlive <=> (mode = "background")
    BY <2>1 DEF IInv, TypeOK, CallRecord, Created
  <2>3. ASSUME NEW d \in Calls \ {c}, call'[d].flight # NoFlight
        PROVE  /\ flight'[call'[d].flight].phase # "unborn"
               /\ call'[d].mode = "background"
                    => flight'[call'[d].flight].keepAlive
    <3>1. call'[d] = call[d]  BY <2>1 DEF IInv, TypeOK
    <3>2. call[d].flight \in Calls \ {c}
      BY <2>1, <2>3, <3>1 DEF IInv, TypeOK, CallRecord, Attached
    <3>3. flight'[call[d].flight] = flight[call[d].flight]
      BY <2>1, <3>2 DEF IInv, TypeOK
    <3> QED  BY <2>3, <3>1, <3>3 DEF Attached
  <2> QED  BY <2>2, <2>3 DEF Attached
<1>3. ASSUME NEW c \in Calls, NEW k \in Keys, NEW mode \in Modes,
             JoinFlight(c, k, mode)
      PROVE  Attached'
  <2> PICK g \in {registry[k]} : TRUE  OBVIOUS
  <2>1. /\ call' = [call EXCEPT ![c].phase = "waiting", ![c].mode = mode,
                                ![c].flight = g]
        /\ flight' = [flight EXCEPT ![g] = Joined(@, mode = "background")]
        /\ g \in Calls /\ flight[g].phase \in Unsettled
    BY <1>3 DEF JoinFlight, Attach, IInv, TypeOK, RegistryExact, CallsConsistent
  <2>2. /\ flight'[g] = Joined(flight[g], mode = "background")
        /\ \A f \in Calls \ {g} : flight'[f] = flight[f]
        /\ flight[g] \in FlightRecord /\ (mode = "background") \in BOOLEAN
    BY <2>1 DEF IInv, TypeOK
  <2>3. /\ flight'[g].phase = flight[g].phase
        /\ flight'[g].keepAlive <=> (flight[g].keepAlive \/ mode = "background")
    <3> DEFINE b == mode = "background"
    <3>1. b \in BOOLEAN /\ flight[g] \in FlightRecord
          /\ flight'[g] = Joined(flight[g], b)
      BY <2>2
    <3>2. /\ flight'[g].phase = flight[g].phase
          /\ flight'[g].keepAlive <=> (flight[g].keepAlive \/ b)
      <4> HIDE DEF b
      <4> QED  BY <3>1, JoinedRecord, JoinedFlags
    <3> QED  BY <3>2
  <2>4. Kept  BY <2>2, <2>3 DEF Kept
  <2>5. call'[c].flight = g /\ call'[c].mode = mode
    BY <2>1 DEF IInv, TypeOK, CallRecord
  <2>6. \A d \in Calls \ {c} : call'[d] = call[d]
    BY <2>1 DEF IInv, TypeOK
  <2>7. flight'[g].phase # "unborn"  BY <2>1, <2>3 DEF Unsettled
  <2> QED  BY <2>3, <2>4, <2>5, <2>6, <2>7
           DEF Attached, Kept, IInv, TypeOK, CallRecord
<1>4. ASSUME NEW c \in Calls, RejectRun(c) PROVE Attached'
  <2>1. Kept  BY <1>4 DEF Kept, RejectRun
  <2>2. Still
    BY <1>4 DEF Still, RejectRun, IInv, TypeOK, CallRecord, CallsConsistent
  <2> QED  BY <2>1, <2>2, <1>1
<1>5. ASSUME NEW c \in Calls, CancelWaiting(c) \/ Deliver(c) PROVE Attached'
  <2>1. Still
    BY <1>5 DEF Still, CancelWaiting, Deliver, IInv, TypeOK, CallRecord
  <2> PICK g \in {call[c].flight} : TRUE  OBVIOUS
  <2>2. g \in Calls /\ flight' = [flight EXCEPT ![g] = Released(@)]
    BY <1>5 DEF CancelWaiting, Deliver, IInv, CallsConsistent
  <2>3. /\ flight'[g] = Released(flight[g]) /\ flight[g] \in FlightRecord
        /\ \A f \in Calls \ {g} : flight'[f] = flight[f]
    BY <2>2 DEF IInv, TypeOK
  <2>4. Kept  BY <2>3, ReleasedRecord, ReleasedFlags DEF Kept
  <2> QED  BY <2>1, <2>4, <1>1
<1>6. ASSUME NEW c \in Calls,
             CancelReleased(c) \/ CancelIdle(c) \/ Resolve(c) \/ Untrack(c)
      PROVE  Attached'
  <2>1. Kept
    BY <1>6 DEF Kept, CancelReleased, CancelIdle, Resolve, Untrack
  <2>2. Still
    BY <1>6 DEF Still, CancelReleased, CancelIdle, Resolve, Untrack, IInv,
       TypeOK, CallRecord
  <2> QED  BY <2>1, <2>2, <1>1
<1>7. ASSUME NEW g \in Flights, FlightStep(g) PROVE Attached'
  <2>1. Still
    BY <1>7 DEF Still, FlightStep, StartFactory, FinishFactory, Finally
  <2>2. /\ \A f \in Calls \ {g} : flight'[f] = flight[f]
        /\ flight'[g].phase # "unborn"
        /\ flight'[g].keepAlive = flight[g].keepAlive
    BY <1>7 DEF FlightStep, StartFactory, FinishFactory, Finally, IInv, TypeOK,
       FlightRecord
  <2>3. Kept  BY <2>2 DEF Kept
  <2> QED  BY <2>1, <2>3, <1>1
<1>8. CASE Clear
  <2>1. Still  BY <1>8 DEF Still, Clear
  <2>2. Kept
    <3> SUFFICES ASSUME NEW f \in Calls
                 PROVE  /\ flight'[f].phase = flight[f].phase
                        /\ flight'[f].keepAlive = flight[f].keepAlive
      BY DEF Kept
    <3>1. flight[f] \in FlightRecord  BY DEF IInv, TypeOK
    <3> QED  BY <1>8, <3>1 DEF Clear, FlightRecord
  <2> QED  BY <2>1, <2>2, <1>1
<1>9. CASE Settle \/ SettleWakes \/ UNCHANGED vars
  BY <1>9 DEF Settle, SettleWakes, vars, Attached
<1> QED
  BY <1>2, <1>3, <1>4, <1>5, <1>6, <1>7, <1>8, <1>9 DEF Next, CallStep

(* A step that aborts a record is clear(), or lets its last consumer go    *)
(* when no background revalidation has joined it.                          *)
LEMMA AbortStep ==
  ASSUME IInv, IInv', Attached, [Next]_vars, NEW g \in Flights,
         ~flight[g].aborted, flight'[g].aborted
  PROVE  \/ ~flight[g].cleared /\ flight'[g].cleared
         \/ /\ Waiting(g)' = {}
            /\ flight[g].phase # "settled"
            /\ \A c \in Calls : call[c].flight = g =>
                                    call[c].mode # "background"
<1> USE FlightAssumption DEF Flights
<1> DEFINE Same == flight'[g].aborted = flight[g].aborted
<1>1. flight[g] \in FlightRecord /\ g # NoFlight  BY DEF IInv, TypeOK
<1>2. ASSUME NEW c \in Calls, NEW k \in Keys, NEW mode \in Modes,
             StartFlight(c, k, mode)
      PROVE  Same
  <2>1. /\ g # c => flight'[g] = flight[g]
        /\ g = c => ~flight'[g].aborted
    BY <1>2 DEF StartFlight, Created, IInv, TypeOK
  <2> QED  BY <2>1
<1>3. ASSUME NEW c \in Calls, NEW k \in Keys, NEW mode \in Modes,
             JoinFlight(c, k, mode)
      PROVE  Same
  <2> DEFINE b == mode = "background"
  <2>1. b \in BOOLEAN /\ flight'[g] \in {flight[g], Joined(flight[g], b)}
    BY <1>3 DEF JoinFlight, IInv, TypeOK
  <2> HIDE DEF b
  <2> QED  BY <1>1, <2>1, JoinedFlags
<1>4. ASSUME NEW c \in Calls, CancelWaiting(c) \/ Deliver(c)
      PROVE  /\ Waiting(g)' = {} /\ flight[g].phase # "settled"
             /\ \A d \in Calls : call[d].flight = g =>
                                     call[d].mode # "background"
  <2>1. flight' = [flight EXCEPT ![call[c].flight] = Released(@)]
    BY <1>4 DEF CancelWaiting, Deliver
  <2>2. flight'[g] = Released(flight[g])
    BY <1>1, <2>1 DEF IInv, TypeOK
  <2>3. /\ flight[g].consumers - 1 <= 0 /\ ~flight[g].keepAlive
        /\ flight[g].phase # "settled"
    BY <1>1, <2>2, ReleasedFlags
  <2>4. flight'[g].consumers <= 0
    BY <1>1, <2>2, <2>3, ReleasedRecord
  <2>5. Cardinality(Waiting(g)') = flight'[g].consumers
    BY DEF IInv, ConsumersCounted
  <2>6. IsFiniteSet(Waiting(g)') /\ Cardinality(Waiting(g)') \in Nat
    <3>1. Waiting(g)' \in SUBSET Calls  BY DEF Waiting
    <3> QED  BY <3>1, FS_Subset, FS_CardinalityType, FiniteAssumption
  <2>7. Waiting(g)' = {}
    BY <2>4, <2>5, <2>6, FS_EmptySet
  <2> QED  BY <1>1, <2>3, <2>7 DEF Attached
<1>5. ASSUME NEW c \in Calls,
             \/ RejectRun(c) \/ CancelReleased(c) \/ CancelIdle(c)
             \/ Resolve(c) \/ Untrack(c)
      PROVE  Same
  BY <1>5 DEF RejectRun, CancelReleased, CancelIdle, Resolve, Untrack
<1>6. ASSUME NEW f \in Flights, FlightStep(f) PROVE Same
  BY <1>1, <1>6 DEF FlightStep, StartFactory, FinishFactory, Finally, IInv,
     TypeOK, FlightRecord
<1>7. CASE Clear
  <2>1. CASE g \in Registered
    <3>1. flight'[g].cleared  BY <1>1, <1>7, <2>1 DEF Clear, FlightRecord
    <3>2. ~flight[g].cleared
      <4> PICK k \in Keys : registry[k] = g  BY <2>1 DEF Registered
      <4>1. flight[g].key = k  BY <1>1 DEF IInv, CallsConsistent
      <4> QED  BY <4>1 DEF IInv, RegistryExact
    <3> QED  BY <3>1, <3>2
  <2>2. CASE g \notin Registered
    BY <1>7, <2>2 DEF Clear
  <2> QED  BY <2>1, <2>2
<1>8. CASE Settle \/ SettleWakes \/ UNCHANGED vars
  BY <1>8 DEF Settle, SettleWakes, vars
<1> QED
  BY <1>2, <1>3, <1>4, <1>5, <1>6, <1>7, <1>8 DEF Next, CallStep

-----------------------------------------------------------------------------
(* Every reachable state satisfies the inductive invariant.                *)
THEOREM Invariance == Spec => []IInv
<1> QED  BY InitInv, NextInv, PTL DEF Spec

(* Records, calls and the map keep their types: in particular no record's  *)
(* consumers count drops below zero.                                       *)
THEOREM TypeCorrect == Spec => []TypeOK
<1>1. IInv => TypeOK  BY DEF IInv
<1> QED  BY <1>1, Invariance, PTL

(* The count of consumers that decides whether to abort is the number of   *)
(* calls still waiting, whatever order they join, cancel and are served in.*)
THEOREM CountCorrect == Spec => []ConsumersCounted
<1>1. IInv => ConsumersCounted  BY DEF IInv
<1> QED  BY <1>1, Invariance, PTL

(* At most one computation of a key is under way that clear() did not drop.*)
THEOREM Coalescing == Spec => []OneFlightPerKey
<1>1. IInv => OneFlightPerKey
  BY DEF IInv, RegistryExact, OneFlightPerKey
<1> QED  BY <1>1, Invariance, PTL

(* The map names exactly the computations that a new call has to join.     *)
THEOREM RegistryCorrect == Spec => []RegistryExact
<1>1. IInv => RegistryExact  BY DEF IInv
<1> QED  BY <1>1, Invariance, PTL

(* A computation is aborted only when nobody waits for it and no background*)
(* revalidation has joined it, or by clear(); never after it has settled.  *)
THEOREM AbortCorrect == Spec => AbortOnlyWhenAbandoned
<1>1. Init => Attached
  BY FlightAssumption DEF Init, Attached
<1>2. IInv /\ IInv' /\ Attached /\ [Next]_vars =>
        [\A f \in Flights :
           (~flight[f].aborted /\ flight[f].aborted') =>
             \/ ~flight[f].cleared /\ flight[f].cleared'
             \/ /\ Waiting(f)' = {}
                /\ flight[f].phase # "settled"
                /\ \A c \in Calls : call[c].flight = f =>
                                        call[c].mode # "background"]_vars
  BY AbortStep
<1> QED
  BY <1>1, <1>2, AttachedInv, Invariance, PTL DEF Spec, AbortOnlyWhenAbandoned

(* settle() resolves only when the map is empty, and then every computation*)
(* that clear() has not dropped is over.                                   *)
THEOREM SettleCorrect == Spec => SettleWaitsForAll
<1>1. IInv /\ [Next]_vars =>
        [(settler.phase # "done" /\ settler'.phase = "done") =>
           \A f \in Flights : flight[f].phase \in Unsettled
                               => flight[f].cleared]_vars
  <2> SUFFICES ASSUME IInv, [Next]_vars, settler.phase # "done",
                      settler'.phase = "done",
                      NEW f \in Flights, flight[f].phase \in Unsettled
               PROVE  flight[f].cleared
    OBVIOUS
  <2>1. settler' # settler  OBVIOUS
  <2>2. Settle \/ SettleWakes
    BY <2>1 DEF Next, vars, CallStep, FlightStep, StartFlight, JoinFlight,
       RejectRun, CancelWaiting, CancelReleased, CancelIdle, Deliver, Resolve,
       Untrack, StartFactory, FinishFactory, Finally, Clear
  <2>3. Registered = {}
    BY <2>2 DEF Settle, SettleWakes, AwaitSnapshot
  <2>4. flight[f].key \in Keys  BY DEF IInv, TypeOK, FlightRecord
  <2>5. registry[flight[f].key] # f  BY <2>3, <2>4 DEF Registered
  <2> QED  BY <2>5 DEF IInv, RegistryExact
<1> QED  BY <1>1, Invariance, PTL DEF Spec, SettleWaitsForAll

=============================================================================
